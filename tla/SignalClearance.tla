-------------------------- MODULE SignalClearance --------------------------
(***************************************************************************)
(* What the lamps of one junction promise to road users, whoever decides   *)
(* the phases: a green runs for at least MinGreen and at most MaxGreen     *)
(* seconds, it is left only through its own clearing yellow, and the       *)
(* yellow runs for exactly Yellow seconds before a different phase opens.  *)
(* SignalController is shown to implement this machine.                    *)
(***************************************************************************)
EXTENDS Naturals

CONSTANTS
    Phases,     \* the green phases of the junction
    MinGreen,   \* shortest green, in seconds
    MaxGreen,   \* longest green, in seconds
    Yellow      \* clearance, in seconds

VARIABLES
    lamp,       \* what is displayed: a colour and the phase it belongs to
    held        \* whole seconds for which it has been displayed

lampVars == <<lamp, held>>

Lamps == [colour : {"green", "yellow"}, phase : Phases]

Init ==
    /\ lamp \in [colour : {"green"}, phase : Phases]
    /\ held = 0

\* One more second of the same green or yellow.
Hold ==
    /\ held + 1 < IF lamp.colour = "green" THEN MaxGreen ELSE Yellow
    /\ held' = held + 1
    /\ UNCHANGED lamp

\* The green ends: its own clearing yellow is shown.
Leave ==
    /\ lamp.colour = "green"
    /\ held + 1 \in MinGreen .. MaxGreen
    /\ lamp' = [colour |-> "yellow", phase |-> lamp.phase]
    /\ held' = 0

\* The clearance ends: a phase other than the one just left opens.
Open ==
    /\ lamp.colour = "yellow"
    /\ held + 1 = Yellow
    /\ \E p \in Phases \ {lamp.phase} : lamp' = [colour |-> "green", phase |-> p]
    /\ held' = 0

Next == Hold \/ Leave \/ Open

Spec == Init /\ [][Next]_lampVars
=============================================================================
