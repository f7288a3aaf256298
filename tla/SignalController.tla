-------------------------- MODULE SignalController --------------------------
(***************************************************************************)
(* One junction driven by MaxPressureController.step (src/controllers.py), *)
(* one step of the module per simulated second.  The phase wanted by       *)
(* decide() is MaxPressure's, or any phase at all when a subclass (hybrid, *)
(* coordinated, emergency) overrides decide(); an emergency subclass may   *)
(* also report a preemption lock.  The anti-starvation floor then fixes    *)
(* the phase that is served, and the skip counters are updated.            *)
(*                                                                         *)
(* Junctions share no state but the violation counter, so one is modelled. *)
(* held, wait and free are history variables: the code does not keep them. *)
(***************************************************************************)
EXTENDS Integers, FiniteSets

CONSTANTS
    N,              \* number of green phases of the junction's program
    MinGreen,       \* seconds between decisions (ctor argument, 10)
    Yellow,         \* seconds of clearing yellow (ctor argument, 3)
    MaxSkip,        \* skips after which a phase is force-served (3)
    Enabled,        \* ctor argument anti_starvation_enabled
    Pressures,      \* the values _pressure may return
    Subclass,       \* TRUE: a subclass overrides decide()
    Preemptible,    \* TRUE: a subclass may report a preemption lock
    AgeCap,         \* bound: no lock once a skip counter has reached AgeCap
    ViolationCap    \* bound: the violation counter stops at ViolationCap

ASSUME SignalAssumption ==
    /\ N \in Nat \ {0}
    /\ MinGreen \in Nat \ {0}
    /\ Yellow \in Nat \ {0}
    /\ MaxSkip \in Nat \ {0}
    /\ Pressures \subseteq Int
    /\ {Enabled, Subclass, Preemptible} \subseteq BOOLEAN
    /\ AgeCap \in Nat
    /\ ViolationCap \in Nat \ {0}

Phases == 0 .. N - 1

VARIABLES
    cur,            \* index of the phase served, or being cleared towards
    mode,           \* "green" or "yellow"
    t,              \* seconds elapsed in the current mode
    skip,           \* decision intervals since each phase was last served
    violations,     \* anti_starvation_violations
    lamp,           \* the last state written with setRedYellowGreenState
    held,           \* history: seconds the lamp has shown its present state
    wait,           \* history: seconds since each phase last showed green
    free            \* history: decisions in a row without a lock, up to N

vars == <<cur, mode, t, skip, violations, lamp, held, wait, free>>

-----------------------------------------------------------------------------
Green(p) == [colour |-> "green", phase |-> p]

\* "yellow" holds, for each green, the phase after it in the program.
ClearingYellow(p) == [colour |-> "yellow", phase |-> p]

\* The argmax of decide(): greatest pressure, the first index on a tie.
IsMaxPressure(p, pressure) ==
    \A q \in Phases : \/ pressure[q] < pressure[p]
                      \/ pressure[q] = pressure[p] /\ p <= q

\* The phases decide() may return under these pressures.
Wanted(pressure) ==
    IF Subclass THEN Phases ELSE {p \in Phases : IsMaxPressure(p, pressure)}

\* _preempt_locked_phase is not None.  A lock is bounded by AgeCap only so
\* that the skip counters are.
MayBeLocked ==
    IF Preemptible /\ \A p \in Phases : skip[p] < AgeCap
    THEN BOOLEAN ELSE {FALSE}

\* Mutant: the threshold compared with > instead of >=.
ReachedLate == {p \in Phases : skip[p] > MaxSkip}

\* Mutant: only the decision at which the threshold is met counts.
ReachedExactly == {p \in Phases : skip[p] = MaxSkip}

Reached == {p \in Phases : skip[p] >= MaxSkip}

\* The key (skip, pressure, -index) of p is above that of q.
MoreStarved(p, q, pressure) ==
    \/ skip[p] > skip[q]
    \/ skip[p] = skip[q] /\ pressure[p] > pressure[q]
    \/ skip[p] = skip[q] /\ pressure[p] = pressure[q] /\ p < q

AntiStarvationChoice(normal, pressure, locked, best) ==
    IF Enabled /\ ~locked /\ Reached # {} /\ normal \notin Reached
    THEN /\ best \in Reached
         /\ \A q \in Reached \ {best} : MoreStarved(best, q, pressure)
    ELSE best = normal

\* Mutant: the phase being left is reset, not the phase served.
SkipAfterOfCurrent(served) ==
    [q \in Phases |-> IF q = cur THEN 0 ELSE skip[q] + 1]

\* Mutant: a decision that keeps the current phase does not age the others.
SkipAfterChangeOnly(served) ==
    [q \in Phases |-> IF q = served THEN 0
                      ELSE IF served = cur THEN skip[q] ELSE skip[q] + 1]

SkipAfter(served) ==
    [q \in Phases |-> IF q = served THEN 0 ELSE skip[q] + 1]

RecordService(served, locked) ==
    /\ skip' = SkipAfter(served)
    /\ violations' =
         IF /\ ~locked
            /\ \E q \in Phases : SkipAfter(served)[q] > MaxSkip
            /\ violations < ViolationCap
         THEN violations + 1
         ELSE violations

\* Mutant: the second counter is not reset when the phase is kept.
ActuateWithoutReset(best) ==
    IF best # cur
    THEN /\ lamp' = ClearingYellow(cur)
         /\ mode' = "yellow" /\ t' = 0 /\ cur' = best
    ELSE t' = t + 1 /\ UNCHANGED <<lamp, mode, cur>>

\* Mutant: the yellow of the phase that opens next is shown.
ActuateNextYellow(best) ==
    IF best # cur
    THEN /\ lamp' = ClearingYellow(best)
         /\ mode' = "yellow" /\ t' = 0 /\ cur' = best
    ELSE t' = 0 /\ UNCHANGED <<lamp, mode, cur>>

\* A change of phase shows the clearing yellow of the phase being left.
Actuate(best) ==
    IF best # cur
    THEN /\ lamp' = ClearingYellow(cur)
         /\ mode' = "yellow" /\ t' = 0 /\ cur' = best
    ELSE t' = 0 /\ UNCHANGED <<lamp, mode, cur>>

\* The history: the second that ends with this step was spent under lamp.
Elapse ==
    /\ held' = IF lamp' = lamp THEN held + 1 ELSE 0
    /\ wait' = [p \in Phases |-> IF lamp = Green(p) THEN 0 ELSE wait[p] + 1]

-----------------------------------------------------------------------------
\* The constructor serves phase 0 and counts it as decision interval 0.
Init ==
    /\ cur = 0 /\ mode = "green" /\ t = 0
    /\ skip = [q \in Phases |-> IF q = 0 THEN 0 ELSE 1]
    /\ violations = 0
    /\ lamp = Green(0)
    /\ held = 0
    /\ wait = [p \in Phases |-> 0]
    /\ free = N

Wait ==
    /\ t + 1 < IF mode = "yellow" THEN Yellow ELSE MinGreen
    /\ t' = t + 1
    /\ UNCHANGED <<cur, mode, skip, violations, lamp, free>>
    /\ Elapse

YellowEnds ==
    /\ mode = "yellow" /\ t + 1 >= Yellow
    /\ lamp' = Green(cur) /\ mode' = "green" /\ t' = 0
    /\ UNCHANGED <<cur, skip, violations, free>>
    /\ Elapse

Decide ==
    /\ mode = "green" /\ t + 1 >= MinGreen
    /\ \E pressure \in [Phases -> Pressures], locked \in MayBeLocked :
         \E normal \in Wanted(pressure), best \in Phases :
            /\ AntiStarvationChoice(normal, pressure, locked, best)
            /\ RecordService(best, locked)
            /\ Actuate(best)
            /\ free' = IF locked THEN 0 ELSE IF free < N THEN free + 1 ELSE N
    /\ Elapse

Next == Wait \/ YellowEnds \/ Decide

Spec == Init /\ [][Next]_vars

-----------------------------------------------------------------------------
TypeOK ==
    /\ cur \in Phases
    /\ mode \in {"green", "yellow"}
    /\ t \in Nat
    /\ t < IF mode = "yellow" THEN Yellow ELSE MinGreen
    /\ skip \in [Phases -> Nat]
    /\ violations \in 0 .. ViolationCap
    /\ lamp \in [colour : {"green", "yellow"}, phase : Phases]
    /\ held \in Nat
    /\ wait \in [Phases -> Nat]
    /\ free \in 0 .. N

\* The floor's real guarantee (_anti_starvation_choice): with no preemption
\* and at most MaxSkip + 1 phases, no phase is passed over for more than
\* MaxSkip + N - 2 decisions in a row.  Several phases can reach the
\* threshold together and only one is served, hence the N - 2.
SkipBound == \A p \in Phases : skip[p] <= MaxSkip + N - 2

\* Why SkipBound holds: while a phase is e over the threshold, more than e
\* phases are still within e decisions of their last service.
Recent(e) == {q \in Phases : skip[q] <= e}

OverdueAreOutnumbered ==
    \A p \in Phases :
        skip[p] >= MaxSkip =>
            Cardinality(Recent(skip[p] - MaxSkip)) > skip[p] - MaxSkip

\* The worst red a road user sees, in seconds (step's green/yellow clock
\* composed with the floor): each of the skipped decisions costs at most one
\* green and one yellow, and the phase's own opening yellow comes last.
\* As every step takes one second and the controller never deadlocks, this is
\* also what makes every phase green again and again.
WaitBound ==
    \A p \in Phases :
        wait[p] <= (MaxSkip + N - 2) * (MinGreen + Yellow) + Yellow

\* The fairness debt a preemption leaves behind (skip counters age under a
\* lock) is repaid promptly: N - 1 decisions after the last lock the counters
\* are back within the bound that holds without any preemption.
DebtRepaid == free >= N - 1 => SkipBound

\* On a two-phase junction the floor never fails, even when preemptions
\* have starved the other phase: anti_starvation_violations stays 0.
NoViolations == violations = 0

\* The lamps keep the promise of SignalClearance: no green is cut short or
\* runs beyond MaxSkip * MinGreen, and every change is cleared.
Lamps == INSTANCE SignalClearance WITH MaxGreen <- MaxSkip * MinGreen

LampsKeepClearance == Lamps!Spec
=============================================================================
