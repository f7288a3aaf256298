-------------------------- MODULE ConservationFeed --------------------------
(***************************************************************************)
(* The windowed conservation check of one edge, from the vehicles read on  *)
(* it to the verdict: the entry and exit log of FlowWindow                 *)
(* (src/flow_accounting.py), the claim an upstream junction signs over its *)
(* own window, and the reconciliation when the downstream junction decides *)
(* (src/coordinated_controller.py), which feeds the CUSUM.                 *)
(*                                                                         *)
(* Publishing and reconciling are not synchronised: a claim may be read    *)
(* long after it was measured, with reads of the edge failing in between.  *)
(*                                                                         *)
(* Vehicles are counted: one that is back on an edge within a window is    *)
(* left out.  The band is its floor (rel_frac = storage_uncert = 0), of    *)
(* Band units, a unit being one vehicle with the default floor of two.     *)
(***************************************************************************)
EXTENDS CusumDetector, FiniteSets

CONSTANTS
    Span,       \* FlowWindow.window, in steps
    Retain,     \* FlowWindow.retain
    Lies,       \* what a sender may add to its count, 0 included
    MaxTime,    \* bound: simulated steps
    MaxMoves    \* bound: vehicles that enter, and that leave, in a step

Times == 0 .. MaxTime
Claims == [release : Nat, measT : Nat \cup {None}, honest : BOOLEAN]

ASSUME FeedAssumption ==
    /\ Span \in Nat \ {0} /\ Retain \in Nat /\ Retain >= Span
    /\ Lies \subseteq Nat /\ MaxTime \in Nat /\ MaxMoves \in Nat
    /\ None \notin Claims

VARIABLES
    now,            \* simulation.getTime()
    onEdge,         \* vehicles in last_seen
    entries, exits, \* the entry and exit events kept: when, and which of then
    claim,          \* the last message in the inbox, or None
    lastStorage,    \* EdgeState.last_storage
    residual,       \* EdgeVerdict.residual
    stored,         \* history: onEdge after each step
    reconciled      \* history: when the detector was last updated

feedVars == <<now, onEdge, entries, exits, claim, lastStorage, residual, stored, reconciled>>
vars == <<feedVars, cusumVars>>

-----------------------------------------------------------------------------
\* FlowWindow.

Smaller(i, j) == IF i <= j THEN i ELSE j

\* Both ends of the window that ends at a time are counted.
Counted(events, at) == Cardinality({e \in events : e[1] \in at - Span .. at})

ReleasedInWindow(at) == Counted(entries, at)

\* Mutant: exits are counted up to the present.
ExitedUpToNow(at) == Counted(exits, now)

ExitedInWindow(at) == Counted(exits, at)

\* Mutant: what is outside the counting window is pruned.
PruneToSpan(events, at) == {e \in events : e[1] >= at - Span}

Prune(events, at) == {e \in events : e[1] >= at - Retain}

Moves(n) == {now + 1} \X (1 .. n)

Observe(in, out) ==
    /\ entries' = Prune(entries \cup Moves(in), now + 1)
    /\ exits' = Prune(exits \cup Moves(out), now + 1)
    /\ onEdge' = onEdge + in - out

\* A step of the simulation: the edge is read; or it fails to be and the
\* other edges are; or none is.
Step ==
    /\ now < MaxTime
    /\ now' = now + 1
    /\ \/ \E in \in 0 .. MaxMoves, out \in 0 .. Smaller(MaxMoves, onEdge) : Observe(in, out)
       \/ /\ entries' = Prune(entries, now + 1)
          /\ exits' = Prune(exits, now + 1)
          /\ UNCHANGED onEdge
       \/ UNCHANGED <<entries, exits, onEdge>>
    /\ stored' = [stored EXCEPT ![now + 1] = onEdge']
    /\ UNCHANGED <<claim, lastStorage, residual, reconciled, cusumVars>>

-----------------------------------------------------------------------------
\* The sender signs its count and when it was measured.  Of the messages in
\* an inbox the last one counts, so that is the one kept.
Publish ==
    \E lie \in Lies, measT \in Times \cup {now + 1} :
        /\ lie = 0 => measT = now
        /\ claim' = [release |-> ReleasedInWindow(now) + lie, measT |-> measT,
                     honest |-> lie = 0]
        /\ UNCHANGED <<now, onEdge, entries, exits, lastStorage, residual, stored,
                       reconciled, cusumVars>>

\* A message to the sender's other neighbours is read here too: it claims 0,
\* measured at no time, and leaves a claim that came before as it is.
PublishUnaddressed ==
    /\ claim = None
    /\ claim' = [release |-> 0, measT |-> None, honest |-> FALSE]
    /\ UNCHANGED <<now, onEdge, entries, exits, lastStorage, residual, stored,
                   reconciled, cusumVars>>

\* The end of the window that is reconciled: never beyond the present.
RefTime ==
    IF claim = None \/ claim.measT = None THEN now ELSE Smaller(claim.measT, now)

Residual(entered, exited) ==
    entered - exited - (onEdge - (IF lastStorage = None THEN onEdge ELSE lastStorage))

\* The receiver decides; the release of a neighbour that sent nothing counts
\* as 0 if vehicles came in all the same.
Reconcile ==
    /\ reconciled # now
    /\ claim # None \/ ReleasedInWindow(now) > 0
    /\ LET entered == IF claim = None THEN 0 ELSE claim.release
           r == Residual(entered, ExitedInWindow(RefTime))
       IN /\ residual' = r
          /\ \E jam \in BOOLEAN : Window(r, jam)
    /\ lastStorage' = onEdge
    /\ claim' = None
    /\ reconciled' = now
    /\ UNCHANGED <<now, onEdge, entries, exits, stored>>

-----------------------------------------------------------------------------
Init ==
    /\ now = 0
    /\ onEdge = 0
    /\ entries = {} /\ exits = {}
    /\ claim = None
    /\ lastStorage = None
    /\ residual = 0
    /\ stored = [t \in Times |-> 0]
    /\ reconciled = None
    /\ CusumInit

Next == Step \/ Publish \/ PublishUnaddressed \/ Reconcile

Spec == Init /\ [][Next]_vars

-----------------------------------------------------------------------------
TypeOK ==
    /\ now \in Times
    /\ onEdge \in Nat
    /\ entries \cup exits \subseteq Times \X (1 .. MaxMoves)
    /\ claim \in Claims \cup {None}
    /\ lastStorage \in Nat \cup {None}
    /\ residual \in Int
    /\ SumsBounded
    /\ seen \in Nat /\ streak \in Nat
    /\ drift \in Nat \cup {None}

\* Everything a window that ends at a time counts is still kept.
Retained(at) == at - Span >= now - Retain

\* _observed_inflows: however late an honest claim is read, the receiver
\* counts over the sender's window what the sender counted, as long as the
\* log reaches back that far.
ClaimReproducible ==
    claim # None /\ claim.honest /\ Retained(claim.measT) =>
        ReleasedInWindow(claim.measT) = claim.release

Stored(t) == IF t \in Times THEN stored[t] ELSE 0

\* The residual of an honest claim is no discrepancy but says how the edge
\* filled, in the part of the window before the last reconciliation less the
\* time since the claim was measured.  It is 0 in general only for a claim
\* read at once and reconciliations exactly Span + 1 steps apart.
BenignResidual ==
    [][claim # None /\ claim' = None /\ claim.honest /\ Retained(claim.measT) =>
         LET before == IF reconciled = None THEN now ELSE reconciled
         IN residual' = (stored[before] - Stored(claim.measT - Span - 1))
                        - (stored[now] - stored[claim.measT])]_vars
=============================================================================
