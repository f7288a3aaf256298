----------------------------- MODULE Assessment -----------------------------
(***************************************************************************)
(* Reading an audit log (src/assessment.py): which decision explains what  *)
(* happened to a vehicle, and to whom its origin is attributed.  The log   *)
(* is a sequence of entries whose chain and signatures verify; an entry's  *)
(* seq is its position.  One junction's decisions are in it.               *)
(***************************************************************************)
EXTENDS Integers, Sequences, FiniteSets, FiniteSetsExt

CONSTANT None

\* The three kinds of audit_records.py.  driving is a set of <<seq, key>>.
Message(sender, what, ev) ==
    [kind |-> "message", sender |-> sender, what |-> what, ev |-> ev]

KeylessSighting(ev) == [kind |-> "sighting", ev |-> ev]

Decision(driving, executed, policy) ==
    [kind |-> "decision", driving |-> driving, executed |-> executed, policy |-> policy]

Decisions(log) == {i \in DOMAIN log : log[i].kind = "decision"}

EvIdOf(record) == IF record.kind = "decision" THEN None ELSE record.ev

\* The driving inputs of decision i that are about ev.
InputsAbout(log, i, ev) == {pair \in log[i].driving : EvIdOf(log[pair[1]]) = ev}

Matching(log, ev) == {i \in Decisions(log) : InputsAbout(log, i, ev) # {}}

\* Mutant: the latest decision about the vehicle is taken.
CausalDecisionLatest(log, ev) == Max(Matching(log, ev))

\* Of several decisions about the vehicle, the earliest.
CausalDecision(log, ev) == Min(Matching(log, ev))

ClaimerKey(log, i, ev) ==
    (CHOOSE pair \in InputsAbout(log, i, ev) :
        \A other \in InputsAbout(log, i, ev) : pair[1] <= other[1])[2]

SigningKeys(log, i) == {pair[2] : pair \in log[i].driving} \ {None}

\* Keys other than the claimer's, whatever their messages were about.
IndependentKeys(log, i, ev) == SigningKeys(log, i) \ {ClaimerKey(log, i, ev)}

\* The origin and the key it names, as fault_report gives them.
Assess(log, ev) ==
    IF Matching(log, ev) = {}
    THEN [origin |-> "unknown", culprit |-> None]
    ELSE LET i == CausalDecision(log, ev)
         IN IF SigningKeys(log, i) = {}
            THEN [origin |-> "sensor-fed-spoof", culprit |-> None]
            ELSE IF IndependentKeys(log, i, ev) = {}
            THEN [origin |-> "attacker-key", culprit |-> ClaimerKey(log, i, ev)]
            ELSE [origin |-> "legitimate", culprit |-> None]
=============================================================================
