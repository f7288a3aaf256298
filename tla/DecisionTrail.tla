--------------------------- MODULE DecisionTrail ---------------------------
(***************************************************************************)
(* What is put on record of the decisions of one junction: the pipeline of *)
(* a decision interval through CoordinatedController.decide, the rest of   *)
(* EmergencyController.decide, the anti-starvation floor and _on_served    *)
(* (src/coordinated_controller.py, src/emergency_controller.py,            *)
(* src/hybrid_controller.py), with the records of src/audit_records.py.    *)
(*                                                                         *)
(* The records are written by the stages of the pipeline, each of which    *)
(* works out the phase that will be served before it is; the floor, the    *)
(* preemption lock and the context kept for _on_served have to agree.      *)
(*                                                                         *)
(* Claims need corroboration and trust is off (EmergencyTrust has it).     *)
(* What the language model proposes and what the coordination terms prefer *)
(* is left open, and so is what is sent: honest neighbours speak of        *)
(* vehicles that exist.                                                    *)
(***************************************************************************)
EXTENDS Assessment, SequencesExt

CONSTANTS
    N,              \* number of green phases
    MaxSkip,        \* the threshold of the anti-starvation floor
    Pressures,      \* the values _pressure may return
    Neighbours,
    Vehicles,       \* ids that emergency messages speak of
    Real,           \* those of vehicles that exist
    Insiders,       \* neighbours that also speak of others
    MaxIntervals,   \* bound: decision intervals
    MaxMessages     \* bound: messages received

ASSUME TrailAssumption ==
    /\ N \in Nat \ {0} /\ MaxSkip \in Nat \ {0}
    /\ Pressures \subseteq Int
    /\ Real \subseteq Vehicles /\ Insiders \subseteq Neighbours
    /\ None \notin Neighbours \cup Vehicles \cup Nat
    /\ MaxIntervals \in Nat /\ MaxMessages \in Nat

Phases == 0 .. N - 1

VARIABLES
    standing,   \* "member", "hybrid" (no identity) or "plain" (not in slm)
    flowBox,    \* neighbours whose release message waits on the bus
    evBox,      \* emergency messages waiting, in order
    sightings,  \* _sightings: <<vehicle, neighbour>>
    skip,       \* skip counters of the floor
    served,     \* the phase served last
    pc,         \* the stage of the interval that comes next
    pressure,   \* the pressures of this interval
    used,       \* what decide() returns
    lock,       \* _ev_preempt_phase
    ctx,        \* _served_ctx
    event,      \* the entry of events made in this interval, or None
    evEvents,   \* ev_events, as a set
    log,        \* the audit log
    began,      \* history: the length of the log when the interval began
    intervals, received     \* history: counted for the bounds

boxVars == <<flowBox, evBox>>
vars == <<standing, flowBox, evBox, sightings, skip, served, pc, pressure, used,
          lock, ctx, event, evEvents, log, began, intervals, received>>

-----------------------------------------------------------------------------
\* The floor (_anti_starvation_choice), for the lock that is set so far.

Reached == {p \in Phases : skip[p] >= MaxSkip}

MoreStarved(p, q, prs) ==
    \/ skip[p] > skip[q]
    \/ skip[p] = skip[q] /\ prs[p] > prs[q]
    \/ skip[p] = skip[q] /\ prs[p] = prs[q] /\ p <= q

Floor(normal, locked, prs) ==
    IF locked # None \/ Reached = {} \/ normal \in Reached
    THEN normal
    ELSE CHOOSE p \in Reached : \A q \in Reached : MoreStarved(p, q, prs)

MaxPressure(prs) ==
    CHOOSE p \in Phases : \A q \in Phases :
        prs[q] < prs[p] \/ (prs[q] = prs[p] /\ p <= q)

ServedBy(slm, usedPhase, servedPhase) ==
    IF servedPhase # usedPhase THEN "anti_starvation"
    ELSE IF slm # None /\ slm = servedPhase THEN "slm" ELSE "shield"

Event(slm, usedPhase, servedPhase) ==
    [slm |-> slm, used |-> usedPhase, served |-> servedPhase,
     by |-> ServedBy(slm, usedPhase, servedPhase)]

\* The pairs of a decision that consumed the entries from first to last.
Pairs(entries, first, last) ==
    {<<i, IF entries[i].kind = "message" THEN entries[i].sender ELSE None>> :
        i \in first .. last}

-----------------------------------------------------------------------------
\* The interval.

\* Below the gate, or not in slm: MaxPressure, and nothing is logged.
Defer(prs) ==
    /\ used' = MaxPressure(prs)
    /\ ctx' = [recorded |-> MaxPressure(prs), event |-> FALSE, emitted |-> FALSE]
    /\ event' = None
    /\ UNCHANGED <<flowBox, log>>

\* HybridController.decide, for a junction with no identity.
DecideHybrid(prs) ==
    \E proposal \in Phases \cup {None} :
        LET choice == IF proposal = None THEN MaxPressure(prs) ELSE proposal
        IN /\ used' = choice
           /\ event' = Event(proposal, choice, choice)
           /\ ctx' = [recorded |-> choice, event |-> TRUE, emitted |-> FALSE]
           /\ UNCHANGED <<flowBox, log>>

\* The full path: proposal is the model's, choice is it or the coordinated
\* reference (for want of a valid proposal, or because it overrides it).
\* Release messages are consumed, and the record names the phase that the
\* floor will serve if nothing else happens.
DecideCoordinated(prs) ==
    \E proposal \in Phases \cup {None}, choice \in Phases :
        LET entries == log \o [i \in 1 .. Cardinality(flowBox) |->
                                  Message(SetToSeq(flowBox)[i], "release", None)]
        IN /\ used' = choice
           /\ event' = Event(proposal, choice, Floor(choice, None, prs))
           /\ log' = Append(entries,
                            Decision(Pairs(entries, Len(log) + 1, Len(entries)),
                                     Floor(choice, None, prs), "coordination"))
           /\ ctx' = [recorded |-> choice, event |-> TRUE, emitted |-> TRUE]
           /\ flowBox' = {}

Coordinate ==
    /\ pc = "idle" /\ intervals < MaxIntervals
    /\ lock' = None
    /\ began' = Len(log)
    /\ pressure' \in [Phases -> Pressures]
    /\ \/ Defer(pressure')
       \/ standing = "hybrid" /\ DecideHybrid(pressure')
       \/ standing = "member" /\ DecideCoordinated(pressure')
    /\ pc' = IF standing = "member" THEN "emergency" ELSE "serve"
    /\ UNCHANGED <<standing, evBox, sightings, skip, served, evEvents, intervals, received>>

Corroborated(ev, claimer) ==
    \E neighbour \in Neighbours \ {claimer} : <<ev, neighbour>> \in sightings'

\* Mutant: the record is made before the lock is set.
ActOnBeforeLock(entries, ev, claimer, admissible, phase) ==
    LET preempt == IF admissible THEN phase ELSE None
        executed == IF preempt # None THEN preempt ELSE used
    IN /\ lock' = preempt
       /\ used' = executed
       /\ ctx' = [ctx EXCEPT !.emitted = TRUE, !.recorded = executed]
       /\ evEvents' = evEvents \cup {[ev |-> ev, claimer |-> claimer, admissible |-> admissible]}
       /\ log' = Append(entries, Decision(Pairs(entries, Len(log) + 1, Len(entries)),
                                          Floor(executed, lock, pressure), "emergency"))

\* Mutant: _on_served is not told that the decision is on record.
ActOnUntold(entries, ev, claimer, admissible, phase) ==
    LET preempt == IF admissible THEN phase ELSE None
        executed == IF preempt # None THEN preempt ELSE used
    IN /\ lock' = preempt
       /\ used' = executed
       /\ ctx' = [ctx EXCEPT !.recorded = executed]
       /\ evEvents' = evEvents \cup {[ev |-> ev, claimer |-> claimer, admissible |-> admissible]}
       /\ log' = Append(entries, Decision(Pairs(entries, Len(log) + 1, Len(entries)),
                                          Floor(executed, lock', pressure), "emergency"))

\* A trigger is acted on: the lock, the phase returned and the record.
ActOn(entries, ev, claimer, admissible, phase) ==
    LET preempt == IF admissible THEN phase ELSE None
        executed == IF preempt # None THEN preempt ELSE used
    IN /\ lock' = preempt
       /\ used' = executed
       /\ ctx' = [ctx EXCEPT !.emitted = TRUE, !.recorded = executed]
       /\ evEvents' = evEvents \cup {[ev |-> ev, claimer |-> claimer, admissible |-> admissible]}
       /\ log' = Append(entries, Decision(Pairs(entries, Len(log) + 1, Len(entries)),
                                          Floor(executed, lock', pressure), "emergency"))

\* Sensing comes first in the log and as a trigger; then the first claim,
\* which the disambiguator may turn down.  phase serves it, if there is one.
Emergency ==
    /\ pc = "emergency"
    /\ \E local \in Real \cup {None} :
         LET entries == log \o (IF local = None THEN <<>> ELSE <<KeylessSighting(local)>>)
                            \o evBox
             claims == SelectSeq(evBox, LAMBDA m : m.what = "claim")
         IN /\ sightings' = sightings \cup
                  {<<m.ev, m.sender>> : m \in {x \in ToSet(evBox) : x.what = "sighting"}}
            /\ evBox' = <<>>
            /\ \/ /\ local = None /\ claims = <<>>
                  /\ log' = entries
                  /\ UNCHANGED <<used, lock, ctx, evEvents>>
               \/ /\ local # None
                  /\ \E phase \in Phases \cup {None} :
                        ActOn(entries, local, None, TRUE, phase)
               \/ /\ local = None /\ claims # <<>>
                  /\ \E phase \in Phases \cup {None}, agreed \in BOOLEAN :
                        ActOn(entries, claims[1].ev, claims[1].sender,
                              agreed /\ Corroborated(claims[1].ev, claims[1].sender), phase)
    /\ pc' = "serve"
    /\ UNCHANGED <<standing, flowBox, skip, served, pressure, event, began, intervals, received>>

\* _on_served of the coordinated controller: the gate-skip record.
RecordOverride(best) ==
    log' = IF ~ctx.emitted /\ ~ctx.event /\ best # ctx.recorded
           THEN Append(log, Decision({}, best, "coordination"))
           ELSE log

\* _on_served of the hybrid controller: the event is repaired, or made.
RepairEvent(best) ==
    event' = IF ctx.event THEN Event(event.slm, event.used, best)
             ELSE IF best # ctx.recorded THEN Event(None, ctx.recorded, best)
             ELSE None

\* The rest of step(): the floor, _on_served and the skip counters.
Serve ==
    /\ pc = "serve"
    /\ LET best == Floor(used, lock, pressure)
       IN /\ RepairEvent(best)
          /\ RecordOverride(best)
          /\ served' = best
          /\ skip' = [p \in Phases |-> IF p = best THEN 0 ELSE skip[p] + 1]
    /\ pc' = "idle"
    /\ intervals' = intervals + 1
    /\ UNCHANGED <<standing, flowBox, evBox, sightings, pressure, used, lock, ctx,
                   evEvents, began, received>>

\* Verified messages arrive; between intervals, as one thread runs it all.
Receive ==
    /\ pc = "idle" /\ standing = "member" /\ received < MaxMessages
    /\ \/ \E neighbour \in Neighbours : flowBox' = flowBox \cup {neighbour} /\ UNCHANGED evBox
       \/ \E neighbour \in Neighbours, what \in {"claim", "sighting"}, ev \in Vehicles :
             /\ ev \in Real \/ neighbour \in Insiders
             /\ evBox' = Append(evBox, Message(neighbour, what, ev))
             /\ UNCHANGED flowBox
    /\ received' = received + 1
    /\ UNCHANGED <<standing, sightings, skip, served, pc, pressure, used, lock, ctx,
                   event, evEvents, log, began, intervals>>

-----------------------------------------------------------------------------
\* The constructor serves phase 0.
Init ==
    /\ standing \in {"member", "hybrid", "plain"}
    /\ flowBox = {} /\ evBox = <<>>
    /\ sightings = {}
    /\ skip = [p \in Phases |-> IF p = 0 THEN 0 ELSE 1]
    /\ served = 0 /\ used = 0
    /\ pc = "idle"
    /\ pressure = [p \in Phases |-> 0]
    /\ lock = None
    /\ ctx = [recorded |-> 0, event |-> FALSE, emitted |-> FALSE]
    /\ event = None
    /\ evEvents = {}
    /\ log = <<>> /\ began = 0
    /\ intervals = 0 /\ received = 0

Next == Receive \/ Coordinate \/ Emergency \/ Serve

Spec == Init /\ [][Next]_vars

-----------------------------------------------------------------------------
ThisInterval == {i \in Decisions(log) : i > began}

TypeOK ==
    /\ standing \in {"member", "hybrid", "plain"}
    /\ flowBox \subseteq Neighbours
    /\ \A i \in DOMAIN evBox : evBox[i].what \in {"claim", "sighting"}
    /\ sightings \subseteq Vehicles \X Neighbours
    /\ skip \in [Phases -> Nat]
    /\ {served, used, ctx.recorded} \subseteq Phases
    /\ lock \in Phases \cup {None}
    /\ pc \in {"idle", "emergency", "serve"}
    /\ ctx.event => event # None
    /\ began <= Len(log)
    /\ \A i \in Decisions(log) :
          log[i].executed \in Phases /\ log[i].policy \in {"coordination", "emergency"}

\* What the log, and the list of events, say last of an interval is the phase
\* that was served, and a phase forced by the floor is never missing from the
\* log (a junction with no identity excepted: it keeps events only).
ServedIsOnRecord ==
    pc = "idle" =>
        /\ ThisInterval # {} => log[Max(ThisInterval)].executed = served
        /\ used # served /\ standing # "hybrid" => ThisInterval # {}
        /\ event # None =>
              /\ event.served = served
              /\ lock = None => (event.by = "anti_starvation" <=> used # served)

\* An interval is put on record at most twice, by coordination and after it by
\* the emergency path, and every entry of the log is an input of at most
\* one decision, made later, under the key that signed it.
RecordedOnce ==
    /\ \A i, j \in ThisInterval :
          i < j => log[i].policy = "coordination" /\ log[j].policy = "emergency"
    /\ \A i \in Decisions(log) : \A pair \in log[i].driving :
          /\ pair[1] < i
          /\ log[pair[1]].kind # "decision"
          /\ pair[2] = IF log[pair[1]].kind = "message" THEN log[pair[1]].sender ELSE None
          /\ \A j \in Decisions(log) \ {i} : pair \notin log[j].driving

\* The log only grows and the earliest decision counts: an assessment once
\* given never changes, and whoever it names has spoken of the vehicle.
AssessmentsStand ==
    [][\A ev \in Vehicles :
          /\ Matching(log, ev) # {} => Assess(log', ev) = Assess(log, ev)
          /\ LET culprit == Assess(log', ev).culprit
             IN culprit # None =>
                   \E i \in DOMAIN log' : log'[i].kind = "message"
                                          /\ log'[i].sender = culprit /\ log'[i].ev = ev]_vars

\* A neighbour whose claim was admitted, because another one had sighted the
\* vehicle, is not blamed for it (tests/test_assessment.py).
AdmittedNotBlamed ==
    \A x \in evEvents :
        x.admissible /\ x.claimer # None => Assess(log, x.ev).culprit # x.claimer
=============================================================================
