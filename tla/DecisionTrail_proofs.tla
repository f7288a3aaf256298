------------------------ MODULE DecisionTrail_proofs ------------------------
(***************************************************************************)
(* What the records of a junction say, for any phases, pressures, messages *)
(* and length of the run: the log names the phase that was served, once,   *)
(* and an assessment does not change as the log grows.                     *)
(*                                                                         *)
(* The stages of an interval write at most one decision each, about        *)
(* entries that they appended themselves.  So a decision reaches back to   *)
(* the one before it and no further, and nothing appended later concerns   *)
(* it.                                                                     *)
(*                                                                         *)
(* And of that log chained and anchored, whatever its length: the root of  *)
(* a batch tells the hashes in it, the last of these what came before, and *)
(* a branch the one leaf that it is of.                                    *)
(***************************************************************************)
EXTENDS AnchoredTrail, FiniteSetTheorems, SequenceTheorems, WellFoundedInduction,
        TLAPS

\* Entries may be anything; what counts is that they are in order.
IsSeq(s) == \E S : s \in Seq(S)

DrivingIsOld(l) ==
    \A i \in Decisions(l) : \A pair \in l[i].driving :
        /\ pair[1] \in DOMAIN l /\ pair[1] < i
        /\ l[pair[1]].kind # "decision"
        /\ pair[2] = IF l[pair[1]].kind = "message" THEN l[pair[1]].sender ELSE None

DrivingIsOwn(l) ==
    \A i, j \in Decisions(l) : i # j => l[i].driving \cap l[j].driving = {}

LogSound == IsSeq(log) /\ DrivingIsOld(log) /\ DrivingIsOwn(log)

BoxesSound ==
    /\ IsFiniteSet(flowBox)
    /\ IsSeq(evBox) /\ \A n \in DOMAIN evBox : evBox[n].kind = "message"

-----------------------------------------------------------------------------
\* Logs that grow.

Grows(old, new) ==
    /\ IsSeq(new) /\ Len(old) <= Len(new)
    /\ \A i \in DOMAIN old : new[i] = old[i]

LEMMA SeqFacts ==
    ASSUME NEW s, IsSeq(s)
    PROVE  Len(s) \in Nat /\ DOMAIN s = 1 .. Len(s)
  BY LenProperties DEF IsSeq

LEMMA Concatenated ==
    ASSUME NEW s, NEW t, IsSeq(s), IsSeq(t)
    PROVE  /\ IsSeq(s \o t) /\ Len(s \o t) = Len(s) + Len(t)
           /\ \A i \in 1 .. Len(s) : (s \o t)[i] = s[i]
           /\ \A i \in Len(s) + 1 .. Len(s) + Len(t) : (s \o t)[i] = t[i - Len(s)]
  <1>1. PICK S : s \in Seq(S)
    BY DEF IsSeq
  <1>2. PICK T : t \in Seq(T)
    BY DEF IsSeq
  <1>3. s \in Seq(S \cup T) /\ t \in Seq(S \cup T)
    BY <1>1, <1>2, SeqMonotonic
  <1>4. /\ s \o t \in Seq(S \cup T) /\ Len(s \o t) = Len(s) + Len(t)
        /\ \A i \in 1 .. Len(s) + Len(t) :
              (s \o t)[i] = IF i <= Len(s) THEN s[i] ELSE t[i - Len(s)]
    BY <1>3, ConcatProperties
  <1>5. Len(s) \in Nat /\ Len(t) \in Nat
    BY SeqFacts
  <1> QED BY <1>4, <1>5 DEF IsSeq

LEMMA Appended ==
    ASSUME NEW s, IsSeq(s), NEW e
    PROVE  /\ IsSeq(Append(s, e)) /\ Len(Append(s, e)) = Len(s) + 1
           /\ \A i \in 1 .. Len(s) : Append(s, e)[i] = s[i]
           /\ Append(s, e)[Len(s) + 1] = e
  <1>1. PICK S : s \in Seq(S)
    BY DEF IsSeq
  <1>2. s \in Seq(S \cup {e}) /\ e \in S \cup {e}
    BY <1>1, SeqMonotonic
  <1>3. /\ Append(s, e) \in Seq(S \cup {e}) /\ Len(Append(s, e)) = Len(s) + 1
        /\ \A i \in 1 .. Len(s) : Append(s, e)[i] = s[i]
        /\ Append(s, e)[Len(s) + 1] = e
    BY <1>2, AppendProperties
  <1> QED BY <1>3 DEF IsSeq

\* Entries that are no decisions.
LEMMA EntriesAppended ==
    ASSUME NEW l, IsSeq(l), NEW t, IsSeq(t), DrivingIsOld(l), DrivingIsOwn(l),
           \A i \in DOMAIN t : t[i].kind # "decision"
    PROVE  /\ Grows(l, l \o t)
           /\ DrivingIsOld(l \o t) /\ DrivingIsOwn(l \o t)
           /\ Decisions(l \o t) = Decisions(l)
           /\ \A i \in Len(l) + 1 .. Len(l \o t) : (l \o t)[i].kind # "decision"
  <1> DEFINE new == l \o t
  <1>1. /\ IsSeq(new) /\ Len(new) = Len(l) + Len(t)
        /\ \A i \in 1 .. Len(l) : new[i] = l[i]
        /\ \A i \in Len(l) + 1 .. Len(l) + Len(t) : new[i] = t[i - Len(l)]
    BY Concatenated
  <1>2. /\ Len(l) \in Nat /\ DOMAIN l = 1 .. Len(l)
        /\ Len(t) \in Nat /\ DOMAIN t = 1 .. Len(t)
        /\ DOMAIN new = 1 .. Len(new)
    BY <1>1, SeqFacts
  <1> HIDE DEF new
  <1>3. \A i \in Len(l) + 1 .. Len(new) : new[i].kind # "decision"
    <2> SUFFICES ASSUME NEW i \in Len(l) + 1 .. Len(new)
                 PROVE  new[i].kind # "decision"
      OBVIOUS
    <2>1. i - Len(l) \in DOMAIN t /\ new[i] = t[i - Len(l)]
      BY <1>1, <1>2
    <2> QED BY <2>1
  <1>4. DOMAIN l \subseteq DOMAIN new /\ \A i \in DOMAIN l : new[i] = l[i]
    BY <1>1, <1>2
  <1>5. Decisions(new) = Decisions(l)
    <2>1. \A i \in DOMAIN new \ DOMAIN l : new[i].kind # "decision"
      BY <1>1, <1>2, <1>3
    <2> QED BY <1>4, <2>1 DEF Decisions
  <1>6. Decisions(l) \subseteq DOMAIN l
    BY DEF Decisions
  <1>7. DrivingIsOld(new)
    BY <1>4, <1>5, <1>6 DEF DrivingIsOld
  <1>8. DrivingIsOwn(new)
    BY <1>4, <1>5, <1>6 DEF DrivingIsOwn
  <1>9. Grows(l, new)
    BY <1>1, <1>2, <1>4 DEF Grows
  <1> QED BY <1>3, <1>5, <1>7, <1>8, <1>9 DEF new

\* A decision comes last in a sound log.
Decided(l, new, phase, policy) ==
    /\ Grows(l, new) /\ DrivingIsOld(new) /\ DrivingIsOwn(new)
    /\ Decisions(new) = Decisions(l) \cup {Len(l) + 1}
    /\ Len(new) = Len(l) + 1
    /\ new[Len(l) + 1].executed = phase /\ new[Len(l) + 1].policy = policy

\* Its inputs are the entries from first on.
LEMMA DecisionAppended ==
    ASSUME NEW l, IsSeq(l), DrivingIsOld(l), DrivingIsOwn(l), NEW first \in Nat \ {0},
           \A i \in Decisions(l) : i < first,
           NEW driving, driving = {} \/ driving = Pairs(l, first, Len(l)),
           NEW phase, NEW policy, NEW new, new = Append(l, Decision(driving, phase, policy))
    PROVE  Decided(l, new, phase, policy)
  <1>1. /\ IsSeq(new) /\ Len(new) = Len(l) + 1
        /\ \A i \in 1 .. Len(l) : new[i] = l[i]
        /\ new[Len(l) + 1] = Decision(driving, phase, policy)
    BY Appended
  <1>2. /\ Len(l) \in Nat /\ DOMAIN l = 1 .. Len(l) /\ DOMAIN new = 1 .. Len(l) + 1
    BY <1>1, SeqFacts
  <1>3. /\ new[Len(l) + 1].kind = "decision" /\ new[Len(l) + 1].driving = driving
        /\ new[Len(l) + 1].executed = phase /\ new[Len(l) + 1].policy = policy
    BY <1>1 DEF Decision
  <1>4. DOMAIN new = DOMAIN l \cup {Len(l) + 1} /\ Len(l) + 1 \notin DOMAIN l
    BY <1>2
  <1>5. \A i \in DOMAIN l : new[i] = l[i]
    BY <1>1, <1>2
  <1>6. Decisions(new) = Decisions(l) \cup {Len(l) + 1} /\ Decisions(l) \subseteq DOMAIN l
    BY <1>3, <1>4, <1>5 DEF Decisions
  <1>7. \A pair \in driving :
          /\ pair[1] \in DOMAIN l /\ pair[1] < Len(l) + 1
          /\ pair[1] >= first
          /\ pair[2] = IF l[pair[1]].kind = "message" THEN l[pair[1]].sender ELSE None
    <2> SUFFICES ASSUME driving = Pairs(l, first, Len(l)), NEW pair \in driving
                 PROVE  /\ pair[1] \in DOMAIN l /\ pair[1] < Len(l) + 1
                        /\ pair[1] >= first
                        /\ pair[2] = IF l[pair[1]].kind = "message"
                                     THEN l[pair[1]].sender ELSE None
      OBVIOUS
    <2>1. PICK i \in first .. Len(l) :
              pair = <<i, IF l[i].kind = "message" THEN l[i].sender ELSE None>>
      BY DEF Pairs
    <2> QED BY <1>2, <2>1
  <1>8. \A pair \in driving : l[pair[1]].kind # "decision"
    BY <1>2, <1>7 DEF Decisions
  <1>9. DrivingIsOld(new)
    <2> SUFFICES ASSUME NEW i \in Decisions(new), NEW pair \in new[i].driving
                 PROVE  /\ pair[1] \in DOMAIN new /\ pair[1] < i
                        /\ new[pair[1]].kind # "decision"
                        /\ pair[2] = IF new[pair[1]].kind = "message"
                                     THEN new[pair[1]].sender ELSE None
      BY DEF DrivingIsOld
    <2>1. CASE i = Len(l) + 1
      BY <1>3, <1>4, <1>5, <1>7, <1>8, <2>1
    <2>2. CASE i \in Decisions(l)
      <3>1. pair \in l[i].driving
        BY <1>5, <1>6, <2>2
      <3> QED BY <1>4, <1>5, <2>2, <3>1 DEF DrivingIsOld
    <2> QED BY <1>6, <2>1, <2>2
  <1>10. \A i \in Decisions(l) : l[i].driving \cap driving = {}
    <2> SUFFICES ASSUME NEW i \in Decisions(l), NEW pair \in l[i].driving, pair \in driving
                 PROVE  FALSE
      OBVIOUS
    <2>1. pair[1] \in DOMAIN l /\ pair[1] < i /\ i < first /\ i \in DOMAIN l
      BY <1>6 DEF DrivingIsOld
    <2> QED BY <1>2, <1>7, <2>1
  <1>11. DrivingIsOwn(new)
    BY <1>3, <1>4, <1>5, <1>6, <1>10 DEF DrivingIsOwn
  <1>12. Grows(l, new)
    BY <1>1, <1>2, <1>5 DEF Grows
  <1> QED BY <1>1, <1>3, <1>6, <1>9, <1>11, <1>12 DEF Decided

LEMMA GrowsOn ==
    ASSUME NEW s, NEW t, NEW u, IsSeq(s), Grows(s, t), Grows(t, u)
    PROVE  Grows(s, u)
  <1>1. /\ Len(s) \in Nat /\ DOMAIN s = 1 .. Len(s)
        /\ Len(t) \in Nat /\ DOMAIN t = 1 .. Len(t)
        /\ Len(u) \in Nat
    BY SeqFacts DEF Grows
  <1>2. Len(s) <= Len(t) /\ Len(t) <= Len(u)
    BY DEF Grows
  <1>3. DOMAIN s \subseteq DOMAIN t
    BY <1>1, <1>2
  <1> QED BY <1>1, <1>2, <1>3 DEF Grows
-----------------------------------------------------------------------------
\* The stages of an interval.

\* What the log says last of the interval.
OnRecord(phase) ==
    \E i \in ThisInterval :
        log[i].executed = phase /\ \A j \in ThisInterval : j <= i

RecordsInTurn ==
    \A i, j \in ThisInterval :
        i < j => log[i].policy = "coordination" /\ log[j].policy = "emergency"

ContextSound ==
    /\ DOMAIN ctx = {"recorded", "event", "emitted"}
    /\ ctx.event \in BOOLEAN /\ ctx.emitted \in BOOLEAN

\* A decision of the full path is on record, and no lock is set.
AfterCoordination ==
    /\ standing = "member" /\ lock = None /\ ctx.recorded = used
    /\ \A i, j \in ThisInterval : i = j
    /\ \A i \in ThisInterval : log[i].policy = "coordination"
    /\ ctx.emitted <=> ThisInterval # {}
    /\ ctx.event <=> ctx.emitted
    /\ ctx.event => event.used = used /\ OnRecord(Floor(used, lock, pressure))

\* If anything is on record, then what the floor will make of the decision.
BeforeService ==
    /\ ctx.recorded = used
    /\ ctx.emitted <=> ThisInterval # {}
    /\ ctx.emitted => OnRecord(Floor(used, lock, pressure))
    /\ ctx.event => ctx.emitted \/ standing = "hybrid"
    /\ ctx.event /\ lock = None => event.used = used

TrailInv ==
    /\ LogSound /\ BoxesSound /\ ContextSound
    /\ began \in Nat /\ began <= Len(log)
    /\ pc \in {"idle", "emergency", "serve"}
    /\ RecordsInTurn
    /\ pc = "emergency" => AfterCoordination
    /\ pc = "serve" => BeforeService
    /\ ServedIsOnRecord

LEMMA InitTrail == Init => TrailInv
  <1> SUFFICES ASSUME Init PROVE TrailInv
    OBVIOUS
  <1>1. IsSeq(<<>>) /\ Len(<<>>) = 0 /\ DOMAIN <<>> = {}
    BY EmptySeq, LenProperties DEF IsSeq
  <1>2. log = <<>> /\ evBox = <<>> /\ flowBox = {} /\ began = 0
    BY DEF Init
  <1>3. Decisions(log) = {} /\ ThisInterval = {}
    BY <1>1, <1>2 DEF Decisions, ThisInterval
  <1>4. LogSound
    BY <1>1, <1>2, <1>3 DEF LogSound, DrivingIsOld, DrivingIsOwn
  <1>5. BoxesSound
    BY <1>1, <1>2, FS_EmptySet DEF BoxesSound
  <1>6. ContextSound
    BY DEF Init, ContextSound
  <1>7. ServedIsOnRecord
    BY <1>3 DEF Init, ServedIsOnRecord
  <1> QED BY <1>1, <1>2, <1>3, <1>4, <1>5, <1>6, <1>7
          DEF TrailInv, Init, RecordsInTurn

\* The decisions of the interval are places of the log.
LEMMA IntervalFacts ==
    ASSUME TrailInv
    PROVE  /\ Len(log) \in Nat /\ DOMAIN log = 1 .. Len(log)
           /\ Decisions(log) \subseteq 1 .. Len(log)
           /\ ThisInterval \subseteq began + 1 .. Len(log)
  <1>1. Len(log) \in Nat /\ DOMAIN log = 1 .. Len(log)
    BY SeqFacts DEF TrailInv, LogSound
  <1> QED BY <1>1 DEF TrailInv, Decisions, ThisInterval

\* What is on record of the interval is the decision made last.
LEMMA LatestIsOnRecord ==
    ASSUME NEW phase, ThisInterval \subseteq Int, OnRecord(phase)
    PROVE  ThisInterval # {} /\ log[Max(ThisInterval)].executed = phase
  <1>1. PICK i \in ThisInterval :
            log[i].executed = phase /\ \A j \in ThisInterval : j <= i
    BY DEF OnRecord
  <1>2. Max(ThisInterval) \in ThisInterval /\ Max(ThisInterval) >= i
    BY <1>1 DEF Max
  <1>3. i \in Int /\ Max(ThisInterval) \in Int /\ Max(ThisInterval) <= i
    BY <1>1, <1>2
  <1>4. Max(ThisInterval) = i
    BY <1>2, <1>3
  <1> QED BY <1>1, <1>4

LEMMA ReceiveKeepsTrail ==
    ASSUME TrailInv, Receive
    PROVE  TrailInv' /\ Grows(log, log')
  <1>1. UNCHANGED <<standing, sightings, skip, served, pc, pressure, used, lock, ctx,
                    event, evEvents, log, began, intervals>>
    BY DEF Receive
  <1>2. BoxesSound'
    <2>1. CASE \E neighbour \in Neighbours :
                  flowBox' = flowBox \cup {neighbour} /\ UNCHANGED evBox
      BY <2>1, FS_AddElement DEF TrailInv, BoxesSound
    <2>2. ASSUME NEW neighbour, NEW what, NEW ev,
                 evBox' = Append(evBox, Message(neighbour, what, ev)), UNCHANGED flowBox
          PROVE  BoxesSound'
      <3>1. /\ IsSeq(evBox') /\ Len(evBox') = Len(evBox) + 1
            /\ \A i \in 1 .. Len(evBox) : evBox'[i] = evBox[i]
            /\ evBox'[Len(evBox) + 1] = Message(neighbour, what, ev)
        BY <2>2, Appended DEF TrailInv, BoxesSound
      <3>2. /\ Len(evBox) \in Nat /\ DOMAIN evBox = 1 .. Len(evBox)
            /\ DOMAIN evBox' = 1 .. Len(evBox')
        BY <3>1, SeqFacts DEF TrailInv, BoxesSound
      <3>3. Message(neighbour, what, ev).kind = "message"
        BY DEF Message
      <3>4. \A n \in DOMAIN evBox' : evBox'[n].kind = "message"
        <4> SUFFICES ASSUME NEW n \in DOMAIN evBox' PROVE evBox'[n].kind = "message"
          OBVIOUS
        <4>1. n \in DOMAIN evBox \/ n = Len(evBox) + 1
          BY <3>1, <3>2
        <4> QED BY <3>1, <3>2, <3>3, <4>1 DEF TrailInv, BoxesSound
      <3> QED BY <2>2, <3>1, <3>4 DEF TrailInv, BoxesSound
    <2> QED BY <2>1, <2>2 DEF Receive
  <1>3. TrailInv'
    BY <1>1, <1>2
       DEF TrailInv, LogSound, ContextSound, RecordsInTurn, ThisInterval, AfterCoordination,
           BeforeService, ServedIsOnRecord, OnRecord, Floor, Reached, MoreStarved
  <1>4. Grows(log, log')
    BY <1>1, SeqFacts DEF TrailInv, LogSound, Grows
  <1> QED BY <1>3, <1>4

\* The full path: the release messages, and one decision about them.
Told == [i \in 1 .. Cardinality(flowBox) |->
            Message(SetToSeq(flowBox)[i], "release", None)]

LEMMA CoordinatedRecord ==
    ASSUME TrailInv, NEW phase, NEW entries, entries = log \o Told,
           log' = Append(entries, Decision(Pairs(entries, Len(log) + 1, Len(entries)),
                                           phase, "coordination")),
           began' = Len(log)
    PROVE  /\ LogSound' /\ Grows(log, log')
           /\ \E i \in ThisInterval' : /\ \A j \in ThisInterval' : j = i
                                      /\ i \in Nat /\ log'[i].executed = phase
                                      /\ log'[i].policy = "coordination"
  <1>0. IsSeq(log) /\ DrivingIsOld(log) /\ DrivingIsOwn(log) /\ Len(log) \in Nat
        /\ DOMAIN log = 1 .. Len(log)
    BY IntervalFacts DEF TrailInv, LogSound
  <1>1. Cardinality(flowBox) \in Nat
    BY FS_CardinalityType DEF TrailInv, BoxesSound
  <1>2. Told \in Seq({Told[i] : i \in 1 .. Cardinality(flowBox)})
    <2> DEFINE n == Cardinality(flowBox)
               e(i) == Message(SetToSeq(flowBox)[i], "release", None)
    <2>1. Told = [i \in 1 .. n |-> e(i)]
      BY DEF Told
    <2> HIDE DEF e, n
    <2>2. Told \in [1 .. n -> {Told[i] : i \in 1 .. n}]
      BY <2>1
    <2>3. n \in Nat
      BY <1>1 DEF n
    <2>4. Told \in Seq({Told[i] : i \in 1 .. n})
      BY <2>2, <2>3, SeqDef
    <2> QED BY <2>4 DEF n
  <1>3. IsSeq(Told) /\ \A i \in DOMAIN Told : Told[i].kind # "decision"
    <2>1. IsSeq(Told)
      BY <1>2 DEF IsSeq
    <2>2. ASSUME NEW i \in DOMAIN Told PROVE Told[i].kind = "message"
      BY <2>2 DEF Told, Message
    <2> QED BY <2>1, <2>2
  <1>5. /\ Grows(log, entries) /\ DrivingIsOld(entries) /\ DrivingIsOwn(entries)
        /\ Decisions(entries) = Decisions(log)
    BY <1>0, <1>3, EntriesAppended
  <1>6. IsSeq(entries) /\ Len(log) <= Len(entries) /\ Len(entries) \in Nat
        /\ DOMAIN entries = 1 .. Len(entries)
    BY <1>5, SeqFacts DEF Grows
  <1>7. \A i \in Decisions(entries) : i \in Nat /\ i <= Len(log)
    BY <1>0, <1>5 DEF Decisions
  <1>8. Decided(entries, log', phase, "coordination")
    <2> DEFINE driving == Pairs(entries, Len(log) + 1, Len(entries))
    <2>1. log' = Append(entries, Decision(driving, phase, "coordination"))
      OBVIOUS
    <2> HIDE DEF driving
    <2>2. driving = {} \/ driving = Pairs(entries, Len(log) + 1, Len(entries))
      BY DEF driving
    <2>3. Len(log) + 1 \in Nat \ {0} /\ \A i \in Decisions(entries) : i < Len(log) + 1
      BY <1>0, <1>7
    <2> QED BY <1>0, <1>5, <1>6, <2>1, <2>2, <2>3, DecisionAppended
  <1>9. ThisInterval' = {Len(entries) + 1}
    BY <1>5, <1>6, <1>7, <1>8, <1>0 DEF ThisInterval, Decided
  <1>10. LogSound'
    BY <1>8 DEF LogSound, Grows, Decided
  <1>11. Grows(log, log')
    BY <1>0, <1>5, <1>8, GrowsOn DEF Decided
  <1> QED BY <1>6, <1>8, <1>9, <1>10, <1>11 DEF Decided

LEMMA CoordinateKeepsTrail ==
    ASSUME TrailInv, Coordinate
    PROVE  TrailInv' /\ Grows(log, log')
  <1>0. /\ Len(log) \in Nat /\ DOMAIN log = 1 .. Len(log)
        /\ Decisions(log) \subseteq 1 .. Len(log)
        /\ IsSeq(log)
    BY IntervalFacts DEF TrailInv, LogSound
  <1>1. /\ lock' = None /\ began' = Len(log)
        /\ pc' = (IF standing = "member" THEN "emergency" ELSE "serve")
        /\ UNCHANGED <<standing, evBox, skip>>
    BY DEF Coordinate
  <1>2. ASSUME UNCHANGED <<flowBox, log>>, NEW phase, NEW hasEvent \in BOOLEAN,
               used' = phase, ctx' = [recorded |-> phase, event |-> hasEvent, emitted |-> FALSE],
               hasEvent => standing = "hybrid" /\ event'.used = phase
        PROVE  TrailInv' /\ Grows(log, log')
    <2>1. ThisInterval' = {}
      BY <1>0, <1>1, <1>2 DEF ThisInterval
    <2>2. LogSound' /\ BoxesSound' /\ Grows(log, log')
      BY <1>0, <1>1, <1>2 DEF TrailInv, LogSound, BoxesSound, Grows
    <2>3. ContextSound'
      BY <1>2 DEF ContextSound
    <2>4. RecordsInTurn'
      BY <2>1 DEF RecordsInTurn
    <2>5. standing = "member" => AfterCoordination'
      BY <1>1, <1>2, <2>1 DEF AfterCoordination
    <2>6. BeforeService'
      BY <1>1, <1>2, <2>1 DEF BeforeService
    <2> QED BY <1>0, <1>1, <1>2, <2>2, <2>3, <2>4, <2>5, <2>6 DEF TrailInv, ServedIsOnRecord
  <1>3. CASE Defer(pressure')
    <2>1. /\ UNCHANGED <<flowBox, log>> /\ used' = MaxPressure(pressure')
          /\ ctx' = [recorded |-> MaxPressure(pressure'), event |-> FALSE, emitted |-> FALSE]
      BY <1>3 DEF Defer
    <2> QED BY <1>2, <2>1
  <1>4. CASE standing = "hybrid" /\ DecideHybrid(pressure')
    <2>1. PICK proposal \in Phases \cup {None} :
            LET choice == IF proposal = None THEN MaxPressure(pressure') ELSE proposal
            IN /\ used' = choice
               /\ event' = Event(proposal, choice, choice)
               /\ ctx' = [recorded |-> choice, event |-> TRUE, emitted |-> FALSE]
               /\ UNCHANGED <<flowBox, log>>
      BY <1>4 DEF DecideHybrid
    <2> DEFINE choice == IF proposal = None THEN MaxPressure(pressure') ELSE proposal
    <2>2. event'.used = choice
      BY <2>1 DEF Event
    <2> QED BY <1>2, <1>4, <2>1, <2>2
  <1>5. CASE standing = "member" /\ DecideCoordinated(pressure')
    <2>1. PICK proposal \in Phases \cup {None}, choice \in Phases :
            LET entries == log \o [i \in 1 .. Cardinality(flowBox) |->
                                       Message(SetToSeq(flowBox)[i], "release", None)]
            IN /\ used' = choice
               /\ event' = Event(proposal, choice, Floor(choice, None, pressure'))
               /\ log' = Append(entries,
                                Decision(Pairs(entries, Len(log) + 1, Len(entries)),
                                         Floor(choice, None, pressure'), "coordination"))
               /\ ctx' = [recorded |-> choice, event |-> TRUE, emitted |-> TRUE]
               /\ flowBox' = {}
      BY <1>5 DEF DecideCoordinated
    <2> DEFINE phase == Floor(choice, None, pressure')
    <2>2. /\ LogSound' /\ Grows(log, log')
          /\ \E i \in ThisInterval' : /\ \A j \in ThisInterval' : j = i
                                     /\ i \in Nat /\ log'[i].executed = phase
                                     /\ log'[i].policy = "coordination"
      <3> HIDE DEF phase
      <3> DEFINE entries == log \o Told
      <3>1. log' = Append(entries, Decision(Pairs(entries, Len(log) + 1, Len(entries)),
                                            phase, "coordination"))
        BY <2>1 DEF phase, Told
      <3> HIDE DEF entries
      <3> QED BY <1>1, <3>1, CoordinatedRecord DEF entries
    <2>3. PICK i \in ThisInterval' : /\ \A j \in ThisInterval' : j = i
                                     /\ i \in Nat /\ log'[i].executed = phase
                                     /\ log'[i].policy = "coordination"
      BY <2>2
    <2>4. phase = Floor(used, lock, pressure)'
      BY <1>1, <2>1 DEF Floor, Reached, MoreStarved
    <2> HIDE DEF phase
    <2>5. OnRecord(Floor(used, lock, pressure))'
      BY <2>3, <2>4 DEF OnRecord
    <2>6. event'.used = used'
      BY <2>1 DEF Event
    <2>7. ContextSound' /\ ctx'.event = TRUE /\ ctx'.emitted = TRUE /\ ctx'.recorded = used'
      BY <2>1 DEF ContextSound
    <2>8. AfterCoordination'
      BY <1>1, <1>5, <2>3, <2>5, <2>6, <2>7 DEF AfterCoordination
    <2>9. RecordsInTurn'
      BY <2>3 DEF RecordsInTurn
    <2>10. BoxesSound'
      BY <1>1, <2>1, FS_EmptySet DEF TrailInv, BoxesSound
    <2>11. Len(log) <= Len(log')
      BY <2>2 DEF Grows
    <2> QED BY <1>0, <1>1, <1>5, <2>2, <2>7, <2>8, <2>9, <2>10, <2>11
            DEF TrailInv, ServedIsOnRecord
  <1> QED BY <1>3, <1>4, <1>5 DEF Coordinate
\* A sighting by the junction itself, then the messages in the inbox.
LEMMA EntriesOfEmergency ==
    ASSUME TrailInv, NEW local, NEW entries,
           entries = log \o (IF local = None THEN <<>> ELSE <<KeylessSighting(local)>>) \o evBox
    PROVE  /\ Grows(log, entries) /\ DrivingIsOld(entries) /\ DrivingIsOwn(entries)
           /\ Decisions(entries) = Decisions(log)
  <1> DEFINE sensed == IF local = None THEN <<>> ELSE <<KeylessSighting(local)>>
             seen == log \o sensed
  <1>1. IsSeq(sensed) /\ \A i \in DOMAIN sensed : sensed[i].kind # "decision"
    <2>1. CASE local = None
      BY <2>1, EmptySeq, LenProperties DEF IsSeq
    <2>2. CASE local # None
      <3>1. sensed = <<KeylessSighting(local)>>
        BY <2>2
      <3>2. <<KeylessSighting(local)>> \in Seq({KeylessSighting(local)})
        OBVIOUS
      <3>3. \A i \in DOMAIN <<KeylessSighting(local)>> :
                <<KeylessSighting(local)>>[i].kind = "sighting"
        BY DEF KeylessSighting
      <3> QED BY <3>1, <3>2, <3>3 DEF IsSeq
    <2> QED BY <2>1, <2>2
  <1>2. entries = seen \o evBox
    OBVIOUS
  <1> HIDE DEF sensed
  <1>3. /\ Grows(log, seen) /\ DrivingIsOld(seen) /\ DrivingIsOwn(seen)
        /\ Decisions(seen) = Decisions(log)
    BY <1>1, EntriesAppended DEF TrailInv, LogSound
  <1> HIDE DEF seen
  <1>4. IsSeq(evBox) /\ \A i \in DOMAIN evBox : evBox[i].kind # "decision"
    BY DEF TrailInv, BoxesSound
  <1>5. /\ Grows(seen, entries) /\ DrivingIsOld(entries) /\ DrivingIsOwn(entries)
        /\ Decisions(entries) = Decisions(seen)
    <2>1. IsSeq(seen)
      BY <1>3 DEF Grows
    <2> QED BY <1>2, <1>3, <1>4, <2>1, EntriesAppended
  <1> QED BY <1>3, <1>5, GrowsOn DEF TrailInv, LogSound

LEMMA EmergencyKeepsTrail ==
    ASSUME TrailInv, Emergency
    PROVE  TrailInv' /\ Grows(log, log')
  <1>0. /\ Len(log) \in Nat /\ DOMAIN log = 1 .. Len(log)
        /\ Decisions(log) \subseteq 1 .. Len(log)
        /\ ThisInterval \subseteq began + 1 .. Len(log)
        /\ began \in Nat /\ began <= Len(log) /\ IsSeq(log)
    BY IntervalFacts DEF TrailInv, LogSound
  <1>1. /\ pc = "emergency" /\ pc' = "serve" /\ evBox' = <<>>
        /\ UNCHANGED <<standing, flowBox, skip, pressure, event, began>>
    BY DEF Emergency
  <1>2. AfterCoordination
    BY <1>1 DEF TrailInv
  <1>3. BoxesSound'
    BY <1>1, EmptySeq, LenProperties DEF TrailInv, BoxesSound, IsSeq
  <1>4. PICK local \in Real \cup {None} :
          LET entries == log \o (IF local = None THEN <<>> ELSE <<KeylessSighting(local)>>)
                             \o evBox
          IN \/ log' = entries /\ UNCHANGED <<used, lock, ctx>>
             \/ \E ev, claimer, admissible, phase :
                   ActOn(entries, ev, claimer, admissible, phase)
    BY Zenon DEF Emergency
  <1> DEFINE entries == log \o (IF local = None THEN <<>> ELSE <<KeylessSighting(local)>>)
                            \o evBox
  <1>5. /\ Grows(log, entries) /\ DrivingIsOld(entries) /\ DrivingIsOwn(entries)
        /\ Decisions(entries) = Decisions(log)
    BY EntriesOfEmergency
  <1>6. \/ log' = entries /\ UNCHANGED <<used, lock, ctx>>
        \/ \E ev, claimer, admissible, phase : ActOn(entries, ev, claimer, admissible, phase)
    BY <1>4
  <1> HIDE DEF entries
  <1>7. /\ IsSeq(entries) /\ Len(entries) \in Nat /\ Len(log) <= Len(entries)
        /\ DOMAIN entries = 1 .. Len(entries)
    BY <1>5, SeqFacts DEF Grows
  <1>8. CASE log' = entries /\ UNCHANGED <<used, lock, ctx>>
    <2>1. LogSound' /\ Grows(log, log') /\ Len(log) <= Len(log')
      BY <1>5, <1>7, <1>8 DEF LogSound
    <2>2. ThisInterval' = ThisInterval
      BY <1>1, <1>5, <1>8 DEF ThisInterval
    <2>3. \A i \in ThisInterval : log'[i] = log[i]
      BY <1>0, <1>5, <1>8 DEF Grows
    <2>4. RecordsInTurn'
      BY <1>0, <1>2, <2>2 DEF RecordsInTurn, AfterCoordination
    <2>5. Floor(used, lock, pressure)' = Floor(used, lock, pressure)
      BY <1>1, <1>8 DEF Floor, Reached, MoreStarved
    <2>6. ctx.emitted => OnRecord(Floor(used, lock, pressure))'
      BY <1>2, <2>2, <2>3, <2>5 DEF OnRecord, AfterCoordination
    <2>7. BeforeService'
      BY <1>1, <1>2, <1>8, <2>2, <2>6 DEF BeforeService, AfterCoordination
    <2>8. ContextSound'
      BY <1>8 DEF TrailInv, ContextSound
    <2> QED BY <1>0, <1>1, <1>3, <1>7, <1>8, <2>1, <2>4, <2>7, <2>8
            DEF TrailInv, ServedIsOnRecord
  <1>9. ASSUME NEW ev, NEW claimer, NEW admissible, NEW phase,
               ActOn(entries, ev, claimer, admissible, phase)
        PROVE  TrailInv' /\ Grows(log, log')
    <2> DEFINE preempt == IF admissible THEN phase ELSE None
               executed == IF preempt # None THEN preempt ELSE used
               driving == Pairs(entries, Len(log) + 1, Len(entries))
               planned == Floor(executed, preempt, pressure)
    <2>1. /\ lock' = preempt /\ used' = executed
          /\ ctx' = [ctx EXCEPT !.emitted = TRUE, !.recorded = executed]
      BY <1>9 DEF ActOn
    <2>2. log' = Append(entries, Decision(driving, planned, "emergency"))
      BY <1>9, <2>1 DEF ActOn
    <2>3. planned = Floor(used, lock, pressure)'
      BY <1>1, <2>1 DEF Floor, Reached, MoreStarved
    <2>4. driving = {} \/ driving = Pairs(entries, Len(log) + 1, Len(entries))
      OBVIOUS
    <2>5. lock' = None => used' = used
      BY <2>1
    <2>6. ContextSound' /\ ctx'.emitted = TRUE /\ ctx'.recorded = used' /\ ctx'.event = ctx.event
      BY <2>1 DEF TrailInv, ContextSound
    <2> HIDE DEF preempt, executed, driving, planned
    <2>7. /\ Len(log) + 1 \in Nat \ {0}
          /\ \A i \in Decisions(entries) : i \in Nat /\ i < Len(log) + 1
      BY <1>0, <1>5
    <2>8. Decided(entries, log', planned, "emergency")
      <3>1. \A i \in Decisions(entries) : i < Len(log) + 1
        BY <2>7
      <3> QED BY <1>5, <1>7, <2>2, <2>4, <2>7, <3>1, DecisionAppended
    <2>9. LogSound' /\ Grows(log, log') /\ Len(log) <= Len(log')
      BY <1>0, <1>5, <2>8, GrowsOn DEF LogSound, Decided, Grows
    <2>10. ThisInterval' = ThisInterval \cup {Len(entries) + 1}
      BY <1>0, <1>1, <1>5, <1>7, <2>8 DEF ThisInterval, Decided
    <2>11. /\ \A i \in ThisInterval : i < Len(entries) + 1 /\ log'[i] = log[i]
           /\ ThisInterval \subseteq Nat
      BY <1>0, <1>7, <2>9 DEF Grows
    <2>12. RecordsInTurn'
      BY <1>2, <1>7, <2>8, <2>10, <2>11 DEF RecordsInTurn, AfterCoordination, Decided
    <2>13. OnRecord(Floor(used, lock, pressure))'
      BY <1>7, <2>3, <2>8, <2>10, <2>11 DEF OnRecord, Decided
    <2>14. BeforeService'
      BY <1>1, <1>2, <2>5, <2>6, <2>10, <2>13 DEF BeforeService, AfterCoordination
    <2> QED BY <1>0, <1>1, <1>3, <2>6, <2>9, <2>12, <2>14 DEF TrailInv, ServedIsOnRecord
  <1> QED BY <1>6, <1>8, <1>9

LEMMA ServeKeepsTrail ==
    ASSUME TrailInv, Serve
    PROVE  TrailInv' /\ Grows(log, log')
  <1> DEFINE best == Floor(used, lock, pressure)
  <1>0. /\ Len(log) \in Nat /\ DOMAIN log = 1 .. Len(log)
        /\ Decisions(log) \subseteq 1 .. Len(log)
        /\ ThisInterval \subseteq began + 1 .. Len(log)
        /\ began \in Nat /\ began <= Len(log)
        /\ IsSeq(log) /\ DrivingIsOld(log) /\ DrivingIsOwn(log)
    BY IntervalFacts DEF TrailInv, LogSound
  <1>1. /\ pc = "serve" /\ pc' = "idle" /\ served' = best
        /\ RepairEvent(best) /\ RecordOverride(best)
        /\ UNCHANGED <<standing, flowBox, evBox, pressure, used, lock, ctx, began>>
    BY DEF Serve
  <1> HIDE DEF best
  <1>2. BeforeService
    BY <1>1 DEF TrailInv
  <1>3. BoxesSound' /\ ContextSound'
    BY <1>1 DEF TrailInv, BoxesSound, ContextSound
  <1>4. event' # None =>
            /\ event'.served = served'
            /\ lock' = None => (event'.by = "anti_starvation" <=> used' # served')
    <2>1. CASE ctx.event
      BY <1>1, <1>2, <2>1 DEF RepairEvent, Event, ServedBy, BeforeService
    <2>2. CASE ~ctx.event
      BY <1>1, <1>2, <2>2 DEF RepairEvent, Event, ServedBy, BeforeService
    <2> QED BY <2>1, <2>2
  <1>5. CASE ~ctx.emitted /\ ~ctx.event /\ best # ctx.recorded
    <2>1. log' = Append(log, Decision({}, best, "coordination"))
      BY <1>1, <1>5 DEF RecordOverride
    <2>2. /\ Len(log) + 1 \in Nat \ {0}
          /\ \A i \in Decisions(log) : i < Len(log) + 1
      BY <1>0
    <2>3. Decided(log, log', best, "coordination")
      <3> DEFINE driving == {}
      <3>1. log' = Append(log, Decision(driving, best, "coordination"))
        BY <2>1
      <3>2. driving = {} \/ driving = Pairs(log, Len(log) + 1, Len(log))
        OBVIOUS
      <3> HIDE DEF driving
      <3> QED BY <1>0, <2>2, <3>1, <3>2, DecisionAppended
    <2>4. ThisInterval' = {Len(log) + 1}
      <3>1. ThisInterval = {}
        BY <1>2, <1>5 DEF BeforeService
      <3> QED BY <1>0, <1>1, <2>3, <3>1 DEF ThisInterval, Decided
    <2>5. LogSound' /\ Grows(log, log') /\ Len(log) <= Len(log')
      BY <1>0, <2>3 DEF LogSound, Decided, Grows
    <2>6. RecordsInTurn'
      BY <1>0, <2>4 DEF RecordsInTurn
    <2>7. OnRecord(served)'
      BY <1>0, <1>1, <2>3, <2>4 DEF OnRecord, Decided
    <2>8. ThisInterval' \subseteq Int
      BY <1>0, <2>4
    <2>9. log'[Max(ThisInterval')].executed = served'
      BY <2>4, <2>7, <2>8 DEF OnRecord, Max
    <2>10. ServedIsOnRecord'
      BY <1>4, <2>4, <2>9 DEF ServedIsOnRecord
    <2> QED BY <1>0, <1>1, <1>3, <2>5, <2>6, <2>10 DEF TrailInv
  <1>6. CASE ~(~ctx.emitted /\ ~ctx.event /\ best # ctx.recorded)
    <2>1. log' = log
      BY <1>1, <1>6 DEF RecordOverride
    <2>2. ThisInterval' = ThisInterval
      BY <1>1, <2>1 DEF ThisInterval
    <2>3. LogSound' /\ Grows(log, log') /\ RecordsInTurn'
      <3>1. LogSound' /\ Grows(log, log')
        BY <1>0, <2>1 DEF LogSound, Grows
      <3>2. RecordsInTurn'
        BY <2>1, <2>2 DEF TrailInv, RecordsInTurn
      <3> QED BY <3>1, <3>2
    <2>4. ThisInterval # {} => log[Max(ThisInterval)].executed = best
      <3>1. ThisInterval # {} => OnRecord(best)
        BY <1>2 DEF BeforeService, best
      <3>2. ThisInterval \subseteq Int
        BY <1>0
      <3> QED BY <3>1, <3>2, LatestIsOnRecord
    <2>5. used' # served' /\ standing' # "hybrid" => ThisInterval' # {}
      BY <1>1, <1>2, <1>6, <2>2 DEF BeforeService
    <2>6. ServedIsOnRecord'
      BY <1>1, <1>4, <2>1, <2>2, <2>4, <2>5 DEF ServedIsOnRecord
    <2> QED BY <1>0, <1>1, <1>3, <2>1, <2>3, <2>6 DEF TrailInv
  <1> QED BY <1>5, <1>6

LEMMA StepKeepsTrail ==
    ASSUME TrailInv, [Next]_vars
    PROVE  TrailInv' /\ Grows(log, log')
  <1>1. CASE UNCHANGED vars
    <2>0. UNCHANGED <<standing, flowBox, evBox, skip, served, pc, pressure, used, lock, ctx,
                      event, log, began>>
      BY <1>1 DEF vars
    <2>1. TrailInv'
      <3>1. BoxesSound'
        BY <2>0 DEF TrailInv, BoxesSound
      <3> QED
        BY <2>0, <3>1
           DEF TrailInv, LogSound, ContextSound, RecordsInTurn, ThisInterval, AfterCoordination,
               BeforeService, ServedIsOnRecord, OnRecord, Floor, Reached, MoreStarved
    <2>2. Grows(log, log')
      BY <1>1, SeqFacts DEF vars, TrailInv, LogSound, Grows
    <2> QED BY <2>1, <2>2
  <1> QED BY <1>1, ReceiveKeepsTrail, CoordinateKeepsTrail, EmergencyKeepsTrail, ServeKeepsTrail
          DEF Next

THEOREM TrailInvHolds == Spec => []TrailInv
  BY InitTrail, StepKeepsTrail, PTL DEF Spec

\* What the log and the list of events say last of an interval is the phase
\* that was served, and a phase forced by the floor is on record: the stages
\* and _on_served agree on what the floor will do, with and without a lock.
THEOREM RecordTheorem == Spec => []ServedIsOnRecord
  <1>1. TrailInv => ServedIsOnRecord
    BY DEF TrailInv
  <1> QED BY <1>1, TrailInvHolds, PTL

\* An interval is on record at most twice, in the order of the stages, and no
\* entry of the log is an input of two decisions.
THEOREM OnceTheorem == Spec => []RecordedOnce
  <1>1. TrailInv => RecordedOnce
    <2> SUFFICES ASSUME TrailInv PROVE RecordedOnce
      OBVIOUS
    <2>1. ASSUME NEW i \in Decisions(log), NEW pair \in log[i].driving
          PROVE  /\ pair[1] < i
                 /\ log[pair[1]].kind # "decision"
                 /\ pair[2] = IF log[pair[1]].kind = "message" THEN log[pair[1]].sender ELSE None
                 /\ \A j \in Decisions(log) \ {i} : pair \notin log[j].driving
      BY <2>1 DEF TrailInv, LogSound, DrivingIsOld, DrivingIsOwn
    <2> QED BY <2>1 DEF TrailInv, RecordsInTurn, RecordedOnce
  <1> QED BY <1>1, TrailInvHolds, PTL

-----------------------------------------------------------------------------
\* Reading a log that has grown.

LEMMA LeastOf ==
    ASSUME NEW S, S \subseteq Nat, S # {}
    PROVE  \E m \in S : \A y \in S : m <= y
  <1>1. PICK m \in S : \A y \in S : ~ (<<y, m>> \in OpToRel(<, Nat))
    BY NatLessThanWellFounded, WFMin
  <1>2. ASSUME NEW y \in S PROVE m <= y
    <2>1. y \in Nat /\ m \in Nat
      OBVIOUS
    <2>2. ~ (y < m)
      BY <1>1, <2>1 DEF OpToRel
    <2> QED BY <2>1, <2>2
  <1> QED BY <1>2

LEMMA MinOf ==
    ASSUME NEW S, S \subseteq Nat, NEW m \in S, \A y \in S : m <= y
    PROVE  Min(S) = m
  <1>1. Min(S) \in S /\ Min(S) <= m
    BY DEF Min
  <1>2. Min(S) \in Nat /\ m \in Nat /\ m <= Min(S)
    BY <1>1
  <1> QED BY <1>1, <1>2

\* Decisions stay, with their inputs, and those that join them come later.
LEMMA MatchingGrows ==
    ASSUME NEW old, NEW new, IsSeq(old), Grows(old, new), DrivingIsOld(old), NEW ev
    PROVE  /\ \A i \in Decisions(old) : InputsAbout(new, i, ev) = InputsAbout(old, i, ev)
           /\ Matching(old, ev) \subseteq Matching(new, ev)
           /\ \A i \in Matching(new, ev) \ Matching(old, ev) : i > Len(old)
           /\ Matching(new, ev) \subseteq Nat
           /\ Matching(old, ev) \subseteq 1 .. Len(old)
  <1>1. /\ Len(old) \in Nat /\ DOMAIN old = 1 .. Len(old)
        /\ Len(new) \in Nat /\ DOMAIN new = 1 .. Len(new)
        /\ Len(old) <= Len(new)
        /\ \A i \in DOMAIN old : new[i] = old[i]
    BY SeqFacts DEF Grows
  <1>2. DOMAIN old \subseteq DOMAIN new
    BY <1>1
  <1>3. Decisions(old) = Decisions(new) \cap DOMAIN old
    BY <1>1, <1>2 DEF Decisions
  <1>4. \A i \in Decisions(old) : InputsAbout(new, i, ev) = InputsAbout(old, i, ev)
    <2> SUFFICES ASSUME NEW i \in Decisions(old)
                 PROVE  InputsAbout(new, i, ev) = InputsAbout(old, i, ev)
      OBVIOUS
    <2>1. new[i] = old[i]
      BY <1>1, <1>3
    <2>2. \A pair \in old[i].driving : new[pair[1]] = old[pair[1]]
      BY <1>1 DEF DrivingIsOld
    <2> QED BY <2>1, <2>2 DEF InputsAbout
  <1>5. \A i \in DOMAIN old : i \in Matching(old, ev) <=> i \in Matching(new, ev)
    BY <1>3, <1>4 DEF Matching
  <1>6. Matching(old, ev) \subseteq DOMAIN old /\ Matching(new, ev) \subseteq DOMAIN new
    BY DEF Matching, Decisions
  <1> QED BY <1>1, <1>4, <1>5, <1>6

\* Once a decision about a vehicle is on record, the assessment is made.
LEMMA AssessmentGrows ==
    ASSUME NEW old, NEW new, IsSeq(old), Grows(old, new), DrivingIsOld(old), NEW ev,
           Matching(old, ev) # {}
    PROVE  Assess(new, ev) = Assess(old, ev)
  <1>1. /\ \A i \in Decisions(old) : InputsAbout(new, i, ev) = InputsAbout(old, i, ev)
        /\ Matching(old, ev) \subseteq Matching(new, ev)
        /\ \A i \in Matching(new, ev) \ Matching(old, ev) : i > Len(old)
        /\ Matching(new, ev) \subseteq Nat
        /\ Matching(old, ev) \subseteq 1 .. Len(old)
        /\ Len(old) \in Nat
    BY MatchingGrows, SeqFacts
  <1>2. PICK m \in Matching(old, ev) : \A y \in Matching(old, ev) : m <= y
    BY <1>1, LeastOf
  <1>3. \A y \in Matching(new, ev) : m <= y
    BY <1>1, <1>2
  <1>4. CausalDecision(old, ev) = m /\ CausalDecision(new, ev) = m
    BY <1>1, <1>2, <1>3, MinOf DEF CausalDecision
  <1>5. m \in Decisions(old) /\ m \in DOMAIN old
    BY <1>2 DEF Matching, Decisions
  <1>6. new[m] = old[m] /\ InputsAbout(new, m, ev) = InputsAbout(old, m, ev)
    BY <1>1, <1>5 DEF Grows
  <1>7. /\ ClaimerKey(new, m, ev) = ClaimerKey(old, m, ev)
        /\ SigningKeys(new, m) = SigningKeys(old, m)
        /\ IndependentKeys(new, m, ev) = IndependentKeys(old, m, ev)
    BY <1>6 DEF ClaimerKey, SigningKeys, IndependentKeys
  <1>8. Matching(new, ev) # {}
    BY <1>1
  <1> QED BY <1>4, <1>7, <1>8 DEF Assess

\* Who is named has signed a message about the vehicle.
LEMMA CulpritSpoke ==
    ASSUME NEW l, IsSeq(l), DrivingIsOld(l), NEW ev, Assess(l, ev).culprit # None
    PROVE  \E i \in DOMAIN l : /\ l[i].kind = "message"
                              /\ l[i].sender = Assess(l, ev).culprit /\ l[i].ev = ev
  <1> DEFINE m == CausalDecision(l, ev)
  <1>1. Matching(l, ev) # {} /\ Assess(l, ev).culprit = ClaimerKey(l, m, ev)
    BY DEF Assess
  <1>2. DOMAIN l = 1 .. Len(l) /\ Len(l) \in Nat
    BY SeqFacts
  <1>3. Matching(l, ev) \subseteq Nat /\ Matching(l, ev) \subseteq Decisions(l)
    BY <1>2 DEF Matching, Decisions
  <1>4. m \in Matching(l, ev)
    <2>1. PICK least \in Matching(l, ev) : \A y \in Matching(l, ev) : least <= y
      BY <1>1, <1>3, LeastOf
    <2> QED BY <1>3, <2>1, MinOf DEF CausalDecision
  <1> HIDE DEF m
  <1>5. InputsAbout(l, m, ev) # {} /\ m \in Decisions(l)
    BY <1>3, <1>4 DEF Matching
  <1>6. \A pair \in InputsAbout(l, m, ev) :
          /\ pair \in l[m].driving /\ pair[1] \in DOMAIN l /\ pair[1] \in Nat
          /\ EvIdOf(l[pair[1]]) = ev
    BY <1>2, <1>5 DEF InputsAbout, DrivingIsOld
  <1>7. \E pair \in InputsAbout(l, m, ev) :
          \A other \in InputsAbout(l, m, ev) : pair[1] <= other[1]
    <2> DEFINE places == {pair[1] : pair \in InputsAbout(l, m, ev)}
    <2>1. places \subseteq Nat /\ places # {}
      BY <1>5, <1>6
    <2>2. PICK n \in places : \A y \in places : n <= y
      BY <2>1, LeastOf
    <2> QED BY <2>2
  <1>8. PICK pair \in InputsAbout(l, m, ev) : ClaimerKey(l, m, ev) = pair[2]
    BY <1>7 DEF ClaimerKey
  <1>9. /\ l[pair[1]].kind # "decision"
        /\ pair[2] = IF l[pair[1]].kind = "message" THEN l[pair[1]].sender ELSE None
    BY <1>5, <1>6, <1>8 DEF DrivingIsOld
  <1>10. l[pair[1]].kind = "message" /\ l[pair[1]].sender = Assess(l, ev).culprit
    BY <1>1, <1>8, <1>9
  <1>11. pair[1] \in DOMAIN l /\ l[pair[1]].ev = ev
    BY <1>6, <1>9 DEF EvIdOf
  <1> QED BY <1>10, <1>11

\* An assessment that was given does not change as the log grows, and whoever
\* it names has spoken of the vehicle.
THEOREM AssessmentTheorem == Spec => AssessmentsStand
  <1> DEFINE Stands ==
          \A ev \in Vehicles :
            /\ Matching(log, ev) # {} => Assess(log', ev) = Assess(log, ev)
            /\ LET culprit == Assess(log', ev).culprit
               IN culprit # None =>
                     \E i \in DOMAIN log' : log'[i].kind = "message"
                                            /\ log'[i].sender = culprit /\ log'[i].ev = ev
  <1>1. ASSUME TrailInv, [Next]_vars PROVE [Stands]_vars
    <2>1. TrailInv' /\ Grows(log, log')
      BY <1>1, StepKeepsTrail
    <2>2. IsSeq(log) /\ DrivingIsOld(log) /\ IsSeq(log') /\ DrivingIsOld(log')
      BY <1>1, <2>1 DEF TrailInv, LogSound
    <2>3. ASSUME NEW ev \in Vehicles, Matching(log, ev) # {}
          PROVE  Assess(log', ev) = Assess(log, ev)
      BY <2>1, <2>2, <2>3, AssessmentGrows
    <2>4. ASSUME NEW ev \in Vehicles, Assess(log', ev).culprit # None
          PROVE  \E i \in DOMAIN log' : /\ log'[i].kind = "message"
                                        /\ log'[i].sender = Assess(log', ev).culprit
                                        /\ log'[i].ev = ev
      BY <2>2, <2>4, CulpritSpoke
    <2> QED BY <2>3, <2>4
  <1> QED BY <1>1, TrailInvHolds, PTL DEF Spec, AssessmentsStand

-----------------------------------------------------------------------------
\* Chains and trees.  They are defined by recursion: that a function is as its
\* definition says, and what it computes, is shown by induction, in the form
\* that a set of numbers has no least stranger.

LEMMA Induction ==
    ASSUME NEW Good, NEW n \in Nat, 0 \in Good,
           \A k \in 0 .. n : k > 0 /\ k - 1 \in Good => k \in Good
    PROVE  \A k \in 0 .. n : k \in Good
  <1> DEFINE Bad == {k \in 0 .. n : k \notin Good}
  <1>1. ASSUME Bad # {} PROVE FALSE
    <2>1. Bad \subseteq Nat
      OBVIOUS
    <2>2. PICK m \in Bad : \A y \in Bad : m <= y
      <3> HIDE DEF Bad
      <3> QED BY <1>1, <2>1, LeastOf
    <2>3. m \in Nat /\ m <= n /\ m \notin Good /\ m > 0
      OBVIOUS
    <2>4. m - 1 \in 0 .. n /\ m - 1 \notin Bad
      <3>1. m - 1 \in 0 .. n /\ ~ (m <= m - 1)
        BY <2>3
      <3> HIDE DEF Bad
      <3> QED BY <2>2, <3>1
    <2> QED BY <2>3, <2>4
  <1> QED BY <1>1

LEMMA IndexedSeq ==
    ASSUME NEW n \in Nat, NEW s, DOMAIN s = 1 .. n, s = [i \in DOMAIN s |-> s[i]]
    PROVE  IsSeq(s) /\ Len(s) = n
  <1>1. PICK values : values = {s[i] : i \in 1 .. n}
    OBVIOUS
  <1>2. \A i \in 1 .. n : s[i] \in values
    BY <1>1
  <1>3. s \in [1 .. n -> values]
    BY <1>2
  <1>4. s \in Seq(values) /\ Len(s) = n
    BY <1>3
  <1> QED BY <1>4 DEF IsSeq

LEMMA SameSeq ==
    ASSUME NEW s, NEW t, IsSeq(s), IsSeq(t), Len(s) = Len(t),
           \A i \in 1 .. Len(s) : s[i] = t[i]
    PROVE  s = t
  <1>1. PICK S : s \in Seq(S)
    BY DEF IsSeq
  <1>2. PICK T : t \in Seq(T)
    BY DEF IsSeq
  <1>3. s \in Seq(S \cup T) /\ t \in Seq(S \cup T)
    BY <1>1, <1>2, SeqMonotonic
  <1> QED BY <1>3, SeqEqual

\* An entry is what append makes: nothing beside the four fields.
IsEntry(e) == e = [seq |-> e.seq, prev |-> e.prev, event |-> e.event, hash |-> e.hash]

IsChain(entries) ==
    IsSeq(entries) /\ VerifyChain(entries) /\ \A i \in DOMAIN entries : IsEntry(entries[i])

Appending(events, n, upTo) ==
    upTo = [k \in 0 .. n |->
               IF k = 0 THEN <<>>
               ELSE LET entries == upTo[k - 1]
                    IN Append(entries, NextEntry(entries, events[k]))]

LEMMA AppendingStep ==
    ASSUME NEW events, NEW n \in Nat, NEW upTo, Appending(events, n, upTo), NEW k \in 0 .. n
    PROVE  upTo[k] = IF k = 0 THEN <<>>
                     ELSE Append(upTo[k - 1], NextEntry(upTo[k - 1], events[k]))
  BY DEF Appending

LEMMA AppendingExists ==
    ASSUME NEW events, NEW n \in Nat
    PROVE  \E upTo : Appending(events, n, upTo)
  <1> DEFINE Good == {k \in 0 .. n : \E upTo : Appending(events, k, upTo)}
  <1>1. 0 \in Good
    <2> DEFINE f == [k \in 0 .. 0 |-> <<>>]
    <2>1. Appending(events, 0, f)
      BY DEF Appending
    <2> HIDE DEF f
    <2> QED BY <2>1
  <1>2. ASSUME NEW m \in 0 .. n, m > 0, m - 1 \in Good PROVE m \in Good
    <2>1. PICK f : Appending(events, m - 1, f)
      BY <1>2
    <2> DEFINE next == Append(f[m - 1], NextEntry(f[m - 1], events[m]))
               g == [k \in 0 .. m |-> IF k < m THEN f[k] ELSE next]
    <2>2. ASSUME NEW k \in 0 .. m
          PROVE  g[k] = IF k = 0 THEN <<>> ELSE Append(g[k - 1], NextEntry(g[k - 1], events[k]))
      <3>1. CASE k < m
        <4>1. /\ g[k] = f[k] /\ (k > 0 => g[k - 1] = f[k - 1])
              /\ k \in 0 .. m - 1 /\ m - 1 \in Nat
          BY <1>2, <3>1
        <4>2. f[k] = IF k = 0 THEN <<>> ELSE Append(f[k - 1], NextEntry(f[k - 1], events[k]))
          BY <2>1, <4>1, AppendingStep
        <4> HIDE DEF g
        <4> QED BY <4>1, <4>2
      <3>2. CASE k = m
        <4>1. g[k] = next /\ g[k - 1] = f[m - 1]
          BY <1>2, <3>2
        <4> HIDE DEF g
        <4> QED BY <1>2, <3>2, <4>1
      <3> QED BY <3>1, <3>2
    <2>3. g = [k \in 0 .. m |-> g[k]]
      OBVIOUS
    <2> HIDE DEF g
    <2>4. Appending(events, m, g)
      BY <2>2, <2>3 DEF Appending
    <2> QED BY <2>4
  <1> HIDE DEF Good
  <1>3. n \in Good
    BY <1>1, <1>2, Induction
  <1> USE DEF Good
  <1> QED BY <1>3

LEMMA ChainAppends ==
    ASSUME NEW events, Len(events) \in Nat
    PROVE  \E upTo : Appending(events, Len(events), upTo) /\ Chain(events) = upTo[Len(events)]
  <1>1. \E upTo : Appending(events, Len(events), upTo)
    BY AppendingExists
  <1>2. Appending(events, Len(events), CHOOSE upTo : Appending(events, Len(events), upTo))
    BY <1>1
  <1>3. Chain(events) = (CHOOSE upTo : Appending(events, Len(events), upTo))[Len(events)]
    BY DEF Chain, Appending
  <1> QED BY <1>2, <1>3

LEMMA AppendChain ==
    ASSUME NEW entries, IsChain(entries), NEW what
    PROVE  LET longer == Append(entries, NextEntry(entries, what))
           IN IsChain(longer) /\ Len(longer) = Len(entries) + 1
  <1> DEFINE e == NextEntry(entries, what)
             longer == Append(entries, e)
             n == Len(entries)
  <1>1. /\ IsSeq(longer) /\ Len(longer) = n + 1 /\ longer[n + 1] = e
        /\ \A i \in 1 .. n : longer[i] = entries[i]
    BY Appended DEF IsChain
  <1>2. n \in Nat /\ DOMAIN entries = 1 .. n /\ DOMAIN longer = 1 .. n + 1
    BY <1>1, SeqFacts DEF IsChain
  <1>3. /\ e.seq = n /\ e.event = what /\ e.hash = HashBody(e.seq, e.prev, e.event)
        /\ e.prev = (IF entries = <<>> THEN GenesisPrevHash ELSE entries[n].hash)
        /\ IsEntry(e)
    BY DEF NextEntry, IsEntry
  <1>4. entries = <<>> <=> n = 0
    <2>1. IsSeq(<<>>) /\ Len(<<>>) = 0
      BY EmptySeq DEF IsSeq
    <2>2. n = 0 => entries = <<>>
      BY <2>1, SameSeq DEF IsChain
    <2> QED BY <2>1, <2>2
  <1> HIDE DEF e, longer, n
  <1>5. ASSUME NEW i \in 1 .. n + 1
        PROVE  /\ longer[i].seq = i - 1
               /\ longer[i].prev = IF i = 1 THEN GenesisPrevHash ELSE longer[i - 1].hash
               /\ longer[i].hash = HashBody(longer[i].seq, longer[i].prev, longer[i].event)
               /\ IsEntry(longer[i])
    <2>1. CASE i <= n
      <3>1. i \in 1 .. n /\ longer[i] = entries[i] /\ (i # 1 => longer[i - 1] = entries[i - 1])
        BY <1>1, <1>2, <2>1
      <3> QED BY <1>2, <3>1 DEF IsChain, VerifyChain
    <2>2. CASE i = n + 1
      <3>1. longer[i] = e /\ i - 1 = n
        BY <1>1, <1>2, <2>2
      <3>2. i # 1 => longer[i - 1] = entries[n] /\ entries # <<>>
        BY <1>1, <1>2, <1>4, <2>2
      <3>3. i = 1 => entries = <<>>
        BY <1>2, <1>4, <2>2
      <3> QED BY <1>3, <3>1, <3>2, <3>3
    <2> QED BY <1>2, <2>1, <2>2
  <1>6. IsChain(longer)
    BY <1>1, <1>2, <1>5 DEF IsChain, VerifyChain
  <1> QED BY <1>1, <1>6 DEF longer, e, n

\* append makes chains that verify_chain passes.
LEMMA ChainVerifies ==
    ASSUME NEW events, IsSeq(events)
    PROVE  IsChain(Chain(events)) /\ Len(Chain(events)) = Len(events)
  <1> DEFINE n == Len(events)
  <1>1. n \in Nat
    BY SeqFacts
  <1>2. PICK upTo : Appending(events, n, upTo) /\ Chain(events) = upTo[n]
    BY <1>1, ChainAppends
  <1> DEFINE Good == {k \in 0 .. n : IsChain(upTo[k]) /\ Len(upTo[k]) = k}
  <1> HIDE DEF n
  <1>3. 0 \in Good
    <2>1. upTo[0] = <<>>
      BY <1>1, <1>2 DEF Appending
    <2>2. IsSeq(<<>>) /\ Len(<<>>) = 0 /\ DOMAIN <<>> = {}
      BY EmptySeq, SeqFacts DEF IsSeq
    <2> QED BY <1>1, <2>1, <2>2 DEF IsChain, VerifyChain
  <1>4. ASSUME NEW m \in 0 .. n, m > 0, m - 1 \in Good PROVE m \in Good
    <2>1. upTo[m] = Append(upTo[m - 1], NextEntry(upTo[m - 1], events[m]))
      <3>1. m \in 0 .. n /\ m # 0
        BY <1>4
      <3>2. upTo[m] = IF m = 0 THEN <<>>
                      ELSE Append(upTo[m - 1], NextEntry(upTo[m - 1], events[m]))
        BY <1>1, <1>2, <3>1, AppendingStep
      <3> QED BY <3>1, <3>2
    <2>2. IsChain(upTo[m]) /\ Len(upTo[m]) = (m - 1) + 1
      BY <1>4, <2>1, AppendChain
    <2> QED BY <1>4, <2>2
  <1> HIDE DEF Good
  <1>5. n \in Good
    BY <1>1, <1>3, <1>4, Induction
  <1> USE DEF Good
  <1> QED BY <1>2, <1>5 DEF n

\* No two inputs share a hash.
LEMMA HashCommits ==
    ASSUME NEW seq1, NEW prev1, NEW event1, NEW seq2, NEW prev2, NEW event2,
           HashBody(seq1, prev1, event1) = HashBody(seq2, prev2, event2)
    PROVE  seq1 = seq2 /\ prev1 = prev2 /\ event1 = event2
  <1> DEFINE a == HashBody(seq1, prev1, event1)
             b == HashBody(seq2, prev2, event2)
  <1>1. /\ a.seq = seq1 /\ a.prev = prev1 /\ a.event = event1
        /\ b.seq = seq2 /\ b.prev = prev2 /\ b.event = event2
    BY DEF HashBody
  <1>2. a = b
    OBVIOUS
  <1> HIDE DEF a, b
  <1> QED BY <1>1, <1>2

\* Chains that have a hash in common are the same up to there.
LEMMA ChainsAgree ==
    ASSUME NEW c, NEW d, IsChain(c), IsChain(d), NEW last \in DOMAIN c, last \in DOMAIN d,
           c[last].hash = d[last].hash
    PROVE  \A i \in 1 .. last : c[i] = d[i]
  <1>0. /\ last \in Nat \ {0} /\ 1 .. last \subseteq DOMAIN c /\ 1 .. last \subseteq DOMAIN d
    BY SeqFacts DEF IsChain
  <1>1. ASSUME NEW i \in 1 .. last, c[i].hash = d[i].hash
        PROVE  c[i] = d[i] /\ (i # 1 => c[i - 1].hash = d[i - 1].hash)
    <2>1. /\ c[i].hash = HashBody(c[i].seq, c[i].prev, c[i].event)
          /\ d[i].hash = HashBody(d[i].seq, d[i].prev, d[i].event)
          /\ i # 1 => c[i].prev = c[i - 1].hash /\ d[i].prev = d[i - 1].hash
          /\ IsEntry(c[i]) /\ IsEntry(d[i])
      BY <1>0 DEF IsChain, VerifyChain
    <2>2. c[i].seq = d[i].seq /\ c[i].prev = d[i].prev /\ c[i].event = d[i].event
      <3>1. HashBody(c[i].seq, c[i].prev, c[i].event) = HashBody(d[i].seq, d[i].prev, d[i].event)
        BY <1>1, <2>1
      <3> QED BY <3>1, HashCommits
    <2> QED BY <1>1, <2>1, <2>2 DEF IsEntry
  <1> DEFINE Good == {k \in 0 .. last - 1 : c[last - k].hash = d[last - k].hash}
  <1>2. 0 \in Good
    BY <1>0
  <1>3. ASSUME NEW k \in 0 .. last - 1, k > 0, k - 1 \in Good PROVE k \in Good
    <2>1. /\ last - (k - 1) \in 1 .. last /\ last - (k - 1) # 1
          /\ last - (k - 1) - 1 = last - k
      BY <1>0, <1>3
    <2> QED BY <1>1, <1>3, <2>1
  <1> HIDE DEF Good
  <1>4. \A k \in 0 .. last - 1 : k \in Good
    <2>1. last - 1 \in Nat
      BY <1>0
    <2> QED BY <1>2, <1>3, <2>1, Induction
  <1> USE DEF Good
  <1>5. ASSUME NEW i \in 1 .. last PROVE c[i].hash = d[i].hash
    <2>1. last - i \in 0 .. last - 1 /\ last - (last - i) = i
      BY <1>0
    <2> QED BY <1>4, <2>1
  <1> QED BY <1>1, <1>5

-----------------------------------------------------------------------------
\* Trees.

LEMMA PairCommits ==
    ASSUME NEW left1, NEW right1, NEW left2, NEW right2,
           HashPair(left1, right1) = HashPair(left2, right2)
    PROVE  left1 = left2 /\ right1 = right2
  <1> DEFINE a == HashPair(left1, right1)
             b == HashPair(left2, right2)
  <1>1. a.left = left1 /\ a.right = right1 /\ b.left = left2 /\ b.right = right2
    BY DEF HashPair
  <1>2. a = b
    OBVIOUS
  <1> HIDE DEF a, b
  <1> QED BY <1>1, <1>2

\* How many nodes the next level has.
HalfOf(n) == (n + 1) \div 2

LEMMA EvenFacts ==
    ASSUME NEW level, IsSeq(level), Len(level) > 0
    PROVE  /\ IsSeq(Even(level)) /\ Len(Even(level)) = 2 * HalfOf(Len(level))
           /\ Len(level) \in Nat /\ HalfOf(Len(level)) \in Nat \ {0}
           /\ Len(level) <= 2 * HalfOf(Len(level)) /\ 2 * HalfOf(Len(level)) <= Len(level) + 1
           /\ \A i \in 1 .. Len(level) : Even(level)[i] = level[i]
  <1> DEFINE n == Len(level)
  <1>1. n \in Nat
    BY SeqFacts
  <1>2. CASE n % 2 = 1
    <2>1. Even(level) = Append(level, level[n])
      BY <1>2 DEF Even
    <2>2. /\ IsSeq(Even(level)) /\ Len(Even(level)) = n + 1
          /\ \A i \in 1 .. n : Even(level)[i] = level[i]
      BY <2>1, Appended
    <2>3. 2 * HalfOf(n) = n + 1 /\ HalfOf(n) \in Nat \ {0}
      <3> HIDE DEF n
      <3> QED BY <1>1, <1>2 DEF HalfOf
    <2> QED BY <1>1, <2>2, <2>3
  <1>3. CASE n % 2 # 1
    <2>1. Even(level) = level
      BY <1>3 DEF Even
    <2>2. n > 0
      OBVIOUS
    <2>3. 2 * HalfOf(n) = n /\ HalfOf(n) \in Nat \ {0}
      <3> HIDE DEF n
      <3> QED BY <1>1, <1>3, <2>2 DEF HalfOf
    <2> QED BY <1>1, <2>1, <2>3
  <1> QED BY <1>2, <1>3

LEMMA LevelUpFacts ==
    ASSUME NEW level, IsSeq(level), Len(level) > 0
    PROVE  /\ IsSeq(LevelUp(level)) /\ Len(LevelUp(level)) = HalfOf(Len(level))
           /\ \A i \in 1 .. HalfOf(Len(level)) :
                 LevelUp(level)[i] = HashPair(Even(level)[2 * i - 1], Even(level)[2 * i])
  <1> DEFINE half == HalfOf(Len(level))
  <1>1. Len(Even(level)) = 2 * half /\ half \in Nat
    BY EvenFacts
  <1>2. Len(Even(level)) \div 2 = half
    <2> HIDE DEF half
    <2> QED BY <1>1
  <1>3. LevelUp(level) = [i \in 1 .. half |-> HashPair(Even(level)[2 * i - 1], Even(level)[2 * i])]
    BY <1>2 DEF LevelUp
  <1> HIDE DEF half
  <1>4. DOMAIN LevelUp(level) = 1 .. half
    BY <1>3
  <1>5. LevelUp(level) = [i \in DOMAIN LevelUp(level) |-> LevelUp(level)[i]]
    BY <1>3
  <1>6. IsSeq(LevelUp(level)) /\ Len(LevelUp(level)) = half
    BY <1>1, <1>4, <1>5, IndexedSeq
  <1> QED BY <1>3, <1>6 DEF half

\* Nodes are told from the pairs they are in.
LEMMA LevelUpInjective ==
    ASSUME NEW c, NEW d, IsSeq(c), IsSeq(d), Len(c) > 0, Len(c) = Len(d),
           LevelUp(c) = LevelUp(d)
    PROVE  c = d
  <1> DEFINE n == Len(c)
             half == HalfOf(n)
  <1>1. /\ n \in Nat /\ half \in Nat \ {0} /\ n <= 2 * half
        /\ \A i \in 1 .. n : Even(c)[i] = c[i] /\ Even(d)[i] = d[i]
    BY EvenFacts
  <1>2. \A i \in 1 .. half : /\ LevelUp(c)[i] = HashPair(Even(c)[2 * i - 1], Even(c)[2 * i])
                             /\ LevelUp(d)[i] = HashPair(Even(d)[2 * i - 1], Even(d)[2 * i])
    BY LevelUpFacts
  <1>3. \A i \in 1 .. half : Even(c)[2 * i - 1] = Even(d)[2 * i - 1] /\ Even(c)[2 * i] = Even(d)[2 * i]
    BY <1>2, PairCommits
  <1> HIDE DEF n, half
  <1>4. ASSUME NEW i \in 1 .. n PROVE c[i] = d[i]
    <2>1. PICK k \in 1 .. half : i = 2 * k - 1 \/ i = 2 * k
      <3>1. CASE i % 2 = 1
        <4>1. (i + 1) \div 2 \in 1 .. half /\ i = 2 * ((i + 1) \div 2) - 1
          BY <1>1, <3>1
        <4> QED BY <4>1
      <3>2. CASE i % 2 # 1
        <4>1. i \div 2 \in 1 .. half /\ i = 2 * (i \div 2)
          BY <1>1, <3>2
        <4> QED BY <4>1
      <3> QED BY <3>1, <3>2
    <2>2. Even(c)[i] = Even(d)[i]
      BY <1>3, <2>1
    <2> QED BY <1>1, <2>2
  <1> QED BY <1>4, SameSeq DEF n

\* One turn of the loop of merkle_root.
NextLevel(level) == IF Len(level) > 1 THEN LevelUp(level) ELSE level

LEMMA NextLevelFacts ==
    ASSUME NEW level, IsSeq(level), Len(level) > 0
    PROVE  /\ IsSeq(NextLevel(level)) /\ Len(NextLevel(level)) > 0
           /\ Len(level) > 1 => Len(NextLevel(level)) < Len(level)
           /\ Len(level) = 1 => Len(NextLevel(level)) = 1
           /\ Len(NextLevel(level)) = IF Len(level) > 1 THEN HalfOf(Len(level)) ELSE Len(level)
  <1>1. Len(level) \in Nat /\ HalfOf(Len(level)) \in Nat \ {0}
        /\ 2 * HalfOf(Len(level)) <= Len(level) + 1
    BY EvenFacts
  <1>2. CASE Len(level) > 1
    <2>1. /\ NextLevel(level) = LevelUp(level)
          /\ IsSeq(LevelUp(level)) /\ Len(LevelUp(level)) = HalfOf(Len(level))
      BY <1>2, LevelUpFacts DEF NextLevel
    <2>2. HalfOf(Len(level)) < Len(level) /\ HalfOf(Len(level)) > 0 /\ Len(level) # 1
      <3> DEFINE n == Len(level)
                 half == HalfOf(n)
      <3>1. n \in Nat /\ half \in Nat \ {0} /\ 2 * half <= n + 1 /\ n > 1
        BY <1>1, <1>2
      <3> HIDE DEF n, half
      <3>2. half < n /\ half > 0 /\ n # 1
        BY <3>1
      <3> QED BY <3>2 DEF n, half
    <2> QED BY <1>2, <2>1, <2>2
  <1>3. CASE ~(Len(level) > 1)
    BY <1>3 DEF NextLevel
  <1> QED BY <1>2, <1>3

LEMMA NextLevelInjective ==
    ASSUME NEW c, NEW d, IsSeq(c), IsSeq(d), Len(c) > 0, Len(c) = Len(d),
           NextLevel(c) = NextLevel(d)
    PROVE  c = d
  BY LevelUpInjective DEF NextLevel

Climbing(leaves, n, level) ==
    level = [h \in 0 .. n |-> IF h = 0 THEN leaves ELSE NextLevel(level[h - 1])]

LEMMA ClimbingExists ==
    ASSUME NEW leaves, NEW n \in Nat
    PROVE  \E level : Climbing(leaves, n, level)
  <1> DEFINE Good == {k \in 0 .. n : \E level : Climbing(leaves, k, level)}
  <1>1. 0 \in Good
    <2> DEFINE f == [h \in 0 .. 0 |-> leaves]
    <2>1. Climbing(leaves, 0, f)
      BY DEF Climbing
    <2> HIDE DEF f
    <2> QED BY <2>1
  <1>2. ASSUME NEW m \in 0 .. n, m > 0, m - 1 \in Good PROVE m \in Good
    <2>1. PICK f : Climbing(leaves, m - 1, f)
      BY <1>2
    <2> DEFINE g == [h \in 0 .. m |-> IF h < m THEN f[h] ELSE NextLevel(f[m - 1])]
    <2>2. ASSUME NEW h \in 0 .. m
          PROVE  g[h] = IF h = 0 THEN leaves ELSE NextLevel(g[h - 1])
      <3>1. CASE h < m
        <4>1. /\ g[h] = f[h] /\ (h > 0 => g[h - 1] = f[h - 1])
              /\ h \in 0 .. m - 1
          BY <1>2, <3>1
        <4>2. f[h] = IF h = 0 THEN leaves ELSE NextLevel(f[h - 1])
          BY <2>1, <4>1 DEF Climbing
        <4> HIDE DEF g
        <4> QED BY <4>1, <4>2
      <3>2. CASE h = m
        <4>1. g[h] = NextLevel(f[m - 1]) /\ g[h - 1] = f[m - 1]
          BY <1>2, <3>2
        <4> HIDE DEF g
        <4> QED BY <1>2, <3>2, <4>1
      <3> QED BY <3>1, <3>2
    <2>3. g = [h \in 0 .. m |-> g[h]]
      OBVIOUS
    <2> HIDE DEF g
    <2>4. Climbing(leaves, m, g)
      BY <2>2, <2>3 DEF Climbing
    <2> QED BY <2>4
  <1> HIDE DEF Good
  <1>3. n \in Good
    BY <1>1, <1>2, Induction
  <1> USE DEF Good
  <1> QED BY <1>3

LEMMA LevelsClimb ==
    ASSUME NEW leaves, Len(leaves) \in Nat
    PROVE  Climbing(leaves, Len(leaves), Levels(leaves))
  <1>1. \E level : Climbing(leaves, Len(leaves), level)
    BY ClimbingExists
  <1>2. Climbing(leaves, Len(leaves), CHOOSE level : Climbing(leaves, Len(leaves), level))
    BY <1>1
  <1>3. Levels(leaves) = CHOOSE level : Climbing(leaves, Len(leaves), level)
    BY DEF Levels, Climbing, NextLevel
  <1> QED BY <1>2, <1>3

\* The levels shrink until one node is left, the root.
LEMMA LevelsShrink ==
    ASSUME NEW leaves, IsSeq(leaves), Len(leaves) > 0
    PROVE  LET level == Levels(leaves)
               n == Len(leaves)
           IN /\ level[0] = leaves
              /\ \A h \in 1 .. n : level[h] = NextLevel(level[h - 1])
              /\ \A h \in 0 .. n : IsSeq(level[h]) /\ Len(level[h]) > 0
              /\ Len(level[n]) = 1
  <1> DEFINE level == Levels(leaves)
             n == Len(leaves)
             Good == {h \in 0 .. n : /\ IsSeq(level[h]) /\ Len(level[h]) > 0
                                     /\ Len(level[h]) = 1 \/ Len(level[h]) <= n - h}
  <1>1. n \in Nat /\ n > 0
    BY SeqFacts
  <1>2. Climbing(leaves, n, level)
    BY <1>1, LevelsClimb
  <1> HIDE DEF level
  <1>3. level[0] = leaves /\ \A h \in 1 .. n : level[h] = NextLevel(level[h - 1])
    <2> HIDE DEF n
    <2> QED BY <1>1, <1>2 DEF Climbing
  <1>4. 0 \in Good
    BY <1>1, <1>3
  <1>5. ASSUME NEW h \in 0 .. n, h > 0, h - 1 \in Good PROVE h \in Good
    <2>1. /\ IsSeq(level[h - 1]) /\ Len(level[h - 1]) > 0
          /\ Len(level[h - 1]) = 1 \/ Len(level[h - 1]) <= n - (h - 1)
      BY <1>5
    <2>2. level[h] = NextLevel(level[h - 1])
      BY <1>1, <1>3, <1>5
    <2>3. /\ IsSeq(level[h]) /\ Len(level[h]) > 0
          /\ Len(level[h - 1]) > 1 => Len(level[h]) < Len(level[h - 1])
          /\ Len(level[h - 1]) = 1 => Len(level[h]) = 1
      BY <2>1, <2>2, NextLevelFacts
    <2>4. Len(level[h]) \in Nat /\ Len(level[h - 1]) \in Nat
      BY <2>1, <2>3, SeqFacts
    <2>5. Len(level[h]) = 1 \/ Len(level[h]) <= n - h
      <3> DEFINE x == Len(level[h - 1])
                 y == Len(level[h])
      <3>1. /\ x \in Nat /\ y \in Nat /\ n \in Nat /\ h \in Nat
            /\ x > 0 /\ (x = 1 \/ x <= n - (h - 1))
            /\ (x > 1 => y < x) /\ (x = 1 => y = 1)
        BY <1>1, <2>1, <2>3, <2>4
      <3> HIDE DEF x, y, n
      <3>2. y = 1 \/ y <= n - h
        BY <3>1
      <3> QED BY <3>2 DEF y
    <2> QED BY <2>3, <2>5
  <1> HIDE DEF Good
  <1>6. \A h \in 0 .. n : h \in Good
    BY <1>1, <1>4, <1>5, Induction
  <1> USE DEF Good
  <1>7. n \in Good
    BY <1>1, <1>6
  <1>8. Len(level[n]) \in Nat
    BY <1>7, SeqFacts
  <1>9. Len(level[n]) = 1
    <2> HIDE DEF n
    <2> QED BY <1>1, <1>7, <1>8
  <1> QED BY <1>3, <1>6, <1>9 DEF level

\* Batches of one length share a root only if they are the same.
LEMMA RootsAgree ==
    ASSUME NEW c, NEW d, IsSeq(c), IsSeq(d), Len(c) > 0, Len(c) = Len(d),
           MerkleRoot(c) = MerkleRoot(d)
    PROVE  c = d
  <1> DEFINE a == Levels(c)
             b == Levels(d)
             n == Len(c)
  <1>1. /\ n \in Nat
        /\ a[0] = c /\ \A h \in 1 .. n : a[h] = NextLevel(a[h - 1])
        /\ \A h \in 0 .. n : IsSeq(a[h]) /\ Len(a[h]) > 0
        /\ Len(a[n]) = 1
    BY LevelsShrink, SeqFacts
  <1>2. /\ b[0] = d /\ \A h \in 1 .. n : b[h] = NextLevel(b[h - 1])
        /\ \A h \in 0 .. n : IsSeq(b[h]) /\ Len(b[h]) > 0
        /\ Len(b[n]) = 1
    BY LevelsShrink
  <1>3. a[n][1] = b[n][1]
    BY DEF MerkleRoot
  <1>4. Len(a[0]) = Len(b[0])
    BY <1>1, <1>2
  <1> HIDE DEF a, b, n
  <1> DEFINE SameLength == {h \in 0 .. n : Len(a[h]) = Len(b[h])}
             Good == {k \in 0 .. n : a[n - k] = b[n - k]}
  <1>5. \A h \in 0 .. n : h \in SameLength
    <2>1. 0 \in SameLength
      BY <1>1, <1>4
    <2>2. ASSUME NEW h \in 0 .. n, h > 0, h - 1 \in SameLength PROVE h \in SameLength
      <3>1. h \in 1 .. n /\ h - 1 \in 0 .. n
        BY <1>1, <2>2
      <3>2. /\ Len(a[h]) = IF Len(a[h - 1]) > 1 THEN HalfOf(Len(a[h - 1])) ELSE Len(a[h - 1])
            /\ Len(b[h]) = IF Len(b[h - 1]) > 1 THEN HalfOf(Len(b[h - 1])) ELSE Len(b[h - 1])
        BY <1>1, <1>2, <3>1, NextLevelFacts
      <3> QED BY <2>2, <3>2
    <2> HIDE DEF SameLength
    <2> QED BY <1>1, <2>1, <2>2, Induction
  <1>6. 0 \in Good
    <2>1. IsSeq(a[n]) /\ IsSeq(b[n]) /\ n \in 0 .. n
      BY <1>1, <1>2
    <2>2. \A i \in 1 .. Len(a[n]) : a[n][i] = b[n][i]
      BY <1>1, <1>3
    <2>3. a[n] = b[n]
      BY <1>1, <1>2, <2>1, <2>2, SameSeq
    <2> QED BY <1>1, <2>3
  <1>7. ASSUME NEW k \in 0 .. n, k > 0, k - 1 \in Good PROVE k \in Good
    <2> DEFINE h == n - (k - 1)
    <2>1. h \in 1 .. n /\ h - 1 \in 0 .. n /\ h - 1 = n - k
      BY <1>1, <1>7
    <2>2. a[h] = b[h]
      BY <1>7
    <2> HIDE DEF h
    <2>3. NextLevel(a[h - 1]) = NextLevel(b[h - 1]) /\ Len(a[h - 1]) = Len(b[h - 1])
      BY <1>1, <1>2, <1>5, <2>1, <2>2
    <2>4. a[h - 1] = b[h - 1]
      BY <1>1, <1>2, <2>1, <2>3, NextLevelInjective
    <2> QED BY <2>1, <2>4
  <1> HIDE DEF Good
  <1>8. n \in Good
    <2>1. \A k \in 0 .. n : k \in Good
      BY <1>1, <1>6, <1>7, Induction
    <2> QED BY <1>1, <2>1
  <1> USE DEF Good
  <1>9. a[0] = b[0]
    <2>1. n - n = 0
      BY <1>1
    <2> QED BY <1>8, <2>1
  <1> QED BY <1>1, <1>2, <1>9

-----------------------------------------------------------------------------
\* Branches.

Following(leaf, branch, n, node) ==
    node = [h \in 0 .. n |-> IF h = 0 THEN leaf ELSE Join(node[h - 1], branch[h])]

LEMMA FollowingExists ==
    ASSUME NEW leaf, NEW branch, NEW n \in Nat
    PROVE  \E node : Following(leaf, branch, n, node)
  <1> DEFINE Good == {k \in 0 .. n : \E node : Following(leaf, branch, k, node)}
  <1>1. 0 \in Good
    <2> DEFINE f == [h \in 0 .. 0 |-> leaf]
    <2>1. Following(leaf, branch, 0, f)
      BY DEF Following
    <2> HIDE DEF f
    <2> QED BY <2>1
  <1>2. ASSUME NEW m \in 0 .. n, m > 0, m - 1 \in Good PROVE m \in Good
    <2>1. PICK f : Following(leaf, branch, m - 1, f)
      BY <1>2
    <2> DEFINE g == [h \in 0 .. m |-> IF h < m THEN f[h] ELSE Join(f[m - 1], branch[m])]
    <2>2. ASSUME NEW h \in 0 .. m
          PROVE  g[h] = IF h = 0 THEN leaf ELSE Join(g[h - 1], branch[h])
      <3>1. CASE h < m
        <4>1. g[h] = f[h] /\ (h > 0 => g[h - 1] = f[h - 1]) /\ h \in 0 .. m - 1
          BY <1>2, <3>1
        <4>2. f[h] = IF h = 0 THEN leaf ELSE Join(f[h - 1], branch[h])
          BY <2>1, <4>1 DEF Following
        <4> HIDE DEF g
        <4> QED BY <4>1, <4>2
      <3>2. CASE h = m
        <4>1. g[h] = Join(f[m - 1], branch[m]) /\ g[h - 1] = f[m - 1]
          BY <1>2, <3>2
        <4> HIDE DEF g
        <4> QED BY <1>2, <3>2, <4>1
      <3> QED BY <3>1, <3>2
    <2>3. g = [h \in 0 .. m |-> g[h]]
      OBVIOUS
    <2> HIDE DEF g
    <2>4. Following(leaf, branch, m, g)
      BY <2>2, <2>3 DEF Following
    <2> QED BY <2>4
  <1> HIDE DEF Good
  <1>3. n \in Good
    BY <1>1, <1>2, Induction
  <1> USE DEF Good
  <1> QED BY <1>3

LEMMA RootFollows ==
    ASSUME NEW leaf, NEW branch, Len(branch) \in Nat
    PROVE  \E node : /\ Following(leaf, branch, Len(branch), node)
                     /\ RootFrom(leaf, branch) = node[Len(branch)]
  <1>1. \E node : Following(leaf, branch, Len(branch), node)
    BY FollowingExists
  <1>2. Following(leaf, branch, Len(branch), CHOOSE node : Following(leaf, branch, Len(branch), node))
    BY <1>1
  <1>3. RootFrom(leaf, branch) = (CHOOSE node : Following(leaf, branch, Len(branch), node))[Len(branch)]
    BY DEF RootFrom, Following
  <1> QED BY <1>2, <1>3

LEMMA RootFromNothing ==
    ASSUME NEW leaf
    PROVE  RootFrom(leaf, <<>>) = leaf
  <1>1. Len(<<>>) = 0
    OBVIOUS
  <1>2. PICK node : Following(leaf, <<>>, 0, node) /\ RootFrom(leaf, <<>>) = node[0]
    BY <1>1, RootFollows
  <1> QED BY <1>2 DEF Following

LEMMA RootFromAppend ==
    ASSUME NEW leaf, NEW branch, IsSeq(branch), NEW sibling
    PROVE  RootFrom(leaf, Append(branch, sibling)) = Join(RootFrom(leaf, branch), sibling)
  <1> DEFINE n == Len(branch)
             longer == Append(branch, sibling)
  <1>1. /\ n \in Nat /\ Len(longer) = n + 1 /\ longer[n + 1] = sibling
        /\ \A h \in 1 .. n : longer[h] = branch[h]
    BY Appended, SeqFacts
  <1>2. PICK f : Following(leaf, branch, n, f) /\ RootFrom(leaf, branch) = f[n]
    BY <1>1, RootFollows
  <1>3. PICK g : Following(leaf, longer, n + 1, g) /\ RootFrom(leaf, longer) = g[n + 1]
    <2>1. Len(longer) \in Nat
      BY <1>1
    <2>2. \E g : Following(leaf, longer, Len(longer), g)
                /\ RootFrom(leaf, longer) = g[Len(longer)]
      BY <2>1, RootFollows
    <2> QED BY <1>1, <2>2
  <1> HIDE DEF n, longer
  <1> DEFINE Good == {h \in 0 .. n : f[h] = g[h]}
  <1>4. 0 \in Good
    BY <1>1, <1>2, <1>3 DEF Following
  <1>5. ASSUME NEW h \in 0 .. n, h > 0, h - 1 \in Good PROVE h \in Good
    <2>1. /\ f[h] = Join(f[h - 1], branch[h]) /\ g[h] = Join(g[h - 1], longer[h])
          /\ longer[h] = branch[h]
      BY <1>1, <1>2, <1>3, <1>5 DEF Following
    <2> QED BY <1>5, <2>1
  <1> HIDE DEF Good
  <1>6. n \in Good
    <2>1. \A h \in 0 .. n : h \in Good
      BY <1>1, <1>4, <1>5, Induction
    <2> QED BY <1>1, <2>1
  <1> USE DEF Good
  <1>7. g[n + 1] = Join(g[n], longer[n + 1])
    BY <1>1, <1>3 DEF Following
  <1> QED BY <1>1, <1>2, <1>3, <1>6, <1>7 DEF longer

LEMMA JoinInjective ==
    ASSUME NEW x, NEW y, NEW sibling, Join(x, sibling) = Join(y, sibling)
    PROVE  x = y
  BY PairCommits DEF Join

\* A node and its sibling make the node above.
LEMMA JoinSibling ==
    ASSUME NEW level, IsSeq(level), Len(level) > 1, NEW pos \in 0 .. Len(level) - 1
    PROVE  /\ Join(level[pos + 1], BranchStep(level, pos)) = LevelUp(level)[pos \div 2 + 1]
           /\ pos \div 2 \in 0 .. Len(LevelUp(level)) - 1
  <1> DEFINE n == Len(level)
             half == HalfOf(n)
             i == pos \div 2 + 1
  <1>0. n > 0 /\ n \in Nat
    BY SeqFacts
  <1>1. /\ half \in Nat \ {0} /\ n <= 2 * half
        /\ \A k \in 1 .. n : Even(level)[k] = level[k]
        /\ Len(LevelUp(level)) = half
        /\ \A k \in 1 .. half :
              LevelUp(level)[k] = HashPair(Even(level)[2 * k - 1], Even(level)[2 * k])
    BY <1>0, EvenFacts, LevelUpFacts
  <1>2. i \in 1 .. half
    <2>1. pos \in 0 .. n - 1
      OBVIOUS
    <2> HIDE DEF n, half
    <2> QED BY <1>0, <1>1, <2>1
  <1>3. Even(level)[pos + 1] = level[pos + 1] /\ pos \in Nat
    <2>1. pos + 1 \in 1 .. n /\ pos \in Nat
      BY <1>0
    <2> QED BY <1>1, <2>1
  <1>4. LevelUp(level)[i] = HashPair(Even(level)[2 * i - 1], Even(level)[2 * i])
    BY <1>1, <1>2
  <1>5. Join(level[pos + 1], BranchStep(level, pos)) = LevelUp(level)[i]
    <2>1. CASE pos % 2 = 0
      <3>1. 2 * i - 1 = pos + 1 /\ 2 * i = pos + 2
        BY <1>3, <2>1
      <3>2. Join(level[pos + 1], BranchStep(level, pos)) = HashPair(level[pos + 1], Even(level)[pos + 2])
        BY <2>1 DEF BranchStep, Join, Sibling
      <3> QED BY <1>3, <1>4, <3>1, <3>2
    <2>2. CASE pos % 2 # 0
      <3>1. 2 * i - 1 = pos /\ 2 * i = pos + 1
        BY <1>3, <2>2
      <3>2. Join(level[pos + 1], BranchStep(level, pos)) = HashPair(Even(level)[pos], level[pos + 1])
        BY <2>2 DEF BranchStep, Join, Sibling
      <3> QED BY <1>3, <1>4, <3>1, <3>2
    <2> QED BY <2>1, <2>2
  <1>6. i - 1 = pos \div 2 /\ pos \div 2 \in 0 .. half - 1
    <2>1. pos \div 2 \in Int
      BY <1>3
    <2> HIDE DEF half
    <2> QED BY <1>1, <1>2, <2>1
  <1> QED BY <1>1, <1>5, <1>6

Ascending(leaves, pos, n, at) ==
    at = [h \in 0 .. n |->
             IF h = 0 THEN [level |-> leaves, pos |-> pos, branch |-> <<>>]
             ELSE StepUp(at[h - 1])]

LEMMA AscendingExists ==
    ASSUME NEW leaves, NEW pos, NEW n \in Nat
    PROVE  \E at : Ascending(leaves, pos, n, at)
  <1> DEFINE bottom == [level |-> leaves, pos |-> pos, branch |-> <<>>]
             Good == {k \in 0 .. n : \E at : Ascending(leaves, pos, k, at)}
  <1>1. 0 \in Good
    <2> DEFINE f == [h \in 0 .. 0 |-> bottom]
    <2>1. Ascending(leaves, pos, 0, f)
      BY DEF Ascending
    <2> HIDE DEF f
    <2> QED BY <2>1
  <1>2. ASSUME NEW m \in 0 .. n, m > 0, m - 1 \in Good PROVE m \in Good
    <2>1. PICK f : Ascending(leaves, pos, m - 1, f)
      BY <1>2
    <2> DEFINE g == [h \in 0 .. m |-> IF h < m THEN f[h] ELSE StepUp(f[m - 1])]
    <2>2. ASSUME NEW h \in 0 .. m
          PROVE  g[h] = IF h = 0 THEN bottom ELSE StepUp(g[h - 1])
      <3>1. CASE h < m
        <4>1. g[h] = f[h] /\ (h > 0 => g[h - 1] = f[h - 1]) /\ h \in 0 .. m - 1
          BY <1>2, <3>1
        <4>2. f[h] = IF h = 0 THEN bottom ELSE StepUp(f[h - 1])
          BY <2>1, <4>1 DEF Ascending
        <4> HIDE DEF g
        <4> QED BY <4>1, <4>2
      <3>2. CASE h = m
        <4>1. g[h] = StepUp(f[m - 1]) /\ g[h - 1] = f[m - 1]
          BY <1>2, <3>2
        <4> HIDE DEF g
        <4> QED BY <1>2, <3>2, <4>1
      <3> QED BY <3>1, <3>2
    <2>3. g = [h \in 0 .. m |-> g[h]]
      OBVIOUS
    <2> HIDE DEF g
    <2>4. Ascending(leaves, pos, m, g)
      BY <2>2, <2>3 DEF Ascending
    <2> QED BY <2>4
  <1> HIDE DEF Good
  <1>3. n \in Good
    BY <1>1, <1>2, Induction
  <1> USE DEF Good
  <1> QED BY <1>3

LEMMA BranchAscends ==
    ASSUME NEW leaves, NEW pos, Len(leaves) \in Nat
    PROVE  \E at : /\ Ascending(leaves, pos, Len(leaves), at)
                   /\ Branch(leaves, pos) = at[Len(leaves)].branch
  <1>1. \E at : Ascending(leaves, pos, Len(leaves), at)
    BY AscendingExists
  <1>2. Ascending(leaves, pos, Len(leaves), CHOOSE at : Ascending(leaves, pos, Len(leaves), at))
    BY <1>1
  <1>3. Branch(leaves, pos)
           = (CHOOSE at : Ascending(leaves, pos, Len(leaves), at))[Len(leaves)].branch
    BY DEF Branch, Ascending
  <1> QED BY <1>2, <1>3

\* What is so of the branch at every height: it leads from its leaf, and from
\* no other, to the node it has reached.
LeadsUp(leaves, i, at, level) ==
    /\ at.level = level
    /\ IsSeq(at.level) /\ Len(at.level) > 0 /\ at.pos \in 0 .. Len(at.level) - 1
    /\ IsSeq(at.branch)
    /\ \A j \in DOMAIN leaves :
          RootFrom(leaves[j], at.branch) = at.level[at.pos + 1] <=> i = j

LEMMA StepUpLeads ==
    ASSUME NEW leaves, NEW i \in DOMAIN leaves, NEW at, NEW level, LeadsUp(leaves, i, at, level)
    PROVE  LeadsUp(leaves, i, StepUp(at), NextLevel(level))
  <1>0. /\ at.level = level /\ IsSeq(level) /\ Len(level) > 0 /\ Len(level) \in Nat
        /\ at.pos \in 0 .. Len(level) - 1
        /\ IsSeq(at.branch)
        /\ \A j \in DOMAIN leaves : RootFrom(leaves[j], at.branch) = level[at.pos + 1] <=> i = j
    BY SeqFacts DEF LeadsUp
  <1>1. CASE Len(level) > 1
    <2> DEFINE sibling == BranchStep(level, at.pos)
               above == StepUp(at)
    <2>1. /\ above.level = LevelUp(level) /\ above.pos = at.pos \div 2
          /\ above.branch = Append(at.branch, sibling)
      BY <1>0, <1>1 DEF StepUp
    <2>2. /\ Join(level[at.pos + 1], sibling) = LevelUp(level)[at.pos \div 2 + 1]
          /\ at.pos \div 2 \in 0 .. Len(LevelUp(level)) - 1
      BY <1>0, <1>1, JoinSibling
    <2>3. IsSeq(LevelUp(level)) /\ Len(LevelUp(level)) > 0 /\ NextLevel(level) = LevelUp(level)
      BY <1>0, <1>1, NextLevelFacts DEF NextLevel
    <2>4. IsSeq(Append(at.branch, sibling))
      BY <1>0, Appended
    <2> HIDE DEF sibling, above
    <2>5. ASSUME NEW j \in DOMAIN leaves
          PROVE  RootFrom(leaves[j], above.branch) = above.level[above.pos + 1] <=> i = j
      <3>1. RootFrom(leaves[j], above.branch) = Join(RootFrom(leaves[j], at.branch), sibling)
        BY <1>0, <2>1, RootFromAppend
      <3>2. above.level[above.pos + 1] = Join(level[at.pos + 1], sibling)
        BY <2>1, <2>2
      <3>3. Join(RootFrom(leaves[j], at.branch), sibling) = Join(level[at.pos + 1], sibling)
               <=> RootFrom(leaves[j], at.branch) = level[at.pos + 1]
        BY JoinInjective
      <3> QED BY <1>0, <3>1, <3>2, <3>3
    <2> QED BY <2>1, <2>2, <2>3, <2>4, <2>5 DEF LeadsUp, above
  <1>2. CASE ~(Len(level) > 1)
    <2>1. StepUp(at) = at /\ NextLevel(level) = level
      BY <1>0, <1>2 DEF StepUp, NextLevel
    <2> QED BY <2>1
  <1> QED BY <1>1, <1>2

\* The branch of a leaf leads from it to the root, and from no other leaf.
LEMMA BranchFits ==
    ASSUME NEW leaves, IsSeq(leaves), Len(leaves) > 0,
           \A i, j \in DOMAIN leaves : leaves[i] = leaves[j] => i = j,
           NEW i \in DOMAIN leaves, NEW j \in DOMAIN leaves
    PROVE  VerifyInclusion(leaves[j], Branch(leaves, i - 1), MerkleRoot(leaves)) <=> i = j
  <1> DEFINE n == Len(leaves)
             level == Levels(leaves)
             bottom == [level |-> leaves, pos |-> i - 1, branch |-> <<>>]
  <1>1. /\ n \in Nat /\ n > 0 /\ DOMAIN leaves = 1 .. n
        /\ level[0] = leaves /\ \A h \in 1 .. n : level[h] = NextLevel(level[h - 1])
        /\ Len(level[n]) = 1
    BY LevelsShrink, SeqFacts
  <1>2. PICK at : Ascending(leaves, i - 1, n, at) /\ Branch(leaves, i - 1) = at[n].branch
    BY <1>1, BranchAscends
  <1> HIDE DEF level, n
  <1>3. at[0] = bottom /\ \A h \in 1 .. n : at[h] = StepUp(at[h - 1])
    BY <1>1, <1>2 DEF Ascending
  <1> DEFINE Good == {h \in 0 .. n : LeadsUp(leaves, i, at[h], level[h])}
  <1>4. 0 \in Good
    <2>1. IsSeq(<<>>)
      BY EmptySeq DEF IsSeq
    <2>2. i - 1 \in 0 .. Len(leaves) - 1 /\ (i - 1) + 1 = i
      BY <1>1 DEF n
    <2>3. \A k \in DOMAIN leaves : RootFrom(leaves[k], <<>>) = leaves[k]
      BY RootFromNothing
    <2>4. LeadsUp(leaves, i, bottom, leaves)
      BY <2>1, <2>2, <2>3 DEF LeadsUp
    <2> QED BY <1>1, <1>3, <2>4
  <1>5. ASSUME NEW h \in 0 .. n, h > 0, h - 1 \in Good PROVE h \in Good
    <2>1. /\ h \in 1 .. n /\ LeadsUp(leaves, i, at[h - 1], level[h - 1])
      BY <1>1, <1>5
    <2>2. LeadsUp(leaves, i, StepUp(at[h - 1]), NextLevel(level[h - 1]))
      BY <2>1, StepUpLeads
    <2> QED BY <1>1, <1>3, <2>1, <2>2
  <1> HIDE DEF Good
  <1>6. n \in Good
    <2>1. \A h \in 0 .. n : h \in Good
      BY <1>1, <1>4, <1>5, Induction
    <2> QED BY <1>1, <2>1
  <1> USE DEF Good
  <1>7. LeadsUp(leaves, i, at[n], level[n])
    BY <1>6
  <1>8. at[n].level[at[n].pos + 1] = level[n][1]
    <2>1. at[n].level = level[n] /\ at[n].pos \in 0 .. Len(level[n]) - 1
      BY <1>7 DEF LeadsUp
    <2>2. at[n].pos = 0
      BY <1>1, <2>1
    <2>3. at[n].pos + 1 = 1
      BY <2>2
    <2> QED BY <2>1, <2>3
  <1>9. RootFrom(leaves[j], at[n].branch) = level[n][1] <=> i = j
    BY <1>7, <1>8 DEF LeadsUp
  <1> QED BY <1>2, <1>9 DEF VerifyInclusion, MerkleRoot, level, n

-----------------------------------------------------------------------------
\* Anchored batches.

LEMMA RangeFacts ==
    ASSUME NEW entries, NEW first \in Nat, NEW last \in Nat, first < last
    PROVE  /\ IsSeq(RangeHashes(entries, first, last))
           /\ Len(RangeHashes(entries, first, last)) = last - first
           /\ \A i \in 1 .. last - first :
                 RangeHashes(entries, first, last)[i] = entries[first + i].hash
  <1> DEFINE hashes == RangeHashes(entries, first, last)
  <1>1. hashes = [i \in 1 .. last - first |-> entries[first + i].hash]
    BY DEF RangeHashes
  <1> HIDE DEF hashes
  <1>2. DOMAIN hashes = 1 .. last - first /\ hashes = [i \in DOMAIN hashes |-> hashes[i]]
    BY <1>1
  <1>3. last - first \in Nat
    OBVIOUS
  <1>4. IsSeq(hashes) /\ Len(hashes) = last - first
    BY <1>2, <1>3, IndexedSeq
  <1> QED BY <1>1, <1>4 DEF hashes

LEMMA SeqPrefix ==
    ASSUME NEW s, IsSeq(s), NEW last \in 1 .. Len(s)
    PROVE  /\ IsSeq(SubSeq(s, 1, last)) /\ Len(SubSeq(s, 1, last)) = last
           /\ \A i \in 1 .. last : SubSeq(s, 1, last)[i] = s[i]
  <1>1. PICK S : s \in Seq(S)
    BY DEF IsSeq
  <1>2. \A i \in 1 .. last : s[i] \in S
    BY <1>1, SeqFacts, ElementOfSeq
  <1>3. last \in Int /\ 1 \in Int /\ 1 <= last
    BY SeqFacts
  <1>4. /\ SubSeq(s, 1, last) \in Seq(S) /\ Len(SubSeq(s, 1, last)) = last - 1 + 1
        /\ \A i \in 1 .. last - 1 + 1 : SubSeq(s, 1, last)[i] = s[1 + i - 1]
    BY <1>2, <1>3, SubSeqProperties
  <1>5. last - 1 + 1 = last /\ \A i \in 1 .. last : 1 + i - 1 = i
    BY <1>3
  <1> QED BY <1>4, <1>5 DEF IsSeq

\* Chains with the same root over a batch are the same up to its end: the
\* root tells their hashes, and the last one what came before.
THEOREM AnchoredAgree ==
    ASSUME NEW c, NEW d, IsChain(c), IsChain(d), NEW first \in Nat, NEW last \in Nat,
           first < last, last <= Len(c), last <= Len(d),
           MerkleRoot(RangeHashes(c, first, last)) = MerkleRoot(RangeHashes(d, first, last))
    PROVE  SubSeq(c, 1, last) = SubSeq(d, 1, last)
  <1>1. RangeHashes(c, first, last) = RangeHashes(d, first, last)
    <2>1. /\ IsSeq(RangeHashes(c, first, last)) /\ IsSeq(RangeHashes(d, first, last))
          /\ Len(RangeHashes(c, first, last)) = last - first
          /\ Len(RangeHashes(d, first, last)) = last - first
      BY RangeFacts
    <2>2. last - first > 0
      OBVIOUS
    <2> QED BY <2>1, <2>2, RootsAgree
  <1>2. last - first \in 1 .. last - first /\ first + (last - first) = last
    OBVIOUS
  <1>3. c[last].hash = d[last].hash
    <2>1. /\ RangeHashes(c, first, last)[last - first] = c[first + (last - first)].hash
          /\ RangeHashes(d, first, last)[last - first] = d[first + (last - first)].hash
      BY <1>2, RangeFacts
    <2> QED BY <1>1, <1>2, <2>1
  <1>4. last \in 1 .. Len(c) /\ last \in 1 .. Len(d) /\ DOMAIN c = 1 .. Len(c) /\ DOMAIN d = 1 .. Len(d)
    BY SeqFacts DEF IsChain
  <1>5. \A i \in 1 .. last : c[i] = d[i]
    BY <1>3, <1>4, ChainsAgree
  <1>6. /\ IsSeq(SubSeq(c, 1, last)) /\ IsSeq(SubSeq(d, 1, last))
        /\ Len(SubSeq(c, 1, last)) = last /\ Len(SubSeq(d, 1, last)) = last
        /\ \A i \in 1 .. last : SubSeq(c, 1, last)[i] = c[i] /\ SubSeq(d, 1, last)[i] = d[i]
    BY <1>4, SeqPrefix DEF IsChain
  <1> QED BY <1>5, <1>6, SameSeq

LEMMA ForgedEventsFacts ==
    ASSUME IsSeq(log), NEW events \in ForgedEvents
    PROVE  IsSeq(events) /\ Len(events) \in Nat /\ Len(events) <= Len(log)
  <1> DEFINE n == Len(log)
  <1>1. n \in Nat /\ DOMAIN log = 1 .. n
    BY SeqFacts
  <1>2. PICK S : log \in Seq(S)
    BY DEF IsSeq
  <1>3. CASE \E i \in DOMAIN log : events = [log EXCEPT ![i] = KeylessSighting(None)]
    <2>1. PICK i \in DOMAIN log : events = [log EXCEPT ![i] = KeylessSighting(None)]
      BY <1>3
    <2>2. DOMAIN events = 1 .. n /\ events = [k \in DOMAIN events |-> events[k]]
      BY <1>1, <2>1
    <2>3. IsSeq(events) /\ Len(events) = n
      BY <1>1, <2>2, IndexedSeq
    <2> QED BY <1>1, <2>3
  <1>4. CASE \E i \in DOMAIN log : events = RemoveAt(log, i)
    <2>1. PICK i \in 1 .. n : events = SubSeq(log, 1, i - 1) \o SubSeq(log, i + 1, n)
      BY <1>1, <1>4 DEF RemoveAt
    <2>2. /\ \A k \in 1 .. i - 1 : log[k] \in S
          /\ \A k \in i + 1 .. n : log[k] \in S
      BY <1>1, <1>2, ElementOfSeq
    <2>3. /\ SubSeq(log, 1, i - 1) \in Seq(S) /\ SubSeq(log, i + 1, n) \in Seq(S)
          /\ Len(SubSeq(log, 1, i - 1)) = IF 1 <= i - 1 THEN i - 1 - 1 + 1 ELSE 0
          /\ Len(SubSeq(log, i + 1, n)) = IF i + 1 <= n THEN n - (i + 1) + 1 ELSE 0
      <3>1. i - 1 \in Int /\ i + 1 \in Int /\ n \in Int /\ 1 \in Int
        BY <1>1
      <3> HIDE DEF n
      <3>2. /\ SubSeq(log, 1, i - 1) \in Seq(S)
            /\ Len(SubSeq(log, 1, i - 1)) = IF 1 <= i - 1 THEN i - 1 - 1 + 1 ELSE 0
        BY <2>2, <3>1, SubSeqProperties
      <3>3. /\ SubSeq(log, i + 1, n) \in Seq(S)
            /\ Len(SubSeq(log, i + 1, n)) = IF i + 1 <= n THEN n - (i + 1) + 1 ELSE 0
        <4>1. i + 1 \in Int /\ n \in Int /\ \A k \in i + 1 .. n : log[k] \in S
          BY <2>2, <3>1
        <4> QED BY <4>1, SubSeqProperties
      <3> QED BY <3>2, <3>3
    <2>4. /\ IsSeq(events)
          /\ Len(events) = Len(SubSeq(log, 1, i - 1)) + Len(SubSeq(log, i + 1, n))
      BY <2>1, <2>3, Concatenated DEF IsSeq
    <2>5. Len(events) = n - 1 /\ n - 1 \in Nat /\ n - 1 <= n
      <3> DEFINE a == Len(SubSeq(log, 1, i - 1))
                 b == Len(SubSeq(log, i + 1, n))
      <3>1. /\ a = IF 1 <= i - 1 THEN i - 1 - 1 + 1 ELSE 0
            /\ b = IF i + 1 <= n THEN n - (i + 1) + 1 ELSE 0
        BY <2>3
      <3>2. Len(events) = a + b
        BY <2>4
      <3>3. i \in Nat /\ 1 <= i /\ i <= n /\ n \in Nat
        BY <1>1
      <3> HIDE DEF a, b, n
      <3>4. a = i - 1 /\ b = n - i
        BY <3>1, <3>3
      <3>5. a + b = n - 1 /\ n - 1 \in Nat /\ n - 1 <= n
        BY <3>3, <3>4
      <3> QED BY <3>2, <3>5
    <2> QED BY <1>1, <2>4, <2>5
  <1>5. CASE \E i \in 1 .. n - 1 : events = [log EXCEPT ![i] = log[i + 1], ![i + 1] = log[i]]
    <2>1. DOMAIN events = 1 .. n /\ events = [k \in DOMAIN events |-> events[k]]
      BY <1>1, <1>5
    <2>2. IsSeq(events) /\ Len(events) = n
      BY <1>1, <2>1, IndexedSeq
    <2> QED BY <1>1, <2>2
  <1> QED BY <1>3, <1>4, <1>5 DEF ForgedEvents

LEMMA ForgedIsChain ==
    ASSUME IsSeq(log), NEW forged \in Forgeries(Chain(log)), VerifyChain(forged)
    PROVE  IsChain(forged)
  <1> DEFINE entries == Chain(log)
  <1>1. IsChain(entries) /\ Len(entries) = Len(log)
    BY ChainVerifies
  <1>2. PICK events \in ForgedEvents :
           forged \in {Chain(events), [i \in DOMAIN events |-> [entries[i] EXCEPT !.event = events[i]]]}
    BY DEF Forgeries
  <1> HIDE DEF entries
  <1>3. IsSeq(events) /\ Len(events) \in Nat /\ Len(events) <= Len(log)
    BY ForgedEventsFacts
  <1>4. CASE forged = Chain(events)
    BY <1>3, <1>4, ChainVerifies
  <1>5. CASE forged = [i \in DOMAIN events |-> [entries[i] EXCEPT !.event = events[i]]]
    <2>1. DOMAIN events = 1 .. Len(events) /\ DOMAIN entries = 1 .. Len(log) /\ Len(log) \in Nat
      BY <1>1, <1>3, SeqFacts DEF IsChain
    <2>2. DOMAIN forged = 1 .. Len(events) /\ forged = [i \in DOMAIN forged |-> forged[i]]
      BY <1>5, <2>1
    <2>3. IsSeq(forged)
      BY <1>3, <2>2, IndexedSeq
    <2>4. ASSUME NEW i \in DOMAIN forged PROVE IsEntry(forged[i])
      <3>1. i \in DOMAIN entries
        BY <1>3, <2>1, <2>2
      <3>2. IsEntry(entries[i])
        BY <1>1, <3>1 DEF IsChain
      <3>3. forged[i] = [entries[i] EXCEPT !.event = events[i]]
        BY <1>5, <2>1, <2>2
      <3> QED BY <3>2, <3>3 DEF IsEntry
    <2> QED BY <2>3, <2>4 DEF IsChain
  <1> QED BY <1>2, <1>4, <1>5

LEMMA BatchFacts ==
    ASSUME TrailInv, NEW batch \in Batches
    PROVE  /\ batch[1] \in Nat /\ batch[2] \in Nat
           /\ batch[1] < batch[2] /\ batch[2] <= Len(log)
  BY SeqFacts DEF Batches, TrailInv, LogSound

\* Whatever the log, its forgery and the batch that was anchored: a forgery
\* that verify_chain passes and that has the root which was anchored is the
\* log up to the end of the batch.
THEOREM ForgeriesTheorem == Spec => []ForgeriesShow
  <1>1. ASSUME TrailInv PROVE ForgeriesShow
    <2> DEFINE entries == Chain(log)
    <2>1. IsSeq(log) /\ IsChain(entries) /\ Len(entries) = Len(log)
      BY <1>1, ChainVerifies DEF TrailInv, LogSound
    <2>2. ASSUME NEW forged \in Forgeries(entries), VerifyChain(forged), NEW batch \in Batches,
                 batch[2] <= Len(forged),
                 MerkleRoot(RangeHashes(forged, batch[1], batch[2]))
                    = MerkleRoot(RangeHashes(entries, batch[1], batch[2]))
          PROVE  SubSeq(forged, 1, batch[2]) = SubSeq(entries, 1, batch[2])
      <3>1. IsChain(forged)
        BY <2>1, <2>2, ForgedIsChain
      <3>2. /\ batch[1] \in Nat /\ batch[2] \in Nat
            /\ batch[1] < batch[2] /\ batch[2] <= Len(entries)
        BY <1>1, <2>1, BatchFacts
      <3> HIDE DEF entries
      <3> QED BY <2>1, <2>2, <3>1, <3>2, AnchoredAgree
    <2> QED BY <2>2 DEF ForgeriesShow
  <1> QED BY <1>1, TrailInvHolds, PTL

\* Entries of a chain have different hashes, and salted they still do.
LEMMA LeavesDiffer ==
    ASSUME NEW c, IsChain(c), NEW first \in Nat, NEW last \in Nat, first < last, last <= Len(c),
           NEW hashes, hashes = RangeHashes(c, first, last),
           NEW leaves \in {hashes, SaltedLeaves(hashes)}
    PROVE  /\ IsSeq(leaves) /\ Len(leaves) > 0
           /\ \A i, j \in DOMAIN leaves : leaves[i] = leaves[j] => i = j
  <1> DEFINE n == last - first
  <1>1. /\ n \in Nat /\ n > 0
        /\ IsSeq(hashes) /\ Len(hashes) = n /\ DOMAIN hashes = 1 .. n
        /\ \A i \in 1 .. n : hashes[i] = c[first + i].hash
    <2>1. /\ IsSeq(hashes) /\ Len(hashes) = n
          /\ \A i \in 1 .. n : hashes[i] = c[first + i].hash
      BY RangeFacts
    <2>2. DOMAIN hashes = 1 .. Len(hashes) /\ n \in Nat /\ n > 0
      BY <2>1, SeqFacts
    <2> QED BY <2>1, <2>2
  <1>2. ASSUME NEW i \in 1 .. n PROVE hashes[i].seq = first + i - 1
    <2>1. first + i \in 1 .. Len(c) /\ DOMAIN c = 1 .. Len(c)
      BY SeqFacts DEF IsChain
    <2>2. /\ c[first + i].seq = first + i - 1
          /\ c[first + i].hash = HashBody(c[first + i].seq, c[first + i].prev, c[first + i].event)
      BY <2>1 DEF IsChain, VerifyChain
    <2>3. c[first + i].hash.seq = c[first + i].seq
      BY <2>2 DEF HashBody
    <2> QED BY <1>1, <2>2, <2>3
  <1> HIDE DEF n
  <1>3. CASE leaves = hashes
    <2>1. ASSUME NEW i \in 1 .. n, NEW j \in 1 .. n, hashes[i] = hashes[j] PROVE i = j
      <3>1. first + i - 1 = first + j - 1
        BY <1>2, <2>1
      <3> QED BY <1>1, <3>1
    <2> QED BY <1>1, <1>3, <2>1
  <1>4. CASE leaves = SaltedLeaves(hashes)
    <2>1. leaves = [i \in 1 .. n |-> SaltedLeaf(i, hashes[i])]
      BY <1>1, <1>4 DEF SaltedLeaves
    <2>2. DOMAIN leaves = 1 .. n /\ leaves = [i \in DOMAIN leaves |-> leaves[i]]
      BY <2>1
    <2>3. IsSeq(leaves) /\ Len(leaves) = n
      BY <1>1, <2>2, IndexedSeq
    <2>4. \A i \in 1 .. n : leaves[i].salt = i
      BY <2>1 DEF SaltedLeaf
    <2> QED BY <1>1, <2>2, <2>3, <2>4
  <1> QED BY <1>3, <1>4

\* Whatever the length of the log and of the batch, the branch of an entry
\* leads from its leaf, salted or not, to the root of the batch, and from the
\* leaf of no other entry.
THEOREM ProofsTheorem == Spec => []ProofsFit
  <1>1. ASSUME TrailInv PROVE ProofsFit
    <2> DEFINE entries == Chain(log)
    <2>1. IsChain(entries) /\ Len(entries) = Len(log)
      BY <1>1, ChainVerifies DEF TrailInv, LogSound
    <2>2. ASSUME NEW batch \in Batches,
                 NEW hashes, hashes = RangeHashes(entries, batch[1], batch[2]),
                 NEW leaves \in {hashes, SaltedLeaves(hashes)},
                 NEW i \in DOMAIN leaves, NEW j \in DOMAIN leaves
          PROVE  VerifyInclusion(leaves[j], Branch(leaves, i - 1), MerkleRoot(leaves)) <=> i = j
      <3>1. /\ batch[1] \in Nat /\ batch[2] \in Nat
            /\ batch[1] < batch[2] /\ batch[2] <= Len(entries)
        BY <1>1, <2>1, BatchFacts
      <3> HIDE DEF entries
      <3>2. /\ IsSeq(leaves) /\ Len(leaves) > 0
            /\ \A k, l \in DOMAIN leaves : leaves[k] = leaves[l] => k = l
        BY <2>1, <2>2, <3>1, LeavesDiffer
      <3> QED BY <3>2, BranchFits
    <2> QED BY <2>2 DEF ProofsFit
  <1> QED BY <1>1, TrailInvHolds, PTL
=============================================================================
