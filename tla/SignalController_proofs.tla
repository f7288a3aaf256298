----------------------- MODULE SignalController_proofs -----------------------
(***************************************************************************)
(* Proofs about SignalController, for every number of phases, timing and   *)
(* threshold: type correctness, the bound on skipped decisions, and what   *)
(* it means for two-phase junctions.                                       *)
(***************************************************************************)
EXTENDS SignalController, FiniteSetTheorems, TLAPS

\* The invariant behind the type: the phase being served has just been
\* reset, and every other phase has been skipped at least once since.
ServedIsFresh ==
    /\ skip[cur] = 0
    /\ \A q \in Phases \ {cur} : skip[q] >= 1

TypeInv == TypeOK /\ ServedIsFresh

LEMMA PhaseZero == 0 \in Phases
  BY SignalAssumption DEF Phases

\* What one decision does to the skip counters and the lamp.
LEMMA DecideFacts ==
    ASSUME TypeOK, Decide
    PROVE  \E best \in Phases :
              /\ skip' = SkipAfter(best)
              /\ cur' = best
              /\ t' = 0
              /\ free' \in 0 .. N
              /\ violations' \in 0 .. ViolationCap
              /\ IF best # cur
                 THEN mode' = "yellow" /\ lamp' = ClearingYellow(cur)
                 ELSE mode' = "green" /\ lamp' = lamp
  <1>1. PICK pressure \in [Phases -> Pressures], locked \in MayBeLocked :
           \E normal \in Wanted(pressure), best \in Phases :
              /\ AntiStarvationChoice(normal, pressure, locked, best)
              /\ RecordService(best, locked)
              /\ Actuate(best)
              /\ free' = IF locked THEN 0 ELSE IF free < N THEN free + 1 ELSE N
    BY DEF Decide
  <1>2. PICK best \in Phases :
              /\ RecordService(best, locked)
              /\ Actuate(best)
              /\ free' = IF locked THEN 0 ELSE IF free < N THEN free + 1 ELSE N
    BY <1>1
  <1>3. free' \in 0 .. N
    BY <1>2, SignalAssumption DEF TypeOK
  <1>4. violations' \in 0 .. ViolationCap /\ skip' = SkipAfter(best)
    BY <1>2, SignalAssumption DEF TypeOK, RecordService
  <1>5. cur' = best /\ t' = 0
    BY <1>2 DEF Actuate
  <1>6. IF best # cur
        THEN mode' = "yellow" /\ lamp' = ClearingYellow(cur)
        ELSE mode' = "green" /\ lamp' = lamp
    BY <1>2 DEF Actuate, Decide
  <1> QED BY <1>3, <1>4, <1>5, <1>6

LEMMA SkipAfterFacts ==
    ASSUME NEW f \in Phases, skip \in [Phases -> Nat]
    PROVE  /\ SkipAfter(f) \in [Phases -> Nat]
           /\ SkipAfter(f)[f] = 0
           /\ \A q \in Phases \ {f} : SkipAfter(f)[q] = skip[q] + 1
  BY DEF SkipAfter

LEMMA ElapseType ==
    ASSUME TypeOK, Elapse
    PROVE  held' \in Nat /\ wait' \in [Phases -> Nat]
  BY DEF TypeOK, Elapse

LEMMA InitType == Init => TypeInv
  BY SignalAssumption, PhaseZero
     DEF Init, TypeInv, TypeOK, ServedIsFresh, Green, Phases

LEMMA StepType == TypeInv /\ [Next]_vars => TypeInv'
  <1> SUFFICES ASSUME TypeInv, [Next]_vars PROVE TypeInv'
    OBVIOUS
  <1> USE SignalAssumption DEF TypeInv
  <1>1. CASE Wait
    BY <1>1, ElapseType DEF Wait, TypeOK, ServedIsFresh
  <1>2. CASE YellowEnds
    BY <1>2, ElapseType DEF YellowEnds, TypeOK, ServedIsFresh, Green
  <1>3. CASE Decide
    <2>1. PICK best \in Phases :
              /\ skip' = SkipAfter(best)
              /\ cur' = best
              /\ t' = 0
              /\ free' \in 0 .. N
              /\ violations' \in 0 .. ViolationCap
              /\ IF best # cur
                 THEN mode' = "yellow" /\ lamp' = ClearingYellow(cur)
                 ELSE mode' = "green" /\ lamp' = lamp
      BY <1>3, DecideFacts
    <2>2. held' \in Nat /\ wait' \in [Phases -> Nat]
      BY <1>3, ElapseType DEF Decide
    <2>3. skip' \in [Phases -> Nat] /\ ServedIsFresh'
      BY <2>1, SkipAfterFacts DEF TypeOK, ServedIsFresh
    <2>4. mode' \in {"green", "yellow"}
          /\ lamp' \in [colour : {"green", "yellow"}, phase : Phases]
      BY <2>1 DEF TypeOK, ClearingYellow
    <2> QED BY <2>1, <2>2, <2>3, <2>4 DEF TypeOK
  <1>4. CASE UNCHANGED vars
    BY <1>4 DEF vars, TypeOK, ServedIsFresh
  <1> QED BY <1>1, <1>2, <1>3, <1>4 DEF Next

\* Type correctness of the controller: in particular the second counter never
\* runs past the decision or the end of the yellow (the state kept by step).
THEOREM TypeCorrect == Spec => []TypeOK
  <1>1. Spec => []TypeInv
    BY InitType, StepType, PTL DEF Spec
  <1> QED BY <1>1, PTL DEF TypeInv

-----------------------------------------------------------------------------
(***************************************************************************)
(* The bound on skipped decisions.  With the floor enabled, no preemption  *)
(* and at most MaxSkip + 1 phases, OverdueAreOutnumbered is inductive: the *)
(* phase served at a decision that leaves p overdue was itself at the      *)
(* threshold, hence outside the set of recently served phases that         *)
(* outnumbers p's excess, and joins it just as the excess grows by one.    *)
(***************************************************************************)
FloorHolds == Enabled /\ ~Preemptible

\* Few enough phases for the floor to serve each in turn.
FewPhases == N <= MaxSkip + 1

SkipInv == TypeInv /\ OverdueAreOutnumbered

\* The floor's choice: a phase at the threshold, whenever there is one.
LEMMA FloorChoice ==
    ASSUME FloorHolds, TypeOK, Decide
    PROVE  \E best \in Phases :
              /\ skip' = SkipAfter(best)
              /\ cur' = best
              /\ Reached # {} => best \in Reached
  <1>1. MayBeLocked = {FALSE}
    BY DEF MayBeLocked, FloorHolds
  <1>2. PICK pressure \in [Phases -> Pressures] :
           \E normal \in Wanted(pressure), best \in Phases :
              /\ AntiStarvationChoice(normal, pressure, FALSE, best)
              /\ RecordService(best, FALSE)
              /\ Actuate(best)
    BY <1>1 DEF Decide
  <1>3. PICK normal \in Wanted(pressure), best \in Phases :
              /\ AntiStarvationChoice(normal, pressure, FALSE, best)
              /\ RecordService(best, FALSE)
              /\ Actuate(best)
    BY <1>2
  <1>4. Reached # {} => best \in Reached
    BY <1>3 DEF AntiStarvationChoice, FloorHolds
  <1>5. skip' = SkipAfter(best) /\ cur' = best
    BY <1>3 DEF RecordService, Actuate
  <1> QED BY <1>4, <1>5

LEMMA PhasesFinite == IsFiniteSet(Phases) /\ Cardinality(Phases) = N
  BY FS_Interval, SignalAssumption DEF Phases

LEMMA RecentFinite ==
    ASSUME NEW e
    PROVE  /\ IsFiniteSet(Recent(e))
           /\ Cardinality(Recent(e)) \in Nat
           /\ \A p \in Phases \ Recent(e) : Cardinality(Recent(e)) <= N - 1
  <1>1. Recent(e) \in SUBSET Phases
    BY DEF Recent
  <1>2. IsFiniteSet(Recent(e)) /\ Cardinality(Recent(e)) \in Nat
    BY <1>1, PhasesFinite, FS_Subset, FS_CardinalityType
  <1>3. ASSUME NEW p \in Phases \ Recent(e)
        PROVE  Cardinality(Recent(e)) <= N - 1
    <2>1. Recent(e) # Phases
      BY <1>3
    <2>2. Cardinality(Recent(e)) <= N /\ Cardinality(Recent(e)) # N
      BY <1>1, <2>1, PhasesFinite, FS_Subset
    <2> QED BY <2>2, <1>2, SignalAssumption
  <1> QED BY <1>2, <1>3

\* An overdue phase is not recent itself, so fewer than N phases are.
LEMMA ExcessBound ==
    ASSUME SkipInv, NEW p \in Phases, skip[p] >= MaxSkip
    PROVE  /\ Cardinality(Recent(skip[p] - MaxSkip)) <= N - 1
           /\ skip[p] - MaxSkip + 1 <= N - 1
  <1>1. skip[p] \in Nat
    BY DEF SkipInv, TypeInv, TypeOK
  <1>2. p \in Phases \ Recent(skip[p] - MaxSkip)
    BY <1>1, SignalAssumption DEF Recent
  <1>3. Cardinality(Recent(skip[p] - MaxSkip)) <= N - 1
    BY <1>2, RecentFinite
  <1>4. Cardinality(Recent(skip[p] - MaxSkip)) > skip[p] - MaxSkip
    BY DEF SkipInv, OverdueAreOutnumbered
  <1>5. Cardinality(Recent(skip[p] - MaxSkip)) \in Nat
    BY RecentFinite
  <1> QED BY <1>1, <1>3, <1>4, <1>5, SignalAssumption

LEMMA InvGivesSkipBound == SkipInv => SkipBound
  <1> SUFFICES ASSUME SkipInv, NEW p \in Phases
               PROVE  skip[p] <= MaxSkip + N - 2
    BY DEF SkipBound
  <1>1. skip[p] \in Nat
    BY DEF SkipInv, TypeInv, TypeOK
  <1>2. CASE skip[p] >= MaxSkip
    BY <1>1, <1>2, ExcessBound, SignalAssumption
  <1>3. CASE skip[p] < MaxSkip
    BY <1>1, <1>3, SignalAssumption
  <1> QED BY <1>1, <1>2, <1>3, SignalAssumption

LEMMA InitSkip == Init => SkipInv
  <1> SUFFICES ASSUME Init PROVE OverdueAreOutnumbered
    BY InitType DEF SkipInv
  <1> SUFFICES ASSUME NEW p \in Phases, skip[p] >= MaxSkip
               PROVE  Cardinality(Recent(skip[p] - MaxSkip)) > skip[p] - MaxSkip
    BY DEF OverdueAreOutnumbered
  <1>1. skip[p] - MaxSkip = 0
    BY SignalAssumption DEF Init
  <1>2. 0 \in Recent(0)
    BY PhaseZero DEF Init, Recent
  <1>3. Cardinality(Recent(0)) # 0
    BY <1>2, RecentFinite, FS_EmptySet
  <1> QED BY <1>1, <1>3, RecentFinite

\* A decision that serves an overdue phase when there is one.
LEMMA ServingKeepsOutnumbered ==
    ASSUME FewPhases, SkipInv, NEW best \in Phases, skip' = SkipAfter(best),
           Reached # {} => best \in Reached
    PROVE  OverdueAreOutnumbered'
  <1>1. skip' = SkipAfter(best) /\ (Reached # {} => best \in Reached)
    OBVIOUS
  <1>2. skip \in [Phases -> Nat]
    BY DEF SkipInv, TypeInv, TypeOK
  <1> SUFFICES ASSUME NEW p \in Phases, skip'[p] >= MaxSkip
               PROVE  Cardinality({q \in Phases : skip'[q] <= skip'[p] - MaxSkip})
                         > skip'[p] - MaxSkip
    BY DEF OverdueAreOutnumbered, Recent
  <1> DEFINE e == skip[p] - MaxSkip
             after == {q \in Phases : skip'[q] <= skip'[p] - MaxSkip}
  <1>3. p # best /\ skip'[p] = skip[p] + 1 /\ skip'[p] - MaxSkip = e + 1
    BY <1>1, <1>2, SkipAfterFacts, SignalAssumption
  <1>4. skip'[best] = 0 /\ \A q \in Phases \ {best} : skip'[q] = skip[q] + 1
    BY <1>1, <1>2, SkipAfterFacts
  <1>5. after = {q \in Phases : skip'[q] <= e + 1}
    BY <1>3
  <1>6. best \in after
    BY <1>3, <1>4, <1>5, SignalAssumption, <1>2
  <1>7. IsFiniteSet(after) /\ Cardinality(after) \in Nat
    BY <1>5, PhasesFinite, FS_Subset, FS_CardinalityType
  <1>8. CASE skip[p] < MaxSkip
    <2>1. Cardinality(after) # 0
      BY <1>6, <1>7, FS_EmptySet
    <2>2. e + 1 = 0
      BY <1>2, <1>3, <1>8, SignalAssumption
    <2> QED BY <2>1, <2>2, <1>3, <1>7
  <1>9. CASE skip[p] >= MaxSkip
    <2>1. best \in Reached
      BY <1>1, <1>9 DEF Reached
    <2>2. e + 1 <= N - 1
      BY <1>9, ExcessBound
    <2>3. e < MaxSkip
      BY <2>2, <1>2, SignalAssumption DEF FewPhases
    <2>4. best \notin Recent(e)
      BY <2>1, <2>3, <1>2, SignalAssumption DEF Reached, Recent
    <2>5. Recent(e) \cup {best} \subseteq after
      BY <1>2, <1>4, <1>5, <1>6, SignalAssumption DEF Recent
    <2>6. Cardinality(Recent(e) \cup {best}) = Cardinality(Recent(e)) + 1
      BY <2>4, RecentFinite, FS_AddElement
    <2>7. Cardinality(Recent(e) \cup {best}) <= Cardinality(after)
      BY <2>5, <1>7, FS_Subset
    <2>8. Cardinality(Recent(e)) > e
      BY <1>9 DEF SkipInv, OverdueAreOutnumbered
    <2> HIDE DEF e, after
    <2>9. e \in Int
      BY <1>2, SignalAssumption DEF e
    <2>10. Cardinality(Recent(e)) \in Nat
      BY RecentFinite
    <2>11. Cardinality(after) > e + 1
      BY <2>6, <2>7, <2>8, <2>9, <2>10, <1>7
    <2> QED BY <2>11, <1>3 DEF after
  <1> QED BY <1>2, <1>8, <1>9, SignalAssumption

LEMMA DecideKeepsOutnumbered ==
    ASSUME FloorHolds, FewPhases, SkipInv, Decide
    PROVE  OverdueAreOutnumbered'
  <1>1. PICK best \in Phases :
              /\ skip' = SkipAfter(best)
              /\ Reached # {} => best \in Reached
    BY FloorChoice DEF SkipInv, TypeInv
  <1> QED BY <1>1, ServingKeepsOutnumbered

LEMMA StepSkip ==
    ASSUME FloorHolds, FewPhases
    PROVE  SkipInv /\ [Next]_vars => SkipInv'
  <1> SUFFICES ASSUME SkipInv, [Next]_vars PROVE OverdueAreOutnumbered'
    BY StepType DEF SkipInv
  <1>1. CASE Decide
    BY <1>1, DecideKeepsOutnumbered
  <1>2. CASE UNCHANGED skip
    BY <1>2 DEF SkipInv, OverdueAreOutnumbered, Recent
  <1> QED BY <1>1, <1>2 DEF Next, Wait, YellowEnds, vars

\* While a phase is e over the threshold, more than e phases are within e
\* decisions of their last service: the inductive invariant of the floor, for
\* every junction with at most MaxSkip + 1 phases (_anti_starvation_choice).
THEOREM Outnumbered ==
    ASSUME FloorHolds, FewPhases
    PROVE  Spec => []OverdueAreOutnumbered
  <1>1. SkipInv /\ [Next]_vars => SkipInv'
    BY StepSkip
  <1>2. SkipInv => OverdueAreOutnumbered
    BY DEF SkipInv
  <1> QED BY <1>1, <1>2, InitSkip, PTL DEF Spec

\* The floor's bound, for every junction with at most MaxSkip + 1 phases and
\* whatever decide() wants: a phase is passed over at most MaxSkip + N - 2
\* decisions in a row (_anti_starvation_choice with _record_service).
THEOREM SkipBounded ==
    ASSUME FloorHolds, FewPhases
    PROVE  Spec => []SkipBound
  <1>1. SkipInv /\ [Next]_vars => SkipInv'
    BY StepSkip
  <1> QED BY <1>1, InvGivesSkipBound, InitSkip, PTL DEF Spec

-----------------------------------------------------------------------------
(***************************************************************************)
(* The debt of a preemption.  Under a lock the counters age without bound. *)
(* Each decision after it serves an overdue phase while there is one, and  *)
(* that phase is none of those served since the lock: after f decisions    *)
(* more than f phases are within f decisions of their last service.  As    *)
(* soon as no phase is overdue, or f is N - 1 and all phases are recent,   *)
(* the invariant of the floor holds again, and stays until the next lock.  *)
(***************************************************************************)
Repaying == free < N - 1 /\ Cardinality(Recent(free)) > free

DebtInv == TypeInv /\ (OverdueAreOutnumbered \/ Repaying)

LEMMA DecideChoice ==
    ASSUME Enabled, TypeOK, Decide
    PROVE  \E best \in Phases :
              /\ skip' = SkipAfter(best)
              /\ \/ free' = 0
                 \/ /\ free' = IF free < N THEN free + 1 ELSE N
                    /\ Reached # {} => best \in Reached
  <1>1. PICK pressure \in [Phases -> Pressures], locked \in MayBeLocked :
           \E normal \in Wanted(pressure), best \in Phases :
              /\ AntiStarvationChoice(normal, pressure, locked, best)
              /\ RecordService(best, locked)
              /\ free' = IF locked THEN 0 ELSE IF free < N THEN free + 1 ELSE N
    BY DEF Decide
  <1>2. PICK normal \in Wanted(pressure), best \in Phases :
              /\ AntiStarvationChoice(normal, pressure, locked, best)
              /\ RecordService(best, locked)
              /\ free' = IF locked THEN 0 ELSE IF free < N THEN free + 1 ELSE N
    BY <1>1
  <1>3. skip' = SkipAfter(best)
    BY <1>2 DEF RecordService
  <1>4. ~locked => (Reached # {} => best \in Reached)
    BY <1>2 DEF AntiStarvationChoice
  <1> QED BY <1>2, <1>3, <1>4

\* After a decision the phase served is within 0 decisions of its service.
LEMMA ServedIsRecent ==
    ASSUME TypeOK, NEW best \in Phases, skip' = SkipAfter(best)
    PROVE  Cardinality({q \in Phases : skip'[q] <= 0}) > 0
  <1> DEFINE zero == {q \in Phases : skip'[q] <= 0}
  <1>1. skip'[best] = 0
    BY SkipAfterFacts DEF TypeOK
  <1>2. best \in zero
    BY <1>1
  <1>3. IsFiniteSet(zero) /\ Cardinality(zero) \in Nat
    BY PhasesFinite, FS_Subset, FS_CardinalityType
  <1>4. Cardinality(zero) # 0
    BY <1>2, <1>3, FS_EmptySet
  <1> QED BY <1>3, <1>4

\* When no counter is over the threshold, the invariant of the floor holds.
LEMMA NoDebt ==
    ASSUME TypeOK, NEW best \in Phases, skip' = SkipAfter(best),
           \A q \in Phases : skip'[q] <= MaxSkip
    PROVE  OverdueAreOutnumbered'
  <1> SUFFICES ASSUME NEW p \in Phases, skip'[p] >= MaxSkip
               PROVE  Cardinality({q \in Phases : skip'[q] <= skip'[p] - MaxSkip})
                         > skip'[p] - MaxSkip
    BY DEF OverdueAreOutnumbered, Recent
  <1>1. skip'[p] \in Nat
    BY SkipAfterFacts DEF TypeOK
  <1>2. skip'[p] - MaxSkip = 0
    BY <1>1, SignalAssumption
  <1> QED BY <1>2, ServedIsRecent

LEMMA DecideKeepsDebt ==
    ASSUME Enabled, FewPhases, DebtInv, Decide
    PROVE  (OverdueAreOutnumbered \/ Repaying)'
  <1>1. PICK best \in Phases :
              /\ skip' = SkipAfter(best)
              /\ \/ free' = 0
                 \/ /\ free' = IF free < N THEN free + 1 ELSE N
                    /\ Reached # {} => best \in Reached
    BY DecideChoice DEF DebtInv, TypeInv
  <1>2. TypeOK /\ skip \in [Phases -> Nat] /\ free \in 0 .. N
    BY DEF DebtInv, TypeInv, TypeOK
  <1>3. /\ skip'[best] = 0
        /\ \A q \in Phases \ {best} : skip'[q] = skip[q] + 1
    BY <1>1, <1>2, SkipAfterFacts
  <1>4. CASE free' = 0
    <2>1. CASE N - 1 > 0
      BY <1>1, <1>2, <1>4, <2>1, ServedIsRecent DEF Repaying, Recent
    <2>2. CASE ~(N - 1 > 0)
      <3>1. \A q \in Phases : q = best
        BY <2>2, SignalAssumption DEF Phases
      <3>2. \A q \in Phases : skip'[q] <= MaxSkip
        BY <1>3, <3>1, SignalAssumption
      <3> QED BY <1>1, <1>2, <3>2, NoDebt
    <2> QED BY <2>1, <2>2
  <1>5. CASE /\ free' = IF free < N THEN free + 1 ELSE N
             /\ Reached # {} => best \in Reached
    <2>1. CASE OverdueAreOutnumbered
      BY <1>1, <1>5, <2>1, ServingKeepsOutnumbered DEF DebtInv, SkipInv
    <2>2. CASE Reached = {}
      <3>1. \A q \in Phases : skip[q] < MaxSkip
        BY <1>2, <2>2, SignalAssumption DEF Reached
      <3>2. \A q \in Phases : skip'[q] <= MaxSkip
        BY <1>2, <1>3, <3>1, SignalAssumption
      <3> QED BY <1>1, <1>2, <3>2, NoDebt
    <2>3. CASE Repaying /\ Reached # {}
      <3> DEFINE after == {q \in Phases : skip'[q] <= free + 1}
      <3>1. free \in Nat /\ free < N - 1 /\ free' = free + 1 /\ free < MaxSkip
        BY <1>2, <1>5, <2>3, SignalAssumption DEF Repaying, FewPhases
      <3>2. best \notin Recent(free)
        BY <1>2, <1>5, <2>3, <3>1, SignalAssumption DEF Reached, Recent
      <3>3. Recent(free) \cup {best} \subseteq after
        BY <1>2, <1>3, <3>1 DEF Recent
      <3>4. IsFiniteSet(after) /\ Cardinality(after) \in Nat
        BY PhasesFinite, FS_Subset, FS_CardinalityType
      <3>5. Cardinality(Recent(free) \cup {best}) = Cardinality(Recent(free)) + 1
        BY <3>2, RecentFinite, FS_AddElement
      <3>6. Cardinality(Recent(free) \cup {best}) <= Cardinality(after)
        BY <3>3, <3>4, FS_Subset
      <3>7. Cardinality(Recent(free)) > free /\ Cardinality(Recent(free)) \in Nat
        BY <2>3, RecentFinite DEF Repaying
      <3> HIDE DEF after
      <3>8. Cardinality(after) > free + 1
        BY <3>1, <3>4, <3>5, <3>6, <3>7
      <3>9. CASE free + 1 < N - 1
        BY <3>1, <3>8, <3>9 DEF Repaying, Recent, after
      <3>10. CASE ~(free + 1 < N - 1)
        <4>1. free + 1 = N - 1
          BY <3>1, <3>10, SignalAssumption
        <4>2. after = Phases
          <5>1. after \in SUBSET Phases
            BY DEF after
          <5>2. Cardinality(after) <= N /\ (Cardinality(after) = N => after = Phases)
            BY <5>1, PhasesFinite, FS_Subset
          <5> QED BY <3>4, <3>8, <4>1, <5>2, SignalAssumption
        <4>3. ASSUME NEW q \in Phases
              PROVE  skip'[q] <= MaxSkip
          <5>1. skip'[q] <= N - 1 /\ skip'[q] \in Nat
            BY <1>1, <1>2, <4>1, <4>2, SkipAfterFacts DEF after
          <5> QED BY <5>1, SignalAssumption DEF FewPhases
        <4> QED BY <1>1, <1>2, <4>3, NoDebt
      <3> QED BY <3>9, <3>10
    <2> QED BY <2>1, <2>2, <2>3 DEF DebtInv
  <1> QED BY <1>1, <1>4, <1>5

\* The debt a preemption leaves is repaid: after N - 1 decisions without a
\* lock the counters are within the bound that holds without any lock, for
\* every junction of at most MaxSkip + 1 phases, however often and however
\* long it was preempted.
THEOREM DebtRepaidTheorem ==
    ASSUME Enabled, FewPhases
    PROVE  Spec => []DebtRepaid
  <1>1. Init => DebtInv
    BY InitSkip DEF SkipInv, DebtInv
  <1>2. DebtInv /\ [Next]_vars => DebtInv'
    <2> SUFFICES ASSUME DebtInv, [Next]_vars
                 PROVE  (OverdueAreOutnumbered \/ Repaying)'
      BY StepType DEF DebtInv
    <2>1. CASE Decide
      BY <2>1, DecideKeepsDebt
    <2>2. CASE UNCHANGED <<skip, free>>
      BY <2>2 DEF DebtInv, OverdueAreOutnumbered, Repaying, Recent
    <2> QED BY <2>1, <2>2 DEF Next, Wait, YellowEnds, vars
  <1>3. DebtInv => DebtRepaid
    <2> SUFFICES ASSUME DebtInv, free >= N - 1
                 PROVE  SkipBound
      BY DEF DebtRepaid
    <2>1. ~Repaying
      BY SignalAssumption DEF Repaying, DebtInv, TypeInv, TypeOK
    <2> QED BY <2>1, InvGivesSkipBound DEF DebtInv, SkipInv
  <1> QED BY <1>1, <1>2, <1>3, PTL DEF Spec

-----------------------------------------------------------------------------
(***************************************************************************)
(* Two-phase junctions: the phase just served is fresh, so at most one     *)
(* phase is ever at the threshold and the floor serves it in time.         *)
(***************************************************************************)
LEMMA TwoPhaseDecide ==
    ASSUME N = 2, Enabled, TypeInv, Decide, violations = 0
    PROVE  violations' = 0
  <1>1. PICK pressure \in [Phases -> Pressures], locked \in MayBeLocked :
           \E normal \in Wanted(pressure), best \in Phases :
              /\ AntiStarvationChoice(normal, pressure, locked, best)
              /\ RecordService(best, locked)
    BY DEF Decide
  <1>2. PICK normal \in Wanted(pressure), best \in Phases :
              /\ AntiStarvationChoice(normal, pressure, locked, best)
              /\ RecordService(best, locked)
    BY <1>1
  <1>3. CASE locked
    BY <1>2, <1>3 DEF RecordService
  <1>4. CASE ~locked
    <2>1. skip \in [Phases -> Nat] /\ cur \in Phases /\ skip[cur] = 0
      BY DEF TypeInv, TypeOK, ServedIsFresh
    <2>2. Reached # {} => best \in Reached
      BY <1>2, <1>4 DEF AntiStarvationChoice
    <2>3. ASSUME NEW q \in Phases
          PROVE  SkipAfter(best)[q] <= MaxSkip
      <3>1. CASE q = best
        BY <3>1, <2>1, SkipAfterFacts, SignalAssumption
      <3>2. CASE q # best
        <4>1. cur = q \/ cur = best
          BY <3>2, <2>1 DEF Phases
        <4>2. q \notin Reached
          BY <4>1, <2>1, <2>2, SignalAssumption DEF Reached
        <4>3. skip[q] < MaxSkip
          BY <4>2, <2>1, SignalAssumption DEF Reached
        <4> QED BY <4>3, <3>2, <2>1, SkipAfterFacts, SignalAssumption
      <3> QED BY <3>1, <3>2
    <2>4. SkipAfter(best) \in [Phases -> Nat]
      BY <2>1, SkipAfterFacts
    <2>5. ~ \E q \in Phases : SkipAfter(best)[q] > MaxSkip
      BY <2>3, <2>4, SignalAssumption
    <2> QED BY <2>5, <1>2 DEF RecordService
  <1> QED BY <1>3, <1>4

\* On a two-phase junction anti_starvation_violations stays 0, whatever
\* decide() wants and however long preemptions hold the signal.
THEOREM TwoPhaseNoViolations ==
    ASSUME N = 2, Enabled
    PROVE  Spec => []NoViolations
  <1> DEFINE I == TypeInv /\ NoViolations
  <1>1. Init => I
    BY InitType DEF Init, NoViolations
  <1>2. I /\ [Next]_vars => I'
    <2> SUFFICES ASSUME I, [Next]_vars PROVE NoViolations'
      BY StepType
    <2>1. CASE Decide
      BY <2>1, TwoPhaseDecide DEF NoViolations
    <2>2. CASE UNCHANGED violations
      BY <2>2 DEF NoViolations
    <2> QED BY <2>1, <2>2 DEF Next, Wait, YellowEnds, vars
  <1> QED BY <1>1, <1>2, PTL DEF Spec

-----------------------------------------------------------------------------
(***************************************************************************)
(* From decisions to seconds.  LampInv ties the lamp to the controller's   *)
(* mode; WaitInv charges every skipped decision one green and one yellow.  *)
(***************************************************************************)
LampInv ==
    IF mode = "green"
    THEN lamp = Green(cur)
    ELSE lamp.colour = "yellow" /\ lamp.phase # cur

Cycle == MinGreen + Yellow

MostSkips == MaxSkip + N - 2

WaitInv ==
    /\ LampInv
    /\ \A p \in Phases \ {cur} :
          wait[p] <= (skip[p] - 1) * Cycle
                       + (IF mode = "green" THEN Yellow + t ELSE t)
    /\ wait[cur] <= MostSkips * Cycle
                       + (IF mode = "green" THEN Yellow ELSE t)

LEMMA Times ==
    ASSUME NEW a \in Int, NEW b \in Int, NEW c \in Nat
    PROVE  /\ a * c \in Int
           /\ (a + 1) * c = a * c + c
           /\ (a - 1) * c + c = a * c
           /\ a <= b => a * c <= b * c
           /\ 0 * c = 0
  <1>1. a * c \in Int /\ (a + 1) * c = a * c + c /\ (a - 1) * c + c = a * c /\ 0 * c = 0
    OBVIOUS
  <1>2. ASSUME a <= b PROVE a * c <= b * c
    <2>1. (b - a) * c >= 0
      BY <1>2
    <2>2. (b - a) * c = b * c - a * c
      OBVIOUS
    <2> QED BY <2>1, <2>2
  <1> QED BY <1>1, <1>2

LEMMA CycleType == Cycle \in Nat /\ MostSkips \in Nat
  BY SignalAssumption DEF Cycle, MostSkips

LEMMA LampStep ==
    ASSUME TypeInv, LampInv, [Next]_vars
    PROVE  LampInv'
  <1>1. CASE Wait
    BY <1>1 DEF Wait, LampInv, Green
  <1>2. CASE YellowEnds
    BY <1>2 DEF YellowEnds, LampInv, Green
  <1>3. CASE Decide
    BY <1>3, DecideFacts DEF LampInv, Green, ClearingYellow, Decide, TypeInv
  <1>4. CASE UNCHANGED vars
    BY <1>4 DEF vars, LampInv, Green
  <1> QED BY <1>1, <1>2, <1>3, <1>4 DEF Next

\* At the end of a green, one full cycle more has been spent per phase.
LEMMA DecideWait ==
    ASSUME TypeInv, WaitInv, SkipBound, SkipBound', Decide
    PROVE  WaitInv'
  <1>1. PICK best \in Phases :
              /\ skip' = SkipAfter(best)
              /\ cur' = best
              /\ t' = 0
              /\ IF best # cur
                 THEN mode' = "yellow" /\ lamp' = ClearingYellow(cur)
                 ELSE mode' = "green" /\ lamp' = lamp
    BY DecideFacts DEF TypeInv
  <1>2. /\ skip \in [Phases -> Nat] /\ wait \in [Phases -> Nat]
        /\ cur \in Phases /\ t \in Nat /\ skip[cur] = 0
        /\ mode = "green" /\ t + 1 = MinGreen
    BY SignalAssumption DEF TypeInv, TypeOK, ServedIsFresh, Decide
  <1>3. lamp = Green(cur)
    BY <1>2 DEF WaitInv, LampInv
  <1>4. \A p \in Phases : wait'[p] = IF p = cur THEN 0 ELSE wait[p] + 1
    BY <1>2, <1>3 DEF Decide, Elapse, Green
  <1>5. \A q \in Phases \ {best} : skip'[q] = skip[q] + 1
    BY <1>1, <1>2, SkipAfterFacts
  <1>6. LampInv'
    BY LampStep DEF WaitInv, Next
  <1>7. Cycle = MinGreen + Yellow /\ Cycle \in Nat /\ MostSkips \in Nat
    BY CycleType DEF Cycle
  <1>8. ASSUME NEW p \in Phases
        PROVE  wait'[p] <= skip[p] * Cycle
    <2>1. CASE p = cur
      BY <2>1, <1>2, <1>4, <1>7, Times
    <2>2. CASE p # cur
      <3>1. wait[p] <= (skip[p] - 1) * Cycle + Yellow + t
        BY <2>2, <1>2, <1>7, SignalAssumption, Times DEF WaitInv
      <3>2. (skip[p] - 1) * Cycle + Cycle = skip[p] * Cycle /\ (skip[p] - 1) * Cycle \in Int
        BY <1>2, <1>7, Times
      <3> QED BY <3>1, <3>2, <1>2, <1>4, <1>7, <2>2, SignalAssumption
    <2> QED BY <2>1, <2>2
  <1>9. ASSUME NEW p \in Phases \ {best}
        PROVE  wait'[p] <= (skip'[p] - 1) * Cycle
                              + (IF mode' = "green" THEN Yellow + t' ELSE t')
    <2>1. skip'[p] - 1 = skip[p] /\ skip[p] \in Nat
      BY <1>2, <1>5
    <2>2. skip[p] * Cycle \in Int /\ wait'[p] \in Int
      BY <2>1, <1>2, <1>4, <1>7, Times
    <2>3. wait'[p] <= skip[p] * Cycle
      BY <1>8
    <2> QED BY <2>1, <2>2, <2>3, <1>1, SignalAssumption
  <1>10. wait'[best] <= MostSkips * Cycle + (IF mode' = "green" THEN Yellow ELSE t')
    <2>1. skip[best] <= MostSkips
      BY DEF SkipBound, MostSkips
    <2>2. skip[best] * Cycle <= MostSkips * Cycle
      BY <2>1, <1>2, <1>7, Times
    <2>3. skip[best] * Cycle \in Int /\ MostSkips * Cycle \in Int /\ wait'[best] \in Int
      BY <1>2, <1>4, <1>7, Times
    <2>4. wait'[best] <= skip[best] * Cycle
      BY <1>8
    <2> QED BY <2>2, <2>3, <2>4, <1>1, SignalAssumption
  <1> QED BY <1>1, <1>6, <1>9, <1>10 DEF WaitInv

LEMMA StepWait ==
    ASSUME TypeInv, WaitInv, SkipBound, SkipBound', [Next]_vars
    PROVE  WaitInv'
  <1>1. /\ skip \in [Phases -> Nat] /\ wait \in [Phases -> Nat]
        /\ cur \in Phases /\ t \in Nat
        /\ t < (IF mode = "yellow" THEN Yellow ELSE MinGreen)
        /\ mode \in {"green", "yellow"}
    BY DEF TypeInv, TypeOK
  <1>2. Cycle \in Nat /\ MostSkips \in Nat
    BY CycleType
  <1>3. \A p \in Phases : (skip[p] - 1) * Cycle \in Int
    BY <1>1, <1>2, Times
  <1>4. MostSkips * Cycle \in Int /\ MostSkips * Cycle >= 0
    BY <1>2, Times
  <1>5. LampInv'
    BY LampStep DEF WaitInv
  <1>6. CASE Wait
    <2>1. /\ t' = t + 1 /\ cur' = cur /\ mode' = mode /\ skip' = skip /\ lamp' = lamp
          /\ \A p \in Phases : wait'[p] = IF lamp = Green(p) THEN 0 ELSE wait[p] + 1
      BY <1>6 DEF Wait, Elapse
    <2>2. \A p \in Phases \ {cur} : lamp # Green(p)
      BY <1>1 DEF WaitInv, LampInv, Green
    <2>3. ASSUME NEW p \in Phases \ {cur}
          PROVE  wait'[p] <= (skip'[p] - 1) * Cycle
                                + (IF mode' = "green" THEN Yellow + t' ELSE t')
      BY <1>1, <1>3, <2>1, <2>2, SignalAssumption DEF WaitInv
    <2>4. CASE mode = "green"
      <3>1. wait'[cur] = 0
        BY <2>1, <2>4, <1>1 DEF WaitInv, LampInv
      <3> QED BY <3>1, <2>1, <2>3, <2>4, <1>4, <1>5, SignalAssumption DEF WaitInv
    <2>5. CASE mode = "yellow"
      <3>1. lamp # Green(cur)
        BY <2>5 DEF WaitInv, LampInv, Green
      <3>2. wait'[cur] <= MostSkips * Cycle + t'
        BY <3>1, <2>1, <2>5, <1>1, <1>4 DEF WaitInv
      <3> QED BY <3>2, <2>1, <2>3, <2>5, <1>5 DEF WaitInv
    <2> QED BY <2>4, <2>5, <1>1
  <1>7. CASE YellowEnds
    <2>1. /\ t + 1 = Yellow /\ mode = "yellow"
          /\ t' = 0 /\ cur' = cur /\ mode' = "green" /\ skip' = skip
      BY <1>7, <1>1, SignalAssumption DEF YellowEnds
    <2>2. \A p \in Phases : wait'[p] = wait[p] + 1
      BY <1>7, <2>1, <1>1 DEF YellowEnds, Elapse, WaitInv, LampInv, Green
    <2>3. ASSUME NEW p \in Phases \ {cur}
          PROVE  wait'[p] <= (skip'[p] - 1) * Cycle + (Yellow + t')
      BY <1>1, <1>3, <2>1, <2>2, SignalAssumption DEF WaitInv
    <2>4. wait'[cur] <= MostSkips * Cycle + Yellow
      BY <1>1, <1>4, <2>1, <2>2, SignalAssumption DEF WaitInv
    <2> QED BY <2>1, <2>3, <2>4, <1>5 DEF WaitInv
  <1>8. CASE Decide
    BY <1>8, DecideWait
  <1>9. CASE UNCHANGED vars
    BY <1>9 DEF vars, WaitInv, LampInv, Green
  <1> QED BY <1>6, <1>7, <1>8, <1>9 DEF Next

LEMMA InitWait == Init => WaitInv
  <1> SUFFICES ASSUME Init PROVE WaitInv
    OBVIOUS
  <1>1. \A p \in Phases \ {cur} : skip[p] = 1 /\ wait[p] = 0
    BY DEF Init
  <1>2. MostSkips * Cycle \in Int /\ MostSkips * Cycle >= 0 /\ 0 * Cycle = 0
    BY CycleType, Times
  <1>3. cur = 0 /\ wait[cur] = 0 /\ t = 0 /\ mode = "green" /\ lamp = Green(cur)
    BY PhaseZero DEF Init
  <1> QED BY <1>1, <1>2, <1>3, SignalAssumption DEF WaitInv, LampInv

LEMMA InvGivesWaitBound ==
    ASSUME TypeInv, WaitInv, SkipBound
    PROVE  WaitBound
  <1> SUFFICES ASSUME NEW p \in Phases
               PROVE  wait[p] <= MostSkips * Cycle + Yellow
    BY DEF WaitBound, MostSkips, Cycle
  <1>1. /\ skip[p] \in Nat /\ wait[p] \in Nat /\ t \in Nat /\ cur \in Phases
        /\ t < (IF mode = "yellow" THEN Yellow ELSE MinGreen)
        /\ mode \in {"green", "yellow"}
    BY DEF TypeInv, TypeOK
  <1>2. Cycle \in Nat /\ MostSkips \in Nat /\ Cycle = MinGreen + Yellow
    BY CycleType DEF Cycle
  <1>3. MostSkips * Cycle \in Int
    BY <1>2, Times
  <1>4. CASE p = cur
    BY <1>4, <1>1, <1>3, SignalAssumption DEF WaitInv
  <1>5. CASE p # cur
    <2>1. wait[p] <= (skip[p] - 1) * Cycle + Yellow + MinGreen
      BY <1>5, <1>1, <1>2, Times, SignalAssumption DEF WaitInv
    <2>2. (skip[p] - 1) * Cycle + Cycle = skip[p] * Cycle /\ (skip[p] - 1) * Cycle \in Int
      BY <1>1, <1>2, Times
    <2>3. skip[p] * Cycle <= MostSkips * Cycle
      BY <1>1, <1>2, Times DEF SkipBound, MostSkips
    <2> QED BY <2>1, <2>2, <2>3, <1>1, <1>2, <1>3, SignalAssumption
  <1> QED BY <1>4, <1>5

\* The longest red in seconds, for every timing: the bound on skipped
\* decisions carried through the green and yellow clock of step().
THEOREM WaitBounded ==
    ASSUME FloorHolds, FewPhases
    PROVE  Spec => []WaitBound
  <1> DEFINE I == SkipInv /\ WaitInv
  <1>1. Init => I
    BY InitSkip, InitWait
  <1>2. I /\ [Next]_vars => I'
    <2> SUFFICES ASSUME I, [Next]_vars PROVE I'
      OBVIOUS
    <2>1. SkipInv'
      BY StepSkip
    <2>2. SkipInv' => SkipBound'
      BY InvGivesSkipBound, PTL
    <2>3. SkipBound /\ SkipBound'
      BY <2>1, <2>2, InvGivesSkipBound
    <2> QED BY <2>1, <2>3, StepWait DEF SkipInv
  <1>3. I => WaitBound
    BY InvGivesSkipBound, InvGivesWaitBound DEF SkipInv
  <1> QED BY <1>1, <1>2, <1>3, PTL DEF Spec

-----------------------------------------------------------------------------
(***************************************************************************)
(* The lamps implement SignalClearance.  A green that has been extended is *)
(* one every other phase was still below the threshold for.                *)
(***************************************************************************)
HeldInv ==
    IF mode = "yellow"
    THEN held = t
    ELSE /\ held >= t
         /\ \A q \in Phases \ {cur} :
              held = t \/ (skip[q] <= MaxSkip /\ held <= (skip[q] - 1) * MinGreen + t)

ClearInv == TypeInv /\ LampInv /\ HeldInv

SeveralPhases == N >= 2

LEMMA OtherPhase ==
    ASSUME SeveralPhases, NEW p \in Phases
    PROVE  \E q \in Phases : q # p
  <1>1. 0 \in Phases /\ 1 \in Phases
    BY SignalAssumption DEF Phases, SeveralPhases
  <1> QED BY <1>1

\* A decision that stays on a green found no phase at the threshold.
LEMMA StayFacts ==
    ASSUME FloorHolds, ClearInv, Decide, cur' = cur
    PROVE  /\ lamp' = lamp /\ mode' = "green" /\ t' = 0
           /\ \A q \in Phases \ {cur} :
                 /\ skip[q] + 1 <= MaxSkip
                 /\ skip'[q] = skip[q] + 1
                 /\ held + 1 <= skip[q] * MinGreen
  <1>1. PICK best \in Phases :
              /\ skip' = SkipAfter(best)
              /\ cur' = best
              /\ Reached # {} => best \in Reached
    BY FloorChoice DEF ClearInv, TypeInv
  <1>2. /\ skip \in [Phases -> Nat] /\ cur \in Phases /\ skip[cur] = 0
        /\ t \in Nat /\ held \in Nat /\ mode = "green" /\ t + 1 = MinGreen
    BY SignalAssumption DEF ClearInv, TypeInv, TypeOK, ServedIsFresh, Decide
  <1>3. cur \notin Reached
    BY <1>2, SignalAssumption DEF Reached
  <1>4. Reached = {}
    BY <1>1, <1>3
  <1>5. lamp' = lamp /\ mode' = "green" /\ t' = 0
    BY DecideFacts DEF ClearInv, TypeInv
  <1>6. ASSUME NEW q \in Phases \ {cur}
        PROVE  /\ skip[q] + 1 <= MaxSkip
               /\ skip'[q] = skip[q] + 1
               /\ held + 1 <= skip[q] * MinGreen
    <2>1. skip[q] + 1 <= MaxSkip
      BY <1>2, <1>4, SignalAssumption DEF Reached
    <2>2. skip'[q] = skip[q] + 1
      BY <1>1, <1>2, SkipAfterFacts
    <2>3. skip[q] >= 1
      BY DEF ClearInv, TypeInv, ServedIsFresh
    <2>4. (skip[q] - 1) * MinGreen >= 0 /\ (skip[q] - 1) * MinGreen \in Int
      BY <1>2, <2>3, SignalAssumption
    <2>5. held <= (skip[q] - 1) * MinGreen + t
      BY <1>2, <2>4 DEF ClearInv, HeldInv
    <2>6. (skip[q] - 1) * MinGreen + MinGreen = skip[q] * MinGreen
      BY <1>2, SignalAssumption, Times
    <2>7. skip[q] * MinGreen \in Int
      BY <1>2, SignalAssumption, Times
    <2> QED BY <2>1, <2>2, <2>4, <2>5, <2>6, <2>7, <1>2, SignalAssumption
  <1> QED BY <1>5, <1>6

LEMMA InitClear == Init => ClearInv
  <1> SUFFICES ASSUME Init PROVE LampInv /\ HeldInv
    BY InitType DEF ClearInv
  <1>1. mode = "green" /\ held = 0 /\ t = 0 /\ lamp = Green(cur)
    BY DEF Init
  <1> QED BY <1>1 DEF LampInv, HeldInv

LEMMA StepClear ==
    ASSUME FloorHolds
    PROVE  ClearInv /\ [Next]_vars => ClearInv'
  <1> SUFFICES ASSUME ClearInv, [Next]_vars PROVE HeldInv'
    BY StepType, LampStep DEF ClearInv
  <1>1. /\ skip \in [Phases -> Nat] /\ cur \in Phases /\ t \in Nat /\ held \in Nat
        /\ mode \in {"green", "yellow"}
    BY DEF ClearInv, TypeInv, TypeOK
  <1>2. \A q \in Phases : (skip[q] - 1) * MinGreen \in Int
    BY <1>1, SignalAssumption, Times
  <1>3. CASE Wait
    <2>1. /\ t' = t + 1 /\ held' = held + 1 /\ cur' = cur /\ mode' = mode /\ skip' = skip
      BY <1>3 DEF Wait, Elapse
    <2>2. CASE mode = "yellow"
      BY <2>1, <2>2, <1>1 DEF ClearInv, HeldInv
    <2>3. CASE mode = "green"
      <3>1. ASSUME NEW q \in Phases \ {cur}
            PROVE  held' = t' \/ (skip'[q] <= MaxSkip
                                 /\ held' <= (skip'[q] - 1) * MinGreen + t')
        BY <2>1, <2>3, <1>1, <1>2, SignalAssumption DEF ClearInv, HeldInv
      <3>2. held' >= t'
        BY <2>1, <2>3, <1>1 DEF ClearInv, HeldInv
      <3> QED BY <2>1, <2>3, <3>1, <3>2 DEF HeldInv
    <2> QED BY <2>2, <2>3, <1>1
  <1>4. CASE YellowEnds
    <2>1. t' = 0 /\ mode' = "green" /\ held' = 0
      BY <1>4 DEF YellowEnds, Elapse, ClearInv, LampInv, Green
    <2> QED BY <2>1 DEF HeldInv
  <1>5. CASE Decide
    <2>1. CASE cur' = cur
      <3>1. held' = held + 1
        BY <1>5, <2>1, StayFacts DEF Decide, Elapse
      <3>2. ASSUME NEW q \in Phases \ {cur}
            PROVE  skip'[q] <= MaxSkip /\ held' <= (skip'[q] - 1) * MinGreen + t'
        <4>1. /\ skip[q] + 1 <= MaxSkip /\ skip'[q] = skip[q] + 1
              /\ held + 1 <= skip[q] * MinGreen /\ t' = 0
          BY <1>5, <2>1, StayFacts
        <4>2. skip'[q] - 1 = skip[q] /\ skip[q] * MinGreen \in Int
          BY <4>1, <1>1, Times, SignalAssumption
        <4> QED BY <3>1, <4>1, <4>2, <1>1
      <3>3. mode' = "green" /\ t' = 0 /\ held' >= t'
        BY <1>1, <1>5, <2>1, <3>1, StayFacts
      <3> QED BY <2>1, <3>2, <3>3 DEF HeldInv
    <2>2. CASE cur' # cur
      <3>1. mode' = "yellow" /\ t' = 0 /\ lamp' = ClearingYellow(cur)
        BY <1>5, <2>2, DecideFacts DEF ClearInv, TypeInv
      <3>2. lamp = Green(cur)
        BY <1>5 DEF ClearInv, LampInv, Decide
      <3>3. held' = 0
        BY <1>5, <3>1, <3>2 DEF Decide, Elapse, ClearingYellow, Green
      <3> QED BY <3>1, <3>3 DEF HeldInv
    <2> QED BY <2>1, <2>2
  <1>6. CASE UNCHANGED vars
    <2>1. mode' = mode /\ held' = held /\ t' = t /\ skip' = skip /\ cur' = cur
      BY <1>6 DEF vars
    <2>2. CASE mode = "yellow"
      BY <2>1, <2>2 DEF ClearInv, HeldInv
    <2>3. CASE mode = "green"
      BY <2>1, <2>3, <1>1 DEF ClearInv, HeldInv
    <2> QED BY <2>2, <2>3, <1>1
  <1> QED BY <1>3, <1>4, <1>5, <1>6 DEF Next

LEMMA ClearStep ==
    ASSUME FloorHolds, SeveralPhases, ClearInv, [Next]_vars
    PROVE  [Lamps!Next]_(Lamps!lampVars)
  <1>1. /\ skip \in [Phases -> Nat] /\ cur \in Phases /\ t \in Nat /\ held \in Nat
        /\ mode \in {"green", "yellow"}
        /\ t < (IF mode = "yellow" THEN Yellow ELSE MinGreen)
        /\ lamp \in [colour : {"green", "yellow"}, phase : Phases]
    BY DEF ClearInv, TypeInv, TypeOK
  <1> DEFINE MaxGreen == MaxSkip * MinGreen
  <1>2. MaxGreen \in Int /\ (MaxSkip - 1) * MinGreen + MinGreen = MaxGreen
        /\ MaxGreen >= MinGreen /\ (MaxSkip - 1) * MinGreen \in Int
    BY SignalAssumption, Times
  <1>3. PICK q \in Phases : q # cur
    BY <1>1, OtherPhase
  <1>4. CASE mode = "green"
    <2>1. lamp = Green(cur) /\ lamp.colour = "green" /\ lamp.phase = cur
      BY <1>4 DEF ClearInv, LampInv, Green
    <2>2. held >= t /\ held + 1 <= (MaxGreen - MinGreen) + (t + 1)
      <3>1. CASE held = t
        BY <3>1, <1>1, <1>2, SignalAssumption
      <3>2. CASE skip[q] <= MaxSkip /\ held <= (skip[q] - 1) * MinGreen + t
        <4>1. skip[q] - 1 \in Int /\ skip[q] - 1 <= MaxSkip - 1
          BY <3>2, <1>1, SignalAssumption
        <4>2. (skip[q] - 1) * MinGreen <= (MaxSkip - 1) * MinGreen
              /\ (skip[q] - 1) * MinGreen \in Int
          BY <4>1, SignalAssumption, Times
        <4>3. held >= t
          BY <1>4 DEF ClearInv, HeldInv
        <4> HIDE DEF MaxGreen
        <4> QED BY <3>2, <4>2, <4>3, <1>1, <1>2, SignalAssumption
      <3> QED BY <3>1, <3>2, <1>3, <1>4 DEF ClearInv, HeldInv
    <2> HIDE DEF MaxGreen
    <2>3. CASE Wait
      <3>1. held + 1 < MaxGreen
        BY <2>3, <1>4, <2>2, <1>1, <1>2, SignalAssumption DEF Wait
      <3>2. held' = held + 1 /\ lamp' = lamp
        BY <2>3 DEF Wait, Elapse
      <3> QED BY <3>1, <3>2, <2>1 DEF Lamps!Next, Lamps!Hold, MaxGreen
    <2>4. CASE Decide
      <3>1. t + 1 = MinGreen
        BY <2>4, <1>4, <1>1, SignalAssumption DEF Decide
      <3>2. CASE cur' = cur
        <4>1. skip[q] <= MaxSkip - 1 /\ held + 1 <= skip[q] * MinGreen /\ lamp' = lamp
          BY <2>4, <3>2, <1>3, <1>1, StayFacts, SignalAssumption
        <4>2. skip[q] * MinGreen <= (MaxSkip - 1) * MinGreen /\ skip[q] * MinGreen \in Int
          BY <4>1, <1>1, SignalAssumption, Times
        <4>3. held + 1 < MaxGreen
          BY <4>1, <4>2, <1>1, <1>2, SignalAssumption
        <4>4. held' = held + 1
          BY <2>4, <4>1 DEF Decide, Elapse
        <4> QED BY <4>1, <4>3, <4>4, <2>1 DEF Lamps!Next, Lamps!Hold, MaxGreen
      <3>3. CASE cur' # cur
        <4>1. lamp' = ClearingYellow(cur)
          BY <2>4, <3>3, DecideFacts DEF ClearInv, TypeInv
        <4>2. held' = 0
          BY <2>4, <4>1, <2>1 DEF Decide, Elapse, ClearingYellow
        <4>3. held + 1 \in MinGreen .. MaxGreen
          BY <3>1, <2>2, <1>1, <1>2, SignalAssumption
        <4> QED BY <4>1, <4>2, <4>3, <2>1
                DEF Lamps!Next, Lamps!Leave, ClearingYellow, MaxGreen
      <3> QED BY <3>2, <3>3
    <2>5. CASE UNCHANGED vars
      BY <2>5 DEF vars, Lamps!lampVars
    <2> QED BY <2>3, <2>4, <2>5, <1>4 DEF Next, YellowEnds
  <1>5. CASE mode = "yellow"
    <2>1. lamp.colour = "yellow" /\ lamp.phase # cur /\ held = t
      BY <1>5 DEF ClearInv, LampInv, HeldInv
    <2>2. CASE Wait
      <3>1. held + 1 < Yellow /\ held' = held + 1 /\ lamp' = lamp
        BY <2>2, <2>1, <1>5 DEF Wait, Elapse
      <3> QED BY <3>1, <2>1 DEF Lamps!Next, Lamps!Hold
    <2>3. CASE YellowEnds
      <3>1. held + 1 = Yellow /\ lamp' = Green(cur) /\ lamp' # lamp
        BY <2>3, <2>1, <1>5, <1>1, SignalAssumption DEF YellowEnds, Green
      <3>2. held' = 0
        BY <2>3, <3>1 DEF YellowEnds, Elapse
      <3>3. lamp' = [colour |-> "green", phase |-> cur] /\ cur \in Phases \ {lamp.phase}
        BY <3>1, <2>1, <1>1 DEF Green
      <3> QED BY <3>1, <3>2, <3>3, <2>1 DEF Lamps!Next, Lamps!Open
    <2>4. CASE UNCHANGED vars
      BY <2>4 DEF vars, Lamps!lampVars
    <2> QED BY <2>2, <2>3, <2>4, <1>5 DEF Next, Decide
  <1> QED BY <1>4, <1>5, <1>1

\* The controller implements the lamp machine for every timing: no green is
\* cut short, none outlasts MaxSkip * MinGreen, every change is cleared.
THEOREM ClearanceKept ==
    ASSUME FloorHolds, SeveralPhases
    PROVE  Spec => LampsKeepClearance
  <1>1. Init => Lamps!Init
    BY PhaseZero DEF Init, Lamps!Init, Green
  <1>2. ClearInv /\ [Next]_vars => [Lamps!Next]_(Lamps!lampVars)
    BY ClearStep
  <1>3. ClearInv /\ [Next]_vars => ClearInv'
    BY StepClear
  <1> QED BY <1>1, <1>2, <1>3, InitClear, PTL DEF Spec, Lamps!Spec, LampsKeepClearance
=============================================================================
