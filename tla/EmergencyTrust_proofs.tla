----------------------- MODULE EmergencyTrust_proofs -----------------------
(***************************************************************************)
(* For any junctions, adjacency, vehicles and insiders: types, the count   *)
(* of penalties, no green on one member's word, and that the scoring of    *)
(* claims implements ClaimVerdicts.                                        *)
(*                                                                         *)
(* The books of the scoring are touched by Observe and Tick only, and all  *)
(* that is said of them follows from one invariant, Books.  Sightings and  *)
(* claims, on the bus or in the store, are vouched for: whoever signed     *)
(* them sensed the vehicle or is an insider (Witnessed).                   *)
(***************************************************************************)
EXTENDS EmergencyTrust, FiniteSetTheorems, TLAPS

\* The books: open, credited and suspected claims are apart, the credited
\* ones are those about confirmed vehicles, and lies counts the suspected.
Books ==
    /\ DOMAIN claimFirst \subseteq Claims
    /\ \A k \in DOMAIN claimFirst : claimFirst[k] \in 0 .. Ttl + 1
    /\ confirmed \subseteq Vehicles
    /\ credited \subseteq Claims /\ suspected \subseteq Claims
    /\ \A k \in DOMAIN claimFirst \cup suspected : k[1] \notin confirmed
    /\ \A k \in credited : k[1] \in confirmed
    /\ DOMAIN claimFirst \cap suspected = {}
    /\ lies \in [Junctions -> Nat]
    /\ \A j \in Junctions : lies[j] = Cardinality(Of(j, suspected))

\* The bus, the store and the locks.
Boxes ==
    /\ sightingBox \in [Junctions -> SUBSET Sightings]
    /\ claimBox \in [Junctions -> Seq(Claims)]
    /\ sightings \subseteq Sightings
    /\ lock \in [Junctions -> [ev : Vehicles \cup {None}, claimer : Junctions \cup {None}]]
    /\ sensed \subseteq Vehicles \X Junctions

Witnessed ==
    /\ sightings \subseteq Vouched
    /\ \A j \in Junctions : sightingBox[j] \subseteq Vouched
    /\ \A j \in Junctions : \A i \in 1 .. Len(claimBox[j]) : claimBox[j][i] \in Vouched

Inv == Books /\ Boxes /\ Witnessed /\ NoPhantomGreen

-----------------------------------------------------------------------------
(* Counting. *)

LEMMA ClaimsFinite == IsFiniteSet(Claims)
BY EmergencyFinite, FS_Product DEF Claims

\* A set from which A goes and to which B comes.
LEMMA CountAfter ==
    ASSUME NEW S, NEW A, NEW B, IsFiniteSet(S), IsFiniteSet(B),
           A \subseteq S, B \cap S = {}
    PROVE  /\ Cardinality((S \ A) \cup B)
                  = Cardinality(S) - Cardinality(A) + Cardinality(B)
           /\ Cardinality(S) - Cardinality(A) \in Nat
           /\ Cardinality(B) \in Nat
<1>1. /\ IsFiniteSet(S \ A)
      /\ Cardinality(S \ A) = Cardinality(S) - Cardinality(S \cap A)
  BY FS_Difference
<1>2. S \cap A = A /\ (S \ A) \cap B = {}
  OBVIOUS
<1>3. Cardinality((S \ A) \cup B)
         = Cardinality(S \ A) + Cardinality(B) - Cardinality((S \ A) \cap B)
  BY <1>1, FS_Union
<1>4. /\ Cardinality({}) = 0
      /\ Cardinality(S \ A) \in Nat /\ Cardinality(B) \in Nat
      /\ Cardinality(S) \in Nat /\ Cardinality(A) \in Nat
  BY <1>1, FS_EmptySet, FS_Subset, FS_CardinalityType
<1>5. Cardinality(S \ A) = Cardinality(S) - Cardinality(A)
  BY <1>1, <1>2
<1>6. Cardinality((S \ A) \cup B) = Cardinality(S \ A) + Cardinality(B)
  <2>1. Cardinality((S \ A) \cap B) = 0
    BY <1>2, <1>4, Zenon
  <2> QED
    BY <2>1, <1>3, <1>4
<1>7. Cardinality(S) - Cardinality(A) \in Nat
  BY <1>4, <1>5
<1>8. Cardinality((S \ A) \cup B) = Cardinality(S) - Cardinality(A) + Cardinality(B)
  BY <1>5, <1>6
<1> QED
  BY <1>4, <1>7, <1>8

LEMMA FlooredAtZero ==
    ASSUME NEW n \in Nat
    PROVE  Max({0, n}) = n
<1>1. \A y \in {0, n} : n >= y
  OBVIOUS
<1>2. \A x \in {0, n} : (\A y \in {0, n} : x >= y) => x = n
  OBVIOUS
<1>3. n \in {0, n}
  OBVIOUS
<1>4. Max({0, n}) \in {0, n} /\ \A y \in {0, n} : Max({0, n}) >= y
  BY <1>1, <1>3, Zenon DEF Max
<1> QED
  BY <1>2, <1>4

-----------------------------------------------------------------------------
(* One observation keeps the books, and is a step of ClaimVerdicts. *)

LEMMA ObservationKeepsBooks ==
    ASSUME Books, NEW ev \in Vehicles \cup {None}, NEW new \in SUBSET Claims,
           Observe(ev, new)
    PROVE  Books'
<1> DEFINE now == SettledNow(ev, new)
           swept == CreditedBySweep(ev, new)
           late == Expired(ev, new)
           reg == Registered(new)
<1>1. reg \subseteq Claims /\ reg \cap suspected = {} /\ reg \cap credited = {}
  BY DEF Books, Registered, Known
<1>2. /\ now \subseteq reg \cup suspected /\ swept \subseteq reg \ now
      /\ late \subseteq (reg \ now) \ swept
  BY DEF SettledNow, CreditedBySweep, Expired
<1>3. /\ \A k \in now : k[1] = ev
      /\ \A k \in (reg \cup suspected) \ now : k[1] # ev
      /\ \A k \in swept : k[1] \in confirmed
      /\ \A k \in (reg \ now) \ swept : k[1] \notin confirmed
  BY DEF SettledNow, CreditedBySweep
<1>4. /\ DOMAIN claimFirst' = reg \ (now \cup swept \cup late)
      /\ \A k \in DOMAIN claimFirst' : claimFirst'[k] = AgeOf(k, new)
      /\ confirmed' = IF ev = None THEN confirmed ELSE confirmed \cup {ev}
      /\ credited' = credited \cup now \cup swept
      /\ suspected' = (suspected \ now) \cup late
      /\ lies' = LiesAfter(ev, new)
  BY DEF Observe
<1>5. \A k \in Claims : k[1] \in Vehicles
  BY DEF Claims
<1>6. ev = None => now = {}
  <2>1. None \notin Vehicles
    BY EmergencyAssumption
  <2> QED
    BY <2>1, <1>1, <1>2, <1>3, <1>5 DEF Books
<1>7. /\ DOMAIN claimFirst' \subseteq Claims
      /\ confirmed' \subseteq Vehicles
      /\ credited' \subseteq Claims /\ suspected' \subseteq Claims
  BY <1>1, <1>2, <1>4 DEF Books
<1>8. \A k \in DOMAIN claimFirst' : claimFirst'[k] \in 0 .. Ttl + 1
  BY <1>4, EmergencyAssumption DEF AgeOf, Books
<1>9. \A k \in DOMAIN claimFirst' \cup suspected' : k[1] \notin confirmed'
  <2>1. SUFFICES ASSUME NEW k \in DOMAIN claimFirst' \cup suspected'
                 PROVE  k[1] \notin confirmed'
    OBVIOUS
  <2>2. k[1] # ev /\ k[1] \notin confirmed
    BY <1>2, <1>3, <1>4 DEF Books
  <2> QED
    BY <2>2, <1>4
<1>10. \A k \in credited' : k[1] \in confirmed'
  BY <1>3, <1>4, <1>6 DEF Books
<1>11. DOMAIN claimFirst' \cap suspected' = {}
  BY <1>1, <1>4
<1>12. ASSUME NEW j \in Junctions
       PROVE  /\ lies'[j] \in Nat
              /\ lies'[j] = Cardinality(Of(j, suspected'))
  <2> DEFINE S == Of(j, suspected)
             A == Of(j, now \cap suspected)
             B == Of(j, late)
  <2>1. IsFiniteSet(S) /\ IsFiniteSet(B)
    BY ClaimsFinite, FS_Subset, <1>1, <1>2 DEF Books, Of
  <2>2. A \subseteq S /\ B \cap S = {}
    BY <1>1, <1>2 DEF Of
  <2>3. Of(j, suspected') = (S \ A) \cup B
    BY <1>4 DEF Of
  <2>4. lies'[j] = Max({0, lies[j] - Cardinality(A)}) + Cardinality(B)
    BY <1>4 DEF LiesAfter
  <2>5. lies[j] = Cardinality(S)
    BY DEF Books
  <2> HIDE DEF S, A, B
  <2>6. /\ Cardinality((S \ A) \cup B) = Cardinality(S) - Cardinality(A) + Cardinality(B)
        /\ Cardinality(S) - Cardinality(A) \in Nat /\ Cardinality(B) \in Nat
    BY <2>1, <2>2, CountAfter
  <2>7. Max({0, Cardinality(S) - Cardinality(A)}) = Cardinality(S) - Cardinality(A)
    BY <2>6, FlooredAtZero
  <2> QED
    BY <2>3, <2>4, <2>5, <2>6, <2>7
<1>13. lies' \in [Junctions -> Nat]
  <2>1. lies' = [j \in Junctions |-> lies'[j]]
    BY <1>4 DEF LiesAfter
  <2> QED
    BY <2>1, <1>12
<1> QED
  BY <1>7, <1>8, <1>9, <1>10, <1>11, <1>12, <1>13 DEF Books

\* As time passes only the ages of open claims change.
LEMMA TimeKeepsBooks ==
    ASSUME Books, Tick
    PROVE  Books'
<1>1. /\ claimFirst' = [k \in DOMAIN claimFirst |-> Min({claimFirst[k] + 1, Ttl + 1})]
      /\ UNCHANGED <<confirmed, credited, suspected, lies>>
  BY DEF Tick
<1>2. ASSUME NEW n \in 0 .. Ttl + 1
      PROVE  Min({n + 1, Ttl + 1}) \in 0 .. Ttl + 1
  <2>1. Ttl \in Nat
    BY EmergencyAssumption
  <2>2. \E x \in {n + 1, Ttl + 1} : \A y \in {n + 1, Ttl + 1} : y >= x
    BY <2>1
  <2>3. /\ Min({n + 1, Ttl + 1}) \in {n + 1, Ttl + 1}
        /\ \A y \in {n + 1, Ttl + 1} : y >= Min({n + 1, Ttl + 1})
    BY <2>2, Zenon DEF Min
  <2> QED
    BY <2>1, <2>3
<1>3. DOMAIN claimFirst' = DOMAIN claimFirst
  BY <1>1
<1>4. \A k \in DOMAIN claimFirst' : claimFirst'[k] \in 0 .. Ttl + 1
  BY <1>1, <1>2, <1>3 DEF Books
<1> QED
  BY <1>1, <1>3, <1>4 DEF Books, Of

LEMMA ClaimsReadAreClaims ==
    ASSUME Boxes, NEW tl \in Junctions
    PROVE  ToSet(claimBox[tl]) \in SUBSET Claims
BY DEF Boxes, ToSet

\* Every step keeps the books.
LEMMA StepKeepsBooks ==
    ASSUME Books, Boxes, [Next]_vars
    PROVE  Books'
<1>1. ASSUME NEW tl \in Junctions, NEW ev \in Real, DecideSensing(tl, ev)
      PROVE  Books'
  <2>1. Observe(ev, ToSet(claimBox[tl]))
    BY <1>1 DEF DecideSensing
  <2>2. ev \in Vehicles \cup {None}
    BY EmergencyAssumption
  <2> QED
    BY <2>1, <2>2, ClaimsReadAreClaims, ObservationKeepsBooks
<1>2. ASSUME NEW tl \in Junctions, DecideOnClaims(tl)
      PROVE  Books'
  <2>1. Observe(None, ToSet(claimBox[tl]))
    BY <1>2 DEF DecideOnClaims
  <2> QED
    BY <2>1, ClaimsReadAreClaims, ObservationKeepsBooks
<1>3. ASSUME NEW from, NEW target, NEW ev, InjectPhantomClaim(from, target, ev)
      PROVE  Books'
  BY <1>3 DEF InjectPhantomClaim, trustVars, Books, Of
<1>4. ASSUME NEW from, NEW ev, InjectFalseSighting(from, ev)
      PROVE  Books'
  BY <1>4 DEF InjectFalseSighting, trustVars, Books, Of
<1>5. CASE Tick
  BY <1>5, TimeKeepsBooks
<1>6. CASE UNCHANGED vars
  BY <1>6 DEF vars, Books, Of
<1> QED
  BY <1>1, <1>2, <1>3, <1>4, <1>5, <1>6 DEF Next, AnyDecide, Decide

-----------------------------------------------------------------------------
(* Messages, sightings and locks. *)

LEMMA EnqueuedIsClaims ==
    ASSUME NEW box \in Seq(Claims), NEW claim \in Claims
    PROVE  Enqueue(box, claim) \in Seq(Claims)
BY DEF Enqueue

\* What is vouched for in a box stays so as a vouched-for claim is added.
LEMMA EnqueuedIsVouched ==
    ASSUME NEW box \in Seq(Claims), NEW claim \in Claims, NEW S,
           claim \in S, \A i \in 1 .. Len(box) : box[i] \in S
    PROVE  \A i \in 1 .. Len(Enqueue(box, claim)) : Enqueue(box, claim)[i] \in S
<1>1. CASE Enqueue(box, claim) = box
  BY <1>1
<1>2. CASE Enqueue(box, claim) = Append(box, claim)
  BY <1>2
<1> QED
  BY <1>1, <1>2 DEF Enqueue

\* A junction that senses tells its neighbours nothing but what it sensed.
LEMMA SensingKeepsBoxes ==
    ASSUME Boxes, Witnessed, NoPhantomGreen,
           NEW tl \in Junctions, NEW ev \in Real, DecideSensing(tl, ev)
    PROVE  Boxes' /\ Witnessed' /\ NoPhantomGreen'
<1>1. ev \in Vehicles /\ <<ev, tl>> \in Claims /\ <<ev, tl>> \in Sightings
  BY EmergencyAssumption DEF Claims, Sightings
<1>2. /\ Announce(tl, ev)
      /\ sightings' = sightings \cup sightingBox[tl]
      /\ sensed' = sensed \cup {<<ev, tl>>}
      /\ \E phase \in BOOLEAN :
            lock' = [lock EXCEPT ![tl] =
                        IF phase THEN [ev |-> ev, claimer |-> None] ELSE NoLock]
  BY DEF DecideSensing
<1>3. /\ sightingBox' \in [Junctions -> SUBSET Sightings]
      /\ \A j \in Junctions : sightingBox'[j] \subseteq sightingBox[j] \cup {<<ev, tl>>}
  BY <1>1, <1>2 DEF Announce, Boxes
<1>4. claimBox' \in [Junctions -> Seq(Claims)]
  BY <1>1, <1>2, EnqueuedIsClaims DEF Announce, Boxes
<1>5. /\ lock' \in [Junctions -> [ev : Vehicles \cup {None}, claimer : Junctions \cup {None}]]
      /\ lock'[tl].claimer = None
      /\ \A j \in Junctions \ {tl} : lock'[j] = lock[j]
  BY <1>1, <1>2 DEF NoLock, Boxes
<1>6. Boxes'
  BY <1>1, <1>2, <1>3, <1>4, <1>5 DEF Boxes, Sightings
<1>7. Vouched \subseteq Vouched' /\ <<ev, tl>> \in Vouched'
  BY <1>2 DEF Vouched
<1>8. ASSUME NEW j \in Junctions
      PROVE  \A i \in 1 .. Len(claimBox'[j]) : claimBox'[j][i] \in Vouched'
  <2>1. \A i \in 1 .. Len(claimBox[j]) : claimBox[j][i] \in Vouched'
    BY <1>7 DEF Witnessed
  <2>2. claimBox[j] \in Seq(Claims)
    BY DEF Boxes
  <2>3. LET box == Enqueue(claimBox[j], <<ev, tl>>)
        IN  \A i \in 1 .. Len(box) : box[i] \in Vouched'
    BY <1>1, <1>7, <2>1, <2>2, EnqueuedIsVouched
  <2>4. claimBox'[j] \in {<<>>, claimBox[j], Enqueue(claimBox[j], <<ev, tl>>)}
    BY <1>2 DEF Announce
  <2>5. Len(<<>>) = 0
    OBVIOUS
  <2> QED
    BY <2>1, <2>3, <2>4, <2>5
<1>9. Witnessed'
  BY <1>2, <1>3, <1>7, <1>8 DEF Witnessed
<1>10. NoPhantomGreen'
  BY <1>5, <1>7 DEF NoPhantomGreen
<1> QED
  BY <1>6, <1>9, <1>10

\* A claim that is served is vouched for by its claimer and a third junction.
LEMMA ClaimsKeepBoxes ==
    ASSUME Boxes, Witnessed, NoPhantomGreen, NEW tl \in Junctions, DecideOnClaims(tl)
    PROVE  Boxes' /\ Witnessed' /\ NoPhantomGreen'
<1> DEFINE first == claimBox[tl][1]
<1>1. /\ TakeMessages(tl)
      /\ sightings' = sightings \cup sightingBox[tl]
      /\ sensed' = sensed
  BY DEF DecideOnClaims
<1>2. PICK served \in BOOLEAN :
         /\ served => /\ claimBox[tl] # <<>>
                      /\ Corroborated(tl, first[1], first[2])
         /\ lock' = [lock EXCEPT ![tl] =
                        IF served THEN [ev |-> first[1], claimer |-> first[2]]
                        ELSE NoLock]
  BY DEF DecideOnClaims
<1>3. /\ sightingBox' \in [Junctions -> SUBSET Sightings]
      /\ \A j \in Junctions : sightingBox'[j] \subseteq sightingBox[j]
      /\ claimBox' \in [Junctions -> Seq(Claims)]
  BY <1>1 DEF TakeMessages, Boxes
<1>4. served => first \in Claims
  BY <1>2 DEF Boxes
<1>5. /\ lock' \in [Junctions -> [ev : Vehicles \cup {None}, claimer : Junctions \cup {None}]]
      /\ \A j \in Junctions \ {tl} : lock'[j] = lock[j]
      /\ served => lock'[tl] = [ev |-> first[1], claimer |-> first[2]]
      /\ ~served => lock'[tl] = NoLock
  BY <1>2, <1>4 DEF NoLock, Boxes, Claims
<1>6. Boxes'
  BY <1>1, <1>3, <1>5 DEF Boxes
<1>7. Vouched' = Vouched
  BY <1>1 DEF Vouched
<1>8. \A j \in Junctions : claimBox'[j] \in {<<>>, claimBox[j]}
  BY <1>1 DEF TakeMessages, Boxes
<1>9. Witnessed'
  BY <1>1, <1>3, <1>7, <1>8 DEF Witnessed
<1>10. served => first \in Vouched
  <2>1. served => 1 \in 1 .. Len(claimBox[tl])
    BY <1>2 DEF Boxes
  <2> QED
    BY <2>1 DEF Witnessed
<1>11. lock'[tl].claimer # None =>
         /\ <<lock'[tl].ev, lock'[tl].claimer>> \in Vouched'
         /\ \E j \in Junctions \ {tl, lock'[tl].claimer} : <<lock'[tl].ev, j>> \in Vouched'
  <2>1. served => first = <<first[1], first[2]>>
    BY <1>4 DEF Claims
  <2>2. CASE ~served
    BY <1>5, <2>2 DEF NoLock
  <2>3. CASE served
    BY <1>2, <1>5, <1>7, <1>9, <1>10, <2>1, <2>3 DEF Corroborated, Witnessed
  <2> QED
    BY <2>2, <2>3
<1>12. NoPhantomGreen'
  BY <1>5, <1>7, <1>11 DEF NoPhantomGreen
<1> QED
  BY <1>6, <1>9, <1>12

LEMMA StepKeepsBoxes ==
    ASSUME Boxes, Witnessed, NoPhantomGreen, [Next]_vars
    PROVE  Boxes' /\ Witnessed' /\ NoPhantomGreen'
<1>1. ASSUME NEW from \in Insiders, NEW target \in Junctions, NEW ev \in Vehicles,
             InjectPhantomClaim(from, target, ev)
      PROVE  Boxes' /\ Witnessed' /\ NoPhantomGreen'
  <2>1. <<ev, from>> \in Claims
    BY EmergencyAssumption DEF Claims
  <2>2. claimBox' \in [Junctions -> Seq(Claims)]
    BY <1>1, <2>1, EnqueuedIsClaims DEF InjectPhantomClaim, Boxes
  <2>3. Vouched' = Vouched /\ <<ev, from>> \in Vouched
    BY <1>1 DEF InjectPhantomClaim, Vouched
  <2>4. ASSUME NEW j \in Junctions
        PROVE  \A i \in 1 .. Len(claimBox'[j]) : claimBox'[j][i] \in Vouched'
    <3>1. claimBox[j] \in Seq(Claims) /\ \A i \in 1 .. Len(claimBox[j]) : claimBox[j][i] \in Vouched
      BY DEF Boxes, Witnessed
    <3>2. LET box == Enqueue(claimBox[j], <<ev, from>>)
          IN  \A i \in 1 .. Len(box) : box[i] \in Vouched
      BY <2>1, <2>3, <3>1, EnqueuedIsVouched
    <3>3. claimBox'[j] \in {claimBox[j], Enqueue(claimBox[j], <<ev, from>>)}
      BY <1>1 DEF InjectPhantomClaim, Boxes
    <3> QED
      BY <2>3, <3>1, <3>2, <3>3
  <2>5. Boxes'
    BY <1>1, <2>2 DEF InjectPhantomClaim, Boxes
  <2>6. Witnessed' /\ NoPhantomGreen'
    BY <1>1, <2>3, <2>4 DEF InjectPhantomClaim, Witnessed, NoPhantomGreen
  <2> QED
    BY <2>5, <2>6
<1>2. ASSUME NEW from \in Insiders, NEW ev \in Vehicles, InjectFalseSighting(from, ev)
      PROVE  Boxes' /\ Witnessed' /\ NoPhantomGreen'
  <2>1. <<ev, from>> \in Sightings
    BY EmergencyAssumption DEF Sightings
  <2>2. Vouched' = Vouched /\ <<ev, from>> \in Vouched
    BY <1>2 DEF InjectFalseSighting, Vouched
  <2>3. /\ sightingBox' \in [Junctions -> SUBSET Sightings]
        /\ \A j \in Junctions : sightingBox'[j] \subseteq sightingBox[j] \cup {<<ev, from>>}
    BY <1>2, <2>1 DEF InjectFalseSighting, Boxes
  <2>4. Boxes'
    BY <1>2, <2>3 DEF InjectFalseSighting, Boxes
  <2>5. Witnessed' /\ NoPhantomGreen'
    BY <1>2, <2>2, <2>3 DEF InjectFalseSighting, Witnessed, NoPhantomGreen
  <2> QED
    BY <2>4, <2>5
<1>3. CASE Tick
  BY <1>3 DEF Tick, busVars, Boxes, Witnessed, NoPhantomGreen, Vouched
<1>4. CASE UNCHANGED vars
  BY <1>4 DEF vars, Boxes, Witnessed, NoPhantomGreen, Vouched
<1> QED
  BY <1>1, <1>2, <1>3, <1>4, SensingKeepsBoxes, ClaimsKeepBoxes DEF Next, AnyDecide, Decide

-----------------------------------------------------------------------------
(* The invariant and what follows from it. *)

LEMMA InitInv == Init => Inv
<1> SUFFICES ASSUME Init PROVE Inv
  OBVIOUS
<1>1. \A j \in Junctions : Of(j, suspected) = {} /\ lies[j] = 0
  BY DEF Init, Of
<1>2. \A j \in Junctions : lies[j] = Cardinality(Of(j, suspected))
  BY <1>1, FS_EmptySet, Zenon
<1>3. DOMAIN claimFirst = {} /\ confirmed = {} /\ credited = {} /\ suspected = {}
  BY DEF Init
<1>4. lies \in [Junctions -> Nat]
  BY DEF Init
<1>5. Books
  BY <1>2, <1>3, <1>4 DEF Books
<1>6. Boxes
  BY DEF Init, Boxes, NoLock
<1>7. \A j \in Junctions : Len(claimBox[j]) = 0
  BY DEF Init
<1>8. Witnessed /\ NoPhantomGreen
  BY <1>7 DEF Init, Witnessed, NoPhantomGreen, NoLock
<1> QED
  BY <1>5, <1>6, <1>8 DEF Inv

THEOREM InvHolds == Spec => []Inv
<1>1. Inv /\ [Next]_vars => Inv'
  BY StepKeepsBooks, StepKeepsBoxes DEF Inv
<1> QED
  BY InitInv, <1>1, PTL DEF Spec

\* Types, for any number of junctions, vehicles and insiders.
THEOREM TypeCorrect == Spec => []TypeOK
<1>1. Inv => TypeOK
  BY DEF Inv, Books, Boxes, TypeOK
<1> QED
  BY <1>1, InvHolds, PTL

\* A source's penalty is the number of its claims now under suspicion.
THEOREM PenaltyTheorem == Spec => []PenaltiesCounted
<1>1. Inv => PenaltiesCounted
  BY DEF Inv, Books, PenaltiesCounted
<1> QED
  BY <1>1, InvHolds, PTL

\* A green is held for a claim on the word of two members, its claimer and a
\* third junction, each of which sensed the vehicle or is an insider.
THEOREM NoPhantomTheorem == Spec => []NoPhantomGreen
<1>1. Inv => NoPhantomGreen
  BY DEF Inv
<1> QED
  BY <1>1, InvHolds, PTL

\* Somebody has really sensed the vehicle of every claim that holds a green.
EveryGreenSensed ==
    \A tl \in Junctions :
        lock[tl].claimer # None => \E j \in Junctions : <<lock[tl].ev, j>> \in sensed

\* One compromised key, which may sign claims and sightings of anything, gets
\* no green for a vehicle that no junction has sensed.
THEOREM LoneInsiderTheorem ==
    ASSUME \A a, b \in Insiders : a = b
    PROVE  Spec => []EveryGreenSensed
<1>1. Inv => EveryGreenSensed
  <2>1. SUFFICES ASSUME Inv, NEW tl \in Junctions, lock[tl].claimer # None
                 PROVE  \E j \in Junctions : <<lock[tl].ev, j>> \in sensed
    BY DEF EveryGreenSensed
  <2>2. PICK j \in Junctions \ {tl, lock[tl].claimer} : <<lock[tl].ev, j>> \in Vouched
    BY <2>1 DEF Inv, NoPhantomGreen
  <2>3. <<lock[tl].ev, lock[tl].claimer>> \in Vouched /\ lock[tl].claimer \in Junctions
    BY <2>1 DEF Inv, NoPhantomGreen, Boxes
  <2>4. ~(j \in Insiders /\ lock[tl].claimer \in Insiders)
    BY <2>2
  <2> QED
    BY <2>2, <2>3, <2>4 DEF Vouched
<1> QED
  BY <1>1, InvHolds, PTL

-----------------------------------------------------------------------------
(* The scoring implements ClaimVerdicts. *)

\* A source is held back exactly while a claim of its own is suspected.
LEMMA HeldBack ==
    Books => {j \in Junctions : lies[j] > 0} = {k[2] : k \in suspected}
<1> SUFFICES ASSUME Books
             PROVE  {j \in Junctions : lies[j] > 0} = {k[2] : k \in suspected}
  OBVIOUS
<1>1. ASSUME NEW j \in Junctions
      PROVE  lies[j] > 0 <=> Of(j, suspected) # {}
  <2>1. IsFiniteSet(Of(j, suspected))
    BY ClaimsFinite, FS_Subset DEF Books, Of
  <2>2. Cardinality(Of(j, suspected)) = 0 <=> Of(j, suspected) = {}
    BY <2>1, FS_EmptySet
  <2> QED
    BY <2>2 DEF Books
<1>2. \A k \in suspected : k[2] \in Junctions
  BY DEF Books, Claims
<1> QED
  BY <1>1, <1>2 DEF Of

\* The credited claims are those about vehicles that have been sensed.
LEMMA CreditedAreConfirmed ==
    ASSUME Books
    PROVE  credited = {k \in Known : k[1] \in confirmed}
BY DEF Books, Known

\* Nothing known is forgotten, and a suspicion only ends in credit.
LEMMA NothingForgotten ==
    ASSUME Books, Boxes, [Next]_vars
    PROVE  /\ Known \subseteq Known' /\ confirmed \subseteq confirmed'
           /\ suspected \subseteq suspected' \cup credited'
<1>1. ASSUME NEW ev, NEW new, Observe(ev, new)
      PROVE  /\ Known \subseteq Known' /\ confirmed \subseteq confirmed'
             /\ suspected \subseteq suspected' \cup credited'
  BY <1>1 DEF Observe, Known, Registered
<1>2. CASE Tick
  BY <1>2 DEF Tick, Known
<1>3. ASSUME NEW from, NEW target, NEW ev, InjectPhantomClaim(from, target, ev)
      PROVE  UNCHANGED trustVars
  BY <1>3 DEF InjectPhantomClaim
<1>4. ASSUME NEW from, NEW ev, InjectFalseSighting(from, ev)
      PROVE  UNCHANGED trustVars
  BY <1>4 DEF InjectFalseSighting
<1>5. CASE UNCHANGED trustVars
  BY <1>5 DEF trustVars, Known
<1>6. CASE UNCHANGED vars
  BY <1>6, <1>5 DEF vars, trustVars
<1> QED
  BY <1>1, <1>2, <1>3, <1>4, <1>5, <1>6 DEF Next, AnyDecide, Decide, DecideSensing, DecideOnClaims

\* Whatever the order of claims, sensings and expiries, a known claim counts
\* as true exactly when its vehicle has been sensed.
THEOREM ScoringTheorem == Spec => OrderDoesNotMatter
<1>1. Init => Verdicts!VerdictInit
  BY DEF Init, Verdicts!VerdictInit, Known
<1>2. ASSUME Inv, Inv', [Next]_vars
      PROVE  [Verdicts!Observe]_(Verdicts!verdictVars)
  <2>1. /\ Known' \subseteq Vehicles \X Junctions
        /\ confirmed' \subseteq Vehicles
        /\ suspected' \subseteq Known' \ credited'
    BY <1>2 DEF Inv, Books, Claims, Known
  <2>2. credited' = {k \in Known' : k[1] \in confirmed'}
    BY <1>2 DEF Inv, Books, Known
  <2>3. {j \in Junctions : lies'[j] > 0} = {k[2] : k \in suspected'}
    <3>1. (Books => {j \in Junctions : lies[j] > 0} = {k[2] : k \in suspected})'
      BY HeldBack, PTL
    <3> QED
      BY <1>2, <3>1 DEF Inv
  <2>4. /\ Known \subseteq Known' /\ confirmed \subseteq confirmed'
        /\ suspected \subseteq suspected' \cup credited'
    BY <1>2, NothingForgotten DEF Inv
  <2> QED
    BY <2>1, <2>2, <2>3, <2>4 DEF Verdicts!Observe, Verdicts!Claims
<1> QED
  BY InvHolds, <1>1, <1>2, PTL DEF Spec, OrderDoesNotMatter, Verdicts!VerdictSpec
=============================================================================
