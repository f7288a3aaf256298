--------------------------- MODULE EmergencyTrust ---------------------------
(***************************************************************************)
(* The emergency layer of the junctions of one EmergencyController         *)
(* (src/emergency_controller.py) with the trust it keeps (src/trust.py),   *)
(* in its defended mode: claims need corroboration and trust gates it.     *)
(*                                                                         *)
(* A junction that senses an emergency vehicle tells its neighbours (a     *)
(* sighting) and claims their green for it (an advance claim).  A claim is *)
(* served if a third junction has sighted the vehicle.  Claims are scored: *)
(* sensed anywhere, the claim was true; not sensed for trust_claim_ttl, it *)
(* is a lie until the vehicle is sensed after all.                         *)
(*                                                                         *)
(* Where vehicles are is left open: any junction may sense any real one    *)
(* whenever it decides.  Junctions are those with an agent and an identity:*)
(* the others leave decide() before all this.  The order of messages       *)
(* matters for claims only (the first one counts); a message that is       *)
(* waiting already need not wait twice, nor a sighting that is stored.     *)
(***************************************************************************)
EXTENDS Integers, Sequences, SequencesExt, FiniteSetsExt

CONSTANTS
    Junctions,
    Neighbours,     \* the adjacency, a set of junctions for each junction
    Vehicles,       \* ids of emergency vehicles that claims speak of
    Real,           \* those that exist, and so may be sensed
    Insiders,       \* members whose key signs claims and sightings of anything
    None,
    Ttl             \* whole ticks of Tick that trust_claim_ttl lasts

ASSUME EmergencyAssumption ==
    /\ Neighbours \in [Junctions -> SUBSET Junctions]
    /\ \A j \in Junctions : j \notin Neighbours[j]
    /\ Real \subseteq Vehicles
    /\ Insiders \subseteq Junctions
    /\ None \notin Vehicles \cup Junctions
    /\ Ttl \in Nat

ASSUME EmergencyFinite == IsFiniteSet(Junctions) /\ IsFiniteSet(Vehicles)

Claims == Vehicles \X Junctions         \* <<ev_id, claimer>>
Sightings == Vehicles \X Junctions      \* <<ev_id, sighter>>

VARIABLES
    sightingBox,    \* sightings on the bus, for each recipient
    claimBox,       \* claims on the bus for each recipient, in order
    sightings,      \* _sightings, the store of all junctions
    claimFirst,     \* _claim_first: how long ago each open claim was seen
    confirmed,      \* _locally_confirmed
    credited,       \* _truth_settled
    suspected,      \* _provisional_keys
    lies,           \* _provisional_lies
    lock,           \* _ev_preempt_phase: for whom, on whose word
    sensed          \* history: <<vehicle, junction>> really sensed

busVars == <<sightingBox, claimBox>>
trustVars == <<claimFirst, confirmed, credited, suspected, lies>>
vars == <<sightingBox, claimBox, sightings, claimFirst, confirmed, credited,
          suspected, lies, lock, sensed>>

NoLock == [ev |-> None, claimer |-> None]

-----------------------------------------------------------------------------
\* Messages.

Enqueue(box, claim) == IF Contains(box, claim) THEN box ELSE Append(box, claim)

\* tl signs a sighting of ev, for all its neighbours, and a claim for each.
Announce(tl, ev) ==
    /\ sightingBox' = [r \in Junctions |->
                          IF r = tl THEN {}
                          ELSE IF r \in Neighbours[tl]
                          THEN sightingBox[r] \cup ({<<ev, tl>>} \ sightings)
                          ELSE sightingBox[r]]
    /\ claimBox' = [r \in Junctions |->
                       IF r = tl THEN <<>>
                       ELSE IF r \in Neighbours[tl]
                       THEN Enqueue(claimBox[r], <<ev, tl>>) ELSE claimBox[r]]

\* Only the messages for tl are taken.
TakeMessages(tl) ==
    /\ sightingBox' = [sightingBox EXCEPT ![tl] = {}]
    /\ claimBox' = [claimBox EXCEPT ![tl] = <<>>]

-----------------------------------------------------------------------------
\* Scoring.  ev is what tl senses now, or None; new are the claims it reads.

\* Committed trust lies in [1/2, 1) and each open lie divides it by four.
CanCorroborate(j) == lies'[j] = 0

Known == DOMAIN claimFirst \cup credited \cup suspected

\* 1. Claims that are new are registered.
Registered(new) == DOMAIN claimFirst \cup (new \ Known)

\* Mutant: a claim that comes again starts its time anew.
AgeRestarted(k, new) == IF k \in DOMAIN claimFirst \ new THEN claimFirst[k] ELSE 0

AgeOf(k, new) == IF k \in DOMAIN claimFirst THEN claimFirst[k] ELSE 0

\* Mutant: only open claims are looked at, not suspected ones.
SettledNowOpenOnly(ev, new) == {k \in Registered(new) : k[1] = ev}

\* 2. Every claim about ev, also one under suspicion, is true.
SettledNow(ev, new) == {k \in Registered(new) \cup suspected : k[1] = ev}

\* 3. The sweep over the claims still open.
CreditedBySweep(ev, new) ==
    {k \in Registered(new) \ SettledNow(ev, new) : k[1] \in confirmed}

Expired(ev, new) ==
    {k \in Registered(new) \ SettledNow(ev, new) :
        k[1] \notin confirmed /\ AgeOf(k, new) > Ttl}

Of(j, S) == {k \in S : k[2] = j}

\* Mutant: every claim that turns out true takes one off the count.
LiesAfterUnfloored(ev, new) ==
    [j \in Junctions |-> lies[j] - Cardinality(Of(j, SettledNow(ev, new)))
                            + Cardinality(Of(j, Expired(ev, new)))]

LiesAfter(ev, new) ==
    [j \in Junctions |->
        Max({0, lies[j] - Cardinality(Of(j, SettledNow(ev, new) \cap suspected))})
            + Cardinality(Of(j, Expired(ev, new)))]

Observe(ev, new) ==
    LET now == SettledNow(ev, new)
        swept == CreditedBySweep(ev, new)
        late == Expired(ev, new)
    IN /\ claimFirst' = [k \in Registered(new) \ (now \cup swept \cup late) |-> AgeOf(k, new)]
       /\ confirmed' = IF ev = None THEN confirmed ELSE confirmed \cup {ev}
       /\ credited' = credited \cup now \cup swept
       /\ suspected' = (suspected \ now) \cup late
       /\ lies' = LiesAfter(ev, new)

-----------------------------------------------------------------------------
\* Deciding.

\* Mutant: the claimer's own sighting will do.
CorroboratedByAny(tl, ev, claimer) ==
    \E j \in Junctions \ {tl} : <<ev, j>> \in sightings' /\ CanCorroborate(j)

\* A third junction has sighted the vehicle, however long ago, and is not
\* held back.  (If tl senses a vehicle itself, no claim is looked at.)
Corroborated(tl, ev, claimer) ==
    \E j \in Junctions \ {tl, claimer} :
        <<ev, j>> \in sightings' /\ CanCorroborate(j)

\* decide() of a junction that senses ev: served at once if a phase is there.
DecideSensing(tl, ev) ==
    LET new == ToSet(claimBox[tl])
    IN /\ Announce(tl, ev)
       /\ sightings' = sightings \cup sightingBox[tl]
       /\ Observe(ev, new)
       /\ sensed' = sensed \cup {<<ev, tl>>}
       /\ \E phase \in BOOLEAN :
            lock' = [lock EXCEPT ![tl] =
                        IF phase THEN [ev |-> ev, claimer |-> None] ELSE NoLock]

\* decide() of a junction that senses nothing: the first claim, if it is
\* corroborated, not turned down by the disambiguator, and has a phase.
DecideOnClaims(tl) ==
    LET claims == claimBox[tl]
    IN /\ TakeMessages(tl)
       /\ sightings' = sightings \cup sightingBox[tl]
       /\ Observe(None, ToSet(claims))
       /\ \E served \in BOOLEAN :
            /\ served => /\ claims # <<>>
                         /\ Corroborated(tl, claims[1][1], claims[1][2])
            /\ lock' = [lock EXCEPT ![tl] =
                           IF served
                           THEN [ev |-> claims[1][1], claimer |-> claims[1][2]]
                           ELSE NoLock]
       /\ UNCHANGED sensed

Decide(tl) == DecideOnClaims(tl) \/ \E ev \in Real : DecideSensing(tl, ev)

\* inject_phantom_claim: an insider's key signs a claim for anything.
InjectPhantomClaim(from, target, ev) ==
    /\ target \in Neighbours[from]
    /\ claimBox' = [claimBox EXCEPT ![target] = Enqueue(@, <<ev, from>>)]
    /\ UNCHANGED <<sightingBox, sightings, trustVars, lock, sensed>>

\* _ingest_ev_inbox stores a sighting of any member: an insider's key signs
\* one of a vehicle that it does not see, or that does not exist.
InjectFalseSighting(from, ev) ==
    /\ sightingBox' = [r \in Junctions |->
                          IF r \in Neighbours[from]
                          THEN sightingBox[r] \cup ({<<ev, from>>} \ sightings)
                          ELSE sightingBox[r]]
    /\ UNCHANGED <<claimBox, sightings, trustVars, lock, sensed>>

\* The simulation's clock; ages beyond the expiry are not told apart.
Tick ==
    /\ claimFirst' = [k \in DOMAIN claimFirst |-> Min({claimFirst[k] + 1, Ttl + 1})]
    /\ UNCHANGED <<busVars, sightings, confirmed, credited, suspected, lies, lock, sensed>>

-----------------------------------------------------------------------------
Init ==
    /\ sightingBox = [j \in Junctions |-> {}]
    /\ claimBox = [j \in Junctions |-> <<>>]
    /\ sightings = {}
    /\ claimFirst = <<>>
    /\ confirmed = {} /\ credited = {} /\ suspected = {}
    /\ lies = [j \in Junctions |-> 0]
    /\ lock = [j \in Junctions |-> NoLock]
    /\ sensed = {}

AnyDecide == \E tl \in Junctions : Decide(tl)

Next ==
    \/ AnyDecide
    \/ \E from \in Insiders, target \in Junctions, ev \in Vehicles :
          InjectPhantomClaim(from, target, ev)
    \/ \E from \in Insiders, ev \in Vehicles : InjectFalseSighting(from, ev)
    \/ Tick

Spec == Init /\ [][Next]_vars

\* The simulation goes on, and some junction decides again and again.
FairSpec == Spec /\ WF_vars(Tick) /\ WF_vars(AnyDecide)

-----------------------------------------------------------------------------
TypeOK ==
    /\ sightingBox \in [Junctions -> SUBSET Sightings]
    /\ claimBox \in [Junctions -> Seq(Claims)]
    /\ sightings \subseteq Sightings
    /\ DOMAIN claimFirst \subseteq Claims
    /\ \A k \in DOMAIN claimFirst : claimFirst[k] \in 0 .. Ttl + 1
    /\ confirmed \subseteq Vehicles
    /\ credited \subseteq Claims /\ suspected \subseteq Claims
    /\ lies \in [Junctions -> Nat]
    /\ lock \in [Junctions -> [ev : Vehicles \cup {None}, claimer : Junctions \cup {None}]]
    /\ sensed \subseteq Vehicles \X Junctions

\* The penalty of a source is the number of its claims now under suspicion,
\* and no claim is in two of the books: each can be lifted exactly once.
PenaltiesCounted ==
    /\ \A j \in Junctions : lies[j] = Cardinality(Of(j, suspected))
    /\ DOMAIN claimFirst \cap (credited \cup suspected) = {}
    /\ credited \cap suspected = {}

\* What a member's key may have signed: what it sensed, or anything.
Vouched == sensed \cup (Vehicles \X Insiders)

\* No claim commandeers a signal on one member's word: whenever a junction
\* holds a green for a claim, its claimer and a third junction both vouch for
\* the vehicle, and each has really sensed it or is an insider.  So an
\* invented vehicle takes two insiders.
NoPhantomGreen ==
    \A tl \in Junctions :
        lock[tl].claimer # None =>
            /\ <<lock[tl].ev, lock[tl].claimer>> \in Vouched
            /\ \E j \in Junctions \ {tl, lock[tl].claimer} : <<lock[tl].ev, j>> \in Vouched

\* The score of a claim does not depend on the order of claim, sensing and
\* expiry (ClaimVerdicts).
Verdicts == INSTANCE ClaimVerdicts WITH
                known <- Known,
                heldBack <- {j \in Junctions : lies[j] > 0}

OrderDoesNotMatter == Verdicts!VerdictSpec

\* Once it has been read, an insider's claim for a vehicle that does not exist
\* shuts its source out of corroborating for good.  (Nobody else makes one.)
PhantomShutsOut ==
    \A from \in Insiders, ev \in Vehicles \ Real :
        <<ev, from>> \in Known ~> [](lies[from] > 0)
=============================================================================
