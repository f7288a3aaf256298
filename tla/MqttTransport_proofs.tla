------------------------ MODULE MqttTransport_proofs ------------------------
(***************************************************************************)
(* What MqttTransport keeps for any neighbours, numbers of reports,        *)
(* retries and copies, and any changes of the registry: a report is handed *)
(* over once at most; a frame that was handled is delivered, turned down   *)
(* with a reason, or one that the race of the two threads may have lost;   *)
(* and what a scan for another frame swallowed had been turned down.       *)
(*                                                                         *)
(* The proofs rest on where a frame can be: in the list of the bus, in the *)
(* copy of it that a thread is about to put in its place, and whether it   *)
(* was settled (delivered or turned down) when it got there.               *)
(***************************************************************************)
EXTENDS MqttTransport, FiniteSetTheorems, TLAPS

Lists == [Frames -> Copies]

Types ==
    /\ approved \subseteq Senders
    /\ tick \in [Junctions -> Nat]
    /\ published \in Lists
    /\ main \in [at : {"idle", "copied"}, list : Lists]
    /\ main.at = "copied" => tick[Self] \in Ticks
    /\ net.list \in Lists
    /\ net.at \in {"waiting", "copied", "injected"}
    /\ net = [at |-> net.at, frame |-> net.frame, list |-> net.list]
    /\ net.at # "waiting" => net.frame \in Frames
    /\ net.at # "copied" => net.list = NoList
    /\ delivered \subseteq Frames
    /\ queue \in Seq(Frames)
    /\ received \in [Frames -> Nat]
    /\ handled \subseteq Frames

\* Only what was delivered is with the controller, and once.
Once ==
    \A f \in Frames :
        /\ HandedOver(f) <= 1
        /\ f \notin delivered => HandedOver(f) = 0

\* The frame that was just put into the list is still there, also when the
\* main thread gets to put its copy in the list's place, or is at risk.
Injected ==
    net.at = "injected" =>
        /\ published[net.frame] > 0 \/ net.frame \in atRisk
        /\ main.at = "copied" => main.list[net.frame] > 0 \/ net.frame \in atRisk

Settled(f) == f \in delivered \/ <<f, "not_approved">> \in rejected

Listed(f) ==
    published[f] > 0 \/ (main.at = "copied" /\ main.list[f] > 0) \/ net.list[f] > 0

\* A neighbour's frame in any of the lists is settled, or the network thread
\* has just put it into the list and is about to scan it.
ListedAreSettled ==
    \A f \in Senders \X Ticks :
        Listed(f) =>
            \/ Settled(f)
            \/ net.at = "injected" /\ net.frame = f /\ published[f] > 0

Swallowed ==
    \A f \in delivered : HandedOver(f) > 0 \/ <<f, "not_approved">> \in rejected

Inv == Types /\ Once /\ Injected /\ NothingVanishes /\ ListedAreSettled /\ Swallowed

-----------------------------------------------------------------------------
\* How often a queue has a frame, when another one is put into it.
LEMMA QueueCounts ==
    ASSUME queue \in Seq(Frames), NEW f
    PROVE  /\ InQueue(f) \in Nat
           /\ queue = <<>> => InQueue(f) = 0
           /\ queue' = queue => InQueue(f)' = InQueue(f)
           /\ queue' = <<>> => InQueue(f)' = 0
           /\ \A g : queue' = Append(queue, g) =>
                 InQueue(f)' = InQueue(f) + (IF g = f THEN 1 ELSE 0)
<1> DEFINE Places == {i \in DOMAIN queue : queue[i] = f}
<1>1. Len(queue) \in Nat /\ DOMAIN queue = 1 .. Len(queue)
  OBVIOUS
<1>2. IsFiniteSet(1 .. Len(queue))
  BY <1>1, FS_Interval
<1>3. IsFiniteSet(Places) /\ Cardinality(Places) \in Nat
  BY <1>1, <1>2, FS_Subset, FS_CardinalityType
<1>4. InQueue(f) = Cardinality(Places)
  BY DEF InQueue
<1>5. queue = <<>> => InQueue(f) = 0
  BY <1>4, FS_EmptySet
<1>6. queue' = <<>> => InQueue(f)' = 0
  <2> SUFFICES ASSUME queue' = <<>> PROVE InQueue(f)' = 0
    OBVIOUS
  <2>1. {i \in DOMAIN queue' : queue'[i] = f} = {}
    OBVIOUS
  <2> QED BY <2>1, FS_EmptySet DEF InQueue
<1>7. ASSUME NEW g, queue' = Append(queue, g)
      PROVE  InQueue(f)' = InQueue(f) + (IF g = f THEN 1 ELSE 0)
  <2>1. {i \in DOMAIN queue' : queue'[i] = f}
           = IF g = f THEN Places \cup {Len(queue) + 1} ELSE Places
    BY <1>1, <1>7
  <2>2. Len(queue) + 1 \notin Places
    BY <1>1
  <2>3. Cardinality(Places \cup {Len(queue) + 1}) = Cardinality(Places) + 1
    BY <1>3, <2>2, FS_AddElement
  <2>4. InQueue(f)' = Cardinality({i \in DOMAIN queue' : queue'[i] = f})
    BY DEF InQueue
  <2>5. CASE g = f
    BY <1>4, <2>1, <2>3, <2>4, <2>5
  <2>6. CASE g # f
    <3>1. InQueue(f)' = InQueue(f)
      BY <1>4, <2>1, <2>4, <2>6
    <3> QED BY <1>3, <1>4, <2>6, <3>1
  <2> QED BY <2>5, <2>6
<1>8. queue' = queue => InQueue(f)' = InQueue(f)
  <2> SUFFICES ASSUME queue' = queue PROVE InQueue(f)' = InQueue(f)
    OBVIOUS
  <2>1. {i \in DOMAIN queue' : queue'[i] = f} = Places
    OBVIOUS
  <2> QED BY <1>4, <2>1 DEF InQueue
<1> QED BY <1>3, <1>4, <1>5, <1>6, <1>7, <1>8

\* A list with one more frame.
LEMMA LongerList ==
    ASSUME NEW list \in Lists, NEW f \in Frames
    PROVE  /\ Longer(list, f) \in Lists
           /\ Longer(list, f)[f] > 0
           /\ \A g \in Frames \ {f} : Longer(list, f)[g] = list[g]
           /\ \A g \in Frames : list[g] > 0 => Longer(list, f)[g] > 0
<1>1. Counted(f) \in {1, 2}
  BY DEF Counted
<1> QED BY <1>1 DEF Lists, Copies, Longer

LEMMA EmptyList == NoList \in Lists /\ \A f \in Frames : ~(NoList[f] > 0)
BY DEF NoList, Lists, Copies

-----------------------------------------------------------------------------
LEMMA InitInv == Init => Inv
<1> SUFFICES ASSUME Init PROVE Inv
  OBVIOUS
<1>1. Types
  BY EmptyList DEF Init, Types, Idle, Waiting, Ticks
<1>2. \A f \in Frames : HandedOver(f) = 0
  BY <1>1, QueueCounts DEF Init, HandedOver, Types
<1>3. Once
  BY <1>2 DEF Once
<1>4. ListedAreSettled
  BY EmptyList DEF Init, ListedAreSettled, Listed, Idle, Waiting, Frames, Junctions
<1> QED
  BY <1>1, <1>3, <1>4 DEF Init, Inv, Injected, NothingVanishes, Swallowed, Waiting

\* What the steps do to a frame's being handed over, if the queue is not
\* touched, moves to the controller, or grows.
LEMMA HandedOverKept ==
    ASSUME Types, UNCHANGED <<queue, received>> \/ Inbox, NEW f \in Frames
    PROVE  HandedOver(f)' = HandedOver(f)
<1>1. queue \in Seq(Frames) /\ received[f] \in Nat
  BY DEF Types
<1>2. CASE UNCHANGED queue /\ UNCHANGED received
  BY <1>1, <1>2, QueueCounts DEF HandedOver
<1>3. CASE Inbox
  BY <1>1, <1>3, QueueCounts DEF HandedOver, Inbox
<1> QED BY <1>2, <1>3

\* A step that leaves the bus's verdicts, the queue and the histories alone.
LEMMA SettledKept ==
    ASSUME Types, Once, Swallowed, NothingVanishes,
           UNCHANGED <<queue, received>> \/ Inbox,
           UNCHANGED <<delivered, rejected, handled>>, atRisk \subseteq atRisk'
    PROVE  /\ Once' /\ Swallowed' /\ NothingVanishes'
           /\ \A f : Settled(f)' <=> Settled(f)
<1>1. \A f \in Frames : HandedOver(f)' = HandedOver(f)
  BY HandedOverKept
<1>2. delivered \subseteq Frames
  BY DEF Types
<1> QED
  BY <1>1, <1>2 DEF Once, Swallowed, NothingVanishes, Settled

\* A step that leaves the list and both threads alone.
LEMMA ListsKept ==
    ASSUME Types, Injected, ListedAreSettled, UNCHANGED <<published, main, net>>,
           UNCHANGED <<delivered, rejected, atRisk>>
    PROVE  Injected' /\ ListedAreSettled'
BY DEF Injected, ListedAreSettled, Listed, Settled

LEMMA Step == Inv /\ [Next]_vars => Inv'
<1> USE MqttAssumption
<1> SUFFICES ASSUME Inv, [Next]_vars PROVE Inv'
  OBVIOUS
<1>0. Types /\ Once /\ Injected /\ NothingVanishes /\ ListedAreSettled /\ Swallowed
  BY DEF Inv
<1>s. \A f \in Senders \X Ticks : f \in Frames /\ f[1] \in Senders /\ f[1] # Self
  BY DEF Frames, Junctions
<1>1. ASSUME NEW s \in Senders, Approve(s)
      PROVE  Inv'
  <2>1. Types'
    BY <1>0, <1>1 DEF Types, Approve, busVars, histVars
  <2> QED
    BY <1>0, <1>1, <2>1, SettledKept, ListsKept DEF Inv, Approve, busVars, histVars
<1>2. ASSUME NEW s \in Senders, Publish(s)
      PROVE  Inv'
  <2>1. s \in Junctions /\ s # Self /\ Self \in Junctions
    BY DEF Junctions
  <2>2. tick' \in [Junctions -> Nat] /\ tick'[Self] = tick[Self]
    BY <1>0, <1>2, <2>1 DEF Publish, Types
  <2>3. Types'
    BY <1>0, <1>2, <2>2 DEF Types, Publish, busVars, histVars
  <2> QED
    BY <1>0, <1>2, <2>3, SettledKept, ListsKept DEF Inv, Publish, busVars, histVars
<1>3. CASE PublishCopies
  <2>1. /\ UNCHANGED <<approved, tick, net, queue, received, delivered, rejected, handled,
                       atRisk, published>>
        /\ main' = [at |-> "copied", list |-> published] /\ tick[Self] \in Ticks
    BY <1>3 DEF PublishCopies, busVars, histVars
  <2>2. Types'
    BY <1>0, <2>1 DEF Types
  <2>3. Injected'
    BY <1>0, <2>1 DEF Injected
  <2>4. ListedAreSettled'
    BY <1>0, <2>1 DEF ListedAreSettled, Listed, Settled
  <2> QED
    BY <1>0, <2>1, <2>2, <2>3, <2>4, SettledKept DEF Inv
<1>4. CASE PublishReplaces
  <2> DEFINE own == <<Self, tick[Self]>>
  <2>1. own \in Frames /\ main.at = "copied" /\ main.list \in Lists
    BY <1>0, <1>4 DEF PublishReplaces, Types, Frames, Junctions
  <2>2. /\ published' = Longer(main.list, own) /\ main' = Idle
        /\ UNCHANGED <<approved, net, queue, received, delivered, rejected, handled, atRisk>>
    BY <1>4 DEF PublishReplaces, histVars
  <2>3. tick' \in [Junctions -> Nat]
    <3>1. tick' \in {tick, [tick EXCEPT ![Self] = @ + 1]}
      BY <1>4 DEF PublishReplaces
    <3>2. tick \in [Junctions -> Nat]
      BY <1>0 DEF Types
    <3>3. tick[Self] \in Nat /\ tick[Self] + 1 \in Nat
      BY <3>2 DEF Junctions
    <3>4. [tick EXCEPT ![Self] = tick[Self] + 1] \in [Junctions -> Nat]
      BY <3>2, <3>3
    <3> QED BY <3>1, <3>2, <3>4
  <2>4. published' \in Lists /\ main' \in [at : {"idle", "copied"}, list : Lists]
        /\ main'.at = "idle"
    BY <2>1, <2>2, LongerList, EmptyList DEF Idle
  <2>5. Types'
    BY <1>0, <2>2, <2>3, <2>4 DEF Types
  <2>6. Injected'
    BY <1>0, <2>1, <2>2, <2>4, LongerList DEF Injected, Types
  <2>7. ListedAreSettled'
    <3> SUFFICES ASSUME NEW f \in Senders \X Ticks, Listed(f)', ~Settled(f)'
                 PROVE  net'.at = "injected" /\ net'.frame = f /\ published'[f] > 0
      BY DEF ListedAreSettled
    <3>1. f \in Frames /\ f # own
      BY <1>s
    <3>2. published'[f] = main.list[f]
      BY <2>1, <2>2, <3>1, LongerList
    <3>3. Listed(f) /\ ~Settled(f)
      BY <2>1, <2>2, <2>4, <3>2 DEF Listed, Settled
    <3>4. net.at = "injected" /\ net.frame = f
      BY <1>0, <3>3 DEF ListedAreSettled
    <3>5. ~(net.list[f] > 0)
      BY <1>0, <3>1, <3>4, EmptyList DEF Types
    <3> QED
      BY <2>2, <2>4, <3>4, <3>5 DEF Listed
  <2> QED
    BY <1>0, <2>2, <2>5, <2>6, <2>7, SettledKept DEF Inv
<1>5. CASE Inbox
  <2>1. Types'
    <3>1. \A f \in Frames : received[f] + InQueue(f) \in Nat
      BY <1>0, QueueCounts DEF Types
    <3> QED
      BY <1>0, <1>5, <3>1 DEF Types, Inbox, busVars, histVars
  <2> QED
    BY <1>0, <1>5, <2>1, SettledKept, ListsKept DEF Inv, Inbox, busVars, histVars
<1>6. ASSUME NEW f \in Frames, Arrives(f)
      PROVE  Inv'
  <2>1. /\ UNCHANGED <<approved, tick, main, queue, received, delivered, rejected, handled,
                       atRisk, published>>
        /\ net.at = "waiting" /\ net' = [at |-> "copied", frame |-> f, list |-> published]
    BY <1>6 DEF Arrives, busVars, histVars
  <2>2. Types'
    BY <1>0, <2>1 DEF Types
  <2>3. Injected'
    BY <2>1 DEF Injected
  <2>4. ListedAreSettled'
    BY <1>0, <2>1 DEF ListedAreSettled, Listed, Settled
  <2> QED
    BY <1>0, <2>1, <2>2, <2>3, <2>4, SettledKept DEF Inv
<1>7. CASE InjectReplaces
  <2>1. /\ net.at = "copied" /\ net.frame \in Frames /\ net.list \in Lists
        /\ published' = Longer(net.list, net.frame)
        /\ UNCHANGED <<approved, tick, main, queue, received, delivered, rejected, handled>>
        /\ atRisk' = IF main.at = "copied" THEN atRisk \cup {net.frame} ELSE atRisk
    BY <1>0, <1>7 DEF InjectReplaces, Types
  <2>2. net' = [at |-> "injected", frame |-> net.frame, list |-> NoList]
    BY <1>0, <1>7 DEF InjectReplaces, Types
  <2>3. published' \in Lists /\ published'[net.frame] > 0
        /\ \A g \in Frames \ {net.frame} : published'[g] = net.list[g]
    BY <2>1, LongerList
  <2>4. Types'
    BY <1>0, <2>1, <2>2, <2>3, EmptyList DEF Types
  <2>5. Injected'
    BY <2>1, <2>2, <2>3 DEF Injected
  <2>6. ListedAreSettled'
    <3> SUFFICES ASSUME NEW f \in Senders \X Ticks, Listed(f)', ~Settled(f)'
                 PROVE  net'.at = "injected" /\ net'.frame = f /\ published'[f] > 0
      BY DEF ListedAreSettled
    <3>1. CASE f = net.frame
      BY <2>2, <2>3, <3>1
    <3>2. CASE f # net.frame
      <4>1. f \in Frames /\ ~(net'.list[f] > 0) /\ published'[f] = net.list[f]
        BY <1>s, <2>2, <2>3, <3>2, EmptyList
      <4>2. Listed(f) /\ ~Settled(f)
        BY <2>1, <4>1 DEF Listed, Settled
      <4> QED
        BY <1>0, <2>1, <4>2 DEF ListedAreSettled
    <3> QED BY <3>1, <3>2
  <2> QED
    BY <1>0, <2>1, <2>4, <2>5, <2>6, SettledKept DEF Inv
<1>8. CASE Scan
  <2>1. /\ net.at = "injected" /\ net.frame \in Frames
        /\ delivered' = delivered \cup Acceptable
        /\ rejected' = rejected \cup TurnedDown
        /\ net' = Waiting /\ handled' = handled \cup {net.frame}
        /\ UNCHANGED <<approved, tick, published, main, received, atRisk>>
    BY <1>0, <1>8 DEF Scan, Types, Remembers
  <2>2. queue' = IF net.frame \in Acceptable THEN Append(queue, net.frame) ELSE queue
    BY <1>8 DEF Scan, Takes
  <2>3. Acceptable \subseteq Frames /\ Acceptable \cap delivered = {}
    BY DEF Acceptable, Scanned
  <2>4. Types'
    <3>1. queue' \in Seq(Frames)
      BY <1>0, <2>1, <2>2 DEF Types
    <3> QED
      BY <1>0, <2>1, <2>3, <3>1, EmptyList DEF Types, Waiting
  <2>5. \A f \in Frames :
           /\ HandedOver(f) \in Nat
           /\ HandedOver(f)' = HandedOver(f)
                 + (IF f = net.frame /\ net.frame \in Acceptable THEN 1 ELSE 0)
    <3> SUFFICES ASSUME NEW f \in Frames
                 PROVE  /\ HandedOver(f) \in Nat
                        /\ HandedOver(f)' = HandedOver(f)
                             + (IF f = net.frame /\ net.frame \in Acceptable THEN 1 ELSE 0)
      OBVIOUS
    <3>1. InQueue(f) \in Nat /\ received[f] \in Nat /\ received'[f] = received[f]
      BY <1>0, <2>1, QueueCounts DEF Types
    <3>2. CASE net.frame \in Acceptable
      <4>1. InQueue(f)' = InQueue(f) + (IF net.frame = f THEN 1 ELSE 0)
        BY <1>0, <2>2, <3>2, QueueCounts DEF Types
      <4> QED BY <3>1, <3>2, <4>1 DEF HandedOver
    <3>3. CASE net.frame \notin Acceptable
      <4>1. InQueue(f)' = InQueue(f)
        BY <1>0, <2>2, <3>3, QueueCounts DEF Types
      <4> QED BY <3>1, <3>3, <4>1 DEF HandedOver
    <3> QED BY <3>2, <3>3
  <2>6. Once'
    <3> SUFFICES ASSUME NEW f \in Frames
                 PROVE  HandedOver(f)' <= 1 /\ (f \notin delivered' => HandedOver(f)' = 0)
      BY DEF Once
    <3>1. CASE f = net.frame /\ net.frame \in Acceptable
      <4>1. HandedOver(f) = 0
        BY <1>0, <2>3, <3>1 DEF Once
      <4> QED BY <2>1, <2>5, <3>1, <4>1
    <3>2. CASE ~(f = net.frame /\ net.frame \in Acceptable)
      BY <1>0, <2>1, <2>5, <3>2 DEF Once
    <3> QED BY <3>1, <3>2
  <2>7. \A f \in Scanned : f \in Frames /\ published[f] > 0
    BY DEF Scanned
  <2>8. \A f \in Scanned :
           /\ f[1] \in approved => f \in delivered'
           /\ f[1] \in Senders \ approved => <<f, "not_approved">> \in rejected'
           /\ f[1] = Self => <<f, "not_neighbour">> \in rejected'
    BY <2>1 DEF Acceptable, TurnedDown
  <2>9. \A f \in Frames : f[1] \in Senders \/ f[1] = Self
    BY DEF Frames, Junctions
  <2>10. published[net.frame] > 0 => net.frame \in Scanned
    BY <2>1 DEF Scanned
  <2>11. NothingVanishes'
    <3>1. \/ net.frame \in delivered'
          \/ \E reason \in {"not_neighbour", "not_approved"} :
                 <<net.frame, reason>> \in rejected'
          \/ net.frame \in atRisk'
      <4>1. net.frame \in Scanned \/ net.frame \in atRisk
        BY <1>0, <2>1, <2>10 DEF Injected
      <4> QED BY <2>1, <2>8, <2>9, <4>1
    <3> QED BY <1>0, <2>1, <3>1 DEF NothingVanishes
  <2>12. \A f : Settled(f) => Settled(f)'
    BY <2>1 DEF Settled
  <2>13. \A f \in Senders \X Ticks : Listed(f) => Settled(f)'
    <3> SUFFICES ASSUME NEW f \in Senders \X Ticks, Listed(f), ~Settled(f)
                 PROVE  Settled(f)'
      BY <2>12
    <3>1. net.frame = f /\ published[f] > 0
      BY <1>0 DEF ListedAreSettled
    <3> QED BY <1>s, <2>8, <2>10, <3>1 DEF Settled
  <2>14. ListedAreSettled'
    <3>1. \A f \in Senders \X Ticks : Listed(f)' => Listed(f)
      BY <1>s, <2>1, EmptyList DEF Listed, Waiting
    <3> QED BY <2>13, <3>1 DEF ListedAreSettled
  <2>15. Swallowed'
    <3> SUFFICES ASSUME NEW f \in delivered', <<f, "not_approved">> \notin rejected'
                 PROVE  HandedOver(f)' > 0
      BY DEF Swallowed
    <3>1. f \in Frames
      BY <2>4 DEF Types
    <3>2. CASE f \in delivered
      BY <1>0, <2>1, <2>5, <3>1, <3>2 DEF Swallowed
    <3>3. CASE f \notin delivered
      <4>1. f \in Acceptable /\ f \in Scanned /\ f[1] \in approved
        BY <2>1, <3>3 DEF Acceptable
      <4>2. f \in Senders \X Ticks
        BY <1>0, <3>1, <4>1 DEF Types, Frames
      <4>3. Listed(f) /\ ~Settled(f)
        BY <2>1, <2>7, <3>3, <4>1 DEF Listed, Settled
      <4>4. f = net.frame
        BY <1>0, <4>2, <4>3 DEF ListedAreSettled
      <4> QED BY <2>5, <3>1, <4>1, <4>4
    <3> QED BY <3>2, <3>3
  <2>16. Injected'
    BY <2>1 DEF Injected, Waiting
  <2> QED
    BY <2>4, <2>6, <2>11, <2>14, <2>15, <2>16 DEF Inv
<1>9. CASE UNCHANGED vars
  <2>1. Types'
    BY <1>0, <1>9 DEF vars, Types
  <2> QED
    BY <1>0, <1>9, <2>1, SettledKept, ListsKept DEF vars, Inv
<1> QED
  BY <1>1, <1>2, <1>3, <1>4, <1>5, <1>6, <1>7, <1>8, <1>9 DEF Next, MainThread, Verify

LEMMA Invariance == Spec => []Inv
BY InitInv, Step, PTL DEF Spec

-----------------------------------------------------------------------------
\* However often a report is sent and arrives, and whatever the threads do in
\* between, the controller gets it from inbox() once at most.
THEOREM HandedOverOnceTheorem == Spec => []HandedOverOnce
<1>1. Inv => HandedOverOnce
  BY DEF Inv, Once, HandedOverOnce
<1> QED BY <1>1, Invariance, PTL

\* A frame that verify_received() is done with is delivered, or on record as
\* turned down, or was put into the list during a publish() of the junction's
\* own: the lost update of the two threads is the only way to lose a frame.
THEOREM NothingVanishesTheorem == Spec => []NothingVanishes
<1>1. Inv => NothingVanishes
  BY DEF Inv
<1> QED BY <1>1, Invariance, PTL

\* A frame that the scan for another one delivered, and nobody was handed, had
\* been turned down when its own scan came: nothing that was never looked at
\* is swallowed.
THEOREM SwallowedTheorem == Spec => []SwallowedWereTurnedDown
<1>1. Inv => SwallowedWereTurnedDown
  BY DEF Inv, Swallowed, SwallowedWereTurnedDown
<1> QED BY <1>1, Invariance, PTL
=============================================================================
