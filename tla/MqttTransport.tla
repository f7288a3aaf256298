---------------------------- MODULE MqttTransport ----------------------------
(***************************************************************************)
(* One junction at the receiving end of the broker (src/mqtt_transport.py, *)
(* src/run_mqtt_coord.py): its main thread publishes its own reports and   *)
(* drains the queue of verified deliveries, the network thread of the MQTT *)
(* client verifies each frame through the junction's bus and fills that    *)
(* queue.  Both threads replace the bus's list of messages by a longer     *)
(* copy, and no lock covers the two.                                       *)
(*                                                                         *)
(* A frame is a sender and a tick: signatures are deterministic, so that a *)
(* report signed again is the same frame.  The bus's verdicts are those of *)
(* MessageBus, with senders that are neighbours and sign with their key.   *)
(* Frames of one sender may overtake each other, which the broker's order  *)
(* would rule out; no property needs that order.                           *)
(***************************************************************************)
EXTENDS Integers, Sequences, FiniteSets

CONSTANTS
    Senders,        \* neighbours that publish
    Self,           \* the receiving junction
    MaxTick,        \* bound: reports of each junction, one per tick
    Retries,        \* publish_retries of MqttBusAdapter
    MaxCopies,      \* bound: copies of a neighbour's frame on their way
    MaxOwnCopies,   \* bound: the same of a frame of the junction's own
    MaxChanges      \* bound: registrations and revocations

ASSUME MqttAssumption ==
    /\ Self \notin Senders
    /\ {MaxTick, Retries, MaxChanges} \subseteq Nat
    /\ MaxCopies \in Nat \ {0} /\ MaxOwnCopies \in Nat

Ticks == 1 .. MaxTick
Junctions == Senders \cup {Self}
Frames == Junctions \X Ticks

VARIABLES
    approved,   \* the neighbours the shared registry approves
    tick,       \* for each junction the tick it publishes next
    tries,      \* attempts Self has made for its tick
    wire,       \* copies of each frame on their way to Self
    published,  \* _published of Self's bus: how often it has each frame
    main,       \* the main thread of Self, and its copy of the list
    net,        \* the network thread: its frame, its copy
    delivered,  \* _delivered of the bus, without the recipient
    rejected,   \* _reject_logged and _replay_logged: frames with a reason
    queue,      \* _delivered_q
    received,   \* history: how often inbox() handed the controller a frame
    changes,    \* history: changes of the registry
    handled,    \* history: frames the network thread is done with
    atRisk      \* history: frames put into the list during a publish of Self

busVars == <<published, delivered, rejected>>
histVars == <<handled, atRisk>>
vars == <<approved, tick, tries, wire, published, main, net, delivered,
          rejected, queue, received, changes, handled, atRisk>>

\* Only the frames in a list count, and that there are two copies of one: the
\* second is a replay.  Those of Self's own frames are all turned down alike.
Copies == 0 .. 2
NoList == [f \in Frames |-> 0]
Counted(f) == IF f[1] = Self THEN 1 ELSE 2
Longer(list, f) == [list EXCEPT ![f] = IF @ < Counted(f) THEN @ + 1 ELSE @]

Idle == [at |-> "idle", list |-> NoList]
Waiting == [at |-> "waiting", frame |-> <<>>, list |-> NoList]

-----------------------------------------------------------------------------
\* The registry shared by the junctions.
Approve(s) ==
    /\ changes < MaxChanges
    /\ approved' = IF s \in approved THEN approved \ {s} ELSE approved \cup {s}
    /\ changes' = changes + 1
    /\ UNCHANGED <<tick, tries, wire, main, net, queue, received, busVars, histVars>>

-----------------------------------------------------------------------------
\* Publishing.

\* A neighbour publishes.  Its client takes the frame, or refuses it (no
\* connection) and may have queued it all the same; the adapter tries again
\* and in the end gives up.  That, and QoS 1, leave any number of copies; when
\* they arrive is for Arrives.
Publish(s) ==
    /\ tick[s] \in Ticks
    /\ \E n \in 0 .. MaxCopies : wire' = [wire EXCEPT ![<<s, tick[s]>>] = n]
    /\ tick' = [tick EXCEPT ![s] = @ + 1]
    /\ UNCHANGED <<approved, tries, main, net, queue, received, changes, busVars, histVars>>

\* Self: MessageBus.publish copies the list, then puts the longer one in its
\* place, and the frame goes out, to come back by the wildcard subscription.
\* When the client refuses, with a copy queued or not, the adapter signs and
\* publishes again, or gives up.
PublishCopies ==
    /\ main.at = "idle" /\ tick[Self] \in Ticks
    /\ main' = [at |-> "copied", list |-> published]
    /\ UNCHANGED <<approved, tick, tries, wire, net, queue, received, changes,
                   busVars, histVars>>

PublishReplaces ==
    LET f == <<Self, tick[Self]>>
        done == tries' = 0 /\ tick' = [tick EXCEPT ![Self] = @ + 1]
    IN /\ main.at = "copied"
       /\ published' = Longer(main.list, f)
       /\ \E n \in wire[f] .. MaxOwnCopies : wire' = [wire EXCEPT ![f] = n]
       /\ done \/ (tries < Retries /\ tries' = tries + 1 /\ UNCHANGED tick)
       /\ main' = Idle
       /\ UNCHANGED <<approved, net, delivered, rejected, queue, received, changes,
                      histVars>>

\* MqttBusAdapter.inbox drains the queue.
InQueue(f) == Cardinality({i \in DOMAIN queue : queue[i] = f})

Inbox ==
    /\ main.at = "idle" /\ queue # <<>>
    /\ received' = [f \in Frames |-> received[f] + InQueue(f)]
    /\ queue' = <<>>
    /\ UNCHANGED <<approved, tick, tries, wire, main, net, changes, busVars, histVars>>

-----------------------------------------------------------------------------
\* The network thread: _handle_message, verify_received.  Its steps are cut
\* where it reads or writes the list the main thread also replaces.

\* A frame arrives and the list is copied.
Arrives(f) ==
    /\ net.at = "waiting" /\ wire[f] > 0
    /\ wire' = [wire EXCEPT ![f] = @ - 1]
    /\ net' = [at |-> "copied", frame |-> f, list |-> published]
    /\ UNCHANGED <<approved, tick, tries, main, queue, received, changes, busVars, histVars>>

InjectReplaces ==
    /\ net.at = "copied"
    /\ published' = Longer(net.list, net.frame)
    /\ net' = [net EXCEPT !.at = "injected", !.list = NoList]
    /\ atRisk' = IF main.at = "copied" THEN atRisk \cup {net.frame} ELSE atRisk
    /\ UNCHANGED <<approved, tick, tries, wire, main, delivered, rejected, queue,
                   received, changes, handled>>

\* What inbox(recipient, t) looks at: the frames of this tick in the list of
\* the moment.
Scanned == {f \in Frames : published[f] > 0 /\ f[2] = net.frame[2]}

Acceptable == {f \in Scanned : f[1] \in approved /\ f \notin delivered}

\* A second copy in the same list, or one delivered before, is a replay.
Replayed ==
    {f \in Scanned : /\ f[1] \in approved
                     /\ f \in delivered \/ published[f] = 2}

TurnedDown ==
    {<<f, "not_neighbour">> : f \in {g \in Scanned : g[1] = Self}}
      \cup {<<f, "not_approved">> : f \in {g \in Scanned : g[1] \in Senders \ approved}}
      \cup {<<f, "replay">> : f \in Replayed}

\* Mutant: a delivery is looked for at the wrong place of what inbox returned.
TakesOnly(old, given) == IF given = {net.frame} THEN Append(old, net.frame) ELSE old

\* Mutant: the queue keeps the newest delivery only.
TakesLatest(old, given) == IF net.frame \in given THEN <<net.frame>> ELSE old

\* Only the frame itself is looked for among those delivered, and put into
\* the queue.
Takes(old, given) == IF net.frame \in given THEN Append(old, net.frame) ELSE old

\* Mutant: what was delivered for a tick before is not remembered.
RemembersLast(given) == (delivered \ Scanned) \cup given

Remembers(given) == delivered \cup given

\* Mutant: a frame turned down leaves no reason.
ScanKeepsQuiet ==
    /\ net.at = "injected"
    /\ delivered' = Remembers(Acceptable)
    /\ queue' = Takes(queue, Acceptable)
    /\ net' = Waiting
    /\ handled' = handled \cup {net.frame}
    /\ UNCHANGED <<approved, tick, tries, wire, published, main, rejected, received,
                   changes, atRisk>>

Scan ==
    /\ net.at = "injected"
    /\ delivered' = Remembers(Acceptable)
    /\ rejected' = rejected \cup TurnedDown
    /\ queue' = Takes(queue, Acceptable)
    /\ net' = Waiting
    /\ handled' = handled \cup {net.frame}
    /\ UNCHANGED <<approved, tick, tries, wire, published, main, received, changes, atRisk>>

-----------------------------------------------------------------------------
Init ==
    /\ approved \in SUBSET Senders
    /\ tick = [j \in Junctions |-> 1]
    /\ tries = 0
    /\ wire = [f \in Frames |-> 0]
    /\ published = NoList /\ delivered = {} /\ rejected = {}
    /\ main = Idle /\ net = Waiting
    /\ queue = <<>> /\ received = [f \in Frames |-> 0]
    /\ changes = 0 /\ handled = {} /\ atRisk = {}

Verify == InjectReplaces \/ Scan
MainThread == PublishCopies \/ PublishReplaces \/ Inbox

Next ==
    \/ \E s \in Senders : Approve(s) \/ Publish(s)
    \/ MainThread
    \/ \E f \in Frames : Arrives(f)
    \/ Verify

Spec == Init /\ [][Next]_vars

\* Both threads of Self run, its controller keeps calling inbox(), and QoS 1
\* brings a frame the broker holds for a connected client in the end.
FairSpec ==
    /\ Spec
    /\ WF_vars(Verify)
    /\ WF_vars(PublishReplaces)
    /\ SF_vars(Inbox)
    /\ \A f \in Senders \X Ticks : SF_vars(Arrives(f))

-----------------------------------------------------------------------------
HandedOver(f) == received[f] + InQueue(f)

\* Retries and QoS-1 copies are harmless: the controller gets a report once.
HandedOverOnce == \A f \in Frames : HandedOver(f) <= 1

\* A frame that was handled and is not with the controller is explained by the
\* bus's log of rejections, unless it was put into the list while Self's own
\* publish had already copied it.
NothingVanishes ==
    \A f \in handled :
        \/ f \in delivered
        \/ \E reason \in {"not_neighbour", "not_approved"} : <<f, reason>> \in rejected
        \/ f \in atRisk

\* A scan marks every frame of the tick as delivered and hands over only its
\* own; the others had been turned down when they came (their sender was not
\* approved then), or replaced lists brought them back.
SwallowedWereTurnedDown ==
    net.at = "waiting" =>
        \A f \in delivered : HandedOver(f) > 0 \/ <<f, "not_approved">> \in rejected

\* A report the broker has accepted from an approved neighbour reaches the
\* controller, unless the race of the two threads lost it.
ReportsArrive ==
    \A f \in Senders \X Ticks :
        (wire[f] > 0 /\ f[1] \in approved /\ changes = MaxChanges)
            ~> (received[f] > 0 \/ f \in atRisk \/ <<f, "not_approved">> \in rejected)
=============================================================================
