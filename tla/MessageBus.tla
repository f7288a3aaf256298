----------------------------- MODULE MessageBus -----------------------------
(***************************************************************************)
(* The signed bus between neighbouring junctions (src/message_bus.py) and  *)
(* the registry it asks (src/registry.py; RegistryService gives the same   *)
(* answers from its cache, see RegistryCache).                             *)
(*                                                                         *)
(* A message is known by its place in the list of published messages.  Of  *)
(* its signature the key it was made with is kept, of the registry's log   *)
(* what happened to whom.  The list of messages only grows, so inbox()     *)
(* never takes its rescan of a replaced list.                              *)
(***************************************************************************)
EXTENDS Integers, Sequences, FiniteSets

CONSTANTS
    Junctions,
    Neighbours,     \* the adjacency, a set of junctions for each junction
    Keys,           \* identity keys
    None,           \* Python's None
    Ticks,          \* bound: ticks of messages, all positive
    Filters,        \* the argument t of the calls of inbox(), 0 for None
    Live,           \* TRUE: a registry cache, which another thread swaps
                    \* while a call of inbox() runs
    MaxPublished,   \* bound: messages
    MaxChanges,     \* bound: events of the registry
    MaxJudged       \* bound: no call of inbox() begins after so many verdicts

ASSUME BusAssumption ==
    /\ None \notin Keys \cup Junctions
    /\ Neighbours \in [Junctions -> SUBSET Junctions]
    /\ Ticks \subseteq Nat \ {0}
    /\ Filters \subseteq Ticks \cup {0}
    /\ Live \in BOOLEAN
    /\ {MaxPublished, MaxChanges, MaxJudged} \subseteq Nat

NoScan == [to |-> None, filter |-> 0, next |-> 1, pin |-> 0, key |-> None]

Permanent == {"unknown_sender", "revoked", "bad_signature", "not_neighbour"}
Verdicts == Permanent \cup {"replay", "delivered"}

VARIABLES
    approved,   \* Registry._approved: the key of each junction, or None
    log,        \* Registry._log
    published,  \* _published
    delivered,  \* _delivered: <<recipient, sender, tick>>
    rejected,   \* _rejected: <<recipient, sender, tick, reason>>
    logged,     \* _reject_logged and _replay_logged: what rejected holds
    scanPos,    \* _scan_pos: messages a recipient is done with
    pc,         \* where the call of inbox() is
    scan,       \* its locals
    judged      \* history: every verdict, in order, and whether of a full scan

registryVars == <<approved, log>>
vars == <<approved, log, published, delivered, rejected, logged, scanPos, pc,
          scan, judged>>

-----------------------------------------------------------------------------
\* The registry.

WasEverRegistered(j) ==
    \E n \in DOMAIN log : log[n] = [action |-> "register", junction |-> j]

RegistryIsFree == (pc = "idle" \/ Live) /\ Len(log) < MaxChanges

Register(j, k) ==
    /\ RegistryIsFree
    /\ approved' = [approved EXCEPT ![j] = k]
    /\ log' = Append(log, [action |-> "register", junction |-> j])
    /\ UNCHANGED <<published, delivered, rejected, logged, scanPos, pc, scan, judged>>

\* A revoked junction may be revoked again.
Revoke(j) ==
    /\ RegistryIsFree
    /\ WasEverRegistered(j)
    /\ approved' = [approved EXCEPT ![j] = None]
    /\ log' = Append(log, [action |-> "revoke", junction |-> j])
    /\ UNCHANGED <<published, delivered, rejected, logged, scanPos, pc, scan, judged>>

-----------------------------------------------------------------------------
\* j signs with the key of its identity.  No check of the registry here.
Publish(j, k, t) ==
    /\ pc = "idle" /\ Len(published) < MaxPublished
    /\ published' = Append(published, [sender |-> j, t |-> t, key |-> k])
    /\ UNCHANGED <<approved, log, delivered, rejected, logged, scanPos, pc, scan, judged>>

-----------------------------------------------------------------------------
\* inbox(r, f), one message after the other.  pin is what the cursor will be.

InboxBegins(r, f) ==
    /\ pc = "idle" /\ Len(judged) < MaxJudged
    /\ pc' = "scanning"
    /\ scan' = [to |-> r, filter |-> f,
                next |-> IF f = 0 THEN scanPos[r] + 1 ELSE 1,
                pin |-> Len(published), key |-> None]
    /\ UNCHANGED <<approved, log, published, delivered, rejected, logged, scanPos, judged>>

AtMessage == pc = "scanning" /\ scan.next <= Len(published)
Message == published[scan.next]
IsForThisTick == scan.filter = 0 \/ Message.t = scan.filter
Token(m) == <<scan.to, m.sender, m.t>>

\* The call goes on with the next message.
Advance == pc' = "scanning" /\ scan' = [scan EXCEPT !.next = @ + 1]

Judge(verdict) ==
    judged' = Append(judged, [to |-> scan.to, msg |-> scan.next, verdict |-> verdict,
                              full |-> scan.filter = 0])

\* _reject_once, and the same for a replay.
RejectOnce(reason) ==
    LET entry == <<scan.to, Message.sender, Message.t, reason>>
    IN /\ logged' = logged \cup {entry}
       /\ rejected' = IF entry \in logged THEN rejected ELSE Append(rejected, entry)

Skip ==
    /\ AtMessage /\ ~IsForThisTick
    /\ Advance
    /\ UNCHANGED <<approved, log, published, delivered, rejected, logged, scanPos, judged>>

NotNeighbour ==
    /\ AtMessage /\ IsForThisTick
    /\ Message.sender \notin Neighbours[scan.to]
    /\ RejectOnce("not_neighbour") /\ Judge("not_neighbour")
    /\ Advance
    /\ UNCHANGED <<approved, log, published, delivered, scanPos>>

\* The registry is asked twice: for the key, then whether the sender is
\* approved (and for its log: between these two nothing new can be seen).
ReadPublicKey ==
    /\ AtMessage /\ IsForThisTick
    /\ Message.sender \in Neighbours[scan.to]
    /\ scan' = [scan EXCEPT !.key = approved[Message.sender]]
    /\ pc' = "judging"
    /\ UNCHANGED <<approved, log, published, delivered, rejected, logged, scanPos, judged>>

\* Mutant: whoever had a key is taken to be approved.
IsMemberByKey == scan.key # None

IsMember == scan.key # None /\ approved[Message.sender] # None
IsSigned == Message.key = scan.key

RejectSender ==
    LET reason == IF WasEverRegistered(Message.sender) THEN "revoked"
                  ELSE "unknown_sender"
    IN /\ pc = "judging" /\ ~IsMember
       /\ RejectOnce(reason) /\ Judge(reason)
       /\ Advance
       /\ UNCHANGED <<approved, log, published, delivered, scanPos>>

RejectSignature ==
    /\ pc = "judging" /\ IsMember /\ ~IsSigned
    /\ RejectOnce("bad_signature") /\ Judge("bad_signature")
    /\ Advance
    /\ UNCHANGED <<approved, log, published, delivered, scanPos>>

\* Mutant: a replayed message is logged and delivered all the same.
RejectReplayLax ==
    /\ pc = "judging" /\ IsMember /\ IsSigned /\ Token(Message) \in delivered
    /\ RejectOnce("replay") /\ Judge("delivered")
    /\ Advance
    /\ UNCHANGED <<approved, log, published, delivered, scanPos>>

RejectReplay ==
    /\ pc = "judging" /\ IsMember /\ IsSigned /\ Token(Message) \in delivered
    /\ RejectOnce("replay") /\ Judge("replay")
    /\ Advance
    /\ UNCHANGED <<approved, log, published, delivered, scanPos>>

\* Mutant: the cursor is not pinned at a message just delivered.
DeliverUnpinned ==
    /\ pc = "judging" /\ IsMember /\ IsSigned /\ Token(Message) \notin delivered
    /\ delivered' = delivered \cup {Token(Message)}
    /\ Judge("delivered")
    /\ Advance
    /\ UNCHANGED <<approved, log, published, rejected, logged, scanPos>>

\* The cursor is pinned at the first message delivered, for a later call to
\* meet it again and log its replay.
Deliver ==
    /\ pc = "judging" /\ IsMember /\ IsSigned /\ Token(Message) \notin delivered
    /\ delivered' = delivered \cup {Token(Message)}
    /\ Judge("delivered")
    /\ pc' = "scanning"
    /\ scan' = [scan EXCEPT !.next = @ + 1,
                            !.pin = IF scan.filter = 0 /\ @ = Len(published)
                                    THEN scan.next - 1 ELSE @]
    /\ UNCHANGED <<approved, log, published, rejected, logged, scanPos>>

\* Mutant: also a call for one tick moves the cursor.
InboxReturnsMoving ==
    /\ pc = "scanning" /\ scan.next > Len(published)
    /\ pc' = "idle" /\ scan' = NoScan
    /\ scanPos' = [scanPos EXCEPT ![scan.to] = scan.pin]
    /\ UNCHANGED <<approved, log, published, delivered, rejected, logged, judged>>

\* Mutant: the cursor stays when something was delivered.
InboxReturnsStaying ==
    /\ pc = "scanning" /\ scan.next > Len(published)
    /\ pc' = "idle" /\ scan' = NoScan
    /\ scanPos' = IF scan.filter = 0 /\ scan.pin = Len(published)
                  THEN [scanPos EXCEPT ![scan.to] = scan.pin] ELSE scanPos
    /\ UNCHANGED <<approved, log, published, delivered, rejected, logged, judged>>

\* Mutant: the cursor is one too far.
InboxReturnsPast ==
    /\ pc = "scanning" /\ scan.next > Len(published)
    /\ pc' = "idle" /\ scan' = NoScan
    /\ scanPos' = IF scan.filter = 0 THEN [scanPos EXCEPT ![scan.to] = scan.pin + 1]
                  ELSE scanPos
    /\ UNCHANGED <<approved, log, published, delivered, rejected, logged, judged>>

InboxReturns ==
    /\ pc = "scanning" /\ scan.next > Len(published)
    /\ pc' = "idle" /\ scan' = NoScan
    /\ scanPos' = IF scan.filter = 0 THEN [scanPos EXCEPT ![scan.to] = scan.pin]
                  ELSE scanPos
    /\ UNCHANGED <<approved, log, published, delivered, rejected, logged, judged>>

-----------------------------------------------------------------------------
Init ==
    /\ approved = [j \in Junctions |-> None] /\ log = <<>>
    /\ published = <<>> /\ delivered = {} /\ rejected = <<>> /\ logged = {}
    /\ scanPos = [j \in Junctions |-> 0]
    /\ pc = "idle"
    /\ scan = NoScan
    /\ judged = <<>>

ScanStep ==
    \/ Skip \/ NotNeighbour \/ ReadPublicKey
    \/ RejectSender \/ RejectSignature \/ RejectReplay \/ Deliver
    \/ InboxReturns

Next ==
    \/ \E j \in Junctions, k \in Keys : Register(j, k)
    \/ \E j \in Junctions : Revoke(j)
    \/ \E j \in Junctions, k \in Keys, t \in Ticks : Publish(j, k, t)
    \/ \E r \in Junctions, f \in Filters : InboxBegins(r, f)
    \/ ScanStep

Spec == Init /\ [][Next]_vars

-----------------------------------------------------------------------------
Positions == 1 .. Len(published)

TypeOK ==
    /\ approved \in [Junctions -> Keys \cup {None}]
    /\ log \in Seq([action : {"register", "revoke"}, junction : Junctions])
    /\ published \in Seq([sender : Junctions, t : Ticks, key : Keys])
    /\ delivered \subseteq Junctions \X Junctions \X Ticks
    /\ rejected \in Seq(Junctions \X Junctions \X Ticks \X Verdicts)
    /\ logged \subseteq Junctions \X Junctions \X Ticks \X Verdicts
    /\ scanPos \in [Junctions -> Nat]
    /\ \A r \in Junctions : scanPos[r] <= Len(published)
    /\ pc \in {"idle", "scanning", "judging"}
    /\ scan \in [to : Junctions \cup {None}, filter : Filters \cup {0}, next : Nat \ {0}, pin : Nat,
                 key : Keys \cup {None}]
    /\ pc # "idle" => scan.to # None
    /\ pc # "idle" => scan.next <= Len(published) + 1 /\ scan.pin <= Len(published)
    /\ pc = "judging" => scan.next <= Len(published)
    /\ judged \in Seq([to : Junctions, msg : Positions, verdict : Verdicts, full : BOOLEAN])

SameToken(i, j) == published[i].sender = published[j].sender /\ published[i].t = published[j].t

\* A recipient acts on one report at most of a sender for a tick, however its
\* calls, revocations, new keys and repeated ticks follow each other.
AtMostOnce ==
    \A m, n \in DOMAIN judged :
        /\ {judged[m].verdict, judged[n].verdict} = {"delivered"}
        /\ judged[m].to = judged[n].to
        /\ SameToken(judged[m].msg, judged[n].msg)
        => m = n

JudgedFor(r, i) == \E n \in DOMAIN judged : judged[n].to = r /\ judged[n].msg = i

\* The cursor leaves no message behind that its recipient has not judged,
\* also when calls for one tick come between the others.
NothingMissed ==
    \A r \in Junctions : \A i \in 1 .. scanPos[r] : JudgedFor(r, i)

\* A message that a full scan delivered is met once more before the cursor
\* leaves it behind ("a freshly delivered message must remain re-scannable"),
\* and of a sender's tick one replay at most is put on record.
DeliveredMetAgain ==
    \A n \in DOMAIN judged :
        LET r == judged[n].to   i == judged[n].msg
            replay == <<r, published[i].sender, published[i].t, "replay">>
        IN judged[n].verdict = "delivered" /\ judged[n].full /\ i <= scanPos[r] =>
              \E m \in DOMAIN judged :
                  /\ m > n /\ judged[m].to = r /\ judged[m].msg = i
                  /\ judged[m].verdict = "replay" =>
                        Cardinality({p \in DOMAIN rejected : rejected[p] = replay}) = 1

FullScans(r, i) ==
    Cardinality({n \in DOMAIN judged :
                    judged[n].full /\ judged[n].to = r /\ judged[n].msg = i})
Registrations == Cardinality({n \in DOMAIN log : log[n].action = "register"})

\* The cursor keeps the cost linear: full scans look at a message once, and
\* once again for every registration at most (each may free one that was
\* turned down before, at which the cursor is then pinned).
ScansBounded ==
    \A r \in Junctions, i \in Positions : FullScans(r, i) <= 1 + Registrations
=============================================================================
