------------------------------ MODULE Membership ------------------------------
(***************************************************************************)
(* Membership from the chain to the evidence: the registry's cache         *)
(* (RegistryCache) and the bus (MessageBus) that asks the cache about      *)
(* every message, with the audit record that a decision writes of every    *)
(* message it consumed (log_messages of src/audit_records.py).             *)
(*                                                                         *)
(* The threads that refresh run beside the one that decides, which reads   *)
(* the cache four times for one message: its key, whether the sender is    *)
(* approved, the log if it is not, and the key once more for the record.   *)
(***************************************************************************)
EXTENDS RegistryCache, SequencesExt

CONSTANTS
    Recipient,      \* the junction that reads; the agents are its neighbours
    MaxPublished,   \* bound: messages
    MaxJudged       \* bound: no call of inbox() begins after so many verdicts

ASSUME MembershipAssumption == Recipient \notin Agents

VARIABLES
    published, delivered, rejected, logged, scanPos, pc, scan, judged,
    consumed,   \* messages that inbox() returned and that have no record yet
    records     \* audit log: <<message, sender_pubkey_der>>

Junctions == Agents \cup {Recipient}

\* RegistryService.audit_log as the bus sees it.
AuditLog ==
    LET places == SetToSortSeq(DOMAIN cache.audit, <)
    IN [n \in DOMAIN places |->
           [action |-> chain[places[n]].action, junction |-> chain[places[n]].agent]]

Bus == INSTANCE MessageBus WITH
            Neighbours <- [j \in Junctions |-> IF j = Recipient THEN Agents ELSE {}],
            None <- NoKey, Ticks <- 1 .. MaxPublished, Filters <- {0}, Live <- TRUE,
            MaxChanges <- MaxEvents,
            approved <- cache.approved, log <- AuditLog

registry == vars
bus == <<published, delivered, rejected, logged, scanPos, pc, scan, judged>>
trail == <<consumed, records>>
allVars == <<registry, bus, trail>>

-----------------------------------------------------------------------------
\* The process starts with an empty bus and an empty log.
NewProcess ==
    /\ published' = <<>> /\ delivered' = {} /\ rejected' = <<>> /\ logged' = {}
    /\ scanPos' = [j \in Junctions |-> 0] /\ pc' = "idle" /\ scan' = Bus!NoScan
    /\ judged' = <<>> /\ consumed' = {} /\ records' = {}

ChainMoves ==
    /\ ChainNext
    /\ UNCHANGED <<cacheVars, bus, trail>>

Poll == (\E r \in Refreshers : Refresh(r)) /\ UNCHANGED <<bus, trail>>

Restart == Crash /\ NewProcess

\* Junctions sign with any key they ever had, or will have; ticks go up.
Publish ==
    /\ consumed = {}
    /\ UNCHANGED <<registry, trail>>
    /\ \E a \in Agents, k \in Keys : Bus!Publish(a, k, Len(published) + 1)

DecisionBegins ==
    /\ started /\ consumed = {}
    /\ UNCHANGED <<registry, trail>>
    /\ Bus!InboxBegins(Recipient, 0)

Scan ==
    /\ UNCHANGED <<registry, records>>
    /\ Bus!ScanStep
    /\ consumed' = consumed \cup {m \in DOMAIN published :
                       <<Recipient, published[m].sender, published[m].t>>
                           \in delivered' \ delivered}

\* log_messages(): the messages of the call in turn, each with the key that
\* the registry has for its sender by now.
Record ==
    /\ pc = "idle" /\ consumed # {}
    /\ LET m == Min(consumed)
       IN /\ records' = records \cup {<<m, cache.approved[published[m].sender]>>}
          /\ consumed' = consumed \ {m}
    /\ UNCHANGED <<registry, bus>>

-----------------------------------------------------------------------------
MembershipInit ==
    /\ Init
    /\ published = <<>> /\ delivered = {} /\ rejected = <<>> /\ logged = {}
    /\ scanPos = [j \in Junctions |-> 0] /\ pc = "idle" /\ scan = Bus!NoScan
    /\ judged = <<>> /\ consumed = {} /\ records = {}

MembershipNext ==
    \/ ChainMoves \/ Poll \/ Restart
    \/ Publish \/ DecisionBegins \/ Scan \/ Record

MembershipSpec == MembershipInit /\ [][MembershipNext]_allVars

-----------------------------------------------------------------------------
\* A message is acted on only if its sender was approved on the chain at a head
\* no older than the refresh behind the snapshot of the verdict: a revocation
\* sealed when that refresh began keeps the sender out, although its key was
\* read before, and the snapshot itself in several queries.
RevokedNotHeard ==
    [][\A n \in DOMAIN judged' \ DOMAIN judged :
          judged'[n].verdict = "delivered" =>
              \E h \in floor .. head : KeyAt(published[judged'[n].msg].sender, h) # NoKey
      ]_allVars

\* Agents whose only event is the registration of this key.
Steady(a, k) ==
    \E i \in DOMAIN chain :
        /\ {j \in DOMAIN chain : chain[j].agent = a} = {i}
        /\ chain[i].action = "register" /\ chain[i].key = k

HeardBefore(n, a) ==
    \E m \in 1 .. n - 1 : judged[m].verdict = "delivered"
                            /\ published[judged[m].msg].sender = a

\* An agent that keeps its key and was heard once stays heard, and what is put
\* on record of its messages is the key that verifies them: neither polls that
\* fail or are outrun by the chain nor the events of others come in between.
SteadySenderHeard ==
    \A a \in Agents, k \in Keys : Steady(a, k) =>
        /\ \A n \in DOMAIN judged :
              LET m == published[judged[n].msg]
              IN m.sender = a /\ m.key = k /\ HeardBefore(n, a) =>
                    judged[n].verdict \in {"delivered", "replay"}
        /\ \A r \in records : published[r[1]].sender = a => r[2] = k
=============================================================================
