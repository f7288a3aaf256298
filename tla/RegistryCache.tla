---------------------------- MODULE RegistryCache ----------------------------
(***************************************************************************)
(* The read side of RegistryService (src/registry_service.py): an          *)
(* in-memory copy of the chain's registry that threads of the process      *)
(* refresh and the control path reads without I/O.                         *)
(*                                                                         *)
(* A refresh captures the current snapshot, reads the new events and folds *)
(* them in.  Over a Besu node (Source = "besu", BesuEventSource) the read  *)
(* is several queries, each answered at the head of its moment: the        *)
(* register logs, the revoke logs, then the current key of every new       *)
(* register.  Over an in-memory source (Source = "snapshot", as in         *)
(* tests/test_registry_service.py) it is a single step.                    *)
(*                                                                         *)
(* A snapshot's audit_log is a function from the events it holds to the    *)
(* key whose fingerprint it records; its order is that of the events.      *)
(* known is left out: it is the agents of the registers in the log.        *)
(***************************************************************************)
EXTENDS RegistryChain

CONSTANTS
    Refreshers,     \* threads that refresh: the poller, callers of refresh()
    Starter,        \* the refresher that calls start()
    Source          \* "besu" or "snapshot"

ASSUME CacheAssumption ==
    Starter \in Refreshers /\ Source \in {"besu", "snapshot"}

VARIABLES
    cache,      \* _state: the snapshot the control path reads
    connected,  \* _connected
    started,    \* _started
    rd,         \* what each refresher's running refresh has read so far
    floor       \* history: the head when the refresh that made cache began

cacheVars == <<cache, connected, started, rd, floor>>
vars == <<chain, head, cache, connected, started, rd, floor>>

EmptyCache ==
    [approved |-> [a \in Agents |-> NoKey], audit |-> <<>>, nextBlock |-> 0]

Idle == [pc |-> "idle", base |-> EmptyCache, since |-> 0, upto |-> 0,
         found |-> {}, keys |-> <<>>]

-----------------------------------------------------------------------------
\* The fold of a refresh.

\* Events not strictly newer than the last one in the log are skipped.
NewEvents(base, found) ==
    {i \in found : \A j \in DOMAIN base.audit : j < i}

\* Mutant: a revoke is logged but the agent stays approved.
EffectiveRegistersOnly(a, new, keys) ==
    {i \in new \cap Registers : chain[i].agent = a /\ keys[i] # NoKey}

\* The events of agent a that change what is approved: a register whose key
\* could not be recovered is logged but approves nobody.
Effective(a, new, keys) ==
    {i \in new : /\ chain[i].agent = a
                 /\ i \in Registers => keys[i] # NoKey}

\* Mutant: the new events alone make the snapshot.
ApprovedAfterAnew(base, new, keys) ==
    [a \in Agents |->
        LET es == Effective(a, new, keys)
        IN IF es = {} \/ Max(es) \in Revokes THEN NoKey ELSE keys[Max(es)]]

ApprovedAfter(base, new, keys) ==
    [a \in Agents |->
        LET es == Effective(a, new, keys)
        IN IF es = {} THEN base.approved[a]
           ELSE IF Max(es) \in Revokes THEN NoKey ELSE keys[Max(es)]]

\* Mutant: one past the last block of the chain.
NextBlockOfHead(base, new) == head + 1

\* One past the highest block ingested.
NextBlock(base, new) == Max({base.nextBlock} \cup {chain[i].block + 1 : i \in new})

AuditAfter(base, new, keys) ==
    [i \in DOMAIN base.audit \cup new |->
        IF i \notin new THEN base.audit[i]
        ELSE IF i \in Registers THEN keys[i] ELSE NoKey]

Fold(base, found, keys) ==
    LET new == NewEvents(base, found)
    IN [approved |-> ApprovedAfter(base, new, keys),
        audit |-> AuditAfter(base, new, keys),
        nextBlock |-> NextBlock(base, new)]

-----------------------------------------------------------------------------
\* The steps of one refresh by thread r.

\* start() replays from nothing, refresh() and the poller from the snapshot.
Begin(r) ==
    /\ rd[r].pc = "idle"
    /\ started \/ r = Starter
    /\ rd' = [rd EXCEPT ![r] =
                [pc |-> "registers",
                 base |-> IF started THEN cache ELSE EmptyCache,
                 since |-> head, upto |-> 0, found |-> {}, keys |-> <<>>]]
    /\ UNCHANGED <<chain, head, cache, connected, started, floor>>

ReadRegisters(r) ==
    /\ Source = "besu" /\ rd[r].pc = "registers"
    /\ rd' = [rd EXCEPT ![r].pc = "revokes", ![r].upto = head]
    /\ UNCHANGED <<chain, head, cache, connected, started, floor>>

\* Mutant: the revoke logs are queried first.
ReadRevokesFirst(r) ==
    /\ rd[r].pc = "revokes"
    /\ rd' = [rd EXCEPT
                ![r].pc = "keys",
                ![r].found = (Sealed(rd[r].base.nextBlock, head) \cap Registers)
                        \cup (Sealed(rd[r].base.nextBlock, rd[r].upto) \cap Revokes)]
    /\ UNCHANGED <<chain, head, cache, connected, started, floor>>

\* The two answers are merged in chain order; blocks below next_block drop.
ReadRevokes(r) ==
    /\ rd[r].pc = "revokes"
    /\ rd' = [rd EXCEPT
                ![r].pc = "keys",
                ![r].found = (Sealed(rd[r].base.nextBlock, rd[r].upto) \cap Registers)
                        \cup (Sealed(rd[r].base.nextBlock, head) \cap Revokes)]
    /\ UNCHANGED <<chain, head, cache, connected, started, floor>>

Unread(r) == (rd[r].found \cap Registers) \ DOMAIN rd[r].keys

\* public_key() of the next register: the key of the moment, not the event's.
ReadKey(r) ==
    /\ rd[r].pc = "keys" /\ Unread(r) # {}
    /\ LET i == Min(Unread(r))
           k == KeyAt(chain[i].agent, head)
       IN rd' = [rd EXCEPT ![r].keys =
                    [j \in DOMAIN @ \cup {i} |-> IF j = i THEN k ELSE @[j]]]
    /\ UNCHANGED <<chain, head, cache, connected, started, floor>>

\* An in-memory source answers at once, each event with its own key.
ReadSnapshot(r) ==
    /\ Source = "snapshot" /\ rd[r].pc = "registers"
    /\ LET found == Sealed(rd[r].base.nextBlock, head)
       IN rd' = [rd EXCEPT ![r] =
                    [pc |-> "keys", base |-> rd[r].base, since |-> rd[r].since,
                     upto |-> head, found |-> found,
                     keys |-> [i \in found \cap Registers |-> chain[i].key]]]
    /\ UNCHANGED <<chain, head, cache, connected, started, floor>>

\* Registers without a key get the one in their log entry, if the raw logs
\* can be read; the new snapshot is built and replaces the current one.
Swap(r) ==
    /\ rd[r].pc = "keys" /\ Unread(r) = {}
    /\ \E backfilled \in BOOLEAN :
         LET keys == [i \in DOMAIN rd[r].keys |->
                        IF backfilled /\ rd[r].keys[i] = NoKey
                        THEN chain[i].key ELSE rd[r].keys[i]]
         IN cache' = Fold(rd[r].base, rd[r].found, keys)
    /\ connected' = TRUE
    /\ started' = TRUE
    /\ rd' = [rd EXCEPT ![r] = Idle]
    /\ floor' = rd[r].since
    /\ UNCHANGED chainVars

\* A query raises: the snapshot stays, start() gives up.
ReadFails(r) ==
    /\ \/ rd[r].pc \in {"registers", "revokes"}
       \/ rd[r].pc = "keys" /\ Source = "besu" /\ Unread(r) # {}
    /\ connected' = IF started THEN FALSE ELSE connected
    /\ rd' = [rd EXCEPT ![r] = Idle]
    /\ UNCHANGED <<chain, head, cache, started, floor>>

\* The process dies; nothing of the service is persistent.
Crash ==
    /\ started
    /\ cache' = EmptyCache /\ connected' = FALSE /\ started' = FALSE
    /\ rd' = [r \in Refreshers |-> Idle]
    /\ UNCHANGED <<chain, head, floor>>

-----------------------------------------------------------------------------
Init ==
    /\ ChainInit
    /\ cache = EmptyCache /\ connected = FALSE /\ started = FALSE
    /\ rd = [r \in Refreshers |-> Idle]
    /\ floor = 0

Refresh(r) ==
    \/ Begin(r) \/ ReadRegisters(r) \/ ReadRevokes(r) \/ ReadKey(r)
    \/ ReadSnapshot(r) \/ Swap(r) \/ ReadFails(r)

Next ==
    \/ ChainNext /\ UNCHANGED cacheVars
    \/ \E r \in Refreshers : Refresh(r)
    \/ Crash

Spec == Init /\ [][Next]_vars

\* The poller calls refresh again and again, and the node answers each kind
\* of query again and again.
FairSpec ==
    /\ Spec
    /\ \A r \in Refreshers :
         /\ WF_vars(Begin(r))
         /\ SF_vars(ReadRegisters(r)) /\ SF_vars(ReadRevokes(r))
         /\ SF_vars(ReadKey(r)) /\ SF_vars(ReadSnapshot(r))
         /\ SF_vars(Swap(r))

-----------------------------------------------------------------------------
\* No refresh ever passes over a revocation, although the register logs and
\* the revoke logs are read at different heads and refreshes may overtake
\* each other: whatever snapshot is installed, every revocation below its
\* next_block is in its log (audit_log reads the registers first).
NoRevocationMissed ==
    \A i \in Revokes : chain[i].block < cache.nextBlock => i \in DOMAIN cache.audit

\* A revocation on the chain when a refresh began is in force in the snapshot
\* which that refresh installs: an agent shown as approved has been approved
\* at the head of that moment or later, although its key and the two kinds of
\* events are read at other moments and the base may be long out of date.
RevocationLasts ==
    \A a \in Agents :
        cache.approved[a] # NoKey => \E h \in floor .. head : KeyAt(a, h) # NoKey

\* Over a source that answers in one step, with one refreshing thread, the
\* cache is the registry of one sealed block, and never goes back.
View == INSTANCE RegistryView WITH
            approved <- cache.approved,
            at <- IF cache.nextBlock = 0 THEN 0 ELSE cache.nextBlock - 1

CacheIsAView == View!ViewSpec

\* ... and if the chain goes quiet, the cache catches up with all of it.
Reflects == \A a \in Agents : cache.approved[a] = KeyAt(a, head)

CatchesUp == []<>Reflects
=============================================================================
