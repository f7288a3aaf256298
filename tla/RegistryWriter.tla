--------------------------- MODULE RegistryWriter ---------------------------
(***************************************************************************)
(* The write side and the lifecycle of RegistryService                     *)
(* (src/registry_service.py): register() and revoke() hand a job to a      *)
(* worker thread and return a PendingWrite at once; with no worker they    *)
(* run the job inline.  flush() waits for the jobs, start() and close()    *)
(* bring the worker up and down.                                           *)
(*                                                                         *)
(* Writes are numbered in the order their handles are created; what they   *)
(* write is not told apart.  The source is a Besu chain (BesuSender).  The *)
(* poller is left out (see RegistryCache).                                 *)
(***************************************************************************)
EXTENDS BesuSender, SequencesExt

CONSTANTS
    Callers,        \* threads that call the service
    MaxWrites,      \* bound: writes ever submitted
    MaxStarts,      \* bound: successful calls of start()
    AutoFlush,      \* ctor argument auto_flush
    Reopens,        \* FALSE: nobody calls start() after a close()
    JoinMayTimeOut  \* TRUE: a job may take longer than close() waits (5 s)

ASSUME WriterAssumption ==
    /\ MaxWrites \in Nat /\ MaxStarts \in Nat /\ Callers \cap Nat = {}
    /\ {AutoFlush, Reopens, JoinMayTimeOut} \subseteq BOOLEAN

Writes == 1 .. MaxWrites
Workers == 1 .. MaxStarts       \* worker threads, in order of creation

VARIABLES
    started,    \* _started
    stop,       \* the _stop event
    worker,     \* _worker_thread, 0 for None
    queue,      \* _write_queue
    inFlight,   \* _in_flight, 0 for None
    thread,     \* where each worker thread is, and its job
    pc,         \* where each caller is: "idle" between calls, and "flushed"
                \* if its last call is a flush() that returned
    arg,        \* each caller's local: its write, joined thread or handles
    owner,      \* history: the caller of each write, in submission order
    outcome,    \* the resolution of each handle
    abandoned   \* history: close() gave up on a worker that had work left

vars == <<started, stop, worker, queue, inFlight, thread, pc, arg, owner,
          outcome, abandoned, senderVars>>

Resolved == {"committed", "failed"}
NotCalling(c) == pc[c] \in {"idle", "flushed"}
Goto(c, place, local) ==
    /\ pc' = [pc EXCEPT ![c] = place]
    /\ arg' = [arg EXCEPT ![c] = local]

-----------------------------------------------------------------------------
\* _run_job of write h in thread e goes on, without or with a resolution.
JobGoesOn(e, h) == Sending(e, h) /\ UNCHANGED outcome

JobResolves(e, h) ==
    \/ Succeeds(e) /\ outcome' = [outcome EXCEPT ![h] = "committed"]
    \/ Raises(e, h) /\ outcome' = [outcome EXCEPT ![h] = "failed"]

-----------------------------------------------------------------------------
\* Worker thread w.

\* Mutant: the newest job is taken.
TakeNewest(w) ==
    /\ thread[w].at = "waiting" /\ queue # <<>>
    /\ thread' = [thread EXCEPT ![w] = [at |-> "running", job |-> Last(queue)]]
    /\ queue' = Front(queue)
    /\ inFlight' = Last(queue)
    /\ UNCHANGED <<started, stop, worker, pc, arg, owner, outcome, abandoned, senderVars>>

\* Mutant: the job leaves the queue before it is marked as in flight.
TakeUnmarked(w) ==
    /\ thread[w].at = "waiting" /\ queue # <<>>
    /\ thread' = [thread EXCEPT ![w] = [at |-> "running", job |-> Head(queue)]]
    /\ queue' = Tail(queue)
    /\ UNCHANGED <<started, stop, worker, inFlight, pc, arg, owner, outcome, abandoned, senderVars>>

Take(w) ==
    /\ thread[w].at = "waiting" /\ queue # <<>>
    /\ thread' = [thread EXCEPT ![w] = [at |-> "running", job |-> Head(queue)]]
    /\ queue' = Tail(queue)
    /\ inFlight' = Head(queue)
    /\ UNCHANGED <<started, stop, worker, pc, arg, owner, outcome, abandoned, senderVars>>

Run(w) ==
    /\ thread[w].at = "running"
    /\ \/ JobGoesOn(w, thread[w].job) /\ UNCHANGED thread
       \/ /\ JobResolves(w, thread[w].job)
          /\ thread' = [thread EXCEPT ![w].at = "clearing"]
    /\ UNCHANGED <<started, stop, worker, queue, inFlight, pc, arg, owner, abandoned>>

Clear(w) ==
    /\ thread[w].at = "clearing"
    /\ inFlight' = 0
    /\ thread' = [thread EXCEPT ![w] = [at |-> "waiting", job |-> 0]]
    /\ UNCHANGED <<started, stop, worker, queue, pc, arg, owner, outcome, abandoned, senderVars>>

\* Mutant: the worker stops without draining the queue.
ExitAtOnce(w) ==
    /\ thread[w].at = "waiting" /\ stop
    /\ thread' = [thread EXCEPT ![w].at = "exited"]
    /\ UNCHANGED <<started, stop, worker, queue, inFlight, pc, arg, owner,
                   outcome, abandoned, senderVars>>

Exit(w) ==
    /\ thread[w].at = "waiting" /\ stop /\ queue = <<>>
    /\ thread' = [thread EXCEPT ![w].at = "exited"]
    /\ UNCHANGED <<started, stop, worker, queue, inFlight, pc, arg, owner,
                   outcome, abandoned, senderVars>>

-----------------------------------------------------------------------------
\* Calls of caller c.

\* start(): the service counts as started during the initial replay (see
\* RegistryCache), which may fail; then the worker is made.  _stop is not
\* cleared.
Start(c) ==
    /\ NotCalling(c) /\ ~started
    /\ stop => Reopens
    /\ started' = TRUE
    /\ Goto(c, "starting", <<>>)
    /\ UNCHANGED <<stop, worker, queue, inFlight, thread, owner, outcome, abandoned, senderVars>>

StartFails(c) ==
    /\ pc[c] = "starting"
    /\ started' = FALSE
    /\ Goto(c, "idle", <<>>)
    /\ UNCHANGED <<stop, worker, queue, inFlight, thread, owner, outcome, abandoned, senderVars>>

StartSpawns(c) ==
    /\ pc[c] = "starting"
    /\ \E w \in Workers :
         /\ thread[w].at = "unborn"
         /\ \A v \in Workers : v < w => thread[v].at # "unborn"
         /\ thread' = [thread EXCEPT ![w].at = "waiting"]
         /\ worker' = w
    /\ Goto(c, "idle", <<>>)
    /\ UNCHANGED <<started, stop, queue, inFlight, owner, outcome, abandoned, senderVars>>

\* close(): signal the threads, then join the worker.
CloseSignals(c) ==
    /\ NotCalling(c)
    /\ stop' = TRUE
    /\ Goto(c, "joining", <<worker>>)
    /\ UNCHANGED <<started, worker, queue, inFlight, thread, owner, outcome, abandoned, senderVars>>

CloseJoins(c) ==
    /\ pc[c] = "joining"
    /\ LET w == arg[c][1]
       IN w # 0 => \/ thread[w].at = "exited"
                   \/ JoinMayTimeOut /\ thread[w].at = "running"
    /\ abandoned' = (\/ abandoned
                     \/ arg[c][1] # 0 /\ thread[arg[c][1]].at # "exited")
    /\ worker' = 0 /\ started' = FALSE
    /\ Goto(c, "idle", <<>>)
    /\ UNCHANGED <<stop, queue, inFlight, thread, owner, outcome, senderVars>>

\* register() or revoke(): the handle is created and _enqueue looks for a
\* worker, then appends the job under the lock or runs it inline.
Submit(c) ==
    /\ NotCalling(c) /\ Len(owner) < MaxWrites
    /\ owner' = Append(owner, c)
    /\ Goto(c, IF ~AutoFlush \/ worker = 0 THEN "inline" ELSE "appending",
            <<Len(owner) + 1>>)
    /\ UNCHANGED <<started, stop, worker, queue, inFlight, thread, outcome, abandoned, senderVars>>

AppendJob(c) ==
    /\ pc[c] = "appending"
    /\ queue' = Append(queue, arg[c][1])
    /\ Goto(c, "idle", <<>>)
    /\ UNCHANGED <<started, stop, worker, inFlight, thread, owner, outcome, abandoned, senderVars>>

RunInline(c) ==
    /\ pc[c] = "inline"
    /\ \/ JobGoesOn(c, arg[c][1]) /\ UNCHANGED <<pc, arg>>
       \/ JobResolves(c, arg[c][1]) /\ Goto(c, "idle", <<>>)
    /\ UNCHANGED <<started, stop, worker, queue, inFlight, thread, owner, abandoned>>

\* flush(): the handles of the queue and then the one in flight, seen at one
\* moment under the lock; with none left it returns.
FlushLooks(c) ==
    /\ NotCalling(c) \/ pc[c] = "looking"
    /\ LET handles == queue \o (IF inFlight # 0 THEN <<inFlight>> ELSE <<>>)
       IN IF handles = <<>> THEN Goto(c, "flushed", <<>>)
          ELSE Goto(c, "awaiting", handles)
    /\ UNCHANGED <<started, stop, worker, queue, inFlight, thread, owner,
                   outcome, abandoned, senderVars>>

\* await_commit of the next handle: a failed write makes flush() raise.
FlushAwaits(c) ==
    /\ pc[c] = "awaiting"
    /\ LET h == Head(arg[c])
       IN /\ outcome[h] \in Resolved
          /\ IF outcome[h] = "failed" THEN Goto(c, "idle", <<>>)
             ELSE IF Len(arg[c]) > 1 THEN Goto(c, "awaiting", Tail(arg[c]))
             ELSE Goto(c, "looking", <<>>)
    /\ UNCHANGED <<started, stop, worker, queue, inFlight, thread, owner,
                   outcome, abandoned, senderVars>>

\* flush(timeout) gives up.
FlushTimesOut(c) ==
    /\ pc[c] = "awaiting"
    /\ Goto(c, "idle", <<>>)
    /\ UNCHANGED <<started, stop, worker, queue, inFlight, thread, owner,
                   outcome, abandoned, senderVars>>

-----------------------------------------------------------------------------
Init ==
    /\ started = FALSE /\ stop = FALSE /\ worker = 0
    /\ queue = <<>> /\ inFlight = 0
    /\ thread = [w \in Workers |-> [at |-> "unborn", job |-> 0]]
    /\ pc = [c \in Callers |-> "idle"]
    /\ arg = [c \in Callers |-> <<>>]
    /\ owner = <<>>
    /\ outcome = [h \in Writes |-> "pending"]
    /\ SenderInit /\ tx = [e \in Callers \cup Workers |-> NoTx]
    /\ abandoned = FALSE

Work(w) == Take(w) \/ Run(w) \/ Clear(w) \/ Exit(w)

\* The steps that finish a call already begun.
Proceed(c) ==
    \/ StartFails(c) \/ StartSpawns(c)
    \/ CloseJoins(c) \/ AppendJob(c) \/ RunInline(c) \/ FlushAwaits(c)
    \/ pc[c] = "looking" /\ FlushLooks(c)

Call(c) == Start(c) \/ CloseSignals(c) \/ Submit(c) \/ FlushLooks(c)

Next ==
    \/ \E w \in Workers : Work(w)
    \/ \E c \in Callers : Call(c) \/ Proceed(c) \/ FlushTimesOut(c)
    \/ Mine /\ UNCHANGED <<started, stop, worker, queue, inFlight, thread, pc, arg,
                            owner, outcome, abandoned>>

Spec == Init /\ [][Next]_vars

\* Threads are scheduled, and the wait for a receipt ends.
FairSpec ==
    /\ Spec
    /\ \A w \in Workers : WF_vars(Work(w))
    /\ \A c \in Callers : WF_vars(Proceed(c))

-----------------------------------------------------------------------------
Submitted == 1 .. Len(owner)

TypeOK ==
    /\ {started, stop} \subseteq BOOLEAN
    /\ worker \in 0 .. MaxStarts
    /\ queue \in Seq(Submitted)
    /\ inFlight \in 0 .. Len(owner)
    /\ thread \in [Workers -> [at : {"unborn", "waiting", "running", "clearing", "exited"},
                               job : 0 .. Len(owner)]]
    /\ pc \in [Callers -> {"idle", "flushed", "starting", "looking", "awaiting",
                           "joining", "appending", "inline"}]
    /\ owner \in Seq(Callers) /\ Len(owner) <= MaxWrites
    /\ outcome \in [Writes -> {"pending"} \cup Resolved]
    /\ \A h \in Writes \ Submitted : outcome[h] = "pending"
    /\ nonce \in Nat \cup {Unseeded}
    /\ tx \in [Callers \cup Workers ->
                  [at : {"idle", "signing", "offering", "awaiting", "counting"},
                   nonce : Nat \cup {Unseeded}, again : BOOLEAN]]
    /\ DOMAIN pool \subseteq Nat /\ Range(pool) \subseteq Submitted
    /\ mined \in Seq([write : Submitted, reverted : BOOLEAN])
    /\ abandoned \in BOOLEAN

\* flush() returns only when every write its caller has submitted before is
\* resolved: a job is never out of the queue and not yet in flight, even if
\* close() gave up on a slow worker and later writes run inline.
FlushDrains ==
    \A c \in Callers : pc[c] = "flushed" =>
        \A h \in Submitted : owner[h] = c => outcome[h] \in Resolved

\* A caller's writes take effect in the order in which it submitted them
\* (a revoke after its register), unless close() has given up on a slow
\* worker: later writes then run beside those it had left.  No write takes
\* effect twice in any case.
EffectsInOrder ==
    \A i, j \in InEffect :
        LET h == mined[i].write
            g == mined[j].write
        IN /\ i # j => h # g
           /\ i < j /\ owner[h] = owner[g] => h < g \/ abandoned

\* No transaction the node has accepted waits behind a nonce that never comes,
\* whatever failed or was slow before it, as long as one thread sends at a
\* time: the worker, or a caller that no longer has one.
NothingStranded == abandoned \/ \A n \in DOMAIN pool : Mineable(n)

\* Every handle is resolved in the end, also those submitted before, during
\* and after a close().
HandlesResolve ==
    \A h \in Writes : h \in Submitted ~> outcome[h] \in Resolved
=============================================================================
