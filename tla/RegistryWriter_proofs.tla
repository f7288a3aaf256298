----------------------- MODULE RegistryWriter_proofs ------------------------
(***************************************************************************)
(* What the write side of RegistryService keeps for any number of writes   *)
(* and starts, whether or not jobs go to the worker, and whether or not    *)
(* close() may give up on it, as long as nobody calls start() after a      *)
(* close().  With any callers, flush() drains.  With one caller, writes    *)
(* take effect in order, none twice, and none is stranded in the node's    *)
(* pool.                                                                   *)
(***************************************************************************)
EXTENDS RegistryWriter, FiniteSetTheorems, TLAPS

Places == {"idle", "flushed", "starting", "looking", "awaiting", "joining",
           "appending", "inline"}
Stages == {"unborn", "waiting", "running", "clearing", "exited"}

Born(w) == thread[w].at # "unborn"
Busy(w) == thread[w].at \in {"running", "clearing"}
Queued(h) == \E i \in DOMAIN queue : queue[i] = h

-----------------------------------------------------------------------------
\* Where the writes are, with any callers.

Types ==
    /\ started \in BOOLEAN /\ stop \in BOOLEAN /\ abandoned \in BOOLEAN
    /\ worker \in 0 .. MaxStarts
    /\ owner \in Seq(Callers) /\ Len(owner) <= MaxWrites
    /\ queue \in Seq(Submitted)
    /\ inFlight \in Nat
    /\ thread \in [Workers -> [at : Stages, job : Nat]]
    /\ pc \in [Callers -> Places]
    /\ DOMAIN arg = Callers
    /\ \A c \in Callers : pc[c] \in {"appending", "inline"} =>
                              \E h \in Submitted : arg[c] = <<h>>
    /\ outcome \in [Writes -> {"pending"} \cup Resolved]

\* Only one worker is ever made.
OneWorker ==
    /\ \A v, w \in Workers : Born(v) /\ Born(w) => v = w
    /\ \A c \in Callers : pc[c] = "starting" =>
          /\ \A w \in Workers : ~Born(w)
          /\ \A d \in Callers : pc[d] = "starting" => d = c
    /\ ~started /\ ~stop =>
          /\ \A w \in Workers : ~Born(w)
          /\ \A c \in Callers : pc[c] # "starting"
    /\ \A c \in Callers : pc[c] = "joining" => stop

\* _in_flight is the job of the worker, until that is resolved.
Marked ==
    /\ \A w \in Workers : Busy(w) => inFlight = thread[w].job /\ inFlight \in Submitted
    /\ \A w \in Workers : thread[w].at = "clearing" => outcome[inFlight] \in Resolved
    /\ inFlight # 0 => \E w \in Workers : Busy(w)

\* A write that is not resolved waits in the queue, is in flight or is still
\* with its caller.
Held(h) ==
    \/ outcome[h] \in Resolved
    \/ Queued(h)
    \/ inFlight = h
    \/ pc[owner[h]] \in {"appending", "inline"} /\ arg[owner[h]] = <<h>>

AllHeld == \A h \in Submitted : Held(h)

DrainInv == Types /\ OneWorker /\ Marked /\ AllHeld /\ FlushDrains

-----------------------------------------------------------------------------
\* Who sends, with one caller.

Senders == Callers \cup Workers
Active(e) == IF e \in Workers THEN thread[e].at = "running" ELSE pc[e] = "inline"
Job(e) == IF e \in Workers THEN thread[e].job ELSE arg[e][1]

\* The worker of a service that is not closed is there to be appended to; with
\* none, and none given up on, nothing is left to do.
Sole ==
    /\ \A c \in Callers :
          /\ pc[c] = "starting" => ~stop /\ worker = 0
          /\ pc[c] = "joining" => arg[c] = <<worker>>
          /\ pc[c] = "appending" => worker # 0 /\ AutoFlush
          /\ pc[c] = "inline" => worker = 0 \/ ~AutoFlush
          /\ pc[c] \in {"appending", "inline"} => arg[c] = <<Len(owner)>>
    /\ ~started => worker = 0
    /\ stop /\ (\A c \in Callers : pc[c] # "joining") => worker = 0
    /\ worker # 0 => Born(worker)
    /\ \A w \in Workers : thread[w].at = "exited" => stop /\ queue = <<>>
    /\ ~AutoFlush => queue = <<>> /\ \A w \in Workers : ~Busy(w)
    /\ worker = 0 /\ ~abandoned =>
          queue = <<>> /\ \A w \in Workers : thread[w].at \in {"unborn", "exited"}

\* Jobs leave the queue, and run, in the order they were submitted.
InTurn ==
    /\ \A i, j \in DOMAIN queue : i < j => queue[i] < queue[j]
    /\ \A w \in Workers : Busy(w) => \A i \in DOMAIN queue : thread[w].job < queue[i]
    /\ \A c \in Callers : pc[c] \in {"appending", "inline"} =>
          /\ \A i \in DOMAIN queue : queue[i] < Len(owner)
          /\ \A w \in Workers : Busy(w) => thread[w].job < Len(owner)

TxSet == [at : {"idle", "signing", "offering", "awaiting", "counting"},
          nonce : Nat \cup {Unseeded}, again : BOOLEAN]

TxTypes ==
    /\ nonce \in Nat \cup {Unseeded}
    /\ tx \in [Senders -> TxSet]
    /\ \A e \in Senders : ~Active(e) => tx[e].at = "idle"
    /\ mined \in Seq([write : Nat, reverted : BOOLEAN])
    /\ DOMAIN pool \subseteq Nat
    /\ \A n \in DOMAIN pool : n >= Len(mined) /\ pool[n] \in Nat

\* The counter is never ahead of the node, and the pool has no gap up to top.
Reaches(top) ==
    /\ top >= Len(mined) /\ DOMAIN pool = Len(mined) .. top - 1
    /\ nonce <= top
    /\ \A e \in Senders :
          /\ tx[e].at = "signing" => nonce # Unseeded
          /\ tx[e].at \in {"offering", "awaiting"} =>
                tx[e].nonce = nonce /\ nonce # Unseeded
          /\ tx[e].at = "counting" => tx[e].nonce # Unseeded /\ tx[e].nonce < Len(mined)

Gapless == ~abandoned => \E top \in Nat : Reaches(top)

\* The node has accepted the transaction of write h.
Placed(h) == (\E n \in DOMAIN pool : pool[n] = h) \/ (\E i \in DOMAIN mined : mined[i].write = h)

\* Where a sender has not offered its transaction to the node.
Fresh == {"idle", "signing", "offering"}

\* Write h may yet be sent.
Unsent(h) ==
    \/ Queued(h)
    \/ \E c \in Callers : pc[c] = "appending" /\ arg[c] = <<h>>
    \/ \E e \in Senders : /\ Active(e) /\ Job(e) = h
                          /\ tx[e].at \in Fresh
    \/ h > Len(owner)

Once ==
    /\ \A h \in Nat : ~(Unsent(h) /\ Placed(h))
    /\ \A m, n \in DOMAIN pool : m # n => pool[m] # pool[n]
    /\ \A i, j \in DOMAIN mined : i # j => mined[i].write # mined[j].write
    /\ \A n \in DOMAIN pool, i \in DOMAIN mined : pool[n] # mined[i].write

Ordered ==
    ~abandoned =>
        /\ \A g, h \in Nat : Placed(g) /\ Unsent(h) => g < h
        /\ \A m, n \in DOMAIN pool : m < n => pool[m] < pool[n]
        /\ \A i, j \in DOMAIN mined : i < j => mined[i].write < mined[j].write
        /\ \A n \in DOMAIN pool, i \in DOMAIN mined : mined[i].write < pool[n]

TxInv == TxTypes /\ Gapless /\ Once /\ Ordered

-----------------------------------------------------------------------------
\* DrainInv is about these.
drainVars == <<started, stop, worker, queue, inFlight, thread, pc, arg, owner, outcome,
               abandoned>>

LEMMA DrainStutters == DrainInv /\ UNCHANGED drainVars => DrainInv'
BY DEF DrainInv, drainVars, Types, OneWorker, Marked, AllHeld, Held, FlushDrains, Queued,
       Submitted, Born, Busy

LEMMA DrainInit == Init => DrainInv
<1> SUFFICES ASSUME Init PROVE DrainInv
  OBVIOUS
<1>1. owner = <<>> /\ Len(owner) = 0 /\ Submitted = {}
  BY DEF Init, Submitted
<1>2. Types
  <2>1. queue \in Seq(Submitted) /\ owner \in Seq(Callers)
    BY DEF Init
  <2>2. thread \in [Workers -> [at : Stages, job : Nat]]
    BY DEF Init, Stages
  <2>3. pc \in [Callers -> Places] /\ outcome \in [Writes -> {"pending"} \cup Resolved]
    BY DEF Init, Places
  <2>4. worker \in 0 .. MaxStarts /\ Len(owner) <= MaxWrites /\ inFlight \in Nat
    BY <1>1, WriterAssumption DEF Init
  <2>5. \A c \in Callers : pc[c] = "idle"
    BY DEF Init
  <2> QED
    BY <2>1, <2>2, <2>3, <2>4, <2>5 DEF Init, Types
<1> QED
  BY <1>1, <1>2 DEF Init, DrainInv, OneWorker, Marked, AllHeld, FlushDrains, Born, Busy

\* Caller c goes from one place to another, with no write at either.
LEMMA CallerMoves ==
    ASSUME Types, Marked, AllHeld, FlushDrains,
           NEW c \in Callers, NEW place \in Places, NEW local,
           Goto(c, place, local),
           UNCHANGED <<queue, inFlight, thread, owner, outcome>>,
           pc[c] \notin {"appending", "inline"},
           place \notin {"appending", "inline"},
           place = "flushed" => \A h \in Submitted : owner[h] = c => outcome[h] \in Resolved,
           started' \in BOOLEAN, stop' \in BOOLEAN, abandoned' \in BOOLEAN,
           worker' \in 0 .. MaxStarts
    PROVE  Types' /\ Marked' /\ AllHeld' /\ FlushDrains'
<1>1. /\ pc' = [pc EXCEPT ![c] = place] /\ arg' = [arg EXCEPT ![c] = local]
      /\ pc \in [Callers -> Places] /\ DOMAIN arg = Callers
      /\ owner \in Seq(Callers) /\ Submitted' = Submitted
  BY DEF Goto, Types, Submitted
<1>2. \A d \in Callers : d # c => pc'[d] = pc[d] /\ arg'[d] = arg[d]
  BY <1>1
<1>3. Types'
  BY <1>1, <1>2 DEF Types
<1>4. Marked'
  BY <1>1 DEF Marked, Busy
<1>5. AllHeld'
  <2> SUFFICES ASSUME NEW h \in Submitted PROVE Held(h)'
    BY <1>1 DEF AllHeld
  <2>1. owner[h] \in Callers
    BY <1>1 DEF Submitted
  <2> QED BY <1>1, <1>2, <2>1 DEF AllHeld, Held, Queued
<1>6. FlushDrains'
  BY <1>1, <1>2 DEF FlushDrains
<1> QED BY <1>3, <1>4, <1>5, <1>6

\* Nothing that OneWorker speaks of changes, or only for the better.
LEMMA OneWorkerKept ==
    ASSUME OneWorker, UNCHANGED <<started, stop>>,
           \A w \in Workers : Born(w)' <=> Born(w),
           \A c \in Callers : pc'[c] \in {"starting", "joining"} => pc'[c] = pc[c]
    PROVE  OneWorker'
BY DEF OneWorker

\* An outcome is resolved, and stays so.
LEMMA Resolves ==
    ASSUME Types, NEW e, NEW h \in Submitted, JobResolves(e, h)
    PROVE  /\ outcome'[h] \in Resolved
           /\ outcome' \in [Writes -> {"pending"} \cup Resolved]
           /\ \A g \in Submitted : outcome[g] \in Resolved => outcome'[g] \in Resolved
<1>1. h \in Writes /\ outcome \in [Writes -> {"pending"} \cup Resolved]
      /\ Submitted \subseteq Writes
  BY WriterAssumption DEF Types, Submitted, Writes
<1>2. PICK v \in Resolved : outcome' = [outcome EXCEPT ![h] = v]
  BY DEF JobResolves, Resolved
<1> QED BY <1>1, <1>2

LEMMA DrainWork ==
    ASSUME DrainInv, NEW w \in Workers, Work(w)
    PROVE  DrainInv'
<1>0. Types /\ OneWorker /\ Marked /\ AllHeld /\ FlushDrains
  BY DEF DrainInv
<1>1. CASE Take(w)
  <2>1. /\ thread[w].at = "waiting" /\ queue # <<>>
        /\ thread' = [thread EXCEPT ![w] = [at |-> "running", job |-> Head(queue)]]
        /\ queue' = Tail(queue) /\ inFlight' = Head(queue)
        /\ UNCHANGED <<started, stop, worker, pc, arg, owner, outcome, abandoned>>
        /\ Submitted' = Submitted
    BY <1>1 DEF Take, Submitted
  <2>2. /\ queue \in Seq(Submitted) /\ Head(queue) \in Submitted
        /\ Tail(queue) \in Seq(Submitted) /\ Head(queue) \in Nat
    BY <1>0, <2>1 DEF Types, Submitted
  <2>3. \A h : Queued(h) => Queued(h)' \/ h = Head(queue)
    <3> SUFFICES ASSUME NEW i \in DOMAIN queue, i # 1
                 PROVE  i - 1 \in DOMAIN queue' /\ queue'[i - 1] = queue[i]
      BY <2>2 DEF Queued
    <3> QED BY <2>1, <2>2
  <2>4. \A v \in Workers : v # w => thread'[v] = thread[v] /\ ~Born(v)
    BY <1>0, <2>1 DEF Types, OneWorker, Born
  <2>5. thread'[w] = [at |-> "running", job |-> Head(queue)]
    BY <1>0, <2>1 DEF Types
  <2>6. Types'
    BY <1>0, <2>1, <2>2 DEF Types, Stages
  <2>7. OneWorker'
    BY <1>0, <2>1, <2>4, <2>5, OneWorkerKept DEF Born
  <2>8. inFlight = 0
    BY <1>0, <2>1, <2>4 DEF Marked, Busy, Born
  <2>9. Marked'
    BY <2>1, <2>2, <2>4, <2>5 DEF Marked, Busy, Born
  <2>10. AllHeld'
    BY <1>0, <2>1, <2>3, <2>8 DEF AllHeld, Held, Submitted
  <2> QED BY <1>0, <2>1, <2>6, <2>7, <2>9, <2>10 DEF DrainInv, FlushDrains
<1>2. CASE Run(w)
  <2>1. thread[w].at = "running" /\ Submitted' = Submitted
        /\ UNCHANGED <<started, stop, worker, queue, inFlight, pc, arg, owner, abandoned>>
    BY <1>2 DEF Run, Submitted
  <2>2. CASE UNCHANGED <<thread, outcome>>
    BY <2>1, <2>2, DrainStutters DEF drainVars
  <2>3. CASE JobResolves(w, thread[w].job) /\ thread' = [thread EXCEPT ![w].at = "clearing"]
    <3>1. inFlight = thread[w].job /\ thread[w].job \in Submitted
      BY <1>0, <2>1 DEF Marked, Busy
    <3>2. /\ outcome'[inFlight] \in Resolved
          /\ outcome' \in [Writes -> {"pending"} \cup Resolved]
          /\ \A g \in Submitted : outcome[g] \in Resolved => outcome'[g] \in Resolved
      BY <1>0, <2>3, <3>1, Resolves
    <3>3. /\ thread' \in [Workers -> [at : Stages, job : Nat]]
          /\ thread'[w].at = "clearing" /\ thread'[w].job = thread[w].job
          /\ \A v \in Workers : v # w => thread'[v] = thread[v] /\ ~Born(v)
      BY <1>0, <2>1, <2>3 DEF Types, OneWorker, Born, Stages
    <3>4. Types'
      BY <1>0, <2>1, <3>2, <3>3 DEF Types
    <3>5. OneWorker'
      BY <1>0, <2>1, <3>3, OneWorkerKept DEF Born
    <3>6. Marked'
      BY <1>0, <2>1, <3>1, <3>2, <3>3 DEF Marked, Busy, Born
    <3>7. AllHeld' /\ FlushDrains'
      BY <1>0, <2>1, <3>2 DEF AllHeld, Held, Queued, FlushDrains
    <3> QED BY <3>4, <3>5, <3>6, <3>7 DEF DrainInv
  <2> QED BY <1>2, <2>2, <2>3 DEF Run, JobGoesOn
<1>3. CASE Clear(w)
  <2>1. /\ thread[w].at = "clearing" /\ inFlight' = 0 /\ Submitted' = Submitted
        /\ thread' = [thread EXCEPT ![w] = [at |-> "waiting", job |-> 0]]
        /\ UNCHANGED <<started, stop, worker, queue, pc, arg, owner, outcome, abandoned>>
    BY <1>3 DEF Clear, Submitted
  <2>2. /\ thread' \in [Workers -> [at : Stages, job : Nat]] /\ thread'[w].at = "waiting"
        /\ \A v \in Workers : v # w => thread'[v] = thread[v] /\ ~Born(v)
    BY <1>0, <2>1 DEF Types, OneWorker, Born, Stages
  <2>3. outcome[inFlight] \in Resolved
    BY <1>0, <2>1 DEF Marked
  <2>4. Types'
    BY <1>0, <2>1, <2>2 DEF Types
  <2>5. OneWorker'
    BY <1>0, <2>1, <2>2, OneWorkerKept DEF Born
  <2>6. Marked'
    BY <2>1, <2>2 DEF Marked, Busy, Born
  <2>7. AllHeld' /\ FlushDrains'
    BY <1>0, <2>1, <2>3 DEF AllHeld, Held, Queued, FlushDrains
  <2> QED BY <2>4, <2>5, <2>6, <2>7 DEF DrainInv
<1>4. CASE Exit(w)
  <2>1. /\ thread[w].at = "waiting" /\ thread' = [thread EXCEPT ![w].at = "exited"]
        /\ UNCHANGED <<started, stop, worker, queue, inFlight, pc, arg, owner, outcome,
                       abandoned>>
        /\ Submitted' = Submitted
    BY <1>4 DEF Exit, Submitted
  <2>2. /\ thread' \in [Workers -> [at : Stages, job : Nat]] /\ thread'[w].at = "exited"
        /\ \A v \in Workers : v # w => thread'[v] = thread[v] /\ ~Born(v)
    BY <1>0, <2>1 DEF Types, OneWorker, Born, Stages
  <2>3. Types'
    BY <1>0, <2>1, <2>2 DEF Types
  <2>4. OneWorker'
    BY <1>0, <2>1, <2>2, OneWorkerKept DEF Born
  <2>5. Marked'
    BY <1>0, <2>1, <2>2 DEF Marked, Busy, Born
  <2>6. AllHeld' /\ FlushDrains'
    BY <1>0, <2>1 DEF AllHeld, Held, Queued, FlushDrains
  <2> QED BY <2>3, <2>4, <2>5, <2>6 DEF DrainInv
<1> QED BY <1>1, <1>2, <1>3, <1>4 DEF Work
LEMMA DrainLifecycle ==
    ASSUME ~Reopens, DrainInv, NEW c \in Callers,
           Start(c) \/ StartFails(c) \/ StartSpawns(c) \/ CloseSignals(c) \/ CloseJoins(c)
    PROVE  DrainInv'
<1>0. Types /\ OneWorker /\ Marked /\ AllHeld /\ FlushDrains
  BY DEF DrainInv
<1>t. /\ started \in BOOLEAN /\ stop \in BOOLEAN /\ abandoned \in BOOLEAN
      /\ worker \in 0 .. MaxStarts /\ pc \in [Callers -> Places]
      /\ 0 \in 0 .. MaxStarts
  BY <1>0, WriterAssumption DEF Types
<1>1. CASE Start(c)
  <2>1. /\ NotCalling(c) /\ ~started /\ ~stop /\ started' = TRUE
        /\ Goto(c, "starting", <<>>)
        /\ UNCHANGED <<stop, worker, queue, inFlight, thread, owner, outcome, abandoned>>
    BY <1>1 DEF Start
  <2>2. "starting" \in Places \ {"appending", "inline", "flushed"}
        /\ pc[c] \notin {"appending", "inline"}
    BY <2>1 DEF Places, NotCalling
  <2>3. Types' /\ Marked' /\ AllHeld' /\ FlushDrains'
    BY <1>0, <1>t, <2>1, <2>2, CallerMoves
  <2>4. \A d \in Callers : d # c => pc'[d] = pc[d]
    BY <1>t, <2>1 DEF Goto
  <2>5. pc'[c] = "starting"
    BY <1>t, <2>1 DEF Goto
  <2>6. OneWorker'
    BY <1>0, <2>1, <2>4, <2>5 DEF OneWorker, Born
  <2> QED BY <2>3, <2>6 DEF DrainInv
<1>2. CASE StartFails(c)
  <2>1. /\ pc[c] = "starting" /\ started' = FALSE /\ Goto(c, "idle", <<>>)
        /\ UNCHANGED <<stop, worker, queue, inFlight, thread, owner, outcome, abandoned>>
    BY <1>2 DEF StartFails
  <2>2. Types' /\ Marked' /\ AllHeld' /\ FlushDrains'
    <3>1. "idle" \in Places \ {"appending", "inline", "flushed"}
      BY DEF Places
    <3> QED BY <1>0, <1>t, <2>1, <3>1, CallerMoves
  <2>3. pc'[c] = "idle" /\ \A d \in Callers : d # c => pc'[d] = pc[d]
    BY <1>t, <2>1 DEF Goto
  <2>4. OneWorker'
    BY <1>0, <2>1, <2>3 DEF OneWorker, Born
  <2> QED BY <2>2, <2>4 DEF DrainInv
<1>3. CASE StartSpawns(c)
  <2>1. PICK w \in Workers :
           /\ thread' = [thread EXCEPT ![w].at = "waiting"] /\ worker' = w
    BY <1>3 DEF StartSpawns
  <2>2. /\ pc[c] = "starting" /\ Goto(c, "idle", <<>>)
        /\ UNCHANGED <<started, stop, queue, inFlight, owner, outcome, abandoned>>
    BY <1>3 DEF StartSpawns
  <2>3. \A v \in Workers : ~Born(v)
    BY <1>0, <2>2 DEF OneWorker
  <2>4. /\ thread' \in [Workers -> [at : Stages, job : Nat]] /\ thread'[w].at = "waiting"
        /\ \A v \in Workers : v # w => thread'[v] = thread[v]
    BY <1>0, <2>1 DEF Types, Stages
  <2>5. pc'[c] = "idle" /\ arg'[c] = <<>> /\ DOMAIN arg' = Callers
        /\ pc' \in [Callers -> Places]
        /\ \A d \in Callers : d # c => pc'[d] = pc[d] /\ arg'[d] = arg[d]
    BY <1>0, <2>2 DEF Goto, Types, Places
  <2>6. Submitted' = Submitted /\ worker' \in 0 .. MaxStarts
    BY <2>1, <2>2, WriterAssumption DEF Submitted, Workers
  <2>7. Types'
    BY <1>0, <2>2, <2>4, <2>5, <2>6 DEF Types
  <2>8. OneWorker'
    <3>1. started \/ stop
      BY <1>0, <1>t, <2>2 DEF OneWorker
    <3> QED BY <1>0, <1>t, <2>2, <2>3, <2>4, <2>5, <3>1 DEF OneWorker, Born
  <2>9. Marked'
    BY <1>0, <2>2, <2>3, <2>4 DEF Marked, Busy, Born
  <2>10. AllHeld'
    <3> SUFFICES ASSUME NEW h \in Submitted PROVE Held(h)'
      BY <2>6 DEF AllHeld
    <3>1. owner[h] \in Callers
      BY <1>0 DEF Types, Submitted
    <3> QED BY <1>0, <2>2, <2>5, <3>1 DEF AllHeld, Held, Queued
  <2>11. FlushDrains'
    BY <1>0, <2>2, <2>5, <2>6 DEF FlushDrains
  <2> QED BY <2>7, <2>8, <2>9, <2>10, <2>11 DEF DrainInv
<1>4. CASE CloseSignals(c)
  <2>1. /\ NotCalling(c) /\ stop' = TRUE /\ Goto(c, "joining", <<worker>>)
        /\ UNCHANGED <<started, worker, queue, inFlight, thread, owner, outcome, abandoned>>
    BY <1>4 DEF CloseSignals
  <2>2. "joining" \in Places \ {"appending", "inline", "flushed"}
        /\ pc[c] \notin {"appending", "inline"}
    BY <2>1 DEF Places, NotCalling
  <2>3. Types' /\ Marked' /\ AllHeld' /\ FlushDrains'
    BY <1>0, <1>t, <2>1, <2>2, CallerMoves
  <2>4. pc'[c] = "joining" /\ \A d \in Callers : d # c => pc'[d] = pc[d]
    BY <1>t, <2>1 DEF Goto
  <2>5. OneWorker'
    BY <1>0, <2>1, <2>4 DEF OneWorker, Born
  <2> QED BY <2>3, <2>5 DEF DrainInv
<1>5. CASE CloseJoins(c)
  <2>1. /\ pc[c] = "joining" /\ started' = FALSE /\ worker' = 0 /\ Goto(c, "idle", <<>>)
        /\ abandoned' \in BOOLEAN
        /\ UNCHANGED <<stop, queue, inFlight, thread, owner, outcome>>
    BY <1>5, <1>t DEF CloseJoins
  <2>2. Types' /\ Marked' /\ AllHeld' /\ FlushDrains'
    <3>1. "idle" \in Places \ {"appending", "inline", "flushed"}
      BY DEF Places
    <3> QED BY <1>0, <1>t, <2>1, <3>1, CallerMoves
  <2>3. pc'[c] = "idle" /\ \A d \in Callers : d # c => pc'[d] = pc[d]
    BY <1>t, <2>1 DEF Goto
  <2>4. stop
    BY <1>0, <2>1 DEF OneWorker
  <2>5. OneWorker'
    BY <1>0, <2>1, <2>3, <2>4 DEF OneWorker, Born
  <2> QED BY <2>2, <2>5 DEF DrainInv
<1> QED BY <1>1, <1>2, <1>3, <1>4, <1>5

LEMMA DrainWrite ==
    ASSUME DrainInv, NEW c \in Callers, Submit(c) \/ AppendJob(c) \/ RunInline(c)
    PROVE  DrainInv'
<1>0. Types /\ OneWorker /\ Marked /\ AllHeld /\ FlushDrains
  BY DEF DrainInv
<1>t. /\ pc \in [Callers -> Places] /\ DOMAIN arg = Callers
      /\ owner \in Seq(Callers) /\ Len(owner) \in Nat
  BY <1>0 DEF Types
<1>1. CASE Submit(c)
  <2> DEFINE new == Len(owner) + 1
  <2>1. PICK place \in {"inline", "appending"} : Goto(c, place, <<new>>)
    BY <1>1 DEF Submit
  <2>2. /\ NotCalling(c) /\ Len(owner) < MaxWrites /\ owner' = Append(owner, c)
        /\ UNCHANGED <<started, stop, worker, queue, inFlight, thread, outcome, abandoned>>
    BY <1>1 DEF Submit
  <2>3. /\ owner' \in Seq(Callers) /\ Len(owner') = new
        /\ \A h \in Submitted : owner'[h] = owner[h] /\ h # new
        /\ owner'[new] = c /\ Submitted' = Submitted \cup {new} /\ new \in Nat
    BY <1>t, <2>2 DEF Submitted
  <2>4. /\ pc'[c] = place /\ arg'[c] = <<new>> /\ DOMAIN arg' = Callers
        /\ pc' \in [Callers -> Places]
        /\ \A d \in Callers : d # c => pc'[d] = pc[d] /\ arg'[d] = arg[d]
    BY <1>t, <2>1 DEF Goto, Places
  <2>5. Types'
    <3>1. queue' \in Seq(Submitted')
      BY <1>0, <2>2, <2>3 DEF Types
    <3>2. Len(owner') <= MaxWrites
      BY <1>t, <2>2, <2>3, WriterAssumption
    <3>3. ASSUME NEW d \in Callers, pc'[d] \in {"appending", "inline"}
          PROVE  \E h \in Submitted' : arg'[d] = <<h>>
      <4>1. CASE d = c
        BY <2>3, <2>4, <4>1
      <4>2. CASE d # c
        BY <1>0, <2>3, <2>4, <3>3, <4>2 DEF Types
      <4> QED BY <4>1, <4>2
    <3> QED BY <1>0, <2>2, <2>3, <2>4, <3>1, <3>2, <3>3 DEF Types
  <2>6. OneWorker'
    BY <1>0, <2>1, <2>2, <2>4, OneWorkerKept DEF Born
  <2>7. Marked'
    BY <1>0, <2>2, <2>3 DEF Marked, Busy
  <2>8. AllHeld'
    <3> SUFFICES ASSUME NEW h \in Submitted' PROVE Held(h)'
      BY DEF AllHeld
    <3>1. CASE h = new
      BY <2>1, <2>3, <2>4, <3>1 DEF Held
    <3>2. CASE h \in Submitted
      <4>1. owner[h] \in Callers /\ owner'[h] = owner[h]
        BY <1>t, <2>3, <3>2 DEF Submitted
      <4> QED BY <1>0, <2>2, <2>4, <3>2, <4>1 DEF AllHeld, Held, Queued, NotCalling
    <3> QED BY <2>3, <3>1, <3>2
  <2>9. FlushDrains'
    <3> SUFFICES ASSUME NEW d \in Callers, pc'[d] = "flushed",
                        NEW h \in Submitted', owner'[h] = d
                 PROVE  outcome'[h] \in Resolved
      BY DEF FlushDrains
    <3>1. d # c /\ pc[d] = "flushed"
      BY <2>1, <2>4
    <3>2. h \in Submitted /\ owner[h] = d
      BY <2>3, <3>1
    <3> QED BY <1>0, <2>2, <3>1, <3>2 DEF FlushDrains
  <2> QED BY <2>5, <2>6, <2>7, <2>8, <2>9 DEF DrainInv
<1>2. CASE AppendJob(c)
  <2>1. /\ pc[c] = "appending" /\ queue' = Append(queue, arg[c][1]) /\ Goto(c, "idle", <<>>)
        /\ UNCHANGED <<started, stop, worker, inFlight, thread, owner, outcome, abandoned>>
        /\ Submitted' = Submitted
    BY <1>2 DEF AppendJob, Submitted
  <2>2. PICK h \in Submitted : arg[c] = <<h>>
    BY <1>0, <2>1 DEF Types
  <2>3. queue' = Append(queue, h) /\ queue \in Seq(Submitted)
    BY <1>0, <2>1, <2>2 DEF Types
  <2>4. queue' \in Seq(Submitted) /\ Queued(h)' /\ \A g : Queued(g) => Queued(g)'
    <3>1. queue' \in Seq(Submitted) /\ Len(queue') = Len(queue) + 1 /\ queue'[Len(queue) + 1] = h
          /\ \A i \in DOMAIN queue : i \in DOMAIN queue' /\ queue'[i] = queue[i]
      BY <2>3
    <3>2. Len(queue) + 1 \in DOMAIN queue'
      BY <2>3
    <3> QED BY <3>1, <3>2 DEF Queued
  <2>5. /\ pc'[c] = "idle" /\ DOMAIN arg' = Callers /\ pc' \in [Callers -> Places]
        /\ \A d \in Callers : d # c => pc'[d] = pc[d] /\ arg'[d] = arg[d]
    BY <1>t, <2>1 DEF Goto, Places
  <2>6. Types'
    BY <1>0, <2>1, <2>4, <2>5 DEF Types
  <2>7. OneWorker'
    BY <1>0, <2>1, <2>5, OneWorkerKept DEF Born
  <2>8. Marked'
    BY <1>0, <2>1 DEF Marked, Busy
  <2>9. AllHeld'
    <3> SUFFICES ASSUME NEW g \in Submitted PROVE Held(g)'
      BY <2>1 DEF AllHeld
    <3>1. owner[g] \in Callers
      BY <1>t DEF Submitted
    <3>2. CASE g = h
      BY <2>4, <3>2 DEF Held
    <3>3. CASE g # h
      <4>1. owner[g] = c => arg[c] # <<g>>
        BY <2>2, <3>3
      <4>2. Held(g)
        BY <1>0 DEF AllHeld
      <4> QED BY <2>1, <2>4, <2>5, <3>1, <4>1, <4>2 DEF Held
    <3> QED BY <3>2, <3>3
  <2>10. FlushDrains'
    BY <1>0, <2>1, <2>5 DEF FlushDrains
  <2> QED BY <2>6, <2>7, <2>8, <2>9, <2>10 DEF DrainInv
<1>3. CASE RunInline(c)
  <2>1. /\ pc[c] = "inline" /\ Submitted' = Submitted
        /\ UNCHANGED <<started, stop, worker, queue, inFlight, thread, owner, abandoned>>
    BY <1>3 DEF RunInline, Submitted
  <2>2. CASE UNCHANGED <<outcome, pc, arg>>
    BY <2>1, <2>2, DrainStutters DEF drainVars
  <2>3. CASE JobResolves(c, arg[c][1]) /\ Goto(c, "idle", <<>>)
    <3>1. PICK h \in Submitted : arg[c] = <<h>>
      BY <1>0, <2>1 DEF Types
    <3>2. JobResolves(c, h)
      BY <2>3, <3>1
    <3>3. /\ outcome'[h] \in Resolved
          /\ outcome' \in [Writes -> {"pending"} \cup Resolved]
          /\ \A g \in Submitted : outcome[g] \in Resolved => outcome'[g] \in Resolved
      BY <1>0, <3>2, Resolves
    <3>4. /\ pc'[c] = "idle" /\ DOMAIN arg' = Callers /\ pc' \in [Callers -> Places]
          /\ \A d \in Callers : d # c => pc'[d] = pc[d] /\ arg'[d] = arg[d]
      BY <1>t, <2>3 DEF Goto, Places
    <3>5. Types'
      BY <1>0, <2>1, <3>3, <3>4 DEF Types
    <3>6. OneWorker'
      BY <1>0, <2>1, <3>4, OneWorkerKept DEF Born
    <3>7. Marked'
      BY <1>0, <2>1, <3>3 DEF Marked, Busy
    <3>8. AllHeld'
      <4> SUFFICES ASSUME NEW g \in Submitted PROVE Held(g)'
        BY <2>1 DEF AllHeld
      <4>1. owner[g] \in Callers
        BY <1>t DEF Submitted
      <4>2. CASE g = h
        BY <3>3, <4>2 DEF Held
      <4>3. CASE g # h
        BY <1>0, <2>1, <3>1, <3>3, <3>4, <4>1, <4>3 DEF AllHeld, Held, Queued
      <4> QED BY <4>2, <4>3
    <3>9. FlushDrains'
      BY <1>0, <2>1, <3>3, <3>4 DEF FlushDrains
    <3> QED BY <3>5, <3>6, <3>7, <3>8, <3>9 DEF DrainInv
  <2> QED BY <1>3, <2>2, <2>3 DEF RunInline, JobGoesOn
<1> QED BY <1>1, <1>2, <1>3

LEMMA DrainFlush ==
    ASSUME DrainInv, NEW c \in Callers, FlushLooks(c) \/ FlushAwaits(c) \/ FlushTimesOut(c)
    PROVE  DrainInv'
<1>0. Types /\ OneWorker /\ Marked /\ AllHeld /\ FlushDrains
  BY DEF DrainInv
<1>1. /\ UNCHANGED <<started, stop, worker, queue, inFlight, thread, owner, outcome, abandoned>>
      /\ pc[c] \notin {"appending", "inline"}
  BY DEF FlushLooks, FlushAwaits, FlushTimesOut, NotCalling
<1>2. PICK place, local : /\ place \in {"flushed", "awaiting", "idle", "looking"}
                         /\ Goto(c, place, local)
  BY DEF FlushLooks, FlushAwaits, FlushTimesOut
<1>3. ASSUME place = "flushed", NEW h \in Submitted, owner[h] = c
      PROVE  outcome[h] \in Resolved
  <2>1. pc \in [Callers -> Places] /\ inFlight \in Nat /\ queue \in Seq(Submitted)
    BY <1>0 DEF Types
  <2>2. pc'[c] = "flushed"
    BY <1>2, <1>3, <2>1 DEF Goto
  <2>3. FlushLooks(c)
    BY <2>1, <2>2 DEF FlushAwaits, FlushTimesOut, Goto
  <2>4. queue \o (IF inFlight # 0 THEN <<inFlight>> ELSE <<>>) = <<>>
    BY <2>1, <2>2, <2>3 DEF FlushLooks, Goto
  <2>5. queue = <<>> /\ inFlight = 0
    BY <2>1, <2>4
  <2>6. h # 0 /\ ~Queued(h)
    BY <2>5 DEF Queued, Submitted
  <2> QED BY <1>0, <1>1, <1>3, <2>5, <2>6 DEF AllHeld, Held
<1>4. Types' /\ Marked' /\ AllHeld' /\ FlushDrains'
  <2>1. place \in Places /\ place \notin {"appending", "inline"}
    BY <1>2 DEF Places
  <2>2. started' \in BOOLEAN /\ stop' \in BOOLEAN /\ abandoned' \in BOOLEAN
        /\ worker' \in 0 .. MaxStarts
    BY <1>0, <1>1 DEF Types
  <2> QED BY <1>0, <1>1, <1>2, <1>3, <2>1, <2>2, CallerMoves
<1>5. OneWorker'
  <2>1. \A d \in Callers : pc'[d] \in {"starting", "joining"} => pc'[d] = pc[d]
    BY <1>0, <1>2 DEF Types, Goto
  <2> QED BY <1>0, <1>1, <2>1, OneWorkerKept DEF Born
<1> QED BY <1>4, <1>5 DEF DrainInv

LEMMA DrainStep == ASSUME ~Reopens PROVE DrainInv /\ [Next]_vars => DrainInv'
<1> SUFFICES ASSUME DrainInv, [Next]_vars PROVE DrainInv'
  OBVIOUS
<1>1. CASE \E w \in Workers : Work(w)
  BY <1>1, DrainWork
<1>2. CASE \E c \in Callers : Call(c) \/ Proceed(c) \/ FlushTimesOut(c)
  BY <1>2, DrainLifecycle, DrainWrite, DrainFlush DEF Call, Proceed
<1>3. CASE UNCHANGED drainVars
  BY <1>3, DrainStutters
<1> QED BY <1>1, <1>2, <1>3 DEF Next, vars, drainVars

\* When flush() returns, every write that its caller has submitted before is
\* resolved, for any number of callers (registry_service.py flush, _enqueue,
\* _write_loop).
THEOREM FlushDrainsTheorem == ASSUME ~Reopens PROVE Spec => []FlushDrains
<1>1. DrainInv => FlushDrains
  BY DEF DrainInv
<1> QED BY <1>1, DrainInit, DrainStep, PTL DEF Spec
-----------------------------------------------------------------------------
\* One caller.

OneCaller == \A c, d \in Callers : c = d

SoleInv == DrainInv /\ Sole /\ InTurn

LEMMA SoleStutters == Sole /\ InTurn /\ UNCHANGED drainVars => Sole' /\ InTurn'
BY DEF drainVars, Sole, InTurn, Born, Busy

LEMMA SoleInit == Init => Sole /\ InTurn
BY DEF Init, Sole, InTurn, Born, Busy

\* The head of the queue, and the rest.
LEMMA TailOfQueue ==
    ASSUME NEW q, NEW n \in Nat, q \in Seq(1 .. n), q # <<>>
    PROVE  /\ Head(q) = q[1] /\ 1 \in DOMAIN q
           /\ \A i \in DOMAIN Tail(q) :
                 i \in Nat \ {0} /\ i + 1 \in DOMAIN q /\ Tail(q)[i] = q[i + 1]
OBVIOUS

\* No worker but w was ever made, and what it does shows in its stage only.
LEMMA SoleStage ==
    ASSUME SoleInv, NEW w \in Workers, Born(w),
           UNCHANGED <<started, stop, worker, queue, pc, arg, owner, abandoned>>,
           NEW stage \in Stages \ {"unborn"}, thread'[w].at = stage,
           \A v \in Workers : v # w => thread'[v] = thread[v],
           stage \in {"running", "clearing"} => Busy(w) /\ thread'[w].job = thread[w].job,
           stage = "exited" => stop /\ queue = <<>>,
           stage # "exited" => thread[w].at # "exited"
    PROVE  Sole' /\ InTurn'
<1>1. \A v \in Workers : v # w => thread'[v] = thread[v] /\ ~Born(v)
  BY DEF SoleInv, DrainInv, OneWorker
<1>2. Born(w)' /\ \A v \in Workers : Born(v)' <=> Born(v)
  BY <1>1 DEF Born, Stages
<1>3. \A v \in Workers : v # w => ~Busy(v) /\ thread'[v] = thread[v]
  BY <1>1 DEF Born, Busy
<1>4. Busy(w)' => Busy(w) /\ thread'[w].job = thread[w].job
  BY <1>1 DEF Busy
<1>5. \A v \in Workers : Busy(v)' => Busy(v) /\ thread'[v].job = thread[v].job
  BY <1>3, <1>4 DEF Busy
<1>6. worker # 0 => worker \in Workers
  BY WriterAssumption DEF SoleInv, DrainInv, Types, Workers
<1>7. Sole'
  <2>1. worker = 0 /\ ~abandoned => stage = "exited"
    BY DEF SoleInv, Sole, Born, Stages
  <2>2. \A v \in Workers : thread'[v].at = "exited" => stop /\ queue = <<>>
    BY <1>1, <1>3 DEF SoleInv, Sole
  <2>3. worker = 0 /\ ~abandoned =>
           queue = <<>> /\ \A v \in Workers : thread'[v].at \in {"unborn", "exited"}
    BY <1>1, <1>3, <2>1 DEF SoleInv, Sole
  <2>4. ~AutoFlush => queue = <<>> /\ \A v \in Workers : ~Busy(v)'
    BY <1>5 DEF SoleInv, Sole
  <2>5. worker # 0 => Born(worker)'
    BY <1>2, <1>6 DEF SoleInv, Sole
  <2> QED BY <2>2, <2>3, <2>4, <2>5 DEF SoleInv, Sole
<1>8. InTurn'
  BY <1>5 DEF SoleInv, InTurn
<1> QED BY <1>7, <1>8

LEMMA SoleWork ==
    ASSUME OneCaller, SoleInv, NEW w \in Workers, Work(w)
    PROVE  Sole' /\ InTurn'
<1>0. Types /\ OneWorker /\ Marked /\ Sole /\ InTurn /\ thread[w].job \in Nat
  BY DEF SoleInv, DrainInv, Types
<1>1. CASE Take(w)
  <2>1. /\ thread[w].at = "waiting" /\ queue # <<>>
        /\ thread' = [thread EXCEPT ![w] = [at |-> "running", job |-> Head(queue)]]
        /\ queue' = Tail(queue)
        /\ UNCHANGED <<started, stop, worker, pc, arg, owner, abandoned>>
    BY <1>1 DEF Take
  <2>2. queue \in Seq(1 .. Len(owner)) /\ Len(owner) \in Nat
    BY <1>0 DEF Types, Submitted
  <2>3. /\ Head(queue) = queue[1] /\ 1 \in DOMAIN queue
        /\ \A i \in DOMAIN queue' :
              i \in Nat \ {0} /\ i + 1 \in DOMAIN queue /\ queue'[i] = queue[i + 1]
    BY <2>1, <2>2, TailOfQueue
  <2>4. /\ thread'[w].at = "running" /\ thread'[w].job = queue[1]
        /\ \A v \in Workers : v # w => thread'[v] = thread[v] /\ ~Born(v)
    BY <1>0, <2>1, <2>3 DEF Types, OneWorker, Born
  <2>5. AutoFlush /\ (worker # 0 \/ abandoned) /\ \A v \in Workers : thread[v].at # "exited"
    BY <1>0, <2>1 DEF Sole
  <2>6. worker # 0 => worker \in Workers
    BY <1>0, WriterAssumption DEF Types, Workers
  <2>7. Sole'
    <3>1. \A v \in Workers : Born(v) => Born(v)'
      BY <2>4 DEF Born
    <3>2. worker # 0 => Born(worker)'
      BY <1>0, <2>1, <2>6, <3>1 DEF Sole, Born
    <3>3. \A v \in Workers : thread'[v].at # "exited"
      BY <2>4, <2>5
    <3> QED BY <1>0, <2>1, <2>5, <3>2, <3>3 DEF Sole
  <2>8. \A v \in Workers : Busy(v)' => v = w
    BY <2>4 DEF Busy, Born
  <2>9. \A i \in DOMAIN queue' : queue[1] < queue'[i]
    BY <1>0, <2>3 DEF InTurn
  <2>10. \A i, j \in DOMAIN queue' : i < j => queue'[i] < queue'[j]
    <3> SUFFICES ASSUME NEW i \in DOMAIN queue', NEW j \in DOMAIN queue', i < j
                 PROVE  queue'[i] < queue'[j]
      OBVIOUS
    <3>1. i + 1 \in DOMAIN queue /\ j + 1 \in DOMAIN queue /\ i + 1 < j + 1
      BY <2>3
    <3> QED BY <1>0, <2>3, <3>1 DEF InTurn
  <2>11. ASSUME NEW c \in Callers, pc[c] \in {"appending", "inline"}
         PROVE  queue[1] < Len(owner) /\ \A i \in DOMAIN queue' : queue'[i] < Len(owner)
    BY <1>0, <2>3, <2>11 DEF InTurn
  <2>12. InTurn'
    BY <2>1, <2>4, <2>8, <2>9, <2>10, <2>11 DEF InTurn
  <2> QED BY <2>7, <2>12
<1>2. CASE Run(w)
  <2>1. thread[w].at = "running"
        /\ UNCHANGED <<started, stop, worker, queue, inFlight, pc, arg, owner, abandoned>>
    BY <1>2 DEF Run
  <2>2. CASE UNCHANGED thread
    BY <1>0, <2>1, <2>2 DEF Sole, InTurn, Born, Busy
  <2>3. CASE thread' = [thread EXCEPT ![w].at = "clearing"]
    <3>1. /\ thread'[w].at = "clearing" /\ thread'[w].job = thread[w].job
          /\ \A v \in Workers : v # w => thread'[v] = thread[v]
      BY <1>0, <2>3 DEF Types
    <3>2. Born(w) /\ Busy(w)
      BY <2>1 DEF Born, Busy
    <3>3. "clearing" \in Stages \ {"unborn", "exited"} /\ thread[w].at # "exited"
      BY <2>1 DEF Stages
    <3> QED BY <2>1, <3>1, <3>2, <3>3, SoleStage
  <2> QED BY <1>2, <2>2, <2>3 DEF Run
<1>3. CASE Clear(w)
  <2>1. /\ thread[w].at = "clearing"
        /\ thread' = [thread EXCEPT ![w] = [at |-> "waiting", job |-> 0]]
        /\ UNCHANGED <<started, stop, worker, queue, pc, arg, owner, abandoned>>
    BY <1>3 DEF Clear
  <2>2. /\ thread'[w].at = "waiting" /\ Born(w) /\ thread[w].at # "exited"
        /\ \A v \in Workers : v # w => thread'[v] = thread[v]
    BY <1>0, <2>1 DEF Types, Born
  <2>3. "waiting" \in Stages \ {"unborn", "running", "clearing", "exited"}
    BY DEF Stages
  <2> QED BY <2>1, <2>2, <2>3, SoleStage
<1>4. CASE Exit(w)
  <2>1. /\ thread[w].at = "waiting" /\ stop /\ queue = <<>>
        /\ thread' = [thread EXCEPT ![w].at = "exited"]
        /\ UNCHANGED <<started, stop, worker, queue, pc, arg, owner, abandoned>>
    BY <1>4 DEF Exit
  <2>2. /\ thread'[w].at = "exited" /\ Born(w)
        /\ \A v \in Workers : v # w => thread'[v] = thread[v]
    BY <1>0, <2>1 DEF Types, Born
  <2>3. "exited" \in Stages \ {"unborn", "running", "clearing"}
    BY DEF Stages
  <2> QED BY <2>1, <2>2, <2>3, SoleStage
<1> QED BY <1>1, <1>2, <1>3, <1>4 DEF Work
\* The caller moves with no write at its next place; the lifecycle stays.
LEMMA SoleMoves ==
    ASSUME OneCaller, SoleInv, NEW c \in Callers,
           NEW place \in Places \ {"starting", "joining", "appending", "inline"},
           NEW local, Goto(c, place, local),
           UNCHANGED <<started, stop, worker, queue, thread, owner, abandoned>>,
           pc[c] # "joining"
    PROVE  Sole' /\ InTurn'
<1>1. /\ \A d \in Callers : d = c
      /\ pc'[c] = place
  BY DEF OneCaller, Goto, SoleInv, DrainInv, Types
<1>2. Sole'
  BY <1>1 DEF SoleInv, Sole, Born, Busy
<1>3. InTurn'
  BY <1>1 DEF SoleInv, InTurn, Busy
<1> QED BY <1>2, <1>3

LEMMA SoleLifecycle ==
    ASSUME OneCaller, ~Reopens, SoleInv, NEW c \in Callers,
           Start(c) \/ StartFails(c) \/ StartSpawns(c) \/ CloseSignals(c) \/ CloseJoins(c)
    PROVE  Sole' /\ InTurn'
<1>0. /\ Types /\ OneWorker /\ Marked /\ Sole /\ InTurn
      /\ \A d \in Callers : d = c
      /\ pc \in [Callers -> Places] /\ DOMAIN arg = Callers
  BY DEF SoleInv, DrainInv, Types, OneCaller
<1>1. UNCHANGED <<queue, owner>>
  BY DEF Start, StartFails, StartSpawns, CloseSignals, CloseJoins
<1>2. CASE Start(c)
  <2>1. /\ ~started /\ ~stop /\ started' = TRUE /\ pc'[c] = "starting"
        /\ UNCHANGED <<stop, worker, thread, abandoned>>
    BY <1>0, <1>2 DEF Start, Goto
  <2>2. Sole'
    BY <1>0, <1>1, <2>1 DEF Sole, Born, Busy
  <2>3. InTurn'
    BY <1>0, <1>1, <2>1 DEF InTurn, Busy
  <2> QED BY <2>2, <2>3
<1>3. CASE StartFails(c)
  <2>1. /\ pc[c] = "starting" /\ started' = FALSE /\ pc'[c] = "idle"
        /\ UNCHANGED <<stop, worker, thread, abandoned>>
    BY <1>0, <1>3 DEF StartFails, Goto
  <2>2. Sole'
    BY <1>0, <1>1, <2>1 DEF Sole, Born, Busy
  <2>3. InTurn'
    BY <1>0, <1>1, <2>1 DEF InTurn, Busy
  <2> QED BY <2>2, <2>3
<1>4. CASE StartSpawns(c)
  <2>1. PICK w \in Workers :
           /\ thread' = [thread EXCEPT ![w].at = "waiting"] /\ worker' = w
    BY <1>4 DEF StartSpawns
  <2>2. /\ pc[c] = "starting" /\ pc'[c] = "idle"
        /\ UNCHANGED <<started, stop, abandoned>>
    BY <1>0, <1>4 DEF StartSpawns, Goto
  <2>3. /\ thread'[w].at = "waiting"
        /\ \A v \in Workers : ~Born(v) /\ (v # w => thread'[v] = thread[v])
    BY <1>0, <2>1, <2>2 DEF Types, OneWorker
  <2>4. started /\ ~stop /\ worker' # 0
    BY <1>0, <2>1, <2>2, WriterAssumption DEF OneWorker, Sole, Workers, Types
  <2>5. \A v \in Workers : ~Busy(v)' /\ thread'[v].at # "exited"
    BY <2>3 DEF Born, Busy
  <2>6. Born(worker)'
    BY <2>1, <2>3 DEF Born
  <2>7. ~AutoFlush => queue = <<>>
    BY <1>0 DEF Sole
  <2>8. Sole'
    BY <1>0, <1>1, <2>2, <2>4, <2>5, <2>6, <2>7 DEF Sole
  <2>9. InTurn'
    BY <1>0, <1>1, <2>2, <2>5 DEF InTurn
  <2> QED BY <2>8, <2>9
<1>5. CASE CloseSignals(c)
  <2>1. /\ NotCalling(c) /\ stop' = TRUE /\ pc'[c] = "joining" /\ arg'[c] = <<worker>>
        /\ UNCHANGED <<started, worker, thread, abandoned>>
    BY <1>0, <1>5 DEF CloseSignals, Goto
  <2>2. Sole'
    BY <1>0, <1>1, <2>1 DEF Sole, Born, Busy
  <2>3. InTurn'
    BY <1>0, <1>1, <2>1 DEF InTurn, Busy
  <2> QED BY <2>2, <2>3
<1>6. CASE CloseJoins(c)
  <2>1. /\ pc[c] = "joining" /\ started' = FALSE /\ worker' = 0 /\ pc'[c] = "idle"
        /\ UNCHANGED <<stop, thread>>
    BY <1>0, <1>6 DEF CloseJoins, Goto
  <2>2. arg[c] = <<worker>> /\ stop
    BY <1>0, <2>1 DEF Sole, OneWorker
  <2>3. ~abandoned' => ~abandoned /\ (worker = 0 \/ thread[worker].at = "exited")
    BY <1>6, <2>2 DEF CloseJoins
  <2>4. worker = 0 \/ worker \in Workers
    BY <1>0, WriterAssumption DEF Types, Workers
  <2>5. ~abandoned' =>
           queue = <<>> /\ \A w \in Workers : thread[w].at \in {"unborn", "exited"}
    BY <1>0, <2>3, <2>4 DEF Sole, OneWorker, Born
  <2>6. Sole'
    BY <1>0, <1>1, <2>1, <2>5 DEF Sole, Born, Busy
  <2>7. InTurn'
    BY <1>0, <1>1, <2>1 DEF InTurn, Busy
  <2> QED BY <2>6, <2>7
<1> QED BY <1>2, <1>3, <1>4, <1>5, <1>6

LEMMA SoleWrite ==
    ASSUME OneCaller, SoleInv, NEW c \in Callers,
           Submit(c) \/ AppendJob(c) \/ RunInline(c)
    PROVE  Sole' /\ InTurn'
<1>0. /\ Types /\ OneWorker /\ Marked /\ Sole /\ InTurn
      /\ \A d \in Callers : d = c
      /\ pc \in [Callers -> Places] /\ DOMAIN arg = Callers
      /\ owner \in Seq(Callers) /\ Len(owner) \in Nat /\ queue \in Seq(1 .. Len(owner))
  BY DEF SoleInv, DrainInv, Types, OneCaller, Submitted
<1>1. UNCHANGED <<started, stop, worker, thread, abandoned>>
  BY DEF Submit, AppendJob, RunInline
<1>2. CASE Submit(c)
  <2>1. /\ NotCalling(c) /\ owner' = Append(owner, c) /\ UNCHANGED queue
        /\ pc'[c] = IF ~AutoFlush \/ worker = 0 THEN "inline" ELSE "appending"
        /\ arg'[c] = <<Len(owner) + 1>>
    BY <1>0, <1>2 DEF Submit, Goto
  <2>2. Len(owner') = Len(owner) + 1
    BY <1>0, <2>1
  <2>3. Sole'
    BY <1>0, <1>1, <2>1, <2>2 DEF Sole, Born, Busy, NotCalling
  <2>4. \A i \in DOMAIN queue : queue[i] < Len(owner')
    BY <1>0, <2>2
  <2>5. \A w \in Workers : Busy(w) => thread[w].job < Len(owner')
    BY <1>0, <2>2 DEF Marked, Submitted
  <2>6. InTurn'
    BY <1>0, <1>1, <2>1, <2>4, <2>5 DEF InTurn, Busy
  <2> QED BY <2>3, <2>6
<1>3. CASE AppendJob(c)
  <2>1. /\ pc[c] = "appending" /\ pc'[c] = "idle" /\ UNCHANGED owner
        /\ queue' = Append(queue, arg[c][1])
    BY <1>0, <1>3 DEF AppendJob, Goto
  <2>2. arg[c] = <<Len(owner)>> /\ AutoFlush /\ worker # 0
    BY <1>0, <2>1 DEF Sole
  <2>3. ~stop /\ \A w \in Workers : thread[w].at # "exited"
    BY <1>0, <2>1, <2>2 DEF Sole
  <2>4. Sole'
    BY <1>0, <1>1, <2>1, <2>2, <2>3 DEF Sole, Born, Busy
  <2>5. queue' = Append(queue, Len(owner))
    BY <2>1, <2>2
  <2>6. \A i \in DOMAIN queue' :
           \/ i \in DOMAIN queue /\ queue'[i] = queue[i]
           \/ i = Len(queue) + 1 /\ queue'[i] = Len(owner)
    BY <1>0, <2>5
  <2>7. /\ \A i \in DOMAIN queue : queue[i] < Len(owner)
        /\ \A w \in Workers : Busy(w) => thread[w].job < Len(owner)
    BY <1>0, <2>1 DEF InTurn
  <2>8. \A i, j \in DOMAIN queue' : i < j => queue'[i] < queue'[j]
    <3>1. DOMAIN queue = 1 .. Len(queue) /\ Len(queue) \in Nat
      BY <1>0
    <3> QED BY <1>0, <2>6, <2>7, <3>1 DEF InTurn
  <2>9. \A w \in Workers : Busy(w) => \A i \in DOMAIN queue' : thread[w].job < queue'[i]
    BY <1>0, <2>6, <2>7 DEF InTurn
  <2>10. InTurn'
    BY <1>0, <1>1, <2>1, <2>8, <2>9 DEF InTurn, Busy
  <2> QED BY <2>4, <2>10
<1>4. CASE RunInline(c)
  <2>1. pc[c] = "inline" /\ UNCHANGED <<queue, owner>>
    BY <1>4 DEF RunInline
  <2>2. CASE UNCHANGED <<pc, arg>>
    BY <1>0, <1>1, <2>1, <2>2 DEF Sole, InTurn, Born, Busy
  <2>3. CASE Goto(c, "idle", <<>>)
    <3>1. "idle" \in Places \ {"starting", "joining", "appending", "inline"}
      BY DEF Places
    <3> QED BY <1>1, <2>1, <2>3, <3>1, SoleMoves
  <2> QED BY <1>4, <2>2, <2>3 DEF RunInline
<1> QED BY <1>2, <1>3, <1>4

LEMMA SoleStep == ASSUME OneCaller, ~Reopens PROVE SoleInv /\ [Next]_vars => SoleInv'
<1> SUFFICES ASSUME SoleInv, [Next]_vars PROVE SoleInv'
  OBVIOUS
<1>1. DrainInv'
  BY DrainStep DEF SoleInv
<1>2. CASE \E w \in Workers : Work(w)
  BY <1>1, <1>2, SoleWork DEF SoleInv
<1>3. ASSUME NEW c \in Callers, Call(c) \/ Proceed(c) \/ FlushTimesOut(c)
      PROVE  Sole' /\ InTurn'
  <2>1. CASE FlushLooks(c) \/ FlushAwaits(c) \/ FlushTimesOut(c)
    <3>1. UNCHANGED <<started, stop, worker, queue, thread, owner, abandoned>>
          /\ pc[c] # "joining"
      BY <2>1 DEF FlushLooks, FlushAwaits, FlushTimesOut, NotCalling
    <3>2. \E place, local : /\ place \in {"flushed", "awaiting", "idle", "looking"}
                            /\ Goto(c, place, local)
      BY <2>1 DEF FlushLooks, FlushAwaits, FlushTimesOut
    <3>3. {"flushed", "awaiting", "idle", "looking"}
             \subseteq Places \ {"starting", "joining", "appending", "inline"}
      BY DEF Places
    <3> QED BY <3>1, <3>2, <3>3, SoleMoves
  <2> QED BY <1>3, <2>1, SoleLifecycle, SoleWrite DEF Call, Proceed
<1>4. CASE UNCHANGED drainVars
  BY <1>1, <1>4, SoleStutters DEF SoleInv
<1> QED BY <1>1, <1>2, <1>3, <1>4 DEF Next, vars, drainVars, SoleInv
-----------------------------------------------------------------------------
\* The transactions.

LEMMA CallersAreNoWorkers == \A c \in Callers : c \notin Workers
BY WriterAssumption DEF Workers

\* A write that is being sent waits nowhere else.
LEMMA OwnJob ==
    ASSUME OneCaller, SoleInv, NEW e \in Senders, Active(e)
    PROVE  /\ Job(e) \in Submitted /\ ~Queued(Job(e))
           /\ \A c \in Callers : pc[c] = "appending" => arg[c] # <<Job(e)>>
           /\ \A d \in Senders : Active(d) /\ Job(d) = Job(e) => d = e
<1>0. /\ Types /\ OneWorker /\ Marked /\ Sole /\ InTurn
      /\ \A c, d \in Callers : c = d
      /\ Len(owner) \in Nat /\ queue \in Seq(1 .. Len(owner))
  BY DEF SoleInv, DrainInv, Types, OneCaller, Submitted
<1>1. CASE e \in Workers
  <2>1. Busy(e) /\ Job(e) = thread[e].job
    BY <1>1 DEF Active, Job, Busy
  <2>2. Job(e) \in Submitted
    BY <1>0, <1>1, <2>1 DEF Marked
  <2>3. ~Queued(Job(e))
    BY <1>0, <1>1, <2>1, <2>2 DEF InTurn, Queued, Submitted
  <2>4. \A c \in Callers : pc[c] \in {"appending", "inline"} =>
           arg[c] = <<Len(owner)>> /\ Job(e) < Len(owner)
    BY <1>0, <1>1, <2>1 DEF Sole, InTurn
  <2>5. \A d \in Workers : Active(d) => d = e
    BY <1>0, <1>1, <2>1 DEF Active, OneWorker, Born, Busy
  <2>6. \A d \in Callers : Active(d) => Job(d) # Job(e)
    BY <1>0, <2>4, CallersAreNoWorkers DEF Active, Job
  <2>7. \A c \in Callers : pc[c] = "appending" => arg[c] # <<Job(e)>>
    BY <1>0, <2>2, <2>4 DEF Submitted
  <2> QED BY <2>2, <2>3, <2>5, <2>6, <2>7 DEF Senders
<1>2. CASE e \in Callers
  <2>1. pc[e] = "inline" /\ Job(e) = arg[e][1] /\ e \notin Workers
    BY <1>2, CallersAreNoWorkers DEF Active, Job
  <2>2. Job(e) = Len(owner)
    BY <1>0, <1>2, <2>1 DEF Sole
  <2>3. Job(e) \in Submitted
    BY <1>0, <1>2, <2>1 DEF Types
  <2>4. ~Queued(Job(e))
    BY <1>0, <1>2, <2>1, <2>2 DEF InTurn, Queued
  <2>5. \A d \in Workers : Active(d) => Job(d) # Job(e)
    BY <1>0, <1>2, <2>1, <2>2 DEF InTurn, Active, Job, Busy, Types
  <2>6. \A c \in Callers : c = e
    BY <1>0, <1>2
  <2> QED BY <2>1, <2>3, <2>4, <2>5, <2>6 DEF Senders
<1> QED BY <1>1, <1>2 DEF Senders

\* Nobody else sends, unless close() has given up on a worker; and what is
\* being sent is the oldest of what there is to send.
LEMMA OneSender ==
    ASSUME OneCaller, SoleInv, ~abandoned, NEW e \in Senders, Active(e)
    PROVE  /\ \A d \in Senders : Active(d) => d = e
           /\ \A h \in Nat : Unsent(h) /\ h # Job(e) => Job(e) < h
<1>0. /\ Types /\ OneWorker /\ Marked /\ Sole /\ InTurn
      /\ \A c, d \in Callers : c = d
      /\ Len(owner) \in Nat /\ queue \in Seq(1 .. Len(owner))
  BY DEF SoleInv, DrainInv, Types, OneCaller, Submitted
<1>1. ASSUME NEW c \in Callers, pc[c] = "inline"
      PROVE  queue = <<>> /\ \A w \in Workers : ~Active(w)
  BY <1>0, <1>1 DEF Sole, Active, Busy
<1>2. \A v, w \in Workers : Active(v) /\ Active(w) => v = w
  BY <1>0 DEF OneWorker, Active, Born
<1>3. \A d \in Senders : Active(d) => d = e
  <2> SUFFICES ASSUME NEW d \in Senders, Active(d) PROVE d = e
    OBVIOUS
  <2>1. \A c \in Callers : Active(c) => pc[c] = "inline"
    BY CallersAreNoWorkers DEF Active
  <2> QED BY <1>0, <1>1, <1>2, <2>1 DEF Senders
<1>4. Job(e) \in Submitted /\ Job(e) <= Len(owner)
  BY <1>0, OwnJob DEF Submitted
<1>5. ASSUME NEW h \in Nat, Unsent(h), h # Job(e)
      PROVE  Job(e) < h
  <2>1. CASE Queued(h)
    <3>1. queue # <<>>
      BY <2>1 DEF Queued
    <3>2. e \in Workers /\ Busy(e) /\ Job(e) = thread[e].job
      BY <1>1, <3>1, CallersAreNoWorkers DEF Senders, Active, Busy, Job
    <3> QED BY <1>0, <2>1, <3>2 DEF InTurn, Queued
  <2>2. ASSUME NEW c \in Callers, pc[c] = "appending", arg[c] = <<h>>
        PROVE  Job(e) < h
    <3>1. e \in Workers /\ Busy(e) /\ Job(e) = thread[e].job
      BY <1>0, <2>2, CallersAreNoWorkers DEF Senders, Active, Busy, Job
    <3>2. arg[c] = <<Len(owner)>> /\ Job(e) < Len(owner)
      BY <1>0, <2>2, <3>1 DEF Sole, InTurn
    <3> QED BY <2>2, <3>2
  <2>3. ASSUME NEW d \in Senders, Active(d), Job(d) = h
        PROVE  FALSE
    BY <1>3, <1>5, <2>3
  <2>4. CASE h > Len(owner)
    BY <1>0, <1>4, <2>4 DEF Submitted
  <2> QED BY <1>5, <2>1, <2>2, <2>3, <2>4 DEF Unsent
<1> QED BY <1>3, <1>5

\* What the node calls the pending count.
LEMMA CountReaches ==
    ASSUME TxTypes, NEW top \in Nat, Reaches(top)
    PROVE  PendingCount = top
<1>1. Len(mined) \in Nat /\ DOMAIN pool = Len(mined) .. top - 1 /\ top >= Len(mined)
  BY DEF TxTypes, Reaches
<1>2. {n \in DOMAIN pool : Mineable(n)} = Len(mined) .. top - 1
  BY <1>1 DEF Mineable
<1>3. ASSUME NEW a \in Int, NEW b \in Int, b >= a - 1
      PROVE  Cardinality(a .. b) = b - a + 1
  BY <1>3, FS_Interval
<1>4. Cardinality(Len(mined) .. top - 1) = (top - 1) - Len(mined) + 1
  <2>1. Len(mined) \in Int /\ top - 1 \in Int /\ top - 1 >= Len(mined) - 1
    BY <1>1
  <2> QED BY <1>3, <2>1
<1>5. PendingCount = Len(mined) + Cardinality(Len(mined) .. top - 1)
  BY <1>2 DEF PendingCount
<1> QED BY <1>1, <1>4, <1>5

-----------------------------------------------------------------------------
LEMMA TxInit == Init => TxInv
<1> SUFFICES ASSUME Init PROVE TxInv
  OBVIOUS
<1>1. /\ pool = <<>> /\ mined = <<>> /\ nonce = Unseeded /\ Unseeded = -1
      /\ \A e \in Senders : tx[e] = NoTx
  BY DEF Init, SenderInit, Senders, Unseeded
<1>2. DOMAIN pool = {} /\ DOMAIN mined = {} /\ Len(mined) = 0
  BY <1>1
<1>3. TxTypes
  <2>1. tx = [e \in Senders |-> NoTx]
    BY DEF Init, Senders
  <2>2. mined \in Seq([write : Nat, reverted : BOOLEAN])
    BY <1>1
  <2> QED BY <1>1, <1>2, <2>1, <2>2 DEF TxTypes, TxSet, NoTx
<1>4. Reaches(0)
  BY <1>1, <1>2 DEF Reaches, NoTx
<1>5. \A h : ~Placed(h)
  BY <1>2 DEF Placed
<1> QED BY <1>2, <1>3, <1>4, <1>5 DEF TxInv, Gapless, Once, Ordered

\* Steps that are none of a sender or of the node.
LEMMA TxKept ==
    ASSUME TxInv, UNCHANGED senderVars, abandoned => abandoned',
           \A e \in Senders : Active(e) => Active(e)',
           \A h \in Nat : Unsent(h)' => Unsent(h)
    PROVE  TxInv'
<1>0. UNCHANGED <<nonce, tx, pool, mined>> /\ TxTypes /\ Gapless /\ Once /\ Ordered
  BY DEF senderVars, TxInv
<1>1. TxTypes'
  BY <1>0 DEF TxTypes
<1>2. Gapless'
  BY <1>0 DEF Gapless, Reaches
<1>3. \A h : Placed(h)' <=> Placed(h)
  BY <1>0 DEF Placed
<1>4. Once' /\ Ordered'
  BY <1>0, <1>3 DEF Once, Ordered
<1> QED BY <1>1, <1>2, <1>4 DEF TxInv

\* The node mines the oldest transaction.
LEMMA TxMine ==
    ASSUME TxInv, Mine,
           UNCHANGED <<started, stop, worker, queue, inFlight, thread, pc, arg, owner,
                       outcome, abandoned>>
    PROVE  TxInv'
<1> DEFINE next == Len(mined)
<1>0. TxTypes /\ Gapless /\ Once /\ Ordered
  BY DEF TxInv
<1>1. PICK reverted \in BOOLEAN :
         mined' = Append(mined, [write |-> pool[next], reverted |-> reverted])
  BY DEF Mine
<1>2. /\ next \in DOMAIN pool /\ pool' = [n \in DOMAIN pool \ {next} |-> pool[n]]
      /\ UNCHANGED <<nonce, tx>>
  BY DEF Mine
<1>3. /\ mined \in Seq([write : Nat, reverted : BOOLEAN]) /\ next \in Nat
      /\ pool[next] \in Nat
  BY <1>0, <1>2 DEF TxTypes
<1>4. /\ mined' \in Seq([write : Nat, reverted : BOOLEAN]) /\ Len(mined') = next + 1
      /\ DOMAIN mined' = DOMAIN mined \cup {next + 1}
      /\ mined'[next + 1].write = pool[next]
      /\ \A i \in DOMAIN mined : mined'[i] = mined[i] /\ i < next + 1
  <2> DEFINE entry == [write |-> pool[next], reverted |-> reverted]
  <2>1. entry \in [write : Nat, reverted : BOOLEAN] /\ entry.write = pool[next]
    BY <1>3
  <2> HIDE DEF entry
  <2>2. mined' = Append(mined, entry)
    BY <1>1 DEF entry
  <2> QED BY <1>3, <2>1, <2>2
<1>5. \A e \in Senders : Active(e)' <=> Active(e)
  BY DEF Active
<1>6. TxTypes'
  BY <1>0, <1>2, <1>3, <1>4, <1>5 DEF TxTypes
<1>7. Gapless'
  <2> SUFFICES ASSUME ~abandoned PROVE \E top \in Nat : Reaches(top)'
    BY DEF Gapless
  <2>1. PICK top \in Nat : Reaches(top)
    BY <1>0 DEF Gapless
  <2>2. DOMAIN pool = next .. top - 1
    BY <2>1 DEF Reaches
  <2>3. DOMAIN pool' = Len(mined') .. top - 1 /\ top >= Len(mined')
    BY <1>2, <1>3, <1>4, <2>2
  <2>4. \A e \in Senders : tx[e].at = "counting" => tx[e].nonce < Len(mined')
    <3> SUFFICES ASSUME NEW e \in Senders, tx[e].at = "counting"
                 PROVE  tx[e].nonce < Len(mined')
      OBVIOUS
    <3>1. tx[e].nonce # Unseeded /\ tx[e].nonce < next /\ tx[e].nonce \in Nat \cup {Unseeded}
      BY <1>0, <2>1 DEF Reaches, TxTypes, TxSet
    <3> QED BY <1>3, <1>4, <3>1
  <2>5. Reaches(top)'
    BY <1>2, <2>1, <2>3, <2>4 DEF Reaches
  <2> QED BY <2>5
<1>8. \A h : Placed(h)' <=> Placed(h)
  <2>1. \A h : (\E n \in DOMAIN pool : pool[n] = h)
                  <=> h = pool[next] \/ \E n \in DOMAIN pool' : pool'[n] = h
    BY <1>2
  <2>2. \A h : (\E i \in DOMAIN mined' : mined'[i].write = h)
                  <=> h = pool[next] \/ \E i \in DOMAIN mined : mined[i].write = h
    BY <1>4
  <2> QED BY <2>1, <2>2 DEF Placed
<1>9. \A h : Unsent(h)' <=> Unsent(h)
  BY <1>2 DEF Unsent, Queued, Active, Job
<1>10. DOMAIN pool' \subseteq DOMAIN pool /\ \A n \in DOMAIN pool' : n # next /\ pool'[n] = pool[n]
  BY <1>2
<1>11. Once'
  <2>1. \A i, j \in DOMAIN mined' : i # j => mined'[i].write # mined'[j].write
    BY <1>0, <1>2, <1>4 DEF Once
  <2>2. \A n \in DOMAIN pool', i \in DOMAIN mined' : pool'[n] # mined'[i].write
    BY <1>0, <1>2, <1>4, <1>10 DEF Once
  <2> QED BY <1>0, <1>8, <1>9, <1>10, <2>1, <2>2 DEF Once
<1>12. Ordered'
  <2> SUFFICES ASSUME ~abandoned
               PROVE  /\ \A m, n \in DOMAIN pool' : m < n => pool'[m] < pool'[n]
                      /\ \A i, j \in DOMAIN mined' : i < j => mined'[i].write < mined'[j].write
                      /\ \A n \in DOMAIN pool', i \in DOMAIN mined' : mined'[i].write < pool'[n]
    BY <1>0, <1>8, <1>9 DEF Ordered
  <2>1. \A i, j \in DOMAIN mined' : i < j => mined'[i].write < mined'[j].write
    BY <1>0, <1>2, <1>3, <1>4 DEF Ordered
  <2>2. \A n \in DOMAIN pool' : next < n
    BY <1>0, <1>3, <1>10 DEF TxTypes
  <2>3. \A n \in DOMAIN pool', i \in DOMAIN mined' : mined'[i].write < pool'[n]
    BY <1>0, <1>2, <1>4, <1>10, <2>2 DEF Ordered
  <2> QED BY <1>0, <1>10, <2>1, <2>3 DEF Ordered
<1> QED BY <1>6, <1>7, <1>11, <1>12 DEF TxInv
-----------------------------------------------------------------------------
\* A step of sender e, with write h: what becomes of its locals, and that the
\* node takes a transaction only where e offers one.
Offers(e, h) ==
    /\ tx[e].at = "offering" /\ tx[e].nonce >= Len(mined) /\ tx[e].nonce \notin DOMAIN pool
    /\ pool' = Pooled(tx[e].nonce, h)
    /\ tx'[e].at \in {"awaiting", "idle"} /\ tx'[e].nonce \in {tx[e].nonce, 0}
    /\ tx'[e].at = "awaiting" => tx'[e].nonce = tx[e].nonce
    /\ UNCHANGED nonce

\* The locals of sender e change, the others' do not.
LEMMA OneLocal ==
    ASSUME tx \in [Senders -> TxSet], NEW e \in Senders, NEW a, NEW n, NEW g,
           tx' = [tx EXCEPT ![e] = [at |-> a, nonce |-> n, again |-> g]],
           a \in {"idle", "signing", "offering", "awaiting", "counting"},
           n \in Nat \cup {Unseeded}, g \in BOOLEAN
    PROVE  /\ tx' \in [Senders -> TxSet] /\ tx'[e].at = a /\ tx'[e].nonce = n
           /\ \A d \in Senders : d # e => tx'[d] = tx[d]
<1> DEFINE r == [at |-> a, nonce |-> n, again |-> g]
<1>1. r \in TxSet /\ r.at = a /\ r.nonce = n
  BY DEF TxSet
<1>2. tx' = [tx EXCEPT ![e] = r]
  OBVIOUS
<1> HIDE DEF r
<1> QED BY <1>1, <1>2

LEMMA SenderStep ==
    ASSUME TxTypes, NEW e \in Senders, NEW h,
           Sending(e, h) \/ Succeeds(e) \/ Raises(e, h)
    PROVE  /\ tx' \in [Senders -> TxSet] /\ nonce' \in Nat \cup {Unseeded}
           /\ \A d \in Senders : d # e => tx'[d] = tx[d]
           /\ UNCHANGED mined
           /\ \/ UNCHANGED pool /\ (tx'[e].at \in Fresh \ {"idle"} => tx[e].at \in Fresh)
              \/ Offers(e, h)
           /\ Succeeds(e) \/ Raises(e, h) => tx'[e].at = "idle"
<1>0. /\ nonce \in Nat \cup {Unseeded} /\ tx \in [Senders -> TxSet]
      /\ tx[e].nonce \in Nat \cup {Unseeded} /\ tx[e].again \in BOOLEAN
      /\ 0 \in Nat \cup {Unseeded}
  BY DEF TxTypes, TxSet
<1>1. ReadCount => nonce' \in Nat \cup {Unseeded}
  BY DEF ReadCount
<1>2. tx' = [tx EXCEPT ![e] = NoTx] =>
         /\ tx' \in [Senders -> TxSet] /\ tx'[e].at = "idle" /\ tx'[e].nonce = 0
         /\ \A d \in Senders : d # e => tx'[d] = tx[d]
  BY <1>0, OneLocal DEF NoTx
<1>3. CASE Succeeds(e)
  <2>1. tx[e].at = "counting" /\ nonce' = tx[e].nonce + 1
        /\ tx' = [tx EXCEPT ![e] = NoTx] /\ UNCHANGED <<pool, mined>>
    BY <1>3 DEF Succeeds, At
  <2>2. nonce' \in Nat \cup {Unseeded}
    BY <1>0, <2>1 DEF Unseeded
  <2> QED BY <1>2, <2>1, <2>2
<1>4. CASE Raises(e, h)
  <2>1. tx' = [tx EXCEPT ![e] = NoTx] /\ UNCHANGED <<nonce, mined>>
    BY <1>4 DEF Raises
  <2>2. \/ UNCHANGED pool
        \/ /\ tx[e].at = "offering" /\ tx[e].nonce >= Len(mined)
           /\ tx[e].nonce \notin DOMAIN pool /\ pool' = Pooled(tx[e].nonce, h)
    BY <1>4 DEF Raises, At
  <2> QED BY <1>0, <1>2, <2>1, <2>2 DEF Offers
<1>5. CASE Sending(e, h) /\ ~Succeeds(e) /\ ~Raises(e, h)
  <2>1. CASE Seed(e)
    <3>1. /\ Goes(e, "signing", tx[e].nonce) /\ tx[e].at = "idle" /\ UNCHANGED <<pool, mined>>
          /\ nonce' \in Nat \cup {Unseeded}
      BY <1>0, <1>1, <2>1 DEF Seed, At
    <3> QED BY <1>0, <1>5, <3>1, OneLocal DEF Goes, Fresh
  <2>2. CASE Sign(e)
    <3>1. /\ Goes(e, "offering", nonce) /\ tx[e].at = "signing"
          /\ UNCHANGED <<nonce, pool, mined>>
      BY <2>2 DEF Sign, At
    <3> QED BY <1>0, <1>5, <3>1, OneLocal DEF Goes, Fresh
  <2>3. CASE Accepted(e, h)
    <3>1. /\ Goes(e, "awaiting", tx[e].nonce) /\ tx[e].at = "offering"
          /\ tx[e].nonce >= Len(mined) /\ tx[e].nonce \notin DOMAIN pool
          /\ pool' = Pooled(tx[e].nonce, h) /\ UNCHANGED <<nonce, mined>>
      BY <2>3 DEF Accepted, At
    <3> QED BY <1>0, <1>5, <3>1, OneLocal DEF Goes, Offers
  <2>4. CASE TooLow(e)
    <3>1. /\ tx' = [tx EXCEPT ![e] = [at |-> "signing", nonce |-> tx[e].nonce, again |-> TRUE]]
          /\ tx[e].at = "offering" /\ UNCHANGED <<pool, mined>>
          /\ nonce' \in Nat \cup {Unseeded}
      BY <1>1, <2>4 DEF TooLow, At
    <3> QED BY <1>0, <1>5, <3>1, OneLocal DEF Fresh
  <2>5. CASE Receipt(e, h)
    <3>1. /\ Goes(e, "counting", nonce) /\ UNCHANGED <<nonce, pool, mined>>
      BY <2>5 DEF Receipt
    <3> QED BY <1>0, <1>5, <3>1, OneLocal DEF Goes, Fresh
  <2> QED BY <1>5, <2>1, <2>2, <2>3, <2>4, <2>5 DEF Sending
<1> QED BY <1>3, <1>4, <1>5

\* The node's pool with one more transaction.
LEMMA PooledHolds ==
    ASSUME NEW n, NEW h, n \notin DOMAIN pool, pool' = Pooled(n, h)
    PROVE  /\ DOMAIN pool' = DOMAIN pool \cup {n} /\ pool'[n] = h
           /\ \A m \in DOMAIN pool : m # n /\ pool'[m] = pool[m]
BY DEF Pooled

\* The counter never runs ahead of the node, whatever the sender meets.
LEMMA SendGapless ==
    ASSUME OneCaller, SoleInv, TxInv, ~abandoned, NEW e \in Senders, Active(e), NEW h,
           Sending(e, h) \/ Succeeds(e) \/ Raises(e, h)
    PROVE  \E top \in Nat : Reaches(top)'
<1>0. TxTypes /\ Gapless /\ tx \in [Senders -> TxSet] /\ Unseeded = -1
      /\ nonce \in Int /\ tx[e].nonce \in Int /\ Len(mined) \in Nat
  BY DEF TxInv, TxTypes, TxSet, Unseeded
<1>1. PICK top \in Nat : Reaches(top)
  BY <1>0 DEF Gapless
<1>2. PendingCount = top
  BY <1>0, <1>1, CountReaches
<1>3. /\ \A d \in Senders : d # e => tx'[d].at = "idle"
      /\ tx' \in [Senders -> TxSet] /\ UNCHANGED mined
  <2>1. \A d \in Senders : d # e => tx[d].at = "idle"
    BY <1>0, OneSender DEF TxTypes
  <2> QED BY <1>0, <2>1, SenderStep
<1>4. ASSUME NEW t \in Nat, t >= Len(mined), DOMAIN pool' = Len(mined) .. t - 1, nonce' <= t,
             tx'[e].at = "signing" => nonce' # Unseeded,
             tx'[e].at \in {"offering", "awaiting"} =>
                tx'[e].nonce = nonce' /\ nonce' # Unseeded,
             tx'[e].at = "counting" => tx'[e].nonce # Unseeded /\ tx'[e].nonce < Len(mined)
      PROVE  Reaches(t)'
  <2>1. \A d \in Senders : d # e => tx'[d].at \notin {"signing", "offering", "awaiting", "counting"}
    BY <1>3
  <2> QED BY <1>3, <1>4, <2>1 DEF Reaches
<1>5. /\ top >= Len(mined) /\ DOMAIN pool = Len(mined) .. top - 1 /\ nonce <= top
      /\ tx[e].at = "signing" => nonce # Unseeded
      /\ tx[e].at \in {"offering", "awaiting"} => tx[e].nonce = nonce /\ nonce # Unseeded
      /\ tx[e].at = "counting" => tx[e].nonce # Unseeded /\ tx[e].nonce < Len(mined)
  BY <1>1 DEF Reaches
<1>6. ReadCount => nonce' <= top /\ nonce' # Unseeded
  BY <1>0, <1>2 DEF ReadCount
<1>7. tx' = [tx EXCEPT ![e] = NoTx] => tx'[e].at = "idle"
  BY <1>0 DEF NoTx
<1>8. ASSUME tx[e].at = "offering", tx[e].nonce >= Len(mined), tx[e].nonce \notin DOMAIN pool,
             pool' = Pooled(tx[e].nonce, h)
      PROVE  DOMAIN pool' = Len(mined) .. (top + 1) - 1
  <2>1. tx[e].nonce = top
    BY <1>0, <1>5, <1>8
  <2>2. DOMAIN pool' = DOMAIN pool \cup {top}
    BY <1>8, <2>1, PooledHolds
  <2>3. \A a \in Nat : top >= a => (a .. top - 1) \cup {top} = a .. (top + 1) - 1
    OBVIOUS
  <2> QED BY <1>0, <1>5, <2>2, <2>3
<1>9. \A a, n : Goes(e, a, n) => tx'[e].at = a /\ tx'[e].nonce = n
  BY <1>0 DEF Goes
<1>10. CASE Seed(e)
  <2>1. Goes(e, "signing", tx[e].nonce) /\ UNCHANGED pool
        /\ IF nonce = Unseeded THEN ReadCount ELSE UNCHANGED nonce
    BY <1>10 DEF Seed
  <2>2. tx'[e].at = "signing"
    BY <1>9, <2>1
  <2>3. nonce' <= top /\ nonce' # Unseeded
    BY <1>5, <1>6, <2>1
  <2> QED BY <1>4, <1>5, <2>1, <2>2, <2>3
<1>11. CASE Sign(e)
  <2>1. tx'[e].at = "offering" /\ tx'[e].nonce = nonce /\ UNCHANGED <<nonce, pool>>
        /\ tx[e].at = "signing"
    BY <1>9, <1>11 DEF Sign, At
  <2> QED BY <1>4, <1>5, <2>1
<1>12. CASE Accepted(e, h)
  <2>1. /\ tx'[e].at = "awaiting" /\ tx'[e].nonce = tx[e].nonce /\ UNCHANGED nonce
        /\ tx[e].at = "offering" /\ DOMAIN pool' = Len(mined) .. (top + 1) - 1
    BY <1>8, <1>9, <1>12 DEF Accepted, At
  <2>2. top + 1 \in Nat /\ top + 1 >= Len(mined) /\ nonce' <= top + 1
    BY <1>0, <1>5, <2>1
  <2> QED BY <1>4, <1>5, <2>1, <2>2
<1>13. CASE TooLow(e)
  <2>1. tx'[e].at = "signing" /\ nonce' <= top /\ nonce' # Unseeded /\ UNCHANGED pool
    BY <1>0, <1>6, <1>13 DEF TooLow
  <2> QED BY <1>4, <1>5, <2>1
<1>14. CASE Receipt(e, h)
  <2>1. tx'[e].at = "counting" /\ tx'[e].nonce = nonce /\ UNCHANGED <<nonce, pool>>
        /\ tx[e].at = "awaiting" /\ tx[e].nonce < Len(mined)
    BY <1>9, <1>14 DEF Receipt, At
  <2> QED BY <1>4, <1>5, <2>1
<1>15. CASE Succeeds(e)
  <2>1. tx'[e].at = "idle" /\ nonce' = tx[e].nonce + 1 /\ UNCHANGED pool
        /\ tx[e].at = "counting"
    BY <1>7, <1>15 DEF Succeeds, At
  <2>2. nonce' <= top
    BY <1>0, <1>5, <2>1
  <2> QED BY <1>4, <1>5, <2>1, <2>2
<1>16. CASE Raises(e, h)
  <2>1. tx'[e].at = "idle" /\ UNCHANGED nonce
    BY <1>7, <1>16 DEF Raises
  <2>2. CASE UNCHANGED pool
    BY <1>4, <1>5, <2>1, <2>2
  <2>3. CASE DOMAIN pool' = Len(mined) .. (top + 1) - 1
    <3>1. top + 1 \in Nat /\ top + 1 >= Len(mined) /\ nonce' <= top + 1
      BY <1>0, <1>5, <2>1
    <3> QED BY <1>4, <2>1, <2>3, <3>1
  <2> QED BY <1>8, <1>16, <2>2, <2>3 DEF Raises, At
<1> QED BY <1>10, <1>11, <1>12, <1>13, <1>14, <1>15, <1>16 DEF Sending

\* Its transaction is the sender's own, and newer than any before it.
LEMMA SendOnce ==
    ASSUME OneCaller, SoleInv, TxInv, NEW e \in Senders, Active(e),
           Sending(e, Job(e)) \/ Succeeds(e) \/ Raises(e, Job(e)),
           UNCHANGED <<queue, owner, abandoned>>,
           \A c \in Callers : pc'[c] = "appending" => pc[c] = "appending" /\ arg'[c] = arg[c],
           \A d \in Senders : d # e => (Active(d)' <=> Active(d)) /\ Job(d)' = Job(d),
           Active(e)' => Job(e)' = Job(e) /\ tx'[e].at # "idle"
    PROVE  Once' /\ Ordered'
<1>01. Job(e) \in Nat
  BY OwnJob DEF Submitted
<1>02. PICK own \in Nat : own = Job(e)
  BY <1>01
<1>0. /\ TxTypes /\ Once /\ Ordered /\ own \in Nat /\ own = Job(e)
  BY <1>02 DEF TxInv
<1>1. /\ UNCHANGED mined /\ \A d \in Senders : d # e => tx'[d] = tx[d]
      /\ \/ UNCHANGED pool /\ (tx'[e].at \in Fresh \ {"idle"} => tx[e].at \in Fresh)
         \/ Offers(e, own)
  BY <1>0, SenderStep
<1>2. \A h \in Nat : Unsent(h)' => Unsent(h) \/ (h = own /\ Active(e)' /\ tx'[e].at \in Fresh)
  <2> SUFFICES ASSUME NEW h \in Nat, Unsent(h)', ~Unsent(h)
               PROVE  h = own /\ Active(e)' /\ tx'[e].at \in Fresh
    OBVIOUS
  <2>1. ~Queued(h)' /\ ~(h > Len(owner'))
        /\ ~\E c \in Callers : pc'[c] = "appending" /\ arg'[c] = <<h>>
    BY DEF Unsent, Queued
  <2>2. PICK d \in Senders : Active(d)' /\ Job(d)' = h /\ tx'[d].at \in Fresh
    BY <2>1 DEF Unsent
  <2>3. d = e
    BY <1>1, <2>2 DEF Unsent
  <2> QED BY <1>0, <2>2, <2>3
<1>3. CASE UNCHANGED pool /\ (tx'[e].at \in Fresh \ {"idle"} => tx[e].at \in Fresh)
  <2>1. \A h \in Nat : Unsent(h)' => Unsent(h)
    BY <1>0, <1>2, <1>3 DEF Unsent
  <2>2. \A h : Placed(h)' <=> Placed(h)
    BY <1>1, <1>3 DEF Placed
  <2>3. Once'
    BY <1>0, <1>1, <1>3, <2>1, <2>2 DEF Once
  <2>4. Ordered'
    BY <1>0, <1>1, <1>3, <2>1, <2>2 DEF Ordered
  <2> QED BY <2>3, <2>4
<1>4. CASE Offers(e, own)
  <2> DEFINE n == tx[e].nonce
  <2>1. /\ n \notin DOMAIN pool /\ pool' = Pooled(n, own) /\ n >= Len(mined)
        /\ tx[e].at = "offering" /\ tx'[e].at \in {"awaiting", "idle"}
    BY <1>4 DEF Offers
  <2>2. DOMAIN pool' = DOMAIN pool \cup {n} /\ pool'[n] = own
        /\ \A m \in DOMAIN pool : m # n /\ pool'[m] = pool[m]
    BY <2>1, PooledHolds
  <2>3. Unsent(own)
    BY <1>0, <2>1 DEF Unsent, Fresh
  <2>4. ~Placed(own)
    BY <1>0, <2>3 DEF Once
  <2>5. \A h : Placed(h)' => Placed(h) \/ h = own
    BY <1>1, <2>2 DEF Placed
  <2>6. \A h \in Nat : Unsent(h)' => Unsent(h) /\ h # own
    <3>1. ~(Active(e)' /\ tx'[e].at \in Fresh)
      BY <2>1 DEF Fresh
    <3>2. ~Unsent(own)'
      <4> SUFFICES ASSUME Unsent(own)' PROVE FALSE
        OBVIOUS
      <4>1. /\ ~Queued(own) /\ ~(own > Len(owner))
            /\ ~\E c \in Callers : pc[c] = "appending" /\ arg[c] = <<own>>
            /\ \A d \in Senders : Active(d) /\ Job(d) = own => d = e
        BY OwnJob, <1>0 DEF Submitted
      <4>2. ~Queued(own)' /\ ~(own > Len(owner'))
            /\ ~\E c \in Callers : pc'[c] = "appending" /\ arg'[c] = <<own>>
        <5>1. ~Queued(own)' /\ ~(own > Len(owner'))
          BY <4>1 DEF Queued
        <5>2. ASSUME NEW c \in Callers, pc'[c] = "appending" PROVE arg'[c] # <<own>>
          <6>1. pc[c] = "appending" /\ arg'[c] = arg[c]
            BY <5>2
          <6>2. arg[c] # <<own>>
            BY <4>1, <6>1
          <6> QED BY <6>1, <6>2
        <5> QED BY <5>1, <5>2
      <4>3. ASSUME NEW d \in Senders, Active(d)', Job(d)' = own PROVE tx'[d].at \notin Fresh
        <5>1. CASE d = e
          BY <3>1, <4>3, <5>1
        <5>2. CASE d # e
          <6>1. (Active(d)' <=> Active(d)) /\ Job(d)' = Job(d)
            BY <5>2
          <6>2. Active(d) /\ Job(d) = own
            BY <4>3, <6>1
          <6> QED BY <4>1, <5>2, <6>2
        <5> QED BY <5>1, <5>2
      <4> QED BY <4>2, <4>3 DEF Unsent
    <3> QED BY <1>2, <3>1, <3>2
  <2>7. Once'
    <3>1. \A h \in Nat : ~(Unsent(h)' /\ Placed(h)')
      BY <1>0, <2>5, <2>6 DEF Once
    <3>2. \A i, j \in DOMAIN pool' : i # j => pool'[i] # pool'[j]
      BY <1>0, <2>2, <2>4 DEF Once, Placed
    <3>3. \A m \in DOMAIN pool', i \in DOMAIN mined' : pool'[m] # mined'[i].write
      BY <1>0, <1>1, <2>2, <2>4 DEF Once, Placed
    <3> QED BY <1>0, <1>1, <3>1, <3>2, <3>3 DEF Once
  <2>8. Ordered'
    <3> SUFFICES ASSUME ~abandoned
                 PROVE  /\ \A g, h \in Nat : Placed(g)' /\ Unsent(h)' => g < h
                        /\ \A i, j \in DOMAIN pool' : i < j => pool'[i] < pool'[j]
                        /\ \A m \in DOMAIN pool', i \in DOMAIN mined' :
                              mined'[i].write < pool'[m]
      BY <1>0, <1>1 DEF Ordered
    <3>1. \A h \in Nat : Unsent(h) /\ h # own => own < h
      BY <1>0, OneSender
    <3>2. \A g \in Nat : Placed(g) => g < own
      BY <1>0, <2>3 DEF Ordered
    <3>3. \A g, h \in Nat : Placed(g)' /\ Unsent(h)' => g < h
      BY <1>0, <2>5, <2>6, <3>1 DEF Ordered
    <3>4. PICK top \in Nat : Reaches(top)
      BY DEF TxInv, Gapless
    <3>5. \A m \in DOMAIN pool : m < n
      BY <1>0, <2>1, <3>4 DEF Reaches, TxTypes, TxSet, Unseeded
    <3>6. \A m \in DOMAIN pool : pool[m] \in Nat /\ m \in Nat /\ Placed(pool[m])
      BY <1>0 DEF TxTypes, Placed
    <3>7. n \in Int
      BY <1>0 DEF TxTypes, TxSet, Unseeded
    <3>8. \A i, j \in DOMAIN pool' : i < j => pool'[i] < pool'[j]
      BY <1>0, <2>2, <3>2, <3>5, <3>6, <3>7 DEF Ordered
    <3>9. \A i \in DOMAIN mined : mined[i].write \in Nat /\ Placed(mined[i].write)
      <4> SUFFICES ASSUME NEW i \in DOMAIN mined
                   PROVE  mined[i].write \in Nat /\ Placed(mined[i].write)
        OBVIOUS
      <4>1. mined[i] \in [write : Nat, reverted : BOOLEAN]
        <5>1. \A S : \A s \in Seq(S) : \A k \in DOMAIN s : s[k] \in S
          OBVIOUS
        <5>2. mined \in Seq([write : Nat, reverted : BOOLEAN])
          BY <1>0 DEF TxTypes
        <5> QED BY <5>1, <5>2
      <4>2. mined[i].write \in Nat
        BY <4>1
      <4>3. Placed(mined[i].write)
        BY DEF Placed
      <4> QED BY <4>2, <4>3
    <3>10. \A m \in DOMAIN pool', i \in DOMAIN mined' : mined'[i].write < pool'[m]
      BY <1>0, <1>1, <2>2, <3>2, <3>9 DEF Ordered
    <3> QED BY <3>3, <3>8, <3>10
  <2> QED BY <2>7, <2>8
<1> QED BY <1>1, <1>3, <1>4

LEMMA SendingIsNotIdle ==
    ASSUME TxTypes, NEW e \in Senders, NEW h, Sending(e, h)
    PROVE  tx'[e].at # "idle"
<1>1. \A a, n : Goes(e, a, n) => tx'[e].at = a
  BY DEF Goes, TxTypes
<1>2. \E a, n : (Goes(e, a, n) /\ a # "idle") \/ TooLow(e)
  <2>1. \/ Goes(e, "signing", tx[e].nonce) \/ Goes(e, "offering", nonce)
        \/ Goes(e, "awaiting", tx[e].nonce) \/ Goes(e, "counting", nonce) \/ TooLow(e)
    BY DEF Sending, Seed, Sign, Accepted, Receipt
  <2> QED BY <2>1
<1>3. TooLow(e) => tx'[e].at = "signing"
  BY DEF TooLow, TxTypes
<1> QED BY <1>1, <1>2, <1>3

\* Any step of a sender with its own write.
LEMMA TxSend ==
    ASSUME OneCaller, SoleInv, TxInv, NEW e \in Senders, Active(e),
           UNCHANGED <<queue, owner, abandoned>>,
           \A c \in Callers : pc'[c] = "appending" => pc[c] = "appending" /\ arg'[c] = arg[c],
           \A d \in Senders : d # e => (Active(d)' <=> Active(d)) /\ Job(d)' = Job(d),
           \/ Sending(e, Job(e)) /\ Active(e)' /\ Job(e)' = Job(e)
           \/ (Succeeds(e) \/ Raises(e, Job(e))) /\ ~Active(e)'
    PROVE  TxInv'
<1>0. TxTypes /\ Job(e) \in Nat
  BY OwnJob DEF TxInv, Submitted
<1>1. Sending(e, Job(e)) \/ Succeeds(e) \/ Raises(e, Job(e))
  OBVIOUS
<1>2. Active(e)' => Job(e)' = Job(e) /\ tx'[e].at # "idle"
  BY <1>0, SendingIsNotIdle
<1>3. Once' /\ Ordered'
  BY <1>1, <1>2, SendOnce
<1>4. Gapless'
  BY <1>1, SendGapless DEF Gapless
<1>5. /\ tx' \in [Senders -> TxSet] /\ nonce' \in Nat \cup {Unseeded} /\ UNCHANGED mined
      /\ \A d \in Senders : d # e => tx'[d] = tx[d]
      /\ UNCHANGED pool \/ Offers(e, Job(e))
      /\ ~Active(e)' => tx'[e].at = "idle"
  BY <1>0, <1>1, SenderStep
<1>6. ASSUME NEW d \in Senders, ~Active(d)' PROVE tx'[d].at = "idle"
  BY <1>0, <1>5, <1>6 DEF TxTypes
<1>7. /\ DOMAIN pool' \subseteq Nat
      /\ \A n \in DOMAIN pool' : n >= Len(mined') /\ pool'[n] \in Nat
  <2>1. CASE UNCHANGED pool
    BY <1>0, <1>5, <2>1 DEF TxTypes
  <2>2. CASE Offers(e, Job(e))
    <3>1. tx[e].nonce >= Len(mined) /\ tx[e].nonce \notin DOMAIN pool
          /\ pool' = Pooled(tx[e].nonce, Job(e))
      BY <2>2 DEF Offers
    <3>2. tx[e].nonce \in Nat
      BY <1>0, <3>1 DEF TxTypes, TxSet, Unseeded
    <3>3. /\ DOMAIN pool' = DOMAIN pool \cup {tx[e].nonce} /\ pool'[tx[e].nonce] = Job(e)
          /\ \A m \in DOMAIN pool : pool'[m] = pool[m]
      BY <3>1, PooledHolds
    <3> QED BY <1>0, <1>5, <3>1, <3>2, <3>3 DEF TxTypes
  <2> QED BY <1>5, <2>1, <2>2
<1>8. TxTypes'
  BY <1>0, <1>5, <1>6, <1>7 DEF TxTypes
<1> QED BY <1>3, <1>4, <1>8 DEF TxInv

-----------------------------------------------------------------------------
\* The worker's steps.
LEMMA TxWork ==
    ASSUME OneCaller, SoleInv, TxInv, NEW w \in Workers, Work(w)
    PROVE  TxInv'
<1>0. /\ Types /\ OneWorker /\ TxTypes /\ w \in Senders
      /\ thread \in [Workers -> [at : Stages, job : Nat]]
  BY DEF SoleInv, DrainInv, TxInv, Senders, Types
<1>1. CASE Take(w)
  <2>1. /\ thread[w].at = "waiting" /\ queue # <<>> /\ queue' = Tail(queue)
        /\ thread' = [thread EXCEPT ![w] = [at |-> "running", job |-> Head(queue)]]
        /\ UNCHANGED <<pc, arg, owner, abandoned, senderVars>>
    BY <1>1 DEF Take
  <2>2. /\ thread'[w] = [at |-> "running", job |-> Head(queue)]
        /\ \A v \in Workers : v # w => thread'[v] = thread[v]
    BY <1>0, <2>1
  <2>3. queue \in Seq(Submitted)
    BY <1>0 DEF Types
  <2>4. \A h : Queued(h)' => Queued(h)
    <3>1. \A i \in DOMAIN queue' : i + 1 \in DOMAIN queue /\ queue'[i] = queue[i + 1]
      BY <2>1, <2>3
    <3> QED BY <3>1 DEF Queued
  <2>5. Queued(Head(queue))
    <3>1. 1 \in DOMAIN queue /\ Head(queue) = queue[1]
      BY <2>1, <2>3
    <3> QED BY <3>1 DEF Queued
  <2>6. \A e \in Senders : Active(e) => Active(e)'
    BY <2>1, <2>2 DEF Active
  <2>7. \A e \in Senders : Active(e)' => (Active(e) /\ Job(e)' = Job(e)) \/ Job(e)' = Head(queue)
    BY <2>1, <2>2 DEF Active, Job
  <2>8. \A h \in Nat : Unsent(h)' => Unsent(h)
    BY <2>1, <2>4, <2>5, <2>7 DEF Unsent, senderVars
  <2> QED BY <2>1, <2>6, <2>8, TxKept
<1>2. CASE Run(w)
  <2>1. Active(w) /\ Job(w) = thread[w].job /\ UNCHANGED <<queue, pc, arg, owner, abandoned>>
    BY <1>2 DEF Run, Active, Job
  <2>2. CASE Sending(w, thread[w].job) /\ UNCHANGED thread
    <3>1. \A d \in Senders : (Active(d)' <=> Active(d)) /\ Job(d)' = Job(d)
      BY <2>1, <2>2 DEF Active, Job
    <3> QED BY <1>0, <2>1, <2>2, <3>1, TxSend
  <2>3. CASE /\ Succeeds(w) \/ Raises(w, thread[w].job)
             /\ thread' = [thread EXCEPT ![w].at = "clearing"]
    <3>1. thread'[w].at = "clearing" /\ \A v \in Workers : v # w => thread'[v] = thread[v]
      BY <1>0, <2>3
    <3>2. \A d \in Senders : d # w => (Active(d)' <=> Active(d)) /\ Job(d)' = Job(d)
      BY <2>1, <3>1 DEF Active, Job
    <3>3. ~Active(w)'
      BY <3>1 DEF Active
    <3> QED BY <1>0, <2>1, <2>3, <3>2, <3>3, TxSend
  <2> QED BY <1>2, <2>2, <2>3 DEF Run, JobGoesOn, JobResolves
<1>3. CASE Clear(w) \/ Exit(w)
  <2>1. /\ thread[w].at \in {"clearing", "waiting"}
        /\ UNCHANGED <<queue, pc, arg, owner, abandoned, senderVars>>
    BY <1>3 DEF Clear, Exit
  <2>2. /\ thread'[w].at \in {"waiting", "exited"}
        /\ \A v \in Workers : v # w => thread'[v] = thread[v]
    <3>1. CASE Clear(w)
      <4>1. thread' = [thread EXCEPT ![w] = [at |-> "waiting", job |-> 0]]
        BY <3>1 DEF Clear
      <4> QED BY <1>0, <4>1
    <3>2. CASE Exit(w)
      <4>1. thread' = [thread EXCEPT ![w].at = "exited"]
        BY <3>2 DEF Exit
      <4> QED BY <1>0, <4>1
    <3> QED BY <1>3, <3>1, <3>2
  <2>3. \A e \in Senders : Active(e)' <=> Active(e)
    BY <2>1, <2>2 DEF Active
  <2>4. \A e \in Senders : Active(e) => Job(e)' = Job(e)
    BY <2>1, <2>2 DEF Active, Job
  <2>5. \A h \in Nat : Unsent(h)' => Unsent(h)
    BY <2>1, <2>3, <2>4 DEF Unsent, Queued, senderVars
  <2> QED BY <2>1, <2>3, <2>5, TxKept
<1> QED BY <1>1, <1>2, <1>3 DEF Work

\* The caller's steps: where a caller has nothing to send before and after.
LEMMA TxMoves ==
    ASSUME TxInv, Types, NEW c \in Callers, NEW place, NEW local,
           pc[c] \notin {"appending", "inline"}, place \notin {"appending", "inline"},
           Goto(c, place, local), abandoned => abandoned',
           UNCHANGED <<queue, owner, senderVars>>,
           \A w \in Workers : /\ Active(w)' <=> Active(w)
                              /\ Active(w) => Job(w)' = Job(w)
    PROVE  TxInv'
<1>1. /\ pc'[c] = place /\ \A d \in Callers : d # c => pc'[d] = pc[d] /\ arg'[d] = arg[d]
  BY DEF Goto, Types
<1>2. \A d \in Callers : /\ Active(d)' <=> Active(d)
                         /\ Active(d) => Job(d)' = Job(d)
  BY <1>1, CallersAreNoWorkers DEF Active, Job
<1>3. \A d \in Callers : pc'[d] = "appending" => pc[d] = "appending" /\ arg'[d] = arg[d]
  BY <1>1
<1>4. \A e \in Senders : /\ Active(e)' <=> Active(e)
                         /\ Active(e) => Job(e)' = Job(e)
  BY <1>2 DEF Senders
<1>5. ASSUME NEW h \in Nat, Unsent(h)' PROVE Unsent(h)
  <2>1. Queued(h)' => Queued(h)
    BY DEF Queued
  <2>2. ASSUME NEW d \in Callers, pc'[d] = "appending", arg'[d] = <<h>>
        PROVE  Unsent(h)
    BY <1>3, <2>2 DEF Unsent
  <2>3. ASSUME NEW e \in Senders, Active(e)', Job(e)' = h, tx'[e].at \in Fresh
        PROVE  Unsent(h)
    BY <1>4, <2>3 DEF Unsent, senderVars
  <2> QED BY <1>5, <2>1, <2>2, <2>3 DEF Unsent
<1> QED BY <1>4, <1>5, TxKept

LEMMA TxLifecycle ==
    ASSUME OneCaller, SoleInv, TxInv, NEW c \in Callers,
           Start(c) \/ StartFails(c) \/ StartSpawns(c) \/ CloseSignals(c) \/ CloseJoins(c)
             \/ FlushLooks(c) \/ FlushAwaits(c) \/ FlushTimesOut(c)
    PROVE  TxInv'
<1>0. Types /\ thread \in [Workers -> [at : Stages, job : Nat]]
  BY DEF SoleInv, DrainInv, Types
<1>1. pc[c] \notin {"appending", "inline"}
  BY DEF Start, StartFails, StartSpawns, CloseSignals, CloseJoins, FlushLooks, FlushAwaits,
         FlushTimesOut, NotCalling
<1>2. \E place, local : Goto(c, place, local) /\ place \notin {"appending", "inline"}
  <2>1. \E local : \E place \in {"starting", "idle", "joining", "flushed", "awaiting", "looking"} :
           Goto(c, place, local)
    BY DEF Start, StartFails, StartSpawns, CloseSignals, CloseJoins, FlushLooks, FlushAwaits,
           FlushTimesOut
  <2> QED BY <2>1
<1>3. (abandoned => abandoned') /\ UNCHANGED <<queue, owner, senderVars>>
  <2>1. CASE CloseJoins(c)
    BY <2>1 DEF CloseJoins
  <2>2. CASE UNCHANGED abandoned
    BY <2>2 DEF Start, StartFails, StartSpawns, CloseSignals, CloseJoins, FlushLooks,
                FlushAwaits, FlushTimesOut
  <2> QED BY <2>1, <2>2 DEF Start, StartFails, StartSpawns, CloseSignals, FlushLooks,
                            FlushAwaits, FlushTimesOut
<1>4. ASSUME NEW w \in Workers
      PROVE  (Active(w)' <=> Active(w)) /\ (Active(w) => Job(w)' = Job(w))
  <2>1. CASE StartSpawns(c)
    <3>1. PICK v \in Workers : /\ thread[v].at = "unborn"
                               /\ thread' = [thread EXCEPT ![v].at = "waiting"]
      BY <2>1 DEF StartSpawns
    <3>2. thread'[v].at = "waiting" /\ (w # v => thread'[w] = thread[w])
      BY <1>0, <3>1
    <3> QED BY <3>1, <3>2 DEF Active, Job
  <2>2. CASE UNCHANGED thread
    BY <2>2 DEF Active, Job
  <2> QED BY <2>1, <2>2 DEF Start, StartFails, CloseSignals, CloseJoins, FlushLooks,
                            FlushAwaits, FlushTimesOut
<1> QED BY <1>0, <1>1, <1>2, <1>3, <1>4, TxMoves

LEMMA TxWrite ==
    ASSUME OneCaller, SoleInv, TxInv, NEW c \in Callers,
           Submit(c) \/ AppendJob(c) \/ RunInline(c)
    PROVE  TxInv'
<1>0. /\ Types /\ TxTypes /\ c \in Senders /\ c \notin Workers
      /\ \A d \in Callers : d = c
      /\ pc \in [Callers -> Places] /\ DOMAIN arg = Callers /\ Len(owner) \in Nat
      /\ \A d \in Senders : d # c => d \in Workers
  BY CallersAreNoWorkers DEF SoleInv, DrainInv, TxInv, Senders, Types, OneCaller
<1>1. ASSUME UNCHANGED thread
      PROVE  \A d \in Senders : d # c => (Active(d)' <=> Active(d)) /\ Job(d)' = Job(d)
  BY <1>0, <1>1 DEF Active, Job
<1>2. CASE Submit(c)
  <2>1. PICK place \in {"inline", "appending"} :
           /\ pc' = [pc EXCEPT ![c] = place]
           /\ arg' = [arg EXCEPT ![c] = <<Len(owner) + 1>>]
    BY <1>2 DEF Submit, Goto
  <2>2. /\ owner' = Append(owner, c) /\ pc[c] \in {"idle", "flushed"}
        /\ UNCHANGED <<queue, thread, abandoned, senderVars>>
    BY <1>2 DEF Submit, NotCalling
  <2>3. arg'[c] = <<Len(owner) + 1>> /\ Len(owner') = Len(owner) + 1
    <3>1. owner \in Seq(Callers)
      BY <1>0 DEF Types
    <3> QED BY <1>0, <2>1, <2>2, <3>1
  <2>4. \A e \in Senders : Active(e) => Active(e)'
    BY <1>0, <1>1, <2>2 DEF Active
  <2>5. ASSUME NEW h \in Nat, Unsent(h)' PROVE Unsent(h)
    <3>1. h = Len(owner) + 1 => h > Len(owner)
      BY <1>0
    <3>2. h > Len(owner') => h > Len(owner)
      BY <1>0, <2>3
    <3>3. Queued(h)' => Queued(h)
      BY <2>2 DEF Queued
    <3>4. ASSUME NEW d \in Callers, arg'[d] = <<h>>
          PROVE  h = Len(owner) + 1
      BY <1>0, <2>3, <3>4
    <3>5. ASSUME NEW e \in Senders, Active(e)', Job(e)' = h, tx'[e].at \in Fresh
          PROVE  Unsent(h)
      <4>1. CASE e = c
        <5>1. h = Len(owner) + 1
          BY <1>0, <2>3, <3>5, <4>1 DEF Job
        <5> QED BY <3>1, <5>1 DEF Unsent
      <4>2. CASE e # c
        <5>1. (Active(e)' <=> Active(e)) /\ Job(e)' = Job(e)
          BY <1>1, <2>2, <4>2
        <5> QED BY <2>2, <3>5, <5>1 DEF Unsent, senderVars
      <4> QED BY <4>1, <4>2
    <3> QED BY <2>5, <3>1, <3>2, <3>3, <3>4, <3>5 DEF Unsent
  <2> QED BY <2>2, <2>4, <2>5, TxKept
<1>3. CASE AppendJob(c)
  <2>1. /\ pc[c] = "appending" /\ queue' = Append(queue, arg[c][1])
        /\ pc' = [pc EXCEPT ![c] = "idle"]
        /\ UNCHANGED <<thread, owner, abandoned, senderVars>>
    BY <1>3 DEF AppendJob, Goto
  <2>2. PICK h \in Submitted : arg[c] = <<h>>
    BY <1>0, <2>1 DEF Types
  <2>3. queue \in Seq(Submitted) /\ queue' = Append(queue, h)
    BY <1>0, <2>1, <2>2 DEF Types
  <2>4. \A g : Queued(g)' => Queued(g) \/ g = h
    <3>1. \A i \in DOMAIN queue' : queue'[i] = h \/ (i \in DOMAIN queue /\ queue'[i] = queue[i])
      BY <2>3
    <3> QED BY <3>1 DEF Queued
  <2>5. pc'[c] = "idle"
    BY <1>0, <2>1
  <2>6. ~Active(c) /\ ~Active(c)'
    BY <1>0, <2>1, <2>5 DEF Active
  <2>7. \A e \in Senders : (Active(e)' <=> Active(e)) /\ (Active(e) => Job(e)' = Job(e))
    BY <1>1, <2>1, <2>6
  <2>8. ASSUME NEW g \in Nat, Unsent(g)' PROVE Unsent(g)
    <3>1. Unsent(h)
      BY <2>1, <2>2 DEF Unsent
    <3>2. \A d \in Callers : pc'[d] # "appending"
      BY <1>0, <2>5
    <3>3. ASSUME NEW e \in Senders, Active(e)', Job(e)' = g, tx'[e].at \in Fresh
          PROVE  Unsent(g)
      BY <2>1, <2>7, <3>3 DEF Unsent, senderVars
    <3> QED BY <2>1, <2>4, <2>8, <3>1, <3>2, <3>3 DEF Unsent
  <2> QED BY <2>1, <2>7, <2>8, TxKept
<1>4. CASE RunInline(c)
  <2>1. /\ Active(c) /\ Job(c) = arg[c][1]
        /\ UNCHANGED <<queue, thread, owner, abandoned>>
    BY <1>0, <1>4 DEF RunInline, Active, Job
  <2>2. CASE Sending(c, arg[c][1]) /\ UNCHANGED <<pc, arg>>
    <3>1. Active(c)' /\ Job(c)' = Job(c)
      BY <2>1, <2>2 DEF Active, Job
    <3> QED BY <1>0, <1>1, <2>1, <2>2, <3>1, TxSend
  <2>3. CASE /\ Succeeds(c) \/ Raises(c, arg[c][1])
             /\ pc' = [pc EXCEPT ![c] = "idle"]
    <3>1. pc'[c] = "idle" /\ ~Active(c)'
      BY <1>0, <2>3 DEF Active
    <3>2. \A d \in Callers : pc'[d] # "appending"
      BY <1>0, <3>1
    <3> QED BY <1>0, <1>1, <2>1, <2>3, <3>1, <3>2, TxSend
  <2> QED BY <1>4, <2>2, <2>3 DEF RunInline, JobGoesOn, JobResolves, Goto
<1> QED BY <1>2, <1>3, <1>4

LEMMA TxStep == ASSUME OneCaller, SoleInv PROVE TxInv /\ [Next]_vars => TxInv'
<1> SUFFICES ASSUME TxInv, [Next]_vars PROVE TxInv'
  OBVIOUS
<1>1. ASSUME NEW w \in Workers, Work(w) PROVE TxInv'
  BY <1>1, TxWork
<1>2. ASSUME NEW c \in Callers, Call(c) \/ Proceed(c) \/ FlushTimesOut(c) PROVE TxInv'
  BY <1>2, TxLifecycle, TxWrite DEF Call, Proceed
<1>3. ASSUME Mine /\ UNCHANGED <<started, stop, worker, queue, inFlight, thread, pc, arg,
                                 owner, outcome, abandoned>>
      PROVE  TxInv'
  BY <1>3, TxMine
<1>4. CASE UNCHANGED vars
  <2>1. UNCHANGED <<queue, thread, pc, arg, owner, abandoned, senderVars>>
    BY <1>4 DEF vars
  <2>2. \A h \in Nat : Unsent(h)' => Unsent(h)
    BY <2>1 DEF Unsent, Queued, Active, Job, senderVars
  <2>3. \A e \in Senders : Active(e) => Active(e)'
    BY <2>1 DEF Active
  <2> QED BY <2>1, <2>2, <2>3, TxKept
<1> QED BY <1>1, <1>2, <1>3, <1>4 DEF Next

\* With one caller, and no start() after a close(), a transaction the node has
\* accepted is never stuck behind a nonce that does not come: _send_fn's counter
\* never runs ahead of the node, whatever is refused, slow, reverted or lost,
\* until close() gives up on a worker that is still sending.
THEOREM NothingStrandedTheorem ==
    ASSUME OneCaller, ~Reopens PROVE Spec => []NothingStranded
<1>1. Init => SoleInv /\ TxInv
  BY SoleInit, DrainInit, TxInit DEF SoleInv
<1>2. SoleInv /\ TxInv /\ [Next]_vars => SoleInv' /\ TxInv'
  BY SoleStep, TxStep
<1>3. SoleInv /\ TxInv => NothingStranded
  <2> SUFFICES ASSUME TxInv, ~abandoned, NEW n \in DOMAIN pool PROVE Mineable(n)
    BY DEF NothingStranded
  <2>1. PICK top \in Nat : Reaches(top)
    BY DEF TxInv, Gapless
  <2>2. DOMAIN pool = Len(mined) .. top - 1 /\ Len(mined) \in Nat
    BY <2>1 DEF Reaches, TxInv, TxTypes
  <2> QED BY <2>2 DEF Mineable
<1> QED BY <1>1, <1>2, <1>3, PTL DEF Spec

\* With one caller, and no start() after a close(), writes take effect in the
\* order of the calls of register() and revoke() that submitted them, unless
\* close() gives up on a worker; and none takes effect twice in any case,
\* although _send_fn signs again what the node calls too low and counts only
\* what has a receipt.
THEOREM EffectsInOrderTheorem ==
    ASSUME OneCaller, ~Reopens PROVE Spec => []EffectsInOrder
<1>1. Init => SoleInv /\ TxInv
  BY SoleInit, DrainInit, TxInit DEF SoleInv
<1>2. SoleInv /\ TxInv /\ [Next]_vars => SoleInv' /\ TxInv'
  BY SoleStep, TxStep
<1>3. SoleInv /\ TxInv => EffectsInOrder
  <2> SUFFICES ASSUME TxInv PROVE EffectsInOrder
    OBVIOUS
  <2>1. InEffect \subseteq DOMAIN mined
    BY DEF InEffect
  <2> QED BY <2>1 DEF EffectsInOrder, TxInv, Once, Ordered
<1> QED BY <1>1, <1>2, <1>3, PTL DEF Spec
=============================================================================
