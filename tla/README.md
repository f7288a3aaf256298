# TLA+ models of the edge traffic negotiator

The repository controls traffic lights with one agent per junction.  Every
agent runs a MaxPressure controller under an anti-starvation floor, exchanges
signed claims with its neighbours over a message bus, scores the neighbours'
claims against what its own detectors saw, serves emergency vehicles whose
claims are corroborated, and writes what it did to a signed hash-chained log
that is anchored outside the agent.  Agent keys live in a registry: an
in-memory one, or a contract on a Besu chain read through a cache.

The modules here are translated from `src/src/*.py` and
`src/contracts/AgentRegistry.sol`; the documents under `src/docs` are used
only as the source of the claims that the code is compared with.

## 1. Inventory

| Component | Source | State it keeps | Operations | Hard behaviour |
|---|---|---|---|---|
| Signal controller | `controllers.py` | per junction: phase index, mode, seconds in mode, skip counters; a violation counter | constructor, `step` (once per simulated second), `decide`, the anti-starvation override | several phases overdue at once; skip counters that age under a preemption lock; clearance of every change |
| Decision hierarchy | `hybrid_controller.py`, `coordinated_controller.py` | last decision per junction, context for `_on_served`, events, pending releases | override `decide`, `_on_served` | a decision is recorded before the floor that may change what is served; three stages each work out what will be served |
| Emergency layer and trust | `emergency_controller.py`, `trust.py` | sightings, open, credited and suspected claims, lies per source, locks | `decide`, `_observe_claim_truth`, `inject_phantom_claim`, reputation reads | claim, sensing and expiry in any order; a lock that rests on another member's word |
| Message bus | `message_bus.py` | published messages; delivered (recipient, sender, tick) triples; rejection log and its markers; a cursor per recipient | `publish`, `inbox` | what the cursor never looks at again; replays; keys registered or revoked between publication and reading, or between two reads of one call |
| In-memory registry | `registry.py`, `identity.py` | current key per agent, hash-chained event list | `register`, `revoke`, `public_key`, `verify_chain` | who is approved *now* against who was approved *then* |
| MQTT transport | `mqtt_transport.py`, `run_mqtt_coord.py` | a bus per process, filled by broker callbacks | `publish`, `poll`, connect and message callbacks | QoS-1 duplicates; the callback thread and the main thread replace the same list |
| Chain registry cache | `registry_service.py` (`RegistryService`, `BesuEventSource`), `besu_registry.py` | current keys, event log, lowest block not yet read, connection flag | `refresh`, background poll, reads | a block read in two queries; overlapping refreshes; node failure |
| Chain registry writer | `registry_service.py` (`PendingWrite`, worker), `besu_registry.py` (`register`, `revoke`, nonce) | queue of writes, worker thread, handles | `register`, `revoke`, `flush`, `start`, `close` | writes queued while the service stops; restart; failed writes |
| Registry contract | `AgentRegistry.sol` | agent records, event log | `register`, `revoke` | append-only, one active key |
| Conservation checks | `flow_conservation.py`, `flow_accounting.py`, `conservation.py` | entry and exit times per edge, last storage, two one-sided sums per edge | `observe`, `entered/exited_in_window`, `update` | a claim read long after it was measured; events pruned; sums reset by a flag; strict thresholds |
| Audit log | `audit_log.py`, `audit_records.py` | signed, hash-chained entries; Merkle tree | `append`, `verify_chain`, `inclusion_proof`, `verify_inclusion` | truncation, odd leaves |
| Anchor | `anchor.py` | ledger file or chain that holds Merkle roots | `anchor`, `verify` | load-check-write without a lock |
| Assessment and language-model assist | `assessment.py`, `slm_agent.py`, `ambiguous_decision.py`, `legal_corpus.py` | none; caches of model answers | `fault_report`, classify, narrate | which of several decisions explains an outcome; model output is not specified |
| Vehicle authorization | `vehicle_authorization.py` | none | `classify` | none: a pure function used by experiments |
| System assembly | `system.py`, `system_ev.py`, `system_fakeconn.py`, `run.py`, `net_topology.py` | wiring of one run | build, run | glue around the components above |
| Experiments and analysis | `experiment_*.py`, `run_*.py`, `demo_*.py`, `evaluation.py`, `stats.py`, `metrics.py`, `attacks.py`, `crash_law.py`, ... | none that survives a run | simulation drivers, statistics, plots | none beyond the components they drive |

How they interact: SUMO calls `step` of the controller once per simulated
second; `step` calls `decide`, which in the subclasses reads `inbox`, scores
senders, may set a preemption lock, appends a decision record and publishes;
`step` then applies the floor, tells `_on_served` what was really served, and
updates the skip counters.  `inbox` asks the registry for the sender's current
key.  With a chain the registry is `RegistryService`, whose reads come
from a cache that a refresh fills and whose writes go through one worker
thread.

What makes each component correct:

- Signal controller: no phase is starved, in decisions and in seconds, with
  and without emergency locks; every change of the lamps is cleared.
- Message bus: a recipient acts on a sender's tick once at most, no message is
  passed over unjudged, and the log of rejections tells the truth.
- Chain registry cache: what is revoked on the chain does not stay approved in
  the process, whatever the interleaving of queries, failures and refreshes.
- Chain registry writer: writes take effect in the order of submission, every
  handle resolves, `flush` waits for what it says it waits for.
- Chain, cache, bus and evidence together: nobody is heard whom the chain had
  put out before the cache was last refreshed; an honest sender stays heard, and
  the evidence of it verifies.
- MQTT transport: a frame is handed over once, or rejected with a reason.
- Emergency layer and trust: no junction gives way on one member's word alone;
  a penalty that turns out wrong is lifted once, in whatever order claims,
  sensings and expiries arrive.
- Decision hierarchy: what is on record of an interval is what was served, once.
- Conservation checks: the windows of two junctions cover the same time; a
  sustained drift is flagged within a known number of windows, and nothing but a
  drift is.
- Audit log, anchor and assessment: an entry that was anchored cannot change
  unnoticed; who is named does not change afterwards, and has earned it.

## 2. Modules

| Module | Models | Composition |
|---|---|---|
| `SignalClearance` | what the lamps of a junction promise (abstract) | implemented by `SignalController` |
| `SignalController` | `MaxPressureController.step` with the floor | `Lamps == INSTANCE SignalClearance` |
| `SignalController_proofs` | | extends `SignalController` |
| `RegistryChain` | `AgentRegistry.sol` on its chain | shared by the two below |
| `RegistryView` | what a cache of the registry promises (abstract) | implemented by `RegistryCache` |
| `RegistryCache` | read side of `RegistryService` over `BesuRegistry` | extends `RegistryChain`, `View == INSTANCE RegistryView` |
| `MCRegistryCache` | | extends `RegistryCache` |
| `BesuSender` | how a write becomes a transaction: `_send_fn`, `_send` of `BesuRegistry` | |
| `RegistryWriter` | write side and lifecycle of `RegistryService` | extends `BesuSender` |
| `RegistryWriter_proofs` | | extends `RegistryWriter` |
| `MessageBus` | `MessageBus` with the registry it asks | the registry's two events are actions of the module |
| `MCMessageBus`, `MessageBus_proofs` | | extend `MessageBus` |
| `Membership` | chain, cache, bus and the record of what was consumed | extends `RegistryCache`, `Bus == INSTANCE MessageBus` |
| `MCMembership`, `Membership_proofs` | | extend `Membership`; the proofs are also those of `RegistryCache` |
| `MqttTransport` | the receiving end of one junction: two threads, one list | |
| `MqttTransport_proofs` | | extends `MqttTransport` |
| `ClaimVerdicts` | what the scoring of claims promises (abstract) | implemented by `EmergencyTrust` |
| `EmergencyTrust` | `EmergencyController` with trust, in its defended mode | `Verdicts == INSTANCE ClaimVerdicts` |
| `MCEmergencyTrust`, `EmergencyTrust_proofs` | | extend `EmergencyTrust` |
| `Assessment` | which decision explains an outcome, and whom it names | |
| `DecisionTrail` | the stages of a decision interval and the records they write | extends `Assessment` |
| `AuditChain` | hash chain, Merkle roots and proofs (operators only) | |
| `AnchoredTrail` | the log of `DecisionTrail`, chained and anchored | extends `DecisionTrail` and `AuditChain` |
| `DecisionTrail_proofs` | | extends `AnchoredTrail` |
| `CusumDetector` | `FlowConservationDetector.update` for one edge | |
| `ConservationFeed` | window log, claim and reconciliation of one edge | extends `CusumDetector` |
| `ConservationFeed_proofs` | | extends `ConservationFeed` |

A definition preceded by `Mutant:` is a plausible slip in the definition that
follows it.  It is used by no specification; put in the place of the original
it makes one property fail, which shows that the property depends on that line
of the code.

### SignalController

One step is one simulated second of `step()` for one junction (junctions share
only the violation counter).  `Wait` is the branch that only counts, `Decide`
the whole decision at the end of a green: `decide()`, the override, the skip
counters, the lamp; `YellowEnds` opens the phase that was chosen.  `cur`, `mode`,
`t`, `skip` and `violations` are the fields of the code; `lamp` is the state last
written to the simulator.  Pressures are arbitrary members of `Pressures`, new
at every decision.  A subclass (`Subclass`) may want any phase, and with
`Preemptible` it may report a lock at any decision, which is more than the
subclasses do, so what holds here holds for them.  `held`, `wait` and `free` are
history variables for the properties.

### RegistryChain, RegistryView, RegistryCache

The contract's storage is determined by its events, so `chain` (the events) and
`head` (the last sealed block) are its state.  A refresh is a sequence of
actions, one per query, because each query is answered at the head of its
moment: `Begin` captures the base snapshot, `ReadRegisters` and `ReadRevokes`
are the two log queries of `audit_log`, `ReadKey` is one `getPublicKey` per new
register, `Swap` does the backfill, the fold and the assignment of `_state`.
`ReadFails` is any query that raises, `Crash` the loss of the process.  With
`Source = "snapshot"` the source answers at once (`ReadSnapshot`), as the
in-memory sources do.  Each thread that refreshes has its own locals `rd[r]`;
the code takes a lock only for the assignment.  Repeated revocations of one
agent are events like any other; the contract does not refuse them.

### RegistryWriter

Callers and worker threads are processes.  The steps are the pieces of code
that run without anybody else's being visible in between: a critical section of
`_write_cv`, a look at `_worker_thread`, a transaction.  `_enqueue` is two steps
(`Submit` looks for the worker, `AppendJob` or `RunInline` acts on what it saw);
`close()` is `CloseSignals` and `CloseJoins`, where the join may give up on a
running job if `JoinMayTimeOut`; `start()` is `Start`, `StartFails` or
`StartSpawns`; `flush()` is a loop of `FlushLooks` and `FlushAwaits`.

A job is the steps of `BesuSender`: the nonce is seeded from the node (`Seed`,
which may be told a stale count), signed with (`Sign`), offered, taken by the
node's pool or called too low, in which case it is read once more (`TooLow`),
and advanced when a receipt has come (`Receipt`, `Succeeds`: two steps, for the
counter is read and then written).  `Raises` is every way to fail; the node may
hold the transaction all the same.  `Mine` is the node's step: it mines in the
order of the nonces, without gaps, and may revert.

### MessageBus

A call of `inbox` is one step per message, and two for a message of a neighbour:
`ReadPublicKey` and then the verdict, because a registry that is a cache
(`Live`) may be swapped in between.  A filter is the argument `t` of `inbox`
(0 for None).  A message is its index in the list; its signature is the key it
was made with, so a signature is good if that is the key that was read.
`judged` is a history of the verdicts; `delivered`, `rejected`, `logged` and
`scanPos` are the fields of the code.

### Membership

The thread that decides reads the cache four times for one message: the key, the
approval, the log, and the key once more for the audit record; the threads that
refresh (the poller alone in the run) swap the cache beside it.  Every action is a step of `RegistryCache` (`ChainMoves`,
`Poll`) or of `MessageBus` (`Publish`, `DecisionBegins`, `Scan`), with the bus's
registry substituted by the cache's snapshot, or of both (`Restart` loses cache
and bus).  `Record` is `log_messages`: one message at a time, with the key that
the registry has by then.

### MqttTransport

`PublishCopies` and `PublishReplaces` are the two halves of the line of
`MessageBus.publish` that replaces the list by a longer copy, `Arrives` and
`InjectReplaces` those of `verify_received`; `Scan` is the rest of
`verify_received` on the network thread, and `Inbox` the drain of the queue by
the main thread.  Only how often the list has a frame counts: up to two for a
neighbour's, once for the junction's own, which is turned down whenever it is met.
`Publish` of a neighbour stands for its client, its retries and the broker: any
number of copies, in any order with other frames.  The junction's own publish may
leave a copy on its way as well, whether the client took it or refused it
(`MaxOwnCopies` of them at most: a client may queue what it reports as refused).
`atRisk` is a history of the
frames that the race of the two threads may have lost.

### ClaimVerdicts, EmergencyTrust

A step of `Decide` is one `decide()` of one junction: the waiting messages are
taken, the claims scored (`Observe`, with the fields `_claim_first`,
`_locally_confirmed`, `_truth_settled`, `_provisional_keys` and
`_provisional_lies`), sightings kept, and the lock set for a vehicle it senses
itself or for the first claim, if that is corroborated.  The committed part of
the reputation only enters as the bound it obeys (between 1/2 and 1), which
makes "may corroborate" the same as "no claim under suspicion".  `Tick` is the
clock, with ages cut off past the expiry.  Insiders sign claims
(`InjectPhantomClaim`) and sightings (`InjectFalseSighting`) of anything: the
layer stores a sighting of any member and asks nobody whether it was sensed.
`Vouched` is what a member's key may have signed.
`ClaimVerdicts` knows nothing of messages, ages and junctions that decide: it
says when a known claim counts as true and when its source is held back.

### Assessment, DecisionTrail, AuditChain

One interval is `Coordinate` (the coordinated `decide` with release messages and
its record), `Emergency` (for members: sightings, claims, the lock, its record)
and `Serve` (the floor, `_on_served`, the skip counters).  `standing` says which
class's code a junction runs.  What the language model proposes is any phase or
none; that the disambiguator agrees is a choice.  `driving` of a decision is the
set of <<entry, key>> that it consumed.  `Assessment` reads such a log.

`AuditChain` models a hash by the record of what goes into it, so that no two
inputs share one; `AnchoredTrail` chains the log of every completed run,
anchors its batches and tries to pass forgeries off.

### CusumDetector, ConservationFeed

All magnitudes are integers in fractions of the band.  `Window` is one call of
`update`: jam, warm-up, or fold and alarm.  `ConservationFeed` has the rest of the way from
the road: `Step` reads the edge (or fails to), `Publish` signs a count with the
time it was measured, `PublishUnaddressed` sends a message that does not name the
recipient (read as a claim of 0), `Reconcile` counts the same window downstream and hands
the residual to the detector.  The entry and exit log is two sets of events, each the time and
which one of that time it is; a window's count is the number of events in it.
`run` and `folded` are histories for the properties: the residuals folded in since
the last flag, and by which windows.

## 3. Runs

| Run | Shows | Distinct states |
|---|---|---|
| `signal_three_phase` | three phases with the shipped times (10 s, 3 s, three skips), no locks: bounds on skips and seconds, why they hold, the lamps implement `SignalClearance` | 852 |
| `signal_preempt` | four phases and locks at any decision: N-1 decisions after the last lock the debt is gone | 106 648 |
| `registry_cache` | two refreshing threads that overlap, a node that fails and is outrun, restarts: a revocation seen by a refresh nobody disturbed stays in force, and no snapshot claims to have read past a revocation it missed | 1 038 729 |
| `registry_cache_snapshot` | a source that answers at once: the cache implements `RegistryView`, and catches up | 58 917 |
| `registry_writer` | one administrator, close() at any time, jobs that outlive its wait, a node that refuses, reverts or answers late: order and number of effects, no transaction behind a gap of nonces, flush() drains, every handle resolves | 30 378 |
| `bus` | full scans and scans for one tick mixed, over a registry that changes between the calls and within one | 3 018 848 |
| `membership` | chain, cache, bus and record: the revoked are not heard, the steady are, and their evidence verifies | 1 209 921 |
| `mqtt` | two threads and one list: handed over once, nothing vanishes without a trace, honest reports arrive | 802 006 |
| `emergency` | three junctions, a real and an invented vehicle, an insider that signs claims and sightings of anything: scoring in any order, green on the word of two members only | 149 343 |
| `audit_trail` | two decision intervals with floor, lock and messages, chained and anchored: the record, the assessments, the forgeries | 94 491 |
| `conservation` | one edge from its vehicles to the verdict: claims, residuals, flags and their latencies | 1 285 642 |
| `doc_attribution` | violated: a claimer whose claim was corroborated and admitted is named as the attacker (section 5) | |

Bounds, and why they are enough:

- `AgeCap` keeps the skip counters finite under locks: no new lock once a
  counter has reached it.  With 8 and `MaxSkip` 3 all four phases can be far
  beyond the threshold together.  Unlocked runs need no bound, since SkipBound is one.
  `ViolationCap` stops a counter nothing reads.
- The timing of `signal_preempt` is scaled down (2 s, 1 s); its property
  speaks of decisions only.  `signal_three_phase` keeps the real times.
- `MaxEvents` 3: register, revoke and register again, or two agents, spread over
  as many blocks; the hazards need two events and a block in between.
- `MaxWrites` 3: one in flight and two behind it, or one queued, one inline and
  one after; with `MaxWrites` 4 the run has ten times the states and the same
  answers.  `MaxStarts` 1 is the program: nothing in the repository calls
  start() a second time, nor after close() (`Reopens` FALSE).
- The bus: two messages published (a repeated tick, a tick that goes back, a
  message signed too early and one that follows), two changes of the registry
  (register and revoke, or two keys), four verdicts over two neighbours.
  `MaxJudged` stops new calls; a call that has begun always ends.
- `membership`: one message, met twice, two agents with two keys and three
  events: revoked before, while and after it is judged, or replaced and back.
- `mqtt`: one frame of each of two neighbours and of the junction itself, two copies
  of a neighbour's frame on the way and one of the junction's own, one retry of its own,
  and one change of the registry.  Two
  copies meet the replay guard, and two frames of different senders in one tick
  meet in the scan that delivers both.
- `emergency`: three junctions in a line is the least with a claimer, a
  junction that is asked and a third that could confirm.  Expiry after one tick
  puts it before, at and after every sensing.  The insider is at one end: it may
  claim, or be the third for an honest claim of the middle one.
- `audit_trail`: what is consumed in one interval and used in the next needs two;
  two messages are a claim and its confirmation, or two claims.  The logs of two
  intervals have batches of odd and of even length for the Merkle tree.
- `conservation`: the alarm at 2 and the slack of 1 keep the ratio (an alarm
  takes more than one window above the slack) and put the boundary cases (equal to
  slack, equal to alarm) on integers.  Windows of one time unit with two retained
  let a claim be fresh, old but kept, and too old.
- Agents, keys and junctions are symmetric where a run says so; no run with a
  temporal property uses symmetry.

Deadlock is checked except in `bus`, `membership`, `mqtt`, `audit_trail`,
`conservation` and `doc_attribution`: their messages, changes, intervals or time are
bounded, and they stop when these are used up.

### Fairness

- `RegistryCache!FairSpec`: each refreshing thread starts a refresh again and again
  (`_poll_loop` never ends while the service runs), and strong fairness of each
  query says that a node that is asked again and again answers again and again; a
  refresh may still fail any number of times.  Nothing is assumed of the chain:
  `CatchesUp` is `[]<>`, and the bounded chain goes quiet.
- `RegistryWriter!FairSpec`: threads are scheduled and calls that have begun go on
  (a transaction ends: it has a receipt timeout), while new calls never have to
  happen and nothing is assumed of the node.
- `MqttTransport!FairSpec`: both threads are scheduled (a frame that has come in is verified, a
  `publish` that has begun ends); the controller drains its queue again and
  again; and a neighbour's frame that the broker holds arrives in the end, which is
  what QoS 1 says (nothing is assumed of copies of the junction's own).  Strong fairness of these two, because the main thread is
  now and then busy publishing and the network thread with another frame.
- `EmergencyTrust!FairSpec`: time goes on and some junction decides again and again, as
  the simulation calls `step` for each.  Nothing is assumed of sensing or of what
  claims are made.

## 4. Proofs

Checked by TLAPS for every value of the constants that the named assumptions
allow, with the hypotheses named here and in the statements.

Signal controller (`SignalController_proofs`):

- `TypeCorrect` (`TypeOK`).  The strengthening is `ServedIsFresh`: the phase
  served has counter 0 and every other at least 1; without it a counter may be kept
  where the lamp changes.
- `Outnumbered` (`OverdueAreOutnumbered`) and `SkipBounded` (`SkipBound`), with the
  floor enabled and no locks (`FloorHolds`) and N <= MaxSkip + 1 (`FewPhases`).
  The bound itself is not inductive: nothing in it says why the two phases that
  are due together are not three.  `OverdueAreOutnumbered` does: a phase that is e
  over the threshold is outnumbered by phases served within the last e
  decisions.  The step serves the most overdue phase and ages the rest, and the set
  of recent phases grows by the one just served; a cardinality argument gives
  the bound.
- `DebtRepaidTheorem` (`DebtRepaid`), with locks that come and go at any decision.
  A lock leaves any number of phases overdue by any amount, so
  `OverdueAreOutnumbered` is gone.  `DebtInv` says what stands in for it until it is back:
  after `free` decisions without a lock, if they are fewer than N - 1, more
  than `free` phases were served within them (`Repaying`), since each served one that was overdue.
- `TwoPhaseNoViolations`: with two phases the violation counter stays 0, with
  locks as well: the floor then has only one phase to serve.  N = 2 is the case of most junctions of
  the shipped networks; the theorem has no run of its own.
- `WaitBounded` (`WaitBound`): `WaitInv` charges each skipped decision one green
  and one yellow, on top of the skip bound, through the clock of `step()`.
- `ClearanceKept` (`LampsKeepClearance`): initial states and steps of the
  controller map to those of `SignalClearance`; `HeldInv` ties the seconds of an
  extended green to the counters of the phases that wait for it.

Registry cache (first part of `Membership_proofs`):

- `RevocationsKept` (`NoRevocationMissed`): any number of refreshing threads,
  both kinds of source, crashes and failures.  The invariant speaks of every
  snapshot a thread holds: `Complete` (all revocations below its next block are in
  it) of the installed one and of each base, and `FoundOK` of what a refresh has
  found so far: every revocation up to the highest block found, which is so
  because the registers are read first.  An old base that is
  folded and installed late is still complete, though it may be old.
- `RevocationsLast` (`RevocationLasts`), under the same assumptions.  That a snapshot is
  complete does not say whom it approves, so `LastInv` adds two things.
  `Standing`: whoever a snapshot approves, installed or held as a base, was
  approved in the last block it ingested.  `Founded`: whoever the fold of what a
  refresh has found so far may approve was approved at some block since it began
  (`ApprovedSince`).  Both are carried through each query; that the revokes
  are read last is what makes the second hold.  The lemmas on the fold are
  those of the proof above.
- `CacheShowsRegistry` (`CacheIsAView`): the cache implements `RegistryView`, if its
  source answers at once and one thread refreshes.  Both hypotheses are needed, and the code
  does not always meet them: a node is asked in two queries, between which a block
  may be sealed, and a refresh that overlaps another may take the cache back (section 5).
  `ExactInv` is stronger than completeness: the keys in the cache are exactly those of the
  contract before `nextBlock` (`Shows`), and a running refresh works on this cache and has
  found exactly the events from there to its head (`Exact`).  `KeyAtIsKeyOn` ties the
  latest event of an agent to the contract's current key.

Registry writer (`RegistryWriter_proofs`), for any number of writes and whether or not
`close()` may give up on a running job:

- `FlushDrainsTheorem` (`FlushDrains`), any callers, as long as nothing starts the
  service after a `close()` (`~Reopens`: `_stop` is never cleared, and nothing in the
  repository starts it again).  `DrainInv` follows each write: resolved, queued, in flight
  (`Marked`: `_in_flight` counts the running job) or in the hands of the caller that has not
  returned (`AllHeld`); `OneWorker` says that there are never two.
- `EffectsInOrderTheorem` and `NothingStrandedTheorem` (`EffectsInOrder`, `NothingStranded`),
  under the same condition and with one caller: the nonce is counted without a lock, and
  with two senders both fail (section 5).  `SoleInv` says that one job is under way at a time and in turn, unless `close()` has given
  up on one, and `TxInv` what that means at the node: the pool has no gap, and the counter is
  not ahead of it (`Gapless`); what has been placed there is not sent again (`Once`) and
  was submitted before all that is still to be sent (`Ordered`).

Bus and transport (`MessageBus_proofs`, `MqttTransport_proofs`):

- `BusTypeCorrect`, `DeliveredOnce`, `CursorMissesNothing` (`TypeOK`,
  `AtMostOnce`, `NothingMissed` of the bus): any adjacency, any mix of calls, a
  registry that changes within a call.  `Recorded` and `TokensDiffer` tie the
  history of verdicts to `_delivered`; `ScanSound` says that a full scan has
  judged all that is before its next message, which needs `NothingMissed` for
  where it began: the two are proved together.
- `MetAgainTheorem` (`DeliveredMetAgain`).  `MetOrAhead`: what a full scan delivered
  and the cursor has passed, or the running scan lets it pass, was met again; `PinSound` says
  where that scan has pinned the cursor.  `OnRecord`: each replay is in the log, once.
- `ScansBoundedTheorem` (`ScansBounded`).  `CostInv` counts what full scans have looked
  at against the registrations: between the cursor and the message last counted
  nothing could be delivered, and only a registration changes that.
- `HandedOverOnceTheorem`, `NothingVanishesTheorem`, `SwallowedTheorem` (the three safety
  properties of `MqttTransport`): any frames, copies and retries.  One invariant
  says where a frame can be: each is handed over once at most, and only when delivered (`Once`);
  the frame that the network thread has put into the list is still there, and in the copy the main
  thread is about to put in its place, or it is at risk (`Injected`); any other that is listed
  has been settled (`ListedAreSettled`).

Composition (`Membership_proofs`):

- `RevokedNeverHeard` (`RevokedNotHeard`), any number of refreshing threads and both kinds of
  source.  The cache's invariants are not proved again: each step of `Membership` is shown to be a
  step of `RegistryCache` or to leave its variables alone (`CacheMoves`).  What remains is the
  bus's side: `BusOK` keeps track of where the call of `inbox` is, and the one step that delivers
  asks the cache of that moment for approval.
- `SteadyTheorem` (`SteadySenderHeard`), for any number of messages; the run has one.
  With one refreshing thread: of two, one that began earlier may install a snapshot without the
  agent over one with it.
  Of an agent that never had another key every snapshot, installed or held, shows that key or
  none (`LoyalInv`, on the cache's side), and once a swap has shown it, none
  comes back until a restart.  So the key read first, the key read for the approval, and the key
  read for the record are the same.

Records of a junction (`DecisionTrail_proofs`), for any phases, thresholds, messages and
length of the run, and for every class of controller (`standing`):

- `RecordTheorem` (`ServedIsOnRecord`).  The property speaks of the end of an interval only, so
  `TrailInv` says at each stage what is on record so far: after coordination, without a lock, what
  the floor would make of the decision (`AfterCoordination`); before `step()` serves, what it will
  make of it with the lock as it then is (`BeforeService`).  The emergency layer may set a lock in
  between; its record says what the floor makes of the phase under that lock, which leads from the
  one to the other.
- `OnceTheorem` (`RecordedOnce`).  The inputs of a decision are entries that its own stage appended
  (`DrivingIsOld`), so the inputs of two are disjoint (`DrivingIsOwn`).
- `AssessmentTheorem` (`AssessmentsStand`).  Steps only append (`Grows`), and what
  `CausalDecision` finds in a log is the least of its matches: the log that follows has the same least
  match, and its inputs are the same entries.
- `AnchoredAgree`, for any two logs that pass `verify_chain`, and `ForgeriesTheorem`
  (`ForgeriesShow`), which applies it to the log of a run and what it could be passed off with.  Of two
  levels of the same length, the one above tells the one below (`LevelUpInjective`), so the root tells the
  leaves (`RootsAgree`); the last of these hashes tells the entry before it, and so on to
  the genesis (`ChainsAgree`, `HashCommits`).
- `ProofsTheorem` (`ProofsFit`), for a batch of any length, salted or not.  Each turn
  of the loop of `inclusion_proof` keeps that the branch so far leads from its leaf to the
  node reached, whether or not that node was repeated at the end of an odd level (`StepUpLeads`), and
  from no other leaf, since a hash tells what went into it (`BranchFits`).

The recursion in `AuditChain` and in `Excess` (`FlagsMeanARun`, `LatencySpansUnrest`) is written with recursive functions.
For each the proofs show that a function with the given equations exists and what its values
are, by an induction over a set of numbers (`Induction`), since the numbers outside it would have
a least.  That no two inputs have the same hash is how `AuditChain` models a hash, and
`AnchoredAgree`, `ForgeriesTheorem` and `ProofsTheorem` rest on it.

Emergency layer (`EmergencyTrust_proofs`):

- `PenaltyTheorem`, `NoPhantomTheorem` (`NoPhantomGreen`) and `ScoringTheorem`
  (`OrderDoesNotMatter`), with `TypeCorrect` for their module: any finite sets of
  junctions and vehicles, any adjacency, insiders and time to live.  Their
  invariant `Books` is a balance: open, credited and suspected claims are apart, the
  credited ones are about confirmed vehicles and the others are not, and the number
  of provisional lies of a source is the number of its claims under suspicion.
  `PenaltyTheorem` is the last of these; without it a vindication might take off a
  lie of another claim.  For `NoPhantomTheorem`, `Witnessed` says that every sighting and
  claim, on its way or kept, is vouched for: who signed it sensed the vehicle or is an insider.
- `LoneInsiderTheorem`: with one insider at most, each lock held for a claim is for a
  vehicle that some junction has really sensed.  It follows from `NoPhantomGreen`, since
  the claimer and the third junction are two, and is what the documents promise for
  one compromised key; with two insiders it fails (section 5).

Conservation checks (`ConservationFeed_proofs`):

- `OpposedTheorem` and `LatencyTheorem` (`SustainedIsFlagged`), for every slack, alarm and warm-up the assumptions allow.
  `CusumInv` says that the two sums are opposed (when both are positive they stay
  together within the alarm, so that they never cross it at once), and that what a
  streak of windows above the slack adds up to is in the sum, so that it crosses the
  alarm when the streak does.  They are proved of the detector;
  `FeedRunsCusum` carries them over to the feed of an edge, each step of which is a step of the
  detector or leaves it alone.
- `FlagsTheorem` (`FlagsMeanARun`), for any residuals and jams.  A sum of the detector is the result of
  many windows of folding and of resets of either sum, the property speaks of what the windows
  exceed the slack by.  `RunInv` ties the two: each sum is at least what any stretch of windows up
  to the last one exceeds the slack by, and when it is not zero, some stretch exceeds it by just
  that.  The opposed sums of `CusumInv` are what makes it enough to reset one of them.
- `UnrestTheorem` (`LatencySpansUnrest`), for any residuals and jams.  By `RunInv` a sum is off
  zero exactly while some stretch of windows up to the last exceeds the slack
  (`UnrestReaches`); `DriftInv` says that `drift_start_window` is then the window
  since which one of the two sums, not always the same, has been off zero.
- `FeedTypeTheorem` (`TypeOK`), `ClaimTheorem` (`ClaimReproducible`) and `ResidualTheorem`
  (`BenignResidual`): any window, retention, lies and traffic, and reads that fail.
  `FeedInv` has the balance they rest on: as far back as the pruned log
  reaches, the entries less the exits after a time are what the edge has more on it now
  than it had then (`Balance`).  The rest is about counting: the count of a window is the difference of two such
  balances.

Only model-checked: `HandlesResolve`, `CatchesUp`, `ReportsArrive` and `PhantomShutsOut`, which are
liveness under fairness.  Every invariant and every action property of a passing run is
stated by one of the theorems above.

## 5. Where code and documents disagree

Shown by a run, `doc_attribution`: the assessment asks one decision for its own driving
inputs (`assessment.py:207`).  A sighting consumed in an earlier interval
corroborates a claim (`emergency_controller.py:250`) but is not among them, so the
claimer whose claim was admitted is named attacker-key.  `tests/test_assessment.py:123` calls
such a claim legitimate, and `docs/specs/MASTER-SPEC.md:142` reserves the name for an
uncorroborated one.

Met while modelling, and told here only.

Signal controller:

- `docs/FORMAL-SPECIFICATION.md:265` (S3) promises at most `max_skip` consecutive skips
  and 43 s.  The override serves one phase per decision, so with N phases the
  bound is `max_skip + N - 2`, and with three phases and the shipped times 55 s
  (`SkipBound` and `WaitBound` state what the code keeps).  With more than
  `max_skip + 1` phases there is no bound: the override always finds another
  phase more starved.
- The same line lets an emergency defer a phase by one green and yellow.  The
  override is off for as long as a lock is held (`controllers.py:159`); `DebtRepaid`
  states what holds when it ends.
- Line 264 (S2) promises an all-red after every yellow; `step()` has none.
  `SignalClearance` states the clearance that the lamps do keep.

Registry:

- A refresh installs its result over whatever another one has installed
  meanwhile (`registry_service.py:584`): after an explicit refresh that has seen a
  revocation, a poll that began before it puts the old snapshot back until
  the next poll.  `RevocationLasts` therefore speaks of a refresh that no other
  one overlaps; `NoRevocationMissed` says that the revocation is read again.
- `besu_registry.py:230` asks for registers and then for revokes.  A register mined in
  between, with a revoke behind it, is never read, although the comment at
  `registry_service.py:276` calls `next_block` the lowest block not yet ingested.
  If it registered a new agent, that agent stays out; if it gave an approved
  agent a new key, the replaced key stays in force.
- `registry_service.py:205` asks for the agent's current key, so a register that has
  been superseded is logged with the fingerprint of the later key.
- `close()` sets `_stop` and nothing clears it; a worker started later ends at
  once, and writes are queued for it.  `_enqueue` looks for the worker outside
  the lock (`:614`); after a `close()` in between the job is queued for nobody.
- A worker that outlives `close()`'s wait of five seconds goes on beside inline writes,
  which overtake its queue (`registry_service.py:368`); after a second start
  two workers would share `_in_flight` (`:640`), so that `flush()` could return early.
- `besu_registry.py:299-318` counts nonces without a lock.  The comment at 117-122
  makes that safe "as long as this object is the only sender"; it is, but with a worker
  abandoned by `close()` beside an inline write two of its threads send, and one
  may leave a gap behind which later transactions wait.
- `system.py:325` starts the shipped service without a poller, so the cache changes
  only when it is refreshed by hand.

Message bus and MQTT:

- `message_bus.py:274-277` says that a verdict is the same on every rescan; it follows
  the registry of the moment, and whether a message is scanned again depends on
  where the cursor was pinned.
- `message_bus.py:298` reads the log after the key was read at 212.  If a cache is
  swapped in between, a sender registered for the first time is put on record as
  revoked; the reason on record is only sure to be true when the registry does not
  change within a call.
- The comment at `message_bus.py:178` says that scans for one tick are only for tests;
  `mqtt_transport.py:176` makes one for every frame (`bus` covers them).
- `run_mqtt_coord.py:94` says that an unsettled report is "never lost".  The network
  thread (`mqtt_transport.py:175`) and `publish` (`message_bus.py:151`) both replace
  the list of messages by a longer copy; when they do so at once, one of the two
  entries is gone, and if that is the frame's it is neither handed over nor
  rejected.  `NothingVanishes` says that nothing else loses a frame.
- A third copy of a frame is dropped with no reason in the rejection log.

Emergency layer:

- A sighting corroborates claims about its vehicle for ever (`emergency_controller.py:250`).
- "A phantom vehicle satisfies neither" (`emergency_controller.py:246`) is true of one compromised key
  only.  A sighting signed by any member is stored (223-230) and corroborates (250-258),
  whether or not the vehicle was sensed: two insiders, one claiming and one
  sighting, get a green for a vehicle that nobody has sensed, and one insider's false sighting is
  the third junction for an honest claim.  `docs/FORMAL-SPECIFICATION.md:21` puts the
  collusion of two keys out of scope, and FR-004 in `docs/specs/spec.md:61` asks for two keys, no more;
  `NoPhantomGreen` says what the code keeps.
- Only the first claim of a tick is looked at, and the others are consumed with it
  (`:427`); the note at 555 says that a real vehicle "simply waits until a junction
  physically confirms it", but a withheld claim is not looked at again.
- A claim about a real vehicle that is somewhere else counts as true.
- The disambiguator is asked about every claim, though the comment at 434-443 says
  "a genuinely ambiguous case"; and the reference rule can never admit a live
  claim, whose persistence is 0 where the rule asks for at least 1.

Decisions, records and assessment:

- `served_by` says `anti_starvation` whenever the served phase is not the proposed one
  (`hybrid_controller.py:31-44`), under emergency preemption too.
- An interval that a gate skips leaves no record (`docs/specs/MASTER-SPEC.md`
  wants one for every interval), and an override of a run without identities
  leaves none either (`coordinated_controller.py:918-923`).
- A claim about an invented vehicle is judged legitimate if the decision consumed any
  message with another key (`assessment.py:255-256`).
- `audit_records.py:68` reads the key after the verdict, where `MASTER-SPEC.md:179` puts it at
  the moment of consumption: with a key replaced in between, the record does not verify
  (`SteadySenderHeard` states for whom it does).  `fault_report` then checks against the
  registry's keys of the moment (`assessment.py:342-375`), not the stored one.

Conservation and coordination:

- `flow_conservation.py:87` promises the alarm in `ceil(h / (1 - slack))` = 6 windows.
  The comparison is strict, so that a residual of one band needs 7
  (`SustainedIsFlagged` has the bound that holds); and a single window above
  `h + slack` flags at once, which the same comment says cannot happen.
- The latency of a flag is documented as counted "from first non-warmup observation of the accumulating
  drift" (lines 321-323).  The start is kept while either sum is off zero (488-499), so
  a drift that grows as an opposite one fades is reported with the latency of that one: with
  `h` 2 and slack 1, residuals of 2 and then -4 flag under-reporting with a latency of 2,
  though it began in that window.  `LatencySpansUnrest` states what the latency counts.
- The two windows of a residual have the same end but the vehicles between them
  are counted at another time, so the residual of an honest claim on a road that fills
  is not "about 0 every window" (line 35); `BenignResidual` states what it is.
- A claim older than `retain - window` cannot be reproduced from the pruned log.
- `coordinated_controller.py:693-697` adds up overlapping window counts into
  `expected_incoming`, although the comment below (704-711) says why they must not be
  added; the same comment calls the legacy counts increments, but they are the
  vehicles halting at the moment.
- A neighbour that a gate kept silent counts as one that released nothing if vehicles came in, and a
  message that does not name the recipient as a claim of 0 even if none did
  (`PublishUnaddressed`); a malformed one is consumed without a record (672-683).  The argument `missing` is never passed.
- `coord_changed` is called the proof that coordination is causal (106-109), but with a
  positive weight and nothing incoming the reference is the argmax of halting,
  not of pressure (745-750), so it may be set with no message at all.
- Line 383 says that the prediction counts lanes as `green_halting` does; that counts a
  lane once for each movement (`controllers.py:72-76`).

## 6. Not modelled

- **Language model, coordination terms, prediction.**  What the model
  answers is not specified by the code, and every phase it may propose passes the same
  floor and lock; so `DecisionTrail` takes any phase, and whether the
  disambiguator agrees is a choice.
- **Undefended modes** (`naive`, `nopreempt`, `maxpressure_preempt`): they leave out
  the code that the properties are about, for comparison in experiments.
- **`conservation.py`** and the instantaneous claims that feed it: an older pairwise
  comparison without state beyond a list; the shipped runs use the windowed mode.
  Noise bands come from a calibration in floating point; the model takes the
  band as its unit.
- **Vehicle authorization**: a classification without state, called by experiments.
- **Anchor witnesses**: `anchor` loads a ledger, checks it and writes it without a lock,
  but one experiment calls them one after the other.  The roots they keep are in
  `AuditChain`.
- **Signatures of log entries**: they say who holds the log's key; whoever does may sign
  any log, which is the case that `ForgeriesShow` covers.
- **Files, simulator and broker**: the log's file, SUMO and the MQTT broker appear as
  what the code sees of them.
- **Assembly, evaluation, experiments, training**: `system*.py`, `run*.py`, `experiment_*.py`,
  `demo_*.py`, statistics and plots drive the components and keep nothing between
  steps.  They are most of the repository: of about 29 000 lines of Python and
  Solidity some 8 500 are the components of section 1, a good part of which are
  comments, metrics, set-up and checks of arguments.  The modules stand
  for about 2 700 lines.  No model could stand for much more of the whole:
  the rest takes no part in the negotiation.

Six hazards listed in `PROJECT.json` have no property.  With more than
`max_skip + 1` phases the floor itself starves one (`controllers.py:165`); the
fingerprint of a superseded key is wrong (`registry_service.py:205`); `flush()` raises at the first
failed write and leaves the rest unawaited (`:452`); a write that races
`close()` has no worker (`:614`); a sighting corroborates however old it is
(`emergency_controller.py:250`); claims behind the first are gone (`:427`).  In each the
code keeps no promise that could be stated; what it does is told here and in section 5.

Worth doing next: the writer and the cache over one chain, so that a flush followed by a refresh
shows the write.
