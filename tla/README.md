# A verification project for HarnessHub

HarnessHub runs coding agents ("engines") behind one local service. This directory
holds TLA+ models of the parts of it whose correctness depends on order, concurrency
and failure: the Run plane (Store, Runtime, Workers, workflows) and the model gateway
between the agents and their providers. TLC checks the models on small instances, and
TLAPS proves, for instances of every size, the safety of the Store, the Runtime, the Worker
host, the workflows and the gateway, and that the Worker host keeps its promise to the Runtime.

All paths below are relative to the repository root (`src/` in `PROJECT.json`).
`PROJECT.json` maps every definition that models code to the lines it stands for.

## 1. Inventory

The repository's own documents divide the system into three planes: the **Model plane**
(a gateway between agents and model providers), the **Agent plane** (wiring, libraries
and tool packages of the agents on the machine) and the **Run plane** (Sessions, runs,
permissions, deadlines, artifacts and events).

| Component | State it keeps | Operations | Interacts with |
|---|---|---|---|
| **Store** `packages/store` | SQLite tables of Sessions, runs, events, permissions, artifacts | one synchronous transaction per method: create, transition, finish, append, decide, apply, expire, bind, close | called by Runtime, Workflows, the HTTP API |
| **Runtime** `packages/runtime/src/runtime` | queue, deadline timers, one `ActiveRun` per Session, captured installations, suspending Sessions | submit, cancel, decide, suspend, close Session, close, pump, execute, receive, stop, start-up recovery | Store (calls), Worker host (promises and a message sink), models, publisher, inspector |
| **Worker host** `packages/runtime/src/process/worker-host.ts` | one `SessionWorker` per Session: process, active run, next sequence number, promises, closing outcome | start, cancel, respondPermission, closeSession, terminate, recover | Runtime, Worker processes over IPC, leases |
| **Session Worker** `packages/daemon/src/worker/main.ts` | active run, delivery chain, awaited acknowledgement, permission waiters, shutdown flag | commands of the host, deliveries, driver callbacks, exit | host (IPC), driver |
| **Leases, process reclaim** `packages/runtime/src/process/leases.ts`, `posix-tree.ts`, `process-table.ts` | lease files, process table | save, validate, reclaim, remove | host |
| **Workflows** `packages/runtime/src/application/workflows.ts`, `packages/store/src/storage/workflow-store.ts` | workflow and step records, the Session and run of each step; one task per workflow, owned Sessions, `failure` | create, approve, cancel, close, planning, execution, failure, cleanup, reconciliation at start-up | Runtime, Store |
| **Model sessions** `packages/daemon/src/model-sessions.ts` | the active run of each Session, its calls and its summary; Session keys | begin, end, wait for the last call, close, revoke | Runtime, gateway |
| **Model gateway** `packages/gateway` | breakers and model marks, slots and their queues, budget reservations and cached sums, sticky sessions | admission, candidates, attempt, retry, failover, search round, vision, ledger commit, answer, disconnect | providers, model store, model sessions |
| **Artifacts** `packages/runtime` publisher and collector | files | publish, collect, discard | Runtime |
| **Drivers** `packages/drivers` | ACP and CLI conversations | execute, cancel, permission callbacks | Worker |
| **Model plane store** `packages/store/src/storage/model-plane-store.ts` | revisioned providers, groups, keys; the usage ledger | one transaction per method | gateway, HTTP API |
| **Instance lock, WAL checkpoints** | lock file, WAL | acquire, release, checkpoint | daemon |
| **Others** | backup and sync, wiring, secrets, console, CLI, SDK, benchmark | mostly file and network I/O | HTTP API |

`PROJECT.json` lists all of them with sources, status and reason.

How they interact. The daemon is one Node process with one event loop. A client call
enters `Runtime`, which writes to the Store synchronously and schedules a pump. The pump
hands a run to `execute`, an async function that awaits, in this order, the inspection of
the installation, the model scope of the run, `host.start`, the result, the end of the
model scope, and, depending on the driver and the input, the reclaiming of the Worker and
the collection of outputs. While it is suspended at any of these, `stop` (a cancel or
a deadline), Worker messages, `closeSession`, `suspendSession` and `close` run. The host
talks to the Worker process through two ordered channels; messages are acknowledged one
by one after the Runtime has stored them. A workflow is one more async task, a client of
`Runtime` inside the daemon, which polls its runs and closes their Sessions. The gateway
serves the HTTP calls of engines (with a Session's key) and of other clients (with a
Gateway Key) in its own event loop, as one async handler per call; a Session's run
begins and ends the scope its calls are counted in.

What is hard, and what must hold:

- *Store*. Transactions nest (ending a run also expires its permissions and appends
  events), messages are redelivered, and two decisions may race. The event log must have
  no gap, its terminal event must be last and unique, an ended run must not change, and
  no permission of an ended run may stay open.
- *Runtime*. Every await is a place where a stop, a close or another message changes what
  the code read before. Accepted runs must not be lost, must run in order, one at a time
  per Session and within the limits; the first stop must win; nothing may run in a closed
  or suspended Session; every accepted run must end although engines may hang; and all
  that must survive a crash at any point.
- *Host and Worker*. Each side treats the unexpected as fatal, so the two views must
  never disagree; neither may wait for the other for ever; a Worker may be called
  clean only if no process is left that can still be attributed to it.
- *Workflows*. A step's Session, its run and its record are written by different
  transactions, with a crash, a cancel or a shutdown between any two. Steps must run in
  the order of their dependencies, one at a time; a run that was submitted must be found
  again; the record must tell what the runs did; no Session may outlive its task.
- *Gateway*. Calls share the breakers, slots, budgets and the ledger, and an outcome is
  applied when its call returns, whatever happened meanwhile. Slots must be given back
  exactly once on every path; concurrent calls may overshoot a budget by about one call and
  no more; one key's failures must not rest a credential for everyone for long; a run's summary
  must count all its calls.

The list `hazards` of `PROJECT.json` gives each of these at its line, with the properties
that would catch it going wrong, or the reason why none does yet.

## 2. Modules

| Module | Models | Built on |
|---|---|---|
| `Store` | `SqliteStore`: each method an operator from database to database | community modules |
| `StoreCalls` | an arbitrary caller of the Store: one action per method, and its properties | `Store` |
| `StoreProofs` | theorems about `StoreCalls`: form, identities, what is final stands | `StoreCalls`, TLAPS |
| `Runtime` | class `Runtime`, at the grain of its awaits, with crash and recovery | `Store` (the same operators) |
| `RuntimeStepProofs` | lemmas about `Runtime`: what each operator does to Sessions, queue and timers | `Runtime`, TLAPS |
| `RuntimeQueueProofs` | lemmas about `Runtime`: its loops, the pump above all | `RuntimeStepProofs` |
| `RuntimeProofs` | theorems about `Runtime`: its invariant and its safety properties | `RuntimeQueueProofs` |
| `RunLifecycle` | abstract specification: what a client may observe of a run | |
| `WorkerIpc` | one Session's `SessionWorker`, its process and the IPC channels | |
| `WorkerService` | abstract specification: what the Runtime may expect of the host | |
| `WorkerIpcProofs` | theorems about `WorkerIpc`: its invariant, its properties, the refinement | `WorkerIpc`, TLAPS |
| `Workflows` | `WorkflowService` over the `WorkflowStore`, with crash, restart and faults | |
| `WorkflowProofs` | theorems about `Workflows`: its invariant and its safety properties | `Workflows`, TLAPS |
| `Gateway` | calls of the model gateway with `Breakers`, `Slots`, `Quotas` and a Session's run | |
| `GatewaySlotProofs` | lemmas about `Gateway`: types of its steps, the count of slots | `Gateway`, TLAPS |
| `GatewayProofs` | theorems about `Gateway`: slots, budgets, rests, summary | `GatewaySlotProofs` |
| `MCStoreCalls`, `MCRuntime`, `MCGateway` | symmetry sets and constant functions for TLC | |

Composition. `Runtime` extends `Store`: its steps call the very operators the proofs are
about. It uses the Worker only through `worker[s]` and the outcome of a result promise;
`WorkerService` states that view, and `WorkerIpc` is proved to implement it. So the
model of the Runtime does not have to contain the channels. `Workflows` in turn sees of
the Runtime only what `Runtime` is checked for: a run that was accepted ends
(`EveryRunEnds`), `closeSession` returns after the Session's run has settled or throws
(`ClosingEnds`). `Gateway` composes the gateway with the model session of a run.

### Store

A call is a transaction of a synchronous library, so it is atomic: an operator from the
database before to the database after. Nested calls (`finishRun` that expires permissions
and appends events) are composed as in the code. A call that throws rolls back, and is a
call that is not enabled or a condition the caller sees (`...Refused`, `...Conflict`).
Redelivery is modelled by `src`, the sequence number of the message an event came from.
Texts, outputs, timestamps and the event type, beyond "terminal", are left out. Time is
the Boolean `past`: whether the expiry lies before now.

### Runtime

Code between two awaits that really suspend is one step. `act[s]` is the `ActiveRun` of
Session s together with its `execute()`; `pc` names the await:

| `pc` | suspended at |
|---|---|
| `inspect` | inspection of the installation |
| `begin` | `models.begin`; in the shipped composition it does not yield, so no other step comes between (`Settled`) |
| `start`, `result` | `host.start`, `handle.result` |
| `settle` | the end of the model scope, which may turn the result into a model failure (`settleModelRun`) |
| `reclaim`, `collect`, `discard` | reclaiming the Worker of a CLI turn, collecting or discarding outputs |
| `stopwait` | `active.stopping`, the promise of `stop()` |
| `catch`, `catchclose`, `final` | the catch and finally blocks |

A step that touches several pieces of state is an operator on the record `Here`, because
`stop()` and the tail of `execute()` are reached from several places. `Crash` may happen in
every state; it drops everything but the database and the processes. Recovery is in three
stages, as in the constructor and `ready`: the leases (`RecoverLease`), the unfinished runs
(`RecoverRun`, then `RecoverClose` of its Session, two transactions), and the Sessions that
cannot be resumed (`RecoverSession`).

`host.closeSession` never rejects. A Worker that could not be proven dead stays in
`worker[s]` as `unconfirmed` or `failed` (quarantine) and counts against capacity. Pending
results are rejected when closing ends. `Unlogged` erases the event log after every
step: no guard that the Runtime meets reads it, so this only merges states. What the log
must look like is the subject of `StoreCalls` and its proofs.

### WorkerIpc

One Session, with the host's record, the progress of `start()`, the Worker process, and two
FIFO channels. A write and the callback that reports it are two steps. Assumptions on the
platform, taken from Node and libuv: the callback of a write runs before the answer to that
write can be read; `exit` and `disconnect` come in either order, `disconnect` after the
last readable message; the rest of `start()` after `ready` is a microtask, and a write to a
process that is already dead fails at once (`Turn`). The Runtime is the client: it starts
the next run only after the previous one has settled, and after a rejected one only once the
Worker is closed. `DriverEmits`, `DriverAsks`, `DriverWithdraws`, `DriverEnds` allow a driver
everything in any order; `WorkerDies` may happen at any time.

Descendants of the Worker may leave its process group (`EngineLeaves`). `worker.stray` holds them by what
a scan of the processes can tell of them:

| Kind | The descendants that | In `terminate` |
|---|---|---|
| `owned` | show the Worker's marker in their environment, or were recorded by the snapshot | found by `Sweep` |
| `linked` | show no marker, but have a chain of living parents to the Worker or to one of the first kind | recorded by `Snapshot` (`Traced`), or found by `Sweep` through the chain |
| `lost` | show no marker and lost that chain before a scan followed it | not found (`Unfound`) |

Strays start others without the marker (`StrayForks`) and lose their parents (`ParentEnds`) at any
time, before the snapshot, after it, and between the signals and the last scan. The third kind is the
residual gap that `posix-tree.ts:26-34` states: the environment of a descendant may not show the
marker (a fresh environment, another user, a platform binary on macOS), and cleanup is then reported as
confirmed while it runs. The model does the same, and `CleanupProven` promises what the code can:
nothing of the other kinds is left. A Worker that was reaped before the snapshot, and whose PID is in
use again, gets nothing recorded.

### Workflows

`wf[w]` is what is stored of a workflow (status, steps, the Session and run of each job),
the Sessions and runs themselves, and the task that works on it; `pc` names the await
the task is suspended at:

| `pc` | suspended at |
|---|---|
| `planPoll`, `stepPoll` | `waitRun`, which polls the run of the planner or of the step |
| `planClose`, `stepClose`, `endClose`, `failClose`, `cancelClose` | `closeSessions` after planning, after a step, at the end, after a failure, in `finishCancelled` |
| `caughtCancel`, `finalClose` | the handler in `launch` for an operation that rejected |

A step is the code between two awaits that leave the event loop; awaiting
`HubApplication.cancel` yields to microtasks only, because `Runtime.stop` does not wait for
the run. But the process may die between two *writes* of one step, so approving, submitting
and reconciling have an action for every prefix of their writes. A Session is
`<<job, n>>`: approving again after a restart creates a second one for the same job. The plan that a
planner returns is any acyclic relation on the steps (`Plans`). `SaveRefused` is the database refusing a
read or write, after which the handler in `launch` may or may not get its own write through.
`stale` is the status read before `closeSession` and used after it, which the code does
(`execute`) and the model keeps.

### Gateway

One action per stretch of `routeCall` and of an attempt between two awaits. The gateway is one
event loop: `loop` names the call whose synchronous code is running, and every other action waits until
it is `None`; that way the walk over several candidates is several actions and still not
interleaved. `call[c]` is the call's record:

| `pc` | the call is |
|---|---|
| `try`, `prepare` | at the head of the candidate loop, or about to send to a candidate (synchronous) |
| `describing` | waiting for the vision model that describes its images |
| `slot`, `slotAgain` | in the queue for a slot of the credential, the second time for a search round |
| `upstream`, `idled` | at its upstream; its idle timer has fired during a search round |
| `sleep` | waiting before a retry |
| `commit`, `write` | about to write its ledger entry; about to answer and to report its outcome |

`Breakers` are pure functions of a breaker or a mark (`Admitted`, `Admits`, `Failed`,
`Succeeded`, `Released`, `MarkedBy`), `Slots` of the record of a credential
(`Joined`, `Left`, `GiveBack` with the hand-over to the first in the queue). Failure kinds are
those of `classify`, by consequence: `RetryOf`, `FailsOver`, `EffectOf`, `RestOf`. A rest is
in units of `PROVISIONAL_MS`: 1 is up to a minute, 2 is longer; `Tick` is a minute. A
rate limit whose wait is longer than a minute has the consequence of `credit`, and so has an
exhausted quota.

A request reserves any number up to `MaxReserve` (in the code, a quarter of its bytes and the mean
output of the key's calls) and later uses any number up to `MaxUse`, whatever it reserved; `reserved[c]`
is what the call gives back when it ends. As in `quota.ts:264-269`, admission compares used plus held
with the cap and leaves the request's own reservation out, so one call can pass the cap although it
stays within its reservation. `Roll` is the end of the budgets' window; the calls in
flight then belong to the old one (`old`).

History variables, which no guard reads: `drift` counts slots leaked less slots given back twice; `blame` holds, of
each credential since its breaker last closed, the keys whose failures asked for a long rest and how often
the breaker opened; `spent` is what a key's calls used in the window, recorded or not, and `excess`
the part of it beyond the reservations of the calls that used it.

## 3. Runs

Every passing run ends with the whole state space explored. Symmetry is used only in
safety runs, over identities the models never order.

| Run | Instance | Checks | Shows |
|---|---|---|---|
| `store_calls` | 2 Sessions, 2 runs, 2 permissions, 1 artifact, 1 key, 4 events, source numbers 0 to 2 | `TypeOK`, `EventsNumbered`, `TerminalEventLast`, `NoOpenPermissionAfterEnd`, `SourceRecordedOnce`, `GenerationsUnique`, `KeyNamesOneRun`, `FinalStands` | the Store keeps its record right for any order of calls, redelivered messages included: event log, permissions, identities, and what is final stays |
| `worker_ipc` | 2 runs with an event and a permission each, with the initialization timer | `InStep`, `NothingLost`, `PendingOwned`, `KeepsPromise` | the two sides never disagree, no delivery is lost, nobody waits for a dead Worker; `WorkerIpc` implements `WorkerService` |
| `worker_live` | 1 run with a permission, descendants outside the group of every kind, fair | `CleanupProven`, `RunSettles` | clean means that nothing is left that can be attributed to the Worker, whatever its descendants start or end meanwhile; no mutual waiting |
| `runtime_slots` | 2 CLI Sessions of one engine, 2 runs, 1 engine slot, 1 Worker | `SlotLimits`, `CleanupTruthful`, `QueueServed` | limits hold, a run that does not fit stays queued and no run that fits waits without a pump to come, a CLI turn gives its Worker back before its run ends |
| `runtime_session` | 1 resumable ACP Session on the gateway, 2 runs with declared outputs that may report 2 backends, 1 artifact, 1 crash | `TypeOK`, `NoLostRun`, `DeadlineHeld`, `AcceptedOrder`, `ClosedSessionQuiet`, `SuspendedIdle`, `FirstStopWins`, `NoArtifactAfterStop`, `ImplementsLifecycle` | publications, stops, suspend, close, shutdown and a crash at every await, with recovery, stay within `RunLifecycle` |
| `runtime_live` | 1 resumable ACP run on the gateway with declared outputs, 1 permission, 2 messages, 1 crash, fair | `OpenPermissionLive`, `EveryRunEnds`, `ClosingEnds` | an accepted run ends, across a crash too; `closeSession` and `suspendSession` return; Worker messages race stops and the end of the run |
| `workflows` | 1 workflow of 3 steps with any acyclic dependencies, 1 restart, 1 refused write or failed cleanup, fair | `StepsInOrder`, `RunsAdopted`, `RecordTruthful`, `SessionsReleased`, `StartsWhileWanted`, `ResultFinal`, `PlanSettles` | steps run in order and one at a time, what was submitted is found again after a crash between any two writes, the record is true, no Session is left, every plan comes to rest |
| `draft_kept` | 2 steps, 1 restart | violation of `DraftKept` | finding 1 |
| `gateway` | 2 calls, one of a budgeted key and one of a Session's, 2 credentials with one slot each, 2 attempts, one failed ledger write | `SlotsBalanced`, `LongRestsEarned`, `SummaryComplete` | slots, rests and the run's summary are right for failures that count and that rest, retries, failover, search rounds, vision, disconnects and the end of the run, in every interleaving |
| `gateway_budget` | 2 calls at a time, 3 in all, of a key with a budget of 2, reservations of 0 to 2, usage of 0 to 3, one failed ledger write | `BudgetHeld` | the budget is passed by less than one reservation and what calls use beyond theirs; cached sums, a lost entry and the end of the window add nothing |
| `rests_short` | 2 calls of the only key, whose failures are counted | violation of `OneKeyRestsShort` | finding 3 |
| `limit_kept` | the instance of `gateway` with a third call | violation of `LimitKept` | finding 2 |

`TypeOK` is a property of its own in `store_calls` and `runtime_session`; in `WorkerIpc`,
`Workflows` and `Gateway` it is a conjunct of `InStep`, `StepsInOrder` and `SlotsBalanced`.

Why the bounds are enough. The interesting interactions of the Runtime are between two runs
of one Session (order, handover of the Worker, a close that stops one and drains the other)
or between two Sessions (limits, capacity); no guard compares three. One crash reaches every
point of `execute`. The drivers differ in the deadline check before the start and in what
follows the result: ACP and CLI are in the runs, the fake driver of the repository's tests, which takes
the fewest steps, is covered by the proofs only. The run with fairness has one run; that a second one
is not left in the queue is `QueueServed`, which needs no fairness and two Sessions, because a pump that is
due is fair. Two messages allow a permission with its application, or
with a message that comes too late. In `WorkerIpc` two
runs are needed because the second `run` command may directly follow the acknowledgement of
the first result. Descendants outside the group (`Leaving`) touch only the end of a Worker, so all their
kinds are in the run with one run command, `worker_live`, and one kind in the other. A driver
emits events in `worker_ipc` only: to the acknowledgements, which `RunSettles` is about, a permission is a delivery
like an event.
Two permissions show that expiring a run's permissions appends several events. What no
bound of the Store runs reaches, longer logs and more permissions, the proofs cover. Three
steps of a workflow allow a chain, a fork and a join; workflows do not share state but
`failure` and the shutdown, so one is enough. A restart covers the reconciliation of each point a crash
can cut. In the gateway two calls compete for a slot, for a breaker's probe and for a queue place; the first
credential takes the paths with vision, search and an unsendable secret, the
second the plain one; the queue is of length one at the first and of none at the second. `Kinds` are
the failures that count towards a breaker (`other`, which is also retried) and that rest it for long (`auth`); the
remaining kinds differ in the functions of `classify` only, and the proofs cover them. Budgets have a run of their
own because reservations and usage multiply its states: a cap of 2 with reservations up to 2 lets a second call in
beside a first one, lets either pass the cap within its reservation, and usage of 3 is beyond any
reservation; the third call meets what the first two left, in this window or the next. In `gateway` reservations and
usage are 0. Longer plans, more
calls, keys and credentials are covered by the proofs as well.

Deadlock checking is off because these systems may rest: all runs ended, the client silent.
That nothing rests too early is stated by the liveness properties instead.

Every property has at least one mutant in `PROJECT.json`: a change of one mapped definition
that a plausible bug would make, under which the same configuration fails.

### Fairness

*Runtime.* Weak fairness of the pump, of recovery, of the clock, of `execute`'s own steps, of
`stop`, `closeSession` and `suspendSession`, and of `host.closeSession` ending. The event loop runs
queued microtasks and due timers; inspection and collection take an abort signal or end by
themselves; the host bounds every wait of `terminate` with a timer. Nothing is assumed of the
client, of the engine (it may never send a result) or of the Worker's messages: a run ends
because its deadline does.

*WorkerIpc.* Weak fairness of both event loops, of the bounded waits of `terminate`, of the
handshake timeout, and of the driver ending. The last is what the Runtime forces with a
cancel and, after the grace period, with a close. No fairness of `WorkerDies`.

*Workflows.* Weak fairness of the task's wake-ups (`Wake`: timers of `waitRun` and settled
promises), of runs ending and of `closeSession` returning, which are the liveness properties
checked of `Runtime`, and of `close()` itself. None of approving, cancelling, restarting or faults.

*Gateway.* Only safety is checked.

## 4. Proofs

### The Store

`StoreProofs` proves, for every set of Sessions, runs, permissions, artifacts, keys, options
and backends, with `MaxEvents` and `MaxSource` arbitrary:

| Theorem | States |
|---|---|
| `StoreTyped` | `[]TypeOK` |
| `StoreNumbers` | `[]EventsNumbered`: a run's events are numbered 1 to `lastSeq`, each number once |
| `StoreSeals` | `[]TerminalEventLast`: a run is ended exactly if it has a terminal event, which is its last |
| `StoreClosesPermissions` | `[]NoOpenPermissionAfterEnd`: an ended run has no permission left to decide or to apply |
| `StoreGenerations` | `[]GenerationsUnique`: the runs of a Session have distinct generations |
| `StoreKeys` | `[]KeyNamesOneRun`: an idempotency key names one run of its Session |
| `StoreSources` | `[]SourceRecordedOnce`: no Worker message is recorded twice |
| `StoreFinality` | `FinalStands`: an ended run with its events and artifacts, a decision, an applied or expired permission, a closed Session and its backend are never changed |

Assumptions: `StoreAssumption` (permissions are finitely many, `None` is not an identity) and
`BoundAssumption` (the bounds are natural numbers).

The argument. None of the properties is inductive alone. Ending a run appends one event per
open permission and then the terminal one, so to number the terminal event one must know that
`lastSeq` is the number of the last event of the run; to know that nothing follows it, that no
other call appends to an ended run; and to expire the permissions of the run that ends, that a
permission belongs to an accepted run. `WellFormed` is the conjunction that carries itself:
the typing of the database; `Bounded` (generations are bounded, so that `MAX(generation)` is
defined); `Numbered`; `Sealed`; `PermissionsClosed`; `PermsOwned` (a permission that exists
belongs to an accepted run) and `RunsOwned` (an accepted run belongs to a Session, an unused one
has no event). Every operator writes events through `InsertEvent` or `ExpirePermissions`; the
lemmas about these two (`InsertEventWellFormed`, `ExpireWellFormed`) carry most of the argument.
Expiring permissions is one comprehension over a finite set of permissions and not a loop, so the
proof needs no induction over data. One lemma per Store operator shows that it keeps
`WellFormed`, and `NextInv` has one case per call and cites them.

The second part, on identities, builds on that. `AcceptRun` is the only call that sets the Session, generation
and key of a run, but every other call saves whole run records. `IdentitiesKept` says that it saves
these columns as they were, and is proved call by call; `AcceptRunDistinct` shows that the new
generation is above all others of the Session (`GenerationFresh`, from `Bounded`) and the new key
unused.

The third part, on history, compares the database before and after a call. `Stands` has one part per
table; one lemma per operator (`...Stands`) shows that the operator keeps to it. A decision is not
lost only because a permission that is still pending has none, and a backend identity only because a Session that
is still to be created has none. `Prior` says so (`Undecided`, `Unbound`), and also that a run belongs to a Session
that exists (`Housed`: an engine binds its identity to that one) and that no message is recorded twice;
`NextStands` carries `Stands` and `Prior` together through every call. Two operators of `finishRun` write
events one after the other (expired permissions, then the end), so `RecordStands` is also shown
to compose (`RecordTwice`).

### The Runtime

`RuntimeStepProofs`, `RuntimeQueueProofs` and `RuntimeProofs` prove, for any number of Sessions,
runs, permissions, artifacts, messages and crashes, any mix of drivers and engines, and any limits:

| Theorem | States |
|---|---|
| `Invariance` | `[]IInv`, the inductive invariant below |
| `TypeCorrect` | `[]TypeOK` |
| `SlotLimitsHold` | `[]SlotLimits`: never more runs execute than `maxConcurrency`, nor more of one engine than its profile allows |
| `NoRunLost` | `[]NoLostRun`: a run that has not ended is in the queue once, or the active run of its Session, and not both |
| `DeadlinesHeld` | `[]DeadlineHeld`: such a run has its deadline timer, or is being stopped |
| `AcceptedInOrder` | `[]AcceptedOrder`: the runs of a Session start in the order of acceptance, each after those before it ended |
| `ClosedSessionsQuiet` | `[]ClosedSessionQuiet`: a closed Session has no `execute()`, no live Worker and no run that started and has not ended |
| `CleanupRecorded` | `[]CleanupTruthful`: the cleanup that a run records is what the host knows of the Worker |
| `SuspendedIsIdle` | `[]SuspendedIdle`: a Session whose Worker is being released runs nothing and has nothing to run |
| `OpenPermissionsLive` | `[]OpenPermissionLive`: an open permission belongs to an active run that its Worker has started |
| `FirstStopStands` | `FirstStopWins`: the first stop reason is the one the run ends with, whatever arrives later |
| `NoArtifactLate` | `NoArtifactAfterStop`: nothing is registered for a run that ended or is being stopped |

Assumptions: `StoreAssumption` and `RuntimeAssumption` (the limits and bounds are natural numbers,
each Session has one of the three drivers).

The argument. While the Runtime serves, the invariant has two layers.

- `Good(st)` speaks of the state that the operators of `Runtime` pass on: database, queue, timers,
  `act` and `worker`. It is `Aright` for each Session, `Line` (the queue lists every queued run once, a
  Session's in the order of acceptance) and `Referenced` (references of the database lead
  somewhere, and generations are bounded). `Aright` says that a Session with an `execute()`
  owns a run whose status fits the stage (`Executing`), and that no other run of the Session is worked
  on (`Mine`); what each await knows of the result, the stop and the Worker (`Staged`); that the final
  stage has recorded the truth (`Truthful`); that a closed Session is quiet (`Shut`); whose
  permissions are open (`Asked`), who has a timer (`Timed`) and who has started (`Ordered`). `Staged` is
  what makes the rest inductive: `CleanupTruthful`, say, is about the last stage, but depends on what
  `reclaim` left several awaits earlier, and on that nobody starts a Worker in between.
- `Fit(st, ...)` speaks of the calls under way around it: a Session that is not open has stopped its run
  (`Halting`), the limits (`Slots`), the stages of `closeSession` (`ClosersFit`), the Sessions being suspended
  and the publications.

Every operator (`Stop`, `Conclude`, `Catch`, `AfterReclaim`, `StopIfPast`, `End`, ...) is a sound step of one Session,
`Steps(st, x, s)`: the state it makes is good, what it may do to its own Session is bounded (`Turn`,
`Steady`), and other Sessions cannot tell (`BesideAright`). These compose, and from `Turn` and
`Steady` follow `Fit` and both action properties, so the proof of an action is that it is
made of such operators. `Advances` is the same for steps of several Sessions.

The loops stop all runs (`StopAll`), register all outputs (`RegisterAll`) and walk the queue (`PumpAll`). Each
is a function from the number of turns taken to the state reached, and what it keeps is shown by the least
number of turns that would be a counterexample (`LeastMember`), which needs no induction
theorem. Between two turns of the pump the queue is in neither its old nor its new state: `Pumped`
says that the state is good if the entries still to come are put behind those kept (`Ahead`), that the limits
hold, and that every entry kept is `Blocked`, by its Session or by a limit; an entry once blocked stays so
because a turn only fills slots. The last is what shows that an entry behind a kept one of its Session does
not overtake it.

A crash empties the memory. What survives is `Durable`: `Referenced`, `Ordered` and that ended runs
have no open permission. While the leases, the runs and the Sessions are recovered the invariant is
`Recovering`, what is still owed at each phase; `Restarting` is what each of these steps does, the last of which
serves again.

TLC found, on the runs of section 3, the parts of the invariant to hold before they were proved.

### The Worker host

`WorkerIpcProofs` proves, for any number of runs, events and Workers and with or without the
initialization timer (`IpcAssumption`: the bounds are natural numbers):

| Theorem | States |
|---|---|
| `Invariance` | `[]Inv`, the inductive invariant below |
| `StaysInStep` | `[]InStep`: the checks by which either side fails the other never fire while both are well |
| `NothingIsLost` | `[]NothingLost`: a result is resolved after everything its driver produced was seen |
| `PendingIsOwned` | `[]PendingOwned`: whoever waits, waits for the current run of a Worker that is not quarantined, or for a `start()` about to throw |
| `CleanupIsProven` | `[]CleanupProven`: a Worker is forgotten only when process and group are gone, and the descendants outside it but for the lost ones |
| `PromiseKept` | `KeepsPromise`: every step maps to a step of `WorkerService` or to a stutter |

The argument. `InStep` says what is at the head of a channel and is far from inductive: what
comes next depends on what is on its way back. The invariant follows one token.

- `Token`: at most one message is in `toHost`; between a delivery and its acknowledgement the
  current message is in `toHost`, in the sink, or an `ack` in `toWorker`, and in one of these only.
  `Queue` says the same of the commands: one `ack`, the one awaited, and a `run` only behind the `ack`
  of a result. It is stated of a Worker that still delivers (`Live`): one that shuts down without a
  run drops what it is sent.
- `Early`: before the handshake nothing is said but `ready`.
- `InOrder`: while the host trusts its Worker, both count alike; the Worker is ahead by the
  one message in `toHost`.
- `Between`: while no run has been sent for the host's current `start`, or none is current, the Worker is idle or has the
  acknowledgement of its last result before it. This is the state that `start()` relies on when it sends
  the next run right behind that acknowledgement.
- `Counted` and `Driven`: what the sink has seen is the host's number, what the driver has produced
  is what the Worker has sent and will send, and a result on its way is the last message.
- `HostOwns` and `WorkerOwns`: what the two records say of each other's process, and who waits.

Of the actions, more than half neither read a message, start a run nor acknowledge. For these the
predicate `Quiet` says what they may do (fail, go on with `terminate`, reject all that
waits, send a command that needs no answer), and one lemma (`QuietInv`) shows that such a step keeps
the invariant. Each of the others has a lemma of its own. For the refinement, `Moves` lists the
abstract steps in terms of the state of the Worker as the Runtime may know it (`Phase`); a step that ends closing
rejects all that waits because, at `sweep`, the exit was seen and no `start()` is between its
checks (`Turn`), so that nobody waits any more when the end is confirmed.

### The workflows

`WorkflowProofs` proves, for any finite or infinite set of workflows, any number of steps, restarts and faults, and
any acyclic plan (`WorkflowAssumption`):

| Theorem | States |
|---|---|
| `Invariance` | `[]Inv`, the inductive invariant below |
| `RunsInOrder` | `[]StepsInOrder`: one run at a time, each step after those it depends on |
| `RunsAreAdopted` | `[]RunsAdopted`: a submitted run is recorded or will be found at the next start |
| `RecordIsTruthful` | `[]RecordTruthful`: the record of an ended plan is what its runs did |
| `SessionsAreReleased` | `[]SessionsReleased`: a finished task leaves no Session of its own open |
| `StartsOnlyWanted` | `StartsWhileWanted`: nothing starts after a cancel, before the approval or at shutdown |
| `ResultsFinal` | `ResultFinal`: a result is final, but for the one case of a failed shutdown |

The argument. Workflows do not share state but `failure`, the phase and the count of restarts, so the
invariant is one of a record, `Good(p, n, up, broken)`: the runs are in order (`InOrder`), the
record tells of runs that exist (`Reported`), Sessions bear the number of the process that created them
(`Numbered`), between two steps nothing runs and the next step has its Session (`Poised`), a cancellation is
not forgotten (`Asked`), and at each await the stored status is one that the task can be in
(`StagedAt`); while the process is up, every Session of this process that still works is in
the hands of the task (`Held`), and a draft that can be approved has none (`Draft`). `Tidy` holds
as long as nothing was refused: it is what makes the record true and complete at the end, and it does not survive a
refused write, which is why `RunsAdopted` and the second part of `RecordTruthful` say so too. There is one lemma per
operator that says what record it makes of a good one; an action only puts records that
operators make, so its lemma cites theirs, once for every prefix of the writes after which the
process may die. The two action properties need what a step does to one record: `Calm` (it starts nothing),
and `Wanted` and `Kept`, which hold of every step (`Honest`).

That some step is runnable while steps wait (`Ready`) rests on the plan being acyclic, in the form that
every non-empty set of steps has a member that depends on none of them (`Acyclic`). That the code's
choice, the first in the order of the plan, is one of them rests on the well-foundedness of
the naturals (`LeastStep`).

### The gateway

`GatewaySlotProofs` and `GatewayProofs` prove, for any finite set of calls, any keys,
credentials, candidate lists, failure kinds, limits, queues and retry policies:

| Theorem | States |
|---|---|
| `GatewaySlots` | `[]SlotsBalanced`: the slots counted active of a credential are those its calls hold, but for `drift`; never more than the limit; none is free while a call waits, and a waiting call is alive and at that credential |
| `GatewayBudgets` | `[]BudgetHeld`, if at most one ledger write fails: a key passes its budget in a window by less than one reservation and by what its calls used beyond theirs, and holds the sum of the reservations of its calls in flight |
| `GatewayRests` | `[]LongRestsEarned`: a rest of more than a minute was asked for by two keys, or doubled by a counted failure after an earlier opening |
| `GatewaySummary` | `[]SummaryComplete`: a run's summary counts every call of the run in the ledger |

Assumption: `GatewayAssumption` (the types of the constants; calls are finitely many, and
limits at least 1).

The argument. The invariant is `Inv == SlotInv /\ Marks /\ Sums /\ Counters /\ Summed`.

- `SlotInv` is `CallsOK` and `Balanced`. A slot is given back on a dozen paths, so the count
  is only right if every call record says truly whether it holds one: `Sound` ties the
  slot, the place in the candidate list and the abort flag to `pc` (a call at its upstream holds a
  slot, one in a queue or asleep holds none, only a waiting call is aborted). `CallsOK` adds that
  whoever is queued is waiting, at that credential, and not aborted: then handing a slot over
  (`GiveBack`) turns one holder into another and the count is kept. The lemmas about
  `GiveBack` and `Acquire` are cited by each action that uses them.
- `Marks` says that every breaker is `Fair` to its history: its `by` is among the keys that asked, a breaker that
  remembers an opening had one, and a long rest was asked for by two or doubled. The first two parts are what the
  third needs: the second key lengthens what the first one set, and a rest doubles only if the
  breaker remembers that it opened before.
- `Sums` holds of a budgeted key that what it used is the ledger and what was kept apart, that the
  cached sum, if any, is the same, that `held` is the sum of what its calls in flight reserved, and
  that usage plus what is reserved by the calls that may still charge (`Due`: in flight, not yet committed, of
  this window) is below the cap, one reservation and the excess. The last is the reason that
  reservations work: `admit` compares used plus held with the cap, `held` includes all that is due, and only the
  reservation of the call it admits comes on top. When a call commits, its usage replaces its reservation, and
  what is above that is excess. Sums are counted as cardinalities: a reservation of n is the n pairs of the
  call and a number up to n (`Pledged`), so that the theorems on finite sets replace an induction over calls.
  With a cap of 0 no call is ever in flight. A second failed write, of an entry of the window before, replaces what is
  kept for the present window (`quota.ts:358`); for that case `BudgetHeld` is not claimed.
- `Summed` holds that no call of the Session is in flight once its run is over, which is what
  `awaitSessionIdle` waits for, and that up to then every committed call was counted.

One lemma per action shows what it keeps of each part; the five are separate because most
actions leave four of them alone.

### What is not proved

Only model-checked: that `Runtime` implements `RunLifecycle`; that no run which could start waits in the queue
without a pump to come (`QueueServed`); and all liveness (`EveryRunEnds`, `ClosingEnds`, `RunSettles`,
`PlanSettles`), which is outside the reach of this prover, as are `ENABLED` and induction over data. Every safety
property of a passing run but `ImplementsLifecycle` and `QueueServed` is a theorem.

## 5. Findings

1. **Approving a draft after a crash disables the service.** `docs/workflows.md:74` says that
   a restart keeps drafts that wait for approval. `approve()` binds the first step's Session in one
   transaction (`workflows.ts:286`) and saves the running workflow in another. A process that dies
   between the two leaves a draft whose Session exists; approving it after the restart meets a conflict
   (`workflow-store.ts:149`) that is not an error it returns, so the service marks itself failed
   (`workflows.ts:296-299`) and refuses every workflow. Run `draft_kept`.
2. **A slot is given back twice.** `docs/features/model-plane/credentials.md:33` limits the concurrent upstream
   requests of a credential, and `http.ts:84` says that the caller of `acquire` gives its slot back. When an
   answer asks for a search, the next request of the round is sent while the idle timer of the first
   answer is still armed (`docs/model-gateway.md:93` says that data received resets it). If it fires before
   the new headers, `send()` gives the slot back and throws (`call.ts:1721`), and the attempt's
   `finally` gives it back again (`call.ts:2165`). The count stays below the truth for the rest of
   the process, so more requests than the limit run. Run `limit_kept`; `drift` is this
   count, so the other properties are stated modulo it.

3. **One key rests a credential for long.** `routing.ts:1696-1698` says that only a failure from
   another Gateway Key gives a rest longer than a minute in full, "so one key cannot rest a shared
   credential for long", and `docs/model-gateway.md:267` that one failure of one key rests it for at
   most a minute. The code cuts cooldowns and auth failures only. A counted failure (a timeout, a
   5xx) of the probe opens the breaker again for 60 s doubled per opening, up to 10 minutes, whichever key it
   comes from (`routing.ts:1936`, `1966`), so a key whose requests keep timing out takes the credential from every
   key for 2 to 10 minutes. The doubling is documented too (`routing.ts:1689`,
   `docs/model-gateway.md:265`); the two statements contradict each other. Run `rests_short`. What does hold
   is `LongRestsEarned`.

Behaviour that contradicts no document but that a reader of the code should know, all of it
contained in the models:

- Ending a run and closing its Session are two transactions in recovery (`runtime.ts:96`) and for a
  lost ACP Session in `execute` (`runtime.ts:472`). A crash between them leaves the Session
  open, or closing, and recovery, which finds Sessions through unfinished runs, passes it by.
- An exception that leaves `routeCall` after the call became a breaker's probe (`call.ts:2595`) leaves
  the credential being probed until it is switched off and on; when it is a secret that no header
  can hold (`call.ts:1605`), the slot is lost as well, which `drift` counts.
- `release()` and `failure()` of a breaker clear the probe flag whoever set it
  (`routing.ts:1865`), so a second probe may be let through.
- A permission answer that crosses the engine's withdrawal, or the acknowledgement of the result, is a
  protocol error for the Worker (`main.ts:574`) and ends the run or the idle Worker.

## 6. What is not modelled

- In `Store`: the engine catalog, import and export reads, the owner row.
- In `Runtime`: failing Store writes (`failure`, `runtime.ts:239`, and what a rejected background task
  does); the fields of requests and results.
- In `WorkerIpc`: the Windows Job path, the host-wide `close`, the Worker's reaction to the
  loss of its parent, message sizes and schemas. Of the process scans, what tells a descendant of the Worker from
  others is modelled by its outcome (`owned`, `linked`, `lost`), not by process tables; a descendant of another
  user or with an unreadable environment that a scan does reach is an unconfirmed cleanup.
- In `Workflows`: prompts, the hand-over of outputs and artifacts between steps, the parsing of a plan,
  engine scores.
- In `Gateway`: the choice and order of candidates (rules, weights, stickiness; the model allows every
  list of `Plans`), request rates and the concurrency limit of a key, the issue and revocation
  of Session keys, several budgets and several windows of a key at a time, how large a reservation is (any number up to a
  bound), search results and the wire. `Searching`, `Unsendable` and `NeedsVision` are the first credential only in the runs.
- Not yet at all: leases and process reclaim, the instance lock and checkpoints, the model
  plane store, console sessions, backup.
- Not planned: protocol conversion (data mapping over unbounded strings), secrets, agent
  wiring, the clients (CLI, terminal UI, SDK, web console) and the benchmark, which are file and network
  I/O without shared state of interest. These make up the larger part of the repository's lines.

## 7. Plan

1. Store, Runtime, host and Worker, the two abstract specifications, the Store's proofs (done).
2. `Workflows` (done), `Gateway` with the model session of a run (done), the gateway's proofs (done).
3. `Leases` and the instance lock: a process is reclaimed at most once and never by two
   daemons; a lease file outlives its Worker only until the next start.
4. Failing Store writes in `Runtime`, as a fault on the Store calls.
5. The model plane store: revisions, references between records, the ledger.
6. Session keys: no key is usable outside its Session; a crash leaves none behind.
7. Liveness of the gateway: every call ends under fair upstream timeouts, a breaker that
   rests is probed again.
8. Proofs: the invariants of `Workflows` and of `WorkerIpc`, and the latter's refinement of
   `WorkerService` (done); the invariants and action properties of `Runtime` (done); its refinement of
   `RunLifecycle` and `QueueServed`.
