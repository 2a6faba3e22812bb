# A specification of ferris-agent-bridge

ferris-agent-bridge relays messages between instant-messaging platforms and
local agents. Its crate is a library of runtime primitives (`src/src/runtime`,
`src/src/adapter*`) and a small daemon that is started and stopped from the
command line (`src/src/daemon*`). The orchestrator that would drive the
primitives in a loop is not part of the repository; we call it the *embedder*.
What the code promises the embedder is durability ("when this returns `Ok` it
survives"), exclusivity ("one unfinished run owns a session") and at-most-once
hand-over, in both directions. These promises are what this project states,
model-checks and, for every value of the constants, proves.

## 1. Inventory

| Component | State | Operations | Hard because of |
|---|---|---|---|
| State file (`persistence.rs`, `store/locking.rs`) | the file, a temporary file, one process-wide mutex | `write_json_atomic`, `confirm_existing_file_durable` | crash or power loss between any two system calls; an error *after* the rename |
| Runtime state (`state/model.rs`, `run.rs`, `queue.rs`, `outbox.rs`) | sessions, runs, run inputs, inbound ledger, queue, outbox: one JSON image | pure transitions, `validate` | relations between the collections |
| State store (`store/*.rs`) | none of its own: every operation is load, change, write under the mutex | persist, claim, start, complete, fail, interrupt, reconcile, enqueue, mark, resolve, `save` | ambiguous errors, retries and replays, stale snapshots |
| Inbound acceptance (`orchestrator.rs`) | none | persist, then acknowledge | redelivery, failed acknowledgement |
| Message queue (`queue.rs`) | none | choose the batch of one session | order, debounce, ownership of sessions |
| Agent runs (`store/run.rs`, `adapter/agent.rs`) | run status, run input | start, then one outcome | executions that outlive the bridge |
| Outbox worker (`outbox/worker.rs`, `outbox/retry.rs`) | none | claim, send, record the outcome | a platform that accepts although the call failed; clocks; two workers |
| Recovery (`store/recovery.rs`, `store/outbound_recovery.rs`, `store/outbound_resolution.rs`) | none | reconcile at startup, resolve an uncertain delivery | restarts, operators who repeat a call |
| Lifecycle lock (`daemon/lifecycle.rs`) | `daemon.lifecycle.lock` | acquire, recover, release | owners that die between any two file operations, several waiters that recover one lock |
| Daemon (`daemon.rs`, `daemon/*.rs`) | `daemon.lock`, `daemon.state`, `daemon.stop`, processes | start, run, stop, status, the daemon's loop | concurrent commands, dead or late processes, pid reuse |
| State format (`state/format/*.rs`) | none | decode versions 1 to 8 | fields that must or must not be present; files that are damaged or newer |
| Derived identifiers (`session.rs`, `event.rs`, `outbox.rs`) | none | the ids of a chat's session, a platform's event, a run's output | two things under one name |
| Access and workspace policy (`policy/*.rs`) | none | two decisions | the first compares derived ids |
| Configuration, logging, command line | none | parsing and formatting | - |

The daemon and the runtime share nothing yet: the daemon's loop only waits for
its stop request. The state file is the only state the runtime components share: they interact
by calling the store, and with the world through two traits (`ImAdapter`,
`AgentAdapter`) whose calls happen outside the mutex. What makes each component
correct is stated with its module below. `PROJECT.json` lists the hazards with
their source lines and the properties that watch them.

## 2. Modules

```
DurableFile  <--implements--  StateFileWrite
     ^   ^
     |   +----------------------------+
MessageHandoff --extends--> RuntimeState       OutboxDelivery
     ^                          ^                   ^
     |                          | (untimed steps)   |
MCMessageHandoff,               |              MCOutboxDelivery,
MessageHandoffProofs            |              OutboxDeliveryProofs
                                |
QueuePolicy <-- StateImage <-- MessageQueue <-- MCMessageQueue, MessageQueueProofs
                    ^
                    +--------- StateFormat <-- SnapshotSave <-- MCSnapshotSave,
                                                                SnapshotSaveProofs

StateImage, Identifiers  <-- OperatorProofs  <-- MessageQueueProofs, SnapshotSaveProofs

StateFileWrite  <-- StateFileWriteProofs
LifecycleLock  <-- MCLifecycleLock, LifecycleLockProofs
DaemonLifecycle  <-- DaemonLifecycleProofs
```

There are two models of the state image because there are two kinds of question.
Failures, crashes and power losses multiply the images there can be, so
MessageHandoff and OutboxDelivery each work on a small one. Times, sessions,
conflicting content, validation, merging and migration need every field, and
have no use for failing writes, which StateFileWrite shows to leave one image
or the other. `StepsAreUntimedSteps` ties the two together.

**DurableFile** is the abstract state file: a *visible* image that every reader
of the path gets, and a *durable* image that a power loss would leave. A write
either succeeds (`Written`: both change), fails before the rename
(`NotReplaced`: none changes) or fails after it (`ReplacedUnsynced`: only the
visible one changes). `Synced` is what `confirm_existing_file_durable` does.
`Init` and the actions are used by the other modules through
`INSTANCE DurableFile`. The directory of the file exists and is durable: the
first write of all creates it, and nothing syncs its own entry
(`persistence.rs:216`).

**StateFileWrite** is the code below it, one action per system call: take
`STATE_STORE_WRITE_LOCK`, load, open the temporary file, write, fsync, rename,
sync the parent directory. Any step may fail (`StepFails`), the process may die
(`Crash`) and the machine may lose power (`PowerLoss`); the directory entry may
reach the disk on its own (`Writeback`). An image is the set of updates it
contains, which is enough to see a lost, a torn or a forgotten one.
`OkUpdatesSurvive` is the promise to callers, and `ImplementsDurableFile` shows
that the steps implement DurableFile, so that the other modules may use it in
one step. A store operation really is one step of the runtime's state, because
every writer holds the mutex from load to return and readers only load.

**RuntimeState** holds the image of runs, run inputs, ledger and queue, the
transitions of `RuntimeState` in `state/model.rs`, and `validate` as four named
conjuncts. The queue is a set: in the code the queue and the ledger grow at
their ends together and claims retain the order, so the order of a queue is
that of the ledger (`Before`).

**MessageHandoff** takes a message from the platform to an agent.

| Action | Code |
|---|---|
| `PersistInboundEvent`, `AcknowledgeInbound`, `AcknowledgeFails` | `accept_inbound_delivery` before and after the adapter call |
| `ClaimMessageBatch` | `StateStore::claim_message_batch` |
| `StartAgentRun`, `AgentReturns`, `RecordOutcome` | `start_agent_run`, `AgentAdapter::execute_run`, `complete_/fail_/interrupt_agent_run` and their replays |
| `AddRunBySave`, `SaveRunStatus` | `StateStore::save` of a snapshot that adds or moves a run |
| `ReconcileRunsAtStartup` | `StateStore::reconcile_runs_at_startup` |
| `ExecutionEnds`, `Writeback`, `Crash`, `PowerLoss` | the environment |

`mode` is the embedder's: it reconciles before it does anything else, as
`docs/design/0.3-runtime-orchestrator.md` asks. `CarefulEmbedder` says whether
it resolves a run only when no execution of it is alive; the code does not
force it to, and only `ExclusiveExecution` needs it. `acked`, `handed` and
`told` are history: no action reads them.

**QueuePolicy** is `MessageQueuePolicy::poll_where` as operators of the queue,
the time and the sessions that may take part: `ReadyAt` (debounce, or at once
for a full batch), `ReadyBatch` (the session that was ready first) and
`NextReadyAt` (the `Waiting` answer).

**StateImage** is `RuntimeState` in full: sessions, runs, run inputs, ledger,
queue and outbox are sequences of records with all their times. Each transition
is an operator that yields the set of resulting images, `{}` for an error:
`RecordEvent`, `ClaimBatch`, `OnRun` with `Start`, `Interrupt`, `Complete` and
`End`, `Enqueue`, `OnDelivery` with `BeginDelivery`, `Settle` and `Resolve`,
`CompleteWithOutputs`, the two reconciliations. `Valid` is `validate` with one
operator for each of its parts; the last conjunct of the part on run inputs,
`ClaimedOnce`, says that a claimed message no longer waits and belongs to one
run. `Save` is `StateStore::save`: what a snapshot
may bring along (`MayIntroduce`), what it may not contradict (`Mergeable`), the
merge (`MergedRuns`, `MergedQueue`, `MergedOutbox`, `Union` of the ledgers) and
validation of the result.

**MessageQueue** lets messages arrive (`Arrive`) and an embedder claim them
(`Claim`), sleep on a `Waiting` answer until the time it names (`Wait`) and end
its runs (`EndRun`), while the clock advances or is set back. The embedder is
woken by an arrival for a session that no run owns and by the end of a run:
`poll_where` cannot foresee these, and its answer does not claim to.

**StateFormat** is the file: `Encode` writes version 8, `Decodable` and
`Decoded` are what versions 1 to 8 must and must not hold and how an old file is
brought up to date, `Parse` adds the checks of each run and of the whole.

**SnapshotSave** puts the store together: an embedder loads, edits and saves
copies (`LoadSnapshot`, `Edit...`, `SaveSnapshot`, as often as it likes) while
the store's own operations change the file (`PersistEvent`, `ClaimMessages`,
`StartAgentRun`, `CompleteAgentRun`, `FailAgentRun`, `InterruptAgentRun`,
`EnqueueDelivery`, `ClaimDelivery`, `SettleDelivery`, `ResolveDelivery`,
`Recover`). `CompleteAgentRun` is where a run meets the outbox: its messages
become deliveries in the same write. `confirmed` is history, the completions
the caller was told of. The file the process finds may be of any version.

**Identifiers** has the derived names down to their bytes, because that is what
their promise is about: `SessionId::for_scope`,
`EventId::for_platform_delivery` (escaping, separators and length prefixes),
`output_delivery_id`, and what `is_valid_id` accepts; and the two policies,
`Evaluate` and `EvaluateRoot`. It has no state. Its theorems are about texts of
any content; the bounds are lengths no memory holds (256 MiB of text, 10^7
outputs), which keep the hexadecimal and decimal lengths within the digits
`Powers16` and `Powers10` list.

**OutboxDelivery** takes a delivery from the outbox to the platform: `Enqueue`,
`ReadClock`, `ClaimNextDelivery`, `AdapterReturns`, `RecordOutcome` (the steps
of `OutboxWorker::process_next`), `Resolve`, `ReconcileAtStartup`. The
platform (`PlatformDecides`) may accept a request after the call that sent it,
or its process, is gone. The operator (`InspectUncertain`) resolves what the
platform has decided, dates the resolution with the clock, and repeats the call
until it returns; there is one operator per delivery. Times are small numbers;
`MaxTime` is `u64::MAX`, where additions saturate, and `ClockMax` bounds the
clock.

**LifecycleLock** is `acquire_lifecycle_lock` and the drop of its guard, one
action per file operation: `Create`, `Fill`/`FillFails`/`Scrap`
(`create_lifecycle_lock`), `Inspect`, `Read` (`inspect_stale_lifecycle_lock`),
`Match`, `Unlink` (a complete lock of a dead owner), `Compare`, `Reread`,
`Recompare`, `Discard` (an incomplete one), `Deadline`, `WakeUp`, `Drop`,
`Release`. A process takes the lock once, so it also names its pid, token and
file; content is written in one call, and a snapshot is the file's creator and
whether it is written (dev/inode/mtime and length in the code). `Prompt` says
that a process between two file operations does not stall for as long as a tick
of the clock; while it holds the lock, or sleeps, it may take any time. With it,
`TimesAssumption` is the budget of `daemon.rs:36-41`.

**DaemonLifecycle** is what the lock is for. A start command makes one token
and one child, so the command names its token and `Daemon(token)` its child.

| Action | Code |
|---|---|
| `PrepareStart`, `CreateLock`, `StartLockExists`, `CreateFails`, `FillLock`, `Spawn` | `prepare_start`, `acquire_start_lock`, `write_new_record`, `start_background` / `run_foreground` |
| `WaitForRunning`, `StartFails`, `FailedStart...`, `ForegroundReturns` | `wait_for_running`, `cleanup_failed_start`, the end of `run_foreground` |
| `Validate`, `WriteLock`, `WriteState`, `StopRequested` | `run_daemon` |
| `StopFindsNoDirectory`, `InspectToStop`, `RequestStop`, `AwaitStop`, `RereadState`, `VerifyIdentity`, `Terminate`, `AwaitKilled` | `stop`, `force_stop_verified` |
| `CleanLock`, `CleanState`, `CleanStop`, `CleanInvalid` | `cleanup.rs`, for records and tokens |
| `Acquire`, `AcquireGivesUp` | `acquire_lifecycle_lock`, taken as sound: see below |
| `Crash`, `Reuse`, `Age`, `CorruptState` | the environment |

`expired` says that the starting lock has outlived `STARTING_LOCK_TTL`, `reused`
are dead processes whose pid now names another. `InspectStatus` is a relation, because what the code learns of a process is not
determined: a child that ended but was not waited for still counts as running
on Unix, a command line may be unreadable.

Everything a command asks of the system may fail, and `FailsFor` counts it as a
fault. Where the code reports the error, the command ends; where it ignores it,
the command goes on with what it took for the answer, and the history says so.
`unchecked` are the processes that were taken for gone because a check failed:
`is_process_running` answers false when it cannot run `kill` or `tasklist`
(`IsRunning`, `Inspect`), `wait_for_stop` takes a state file that cannot be looked up for
removed (`AwaitStop`), and `wait_for_child_exit` a child that cannot be waited for
(`FailedStartEndsDaemon`, `ForegroundReturns`). `careless` are the commands that
went on after a file could not be looked up, read or removed: `inspect_status`
takes a record it cannot read for invalid, `stop` a directory it cannot look up
for missing, and `cleanup.rs` discards every error (`CleanLock`, `CleanState`). The
properties of the daemon name these two as their exceptions. `Timeouts` says whether anything may
take longer than a timeout or `STARTING_LOCK_TTL`; if so, any wait may. The
lifecycle lock has one holder and is free when the holder is dead, which is
what LifecycleLock establishes except for the race described below; with two
holders none of the properties here would hold. `barred` and `foreign` are
history too: of a stop that was careless, `barred` records nothing.

Operators whose comment starts with "Wrong:" are not part of a specification:
each is a variant of the definition after it with a plausible mistake (a
missing sync, a dropped guard, a wrong reset). Substituted for that definition
it must make TLC find a violation; `PROJECT.json` says of which property.

## 3. Runs

All passing runs are exhaustive and end within two or three minutes on two slow cores.

| Run | Instance | Shows |
|---|---|---|
| `state_file` | 3 writers, failures and crashes | no confirmed update is lost; refinement of DurableFile |
| `handoff` | 2 messages of one session, 2 run ids, 2 failed operations, 1 restart | `TypeOK`, `ImagesValid`, `HandedOnce`, `ExclusiveExecution`, `ConfirmedOutcomeDurable`, `RecordedAckDurable`, `ReportIsDurable` |
| `duplicate_ack` | 1 notice | *violated:* every acknowledged event is durable |
| `outbox` | 2 workers, 2 deliveries, 2 attempts, 1 failed write, 1 restart, clock 0 to 1, set back once | all safety properties of OutboxDelivery but its type |
| `outbox_liveness` | 2 workers, 2 deliveries, 3 attempts, growing backoff, clock up to the end of time | `TypeOK`; every delivery settles |
| `lifecycle_lock` | 3 processes, 2 deaths anywhere, 1 failed write | `TypeOK`, `ExclusiveWhileNoneDied`, `NoLiveLockCondemned`, `DeadLocksAreRecovered` |
| `lock_race` | 3 processes, 1 death | *violated:* `MutualExclusion` |
| `lock_liveness` | 2 processes, 1 death, 1 failed write, arbitrarily slow | the acquisition loop ends |
| `daemon` | 1 start, 1 run, 1 stop, 2 faults of any kind, 1 reused pid, all timeouts | `AtMostOneDaemon`, `RunningDaemonIsFindable`, `StoppedStaysStopped`, `FailedStartLeavesNothing`, `OnlyDaemonsAreSignalled` |
| `daemon_liveness` | 2 starts, 1 run, 1 stop, no faults, no timeouts | every command ends |
| `message_queue` | 4 messages of 2 sessions, one of them queued from the start, one dated in the future, a conflicting duplicate and a malformed event; batches of 2, debounce 1, clock 0 to 2, set back once | `FileStaysValid`, `WaitIsExact`, `OnlyItsSessionDelays`, `FullBatchIsFinal`, `StepsAreUntimedSteps`, `EveryMessageIsClaimed` |
| `snapshot_save` | 1 embedder, 1 edit of its copy and any number of saves, 2 operations of the store, 1 tick; from no file or a busy current one; and every released version and 1000 odd files | `SaveOnlyAdds`, `StaleSaveChangesNothing`, `MergesAreValid`, `ConfirmedCompletionStands`, `FilesAreReadInFull`, `UnreadableFileIsKept` |

The properties of the two runs about the timed image, in words. *message_queue*: no arrival or
claim ever produces an image that `validate` refuses, which would block the
store for good (`FileStaysValid`); an embedder that sleeps until the time it was
told wakes exactly when a batch is ready (`WaitIsExact`); a message waits for
the latest arrival of its own session and for no other (`OnlyItsSessionDelays`);
a full batch is neither changed nor put off by later messages
(`FullBatchIsFinal`); every accepted message is claimed
(`EveryMessageIsClaimed`); and each step, without its times, is a transition of
RuntimeState, which leaves them open (`StepsAreUntimedSteps`).
*snapshot_save*: whatever a copy contains, saving it leaves the file's ledger,
queue and outbox as prefixes of the new ones, its run inputs alone, and moves
agent runs only to an end without output (`SaveOnlyAdds`); a copy that was not
edited, however stale, changes no record and is refused only over a delivery
that went on or a session it lacks (`StaleSaveChangesNothing`); a merge without
a conflict needs no validation (`MergesAreValid`); a confirmed completion is
confirmed again when repeated, with that output and no other, and no outputs
exist without one (`ConfirmedCompletionStands`); a file that loads has been
read in full, every file a released version writes loads, and so does all that
the store makes of it (`FilesAreReadInFull`); a file that does not load is never
replaced (`UnreadableFileIsKept`).

Why these bounds suffice for the cases that matter: the hazards need two
contenders for a session, a lock or a delivery; one failed write to make an
outcome ambiguous and a second to make its repetition ambiguous; and a restart
after it. Two run ids let a second run contend for the scope of the first.
A copy is stale after one operation of the store
and twice so after two, which suffice to claim and start, to run and complete,
or to send and settle, as the busy file has one of each under way. Only from
the two files in `BusyFiles` does the store go on; the others are there to be
read, saved over and refused. The odd files have every combination of present,
null and missing collections in versions 2, 5 and 8 (one without and one with a
queue, and the current one), and complete ones are of a version before the first
and after the last. Three messages of one session with batches of two leave one
behind, with one of another session to be delayed or not. Three processes are an owner and two waiters that race
for its lock; `StaleTTL = 1` and `LockTimeout = 2` are the smallest times in
the code's order. Two starts and a stop are an old daemon, a new one and a
command that may mistake one for the other. Symmetry is used for run ids and for workers, which no
definition names or orders, and never in a liveness run. Bounds are constants
called `Max...`, `N` or `ClockMax`, and appear only as guards of the
environment's actions (faults, crashes, clock) and in the finite sets.

Deadlock is not checked: once the bounded messages are handled and the faults
are used up, the system rightly has nothing to do.

**Fairness** is assumed where a run has a liveness property. In `message_queue` an
embedder that is awake asks, one that sleeps asks when its time has come, it ends
the runs it has, and time passes; nothing is assumed of arrivals. In `lock_liveness` and
`daemon_liveness` a process that runs takes its next step and time passes; in
the former the holder of the lock need not finish. In `outbox_liveness`, worker steps are weakly
fair because the embedder calls `process_next` in a loop and an adapter call
returns (`WorkerStep`); startup reconciliation is retried; time passes. The
platform, the operator, enqueues and the clock's rollback are not assumed to
happen. There are no faults or restarts in that run: an ambiguous claim
legitimately leaves a delivery `delivering` until the next restart.

### What the violated runs show

*`duplicate_ack`.* `persist_inbound_event` writes, the rename succeeds, the
sync of the directory fails, the error is reported, and nothing is
acknowledged: correct. The platform delivers again; the event is found in the
visible file, `Duplicate` is returned without a sync
(`store/inbound.rs:11`) and the delivery is acknowledged. A power loss then
restores the old file, and no one will deliver the event again. The design
says of an `Ok` that the event "was durably recorded or recognized as an
already-persisted duplicate". The replays of outcomes and resolutions do call
`confirm_existing_file_durable` in the same situation.

`enqueue_outbound_delivery` (`store/outbound.rs:17`) does the same, although
the design says that it "returns only after durable persistence"
(`0.3-runtime-orchestrator.md:176`). That is why `ReportedIsDurable` speaks of
deliveries reported `Queued` and not of duplicates.

*`lock_race`.* An owner dies. Two waiters read its token from the stale lock.
The first removes the file and creates its own; the second, which has already
matched the token, removes the path, that is, the first one's lock, and creates
its own: both hold the lock. The design relies on "matching and deletion happen
in the same lifecycle critical section", but the recovery of the lock runs
outside of it. `ExclusiveWhileNoneDied` shows that without a death the lock
excludes, and `NoLiveLockCondemned` that recovery decides against dead owners only: as long
as its checks of processes and files do not fail and no pid is reused (section 5), what goes wrong
is a right decision carried out on another lock.

### What holds with exceptions

The design says that "repeated starts should not create duplicate active daemon
processes" (`0.1-daemon-lifecycle.md:88`). They do if a check fails. A daemon is in
its loop; a second start cannot run `kill`, for lack of memory or processes, say;
`is_process_running` answers false (`process_ops.rs:120`, on Windows `:140`), so the
record counts as stale, and the start removes `daemon.lock` and `daemon.state` and
spawns a second daemon, while the first one goes on. TLC shows it in a second, with one fault
and no timeouts, if `AtMostOneDaemon` is stated without `Misjudged`. A stop that
meets the same failure reports that the daemon is not running, and removes the files
by which anyone could find it. To tell a failed check from an absent process, and to
refuse the command then, would avoid both.
`AtMostOneDaemon`, `RunningDaemonIsFindable` and `StoppedStaysStopped` show that the damage
ends there: of two daemons one was misjudged, and whatever else fails or dies,
one that was not misjudged keeps its files and is not reported stopped, unless
a command went on after a file it could not look up, read or remove.

Two more observations. `cleanup_failed_start`
(`daemon.rs:529`) writes `daemon.stop` before it takes the lifecycle lock. If a
stop is waiting for the daemon of another start, its request is replaced and
that daemon never sees it; the stop waits five seconds and kills the daemon
(`StoppedStaysStopped` still holds), or refuses if it cannot verify it. The
run `daemon` includes it.

The other is one that no code that signals by pid can avoid. `force_stop_verified`
checks the identity and signals the pid in two steps, and the daemon, which has
a stop request, may exit between them. If its pid is reused at once, another
process is signalled: TLC shows it in seconds with `InstantReuse = TRUE`, one
start and one stop. The run `daemon` excludes reuse between these two steps and
shows that reuse at any other moment is recognised.

While modelling we also met a limit of the resolution's key. A resolution names
a delivery and a time, not an attempt. It is the retry delay of at least one
second that keeps a repeated, stale "failed" resolution from meeting the
uncertainty of the *next* attempt: `StatusIsTruthful` fails if a retry can be
due in the second in which the resolution was dated (the mutant
`RetryDelayFromZero`), which the code permits only at the end of `u64` time.

## 4. Proofs

Every property that a passing run checks is a theorem, except the liveness
properties. Each proof holds for every value of the constants that satisfies the
module's assumptions, so for any number of processes, messages, copies, faults,
crashes and restarts.

A run and a theorem share their property but not their weight. The run is the
evidence that the property is not vacuous (every action fires, and each property
has a variant of the code that breaks it); the theorem that the bounds of the run
hide nothing.

### The state file and its image

`StateFileWriteProofs`:

| Theorem | States |
|---|---|
| `OkSurvives` | `[]OkUpdatesSurvive` |
| `RefinesDurableFile` | `ImplementsDurableFile`: every step is a step of DurableFile or none |

The argument is mutual exclusion: only the owner of the mutex is anywhere
(`OnlyTheOwnerWorks`), so the image it renames into place is the visible one and
its own update (`WorkIsCurrent`); and because the temporary file is synced
first, no entry ever names a torn file (`EntriesAreWhole`). The rename maps to
`ReplacedUnsynced`, a sync of the directory and a writeback to `Synced`, and all
other steps of a write to none.

The first part of `MessageHandoffProofs` is about RuntimeState: what each
transition of an untimed image changes, and that it leads from valid images to valid ones (`ClaimValid`,
`RecordEventValid`, ...). The code has two ways to know that, `validate` after
the fact and the guards before it; the lemmas say that the guards are enough.

### The handoff

`MessageHandoffProofs` proves seven theorems of `MessageHandoff!Spec` for every
set of events, sessions and runs, every batch size and any number of faults and
crashes:

| Theorem | States |
|---|---|
| `TypeCorrect` | `[]TypeOK` |
| `HandedAtMostOnce` | `[]HandedOnce` |
| `ExecutionIsExclusive` | `[]ExclusiveExecution`, assuming `CarefulEmbedder` |
| `ConfirmedOutcomesSurvive` | `[]ConfirmedOutcomeDurable` |
| `RecordedAcksSurvive` | `[]RecordedAckDurable` |
| `ImagesAreValid` | `[]ImagesValid` |
| `ReportsAreDurable` | `ReportIsDurable` |

Hardly any of the properties is inductive. The inductive invariant `IInv` says of
*both* images, the visible one and the durable one, that each *backs* what has
been promised to the outside (`Backs`): an event that was handed out is in the
input of some run that is past pending, in exactly one place, never in the
queue; a run whose execution is alive is active in that image; a confirmed
outcome is the run's status; an acknowledged event is in the ledger. Both images are needed
because a power loss replaces the first by the second and a sync the second by
the first. The proof is organised accordingly: for each transition of
RuntimeState one lemma says that it preserves `Backs` of an image
(`ClaimBacks`, `SetStatusBacks`, ...), `StoreCases` reduces every write,
failed or not, to "each image is kept or becomes the new one", and one lemma per
action puts them together. `IInv` is also what TLC was given before the proof.

The proofs rest on `StateAssumption` and `HandoffAssumption` (kinds of the
constants), which TLC evaluates in every handoff run, and on DurableFile's
actions, which `StateFileWrite` implements.

### The outbox

`OutboxDeliveryProofs`, all assuming `ClockStaysBelow`, that is,
`ClockMax < MaxTime`:

| Theorem | States |
|---|---|
| `TypeCorrect` | `[]TypeOK` |
| `AtMostOnce` | `[]AcceptedAtMostOnce` |
| `TruthfulStatus` | `[]StatusIsTruthful` |
| `CallsCounted` | `[]CallsAreCounted` |
| `OutcomeRecordable` | `[]OutcomeIsRecordable` |
| `ReportedDurable` | `[]ReportedIsDurable` |
| `TimesMoveForward` | `UpdatesMoveForward` |

The invariant has one part per delivery and one per worker. Both records of a
delivery, the visible and the durable one, *back* the calls made, what the
platform may have accepted and what was reported (`Backs`); the durable one is
behind the visible one, and no power loss turns an uncertain delivery into one
that may be sent again (`DiskIsBehind`); a worker that holds a delivery is alone
with it (`WorkerInv`). The delicate part is `CommandStands`: a resolution that
an operator began may be repeated long after. It says that the resolution is
right about the latest request, or that both records are dated later than it
and it will be refused. For this a retry must come after the time of the
resolution, hence the retry delay must be positive (`RetryDelayIsPositive`), and
hence the hypothesis: in the last second of `u64` time `next_attempt_at`
saturates and a retry is due at once. TLC finds `StatusIsTruthful` violated with
`ClockMax = MaxTime`; no clock shows that second.

### The daemon

`DaemonLifecycleProofs`:

| Theorem | States |
|---|---|
| `OneDaemon` | `[]AtMostOneDaemon`: one of two daemons was misjudged |
| `Findable` | `[]RunningDaemonIsFindable` |
| `StaysStopped` | `[]StoppedStaysStopped` |
| `NothingLeft` | `[]FailedStartLeavesNothing` |
| `DaemonsSignalled` | `[]OnlyDaemonsAreSignalled`, assuming `~InstantReuse` |

What a process has concluded from the files at the beginning of its critical
section is still true when it acts on it (`SectionInv`): that no daemon is in
its loop, or only the one it is about to stop, apart from those that were
misjudged (`Quiet`). That holds because a daemon
enters its loop from a critical section of its own. The cleanup after a failed
start is different: it concludes nothing from the files, but knows its own
daemon to be dead, or misjudged it, and removes only what names that one (`StartInv`). `BarredInv` says
of the daemons that were spawned before a stop reported success that none is at
a step that leads into the loop, and that no lock invites one, unless it was
misjudged or its start was careless.

An ignored failure leaves something behind: a starting lock
that an inspection did not see, a state file beside a starting lock. So the
invariant says who is to blame for these (`StartHasNoState`, `PassesNoStart`), and
each lemma about a step assumes that what was recorded of failures only grows
(`Grow`, established once in `NextGrows`). The proofs take the
exclusion of the lifecycle lock as it is modelled there (`holder`), which
LifecycleLock justifies while no owner dies. They rest on `KindsAssumption`,
that tokens, commands and the special contents are different things. TLC checked
`IInv` on the run's instance before it was proved.

### The lifecycle lock

`LifecycleLockProofs` proves four theorems of `LifecycleLock!Spec` for any set
of processes, any times with `StaleTTL < LockTimeout` and any number of deaths
and failed writes:

| Theorem | States |
|---|---|
| `TypeCorrect` | `[]TypeOK` |
| `ExclusionWithoutDeaths` | `[]ExclusiveWhileNoneDied`, assuming `Prompt` |
| `RecoveryIsAgainstTheDead` | `[]NoLiveLockCondemned`, assuming `Prompt` |
| `DeadLocksRecovered` | `DeadLocksAreRecovered`, assuming `Prompt` |

The invariant is about what a waiter *remembers*. `SnapshotsAreOfDeadOrPast`
says that a snapshot is of a dead owner, or of a complete lock whose owner will
not take the lock again, and that the removals are reached with the former
only; it needs `OwnerIsWhereItSays`, that the lock of a live owner is incomplete
only while it is too young to be stale, which is where `Prompt` enters.
`LocksStay` follows while nobody has died, since then no waiter reaches a
removal. TLC checked all three on the instance of `lifecycle_lock`. That dead
locks are recovered has an invariant of its own (`RecoveryOf`): such a lock is at
least as old as the wait, so a waiter that comes to its deadline with it has
inspected it before it was stale, and then `StaleTTL < LockTimeout` leaves it
time to come back.

### The queue

`MessageQueueProofs`, for any events (in any order, repeated, conflicting or
malformed), any backlog, batch size, debounce and clock:

| Theorem | States |
|---|---|
| `Invariance` | `[]IInv`, the inductive invariant |
| `FileAlwaysValid` | `[]FileStaysValid` |
| `WaitAlwaysExact` | `[]WaitIsExact` |
| `OnlyTheirSessionDelays` | `[]OnlyItsSessionDelays` |
| `FullBatchesAreFinal` | `FullBatchIsFinal` |
| `StepsAreUntimed` | `StepsAreUntimedSteps`: every step is one of RuntimeState or none |

That the file is valid is not inductive: an arrival is given a time that is not
before the last one of its session, wherever that one is, in the queue or in a
run input, and validity alone does not say where the times come from. `Sound`
adds that (`Ordered`): in the messages of a session, claimed first and waiting
after them, the ledger positions increase, and each message has the latest of
the times at which it and those before it were recorded. (For the last theorem
it adds that each run has an input and each message waits for the session it was
sent to.) The lemma that carries
the proof is `OwnershipMoves`: a claim takes the first messages of its session
from the queue and puts them behind the claimed ones, so this sequence is the
same before and after. An arrival appends to one such sequence
(`OwnershipGrows`), and the end of a run changes none. `WaitHolds` says that the
answer an embedder sleeps on is what a new poll would tell it: an arrival for a
session that a run owns does not change the sessions that take part
(`OwnedArrivalKeepsTimes`), and all that does wakes it.

A full batch is final because what follows only appends to the messages of a
session, and a claim that takes from its front replaces its first message
(`FrontStays`, `FrontGoes`).

For `StepsAreUntimed`, `Bare` of the file is computed after each step
(`ArrivalIsUntimed`, `ClaimIsUntimed`, `EndIsUntimed`). The batch the policy
chooses is one that RuntimeState allows (`PrefixIsBatch`): it is not empty,
takes all that wait or as many as a batch may hold, and each of it was recorded
before each that stays, by `Ordered`. The run ids of the untimed model suffice
because each run has an input with a message no other has (`InputsBounded`), so
there are no more runs than events.

The proofs rest on `PolicyAssumption` and `QueueAssumption`, which give the kinds
of the constants; `StepsAreUntimed` also on `UntimedAssumption`, that there are
finitely many event ids and that an id comes with one session only. The code does
not need the latter, it refuses the second event; the untimed model does, as it
takes the session of an event as a function of its id.

### Files and snapshots

`SnapshotSaveProofs`, for any files, copies, edits and operations:

| Theorem | States |
|---|---|
| `UnreadableKept` | `UnreadableFileIsKept` |
| `WrittenAreRead` | each write is of an image that is read back from the file (`WrittenFilesAreRead`) |
| `ReadInFull` | `[]FilesAreReadInFull`, assuming that the files in `ReleasedFiles` can be read |
| `SavesOnlyAdd` | `SaveOnlyAdds` |
| `CompletionsStand` | `[]ConfirmedCompletionStands` |
| `MergesNeedNoValidation` | `[]MergesAreValid` |
| `StaleSavesChangeNothing` | `[]StaleSaveChangesNothing` |

Every operation that changes the file starts from an image it has read and
writes one that it has validated (`EveryStep`, which goes through all of
them). `EncodedIsRead` is the round trip: a valid image, encoded and parsed, has
its parts and encodes to the same file, because `Decodable` asks of version 8
what `Encode` writes, the checks of each run are among those of the whole, and
validity is a matter of the parts (`SamePartsValid`). The hypothesis of
`ReadInFull` is what TLC checks of a file of each version in the initial
states of `snapshot_save`; the theorem is about what comes of them.

The other four are about the contents of the images. The state is typed, and
`StepShape` says that a step of a typed state is a load, an edit of a copy, a
save, an update of one record, a completion with outputs, or the receipt of an
event or delivery.

* `SavesOnlyAdd`: a merge keeps the file's records in their places and puts the
  new ones behind them (`MergeExtends`), for each collection by what `Union`,
  `MergedRuns` and `MergedQueue` return. The queue is kept whole because a copy
  brings no run input, so that the merge claims what the file claims, and no
  message of a valid file is queued and claimed (`InputsKept`, `QueueKept`).
* `CompletionsStand`: the invariant `PromisesKept` says of every copy and of the
  file that the outputs in it belong to a confirmed completion, and of the file
  that it verifies every confirmation when it is repeated. It holds because in every write
  each run and delivery stays in its place and goes on from where it was
  (`GoesOn`): a completed run has no descendant, and a delivery keeps what it was
  enqueued with.
* `MergesNeedNoValidation`: the copies are valid (`CopiesValid`), since a valid
  image is valid after any edit (`EditedValid`), and the merge of a valid copy with a
  valid file is valid if they agree and no conflict shows (`MergingIsValid`). The
  part that needs work is the order of the queue: the new messages are appended
  one by one, each behind all that are there in the ledger and, once rebased, in
  time (`Lined`, `LinedJoins`, `AppendedSoFar`).
* `StaleSavesChangeNothing`: a copy without edits is a past of the file
  (`CopiesLag`). `Continues` is the relation between the two: reflexive, kept by every write and by
  reading again, and transitive (`ContinuesOn`), so that it survives any number of
  steps. From it follow the records of the merge, one collection at a time (`StaleRecords`).

`SnapshotAssumption` gives the kinds of the constants and says that what `Parse`
returns has the types of the code.

### Induction over data

What a queue, a fold or a merge returns is shown for every input. The library's
induction theorems take a predicate as a parameter, which the installed provers
cannot instantiate, so `OperatorProofs` states induction of *sets*: a set that
holds 0 and every successor of a member holds every number (`NatInduct`, by the
least number that is missing), and one that holds the empty sequence and is
closed under `Append` holds every sequence (`SeqInduct`). Recursive functions
over a sequence have their own lemmas: one exists (`ScanExists`), its values
have their type (`ScanType`) and two that take the same steps are equal
(`ScanUnique`). For that reason `MessagesOf`, `Select` and `AppendRebased` are
written as recursive functions, and not with `SelectSeq` and a fold.

### Identifiers

`OperatorProofs` proves, for texts of any content within the lengths above:

| Theorem | States |
|---|---|
| `SessionIdsAreDistinct` | different scopes have different session ids |
| `EventIdsAreDistinct` | different deliveries of platforms have different event ids |
| `OutputIdsAreDistinct` | different outputs, of one run or of two, have different delivery ids |
| `DerivedIdsAreValid` | every derived id passes the check that reading it again makes |
| `AttemptNamesOneChat` | a delivery can be sent to the chat of its session only |
| `AccessIsExact` | the access policy admits exactly whom and where it lists |
| `WorkspaceAccessIsExact` | the workspace policy allows exactly its roots, as they are spelled |

The argument is that each part of a name can be read back. A hexadecimal or
decimal number is recovered from its digits, and its digits contain no
separator; two texts whose first separator is at the same place split into the
same parts; escaping is injective because an escaped part is two digits per byte
behind a length. `Joined`, `Numeral` and `HexBytes` have one such lemma each, and
the theorems apply them from left to right. No run uses the module: there is
nothing a small instance would add to a statement about all byte strings.

### Only model-checked

Liveness: `EveryMessageIsClaimed`, `EveryDeliverySettles`, `EveryWaitEnds`,
`EveryCommandEnds`. It is out of the provers' reach, as is `ENABLED`, and with it
the fairness these properties assume. Also the two properties that the code
violates, whose counterexamples are TLC's.

No module of the project declares a recursive operator.

## 5. Not modelled

* An empty `daemon.lock`, which a start leaves that dies or fails between
  creating and writing it, is never removed, as the design wants
  (`0.1-daemon-lifecycle.md:68`): every later start is refused, and stop reports
  "stale state removed" without removing it. The model behaves so
  (`StartLockExists`, `CleanInvalid`) and no property forbids it.
* For the lifecycle lock: removals that fail, after which the code inspects the
  lock again without sleeping or looking at its deadline; a release that fails
  (`lifecycle.rs:23`), which leaves the lock of a daemon held as long as it runs; the reuse of a
  dead owner's pid, which makes its lock look alive until that process ends; and
  a check of the owner, or a read, that fails (`process_ops.rs:120`), which would let a waiter take
  a live owner for dead. The last is asked only of a lock older than the 15 s of
  `LIFECYCLE_LOCK_STALE_TTL`, longer than the code expects any command to hold it.
  DaemonLifecycle inherits all four, as it takes the lock for sound.
* For the outbox: several operators who disagree about one delivery, which the
  code does not tell apart; and the overflow of the attempt counter, a `u32`
  that `begin_delivery` checks and no retry policy of practical size reaches.
* For the store: a claim or start whose write ended ambiguously leaves its
  session owned until the embedder repeats the call or reconciles; whether it
  does is the embedder's, which is not part of the repository.
* For the state file: poisoning of the store's mutex (a panic inside an
  operation makes all later ones fail), the creation of its directory, file
  permissions, and path normalisation: all handles share one mutex. That the
  file is JSON of the right shape is serde's.
* Contents of messages, which no decision but equality depends on, and what
  `std::path` makes of a path.
* `status`, configuration, logging with its redaction of secrets, error wording
  and the command line: reading, parsing and formatting without state.

## 6. Plan

Done: every component that keeps or decides something is modelled, and every
safety property that a run checks is proved. What remains:

1. An abstract lock that LifecycleLock implements when nobody dies, to take the
   place of `holder` in DaemonLifecycle.
2. Failing removals, failing checks and pid reuse in LifecycleLock.
3. Two operators who disagree about one uncertain delivery.
