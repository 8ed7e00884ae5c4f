# Verification of Agent Control Center Core

Agent Control Center runs coding agents (Codex, Claude, OpenClaw) on tasks: it
routes a task to agents, runs them in Git worktrees, keeps what happened in a
SQLite database, verifies results, collects evidence and asks a human for a
decision. Several processes (a daemon, command line workers) share one database.

This directory holds TLA+ modules that model the part of the code where
processes, crashes and operators interact, TLC configurations that check them
on small instances, and TLAPS proofs for every size. Source paths below are
relative to the repository (`src/src/...` is its TypeScript source). Which lines
a definition models is listed in `PROJECT.json` under `map`.

## The system

| Component | State it keeps | Operations | Interacts with |
|---|---|---|---|
| `protocol.ts` | transition tables of tasks and runs | `assertTaskTransition`, `assertRunTransition` | called by every status update of the database |
| `router.ts` | none | `routeTask`: text, agent and urgency to a plan of steps | called by `createTask` |
| `db.ts` | tasks with claim, route steps, runs, reviews, events, idempotency keys | claim, heartbeat, recovery, step and run updates, finalisation, review decisions, retry | shared by all processes; every operation is a transaction or a compare-and-swap update |
| `coordinator.ts` | per process: the executing task, its groups of steps, active runs, the shutdown flag | `runNext`, `executeTask`, `#executeStep`, approve, rework, retry, shutdown | database, adapters, verifier, worktrees, artifacts |
| `runtime.ts` | none | recovery at process start, reconciliation of the processes and remote executions of recovered runs | database, process supervisor, OpenClaw |
| `daemon.ts` | worker loop, HTTP server | worker loop, `runIdempotentMutation`, `stop` | lease, runtime, database |
| `openEventStream`, `SseSink` of `daemon.ts`, `message-bus.ts` | per stream: cursor, drain in progress, queue of frames, back-pressure | append, publish, poll, drain, write, flush, close | database, coordinator, HTTP client |
| `migrations/`, `init` of `db.ts` | the database's `user_version` and tables; snapshots in `backups/` | check the version, bootstrap, count, back up, migrate, check the integrity | every process that opens the database, of any version |
| `daemon-lease.ts` | a lease file with pid and token | acquire (create, read, probe, re-read, unlink), release | other daemons, through the file system |
| `adapters/` | one agent process or remote execution per run | start, collect, stop, durable cancellation | process supervisor, OpenClaw |
| `adapters/process-supervisor.ts` | per start: stop request, failure, timers, termination, byte counts, result | start, stop, collect, output limits, timeout, SIGTERM and SIGKILL to the group | operating system |
| `verifier.ts`, `worktrees.ts`, `artifacts.ts` | files | run a command, Git operations, copies with digests | coordinator |
| `node/`, `kernel/` | event journal, cursors, offer answers; accepted leases | handshake, event batches, offers, execution, completion | a cloud control plane over a WebSocket |
| `accp/` | none | message schemas, sealing and verification of envelopes | node session |
| `cli.ts` | none | open the database, take the lease, run a command, close | runtime, daemon |
| `api-client.ts`, `api-projections.ts`, `mcp.ts`, `prompt.ts`, `usage.ts`, `config.ts` | none | front ends, formatting, accounting, configuration | |

What is hard here:

* **Ownership is a lease in time.** A worker owns a task as long as its
  heartbeats arrive. It checks that once; another process may recover the task
  at any of its awaits (`coordinator.ts:241`).
* **Crashes between two writes.** An agent survives its worker. What the
  recovery finds in the database decides whether the agent is killed, whether a
  retry may use its worktree, and whether a remote execution may be repeated.
* **Concurrent steps.** The steps of a parallel plan run concurrently in one
  process, and a failure of one leaves the others running.
* **Evidence before success.** Success is the last of a series of writes, each
  of which can fail.
* **Stopping a process tree.** A stop request, a timeout, an output limit, a
  failing artifact and the process's own exit race for one result; descendants
  outlive their leader, and the request itself has to find out, between awaits,
  whether there is an agent, a verification or nothing yet to stop.
* **Human decisions race with all of it**, and so do repeated HTTP requests.
* **An execution node's journal** is bounded, sent over a connection that breaks,
  and pruned on the word of the other side; its offers are delivered again.
* **A lock made of files**, which has no atomic compare-and-delete.
* **Catching up with a log while it grows.** A client of the event stream gets a
  backlog page by page and then live events, without a gap or a repetition,
  although notifications come during the reads, other processes publish nothing,
  and a slow client is cut off when its buffers are full.
* **Starting several versions at once.** Every command migrates the database when
  it opens it, before anybody holds the lease and below a daemon that does. The
  snapshot and the count of rows are taken without the lock that the migration
  itself is made under.

The hazards, each at its line and with the properties that would catch it, are
listed in `PROJECT.json`.

## Modules

| Module | Models | Used by |
|---|---|---|
| `Protocol` | statuses and transition tables | `ControlDb` |
| `Router` | `routeTask` | the plans of `MCCoordinator`, `RouterProofs` |
| `ControlDb` | the database: one action per operation; `DbSpec` lets anybody call anything, `CallsSpec` what `src/` calls | `Coordinator`, `CoordinatorProofs` |
| `TaskLifecycle` | the abstract specification: what a task goes through, seen from outside | refined by `Coordinator`, shown in `ExecutionProofs` and by the run `core` |
| `Coordinator` | worker processes, the fibers that execute steps, recovery, operator, crashes and stalls, on top of `ControlDb` | `MCCoordinator`, `CoordinatorProofs`, `ExecutionProofs` |
| `Processes` | the processes that share one `ACC_HOME` | `DaemonLease`, `Migrations` |
| `DaemonLease` | the lease file protocol | `Startup` |
| `Migrations` | processes of different versions that open one database | `Startup` |
| `Startup` | a process from its start to its end: `Migrations`, then `DaemonLease` or another command | `MCStartup`, `StartupProofs` |
| `EventStream` | the event table, the bus, the drain, the sink and a client that connects again | `EventStreamProofs`; checked as it is |
| `Idempotency` | idempotent HTTP mutations over their table | `MCIdempotency`, `IdempotencyProofs` |
| `NodeJournal` | an execution node's event journal and its delivery to a controller | `NodeSession`, with which it is checked |
| `NodeSession` | offers, their durable answers and the work done for them, on top of `NodeJournal` | `MCNodeSession`, `NodeSessionProofs` |
| `ProcessSupervisor` | supervised process trees: start, output, timeout, termination, result | `RunControl` |
| `RunControl` | one run: `#executeStep`, the CLI adapter and the verifier over `ProcessSupervisor`, and operators in `stopRun` | `MCRunControl`, `RunControlProofs` |
| `CoordinatorProofs` | theorems about the database and what the coordinators write to it | `ExecutionProofs` |
| `ExecutionProofs` | theorems about the execution of tasks: completion, lifecycle, worktrees | |
| other `*Proofs` | the theorems about the module of that name and those it is composed of | |
| `MC*` | instances for TLC | |

### How state and actions correspond to the code

**ControlDb.** A variable per column that control depends on. `claimed_at` is
abstracted to `lapsed[t]`, "older than the stale cutoff"; `created_at` to the
relation `older`; `runs.error` to `runNote`, which of the two wordings of the
recovery it holds, because that is what the code searches it for; a worktree
path to the run that created it. Operations that read and then update with the
read values in the `WHERE` clause are one action: a write in between makes them
throw and change nothing, which is the same as being called later and refused.
Ids are numbers in the order of creation. Attempt numbers, messages and
artifact rows are left out: nothing branches on them. `DbCalls` is the choice of an
operation, given the statuses that `updateTaskStatus` and `updateRun` are called
with. `DbSpec` takes all that their types permit, and the operations that only tests
call (`resetRouteSteps`, `createReview`, `decideReview`); there a task can be
set to running without an owner, and a run that failed can be queued again.
`CallsSpec` takes what `src/` passes: `updateTaskStatus` blocks a task, and no run
is queued again. `Coordinator` is shown to implement it.

**Coordinator.** A worker is one process incarnation (`StartWorker` is
`createRuntime`, `BeginLoop` the start of the worker loop, `ClaimNextTask` and
`ExecuteTask` are `runNext` and `executeTask`). `#executeStep` is a fiber with
one action per awaited effect; `fpc` is the await it is at. Whatever an await in
the try block throws, a stop request included, is `FiberThrows`; the catch block
is `Catch`, `CatchUpdate`, `CatchStep`. Database errors outside the try block
reject the group's `Promise.all` and with it `executeTask`: before there is a run
`OpeningThrows`, between `createRun` and the try block or in the catch block
`StepThrows`, at the event that follows a failed or refused step `ClosingThrows`, in
`executeTask` itself `WorkerThrows`. The other fibers of the group go on. That the
event after a successful or a skipped step throws is not a place of its own. The result of an agent is any outcome;
`alive` says which runs have a live process or remote work behind them, and
`evidence` what is durable. `Crash` ends a worker anywhere and leaves its agents
alive. Heartbeats are timers of the process: the claim on a task that its owner
works on lapses only with a stall (`ClaimStalls`), any other with time
(`ClaimLapses`); a dead owner, or one that gave up the task and could not write
so, sends none. Copies of evidence that the catch block makes as a best effort are not
tracked. `adapter.stop` of a local process ends it (the supervisor kills the
group); of a remote execution it may not.

**DaemonLease.** One action per file operation, `Crash` between any two. An
empty file (created, record not written) is a state of its own. A process id is
never reused in the model. Processes interleave at every operation, also between
the re-read and the unlink. `raced` is a history variable: it says that a lease was
created while another process was between these two.

**Migrations.** One action per statement of `init` and `runMigrations` that reads
or writes the database. `mpc` is the statement a process is at, `at` the
migration it has in hand, `preCounts` the rows it counted. The content is the rows
of one table: the code compares tables one by one and none depends on another.
SQLite shows nothing of a transaction before its commit, so that `Migrate` is
`up`, the version, the comparison of the counts and the commit; `LockedDone` is
the rollback when another process was faster. `OpenFails` is any statement that
throws, a timeout of the write lock included. A process with the database open
inserts and purges rows meanwhile (`InsertRow`, `PurgeRow`). `Lossy` are
migrations whose `up` may remove rows that it has not declared. `applied` and
`grown` are history variables, for the properties.

**Startup.** A process opens the database (`Database`), then takes the lease
(`Lease`) or does the work of another command (`CommandEnds`). A daemon that is
refused the lease or releases it closes the database in the same step
(`LeaseEnds`): nobody looks at the one between it and the other. `Dies` ends a
process in both protocols.

**EventStream.** An event is its id, its place in the table; `events` holds the
task of each. `unpublished` counts what the coordinator has appended and not yet
put on the bus; what other processes append never is. `notified` are calls of the
listener in the microtask queue, `Poll` is the interval. `pc` is where `drain` is
between its awaits: `ReadPage` is `listEventsAfter`, `Resume` hands the page to
the sink and decides whether to go on, `Settle` is its `finally`. `Put` is
`SseSink.write`, whose response takes `HighWater` frames before it reports
back-pressure, with a queue of `maxQueue` behind it, and `Flush` its handler of
the response's drain event. Frames have the same size, a heartbeat too. The code
limits the queue in bytes: how many frames that comes to depends on their size, so
that `maxQueue` is any of `QueueSizes` from the start on, and a page may fit into the
buffers or not. A read
that fails is reported by the first drain and ends the process from any other,
because nobody awaits those (`ReadFails`, `DaemonGone`). Streams share only the
table, so there is one client. It is an `EventSource`: it connects again and sends
the last id it got.

**Idempotency.** One exchange per request: arrival, claim, handler, completion,
answer; the answer may be lost, the completion may fail, the daemon may crash.

**NodeJournal.** An event is its cursor and whether its kind is protected. The
session's code is synchronous, so that only a crash gets between two of its
writes: `npc` is the write it is at, and each write the store commits by itself
is an action (`emitEvent` inserts the event and advances the cursor in one
transaction; `DropEvent`, `RecordTruncation`; `ReceiveAck`, `pruneUpTo`).
Envelopes in flight are sets that belong to one connection: inbound messages
overtake each other because each awaits a prefetch. `dropped` and `torn` are
what the store has deleted and not recorded, now or because of a crash. The
controller is not in the repository; it ingests by `decideCursorAction`, may or
may not keep a batch behind a gap, and acknowledges its highest contiguous
cursor.

**NodeSession.** An offer stands for its idempotency key and its lease; the
preconditions of `decideOffer` are a free choice of the answer. `opc` is where
`receive` is with an offer, `epc` the await that `executeAccepted` is at. The
local queue holds tasks of offers and of the operator; other workers take from
it. When `runNext` took another task `executeAccepted` throws: the lease stays
where it is until the process ends. The model lets the node connect again at any
time.

**ProcessSupervisor.** A handle is one `start`. `start`, `fin`, `term` and
`killTimer` are where `start`, `#finalize`, the termination and its timer are;
`failure` stands for `failureReason` and `processError`, whose wording nothing
branches on; the close of the two artifacts is the step from `fin = "closing"`
to a result. The process tree is the environment: a process forks, exits with
any code, leaves the group (`Escape`), and dies once SIGKILL has reached it. The
"close" event needs the leader's exit and that nobody holds the pipes. SIGTERM
has no action of its own: a process may exit at any time and need not. Sizes
are in chunks; `lost` is which artifact misses output.

**RunControl.** `fpc` is where `#executeStep` is, including `startTask`,
`#runVerification` and the verifier's `run`; `phase`, `active`, `activeVerif`,
`stopRequestedRun`, `verifierActive` and `stopBeforeStart` are the maps and sets
by which `stopRun` finds out what to stop; `opc` and `seen` are where a call of
`stopRun` is and the phase it read. The awaits between createRun and
the agent's start are one place: only what is looked at after them matters here.
The database's side of the same function is `Coordinator`'s.

## Runs

| Run | Instance | Shows |
|---|---|---|
| `core` | 2 workers, 1 task, a risk-sensitive plan (three steps, the last optional) with a verifier and a review, up to 6 runs, 1 retry or rework, no stalls | while live workers' heartbeats arrive: a worker that executes owns its task (`ExecutionIsOwned`), a finished task is earned (`CompletionIsEarned`), reviews match (`ReviewMatchesTask`), worktrees are exclusive (`WorktreeExclusive`), and the task goes through `TaskLifecycle` (`ImplementsLifecycle`) |
| `stall` | 2 daemon workers, 1 task with verifier and review, 2 runs, 1 requeue, 1 stall, 1 database fault | what holds whatever stalls: `SuccessHasEvidence`, `SuccessIsQuiet`, `EvidenceInOrder`, `ClaimIffRunning`, `SettledRunsStay`, `DecisionIsFinal`, `TransitionsObeyed` |
| `progress` | 2 workers, a parallel plan, crashes and shutdowns, under `Fairness` | `ExecutionEnds`, `LapsedClaimRecovered` |
| `approval` | 1 stall, 2 requeues | **violated**: `ApprovalIsOfLatest` |
| `remote` | 2 daemon workers, an OpenClaw task | **violated**: `CutOffRemoteDeniesRetry` |
| `startup` | 3 processes, all know migration 1 and one also 2, which may remove rows; 1 row, 2 attempts at the lease | `OneDaemonUnlessRaced`, `ReclaimedIsDead`; `AppliedInOrder`, `OpenIsMigrated`, `DaemonIsMigrated`, `MigratedIsSaved`, `LossIsNoticed` |
| `lease` | the same | **violated**: `OneDaemon` |
| `event_stream` | 3 events of 2 tasks of which the client follows one, pages of 2, a response of 1 and a queue of 0 or 1, 1 failure, 1 heartbeat, under `Fairness` | `StreamIsExact`, `EventuallyReceived`, and in `TypeOK` that what the daemon holds for a client is bounded |
| `idempotency` | 4 requests on one key, one of them in conflict, 1 crash | `AtMostOnce`, `SameAnswer`, `AnswerIsTrue` |
| `node_session` | a node that starts again with a completion of before in its journal; 1 offer and a queue of 2; 4 events with that one, a buffer of 1, batches of 2, 1 unacknowledged batch; 1 crash | `AckedIsIngested`, `EventsAccounted`, `ProtectedAreKept`; `AnswersAreStable`, `OfferRunsOnce`, `CompletionIsOwn` |
| `node_restart` | 2 offers, 3 events, a buffer of 3, 1 crash | **violated**: `AcceptedIsKept` |
| `run_control` | an agent and a verification, each a tree of 2 processes with 1 output stream and a timeout, 1 operator, under `Fairness` | `QuietUnlessFailed`, `SuccessIsWhole`, `StopOutranksSuccess`, `EndedRunIsSettled`, `EarlyStopPreventsStart`, `RunEnds` |

The type invariants are proved for every size, so that only `core` and
`event_stream` check theirs. `QueueWillFlush`, that a frame waits in a queue only while the
response is full, is proved; a queue that is not flushed would also violate
`EventuallyReceived`.

The violated runs are disagreements between the code and what the repository's
documents say; `PROJECT.json` quotes both sides under `findings`:

* `approval`: a stalled worker's late `updateTaskStatus` blocks a task that its
  next owner submitted for review. The review stays pending, the retry submits
  another, and the first can still be approved. For the same reason
  `CompletionIsEarned` needs the proviso of `core`: `updateRouteStep` names no
  owner either, and with one stall the late write of the first owner closes as
  failed a required step of a task that the second completed.
* `remote`: the retry guard recognises a cut-off remote run by the words of the
  heartbeat recovery; the recovery of a dead daemon uses other words.
* `node_restart`: what a node accepted is kept in memory, the acceptance in its
  store; after a restart it has forgotten the one and repeats the other.
* `lease`: a stale lease file is removed by name after the comparison
  (`daemon-lease.ts:244`). Another process replaces it between the two, loses its
  file, and both hold the lease. The comment at `daemon-lease.ts:235` limits its
  claim to "normal scheduling"; `docs/architecture.md:109` has no such limit.
  `OneDaemonUnlessRaced` says that this is the only way to two daemons.

Four more disagreements have no run of their own. Each is stated as an exception or a
premise of a property that holds, which so says that nothing else goes wrong; without
it TLC finds the property violated.

* `WorktreeExclusive`, no daemons: the quarantine of worktrees (`coordinator.ts:303`)
  looks for the same words as the guard of `remote`. A daemon that dies while its run
  is starting leaves an agent whose pid was never recorded; the run gets the other
  wording, and the retry works in the same worktree. `process-supervisor.ts:545`
  says of such a worktree that it "remains quarantined".
* `LossIsNoticed`, `grown`: rows are counted before the write lock
  (`migrations/runner.ts:220`). A row inserted in between makes up for one that the
  migration removes, and the loss is committed. Neither `migrations/runner.ts:195` nor
  `docs/reference/node-sqlite-migrations.md:55` names that exception.
* `EventsAccounted`, `torn`: the deletion of an event and the record of it are two
  commits (`node/session.ts:193`). A crash between the two loses an event of which
  no record says so; `docs/reference/accp-v1.md:280` has each dropped range recorded.
* `EventuallyReceived`, `[]Stuck`: a page is written in one tick and the response is
  destroyed when it does not fit into the queue (`daemon.ts:520`). The client comes
  back for the same page, which may go on for ever.

### Bounds

Every bound is a constant and appears in a guard: `MaxRuns`, `MaxReviews`,
`MaxRequeues`, `MaxFaults`, `MaxStalls`, `MaxAttempts`, `MaxCrashes`,
`MaxEvents`, `MaxQueued`, `MaxBreaks`, `MaxBeats`; `MaxBuffered`, `MaxBatch`,
`MaxUnacked`, `PageLimit`, `HighWater` and `QueueSizes` are limits of the code itself.
Two workers are enough for a takeover, the most that can go wrong with one task;
each worker id is one incarnation, so a restart is the second worker. Six runs let
every step of the three-step plan run twice. One stall makes one worker act on a
claim that it lost. Three processes let two reclaimers meet over the file of a dead
owner that one of them replaces, and let two older binaries meet a newer one: all
three migrate at once, and the newer one goes on below the others; with one row, a
migration removes it, finds it replaced by another process's, or has nothing to
save. That two processes are at a later migration at once is left to the theorems.
Four requests let a key be repeated during, after and in conflict with the first
use. `Symmetry` permutes the workers, the offers of a node, or the two processes of
the older version, which no constant tells apart. The execution of an offer emits at
least three events. With a buffer of one they make a gap and a truncation, and the
completion that the node of `node_session` starts with is a protected event in their
way (`LaterInit`); one crash lets this restarted node crash again. One offer is
enough for its redelivery in any state; a task of another offer or an earlier
incarnation is to it what the operator's tasks in the queue are. What several offers
do together is in `node_restart` and in the theorems. `run_control` needs no bound
in a guard: handles are used once, a tree of two processes has a leader and a
descendant that may outlive it, leave the group or hold the pipes, and chunks of
size 1 and 2 against limits of 1 and 0 fill an artifact exactly, cross its limit and
hit a limit of nothing.

In `event_stream` three events of two tasks make two pages, one of them full, with
rows in between that the client does not want, and a backlog larger than either
buffer. A page of 2 fits into the response and a queue of 1 and not into the response
alone. In the code 500 rows of a page and 1 MiB of queue leave 2 KiB for each event,
and nothing limits an event to that. `Stuck` is the condition that the client lacks more
than the buffers take, with all events of the same size a page that does not fit.
One break during the catching up, by the client, a failed read or the daemon's
end, makes every second connection start from what the client got.

The coordinator's runs do not check for deadlock: the system may stop, with all
tasks blocked or done, all worker ids used and the operator's bound reached. The
other configurations say so for the same reason.

### Fairness

`ExecutionEnds` and `LapsedClaimRecovered` assume weak fairness of each worker's
and each fiber's next step (a Node.js event loop runs what is ready; agents and
verifiers have timeouts after which the supervisor kills them), of the clock
(`ClaimLapses`) and of the start of further workers. Nothing is assumed of the
operator, of crashes, of shutdowns or of the database's errors.

`RunEnds` assumes weak fairness of the event loop as a whole (`EventLoop`: it does
something as long as it has something to do; timers are part of it) and that a
process that got SIGKILL dies. No process has to exit by itself and no operator
has to call. The property has a premise that the code needs: no process outside
the group keeps the output pipes for ever. SIGKILL reaches the group only, and
"close" waits for the pipes, so that such a process holds up the result, and with
it `stop`, beyond the timeout.

`EventuallyReceived` assumes weak fairness of each callback of the event loop
(`ReadPage`, `Resume`, `Settle`, `Flush`), of the poll's interval and of the
client's reconnection, and strong fairness of `Deliver`: a client that reads gets
something over the connections it has, even if each of them breaks. Nothing has to
be appended, published or sent as a heartbeat, so that what an event's
notification loses the poll must make up for. The property has the exception `[]Stuck`, the
livelock of a client that comes back for a page that does not fit.

## Proofs

All theorems hold for every value of the constants that satisfies the named
assumptions (nulls are not members, plans are functions on steps, bounds are
natural numbers).

* `CoordinatorProofs`, the database. Called by anybody in any order with any status
  (`DbSpec`), it keeps its types, leaves no claim on a task that does not run
  (`ClaimsAreOfRunningTasks`), moves rows along the transition tables only
  (`TablesAreObeyed`), which half of the operations never consult, and decides a
  review once. Each operation is a step of the proof. Called as `src/` calls it
  (`CallsSpec`), a task also has an owner as long as it runs, and a run that ended
  stays as it is; neither holds in `DbSpec`.
* `CoordinatorProofs`, evidence: `Inductive` proves `IInv`, that is, `TypeOK`,
  `WorkerHasTask` (a worker past its claim has a task), `EvidenceInOrder`,
  `SuccessHasEvidence` and `SuccessIsQuiet`. `SuccessHasEvidence` is not
  inductive by itself: that `FinishRun` writes success only over complete
  evidence follows from where the fiber has been, which is what `EvidenceInOrder`
  says for every place it can be at. `CoordinatorUsesDatabase` shows that every
  step of the coordinators is a call of `CallsSpec` or leaves the database alone, so
  that the theorems about both specifications carry over.
* `CoordinatorProofs`, ownership: `OwnedInv` says that from its claim to its last
  write a worker owns its task and the claim is fresh, so that no recovery of
  stale claims takes it (`OwnedWhileExecuting`). From that, `ReviewInv`: what a
  worker does to the status of a task it does as its owner (`StepIsTaskMove`), so
  that a task has one undecided review while it waits for one and none otherwise
  (`OneReviewPerSubmission`).
* `ExecutionProofs`: `CompletionOnlyIfEarned` needs to know, for every place of a
  worker and of a fiber, where the steps of the task stand. `ExecInv` has three
  parts: a step of the group is waiting, or has one fiber, or is over, and a worker
  has no step of another task (`GroupInv`); a fiber under way is awaited by its
  worker, and its step and run say how far it is (`FiberInv`); and what the status
  of a task says about each of its steps, which while somebody is at work on it
  depends on where that worker is (`StepInv`). The last conjunct of `InGroup`, that a
  failed required step leaves a refusal or a failed fiber in the group until it is
  looked at, is what keeps `finalizeTaskExecution` from being reached.
  `CoordinatorImplementsLifecycle` adds that every step of the coordinators is a
  step of `TaskLifecycle` or shows nothing there: it needs `ReviewInv` for what is
  submitted and `ExecInv` for what is earned.
  `OneProcessPerWorktree` has an invariant of its own, `TreeInv`: who is alive in a
  worktree (`LiveInv`), that a run's worktree is one of its own task
  (`RunTreeInv`), and that a worktree that a worker may use has no process but
  those of its own group (`Usable`), which has one fiber, or in a parallel plan one
  worktree per fiber (`LoneInv`, `SideBySide`). `TreeIsFree` is its centre: the run
  whose worktree is reused has no process, because its worker ended it, or because
  the recovery of a dead worker marked the run and the reuse avoids runs so marked.
* `StartupProofs`: for any number of processes, versions and rows.
  `StartupKeepsLease` and `StartupKeepsMigrations` show that a process of `Startup`
  is one of `DaemonLease` and one of `Migrations`, so that the theorems about these
  hold in it. Of the lease, in every interleaving: two daemons only after `raced`,
  and that only a dead daemon's tasks are recovered; the invariant ties, until a
  race, the file to the holder, and always an observed record to
  a process that has ended. Of the migrations, `MigrationInv`: the version is at
  most one behind the migration that a process has in hand (`Position`), a snapshot
  of that version exists once it was taken (`Snapshot`), and a count is never
  lower than the rows unless rows were inserted since (`CountIsHigh`). The last is
  what makes the comparison of counts find a loss. `DaemonHasItsSchema` needs both:
  the daemon has the database open, and versions only grow.
* `EventStreamProofs`: for any number of tasks, events, connections and every size
  of page and buffers. `StreamInv` says that what is on the way, from the
  client to the drain's cursor, is the wanted events in their order without
  a gap: received, then on the wire, then queued, then up to the cursor; and of a
  page, that it continues from there. Closed streams keep only the first part of it.
* `IdempotencyProofs`: at most one request per key is past its claim and the row
  is its own; from that, at-most-once effects and agreeing, true answers.
* `RouterProofs`: for every task text, risky coding changes get a required
  independent review after the implementation, steps run concurrently in parallel plans
  and only there, and every plan has a required step. The last two are
  `RouteAssumption`, what `Coordinator` assumes of a plan.
* `NodeSessionProofs`: first the journal, for every number of events, buffer, batch
  size and number of crashes. `JournalInv` adds to its three properties that
  acknowledgements in flight are true, that the controller knows only recorded
  truncations, that nothing dropped is protected and that a cursor is used once;
  without these `pruneUpTo` could not be shown to delete only what the controller
  has. `NodeIsJournal` shows that every step of a node is a step of its journal or
  leaves it alone, so that the journal's theorems hold in it.
  `SessionInv` says that memory and store agree on answers except for the one
  being saved, that the controller hears only what is stored, and that a lease is
  in one place only; from it follow one answer and one execution per offer.
* `RunControlProofs`: for every process tree, output limit and number of
  operators. `SupInv` is the supervisor's inductive invariant; `QuietUnlessFailed`
  needs from it that a resolved termination without a failure means an empty
  group, that an empty group stays empty and that nothing is written after the
  close. `RunIsSupervised` shows that a run uses the supervisor only through
  `start` and `stop`, so that its theorems hold in the run. `ControlInv` says for
  every place of `#executeStep` what has been started and what has been awaited,
  and which results a success rests on; `StopOutranksSuccess` and
  `EndedRunIsSettled` follow. `EarlyStop` adds that from an early request no path
  leads to a start.

The theorems about ownership and what follows from it have hypotheses on the
faults, weaker than what the run `core` excludes:

* `MaxStalls = 0`, in all five: a worker that stalls goes on with a task that was
  recovered meanwhile (`coordinator.ts:241`, the run `approval`).
* `MaxFaults = 0 \/ ParallelTasks = {}`, in `CompletionOnlyIfEarned` and what uses
  `ExecInv`: a database error outside `#executeStep`'s try block ends the worker's
  `Promise.all`, not the other fiber of the group. In a parallel plan that one goes
  on after the task was blocked and retried, and closes a step that by then belongs
  to another run: with `MaxFaults = 1`, one requeue and four runs in
  `MCCoordinator_progress.cfg`, TLC finds `CompletionIsEarned` violated. A worker of
  any other plan has one fiber at a time (`LoneInv`), so that such an error leaves
  nothing behind but a claim, which lapses (`Abandons`, as in a crash). Crashes,
  shutdowns and errors within the try block are allowed throughout.
* `DaemonWorkers = {}`, in `OneProcessPerWorktree`: the quarantine of worktrees
  looks for the wording of a heartbeat recovery, and a run that was starting when a
  daemon died carries another (`coordinator.ts:303`). With daemon workers and a plan of
  one local step TLC finds `WorktreeExclusive` violated.

Whether `OneProcessPerWorktree` needs the hypothesis on database errors is open: each fiber of a
parallel plan makes a worktree of its own, but its proof rests on `ExecInv`.

Only model-checked: liveness (fairness and ENABLED are outside the prover's
reach). Every invariant and every action property that a passing run checks is
stated by a theorem.

## Not modelled

* HTTP routing, authentication, projections, the API client and the MCP server:
  no state that anything else reads. Both clients repeat requests with an
  idempotency key, of which `Idempotency` is the other side.
* Schemas, canonical JSON and cryptography of `accp/`: data.
* Git commands, file copies, prompts, token accounting, configuration: I/O and
  formatting.
* OpenClaw's polling. `Coordinator` has the remote execution's start, result, stop
  and durable cancellation as seen by a run. Inside of the adapter, a stop whose
  request fails and a poll's answer write the same status, and the later one wins.
* Of the start-up: `expectedRowDelta`, which no migration declares; a failed
  integrity check, which the next start does not repeat; a daemon of an older
  version that goes on working after a newer command has migrated below it
  (`DaemonIsMigrated` says only that nothing it needs is missing).
* Reuse of process ids, loss of the disk, Windows, signals that are denied.
* `stopRun` in another process than the run's (it answers with an error), and
  `stopTask` and the shutdown, which call the same `stop` for several runs.

Some things the code does not promise, so that there is no property of them: nothing
calls the node's `reconnectWithBackoff` (`ws-client.ts:148`), so a node whose
socket closes stays away until it is restarted; a flush that stopped at
`maxUnackedBatches` is continued by the next event, not by the acknowledgement
(`session.ts:231`); when `executeAccepted` throws, the chain of `#executing` stays
rejected (`node-runtime.ts:235`); a lease file left empty by a crash makes later
starts fail until somebody removes it (`daemon-lease.ts:153`). The models have
these behaviours, or those that include them.

## Plan

1. Done: the core (database, coordinator, lease, idempotency, router) and its
   first proofs, the execution node, the processes of a run with the requests to
   stop it.
2. Done: the event stream; the schema migrations, composed with the lease to the
   start-up of processes.
3. The OpenClaw adapter: polls, stops and cancellations of one remote execution
   that answer in any order.
4. Recovery by `terminateVerifiedProcessGroup` with reuse of process ids.
5. Done: proofs of the invariants of `core` and of the refinement of
   `TaskLifecycle`.
6. Proofs: `OneProcessPerWorktree` with database errors in parallel plans, if it
   holds; of the other properties, what they keep with one stall.
