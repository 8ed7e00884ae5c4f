---------------------------- MODULE Coordinator ----------------------------
(***************************************************************************)
(* Worker processes that claim tasks from the shared database, execute      *)
(* their route steps and settle them, and the operator who approves, sends  *)
(* back or retries.  Source: src/src/coordinator.ts, src/src/runtime.ts     *)
(* and the worker loop of src/src/daemon.ts.                                *)
(*                                                                          *)
(* A worker is one process incarnation with one executeTask at a time.  A   *)
(* route step is executed by a fiber (one call of #executeStep); the steps  *)
(* of a group run concurrently.  A fiber is named by the run it creates;    *)
(* todo[w] holds the fibers that have not created theirs yet.  Between any  *)
(* two awaits other fibers, workers and the operator may act, so there is   *)
(* one action per awaited effect.  Agent processes are children that        *)
(* survive the death of their worker.                                       *)
(***************************************************************************)
EXTENDS ControlDb

CONSTANTS
  StepSequence,   \* route_steps.sequence_no
  StepRequired,   \* route_steps.required
  NeedsVerifier,  \* role execute, and the task has a verification command
  ParallelTasks,  \* tasks routed in mode "parallel"
  NeedsReview,    \* handoffRequired, or risk "high"
  DaemonWorkers,  \* workers that hold the daemon lease when they run
  MaxStalls,      \* bound on the times a live worker's claim ages
  MaxRequeues,    \* bound on the operator's retries and reworks
  MaxFaults       \* bound on database errors outside #executeStep's try block

ASSUME PlanAssumption ==
  /\ StepSequence \in [Steps -> Nat]
  /\ StepRequired \in [Steps -> BOOLEAN]
  /\ NeedsVerifier \in [Steps -> BOOLEAN]
  /\ ParallelTasks \subseteq Tasks
  /\ NeedsReview \in [Tasks -> BOOLEAN]

\* What every plan of routeTask has (see Router): a required step, and steps
\* that run at the same time in parallel mode and otherwise one by one.
ASSUME RouteAssumption ==
  /\ \A t \in Tasks : \E s \in StepsOf(t) : StepRequired[s]
  /\ \A s, u \in Steps : s # u /\ StepTask[s] = StepTask[u] =>
       (StepSequence[s] = StepSequence[u] <=> StepTask[s] \in ParallelTasks)

ASSUME EnvironmentAssumption ==
  /\ DaemonWorkers \subseteq Workers
  /\ MaxStalls \in Nat
  /\ MaxRequeues \in Nat
  /\ MaxFaults \in Nat

VARIABLES
  wpc,         \* where the worker is
  wtask,       \* the task it executes
  snapshot,    \* pending steps of its getTask that it has not started
  wtree,       \* inheritedWorktree
  todo,        \* fibers that have no run yet: <<step, awaited>>
  inflight,    \* runs of the current group
  refused,     \* a required step of the current group was unavailable
  shutdown,    \* #shutdownRequested
  cleanup,     \* recovered runs the worker has still to reconcile
  fpc,         \* where the fiber of a run is
  fworker,     \* the worker of the fiber
  ftree,       \* its worktree
  result,      \* what collectResult returned
  alive,       \* runs with a live agent or verifier process, or remote work
  evidence,    \* durable artifacts of a run
  stalls,      \* stalls so far
  requeues,    \* retries and reworks so far
  faults       \* database errors so far

workerVars == << wpc, wtask, snapshot, wtree, todo, inflight, refused >>
fiberVars == << fpc, fworker, ftree, result >>
worldVars == << alive, evidence >>
boundVars == << stalls, requeues, faults >>
procVars == << workerVars, shutdown, cleanup, fiberVars, worldVars, boundVars >>
vars == << dbVars, procVars >>

WorkerPc == {"off", "recovering", "idle", "claimed", "loop", "group", "blocking",
             "finalize", "shutdown", "dead"}

Executing == {"loop", "group", "blocking", "finalize", "shutdown"}

InTry == {"starting", "prepared", "spawned", "running", "collected", "verifying",
          "capturing", "finishing", "closing"}

Collected == {"collected", "verifying", "capturing", "finishing"}

InCatch == {"catch", "catchUpdate", "catchStep"}

FiberPc == {"none", "created", "stepped", "succeeded", "failed", "dead"}
             \cup InTry \cup InCatch

Terminal == {"succeeded", "failed", "stopped", "stale"}

Artifact == {"prompt", "logs", "verification", "git"}

ProcTypeOK ==
  /\ wpc \in [Workers -> WorkerPc]
  /\ wtask \in [Workers -> Tasks \cup {NoTask}]
  /\ snapshot \in [Workers -> SUBSET Steps]
  /\ wtree \in [Workers -> RunIds \cup {NoRun}]
  /\ todo \in [Workers -> SUBSET (Steps \X BOOLEAN)]
  /\ inflight \in [Workers -> SUBSET RunIds]
  /\ refused \in [Workers -> BOOLEAN]
  /\ shutdown \in [Workers -> BOOLEAN]
  /\ cleanup \in [Workers -> SUBSET RunIds]
  /\ fpc \in [RunIds -> FiberPc]
  /\ fworker \in [RunIds -> Workers \cup {NoWorker}]
  /\ ftree \in [RunIds -> RunIds \cup {NoRun}]
  /\ result \in [RunIds -> Terminal \cup {"none"}]
  /\ alive \in SUBSET RunIds
  /\ evidence \in [RunIds -> SUBSET Artifact]
  /\ stalls \in Nat
  /\ requeues \in Nat
  /\ faults \in Nat

\* Every column, every program counter and every local of a worker or fiber
\* stays within its domain.
TypeOK == DbTypeOK /\ ProcTypeOK

Init ==
  /\ DbInit
  /\ wpc = [w \in Workers |-> "off"]
  /\ wtask = [w \in Workers |-> NoTask]
  /\ snapshot = [w \in Workers |-> {}]
  /\ wtree = [w \in Workers |-> NoRun]
  /\ todo = [w \in Workers |-> {}]
  /\ inflight = [w \in Workers |-> {}]
  /\ refused = [w \in Workers |-> FALSE]
  /\ shutdown = [w \in Workers |-> FALSE]
  /\ cleanup = [w \in Workers |-> {}]
  /\ fpc = [r \in RunIds |-> "none"]
  /\ fworker = [r \in RunIds |-> NoWorker]
  /\ ftree = [r \in RunIds |-> NoRun]
  /\ result = [r \in RunIds |-> "none"]
  /\ alive = {}
  /\ evidence = [r \in RunIds |-> {}]
  /\ stalls = 0
  /\ requeues = 0
  /\ faults = 0

IsRemote(r) == runStep[r] # NoStep /\ StepAgent[runStep[r]] = "openclaw"

Goto(w, pc) ==
  /\ wpc' = [wpc EXCEPT ![w] = pc]
  /\ UNCHANGED << wtask, snapshot, wtree, todo, inflight, refused >>

\* executeTask returns or rejects.  The fibers that are still under way are
\* not cancelled by that: nobody awaits them any more.
LeaveTaskWithout(w, thrown) ==
  /\ wpc' = [wpc EXCEPT ![w] = "idle"]
  /\ wtask' = [wtask EXCEPT ![w] = NoTask]
  /\ snapshot' = [snapshot EXCEPT ![w] = {}]
  /\ wtree' = [wtree EXCEPT ![w] = NoRun]
  /\ todo' = [todo EXCEPT ![w] = {<<f[1], FALSE>> : f \in todo[w] \ thrown}]
  /\ inflight' = [inflight EXCEPT ![w] = {}]
  /\ refused' = [refused EXCEPT ![w] = FALSE]

LeaveTask(w) == LeaveTaskWithout(w, {})

-----------------------------------------------------------------------------
(* Process start and recovery.                                              *)

\* What reconcileRecoveredRuns can act on: a run with a recorded pid, which a
\* run gets when it becomes "running", or any OpenClaw run.
Candidates(R) == {r \in R : IsRemote(r) \/ runStatus[r] = "running"}

\* Slip: createRuntime without recoverStale.
StartWorker_noRecovery(w) ==
  /\ wpc[w] = "off"
  /\ Goto(w, "recovering")
  /\ UNCHANGED << dbVars, shutdown, cleanup, fiberVars, worldVars, boundVars >>

\* createRuntime with recoverStale
StartWorker(w) ==
  /\ wpc[w] = "off"
  /\ recoverStaleTasks
  /\ cleanup' = [cleanup EXCEPT ![w] = Candidates(ActiveRunsOf(LapsedTasks))]
  /\ Goto(w, "recovering")
  /\ UNCHANGED << shutdown, fiberVars, worldVars, boundVars >>

\* terminateVerifiedProcessGroup kills the group it can verify and leaves
\* anything else alone.
ReconcileProcess(w, r) ==
  /\ r \in cleanup[w] /\ ~ IsRemote(r) /\ wpc[w] = "recovering"
  /\ cleanup' = [cleanup EXCEPT ![w] = @ \ {r}]
  /\ alive' \in {alive, alive \ {r}}
  /\ UNCHANGED << dbVars, workerVars, shutdown, fiberVars, evidence, boundVars >>

\* Only a remote state "stopped" confirms the cancellation; the work may also
\* have ended by itself.
ReconcileRemote(w, r) ==
  /\ r \in cleanup[w] /\ IsRemote(r) /\ wpc[w] = "recovering"
  /\ cleanup' = [cleanup EXCEPT ![w] = @ \ {r}]
  /\ \/ confirmRemoteCancellation(r) /\ alive' = alive \ {r}
     \/ UNCHANGED dbVars /\ alive' \in {alive, alive \ {r}}
  /\ UNCHANGED << workerVars, shutdown, fiberVars, evidence, boundVars >>

\* The daemon reclaimed the lease of a daemon whose process is dead.
RecoverDeadWorker(w, d) ==
  /\ wpc[w] = "recovering" /\ cleanup[w] = {} /\ w \in DaemonWorkers
  /\ wpc[d] = "dead" /\ d \in DaemonWorkers /\ TasksOwnedBy(d) # {}
  /\ recoverTasksOwnedBy(d)
  /\ cleanup' = [cleanup EXCEPT ![w] = Candidates(ActiveRunsOf(TasksOwnedBy(d)))]
  /\ UNCHANGED << workerVars, shutdown, fiberVars, worldVars, boundVars >>

BeginLoop(w) ==
  /\ wpc[w] = "recovering" /\ cleanup[w] = {}
  /\ Goto(w, "idle")
  /\ UNCHANGED << dbVars, shutdown, cleanup, fiberVars, worldVars, boundVars >>

Underway(r) == fpc[r] \in {"created", "stepped"} \cup InTry \cup InCatch

\* The process dies: its fibers end where they are, the agents live on.
Crash(w) ==
  /\ wpc[w] \notin {"off", "dead"}
  /\ wpc' = [wpc EXCEPT ![w] = "dead"]
  /\ wtask' = [wtask EXCEPT ![w] = NoTask]
  /\ snapshot' = [snapshot EXCEPT ![w] = {}]
  /\ wtree' = [wtree EXCEPT ![w] = NoRun]
  /\ todo' = [todo EXCEPT ![w] = {}]
  /\ inflight' = [inflight EXCEPT ![w] = {}]
  /\ refused' = [refused EXCEPT ![w] = FALSE]
  /\ shutdown' = [shutdown EXCEPT ![w] = FALSE]
  /\ cleanup' = [cleanup EXCEPT ![w] = {}]
  /\ fpc' = [r \in RunIds |-> IF Underway(r) /\ fworker[r] = w THEN "dead" ELSE fpc[r]]
  /\ result' = [r \in RunIds |-> IF Underway(r) /\ fworker[r] = w THEN "none" ELSE result[r]]
  /\ UNCHANGED << dbVars, fworker, ftree, worldVars, boundVars >>

RequestShutdown(w) ==
  /\ wpc[w] \notin {"off", "recovering", "dead"} /\ ~ shutdown[w]
  /\ shutdown' = [shutdown EXCEPT ![w] = TRUE]
  /\ UNCHANGED << dbVars, workerVars, cleanup, fiberVars, worldVars, boundVars >>

-----------------------------------------------------------------------------
(* executeTask.                                                             *)

ClaimNextTask(w, t) ==
  /\ wpc[w] = "idle" /\ ~ shutdown[w]
  /\ claimNextTask(w, t)
  /\ wpc' = [wpc EXCEPT ![w] = "claimed"]
  /\ wtask' = [wtask EXCEPT ![w] = t]
  /\ UNCHANGED << snapshot, wtree, todo, inflight, refused >>
  /\ UNCHANGED << shutdown, cleanup, fiberVars, worldVars, boundVars >>

ExpiredRuns(t) ==
  {r \in RunsOf(t) : runStatus[r] = "stale" \/ runNote[r] = "heartbeat-expired"}

QuarantinedWorktrees(t) == {runTree[r] : r \in ExpiredRuns(t)}

\* Slip: worktrees of expired runs are not quarantined.
InheritableRuns_noQuarantine(t) == {r \in RunsOf(t) : runTree[r] # NoRun}

\* Runs whose worktree a retry may work on.
InheritableRuns(t) ==
  {r \in RunsOf(t) \ ExpiredRuns(t) : /\ runTree[r] # NoRun
                                      /\ runTree[r] \notin QuarantinedWorktrees(t)}

\* The worktree of the latest of them; candidates work side by side, each in a
\* worktree of its own.
InheritedWorktree(t) ==
  LET latest == {r \in InheritableRuns(t) : \A q \in InheritableRuns(t) : q <= r}
  IN IF t \in ParallelTasks \/ latest = {} THEN NoRun
     ELSE runTree[CHOOSE r \in latest : TRUE]

\* The checks of executeTask, the first heartbeat, and what
\* #executeClaimedTask reads from the aggregate.
ExecuteTask(w) ==
  LET t == wtask[w] IN
  /\ wpc[w] = "claimed" /\ Owns(w, t)
  /\ IF shutdown[w] THEN UNCHANGED dbVars ELSE heartbeatTask(t, w)
  /\ wpc' = [wpc EXCEPT ![w] = IF shutdown[w] THEN "shutdown" ELSE "loop"]
  /\ snapshot' = [snapshot EXCEPT ![w] = {s \in StepsOf(t) : stepStatus[s] = "pending"}]
  /\ wtree' = [wtree EXCEPT ![w] = InheritedWorktree(t)]
  /\ UNCHANGED << wtask, todo, inflight, refused >>
  /\ UNCHANGED << shutdown, cleanup, fiberVars, worldVars, boundVars >>

\* Not running any more, or claimed by another worker: executeTask throws.
ExecuteTaskRefused(w) ==
  /\ wpc[w] = "claimed" /\ ~ Owns(w, wtask[w])
  /\ LeaveTask(w)
  /\ UNCHANGED << dbVars, shutdown, cleanup, fiberVars, worldVars, boundVars >>

\* The interval of executeTask; a heartbeat that fails is ignored.
Heartbeat(w) ==
  /\ wpc[w] \in Executing /\ wtask[w] # NoTask /\ lapsed[wtask[w]]
  /\ heartbeatTask(wtask[w], w)
  /\ UNCHANGED procVars

\* Heartbeats are sent while executeTask works on the task, and end with it or
\* with the process.
ClaimLapses(t) ==
  /\ ~ lapsed[t] /\ ClaimAges(t)
  /\ \A w \in Workers : Owns(w, t) => wtask[w] # t
  /\ UNCHANGED procVars

\* A stall: the worker is alive and will go on, but its heartbeats did not
\* arrive for long enough (a suspended machine, a blocked event loop).
ClaimStalls(t) ==
  /\ ~ lapsed[t] /\ ClaimAges(t)
  /\ \E w \in Workers : Owns(w, t) /\ wtask[w] = t
  /\ stalls < MaxStalls
  /\ stalls' = stalls + 1
  /\ UNCHANGED << workerVars, shutdown, cleanup, fiberVars, worldVars, requeues, faults >>

NextSequence(w) ==
  {s \in snapshot[w] : \A u \in snapshot[w] : StepSequence[s] <= StepSequence[u]}

StartGroup(w) ==
  /\ wpc[w] = "loop" /\ ~ shutdown[w] /\ snapshot[w] # {}
  /\ wpc' = [wpc EXCEPT ![w] = "group"]
  /\ todo' = [todo EXCEPT ![w] = @ \cup (NextSequence(w) \X {TRUE})]
  /\ snapshot' = [snapshot EXCEPT ![w] = @ \ NextSequence(w)]
  /\ inflight' = [inflight EXCEPT ![w] = {}]
  /\ refused' = [refused EXCEPT ![w] = FALSE]
  /\ UNCHANGED << dbVars, wtask, wtree, shutdown, cleanup, fiberVars, worldVars, boundVars >>

\* Slip: a fiber that failed is waited for.
GroupSettled_onSuccess(w) ==
  /\ \A f \in todo[w] : ~ f[2]
  /\ \A r \in inflight[w] : fpc[r] = "succeeded"

GroupSettled(w) ==
  /\ \A f \in todo[w] : ~ f[2]
  /\ \A r \in inflight[w] : fpc[r] \in {"succeeded", "failed"}

\* Slip: a step that never got a run does not count as failed.
RequiredFailure_runsOnly(w) ==
  \E r \in inflight[w] : fpc[r] = "failed" /\ StepRequired[runStep[r]]

RequiredFailure(w) ==
  \/ refused[w]
  \/ \E r \in inflight[w] : fpc[r] = "failed" /\ StepRequired[runStep[r]]

GroupTree(w) ==
  LET made == {r \in inflight[w] : ftree[r] # NoRun}
  IN IF wtree[w] # NoRun \/ made = {} THEN wtree[w] ELSE ftree[CHOOSE r \in made : TRUE]

JoinGroup(w) ==
  /\ wpc[w] = "group" /\ GroupSettled(w)
  /\ wpc' = [wpc EXCEPT ![w] = IF shutdown[w] THEN "shutdown"
                               ELSE IF RequiredFailure(w) THEN "blocking" ELSE "loop"]
  /\ wtree' = [wtree EXCEPT ![w] = GroupTree(w)]
  /\ UNCHANGED << dbVars, wtask, snapshot, todo, inflight, refused >>
  /\ UNCHANGED << shutdown, cleanup, fiberVars, worldVars, boundVars >>

\* Slip: the loop ends after the first group.
StopLoop_early(w) ==
  /\ wpc[w] = "loop"
  /\ Goto(w, IF shutdown[w] THEN "shutdown" ELSE "finalize")
  /\ UNCHANGED << dbVars, shutdown, cleanup, fiberVars, worldVars, boundVars >>

StopLoop(w) ==
  /\ wpc[w] = "loop"
  /\ shutdown[w] \/ snapshot[w] = {}
  /\ Goto(w, IF shutdown[w] THEN "shutdown" ELSE "finalize")
  /\ UNCHANGED << dbVars, shutdown, cleanup, fiberVars, worldVars, boundVars >>

\* The read of #blockForShutdown; the write follows an await later.
BlockForShutdown(w) ==
  /\ wpc[w] = "shutdown"
  /\ IF taskStatus[wtask[w]] = "running" THEN Goto(w, "blocking") ELSE LeaveTask(w)
  /\ UNCHANGED << dbVars, shutdown, cleanup, fiberVars, worldVars, boundVars >>

\* The completion evidence could not be written.
HandoffFails(w) ==
  /\ wpc[w] = "finalize"
  /\ Goto(w, "blocking")
  /\ UNCHANGED << dbVars, shutdown, cleanup, fiberVars, worldVars, boundVars >>

\* A refused transition throws out of executeTask.
BlockTask(w) ==
  /\ wpc[w] = "blocking"
  /\ IF TaskTransitionAllowed(taskStatus[wtask[w]], "blocked")
     THEN updateTaskStatus(wtask[w], "blocked")
     ELSE UNCHANGED dbVars
  /\ LeaveTask(w)
  /\ UNCHANGED << shutdown, cleanup, fiberVars, worldVars, boundVars >>

FinalizeTask(w) ==
  LET t == wtask[w] IN
  /\ wpc[w] = "finalize"
  /\ \/ ~ NeedsReview[t] /\ finalizeDone(t)
     \/ NeedsReview[t] /\ \E v \in ReviewIds : finalizeNeedsReview(t, v)
     \/ taskStatus[t] # "running" /\ UNCHANGED dbVars
  /\ LeaveTask(w)
  /\ UNCHANGED << shutdown, cleanup, fiberVars, worldVars, boundVars >>

\* A database error in executeTask itself rejects it.
WorkerThrows(w) ==
  /\ wpc[w] \in {"claimed", "blocking", "finalize", "shutdown"}
  /\ faults < MaxFaults
  /\ faults' = faults + 1
  /\ LeaveTask(w)
  /\ UNCHANGED << dbVars, shutdown, cleanup, fiberVars, worldVars, stalls, requeues >>

-----------------------------------------------------------------------------
(* #executeStep.                                                            *)

FiberRest == << shutdown, cleanup, boundVars >>

\* The adapter is missing or unavailable, or the worker is shutting down.
UnavailableStep(w, f) ==
  LET s == f[1] IN
  /\ f \in todo[w]
  /\ todo' = [todo EXCEPT ![w] = @ \ {f}]
  /\ updateRouteStep(s, IF StepRequired[s] THEN "failed" ELSE "skipped", stepRun[s])
  /\ refused' = [refused EXCEPT ![w] = @ \/ (f[2] /\ StepRequired[s])]
  /\ UNCHANGED << wpc, wtask, snapshot, wtree, inflight, fiberVars, alive, evidence, FiberRest >>

CreateRun(w, f, r) ==
  /\ f \in todo[w] /\ ~ shutdown[w]
  /\ createRun(f[1], r)
  /\ todo' = [todo EXCEPT ![w] = @ \ {f}]
  /\ inflight' = [inflight EXCEPT ![w] = IF f[2] THEN @ \cup {r} ELSE @]
  /\ fpc' = [fpc EXCEPT ![r] = "created"]
  /\ fworker' = [fworker EXCEPT ![r] = w]
  /\ ftree' = [ftree EXCEPT ![r] = wtree[w]]
  /\ UNCHANGED << wpc, wtask, snapshot, wtree, refused, result, alive, evidence, FiberRest >>

FiberGoto(r, pc) ==
  /\ fpc' = [fpc EXCEPT ![r] = pc]
  /\ UNCHANGED << fworker, workerVars, FiberRest >>

\* The result is local to the try block.
LeaveTry(r, pc) ==
  /\ FiberGoto(r, pc)
  /\ result' = [result EXCEPT ![r] = "none"]

StepRunning(r) ==
  /\ fpc[r] = "created"
  /\ updateRouteStep(runStep[r], "running", r)
  /\ FiberGoto(r, "stepped")
  /\ UNCHANGED << ftree, result, alive, evidence >>

RunStarting(r) ==
  /\ fpc[r] = "stepped"
  /\ updateRun(r, "starting")
  /\ FiberGoto(r, "starting")
  /\ UNCHANGED << ftree, result, alive, evidence >>

\* A worktree of its own or the inherited one, then the prompt as evidence.
PrepareWorktree(r) ==
  LET tree == IF ftree[r] = NoRun THEN r ELSE ftree[r] IN
  /\ fpc[r] = "starting" /\ ~ shutdown[fworker[r]]
  /\ updateRunTree(r, tree)
  /\ ftree' = [ftree EXCEPT ![r] = tree]
  /\ evidence' = [evidence EXCEPT ![r] = @ \cup {"prompt"}]
  /\ FiberGoto(r, "prepared")
  /\ UNCHANGED << result, alive >>

SpawnAgent(r) ==
  /\ fpc[r] = "prepared"
  /\ alive' = alive \cup {r}
  /\ FiberGoto(r, "spawned")
  /\ UNCHANGED << dbVars, ftree, result, evidence >>

\* The start request reached OpenClaw but its answer did not come back.
StartAnswerLost(r) ==
  /\ fpc[r] = "prepared" /\ IsRemote(r)
  /\ alive' = alive \cup {r}
  /\ LeaveTry(r, "catch")
  /\ UNCHANGED << dbVars, ftree, evidence >>

\* persistAdapterStart.  When the write is refused, the command line adapters
\* stop the process they started; see Catch.
PersistStart(r) ==
  /\ fpc[r] = "spawned"
  /\ IF CanUpdateRun(r, "running")
     THEN updateRun(r, "running") /\ FiberGoto(r, "running") /\ UNCHANGED result
     ELSE UNCHANGED dbVars /\ LeaveTry(r, "catch")
  /\ UNCHANGED << ftree, alive, evidence >>

\* The agent ended.  A remote run may also end as "stale": it could neither be
\* followed nor cancelled.
CollectResult(r) ==
  /\ fpc[r] = "running"
  /\ \E res \in Terminal :
       /\ res = "stale" => IsRemote(r)
       /\ result' = [result EXCEPT ![r] = res]
       /\ alive' = IF res = "stale" THEN alive ELSE alive \ {r}
  /\ FiberGoto(r, "collected")
  /\ UNCHANGED << dbVars, ftree, evidence >>

MustVerify(r) == result[r] = "succeeded" /\ NeedsVerifier[runStep[r]]

\* Slip: the verifier is not run.
IngestArtifacts_unverified(r) ==
  /\ fpc[r] = "collected"
  /\ evidence' = [evidence EXCEPT ![r] = @ \cup {"logs"}]
  /\ FiberGoto(r, "capturing")
  /\ UNCHANGED << dbVars, ftree, result, alive >>

\* assertSourceUnchanged and #ingestAdapterArtifacts, and the start of the
\* verifier process.
IngestArtifacts(r) ==
  /\ fpc[r] = "collected"
  /\ evidence' = [evidence EXCEPT ![r] = @ \cup {"logs"}]
  /\ alive' = IF MustVerify(r) THEN alive \cup {r} ELSE alive
  /\ FiberGoto(r, IF MustVerify(r) THEN "verifying" ELSE "capturing")
  /\ UNCHANGED << dbVars, ftree, result >>

\* Slip: the verifier's exit is not awaited.
VerificationPasses_early(r) ==
  /\ fpc[r] = "verifying"
  /\ evidence' = [evidence EXCEPT ![r] = @ \cup {"verification"}]
  /\ FiberGoto(r, "capturing")
  /\ UNCHANGED << dbVars, ftree, result, alive >>

\* #runVerification returns only when the verifier passed.
VerificationPasses(r) ==
  /\ fpc[r] = "verifying"
  /\ evidence' = [evidence EXCEPT ![r] = @ \cup {"verification"}]
  /\ alive' = alive \ {r}
  /\ FiberGoto(r, "capturing")
  /\ UNCHANGED << dbVars, ftree, result >>

\* Slip: the Git evidence is best effort.
CaptureReviewArtifacts_bestEffort(r) ==
  /\ fpc[r] = "capturing"
  /\ FiberGoto(r, "finishing")
  /\ UNCHANGED << dbVars, ftree, result, evidence, alive >>

CaptureReviewArtifacts(r) ==
  /\ fpc[r] = "capturing"
  /\ evidence' = [evidence EXCEPT ![r] = @ \cup {"git"}]
  /\ FiberGoto(r, "finishing")
  /\ UNCHANGED << dbVars, ftree, result, alive >>

\* terminalRunStatus(result) is the result's own status.
FinishRun(r) ==
  /\ fpc[r] = "finishing"
  /\ IF CanUpdateRun(r, result[r])
     THEN updateRun(r, result[r]) /\ FiberGoto(r, "closing") /\ UNCHANGED result
     ELSE UNCHANGED dbVars /\ LeaveTry(r, "catch")
  /\ UNCHANGED << ftree, alive, evidence >>

\* Slip: the step gets the status of its run.
CloseStep_runStatus(r) ==
  /\ fpc[r] = "closing"
  /\ updateRouteStep(runStep[r], result[r], stepRun[runStep[r]])
  /\ LeaveTry(r, IF result[r] = "succeeded" THEN "succeeded" ELSE "failed")
  /\ UNCHANGED << ftree, alive, evidence >>

CloseStep(r) ==
  LET outcome == IF result[r] = "succeeded" THEN "succeeded" ELSE "failed" IN
  /\ fpc[r] = "closing"
  /\ updateRouteStep(runStep[r], outcome, stepRun[runStep[r]])
  /\ LeaveTry(r, outcome)
  /\ UNCHANGED << ftree, alive, evidence >>

\* Anything awaited in the try block may throw.
FiberThrows(r) ==
  /\ fpc[r] \in InTry
  /\ LeaveTry(r, "catch")
  /\ UNCHANGED << dbVars, ftree, alive, evidence >>

\* The catch block: a local process is stopped; a remote one may not be, and
\* the answer of the cancellation is not looked at.
Catch(r) ==
  /\ fpc[r] = "catch"
  /\ alive' \in IF IsRemote(r) THEN {alive, alive \ {r}} ELSE {alive \ {r}}
  /\ FiberGoto(r, IF runStatus[r] \in {"starting", "running"} THEN "catchUpdate" ELSE "catchStep")
  /\ UNCHANGED << dbVars, ftree, result, evidence >>

\* The run may have been recovered since it was read.
CatchUpdate(r) ==
  /\ fpc[r] = "catchUpdate"
  /\ updateRun(r, "failed")
  /\ FiberGoto(r, "catchStep")
  /\ UNCHANGED << ftree, result, alive, evidence >>

CatchStep(r) ==
  /\ fpc[r] = "catchStep"
  /\ updateRouteStep(runStep[r], "failed", stepRun[runStep[r]])
  /\ FiberGoto(r, "failed")
  /\ UNCHANGED << ftree, result, alive, evidence >>

\* What #executeStep awaits before there is a run throws: the adapter's check
\* of its availability, or createRun.
OpeningThrows(w, f) ==
  /\ f \in todo[w]
  /\ faults < MaxFaults
  /\ faults' = faults + 1
  /\ IF f[2] THEN LeaveTaskWithout(w, {f})
     ELSE /\ todo' = [todo EXCEPT ![w] = @ \ {f}]
          /\ UNCHANGED << wpc, wtask, snapshot, wtree, inflight, refused >>
  /\ UNCHANGED << dbVars, shutdown, cleanup, fiberVars, worldVars, stalls, requeues >>

\* The event that follows the failed or refused step cannot be appended.
ClosingThrows(w) ==
  /\ wpc[w] = "group"
  /\ refused[w] \/ \E r \in inflight[w] : fpc[r] = "failed"
  /\ faults < MaxFaults
  /\ faults' = faults + 1
  /\ LeaveTask(w)
  /\ UNCHANGED << dbVars, shutdown, cleanup, fiberVars, worldVars, stalls, requeues >>

\* A database error outside the try block rejects the group's Promise.all and
\* with it executeTask; the other fibers of the group go on.
StepThrows(r) ==
  /\ fpc[r] \in {"created", "stepped", "starting", "catchUpdate", "catchStep"}
  /\ faults < MaxFaults
  /\ faults' = faults + 1
  /\ fpc' = [fpc EXCEPT ![r] = "dead"]
  /\ IF r \in inflight[fworker[r]] THEN LeaveTask(fworker[r]) ELSE UNCHANGED workerVars
  /\ UNCHANGED << dbVars, fworker, ftree, result, shutdown, cleanup, worldVars, stalls, requeues >>

-----------------------------------------------------------------------------
(* The operator.                                                            *)

CreateTask(t) == createTask(t) /\ UNCHANGED procVars

ApproveReview(t, v) == approveTaskReview(t, v) /\ UNCHANGED procVars

Requeue ==
  /\ requeues < MaxRequeues
  /\ requeues' = requeues + 1
  /\ UNCHANGED << workerVars, shutdown, cleanup, fiberVars, alive, evidence, stalls, faults >>

RequestRework(t, v) == requestTaskRework(t, v) /\ Requeue

RetryBlockedTask(t, allow) == retryBlockedTask(t, allow) /\ Requeue

-----------------------------------------------------------------------------

WorkerStep(w) ==
  \/ BeginLoop(w)
  \/ \E t \in Tasks : ClaimNextTask(w, t)
  \/ \E r \in RunIds : ReconcileProcess(w, r) \/ ReconcileRemote(w, r)
  \/ ExecuteTask(w) \/ ExecuteTaskRefused(w)
  \/ StartGroup(w) \/ JoinGroup(w) \/ StopLoop(w)
  \/ BlockForShutdown(w) \/ BlockTask(w) \/ HandoffFails(w) \/ FinalizeTask(w)
  \/ \E f \in todo[w] : UnavailableStep(w, f) \/ \E r \in RunIds : CreateRun(w, f, r)

FiberStep(r) ==
  \/ StepRunning(r) \/ RunStarting(r) \/ PrepareWorktree(r)
  \/ SpawnAgent(r) \/ StartAnswerLost(r) \/ PersistStart(r) \/ CollectResult(r)
  \/ IngestArtifacts(r) \/ VerificationPasses(r) \/ CaptureReviewArtifacts(r)
  \/ FinishRun(r) \/ CloseStep(r)
  \/ FiberThrows(r) \/ Catch(r) \/ CatchUpdate(r) \/ CatchStep(r)

Environment ==
  \/ \E w \in Workers :
       \/ StartWorker(w) \/ Crash(w) \/ RequestShutdown(w) \/ Heartbeat(w)
       \/ WorkerThrows(w) \/ ClosingThrows(w) \/ \E f \in todo[w] : OpeningThrows(w, f)
       \/ \E d \in Workers : RecoverDeadWorker(w, d)
  \/ \E r \in RunIds : StepThrows(r)
  \/ \E t \in Tasks : ClaimLapses(t) \/ ClaimStalls(t)

Operator ==
  \E t \in Tasks :
    \/ CreateTask(t)
    \/ \E v \in ReviewIds : ApproveReview(t, v) \/ RequestRework(t, v)
    \/ \E allow \in BOOLEAN : RetryBlockedTask(t, allow)

Next ==
  \/ \E w \in Workers : WorkerStep(w)
  \/ \E r \in RunIds : FiberStep(r)
  \/ Environment
  \/ Operator

Spec == Init /\ [][Next]_vars

\* The event loop of a live worker runs whatever is ready, an agent or a
\* verifier ends or is timed out by its supervisor, time passes, and somebody
\* eventually starts the next worker.  Nothing is assumed of the operator.
Fairness ==
  /\ \A w \in Workers : WF_vars(WorkerStep(w)) /\ WF_vars(StartWorker(w))
  /\ \A r \in RunIds : WF_vars(FiberStep(r))
  /\ \A t \in Tasks : WF_vars(ClaimLapses(t))

FairSpec == Spec /\ Fairness

-----------------------------------------------------------------------------
(* What the runs check.                                                     *)

\* A worker between its claim check and its last write about a task is the
\* one that the database names as the task's owner.  (The ownership checks of
\* executeTask are made once, at its start; every later write relies on it.)
ExecutionIsOwned ==
  \A w \in Workers : wpc[w] \in Executing => Owns(w, wtask[w])

\* A task that waits for review or is done got there with every required step
\* succeeded, by a run that succeeded, and with no step left open; retries
\* re-run only what failed, and worker deaths never turn a half-done step into
\* a completed one.
CompletionIsEarned ==
  \A t \in Tasks : taskStatus[t] \in {"needs-review", "done"} =>
    \A s \in StepsOf(t) :
      /\ stepStatus[s] \in {"succeeded", "failed", "skipped"}
      /\ StepRequired[s] => /\ stepStatus[s] = "succeeded"
                            /\ stepRun[s] # NoRun
                            /\ runStatus[stepRun[s]] = "succeeded"

\* There is a pending review exactly while the task waits for one, and never
\* two: a decision is always about the latest evidence.
ReviewMatchesTask ==
  \A t \in Tasks :
    LET pending == {v \in ReviewIds : reviewTask[v] = t /\ reviewStatus[v] = "pending"}
    IN Cardinality(pending) = IF taskStatus[t] = "needs-review" THEN 1 ELSE 0

\* No two local processes (agents or verifiers) work in the same worktree at
\* the same time, whatever crashed in between.
WorktreeExclusive ==
  \A r, q \in alive : r # q /\ ~ IsRemote(r) /\ ~ IsRemote(q) => runTree[r] # runTree[q]

\* A run is recorded as succeeded only after its prompt, its logs, its Git
\* state and, where one is asked for, the verifier's report are durable.
SuccessHasEvidence ==
  \A r \in RunIds : runStatus[r] = "succeeded" =>
    /\ {"prompt", "logs", "git"} \subseteq evidence[r]
    /\ NeedsVerifier[runStep[r]] => "verification" \in evidence[r]

\* A succeeded run has no live process behind it.
SuccessIsQuiet == \A r \in RunIds : runStatus[r] = "succeeded" => r \notin alive

\* The strengthening under which SuccessHasEvidence and SuccessIsQuiet are
\* inductive: how far a fiber is bounds what is durable about its run, and only
\* a fiber past its last write can have a succeeded run.
EvidenceInOrder ==
  \A r \in RunIds :
    /\ runStatus[r] = "absent" <=> fpc[r] = "none"
    /\ fpc[r] # "none" => runStep[r] \in Steps /\ fworker[r] \in Workers
    /\ fpc[r] \in {"prepared", "spawned", "running"} \cup Collected
         => "prompt" \in evidence[r] /\ ftree[r] # NoRun
    /\ fpc[r] \in Collected \cup {"closing"} => result[r] \in Terminal
    /\ fpc[r] \in Collected \ {"collected"} => "logs" \in evidence[r]
    /\ fpc[r] \in Collected \ {"verifying"} /\ result[r] = "succeeded" => r \notin alive
    /\ fpc[r] \in {"capturing", "finishing"} /\ MustVerify(r) => "verification" \in evidence[r]
    /\ fpc[r] = "finishing" => "git" \in evidence[r]
    /\ runStatus[r] = "succeeded" =>
         fpc[r] \in {"closing", "catch", "catchStep", "succeeded", "failed", "dead"}

\* Only the latest review of a task is ever approved: the evidence did not
\* change after it was submitted.  (Reviews are numbered as they are created.)
ApprovalIsOfLatest ==
  \A u, v \in ReviewIds :
    reviewStatus[v] = "approved" /\ reviewTask[u] = reviewTask[v] => u <= v

\* An OpenClaw execution that a recovery cut off, that is still under way and
\* whose cancellation nobody confirmed, denies the retry of its task.
CutOffRemoteDeniesRetry ==
  \A r \in alive : IsRemote(r) /\ runNote[r] # "none" /\ r \notin confirmed =>
    r \in UnresolvedRemote(StepTask[runStep[r]])

\* A worker that starts on a task it owns comes back to its loop.
ExecutionEnds ==
  \A w \in Workers : wpc[w] \in Executing ~> wpc[w] \in {"idle", "dead"}

\* A claim that lapsed while another worker has yet to start does not stay.
LapsedClaimRecovered ==
  \A t \in Tasks : (lapsed[t] /\ \E w \in Workers : wpc[w] = "off") ~> ~ lapsed[t]

-----------------------------------------------------------------------------
(* The coordinator as an implementation of TaskLifecycle.                   *)

Earned(t) ==
  \A s \in StepsOf(t) : StepRequired[s] =>
    /\ stepStatus[s] = "succeeded"
    /\ stepRun[s] # NoRun
    /\ runStatus[stepRun[s]] = "succeeded"

PendingReviews(t) == {v \in ReviewIds : reviewTask[v] = t /\ reviewStatus[v] = "pending"}

Lifecycle == INSTANCE TaskLifecycle WITH
  status <- taskStatus,
  owner <- claimedBy,
  earned <- [t \in Tasks |-> Earned(t)],
  open <- [t \in Tasks |-> PendingReviews(t)],
  Reviews <- ReviewIds

\* Seen from outside, tasks go through the lifecycle and nothing else.
ImplementsLifecycle == Lifecycle!Spec
=============================================================================
