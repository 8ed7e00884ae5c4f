--------------------------- MODULE ExecutionProofs ---------------------------
(***************************************************************************)
(* What the execution of tasks guarantees while heartbeats arrive in time   *)
(* and no database error leaves a fiber behind: a task is completed only    *)
(* when it is earned, the coordinators implement TaskLifecycle, and no two  *)
(* local processes share a worktree.  The invariants say where each worker, *)
(* fiber, step and worktree of a task stands relative to the others.        *)
(***************************************************************************)
EXTENDS CoordinatorProofs

-----------------------------------------------------------------------------
(* Groups, fibers and steps, as long as every fiber under way is awaited.   *)

\* The worker works on the task.  It may own others, which it left when the
\* database threw; those wait for the recovery.
AtWork(w, t) == Busy(w) /\ wtask[w] = t

\* The fibers without a run, the runs and the pending steps of a worker belong
\* to its task, and no step has two of them.
TodoInv(w) ==
  \A f \in todo[w] : wpc[w] = "group" /\ f[2] = TRUE /\ StepTask[f[1]] = wtask[w]

InflightInv(w) ==
  \A r \in inflight[w] :
    /\ wpc[w] \in Executing /\ fworker[r] = w /\ fpc[r] \notin {"none", "dead"}
    /\ StepTask[runStep[r]] = wtask[w]
    /\ <<runStep[r], TRUE>> \notin todo[w]
    /\ \A q \in inflight[w] : runStep[q] = runStep[r] => q = r

SnapshotInv(w) ==
  \A s \in snapshot[w] :
    /\ wpc[w] \in Executing \ {"finalize"} /\ StepTask[s] = wtask[w]
    /\ <<s, TRUE>> \notin todo[w]
    /\ \A r \in inflight[w] : runStep[r] # s

GroupInv(w) == TodoInv(w) /\ InflightInv(w) /\ SnapshotInv(w)

\* A fiber under way is awaited by its worker, its step names its run, and the
\* status of the run says how far the fiber is.
FiberInv(r) ==
  /\ Underway(r) => wpc[fworker[r]] = "group" /\ r \in inflight[fworker[r]]
  /\ Underway(r) /\ fpc[r] # "created" => stepRun[runStep[r]] = r
  /\ fpc[r] \in {"created", "stepped"} => runStatus[r] = "queued"
  /\ fpc[r] \in {"starting", "prepared", "spawned"} => runStatus[r] = "starting"
  /\ fpc[r] \in {"running"} \cup Collected => runStatus[r] = "running"
  /\ fpc[r] = "closing" => runStatus[r] = result[r]

\* A step that is over.
Closed(s) == stepStatus[s] \in {"succeeded", "failed", "skipped"}

\* A worker that starts on the task may go on from here.
Ready(s) == stepStatus[s] \in {"pending", "succeeded", "skipped"}

\* A step whose failure, if it failed, does not fail its task.
Passed(s) == stepStatus[s] = "failed" => ~ StepRequired[s]

\* In a group, whatever is open is accounted for and no failure is forgotten.
InGroup(w, s) ==
  /\ stepStatus[s] = "running" =>
       \E r \in inflight[w] : runStep[r] = s /\ Underway(r) /\ fpc[r] # "created"
  /\ stepStatus[s] = "pending" =>
       \/ s \in snapshot[w] \/ <<s, TRUE>> \in todo[w]
       \/ \E r \in inflight[w] : runStep[r] = s /\ fpc[r] = "created"
  /\ Passed(s) \/ refused[w] \/ \E r \in inflight[w] : runStep[r] = s /\ fpc[r] = "failed"

\* What the status of a task says about its steps, and, while it runs, where
\* its owner is.
StepInv(s) ==
  LET t == StepTask[s] IN
  /\ stepStatus[s] = "skipped" => ~ StepRequired[s]
  /\ stepStatus[s] = "succeeded" => stepRun[s] # NoRun /\ runStatus[stepRun[s]] = "succeeded"
  /\ taskStatus[t] \in {"absent", "queued"} => Ready(s)
  /\ taskStatus[t] = "blocked" => stepStatus[s] # "running"
  /\ taskStatus[t] \in {"needs-review", "done"} => Closed(s) /\ Passed(s)
  /\ \A w \in Workers : AtWork(w, t) =>
       /\ wpc[w] = "claimed" => Ready(s)
       /\ wpc[w] \in Executing \ {"group"} =>
            stepStatus[s] # "running" /\ (stepStatus[s] = "pending" => s \in snapshot[w])
       /\ wpc[w] \in {"loop", "finalize"} => Passed(s)
       /\ wpc[w] = "group" => InGroup(w, s)

\* The invariant behind the completion of tasks.
ExecInv ==
  /\ \A w \in Workers : GroupInv(w)
  /\ \A r \in RunIds : FiberInv(r)
  /\ \A s \in Steps : StepInv(s)

\* The worker of a fiber under way is in the group of the fiber and owns its task.
LEMMA UnderwayInGroup ==
  ASSUME IInv, OwnedInv, ExecInv, NEW r \in RunIds, Underway(r)
  PROVE  /\ fworker[r] \in Workers /\ runStep[r] \in Steps
         /\ wpc[fworker[r]] = "group" /\ r \in inflight[fworker[r]]
         /\ StepTask[runStep[r]] = wtask[fworker[r]]
         /\ Owns(fworker[r], StepTask[runStep[r]]) /\ AtWork(fworker[r], StepTask[runStep[r]])
<1>1. fworker[r] \in Workers /\ runStep[r] \in Steps
  BY DEF IInv, EvidenceInOrder, Underway, InTry, InCatch
<1>2. wpc[fworker[r]] = "group" /\ r \in inflight[fworker[r]]
  BY DEF ExecInv, FiberInv
<1>3. StepTask[runStep[r]] = wtask[fworker[r]]
  <2>1. GroupInv(fworker[r])
    BY <1>1 DEF ExecInv
  <2>2. QED
    BY <1>2, <2>1 DEF GroupInv, InflightInv
<1>4. Owns(fworker[r], wtask[fworker[r]]) /\ AtWork(fworker[r], wtask[fworker[r]])
  BY <1>1, <1>2 DEF OwnedInv, Claimed, AtWork, Busy, Executing
<1>5. QED
  BY <1>1, <1>2, <1>3, <1>4

\* No step has two fibers under way.
LEMMA OneFiberPerStep ==
  ASSUME IInv, OwnedInv, ExecInv, NEW r \in RunIds, Underway(r), NEW q \in RunIds, Underway(q),
         runStep[q] = runStep[r]
  PROVE  q = r
<1>1. /\ Owns(fworker[q], StepTask[runStep[q]]) /\ q \in inflight[fworker[q]]
      /\ Owns(fworker[r], StepTask[runStep[r]]) /\ r \in inflight[fworker[r]]
      /\ fworker[r] \in Workers
  BY UnderwayInGroup
<1>2. fworker[q] = fworker[r]
  BY <1>1 DEF Owns
<1>3. GroupInv(fworker[r])
  BY <1>1 DEF ExecInv
<1>4. QED
  BY <1>1, <1>2, <1>3 DEF GroupInv, InflightInv

\* A settled run stays settled (updateRun, confirmRemoteCancellation).
LEMMA SuccessStays ==
  ASSUME IInv, [Next]_vars, NEW r \in RunIds, runStatus[r] = "succeeded"
  PROVE  runStatus'[r] = "succeeded"
BY DbStep, RunsMoveForward DEF IInv, TypeOK, RunMovesForward

\* What keeps the parts of the invariant.
LEMMA GroupInvKept ==
  ASSUME NEW v \in Workers, GroupInv(v),
         wpc'[v] = wpc[v], wtask'[v] = wtask[v], snapshot'[v] = snapshot[v],
         todo'[v] = todo[v], inflight'[v] = inflight[v],
         \A r \in inflight[v] : /\ fworker'[r] = fworker[r] /\ runStep'[r] = runStep[r]
                               /\ fpc'[r] \notin {"none", "dead"}
  PROVE  GroupInv(v)'
<1>1. TodoInv(v)'
  BY DEF GroupInv, TodoInv
<1>2. InflightInv(v)'
  BY DEF GroupInv, InflightInv
<1>3. SnapshotInv(v)'
  BY DEF GroupInv, SnapshotInv
<1>4. QED
  BY <1>1, <1>2, <1>3 DEF GroupInv

LEMMA FiberInvKept ==
  ASSUME NEW r \in RunIds, FiberInv(r),
         fpc'[r] = fpc[r], result'[r] = result[r], runStatus'[r] = runStatus[r],
         Underway(r) => /\ wpc'[fworker'[r]] = "group" /\ r \in inflight'[fworker'[r]]
                        /\ fpc[r] # "created" => stepRun'[runStep'[r]] = stepRun[runStep[r]]
  PROVE  FiberInv(r)'
BY DEF FiberInv, Underway, InTry, InCatch, Collected

LEMMA InGroupKept ==
  ASSUME NEW w \in Workers, NEW s \in Steps, InGroup(w, s), stepStatus'[s] = stepStatus[s],
         refused[w] => refused'[w], s \in snapshot[w] => s \in snapshot'[w],
         <<s, TRUE>> \in todo[w] => <<s, TRUE>> \in todo'[w],
         \A q \in inflight[w] : runStep[q] = s =>
           q \in inflight'[w] /\ runStep'[q] = s /\ fpc'[q] = fpc[q]
  PROVE  InGroup(w, s)'
<1>1. Passed(s)' = Passed(s)
  BY DEF Passed
<1>2. \A q \in inflight[w] : runStep[q] = s => Underway(q)' = Underway(q)
  BY DEF Underway
<1>3. QED
  BY <1>1, <1>2 DEF InGroup

LEMMA StepInvKept ==
  ASSUME IInv, [Next]_vars, NEW s \in Steps, StepInv(s),
         stepStatus'[s] = stepStatus[s], stepRun'[s] = stepRun[s],
         taskStatus'[StepTask[s]] = taskStatus[StepTask[s]],
         \A w \in Workers : AtWork(w, StepTask[s])' =>
            /\ AtWork(w, StepTask[s]) /\ wpc'[w] = wpc[w] /\ snapshot'[w] = snapshot[w]
            /\ wpc[w] = "group" /\ InGroup(w, s) => InGroup(w, s)'
  PROVE  StepInv(s)'
<1>1. stepStatus[s] = "succeeded" => runStatus'[stepRun[s]] = "succeeded"
  <2>1. stepRun[s] # NoRun => stepRun[s] \in RunIds
    BY DEF IInv, TypeOK, DbTypeOK
  <2>2. QED
    BY <2>1, SuccessStays DEF StepInv
<1>2. Ready(s)' = Ready(s) /\ Closed(s)' = Closed(s) /\ Passed(s)' = Passed(s)
  BY DEF Ready, Closed, Passed
<1>3. QED
  BY <1>1, <1>2 DEF StepInv

\* A task has one worker at work on it, its owner.
LEMMA OneAtWork ==
  ASSUME IInv, OwnedInv, NEW w \in Workers, NEW t, AtWork(w, t)
  PROVE  /\ t \in Tasks /\ taskStatus[t] = "running" /\ Owns(w, t)
         /\ \A v \in Workers : AtWork(v, t) => v = w
<1>1. \A v \in Workers : AtWork(v, t) => Owns(v, t) /\ t \in Tasks
  BY DEF AtWork, OwnedInv, Claimed, IInv, WorkerHasTask, Busy
<1>2. QED
  BY <1>1 DEF Owns

\* A step of a fiber opens its route step, goes on, or closes it.
LEMMA FiberProgress ==
  ASSUME IInv, NEW r \in RunIds, FiberStep(r)
  PROVE  /\ Underway(r) /\ UNCHANGED << runStep, fworker >>
         /\ \A s \in Steps \ {runStep[r]} : stepStatus'[s] = stepStatus[s] /\ stepRun'[s] = stepRun[s]
         /\ \/ /\ fpc[r] = "created" /\ fpc'[r] = "stepped"
               /\ stepStatus'[runStep[r]] = "running" /\ stepRun'[runStep[r]] = r
            \/ /\ fpc[r] # "created" /\ Underway(r)' /\ fpc'[r] # "created"
               /\ UNCHANGED stepVars
            \/ /\ fpc[r] \in {"closing", "catchStep"} /\ fpc'[r] \in {"succeeded", "failed"}
               /\ stepStatus'[runStep[r]] = fpc'[r] /\ stepRun'[runStep[r]] = stepRun[runStep[r]]
               /\ fpc'[r] = "succeeded" => fpc[r] = "closing" /\ result[r] = "succeeded"
<1> DEFINE s == runStep[r]
<1> USE DEF IInv, TypeOK, ProcTypeOK, DbTypeOK, FiberGoto, LeaveTry, Underway, InTry, InCatch
<1>1. fpc[r] # "none" => s \in Steps
  BY DEF EvidenceInOrder
<1>2. CASE StepRunning(r) \/ CloseStep(r) \/ CatchStep(r)
  BY <1>1, <1>2 DEF StepRunning, CloseStep, CatchStep, updateRouteStep, runVars
<1>3. CASE RunStarting(r) \/ PersistStart(r) \/ FinishRun(r) \/ CatchUpdate(r)
  BY <1>3 DEF RunStarting, PersistStart, FinishRun, CatchUpdate, updateRun, stepVars, dbVars, runVars
<1>4. CASE PrepareWorktree(r)
  BY <1>4 DEF PrepareWorktree, updateRunTree, stepVars
<1>5. CASE SpawnAgent(r) \/ StartAnswerLost(r) \/ CollectResult(r) \/ IngestArtifacts(r)
           \/ VerificationPasses(r) \/ CaptureReviewArtifacts(r)
  BY <1>5 DEF SpawnAgent, StartAnswerLost, CollectResult, IngestArtifacts, VerificationPasses,
     CaptureReviewArtifacts, stepVars, dbVars, runVars
<1>6. CASE FiberThrows(r) \/ Catch(r)
  BY <1>6 DEF FiberThrows, Catch, stepVars, dbVars, runVars
<1>7. QED
  BY <1>2, <1>3, <1>4, <1>5, <1>6 DEF FiberStep

\* The status of its run follows the fiber.
LEMMA FiberKeepsFiberInv ==
  ASSUME IInv, OwnedInv, ExecInv, NEW r \in RunIds, FiberStep(r)
  PROVE  FiberInv(r)'
<1> DEFINE RunFollows ==
      /\ fpc[r] \in {"created", "stepped"} => runStatus[r] = "queued"
      /\ fpc[r] \in {"starting", "prepared", "spawned"} => runStatus[r] = "starting"
      /\ fpc[r] \in {"running"} \cup Collected => runStatus[r] = "running"
      /\ fpc[r] = "closing" => runStatus[r] = result[r]
<1> USE DEF IInv, TypeOK, ProcTypeOK, DbTypeOK, FiberGoto, LeaveTry, Collected
<1>1. RunFollows
  BY DEF ExecInv, FiberInv
<1>2. RunFollows'
  <2>1. CASE StepRunning(r) \/ CloseStep(r) \/ CatchStep(r)
    BY <1>1, <2>1 DEF StepRunning, CloseStep, CatchStep, updateRouteStep, runVars
  <2>2. CASE RunStarting(r) \/ PersistStart(r)
    BY <1>1, <2>2 DEF RunStarting, PersistStart, updateRun
  <2>3. CASE FinishRun(r) \/ CatchUpdate(r)
    BY <1>1, <2>3 DEF FinishRun, CatchUpdate, updateRun
  <2>4. CASE PrepareWorktree(r)
    BY <1>1, <2>4 DEF PrepareWorktree, updateRunTree
  <2>5. CASE SpawnAgent(r) \/ StartAnswerLost(r) \/ CollectResult(r)
    BY <1>1, <2>5 DEF SpawnAgent, StartAnswerLost, CollectResult, dbVars, runVars
  <2>6. CASE IngestArtifacts(r)
    BY <1>1, <2>6 DEF IngestArtifacts, dbVars, runVars
  <2>7. CASE VerificationPasses(r) \/ CaptureReviewArtifacts(r)
    BY <1>1, <2>7 DEF VerificationPasses, CaptureReviewArtifacts, dbVars, runVars
  <2>8. CASE FiberThrows(r) \/ Catch(r)
    BY <1>1, <2>8 DEF FiberThrows, Catch, dbVars, runVars
  <2>9. QED
    BY <2>1, <2>2, <2>3, <2>4, <2>5, <2>6, <2>7, <2>8 DEF FiberStep
<1>3. wpc[fworker[r]] = "group" /\ r \in inflight[fworker[r]]
  BY FiberProgress, UnderwayInGroup
<1>4. UNCHANGED << wpc, inflight, fworker >>
  BY FiberProgress, FiberClaimed DEF workerVars
<1>5. Underway(r)' /\ fpc'[r] # "created" => stepRun'[runStep'[r]] = r
  <2>1. fpc[r] # "created" => stepRun[runStep[r]] = r
    BY FiberProgress DEF ExecInv, FiberInv
  <2>2. QED
    BY <2>1, FiberProgress DEF Underway, InTry, InCatch, stepVars
<1>6. QED
  BY <1>2, <1>3, <1>4, <1>5 DEF FiberInv

\* Its route step follows the fiber too.
LEMMA FiberKeepsStepInv ==
  ASSUME IInv, OwnedInv, ExecInv, [Next]_vars, NEW r \in RunIds, FiberStep(r), NEW s \in Steps
  PROVE  StepInv(s)'
<1>1. UNCHANGED << taskVars, workerVars, runStep, fworker >>
  BY FiberProgress, FiberClaimed
<1> USE <1>1 DEF taskVars, workerVars
<1>2. StepInv(s) /\ \A w \in Workers : inflight[w] \subseteq RunIds
  BY DEF ExecInv, IInv, TypeOK, ProcTypeOK
<1>3. \A q \in RunIds \ {r} : fpc'[q] = fpc[q]
  BY FiberTouchesItsRun DEF IInv
<1>4. CASE s # runStep[r]
  <2>1. \A w \in Workers : InGroup(w, s) => InGroup(w, s)'
    BY <1>2, <1>3, <1>4, FiberProgress, InGroupKept
  <2>2. QED
    BY <1>2, <1>4, <2>1, FiberProgress, StepInvKept DEF AtWork, Busy
<1>5. CASE s = runStep[r]
  <2> DEFINE w == fworker[r]
             t == StepTask[s]
  <2>1. /\ Underway(r) /\ w \in Workers /\ wpc[w] = "group" /\ r \in inflight[w]
        /\ taskStatus[t] = "running" /\ \A v \in Workers : AtWork(v, t)' => v = w
    BY <1>5, FiberProgress, UnderwayInGroup, OneAtWork DEF AtWork, Busy
  <2>2. InGroup(w, s)
    BY <1>5, FiberProgress, UnderwayInGroup DEF ExecInv, StepInv
  <2>3. fpc[r] = "closing" => runStatus[r] = result[r] /\ stepRun[s] = r
    BY <1>5, <2>1 DEF ExecInv, FiberInv
  <2>4. CASE UNCHANGED stepVars /\ fpc[r] # "created" /\ Underway(r)' /\ fpc'[r] # "created"
    <3>1. \A q \in inflight[w] : runStep[q] = s /\ Underway(q) => q = r
      BY <1>2, <1>5, <2>1, OneFiberPerStep
    <3>2. stepStatus[s] = "running" => r \in inflight'[w] /\ runStep'[r] = s /\ Underway(r)' /\ fpc'[r] # "created"
      BY <1>5, <2>1, <2>4
    <3>3. stepStatus[s] = "pending" => s \in snapshot[w] \/ <<s, TRUE>> \in todo[w]
      BY <1>2, <2>1, <2>2, <2>4, <3>1 DEF InGroup, Underway
    <3>4. Passed(s) \/ refused[w] \/ \E q \in inflight[w] : runStep[q] = s /\ fpc'[q] = "failed"
      <4>1. fpc[r] # "failed"
        BY <2>1 DEF Underway, InTry, InCatch
      <4>2. QED
        BY <1>2, <1>3, <2>1, <2>2, <4>1 DEF InGroup
    <3>5. InGroup(w, s)'
      BY <2>4, <3>2, <3>3, <3>4 DEF InGroup, Passed, stepVars
    <3>6. QED
      BY <1>2, <2>1, <2>4, <3>5, StepInvKept DEF stepVars, AtWork, Busy
  <2>5. CASE fpc'[r] = "stepped" /\ stepStatus'[s] = "running"
    <3>1. InGroup(w, s)'
      BY <1>5, <2>1, <2>5 DEF InGroup, Underway, Passed
    <3>2. QED
      BY <2>1, <2>5, <3>1 DEF StepInv, Executing
  <2>6. CASE /\ fpc[r] \in {"closing", "catchStep"} /\ fpc'[r] \in {"succeeded", "failed"}
             /\ stepStatus'[s] = fpc'[r] /\ stepRun'[s] = stepRun[s]
             /\ fpc'[r] = "succeeded" => fpc[r] = "closing" /\ result[r] = "succeeded"
    <3>1. InGroup(w, s)'
      BY <1>5, <2>1, <2>6 DEF InGroup, Passed
    <3>2. stepStatus'[s] = "succeeded" => stepRun'[s] = r /\ runStatus'[r] = "succeeded"
      BY <2>3, <2>6, SuccessStays
    <3>3. r # NoRun
      BY BoundAssumption DEF RunIds, NoRun
    <3>4. QED
      BY <2>1, <2>6, <3>1, <3>2, <3>3 DEF StepInv, Executing
  <2>7. QED
    BY <1>5, <2>4, <2>5, <2>6, FiberProgress
<1>6. QED
  BY <1>4, <1>5

\* A step of a fiber keeps the invariant.
LEMMA FiberExec ==
  ASSUME IInv, OwnedInv, ExecInv, [Next]_vars, NEW r \in RunIds, FiberStep(r)
  PROVE  ExecInv'
<1>1. UNCHANGED << taskVars, workerVars, runStep, fworker >>
  BY FiberProgress, FiberClaimed
<1>2. ASSUME NEW w \in Workers PROVE GroupInv(w)'
  <2>1. GroupInv(w) /\ inflight[w] \subseteq RunIds
    BY DEF ExecInv, IInv, TypeOK, ProcTypeOK
  <2>2. fpc'[r] \notin {"none", "dead"}
    BY FiberProgress DEF Underway, InTry, InCatch
  <2>3. \A q \in inflight[w] : fpc'[q] \notin {"none", "dead"}
    BY <2>1, <2>2, FiberTouchesItsRun DEF IInv, GroupInv, InflightInv
  <2>4. QED
    BY <1>1, <2>1, <2>3, GroupInvKept DEF workerVars
<1>3. ASSUME NEW q \in RunIds, q # r PROVE FiberInv(q)'
  <2>1. Underway(q) => runStep[q] # runStep[r] /\ runStep[q] \in Steps
    BY <1>3, FiberProgress, OneFiberPerStep, UnderwayInGroup
  <2>2. Underway(q) => stepRun'[runStep[q]] = stepRun[runStep[q]]
    BY <2>1, FiberProgress
  <2>3. Underway(q) => wpc'[fworker'[q]] = "group" /\ q \in inflight'[fworker'[q]]
    BY <1>1, UnderwayInGroup DEF workerVars
  <2>4. FiberInv(q) /\ fpc'[q] = fpc[q] /\ result'[q] = result[q] /\ runStatus'[q] = runStatus[q]
    BY <1>3, FiberTouchesItsRun DEF IInv, ExecInv
  <2>5. QED
    BY <1>1, <2>2, <2>3, <2>4, FiberInvKept
<1>4. QED
  BY <1>2, <1>3, FiberKeepsFiberInv, FiberKeepsStepInv DEF ExecInv

\* A worker's step is about itself and creates at most one run.
LEMMA WorkerFrame ==
  ASSUME IInv, NEW w \in Workers, WorkerStep(w)
  PROVE  /\ \A v \in Workers \ {w} :
              /\ wpc'[v] = wpc[v] /\ wtask'[v] = wtask[v] /\ snapshot'[v] = snapshot[v]
              /\ todo'[v] = todo[v] /\ inflight'[v] = inflight[v] /\ refused'[v] = refused[v]
         /\ \A q \in RunIds : fpc[q] # "none" =>
              /\ fpc'[q] = fpc[q] /\ result'[q] = result[q] /\ fworker'[q] = fworker[q]
              /\ runStep'[q] = runStep[q] /\ runStatus'[q] = runStatus[q]
         /\ stepRun' = stepRun
<1> USE DEF IInv, TypeOK, ProcTypeOK, DbTypeOK, dbVars, fiberVars, runVars, stepVars, Goto,
               LeaveTask, LeaveTaskWithout
<1>1. CASE BeginLoop(w) \/ ExecuteTaskRefused(w) \/ StopLoop(w) \/ BlockForShutdown(w) \/ HandoffFails(w)
  BY <1>1 DEF BeginLoop, ExecuteTaskRefused, StopLoop, BlockForShutdown, HandoffFails
<1>2. CASE StartGroup(w) \/ JoinGroup(w)
  BY <1>2 DEF StartGroup, JoinGroup
<1>3. CASE \E t \in Tasks : ClaimNextTask(w, t)
  BY <1>3 DEF ClaimNextTask, claimNextTask
<1>4. CASE \E r \in RunIds : ReconcileProcess(w, r) \/ ReconcileRemote(w, r)
  BY <1>4 DEF ReconcileProcess, ReconcileRemote, confirmRemoteCancellation, workerVars
<1>5. CASE ExecuteTask(w)
  BY <1>5 DEF ExecuteTask, heartbeatTask
<1>6. CASE BlockTask(w)
  BY <1>6 DEF BlockTask, updateTaskStatus
<1>7. CASE FinalizeTask(w)
  BY <1>7 DEF FinalizeTask, finalizeDone, finalizeNeedsReview
<1>8. ASSUME NEW f \in todo[w], UnavailableStep(w, f)
      PROVE  /\ \A v \in Workers \ {w} :
                  /\ wpc'[v] = wpc[v] /\ wtask'[v] = wtask[v] /\ snapshot'[v] = snapshot[v]
                  /\ todo'[v] = todo[v] /\ inflight'[v] = inflight[v] /\ refused'[v] = refused[v]
             /\ UNCHANGED << fpc, result, fworker, runStep, runStatus, stepRun >>
  BY <1>8 DEF UnavailableStep, updateRouteStep
<1>9. ASSUME NEW f \in todo[w], NEW r \in RunIds, CreateRun(w, f, r)
      PROVE  /\ \A v \in Workers \ {w} :
                  /\ wpc'[v] = wpc[v] /\ wtask'[v] = wtask[v] /\ snapshot'[v] = snapshot[v]
                  /\ todo'[v] = todo[v] /\ inflight'[v] = inflight[v] /\ refused'[v] = refused[v]
             /\ \A q \in RunIds \ {r} :
                  /\ fpc'[q] = fpc[q] /\ result'[q] = result[q] /\ fworker'[q] = fworker[q]
                  /\ runStep'[q] = runStep[q] /\ runStatus'[q] = runStatus[q]
             /\ fpc[r] = "none" /\ stepRun' = stepRun
  BY <1>9 DEF CreateRun, createRun, NextRunId, EvidenceInOrder
<1>10. QED
  BY <1>1, <1>2, <1>3, <1>4, <1>5, <1>6, <1>7, <1>8, <1>9 DEF WorkerStep

\* What the other workers wait for is left alone.
LEMMA OtherWorkersGroup ==
  ASSUME IInv, ExecInv, NEW w \in Workers, WorkerStep(w), NEW v \in Workers \ {w}
  PROVE  /\ GroupInv(v)'
         /\ \A s \in Steps : stepStatus'[s] = stepStatus[s] /\ InGroup(v, s) => InGroup(v, s)'
<1>1. GroupInv(v) /\ inflight[v] \subseteq RunIds
  BY DEF ExecInv, IInv, TypeOK, ProcTypeOK
<1>2. \A q \in inflight[v] : /\ fpc'[q] = fpc[q] /\ fpc[q] \notin {"none", "dead"}
                            /\ fworker'[q] = fworker[q] /\ runStep'[q] = runStep[q]
  BY <1>1, WorkerFrame DEF GroupInv, InflightInv
<1>3. GroupInv(v)'
  BY <1>1, <1>2, WorkerFrame, GroupInvKept
<1>4. ASSUME NEW s \in Steps, stepStatus'[s] = stepStatus[s], InGroup(v, s) PROVE InGroup(v, s)'
  BY <1>2, <1>4, WorkerFrame, InGroupKept
<1>5. QED
  BY <1>3, <1>4

\* A step of a task that the worker does not work on.
LEMMA ForeignStepInv ==
  ASSUME IInv, ExecInv, [Next]_vars, NEW w \in Workers, WorkerStep(w), NEW s \in Steps,
         ~ AtWork(w, StepTask[s])', stepStatus'[s] = stepStatus[s],
         taskStatus'[StepTask[s]] = taskStatus[StepTask[s]]
  PROVE  StepInv(s)'
<1>1. StepInv(s)
  BY DEF ExecInv
<1>2. \A v \in Workers \ {w} : AtWork(v, StepTask[s])' => AtWork(v, StepTask[s])
  BY WorkerFrame DEF AtWork, Busy
<1>3. QED
  BY <1>1, <1>2, WorkerFrame, OtherWorkersGroup, StepInvKept

\* A step of the task that the worker works on.
LEMMA OwnStepInv ==
  ASSUME IInv, OwnedInv, ExecInv, [Next]_vars, NEW w \in Workers, WorkerStep(w), NEW s \in Steps,
         AtWork(w, StepTask[s]), stepStatus'[s] = stepStatus[s],
         taskStatus'[StepTask[s]] = taskStatus[StepTask[s]],
         wpc'[w] = "claimed" => Ready(s),
         wpc'[w] \in Executing \ {"group"} =>
           stepStatus[s] # "running" /\ (stepStatus[s] = "pending" => s \in snapshot'[w]),
         wpc'[w] \in {"loop", "finalize"} => Passed(s),
         wpc'[w] = "group" => InGroup(w, s)'
  PROVE  StepInv(s)'
<1>1. StepInv(s) /\ stepRun' = stepRun
  BY WorkerFrame DEF ExecInv
<1>2. stepStatus[s] = "succeeded" => runStatus'[stepRun[s]] = "succeeded"
  <2>1. stepRun[s] # NoRun => stepRun[s] \in RunIds
    BY DEF IInv, TypeOK, DbTypeOK
  <2>2. QED
    BY <1>1, <2>1, SuccessStays DEF StepInv
<1>3. taskStatus[StepTask[s]] = "running" /\ \A v \in Workers : AtWork(v, StepTask[s])' => v = w
  BY WorkerFrame, OneAtWork DEF AtWork, Busy
<1>4. Ready(s)' = Ready(s) /\ Passed(s)' = Passed(s)
  BY DEF Ready, Passed
<1>5. QED
  BY <1>1, <1>2, <1>3, <1>4 DEF StepInv

\* While a worker works on nothing, its fibers are done with.
LEMMA IdleWorker ==
  ASSUME IInv, OwnedInv, ExecInv, NEW w \in Workers, ~ Busy(w)
  PROVE  /\ todo[w] = {} /\ inflight[w] = {} /\ snapshot[w] = {}
         /\ \A q \in RunIds : Underway(q) => fworker[q] # w
<1>1. GroupInv(w)
  BY DEF ExecInv
<1>2. QED
  BY <1>1, UnderwayInGroup DEF GroupInv, TodoInv, InflightInv, SnapshotInv, Busy, Executing

\* Where the owner of a step's task stands, after a step of it.
OwnerInv(w, s) ==
  /\ wpc[w] = "claimed" => Ready(s)
  /\ wpc[w] \in Executing \ {"group"} =>
       stepStatus[s] # "running" /\ (stepStatus[s] = "pending" => s \in snapshot[w])
  /\ wpc[w] \in {"loop", "finalize"} => Passed(s)
  /\ wpc[w] = "group" => InGroup(w, s)

\* A worker goes on without writing about tasks, steps or fibers.
LEMMA QuietStep ==
  ASSUME IInv, OwnedInv, ExecInv, [Next]_vars, NEW w \in Workers, WorkerStep(w),
         UNCHANGED << taskStatus, stepStatus, fpc >>,
         Busy(w)' <=> Busy(w), wtask'[w] = wtask[w],
         GroupInv(w)',
         \A q \in RunIds : Underway(q) => fworker[q] # w,
         \A s \in Steps : AtWork(w, StepTask[s]) => OwnerInv(w, s)'
  PROVE  ExecInv'
<1>1. \A v \in Workers : GroupInv(v)'
  BY OtherWorkersGroup
<1>2. ASSUME NEW q \in RunIds PROVE FiberInv(q)'
  <2>1. FiberInv(q)
    BY DEF ExecInv
  <2>2. Underway(q) => fworker[q] \in Workers \ {w} /\ wpc[fworker[q]] = "group" /\ q \in inflight[fworker[q]]
    BY UnderwayInGroup
  <2>3. CASE fpc[q] # "none"
    BY <2>1, <2>2, <2>3, WorkerFrame, FiberInvKept
  <2>4. CASE fpc[q] = "none"
    BY <2>4 DEF FiberInv, Underway, InTry, InCatch, Collected
  <2>5. QED
    BY <2>3, <2>4
<1>3. ASSUME NEW s \in Steps PROVE StepInv(s)'
  <2>1. CASE AtWork(w, StepTask[s])
    <3>1. OwnerInv(w, s)'
      BY <2>1
    <3>2. Ready(s)' = Ready(s) /\ Passed(s)' = Passed(s)
      BY DEF Ready, Passed
    <3>3. QED
      BY <2>1, <3>1, <3>2, OwnStepInv DEF OwnerInv
  <2>2. CASE ~ AtWork(w, StepTask[s])
    BY <2>2, ForeignStepInv DEF AtWork
  <2>3. QED
    BY <2>1, <2>2
<1>4. QED
  BY <1>1, <1>2, <1>3 DEF ExecInv

\* Outside of groups no fiber of the worker is under way.
LEMMA NoFibersOutsideGroup ==
  ASSUME IInv, OwnedInv, ExecInv, NEW w \in Workers, wpc[w] # "group", NEW q \in RunIds, Underway(q)
  PROVE  fworker[q] # w
BY UnderwayInGroup

\* Outside of groups a worker's steps are not about fibers.
LEMMA FibersOfOthers ==
  ASSUME IInv, OwnedInv, ExecInv, NEW w \in Workers, WorkerStep(w), wpc[w] # "group",
         UNCHANGED fpc, NEW q \in RunIds
  PROVE  FiberInv(q)'
<1>1. FiberInv(q)
  BY DEF ExecInv
<1>2. Underway(q) => fworker[q] \in Workers \ {w} /\ wpc[fworker[q]] = "group" /\ q \in inflight[fworker[q]]
  BY UnderwayInGroup
<1>3. CASE fpc[q] # "none"
  BY <1>1, <1>2, <1>3, WorkerFrame, FiberInvKept
<1>4. CASE fpc[q] = "none"
  BY <1>4 DEF FiberInv, Underway, InTry, InCatch, Collected
<1>5. QED
  BY <1>3, <1>4

\* The steps of a worker, one operation each.
LEMMA BeginLoopExec ==
  ASSUME IInv, OwnedInv, ExecInv, [Next]_vars, NEW w \in Workers, WorkerStep(w),
         BeginLoop(w) \/ \E r \in RunIds : ReconcileProcess(w, r) \/ ReconcileRemote(w, r)
  PROVE  ExecInv'
<1>1. wpc[w] = "recovering"
  BY DEF BeginLoop, ReconcileProcess, ReconcileRemote
<1>2. ~ Busy(w) /\ wpc'[w] \in {"recovering", "idle"}
  BY <1>1 DEF Busy, Executing, BeginLoop, ReconcileProcess, ReconcileRemote, Goto, workerVars,
     IInv, TypeOK, ProcTypeOK
<1>3. /\ UNCHANGED << taskStatus, stepStatus, fpc >>
      /\ UNCHANGED << wtask, todo, inflight, snapshot >>
  BY DEF BeginLoop, ReconcileProcess, ReconcileRemote, confirmRemoteCancellation, Goto,
     workerVars, fiberVars, dbVars, taskVars, stepVars
<1>4. GroupInv(w)'
  BY <1>2, <1>3, IdleWorker DEF GroupInv, TodoInv, InflightInv, SnapshotInv
<1>5. ~ Busy(w)' /\ \A s \in Steps : ~ AtWork(w, StepTask[s])
  BY <1>2 DEF AtWork, Busy, Executing
<1>6. QED
  BY <1>2, <1>3, <1>4, <1>5, IdleWorker, QuietStep

LEMMA ExecuteTaskExec ==
  ASSUME IInv, OwnedInv, ExecInv, [Next]_vars, NEW w \in Workers, WorkerStep(w), ExecuteTask(w)
  PROVE  ExecInv'
<1>1. /\ wpc[w] = "claimed" /\ wpc'[w] \in {"shutdown", "loop"} /\ wtask' = wtask
      /\ snapshot'[w] = {s \in StepsOf(wtask[w]) : stepStatus[s] = "pending"}
      /\ UNCHANGED << todo, inflight, taskStatus, claimedBy, stepStatus, fpc >>
  BY DEF ExecuteTask, heartbeatTask, IInv, TypeOK, ProcTypeOK, fiberVars, dbVars, taskVars, stepVars
<1>2. Busy(w) /\ Busy(w)' /\ Owns(w, wtask[w])
  BY <1>1 DEF Busy, Executing, OwnedInv, Claimed
<1>3. todo[w] = {} /\ inflight[w] = {}
  BY <1>1 DEF ExecInv, GroupInv, TodoInv, InflightInv, Executing
<1>4. GroupInv(w)'
  BY <1>1, <1>3 DEF GroupInv, TodoInv, InflightInv, SnapshotInv, StepsOf, Executing
<1>5. ASSUME NEW s \in Steps, AtWork(w, StepTask[s]) PROVE OwnerInv(w, s)'
  <2>1. StepInv(s)
    BY DEF ExecInv
  <2>2. Ready(s) /\ StepTask[s] = wtask[w]
    BY <1>1, <1>5, <2>1 DEF StepInv, AtWork
  <2>3. QED
    BY <1>1, <2>2 DEF OwnerInv, Ready, Passed, StepsOf
<1>6. QED
  BY <1>1, <1>2, <1>4, <1>5, NoFibersOutsideGroup, QuietStep

LEMMA StartGroupExec ==
  ASSUME IInv, OwnedInv, ExecInv, [Next]_vars, NEW w \in Workers, WorkerStep(w), StartGroup(w)
  PROVE  ExecInv'
<1>1. /\ wpc[w] = "loop" /\ wpc'[w] = "group" /\ wtask' = wtask
      /\ todo'[w] = todo[w] \cup (NextSequence(w) \X {TRUE})
      /\ snapshot'[w] = snapshot[w] \ NextSequence(w) /\ inflight'[w] = {}
      /\ UNCHANGED << taskStatus, claimedBy, stepStatus, fpc >>
  BY DEF StartGroup, IInv, TypeOK, ProcTypeOK, fiberVars, dbVars, taskVars, stepVars
<1>2. Busy(w) /\ Busy(w)'
  BY <1>1 DEF Busy, Executing
<1>3. todo[w] = {} /\ \A s \in snapshot[w] : StepTask[s] = wtask[w]
  BY <1>1 DEF ExecInv, GroupInv, TodoInv, SnapshotInv
<1>4. NextSequence(w) \subseteq snapshot[w]
  BY DEF NextSequence
<1>5. GroupInv(w)'
  <2>1. TodoInv(w)'
    BY <1>1, <1>3, <1>4 DEF TodoInv
  <2>2. InflightInv(w)'
    BY <1>1 DEF InflightInv
  <2>3. SnapshotInv(w)'
    BY <1>1, <1>3, <1>4 DEF SnapshotInv, Executing
  <2>4. QED
    BY <2>1, <2>2, <2>3 DEF GroupInv
<1>6. ASSUME NEW s \in Steps, AtWork(w, StepTask[s]) PROVE OwnerInv(w, s)'
  <2>1. Passed(s) /\ stepStatus[s] # "running" /\ (stepStatus[s] = "pending" => s \in snapshot[w])
    BY <1>1, <1>6 DEF ExecInv, StepInv, Executing
  <2>2. InGroup(w, s)'
    BY <1>1, <2>1 DEF InGroup, Passed
  <2>3. QED
    BY <1>1, <2>2 DEF OwnerInv
<1>7. QED
  BY <1>1, <1>2, <1>5, <1>6, NoFibersOutsideGroup, QuietStep

LEMMA LeaveLoopExec ==
  ASSUME IInv, OwnedInv, ExecInv, [Next]_vars, NEW w \in Workers, WorkerStep(w),
         StopLoop(w) \/ BlockForShutdown(w) \/ HandoffFails(w)
  PROVE  ExecInv'
<1>1. wpc[w] \in {"loop", "shutdown", "finalize"}
  BY DEF StopLoop, BlockForShutdown, HandoffFails
<1>2. Busy(w) /\ taskStatus[wtask[w]] = "running"
  BY <1>1 DEF OwnedInv, Claimed, Busy, Executing, Owns
<1>3. /\ wpc'[w] \in {"shutdown", "blocking", "finalize"}
      /\ wpc'[w] = "finalize" => wpc[w] = "loop" /\ snapshot[w] = {}
      /\ UNCHANGED << wtask, todo, inflight, snapshot, taskStatus, claimedBy, stepStatus, fpc >>
  BY <1>2 DEF StopLoop, BlockForShutdown, HandoffFails, Goto, IInv, TypeOK, ProcTypeOK,
     fiberVars, dbVars, taskVars, stepVars
<1>4. Busy(w)' /\ wpc'[w] \in Executing \ {"group", "claimed"}
  BY <1>3 DEF Busy, Executing
<1>5. GroupInv(w)'
  <2>1. GroupInv(w)
    BY DEF ExecInv
  <2>2. TodoInv(w)'
    BY <1>1, <1>3, <2>1 DEF GroupInv, TodoInv
  <2>3. InflightInv(w)'
    <3>1. UNCHANGED << fworker, runStep >>
      BY DEF StopLoop, BlockForShutdown, HandoffFails, fiberVars, dbVars, runVars
    <3>2. QED
      BY <1>3, <1>4, <2>1, <3>1 DEF GroupInv, InflightInv
  <2>4. SnapshotInv(w)'
    <3>1. UNCHANGED runStep
      BY DEF StopLoop, BlockForShutdown, HandoffFails, dbVars, runVars
    <3>2. QED
      BY <1>3, <1>4, <2>1, <3>1 DEF GroupInv, SnapshotInv
  <2>5. QED
    BY <2>2, <2>3, <2>4 DEF GroupInv
<1>6. ASSUME NEW s \in Steps, AtWork(w, StepTask[s]) PROVE OwnerInv(w, s)'
  <2>1. /\ stepStatus[s] # "running" /\ (stepStatus[s] = "pending" => s \in snapshot[w])
        /\ wpc[w] = "loop" => Passed(s)
    BY <1>1, <1>6 DEF ExecInv, StepInv, Executing
  <2>2. QED
    BY <1>3, <1>4, <2>1 DEF OwnerInv, Passed
<1>7. QED
  BY <1>1, <1>2, <1>3, <1>4, <1>5, <1>6, NoFibersOutsideGroup, QuietStep

LEMMA ClaimExec ==
  ASSUME IInv, OwnedInv, ExecInv, [Next]_vars, NEW w \in Workers, WorkerStep(w),
         NEW t \in Tasks, ClaimNextTask(w, t)
  PROVE  ExecInv'
<1>1. /\ wpc[w] = "idle" /\ wpc'[w] = "claimed" /\ wtask'[w] = t
      /\ taskStatus[t] = "queued" /\ taskStatus'[t] = "running" /\ claimedBy'[t] = w
      /\ \A u \in Tasks \ {t} : taskStatus'[u] = taskStatus[u] /\ claimedBy'[u] = claimedBy[u]
      /\ UNCHANGED << todo, inflight, snapshot, stepStatus, fpc >>
  BY DEF ClaimNextTask, claimNextTask, NextToClaim, IInv, TypeOK, ProcTypeOK, DbTypeOK,
     fiberVars, stepVars
<1>2. ~ Busy(w)
  BY <1>1 DEF Busy, Executing
<1>3. \A v \in Workers \ {w} : ~ AtWork(v, t)'
  <2>1. \A v \in Workers : ~ AtWork(v, t)
    BY <1>1, OneAtWork
  <2>2. QED
    BY <2>1, WorkerFrame DEF AtWork, Busy
<1>4. GroupInv(w)'
  BY <1>1, <1>2, IdleWorker DEF GroupInv, TodoInv, InflightInv, SnapshotInv
<1>5. ASSUME NEW q \in RunIds PROVE FiberInv(q)'
  BY <1>1, FibersOfOthers
<1>6. ASSUME NEW s \in Steps PROVE StepInv(s)'
  <2>1. CASE StepTask[s] = t
    <3>1. StepInv(s) /\ stepRun' = stepRun
      BY WorkerFrame DEF ExecInv
    <3>2. Ready(s) /\ Ready(s)'
      BY <1>1, <2>1, <3>1 DEF StepInv, Ready
    <3>3. stepStatus[s] = "succeeded" => runStatus'[stepRun[s]] = "succeeded"
      <4>1. stepRun[s] # NoRun => stepRun[s] \in RunIds
        BY DEF IInv, TypeOK, DbTypeOK
      <4>2. QED
        BY <3>1, <4>1, SuccessStays DEF StepInv
    <3>4. QED
      BY <1>1, <1>3, <2>1, <3>1, <3>2, <3>3 DEF StepInv, Executing
  <2>2. CASE StepTask[s] # t
    BY <1>1, <2>2, ForeignStepInv, StepAssumption DEF AtWork
  <2>3. QED
    BY <2>1, <2>2
<1>7. QED
  BY <1>4, <1>5, <1>6, OtherWorkersGroup DEF ExecInv

LEMMA JoinGroupExec ==
  ASSUME IInv, OwnedInv, ExecInv, [Next]_vars, NEW w \in Workers, WorkerStep(w), JoinGroup(w)
  PROVE  ExecInv'
<1>1. /\ wpc[w] = "group" /\ wpc'[w] \in {"shutdown", "blocking", "loop"}
      /\ wpc'[w] = "loop" => ~ RequiredFailure(w)
      /\ UNCHANGED << wtask, todo, inflight, snapshot, taskStatus, claimedBy, stepStatus, fpc >>
      /\ UNCHANGED << fworker, runStep >>
  BY DEF JoinGroup, IInv, TypeOK, ProcTypeOK, fiberVars, dbVars, taskVars, stepVars, runVars
<1>2. Busy(w) /\ Busy(w)' /\ wpc'[w] \in Executing \ {"finalize", "group"}
  BY <1>1 DEF Busy, Executing
<1>3. GroupInv(w)
  BY DEF ExecInv
<1>4. todo[w] = {} /\ \A r \in inflight[w] : fpc[r] \in {"succeeded", "failed"}
  BY <1>3 DEF JoinGroup, GroupSettled, GroupInv, TodoInv
<1>5. \A r \in RunIds : Underway(r) => fworker[r] # w
  BY <1>4, UnderwayInGroup DEF Underway, InTry, InCatch
<1>6. GroupInv(w)'
  BY <1>1, <1>2, <1>3, <1>4 DEF GroupInv, TodoInv, InflightInv, SnapshotInv
<1>7. ASSUME NEW s \in Steps, AtWork(w, StepTask[s]) PROVE OwnerInv(w, s)'
  <2>1. InGroup(w, s)
    BY <1>1, <1>7 DEF ExecInv, StepInv
  <2>2. stepStatus[s] # "running" /\ (stepStatus[s] = "pending" => s \in snapshot[w])
    BY <1>4, <2>1 DEF InGroup, Underway, InTry, InCatch
  <2>3. RequiredFailure(w) \/ Passed(s)
    BY <2>1 DEF InGroup, RequiredFailure, Passed
  <2>4. QED
    BY <1>1, <1>2, <2>2, <2>3 DEF OwnerInv, Passed
<1>8. QED
  BY <1>1, <1>2, <1>5, <1>6, <1>7, QuietStep

\* executeTask ends with its last write about the task.
LEMMA SettleTaskExec ==
  ASSUME IInv, OwnedInv, ExecInv, [Next]_vars, NEW w \in Workers, WorkerStep(w),
         wpc[w] \in {"blocking", "finalize"}, LeaveTask(w), UNCHANGED << fpc, stepStatus >>,
         NEW status, ReleaseTask(wtask[w], status),
         \/ wpc[w] = "blocking" /\ status = "blocked"
         \/ wpc[w] = "finalize" /\ status \in {"done", "needs-review"}
  PROVE  ExecInv'
<1> DEFINE t == wtask[w]
<1>1. Owns(w, t) /\ t \in Tasks /\ Busy(w) /\ wpc[w] \in Executing
  BY DEF OwnedInv, Claimed, Busy, Executing, IInv, WorkerHasTask
<1>2. /\ taskStatus'[t] = status /\ claimedBy'[t] = NoWorker
      /\ \A u \in Tasks \ {t} : taskStatus'[u] = taskStatus[u] /\ claimedBy'[u] = claimedBy[u]
  BY <1>1 DEF ReleaseTask, IInv, TypeOK, DbTypeOK
<1>3. GroupInv(w)
  BY DEF ExecInv
<1>4. todo[w] = {}
  BY <1>3 DEF GroupInv, TodoInv
<1>5. wpc'[w] = "idle" /\ todo'[w] = {} /\ inflight'[w] = {} /\ snapshot'[w] = {}
  BY <1>4 DEF LeaveTask, LeaveTaskWithout, IInv, TypeOK, ProcTypeOK
<1>6. ~ Busy(w)' /\ GroupInv(w)'
  BY <1>5 DEF Busy, Executing, GroupInv, TodoInv, InflightInv, SnapshotInv
<1>7. ASSUME NEW q \in RunIds PROVE FiberInv(q)'
  BY FibersOfOthers
<1>8. ASSUME NEW s \in Steps PROVE StepInv(s)'
  <2>1. CASE StepTask[s] = t
    <3>1. StepInv(s) /\ stepRun' = stepRun
      BY WorkerFrame DEF ExecInv
    <3>2. /\ stepStatus[s] # "running" /\ (stepStatus[s] = "pending" => s \in snapshot[w])
          /\ wpc[w] = "finalize" => Passed(s)
      BY <1>1, <2>1, <3>1 DEF StepInv, AtWork, Executing
    <3>3. wpc[w] = "finalize" => stepStatus[s] # "pending"
      BY <1>3, <3>2 DEF GroupInv, SnapshotInv
    <3>4. wpc[w] = "finalize" => Closed(s)' /\ Passed(s)'
      BY <3>2, <3>3 DEF Closed, Passed, IInv, TypeOK, DbTypeOK, RouteStepStatus
    <3>5. stepStatus[s] = "succeeded" => runStatus'[stepRun[s]] = "succeeded"
      <4>1. stepRun[s] # NoRun => stepRun[s] \in RunIds
        BY DEF IInv, TypeOK, DbTypeOK
      <4>2. QED
        BY <3>1, <4>1, SuccessStays DEF StepInv
    <3>6. \A v \in Workers : ~ AtWork(v, StepTask[s])'
      <4>1. \A v \in Workers \ {w} : ~ AtWork(v, t)
        BY <1>1, OneAtWork DEF AtWork
      <4>2. QED
        BY <1>6, <2>1, <4>1, WorkerFrame DEF AtWork, Busy
    <3>7. QED
      BY <1>2, <2>1, <3>1, <3>2, <3>4, <3>5, <3>6 DEF StepInv
  <2>2. CASE StepTask[s] # t
    <3>1. StepTask[s] \in Tasks /\ ~ AtWork(w, StepTask[s])'
      BY <1>6, StepAssumption DEF AtWork
    <3>2. QED
      BY <1>2, <2>2, <3>1, ForeignStepInv
  <2>3. QED
    BY <2>1, <2>2
<1>9. QED
  BY <1>6, <1>7, <1>8, OtherWorkersGroup DEF ExecInv

\* A fiber without a run takes a step of its worker's task.
LEMMA TodoOwned ==
  ASSUME IInv, OwnedInv, ExecInv, NEW w \in Workers, NEW f \in todo[w]
  PROVE  \E s \in Steps : /\ f = <<s, TRUE>> /\ f[1] = s /\ f[2] = TRUE
                         /\ StepTask[s] = wtask[w] /\ Owns(w, wtask[w]) /\ wpc[w] = "group"
                         /\ AtWork(w, wtask[w])
<1>1. PICK s \in Steps, b \in BOOLEAN : f = <<s, b>>
  BY DEF IInv, TypeOK, ProcTypeOK
<1>2. f[1] = s /\ f[2] = b
  BY <1>1
<1>3. wpc[w] = "group" /\ f[2] = TRUE /\ StepTask[f[1]] = wtask[w]
  BY DEF ExecInv, GroupInv, TodoInv
<1>4. Owns(w, wtask[w]) /\ AtWork(w, wtask[w])
  BY <1>3 DEF OwnedInv, Claimed, AtWork, Busy, Executing
<1>5. QED
  BY <1>1, <1>2, <1>3, <1>4

LEMMA UnavailableStepExec ==
  ASSUME IInv, OwnedInv, ExecInv, [Next]_vars, NEW w \in Workers, WorkerStep(w),
         NEW f \in todo[w], UnavailableStep(w, f)
  PROVE  ExecInv'
<1>1. PICK s \in Steps : /\ f = <<s, TRUE>> /\ f[1] = s /\ f[2] = TRUE
                        /\ AtWork(w, StepTask[s]) /\ StepTask[s] = wtask[w] /\ wpc[w] = "group"
  BY TodoOwned
<1>2. /\ UNCHANGED << taskStatus, claimedBy, wpc, wtask, snapshot, inflight, fpc, fworker, runStep >>
      /\ UNCHANGED << result, runStatus, stepRun >>
      /\ todo'[w] = todo[w] \ {f}
      /\ stepStatus'[s] = IF StepRequired[s] THEN "failed" ELSE "skipped"
      /\ \A u \in Steps \ {s} : stepStatus'[u] = stepStatus[u]
      /\ refused'[w] = (refused[w] \/ (f[2] /\ StepRequired[s]))
  BY <1>1, WorkerFrame DEF UnavailableStep, updateRouteStep, IInv, TypeOK, ProcTypeOK, DbTypeOK,
     taskVars, runVars, fiberVars
<1>3. ASSUME NEW v \in Workers PROVE GroupInv(v)'
  <2>1. GroupInv(v)
    BY DEF ExecInv
  <2>2. CASE v = w
    BY <1>2, <2>1, <2>2 DEF GroupInv, TodoInv, InflightInv, SnapshotInv
  <2>3. QED
    BY <2>2, OtherWorkersGroup
<1>4. ASSUME NEW q \in RunIds PROVE FiberInv(q)'
  BY <1>2, FiberInvKept DEF ExecInv, FiberInv
<1>5. ASSUME NEW u \in Steps PROVE StepInv(u)'
  <2>1. StepInv(u)
    BY DEF ExecInv
  <2>2. CASE u = s
    <3>1. InGroup(w, s)'
      BY <1>1, <1>2 DEF InGroup, Passed
    <3>2. stepStatus'[s] = "skipped" => ~ StepRequired[s]
      BY <1>2
    <3>3. taskStatus'[StepTask[s]] = "running" /\ \A v \in Workers : AtWork(v, StepTask[s])' => v = w
      BY <1>1, <1>2, OneAtWork DEF AtWork, Busy
    <3>4. QED
      BY <1>1, <1>2, <2>2, <3>1, <3>2, <3>3 DEF StepInv, Executing
  <2>3. CASE u # s /\ AtWork(w, StepTask[u])
    <3>1. InGroup(w, u)
      BY <1>1, <2>1, <2>3 DEF StepInv
    <3>2. <<u, TRUE>> # f
      BY <1>1, <2>3
    <3>3. InGroup(w, u)'
      BY <1>2, <2>3, <3>1, <3>2, InGroupKept
    <3>4. QED
      BY <1>1, <1>2, <2>3, <3>3, OwnStepInv DEF Executing
  <2>4. CASE u # s /\ ~ AtWork(w, StepTask[u])
    BY <1>2, <2>4, ForeignStepInv DEF AtWork, Busy
  <2>5. QED
    BY <2>2, <2>3, <2>4
<1>6. QED
  BY <1>3, <1>4, <1>5 DEF ExecInv

LEMMA CreateRunExec ==
  ASSUME IInv, OwnedInv, ExecInv, [Next]_vars, NEW w \in Workers, WorkerStep(w),
         NEW f \in todo[w], NEW r \in RunIds, CreateRun(w, f, r)
  PROVE  ExecInv'
<1>1. PICK s \in Steps : /\ f = <<s, TRUE>> /\ f[1] = s /\ f[2] = TRUE
                        /\ AtWork(w, StepTask[s]) /\ StepTask[s] = wtask[w] /\ wpc[w] = "group"
  BY TodoOwned
<1>2. /\ UNCHANGED << taskStatus, claimedBy, wpc, wtask, snapshot, refused, stepStatus, stepRun >>
      /\ todo'[w] = todo[w] \ {f} /\ inflight'[w] = inflight[w] \cup {r}
      /\ fpc[r] = "none" /\ fpc'[r] = "created" /\ fworker'[r] = w
      /\ runStep'[r] = s /\ runStatus'[r] = "queued"
  BY <1>1 DEF CreateRun, createRun, NextRunId, IInv, TypeOK, ProcTypeOK, DbTypeOK,
     EvidenceInOrder, taskVars, stepVars
<1>3. inflight[w] \subseteq RunIds /\ r \notin inflight[w]
  BY <1>2 DEF ExecInv, GroupInv, InflightInv, IInv, TypeOK, ProcTypeOK
<1>4. \A q \in inflight[w] : /\ q # r /\ fpc'[q] = fpc[q] /\ fpc[q] \notin {"none", "dead"}
                            /\ fworker'[q] = fworker[q] /\ runStep'[q] = runStep[q]
  BY <1>3, WorkerFrame DEF ExecInv, GroupInv, InflightInv
<1>5. ASSUME NEW v \in Workers PROVE GroupInv(v)'
  <2>1. GroupInv(v)
    BY DEF ExecInv
  <2>2. CASE v = w
    <3>1. TodoInv(w)'
      BY <1>2, <2>1, <2>2 DEF GroupInv, TodoInv
    <3>2. \A q \in inflight[w] : runStep[q] # s
      BY <1>1, <2>1, <2>2 DEF GroupInv, InflightInv
    <3>3. InflightInv(w)'
      <4>1. ASSUME NEW q \in inflight[w]
            PROVE  /\ wpc'[w] \in Executing /\ fworker'[q] = w /\ fpc'[q] \notin {"none", "dead"}
                   /\ StepTask[runStep'[q]] = wtask'[w] /\ <<runStep'[q], TRUE>> \notin todo'[w]
                   /\ \A p \in inflight'[w] : runStep'[p] = runStep'[q] => p = q
        <5>1. /\ wpc[w] \in Executing /\ fworker[q] = w /\ StepTask[runStep[q]] = wtask[w]
              /\ <<runStep[q], TRUE>> \notin todo[w]
              /\ \A p \in inflight[w] : runStep[p] = runStep[q] => p = q
          BY <2>1, <2>2 DEF GroupInv, InflightInv
        <5>2. \A p \in inflight'[w] : runStep'[p] = runStep'[q] => p = q
          BY <1>2, <1>4, <3>2, <5>1
        <5>3. <<runStep'[q], TRUE>> \notin todo'[w]
          BY <1>2, <1>4, <5>1
        <5>4. QED
          BY <1>2, <1>4, <5>1, <5>2, <5>3
      <4>2. /\ wpc'[w] \in Executing /\ fworker'[r] = w /\ fpc'[r] \notin {"none", "dead"}
            /\ StepTask[runStep'[r]] = wtask'[w] /\ <<runStep'[r], TRUE>> \notin todo'[w]
            /\ \A p \in inflight'[w] : runStep'[p] = runStep'[r] => p = r
        BY <1>1, <1>2, <1>4, <3>2 DEF Executing
      <4>3. QED
        BY <1>2, <4>1, <4>2 DEF InflightInv
    <3>4. SnapshotInv(w)'
      <4>1. \A u \in snapshot[w] : u # s
        BY <1>1, <2>1, <2>2 DEF GroupInv, SnapshotInv
      <4>2. \A u \in snapshot[w] : \A q \in inflight'[w] : runStep'[q] # u
        <5>1. \A u \in snapshot[w] : \A q \in inflight[w] : runStep[q] # u
          BY <2>1, <2>2 DEF GroupInv, SnapshotInv
        <5>2. QED
          BY <1>2, <1>4, <4>1, <5>1
      <4>3. QED
        BY <1>2, <2>1, <2>2, <4>2 DEF GroupInv, SnapshotInv
    <3>5. QED
      BY <2>2, <3>1, <3>3, <3>4 DEF GroupInv
  <2>3. QED
    BY <2>2, OtherWorkersGroup
<1>6. ASSUME NEW q \in RunIds PROVE FiberInv(q)'
  <2>1. CASE q = r
    BY <1>1, <1>2, <2>1 DEF FiberInv, Collected
  <2>2. CASE q # r
    <3>1. /\ fpc'[q] = fpc[q] /\ result'[q] = result[q] /\ fworker'[q] = fworker[q]
          /\ runStep'[q] = runStep[q] /\ runStatus'[q] = runStatus[q]
      BY <2>2 DEF CreateRun, createRun, IInv, TypeOK, ProcTypeOK, DbTypeOK
    <3>2. Underway(q) => wpc'[fworker'[q]] = "group" /\ q \in inflight'[fworker'[q]]
      <4>1. Underway(q) => fworker[q] \in Workers /\ wpc[fworker[q]] = "group" /\ q \in inflight[fworker[q]]
        BY UnderwayInGroup
      <4>2. \A v \in Workers : inflight[v] \subseteq inflight'[v]
        BY <1>2, WorkerFrame
      <4>3. QED
        BY <1>2, <3>1, <4>1, <4>2
    <3>3. QED
      BY <1>2, <3>1, <3>2, FiberInvKept DEF ExecInv
  <2>3. QED
    BY <2>1, <2>2
<1>7. ASSUME NEW u \in Steps PROVE StepInv(u)'
  <2>1. StepInv(u)
    BY DEF ExecInv
  <2>2. CASE AtWork(w, StepTask[u])
    <3>1. InGroup(w, u)
      BY <1>1, <2>1, <2>2 DEF StepInv
    <3>2. InGroup(w, u)'
      <4>1. CASE u = s
        <5>1. stepStatus[u] = "running" => \E q \in inflight[w] : runStep[q] = s
          BY <3>1, <4>1 DEF InGroup
        <5>2. stepStatus[u] # "running"
          BY <1>1, <5>1 DEF ExecInv, GroupInv, InflightInv
        <5>3. Passed(u)' = Passed(u)
          BY <1>2 DEF Passed
        <5>4. r \in inflight'[w] /\ runStep'[r] = u /\ fpc'[r] = "created"
          BY <1>2, <4>1
        <5>5. Passed(u) \/ refused[w] \/ \E q \in inflight'[w] : runStep'[q] = u /\ fpc'[q] = "failed"
          BY <1>2, <1>4, <3>1 DEF InGroup
        <5>6. QED
          BY <1>2, <5>2, <5>3, <5>4, <5>5 DEF InGroup
      <4>2. CASE u # s
        <5>1. <<u, TRUE>> # f
          BY <1>1, <4>2
        <5>2. QED
          BY <1>2, <1>4, <3>1, <5>1, InGroupKept
      <4>3. QED
        BY <4>1, <4>2
    <3>3. QED
      BY <1>1, <1>2, <2>2, <3>2, OwnStepInv DEF Executing
  <2>3. CASE ~ AtWork(w, StepTask[u])
    BY <1>2, <2>3, ForeignStepInv DEF AtWork, Busy
  <2>4. QED
    BY <2>2, <2>3
<1>8. QED
  BY <1>5, <1>6, <1>7 DEF ExecInv

\* A worker's step keeps the invariant.
LEMMA WorkerExec ==
  ASSUME IInv, OwnedInv, ExecInv, [Next]_vars, NEW w \in Workers, WorkerStep(w)
  PROVE  ExecInv'
<1>1. CASE BlockTask(w) \/ FinalizeTask(w)
  <2>1. Owns(w, wtask[w]) /\ LeaveTask(w) /\ UNCHANGED fpc
    BY <1>1 DEF BlockTask, FinalizeTask, OwnedInv, Claimed, Busy, Executing, fiberVars
  <2>2. CASE BlockTask(w)
    <3>1. wpc[w] = "blocking" /\ ReleaseTask(wtask[w], "blocked") /\ UNCHANGED stepStatus
      BY <2>1, <2>2 DEF BlockTask, updateTaskStatus, Owns, TaskTransitionAllowed,
         TASK_TRANSITIONS, TaskStatus, stepVars
    <3>2. QED
      BY <2>1, <3>1, SettleTaskExec
  <2>3. CASE FinalizeTask(w)
    <3>1. wpc[w] = "finalize" /\ UNCHANGED stepStatus
          /\ (ReleaseTask(wtask[w], "done") \/ ReleaseTask(wtask[w], "needs-review"))
      BY <2>1, <2>3 DEF FinalizeTask, finalizeDone, finalizeNeedsReview, Owns, stepVars
    <3>2. QED
      BY <2>1, <3>1, SettleTaskExec
  <2>4. QED
    BY <1>1, <2>2, <2>3
<1>2. ~ ExecuteTaskRefused(w)
  BY DEF ExecuteTaskRefused, OwnedInv, Claimed, Busy
<1>3. QED
  BY <1>1, <1>2, BeginLoopExec, ClaimExec, ExecuteTaskExec, StartGroupExec, JoinGroupExec,
     LeaveLoopExec, UnavailableStepExec, CreateRunExec DEF WorkerStep

\* Nothing that the invariant is about changes.
LEMMA ExecInvKept ==
  ASSUME IInv, ExecInv, [Next]_vars,
         UNCHANGED << taskStatus, stepStatus, stepRun, runStatus, runStep >>,
         UNCHANGED << wpc, wtask, snapshot, todo, inflight, refused, fpc, fworker, result >>
  PROVE  ExecInv'
<1>1. ASSUME NEW v \in Workers PROVE GroupInv(v)'
  <2>1. GroupInv(v)
    BY DEF ExecInv
  <2>2. \A r \in inflight[v] : fpc'[r] \notin {"none", "dead"}
    BY <2>1 DEF GroupInv, InflightInv
  <2>3. QED
    BY <2>1, <2>2, GroupInvKept
<1>2. \A q \in RunIds : FiberInv(q)'
  BY DEF ExecInv, FiberInv, Underway
<1>3. ASSUME NEW s \in Steps PROVE StepInv(s)'
  <2>1. \A v \in Workers : InGroup(v, s) => InGroup(v, s)'
    BY InGroupKept
  <2>2. QED
    BY <2>1, StepInvKept DEF ExecInv, AtWork, Busy
<1>4. QED
  BY <1>1, <1>2, <1>3 DEF ExecInv

\* The recovery blocks tasks that no worker works on.
LEMMA RecoverExec ==
  ASSUME IInv, OwnedInv, ExecInv, [Next]_vars, NEW T \in SUBSET Tasks, NEW note, recoverRunningTasks(T, note),
         \A t \in T : taskStatus[t] = "running" /\ \A v \in Workers : ~ AtWork(v, t),
         \A v \in Workers : wpc'[v] = wpc[v] \/ (wpc[v] = "off" /\ wpc'[v] = "recovering"),
         UNCHANGED << wtask, snapshot, todo, inflight, refused, fpc, fworker, result >>
  PROVE  ExecInv'
<1>1. /\ UNCHANGED << runStep, stepRun >>
      /\ \A t \in T : taskStatus'[t] = "blocked" /\ claimedBy'[t] = NoWorker
      /\ \A t \in Tasks \ T : taskStatus'[t] = taskStatus[t] /\ claimedBy'[t] = claimedBy[t]
  BY DEF recoverRunningTasks
<1>2. ASSUME NEW v \in Workers PROVE GroupInv(v)' /\ (Busy(v)' => Busy(v) /\ wpc'[v] = wpc[v])
  <2>1. GroupInv(v)
    BY DEF ExecInv
  <2>2. GroupInv(v)'
    BY <1>1, <2>1 DEF GroupInv, TodoInv, InflightInv, SnapshotInv, Executing
  <2>3. QED
    BY <2>2 DEF Busy, Executing
<1>3. ASSUME NEW q \in RunIds PROVE FiberInv(q)'
  <2>1. FiberInv(q)
    BY DEF ExecInv
  <2>2. CASE Underway(q)
    <3>1. /\ fworker[q] \in Workers /\ wpc[fworker[q]] = "group" /\ q \in inflight[fworker[q]]
          /\ AtWork(fworker[q], StepTask[runStep[q]])
      BY <2>2, UnderwayInGroup
    <3>2. q \notin ActiveRunsOf(T)
      BY <3>1 DEF ActiveRunsOf
    <3>3. runStatus'[q] = runStatus[q]
      BY <3>2 DEF recoverRunningTasks
    <3>4. wpc'[fworker[q]] = "group"
      BY <3>1
    <3>5. QED
      BY <1>1, <2>1, <3>1, <3>3, <3>4, FiberInvKept
  <2>3. CASE ~ Underway(q)
    BY <2>3 DEF FiberInv, Underway, InTry, InCatch, Collected
  <2>4. QED
    BY <2>2, <2>3
<1>4. ASSUME NEW s \in Steps PROVE StepInv(s)'
  <2>1. StepInv(s) /\ StepTask[s] \in Tasks
    BY StepAssumption DEF ExecInv
  <2>2. CASE StepTask[s] \in T
    <3>1. /\ stepStatus'[s] # "running" /\ taskStatus'[StepTask[s]] = "blocked"
          /\ stepStatus'[s] \in {"succeeded", "skipped"} => stepStatus'[s] = stepStatus[s]
      BY <1>1, <2>2 DEF recoverRunningTasks
    <3>2. \A v \in Workers : ~ AtWork(v, StepTask[s])'
      BY <1>2, <2>2 DEF AtWork
    <3>3. stepStatus[s] = "succeeded" => runStatus'[stepRun[s]] = "succeeded"
      <4>1. stepRun[s] # NoRun => stepRun[s] \in RunIds
        BY DEF IInv, TypeOK, DbTypeOK
      <4>2. QED
        BY <2>1, <4>1, SuccessStays DEF StepInv
    <3>4. QED
      BY <1>1, <2>1, <3>1, <3>2, <3>3 DEF StepInv
  <2>3. CASE StepTask[s] \notin T
    <3>1. stepStatus'[s] = stepStatus[s]
      BY <2>3 DEF recoverRunningTasks
    <3>2. \A v \in Workers : InGroup(v, s) => InGroup(v, s)'
      BY <1>1, <3>1, InGroupKept
    <3>3. \A v \in Workers : AtWork(v, StepTask[s])' => AtWork(v, StepTask[s]) /\ wpc'[v] = wpc[v]
      BY <1>2 DEF AtWork
    <3>4. QED
      BY <1>1, <2>1, <2>3, <3>1, <3>2, <3>3, StepInvKept
  <2>4. QED
    BY <2>2, <2>3
<1>5. QED
  BY <1>2, <1>3, <1>4 DEF ExecInv

\* A worker gives up its task together with all fibers it has under way, and
\* leaves the task to the recovery.
Abandons(w) ==
  /\ UNCHANGED << taskStatus, stepStatus, stepRun, runStatus, runStep, fworker >>
  /\ wpc'[w] \in {"idle", "dead"} /\ todo'[w] = {} /\ inflight'[w] = {} /\ snapshot'[w] = {}
  /\ \A v \in Workers \ {w} :
       /\ wpc'[v] = wpc[v] /\ wtask'[v] = wtask[v] /\ snapshot'[v] = snapshot[v]
       /\ todo'[v] = todo[v] /\ inflight'[v] = inflight[v] /\ refused'[v] = refused[v]
  /\ \A q \in RunIds : Underway(q) /\ fworker[q] = w => fpc'[q] = "dead"
  /\ \A q \in RunIds : ~ (Underway(q) /\ fworker[q] = w) => fpc'[q] = fpc[q] /\ result'[q] = result[q]

LEMMA AbandonExec ==
  ASSUME IInv, OwnedInv, ExecInv, [Next]_vars, NEW w \in Workers, Abandons(w)
  PROVE  ExecInv'
<1>1. /\ UNCHANGED << taskStatus, stepStatus, stepRun, runStatus, runStep, fworker >>
      /\ wpc'[w] \in {"idle", "dead"} /\ todo'[w] = {} /\ inflight'[w] = {} /\ snapshot'[w] = {}
      /\ \A v \in Workers \ {w} :
           /\ wpc'[v] = wpc[v] /\ wtask'[v] = wtask[v] /\ snapshot'[v] = snapshot[v]
           /\ todo'[v] = todo[v] /\ inflight'[v] = inflight[v] /\ refused'[v] = refused[v]
  BY DEF Abandons
<1>2. /\ \A q \in RunIds : Underway(q) /\ fworker[q] = w => fpc'[q] = "dead"
      /\ \A q \in RunIds : ~ (Underway(q) /\ fworker[q] = w) => fpc'[q] = fpc[q] /\ result'[q] = result[q]
  BY DEF Abandons
<1>3. ASSUME NEW v \in Workers \ {w}
      PROVE  \A q \in inflight[v] : q \in RunIds /\ fworker[q] = v /\ fpc'[q] = fpc[q]
                                   /\ fpc[q] \notin {"none", "dead"}
  <2>1. GroupInv(v) /\ inflight[v] \subseteq RunIds
    BY DEF ExecInv, IInv, TypeOK, ProcTypeOK
  <2>2. QED
    BY <1>2, <2>1 DEF GroupInv, InflightInv
<1>4. ASSUME NEW v \in Workers PROVE GroupInv(v)'
  <2>1. GroupInv(v)
    BY DEF ExecInv
  <2>2. CASE v = w
    BY <1>1, <2>2 DEF GroupInv, TodoInv, InflightInv, SnapshotInv
  <2>3. CASE v # w
    BY <1>1, <1>3, <2>1, <2>3, GroupInvKept
  <2>4. QED
    BY <2>2, <2>3
<1>5. ASSUME NEW q \in RunIds PROVE FiberInv(q)'
  <2>1. FiberInv(q)
    BY DEF ExecInv
  <2>2. CASE Underway(q) /\ fworker[q] = w
    BY <1>2, <2>2 DEF FiberInv, Underway, InTry, InCatch, Collected
  <2>3. CASE ~ (Underway(q) /\ fworker[q] = w)
    <3>1. Underway(q) => /\ fworker[q] \in Workers \ {w}
                         /\ wpc[fworker[q]] = "group" /\ q \in inflight[fworker[q]]
      BY <2>3, UnderwayInGroup
    <3>2. QED
      BY <1>1, <1>2, <2>1, <2>3, <3>1, FiberInvKept
  <2>4. QED
    BY <2>2, <2>3
<1>6. ASSUME NEW s \in Steps PROVE StepInv(s)'
  <2>1. StepInv(s)
    BY DEF ExecInv
  <2>2. ASSUME NEW v \in Workers, AtWork(v, StepTask[s])' PROVE v # w /\ AtWork(v, StepTask[s])
    BY <1>1, <2>2 DEF AtWork, Busy, Executing
  <2>3. ASSUME NEW v \in Workers, v # w, InGroup(v, s) PROVE InGroup(v, s)'
    BY <1>1, <1>3, <2>3, InGroupKept
  <2>4. QED
    BY <1>1, <2>1, <2>2, <2>3, StepInvKept
<1>7. QED
  BY <1>4, <1>5, <1>6 DEF ExecInv

\* Steps one by one: the worker has one fiber at a time.
Lone(w) ==
  /\ \A r, q \in inflight[w] : r = q
  /\ \A f, g \in todo[w] : f = g
  /\ todo[w] # {} => inflight[w] = {}
  /\ refused[w] => todo[w] = {} /\ inflight[w] = {}

LoneInv == \A w \in Workers : wtask[w] \notin ParallelTasks => Lone(w)

\* What does not add to the fibers of a worker leaves them few.
LEMMA LoneKept ==
  ASSUME NEW w \in Workers, Lone(w), todo'[w] \subseteq todo[w], inflight'[w] \subseteq inflight[w],
         refused'[w] => refused[w]
  PROVE  Lone(w)'
BY DEF Lone

\* A database error of the worker w, or of one of its fibers, that rejects its
\* executeTask.
Rejects(w) ==
  \/ WorkerThrows(w) \/ ClosingThrows(w)
  \/ \E f \in todo[w] : OpeningThrows(w, f)
  \/ \E r \in RunIds : StepThrows(r) /\ fworker[r] = w

\* There is none without faults.
LEMMA RejectionIsFault ==
  ASSUME IInv, NEW w \in Workers, Rejects(w)
  PROVE  MaxFaults # 0
<1>1. faults < MaxFaults
  BY DEF Rejects, WorkerThrows, ClosingThrows, OpeningThrows, StepThrows
<1>2. QED
  BY <1>1 DEF IInv, TypeOK, ProcTypeOK

\* It ends the one fiber of a worker that has no other, and leaves the rest of
\* the process.
LEMMA RejectionAbandons ==
  ASSUME IInv, OwnedInv, ExecInv, LoneInv, ParallelTasks = {}, NEW w \in Workers, Rejects(w)
  PROVE  /\ Abandons(w) /\ Busy(w) /\ UNCHANGED << dbVars, ftree, alive >>
         /\ \A v \in Workers \ {w} : wtree'[v] = wtree[v]
         /\ \A q \in RunIds : Underway(q) /\ fworker[q] = w =>
              fpc[q] \in {"created", "stepped", "starting", "catchUpdate", "catchStep"}
<1> DEFINE Goal == /\ Abandons(w) /\ Busy(w) /\ UNCHANGED << dbVars, ftree, alive >>
                   /\ \A v \in Workers \ {w} : wtree'[v] = wtree[v]
                   /\ \A q \in RunIds : Underway(q) /\ fworker[q] = w =>
                        fpc[q] \in {"created", "stepped", "starting", "catchUpdate", "catchStep"}
<1>1. GroupInv(w) /\ Lone(w)
  BY DEF ExecInv, LoneInv
<1>2. ASSUME NEW thrown, LeaveTaskWithout(w, thrown), todo[w] \subseteq thrown, Busy(w),
             \A q \in RunIds : Underway(q) => fworker[q] # w,
             UNCHANGED << dbVars, fiberVars, alive >>
      PROVE  Goal
  <2>1. Abandons(w) /\ \A v \in Workers \ {w} : wtree'[v] = wtree[v]
    BY <1>2 DEF Abandons, LeaveTaskWithout, dbVars, taskVars, stepVars, runVars, fiberVars,
       IInv, TypeOK, ProcTypeOK
  <2>2. QED
    BY <1>2, <2>1 DEF fiberVars
<1>3. CASE WorkerThrows(w)
  <2>1. wpc[w] # "group" /\ Busy(w) /\ todo[w] = {}
    BY <1>1, <1>3 DEF WorkerThrows, Busy, Executing, GroupInv, TodoInv
  <2>2. \A q \in RunIds : Underway(q) => fworker[q] # w
    BY <2>1, NoFibersOutsideGroup
  <2>3. LeaveTask(w) /\ UNCHANGED << dbVars, fiberVars, alive >>
    BY <1>3 DEF WorkerThrows, worldVars
  <2>4. QED
    BY <1>2, <2>1, <2>2, <2>3 DEF LeaveTask
<1>4. CASE ClosingThrows(w)
  <2>1. Busy(w) /\ LeaveTask(w) /\ UNCHANGED << dbVars, fiberVars, alive >>
    BY <1>4 DEF ClosingThrows, Busy, Executing, worldVars
  <2>2. todo[w] = {} /\ \A q \in inflight[w] : fpc[q] = "failed"
    BY <1>1, <1>4 DEF ClosingThrows, Lone
  <2>3. \A q \in RunIds : Underway(q) => fworker[q] # w
    <3>1. \A q \in RunIds : Underway(q) => fpc[q] # "failed"
      BY DEF Underway, InTry, InCatch
    <3>2. QED
      BY <2>2, <3>1, UnderwayInGroup
  <2>4. QED
    BY <1>2, <2>1, <2>2, <2>3 DEF LeaveTask
<1>5. ASSUME NEW f \in todo[w], OpeningThrows(w, f) PROVE Goal
  <2>1. f[2] /\ Busy(w) /\ todo[w] = {f} /\ inflight[w] = {}
    BY <1>1 DEF GroupInv, TodoInv, Lone, Busy, Executing
  <2>2. LeaveTaskWithout(w, {f}) /\ UNCHANGED << dbVars, fiberVars, alive >>
    BY <1>5, <2>1 DEF OpeningThrows, worldVars
  <2>3. \A q \in RunIds : Underway(q) => fworker[q] # w
    BY <2>1, UnderwayInGroup
  <2>4. QED
    BY <1>2, <2>1, <2>2, <2>3
<1>6. ASSUME NEW r \in RunIds, StepThrows(r), fworker[r] = w PROVE Goal
  <2>1. Underway(r) /\ fpc[r] \in {"created", "stepped", "starting", "catchUpdate", "catchStep"}
    BY <1>6 DEF StepThrows, Underway, InTry, InCatch
  <2>2. r \in inflight[w] /\ Busy(w)
    BY <1>6, <2>1, UnderwayInGroup DEF AtWork
  <2>3. todo[w] = {} /\ \A q \in inflight[w] : q = r
    BY <1>1, <2>2 DEF Lone
  <2>4. \A q \in RunIds : Underway(q) /\ fworker[q] = w => q = r
    BY <2>3, UnderwayInGroup
  <2>5. /\ LeaveTask(w) /\ UNCHANGED << dbVars, fworker, ftree, result, alive >>
        /\ fpc' = [fpc EXCEPT ![r] = "dead"]
    BY <1>6, <2>2 DEF StepThrows, worldVars
  <2>6. Abandons(w) /\ \A v \in Workers \ {w} : wtree'[v] = wtree[v]
    BY <1>6, <2>1, <2>3, <2>4, <2>5 DEF Abandons, LeaveTask, LeaveTaskWithout, dbVars, taskVars,
       stepVars, runVars, IInv, TypeOK, ProcTypeOK
  <2>7. QED
    BY <2>1, <2>2, <2>4, <2>5, <2>6
<1>7. QED
  BY <1>3, <1>4, <1>5, <1>6 DEF Rejects

\* The environment without stalls.
LEMMA EnvironmentExec ==
  ASSUME MaxStalls = 0, MaxFaults = 0 \/ ParallelTasks = {},
         IInv, OwnedInv, ExecInv, LoneInv, [Next]_vars, Environment
  PROVE  ExecInv'
<1>1. ASSUME NEW w \in Workers, StartWorker(w) PROVE ExecInv'
  <2>1. \A t \in LapsedTasks : \A v \in Workers : ~ AtWork(v, t)
    BY DEF AtWork, LapsedTasks, OwnedInv, Claimed
  <2>2. \A v \in Workers : wpc'[v] = wpc[v] \/ (wpc[v] = "off" /\ wpc'[v] = "recovering")
    BY <1>1 DEF StartWorker, Goto, IInv, TypeOK, ProcTypeOK
  <2>3. LapsedTasks \in SUBSET Tasks /\ \A t \in LapsedTasks : taskStatus[t] = "running"
    BY DEF LapsedTasks
  <2>4. QED
    BY <1>1, <2>1, <2>2, <2>3, RecoverExec DEF StartWorker, recoverStaleTasks, Goto, fiberVars
<1>2. ASSUME NEW w \in Workers, NEW d \in Workers, RecoverDeadWorker(w, d) PROVE ExecInv'
  <2>1. /\ TasksOwnedBy(d) \in SUBSET Tasks
        /\ \A t \in TasksOwnedBy(d) : Owns(d, t)
    BY DEF TasksOwnedBy, Owns
  <2>2. \A t \in TasksOwnedBy(d) : taskStatus[t] = "running" /\ \A v \in Workers : ~ AtWork(v, t)
    BY <1>2, <2>1, OneAtWork DEF RecoverDeadWorker, Owns, AtWork, Busy, Executing
  <2>3. QED
    BY <1>2, <2>1, <2>2, RecoverExec DEF RecoverDeadWorker, recoverTasksOwnedBy, fiberVars, workerVars
<1>3. ASSUME NEW w \in Workers, RequestShutdown(w) PROVE ExecInv'
  BY <1>3, ExecInvKept DEF RequestShutdown, dbVars, taskVars, stepVars, runVars, workerVars, fiberVars
<1>4. ASSUME NEW w \in Workers, Heartbeat(w) PROVE ExecInv'
  BY <1>4, ExecInvKept DEF Heartbeat, heartbeatTask, procVars, stepVars, runVars, workerVars, fiberVars
<1>5. ASSUME NEW t \in Tasks, ClaimLapses(t) PROVE ExecInv'
  BY <1>5, ExecInvKept DEF ClaimLapses, ClaimAges, procVars, stepVars, runVars, workerVars, fiberVars
<1>6. ~ \E t \in Tasks : ClaimStalls(t)
  BY DEF ClaimStalls, IInv, TypeOK, ProcTypeOK
<1>7. ASSUME NEW w \in Workers, Rejects(w)
      PROVE  ExecInv'
  <2>1. ParallelTasks = {}
    BY <1>7, RejectionIsFault
  <2>2. QED
    BY <1>7, <2>1, RejectionAbandons, AbandonExec
<1>8. ASSUME NEW r \in RunIds, StepThrows(r) PROVE ExecInv'
  BY <1>7, <1>8, UnderwayInGroup DEF Rejects, StepThrows, Underway, InTry, InCatch
<1>9. ASSUME NEW w \in Workers, Crash(w) PROVE ExecInv'
  <2>1. Abandons(w)
    BY <1>9 DEF Abandons, Crash, IInv, TypeOK, ProcTypeOK, dbVars, taskVars, stepVars, runVars
  <2>2. QED
    BY <2>1, AbandonExec
<1>10. QED
  BY <1>1, <1>2, <1>3, <1>4, <1>5, <1>6, <1>7, <1>8, <1>9 DEF Environment, Rejects

\* What the operator does to a task that nobody works on, and to its steps.
OperatorMove(t) ==
  /\ taskStatus[t] # "running" /\ taskStatus'[t] # "running"
  /\ \A u \in Tasks \ {t} : taskStatus'[u] = taskStatus[u] /\ claimedBy'[u] = claimedBy[u]
  /\ \A s \in Steps : StepTask[s] # t => stepStatus'[s] = stepStatus[s] /\ stepRun'[s] = stepRun[s]
  /\ \/ /\ taskStatus[t] = "absent" /\ taskStatus'[t] = "queued"
        /\ UNCHANGED stepVars
     \/ /\ taskStatus[t] = "needs-review" /\ taskStatus'[t] = "done"
        /\ UNCHANGED stepVars
     \/ /\ taskStatus[t] = "needs-review" /\ taskStatus'[t] = "queued"
        /\ \A s \in StepsOf(t) : stepStatus'[s] = "pending"
     \/ /\ taskStatus[t] = "blocked" /\ taskStatus'[t] = "queued"
        /\ \A s \in StepsOf(t) :
             \/ stepStatus'[s] = "pending"
             \/ stepStatus[s] # "failed" /\ stepStatus'[s] = stepStatus[s] /\ stepRun'[s] = stepRun[s]

\* Every decision of the operator is such a move.
LEMMA OperatorMoves ==
  ASSUME IInv, Operator
  PROVE  /\ UNCHANGED << runStatus, runStep >>
         /\ UNCHANGED << wpc, wtask, snapshot, todo, inflight, refused, fpc, fworker, result >>
         /\ \E t \in Tasks : OperatorMove(t)
<1>1. /\ UNCHANGED << runStatus, runStep >>
      /\ UNCHANGED << wpc, wtask, snapshot, todo, inflight, refused, fpc, fworker, result >>
  BY DEF Operator, CreateTask, ApproveReview, RequestRework, RetryBlockedTask, Requeue, createTask,
     approveTaskReview, requestTaskRework, retryBlockedTask, procVars, workerVars, fiberVars, runVars
<1> USE DEF IInv, TypeOK, DbTypeOK, ReleaseTask, OperatorMove
<1>2. ASSUME NEW t \in Tasks, CreateTask(t) PROVE OperatorMove(t)
  BY <1>2 DEF CreateTask, createTask, stepVars
<1>3. ASSUME NEW t \in Tasks, NEW v \in ReviewIds, ApproveReview(t, v) PROVE OperatorMove(t)
  BY <1>3 DEF ApproveReview, approveTaskReview, Decidable, stepVars
<1>4. ASSUME NEW t \in Tasks, NEW v \in ReviewIds, RequestRework(t, v) PROVE OperatorMove(t)
  BY <1>4 DEF RequestRework, requestTaskRework, Decidable, ResetSteps, StepsOf
<1>5. ASSUME NEW t \in Tasks, NEW allow \in BOOLEAN, RetryBlockedTask(t, allow) PROVE OperatorMove(t)
  BY <1>5 DEF RetryBlockedTask, retryBlockedTask, ResetSteps, StepsOf
<1>6. QED
  BY <1>1, <1>2, <1>3, <1>4, <1>5 DEF Operator

\* The operator moves tasks whose steps no fiber works on.
LEMMA OperatorExec ==
  ASSUME IInv, OwnedInv, ExecInv, [Next]_vars, Operator
  PROVE  ExecInv'
<1>1. /\ UNCHANGED << runStatus, runStep >>
      /\ UNCHANGED << wpc, wtask, snapshot, todo, inflight, refused, fpc, fworker, result >>
  BY OperatorMoves
<1>2. PICK t \in Tasks : OperatorMove(t)
  BY OperatorMoves
<1>3. ASSUME NEW v \in Workers PROVE GroupInv(v)'
  <2>1. GroupInv(v)
    BY DEF ExecInv
  <2>2. \A r \in inflight[v] : fpc'[r] \notin {"none", "dead"}
    BY <1>1, <2>1 DEF GroupInv, InflightInv
  <2>3. QED
    BY <1>1, <2>1, <2>2, GroupInvKept
<1>4. ASSUME NEW q \in RunIds PROVE FiberInv(q)'
  <2>1. Underway(q) => /\ wpc[fworker[q]] = "group" /\ q \in inflight[fworker[q]]
                       /\ runStep[q] \in Steps /\ StepTask[runStep[q]] # t
    BY <1>2, UnderwayInGroup DEF Owns, OperatorMove
  <2>2. QED
    BY <1>1, <1>2, <2>1, FiberInvKept DEF ExecInv, OperatorMove
<1>5. ASSUME NEW s \in Steps PROVE StepInv(s)'
  <2>1. StepInv(s) /\ StepTask[s] \in Tasks
    BY StepAssumption DEF ExecInv
  <2>2. CASE StepTask[s] # t
    <3>1. stepStatus'[s] = stepStatus[s] /\ stepRun'[s] = stepRun[s]
      BY <1>2, <2>2 DEF OperatorMove
    <3>2. \A v \in Workers : InGroup(v, s) => InGroup(v, s)'
      BY <1>1, <3>1, InGroupKept
    <3>3. \A v \in Workers : AtWork(v, StepTask[s])' => AtWork(v, StepTask[s])
      BY <1>1 DEF AtWork, Busy
    <3>4. QED
      BY <1>1, <1>2, <2>1, <2>2, <3>1, <3>2, <3>3, StepInvKept DEF OperatorMove
  <2>3. CASE StepTask[s] = t
    <3>1. \A v \in Workers : ~ AtWork(v, StepTask[s])'
      <4>1. \A v \in Workers : ~ AtWork(v, StepTask[s])
        BY <1>2, <2>3, OneAtWork DEF OperatorMove
      <4>2. QED
        BY <1>1, <4>1 DEF AtWork, Busy
    <3>2. \/ stepStatus'[s] = "pending" /\ taskStatus'[t] = "queued"
          \/ /\ stepStatus'[s] = stepStatus[s] /\ stepRun'[s] = stepRun[s]
             /\ \/ taskStatus[t] = "absent" /\ taskStatus'[t] = "queued"
                \/ taskStatus[t] = "needs-review" /\ taskStatus'[t] = "done"
                \/ taskStatus[t] = "blocked" /\ taskStatus'[t] = "queued" /\ stepStatus[s] # "failed"
      BY <1>2, <2>3 DEF OperatorMove, StepsOf, stepVars
    <3>3. stepStatus[s] \in RouteStepStatus
      BY DEF IInv, TypeOK, DbTypeOK
    <3>4. QED
      BY <1>1, <2>1, <2>3, <3>1, <3>2, <3>3 DEF StepInv, Ready, Closed, Passed, RouteStepStatus
  <2>4. QED
    BY <2>2, <2>3
<1>6. QED
  BY <1>3, <1>4, <1>5 DEF ExecInv

-----------------------------------------------------------------------------
(* One step after the other.                                                *)

\* In parallel mode all steps of a task are started at once, otherwise one by
\* one, in the order of their sequence numbers.
LEMMA GroupSize ==
  ASSUME IInv, ExecInv, NEW w \in Workers, wtask[w] \in Tasks
  PROVE  /\ wtask[w] \in ParallelTasks => NextSequence(w) = snapshot[w]
         /\ wtask[w] \notin ParallelTasks => \A s, u \in NextSequence(w) : s = u
<1>1. \A s \in snapshot[w] : s \in Steps /\ StepTask[s] = wtask[w]
  BY DEF ExecInv, GroupInv, SnapshotInv, IInv, TypeOK, ProcTypeOK
<1>2. \A s \in Steps : StepSequence[s] \in Nat
  BY PlanAssumption
<1>3. ASSUME NEW s \in snapshot[w], NEW u \in snapshot[w], s # u
      PROVE  StepSequence[s] = StepSequence[u] <=> wtask[w] \in ParallelTasks
  BY <1>1, <1>3, RouteAssumption
<1>4. CASE wtask[w] \in ParallelTasks
  BY <1>1, <1>2, <1>3, <1>4 DEF NextSequence
<1>5. CASE wtask[w] \notin ParallelTasks
  <2>1. ASSUME NEW s \in NextSequence(w), NEW u \in NextSequence(w), s # u PROVE FALSE
    <3>1. /\ s \in snapshot[w] /\ u \in snapshot[w]
          /\ StepSequence[s] <= StepSequence[u] /\ StepSequence[u] <= StepSequence[s]
      BY DEF NextSequence
    <3>2. StepSequence[s] = StepSequence[u]
      BY <1>1, <1>2, <3>1
    <3>3. QED
      BY <1>3, <1>5, <2>1, <3>1, <3>2
  <2>2. QED
    BY <1>5, <2>1
<1>6. QED
  BY <1>4, <1>5

\* Pairs with equal components are equal.
LEMMA PairsAreEqual ==
  ASSUME NEW S, NEW T, NEW f \in S \X T, NEW g \in S \X T, f[1] = g[1], f[2] = g[2] PROVE f = g
OBVIOUS

\* A worker starts one step at a time, unless its plan is parallel.
LEMMA WorkerLone ==
  ASSUME IInv, OwnedInv, ExecInv, LoneInv, NEW w \in Workers, WorkerStep(w), wtask'[w] \notin ParallelTasks
  PROVE  Lone(w)'
<1> USE DEF IInv, TypeOK, ProcTypeOK
<1>1. GroupInv(w) /\ (wtask[w] \notin ParallelTasks => Lone(w))
  BY DEF ExecInv, LoneInv
<1>2. CASE LeaveTask(w) /\ wpc[w] # "group"
  <2>1. todo[w] = {}
    BY <1>1, <1>2 DEF GroupInv, TodoInv
  <2>2. QED
    BY <1>2, <2>1 DEF LeaveTask, LeaveTaskWithout, Lone
<1>3. CASE \/ BeginLoop(w) \/ ExecuteTask(w) \/ StopLoop(w) \/ HandoffFails(w) \/ JoinGroup(w)
           \/ BlockForShutdown(w) /\ Goto(w, "blocking")
           \/ \E r \in RunIds : ReconcileProcess(w, r) \/ ReconcileRemote(w, r)
  <2>1. wtask' = wtask /\ inflight' = inflight /\ todo' = todo /\ refused' = refused
    BY <1>3 DEF BeginLoop, ExecuteTask, StopLoop, HandoffFails, JoinGroup, BlockForShutdown,
       ReconcileProcess, ReconcileRemote, Goto, workerVars
  <2>2. QED
    BY <1>1, <2>1, LoneKept
<1>4. CASE BlockForShutdown(w) \/ BlockTask(w) \/ FinalizeTask(w) \/ ExecuteTaskRefused(w)
  BY <1>2, <1>3, <1>4 DEF BlockForShutdown, BlockTask, FinalizeTask, ExecuteTaskRefused
<1>5. CASE \E t \in Tasks : ClaimNextTask(w, t)
  <2>1. todo[w] = {} /\ inflight[w] = {} /\ UNCHANGED << todo, inflight >>
    BY <1>5, IdleWorker DEF ClaimNextTask, Busy, Executing
  <2>2. QED
    BY <2>1 DEF Lone
<1>6. CASE StartGroup(w)
  <2>1. /\ todo'[w] = todo[w] \cup (NextSequence(w) \X {TRUE}) /\ inflight'[w] = {}
        /\ wpc[w] = "loop" /\ wtask' = wtask /\ ~ refused'[w]
    BY <1>6 DEF StartGroup
  <2>2. todo[w] = {} /\ \A s, u \in NextSequence(w) : s = u
    BY <1>1, <2>1, GroupSize DEF WorkerHasTask, Executing, GroupInv, TodoInv
  <2>3. todo'[w] = NextSequence(w) \X {TRUE}
    BY <2>1, <2>2
  <2>4. \A f, g \in todo'[w] : f = g
    <3>1. \A f \in todo'[w] : f[1] \in NextSequence(w) /\ f[2] = TRUE
      BY <2>3
    <3>2. QED
      BY <2>2, <2>3, <3>1, PairsAreEqual
  <2>5. QED
    BY <2>1, <2>4 DEF Lone
<1>7. ASSUME NEW f \in todo[w], NEW r \in RunIds, CreateRun(w, f, r) PROVE Lone(w)'
  <2>1. /\ wtask' = wtask /\ todo'[w] = todo[w] \ {f} /\ inflight'[w] \subseteq inflight[w] \cup {r}
        /\ refused' = refused
    BY <1>7 DEF CreateRun
  <2>2. inflight[w] = {} /\ todo[w] = {f} /\ ~ refused[w]
    BY <1>1, <2>1 DEF Lone
  <2>3. QED
    BY <2>1, <2>2 DEF Lone
<1>8. ASSUME NEW f \in todo[w], UnavailableStep(w, f) PROVE Lone(w)'
  <2>1. wtask' = wtask /\ todo'[w] = todo[w] \ {f} /\ inflight' = inflight
    BY <1>8 DEF UnavailableStep
  <2>2. todo'[w] = {} /\ inflight'[w] = {}
    BY <1>1, <2>1 DEF Lone
  <2>3. QED
    BY <2>2 DEF Lone
<1>9. QED
  BY <1>3, <1>4, <1>5, <1>6, <1>7, <1>8 DEF WorkerStep

\* Whoever leaves a task has nothing left to start in its group.
LEMMA LoneInvStep ==
  ASSUME MaxFaults = 0 \/ ParallelTasks = {}, IInv, OwnedInv, ExecInv, LoneInv, [Next]_vars
  PROVE  LoneInv'
<1>1. ASSUME UNCHANGED << wtask, todo, inflight, refused >> PROVE LoneInv'
  BY <1>1 DEF LoneInv, Lone
<1>2. ASSUME NEW w \in Workers, WorkerStep(w) PROVE LoneInv'
  <2>1. \A v \in Workers \ {w} : /\ wtask'[v] = wtask[v] /\ todo'[v] = todo[v]
                                  /\ inflight'[v] = inflight[v] /\ refused'[v] = refused[v]
    BY <1>2, WorkerFrame
  <2>2. QED
    BY <1>2, <2>1, WorkerLone DEF LoneInv, Lone
<1>3. ASSUME NEW w \in Workers, Abandons(w) PROVE LoneInv'
  BY <1>3 DEF Abandons, LoneInv, Lone
<1>4. ASSUME NEW r \in RunIds, FiberStep(r) PROVE LoneInv'
  BY <1>1, <1>4, FiberClaimed DEF workerVars
<1>5. CASE Environment
  <2>1. ASSUME NEW w \in Workers, StartWorker(w) \/ RequestShutdown(w) \/ Heartbeat(w) PROVE LoneInv'
    BY <1>1, <2>1 DEF StartWorker, RequestShutdown, Heartbeat, Goto, procVars, workerVars
  <2>2. ASSUME NEW w \in Workers, NEW d \in Workers, RecoverDeadWorker(w, d) PROVE LoneInv'
    BY <1>1, <2>2 DEF RecoverDeadWorker, workerVars
  <2>3. ASSUME NEW t \in Tasks, ClaimLapses(t) \/ ClaimStalls(t) PROVE LoneInv'
    BY <1>1, <2>3 DEF ClaimLapses, ClaimStalls, procVars, workerVars
  <2>4. ASSUME NEW w \in Workers, Crash(w) PROVE LoneInv'
    <3>1. /\ todo'[w] = {} /\ inflight'[w] = {}
          /\ \A v \in Workers \ {w} :
               /\ wtask'[v] = wtask[v] /\ todo'[v] = todo[v]
               /\ inflight'[v] = inflight[v] /\ refused'[v] = refused[v]
      BY <2>4 DEF Crash, IInv, TypeOK, ProcTypeOK
    <3>2. QED
      BY <3>1 DEF LoneInv, Lone
  <2>5. ASSUME NEW w \in Workers, Rejects(w)
        PROVE  LoneInv'
    <3>1. ParallelTasks = {}
      BY <2>5, RejectionIsFault
    <3>2. QED
      BY <1>3, <2>5, <3>1, RejectionAbandons
  <2>6. ASSUME NEW r \in RunIds, StepThrows(r) PROVE LoneInv'
    BY <2>5, <2>6, UnderwayInGroup DEF Rejects, StepThrows, Underway, InTry, InCatch
  <2>7. QED
    BY <1>5, <2>1, <2>2, <2>3, <2>4, <2>5, <2>6 DEF Environment, Rejects
<1>6. CASE Operator
  BY <1>1, <1>6, OperatorMoves
<1>7. QED
  BY <1>1, <1>2, <1>4, <1>5, <1>6 DEF Next, vars, procVars, workerVars

-----------------------------------------------------------------------------

\* Inductive.
LEMMA ExecInvStep ==
  ASSUME MaxStalls = 0, MaxFaults = 0 \/ ParallelTasks = {}, IInv, OwnedInv, ExecInv, LoneInv, [Next]_vars
  PROVE  ExecInv'
<1>1. CASE UNCHANGED vars
  BY <1>1, ExecInvKept DEF vars, dbVars, taskVars, stepVars, runVars, procVars, workerVars, fiberVars
<1>2. QED
  BY <1>1, WorkerExec, FiberExec, EnvironmentExec, OperatorExec DEF Next

\* Initially nothing is claimed, under way or recorded.
LEMMA ExecInvInit == Init => ExecInv
BY StepAssumption, NullAssumption DEF Init, DbInit, ExecInv, AtWork, Busy, Executing,
   GroupInv, TodoInv, InflightInv, SnapshotInv, FiberInv, Underway, InTry, InCatch, Collected, StepInv, Ready, Owns

\* The invariant behind the completion of tasks.
LEMMA ExecInductive ==
  ASSUME MaxStalls = 0, MaxFaults = 0 \/ ParallelTasks = {}
  PROVE  Spec => [](IInv /\ OwnedInv /\ ReviewInv /\ ExecInv /\ LoneInv)
<1>1. Init => OwnedInv
  BY DEF Init, OwnedInv, Claimed, Busy, Executing
<1>2. Init => ReviewInv
  BY DEF Init, DbInit, ReviewInv, ReviewsMatch, PendingReviews
<1>3. IInv /\ OwnedInv /\ [Next]_vars => OwnedInv'
  BY OwnedStep
<1>4. IInv /\ OwnedInv /\ ReviewInv /\ [Next]_vars => ReviewInv'
  BY ReviewStep
<1>5. IInv /\ OwnedInv /\ ExecInv /\ LoneInv /\ [Next]_vars => ExecInv' /\ LoneInv'
  BY ExecInvStep, LoneInvStep
<1>6. Init => LoneInv
  BY DEF Init, LoneInv, Lone
<1>7. QED
  BY <1>1, <1>2, <1>3, <1>4, <1>5, <1>6, ExecInvInit, Inductive, PTL DEF Spec

\* Without stalls, and unless a database error outside #executeStep's try block
\* can hit a parallel plan, a task that waits for review or is done has every
\* required step succeeded, by a run that succeeded, and none left open.
THEOREM CompletionOnlyIfEarned ==
  ASSUME MaxStalls = 0, MaxFaults = 0 \/ ParallelTasks = {} PROVE Spec => []CompletionIsEarned
<1>1. ExecInv => CompletionIsEarned
  <2> SUFFICES ASSUME ExecInv, NEW t \in Tasks, taskStatus[t] \in {"needs-review", "done"},
                      NEW s \in StepsOf(t)
               PROVE  /\ stepStatus[s] \in {"succeeded", "failed", "skipped"}
                      /\ StepRequired[s] => /\ stepStatus[s] = "succeeded"
                                            /\ stepRun[s] # NoRun
                                            /\ runStatus[stepRun[s]] = "succeeded"
    BY DEF CompletionIsEarned
  <2>1. s \in Steps /\ StepTask[s] = t
    BY DEF StepsOf
  <2>2. QED
    BY <2>1 DEF ExecInv, StepInv, Closed, Passed
<1>2. QED
  BY <1>1, ExecInductive, PTL

-----------------------------------------------------------------------------
(* The refinement of TaskLifecycle.                                         *)

\* A step that moves no task works on at most one, which is running.
LEMMA WorkOnOneTask ==
  ASSUME IInv, OwnedInv, ExecInv, Next, UNCHANGED << taskStatus, claimedBy, reviewVars >>
  PROVE  \/ UNCHANGED stepStatus
         \/ \E t \in Tasks : /\ taskStatus[t] = "running"
                            /\ \A s \in Steps : StepTask[s] # t => stepStatus'[s] = stepStatus[s]
<1> DEFINE Goal == \/ UNCHANGED stepStatus
                   \/ \E t \in Tasks :
                        /\ taskStatus[t] = "running"
                        /\ \A s \in Steps : StepTask[s] # t => stepStatus'[s] = stepStatus[s]
<1>1. ASSUME NEW w \in Workers, WorkerStep(w) PROVE Goal
  <2>1. ASSUME NEW f \in todo[w], UnavailableStep(w, f) PROVE Goal
    <3>1. PICK s \in Steps : /\ f[1] = s /\ StepTask[s] = wtask[w] /\ Owns(w, wtask[w])
      BY TodoOwned
    <3>2. \A u \in Steps : u # s => stepStatus'[u] = stepStatus[u]
      BY <2>1, <3>1 DEF UnavailableStep, updateRouteStep, IInv, TypeOK, DbTypeOK
    <3>3. StepTask[s] \in Tasks /\ taskStatus[StepTask[s]] = "running"
      BY <3>1, StepAssumption DEF Owns
    <3>4. QED
      BY <3>2, <3>3
  <2> USE DEF dbVars, stepVars
  <2>2. CASE BeginLoop(w) \/ ExecuteTaskRefused(w) \/ StartGroup(w) \/ JoinGroup(w)
             \/ StopLoop(w) \/ BlockForShutdown(w) \/ HandoffFails(w)
    BY <2>2 DEF BeginLoop, ExecuteTaskRefused, StartGroup, JoinGroup, StopLoop,
       BlockForShutdown, HandoffFails
  <2>3. CASE \E t \in Tasks : ClaimNextTask(w, t)
    BY <2>3 DEF ClaimNextTask, claimNextTask
  <2>4. CASE \E r \in RunIds : ReconcileProcess(w, r) \/ ReconcileRemote(w, r)
    BY <2>4 DEF ReconcileProcess, ReconcileRemote, confirmRemoteCancellation
  <2>5. CASE ExecuteTask(w)
    BY <2>5 DEF ExecuteTask, heartbeatTask
  <2>6. CASE BlockTask(w) \/ FinalizeTask(w)
    BY <2>6 DEF BlockTask, FinalizeTask, updateTaskStatus, finalizeDone, finalizeNeedsReview
  <2>7. CASE \E f \in todo[w], r \in RunIds : CreateRun(w, f, r)
    BY <2>7 DEF CreateRun, createRun
  <2>8. QED
    BY <1>1, <2>1, <2>2, <2>3, <2>4, <2>5, <2>6, <2>7 DEF WorkerStep
<1>2. ASSUME NEW r \in RunIds, FiberStep(r) PROVE Goal
  <2>1. Owns(fworker[r], StepTask[runStep[r]]) /\ runStep[r] \in Steps
    BY <1>2, FiberProgress, UnderwayInGroup
  <2>2. StepTask[runStep[r]] \in Tasks /\ taskStatus[StepTask[runStep[r]]] = "running"
    BY <2>1, StepAssumption DEF Owns
  <2>3. \A s \in Steps : s # runStep[r] => stepStatus'[s] = stepStatus[s]
    BY <1>2, FiberProgress
  <2>4. QED
    BY <2>2, <2>3
<1>3. CASE Environment
  <2> USE DEF dbVars, stepVars
  <2>1. ASSUME NEW T \in SUBSET Tasks, NEW note, recoverRunningTasks(T, note),
               \A t \in T : taskStatus[t] = "running"
        PROVE  UNCHANGED stepStatus
    <3>1. T = {}
      BY <2>1 DEF recoverRunningTasks
    <3>2. QED
      BY <2>1, <3>1 DEF recoverRunningTasks, IInv, TypeOK, DbTypeOK
  <2>2. ASSUME NEW w \in Workers, StartWorker(w) PROVE Goal
    BY <2>1, <2>2 DEF StartWorker, recoverStaleTasks, LapsedTasks
  <2>3. ASSUME NEW w \in Workers, NEW d \in Workers, RecoverDeadWorker(w, d) PROVE Goal
    BY <2>1, <2>3 DEF RecoverDeadWorker, recoverTasksOwnedBy, TasksOwnedBy, Owns
  <2>4. ASSUME NEW w \in Workers,
               \/ Crash(w) \/ RequestShutdown(w) \/ WorkerThrows(w) \/ ClosingThrows(w)
               \/ \E f \in todo[w] : OpeningThrows(w, f)
        PROVE  Goal
    BY <2>4 DEF Crash, RequestShutdown, WorkerThrows, ClosingThrows, OpeningThrows
  <2>5. ASSUME NEW w \in Workers, Heartbeat(w) PROVE Goal
    BY <2>5 DEF Heartbeat, heartbeatTask
  <2>6. ASSUME NEW r \in RunIds, StepThrows(r) PROVE Goal
    BY <2>6 DEF StepThrows
  <2>7. ASSUME NEW t \in Tasks, ClaimLapses(t) \/ ClaimStalls(t) PROVE Goal
    BY <2>7 DEF ClaimLapses, ClaimStalls, ClaimAges
  <2>8. QED
    BY <1>3, <2>2, <2>3, <2>4, <2>5, <2>6, <2>7 DEF Environment
<1>4. CASE Operator
  BY <1>4, OperatorMoves DEF OperatorMove
<1>5. QED
  BY <1>1, <1>2, <1>3, <1>4 DEF Next

\* A succeeded step has a succeeded run, so that a task is earned when its
\* required steps have succeeded.
LEMMA EarnedIsSucceeded ==
  ASSUME ExecInv, NEW t \in Tasks
  PROVE  Earned(t) <=> \A s \in Steps : StepTask[s] = t /\ StepRequired[s] => stepStatus[s] = "succeeded"
BY DEF Earned, ExecInv, StepInv, StepsOf

\* Steps that do not change keep what is earned.
LEMMA EarnedKept ==
  ASSUME ExecInv, ExecInv', NEW t \in Tasks,
         \A s \in Steps : StepTask[s] = t =>
            (stepStatus'[s] = "succeeded" <=> stepStatus[s] = "succeeded")
  PROVE  Earned(t)' <=> Earned(t)
<1>1. Earned(t) <=> \A s \in Steps : StepTask[s] = t /\ StepRequired[s] => stepStatus[s] = "succeeded"
  BY EarnedIsSucceeded
<1>2. Earned(t)' <=> \A s \in Steps : StepTask[s] = t /\ StepRequired[s] => stepStatus'[s] = "succeeded"
  BY DEF Earned, ExecInv, StepInv, StepsOf
<1>3. QED
  BY <1>1, <1>2

\* Pointwise equal, so equal as functions.
LEMMA EarnedUnchanged ==
  ASSUME \A t \in Tasks : Earned(t)' <=> Earned(t)
  PROVE  UNCHANGED [t \in Tasks |-> Earned(t)]
<1>1. \A t \in Tasks : Earned(t)' = Earned(t)
  BY DEF Earned
<1>2. QED
  BY <1>1

\* What is pending follows from the reviews.
LEMMA OpenUnchanged ==
  ASSUME UNCHANGED reviewVars
  PROVE  UNCHANGED [t \in Tasks |-> PendingReviews(t)]
BY DEF PendingReviews, reviewVars

\* The operations of the database that move tasks, in the abstract.
LEMMA MoveRefines ==
  ASSUME IInv, ClaimIffRunning, OwnedInv, ReviewInv, ExecInv, ExecInv', TaskMove,
         ~ UNCHANGED << taskStatus, claimedBy, reviewVars >>
  PROVE  Lifecycle!Next
<1> USE DEF IInv, TypeOK, DbTypeOK
<1>1. ASSUME UNCHANGED stepStatus PROVE UNCHANGED [t \in Tasks |-> Earned(t)]
  BY <1>1, EarnedKept, EarnedUnchanged
<1>2. ASSUME NEW t \in Tasks, createTask(t) PROVE Lifecycle!Next
  <2>1. Lifecycle!Create(t)
    <3>1. /\ taskStatus[t] = "absent" /\ claimedBy[t] = NoWorker
          /\ taskStatus' = [taskStatus EXCEPT ![t] = "queued"] /\ UNCHANGED claimedBy
      BY <1>2 DEF createTask, ClaimIffRunning
    <3>2. QED
      BY <1>1, <1>2, <3>1, OpenUnchanged DEF createTask, stepVars, Lifecycle!Create, Lifecycle!Move
  <2>2. QED
    BY <2>1 DEF Lifecycle!Next
<1>3. ASSUME NEW t \in Tasks, NEW w \in Workers, claimNextTask(w, t) PROVE Lifecycle!Next
  <2>1. Lifecycle!Claim(t)
    BY <1>1, <1>3, OpenUnchanged DEF claimNextTask, NextToClaim, stepVars, Lifecycle!Claim, Lifecycle!Move
  <2>2. QED
    BY <2>1 DEF Lifecycle!Next
<1>4. ASSUME NEW t \in Tasks, taskStatus[t] = "running", updateTaskStatus(t, "blocked") PROVE Lifecycle!Next
  <2>1. Lifecycle!Block({t})
    BY <1>1, <1>4, OpenUnchanged DEF updateTaskStatus, ReleaseTask, stepVars, Lifecycle!Block
  <2>2. QED
    BY <2>1 DEF Lifecycle!Next
<1>5. ASSUME NEW t \in Tasks, NEW w \in Workers, wpc[w] = "finalize", wtask[w] = t PROVE Earned(t)
  <2>1. ASSUME NEW s \in Steps, StepTask[s] = t, StepRequired[s] PROVE stepStatus[s] = "succeeded"
    <3>1. /\ stepStatus[s] \notin {"running", "failed", "skipped"}
          /\ stepStatus[s] = "pending" => s \in snapshot[w]
      BY <1>5, <2>1 DEF ExecInv, StepInv, AtWork, Busy, Passed, Executing
    <3>2. s \notin snapshot[w]
      BY <1>5 DEF ExecInv, GroupInv, SnapshotInv
    <3>3. QED
      BY <3>1, <3>2 DEF RouteStepStatus
  <2>2. QED
    BY <2>1, EarnedIsSucceeded
<1>6. ASSUME NEW t \in Tasks, Earned(t), ~ NeedsReview[t], finalizeDone(t) PROVE Lifecycle!Next
  <2>1. Lifecycle!Complete(t)
    BY <1>1, <1>6, OpenUnchanged DEF finalizeDone, ReleaseTask, stepVars, Lifecycle!Complete, Lifecycle!Move
  <2>2. QED
    BY <2>1 DEF Lifecycle!Next
<1>7. ASSUME NEW t \in Tasks, Earned(t), NeedsReview[t], NEW v \in ReviewIds, finalizeNeedsReview(t, v)
      PROVE  Lifecycle!Next
  <2>1. PendingReviews(t) = {}
    BY <1>7 DEF finalizeNeedsReview, ReviewInv, ReviewsMatch
  <2>2. \A x \in Tasks : PendingReviews(x)' = IF x = t THEN {v} ELSE PendingReviews(x)
    BY <1>7, <2>1 DEF finalizeNeedsReview, NextReviewId, PendingReviews
  <2>3. Lifecycle!Submit(t)
    BY <1>1, <1>7, <2>1, <2>2 DEF finalizeNeedsReview, ReleaseTask, stepVars, Lifecycle!Submit, Lifecycle!Move
  <2>4. QED
    BY <2>3 DEF Lifecycle!Next
<1>8. ASSUME NEW t \in Tasks, NEW v \in ReviewIds, approveTaskReview(t, v) \/ requestTaskRework(t, v)
      PROVE  /\ v \in PendingReviews(t) /\ taskStatus[t] = "needs-review"
             /\ \A x \in Tasks : PendingReviews(x)' = IF x = t THEN {} ELSE PendingReviews(x)
  <2>1. \A x \in Tasks : PendingReviews(x)' = PendingReviews(x) \ {v}
    BY <1>8 DEF approveTaskReview, requestTaskRework, PendingReviews
  <2>2. v \in PendingReviews(t) /\ taskStatus[t] = "needs-review" /\ \A x \in Tasks \ {t} : v \notin PendingReviews(x)
    BY <1>8 DEF approveTaskReview, requestTaskRework, Decidable, PendingReviews
  <2>3. PendingReviews(t) = {v}
    <3>1. ReviewsMatch(t)
      BY DEF ReviewInv
    <3>2. \E u \in ReviewIds : PendingReviews(t) = {u}
      BY <2>2, <3>1 DEF ReviewsMatch, PendingReviews
    <3>3. QED
      BY <2>2, <3>2
  <2>4. PendingReviews(t) \ {v} = {} /\ \A x \in Tasks \ {t} : PendingReviews(x) \ {v} = PendingReviews(x)
    BY <2>2, <2>3
  <2>5. QED
    BY <2>1, <2>2, <2>4
<1>9. ASSUME NEW t \in Tasks, NEW v \in ReviewIds, approveTaskReview(t, v) PROVE Lifecycle!Next
  <2>1. Lifecycle!Approve(t)
    BY <1>1, <1>8, <1>9 DEF approveTaskReview, ReleaseTask, stepVars, Lifecycle!Approve, Lifecycle!Move
  <2>2. QED
    BY <2>1 DEF Lifecycle!Next
<1>10. ASSUME NEW t \in Tasks, NEW v \in ReviewIds, requestTaskRework(t, v) PROVE Lifecycle!Next
  <2>1. ~ Earned(t)'
    <3>1. PICK s \in StepsOf(t) : StepRequired[s]
      BY RouteAssumption
    <3>2. stepStatus'[s] = "pending"
      BY <1>10, <3>1 DEF requestTaskRework, ResetSteps, StepsOf
    <3>3. QED
      BY <3>1, <3>2 DEF Earned
  <2>2. \A x \in Tasks \ {t} : Earned(x)' = Earned(x)
    <3>1. ASSUME NEW x \in Tasks \ {t} PROVE Earned(x)' <=> Earned(x)
      <4>1. \A s \in Steps : StepTask[s] = x => stepStatus'[s] = stepStatus[s]
        BY <1>10, <3>1 DEF requestTaskRework, ResetSteps, StepsOf
      <4>2. QED
        BY <4>1, EarnedKept
    <3>2. QED
      BY <3>1 DEF Earned
  <2>3. [x \in Tasks |-> Earned(x)]' = [[x \in Tasks |-> Earned(x)] EXCEPT ![t] = FALSE]
    <3>1. Earned(t)' = FALSE
      BY <2>1
    <3>2. QED
      BY <2>2, <3>1
  <2>4. Lifecycle!Rework(t)
    BY <1>8, <1>10, <2>3 DEF requestTaskRework, ReleaseTask, Lifecycle!Rework, Lifecycle!Move
  <2>5. QED
    BY <2>4 DEF Lifecycle!Next
<1>11. ASSUME NEW t \in Tasks, NEW allow \in BOOLEAN, retryBlockedTask(t, allow) PROVE Lifecycle!Next
  <2>1. \A s \in Steps : stepStatus'[s] = "succeeded" <=> stepStatus[s] = "succeeded"
    BY <1>11 DEF retryBlockedTask, ResetSteps
  <2>2. UNCHANGED [x \in Tasks |-> Earned(x)]
    BY <2>1, EarnedKept, EarnedUnchanged
  <2>3. Lifecycle!Retry(t)
    BY <1>11, <2>2, OpenUnchanged DEF retryBlockedTask, ReleaseTask, Lifecycle!Retry, Lifecycle!Move
  <2>4. QED
    BY <2>3 DEF Lifecycle!Next
<1>12. ASSUME NEW T \in SUBSET Tasks, NEW note \in RunNote, recoverRunningTasks(T, note),
              \A t \in T : taskStatus[t] = "running"
       PROVE  Lifecycle!Next
  <2>1. \A s \in Steps : stepStatus'[s] = "succeeded" <=> stepStatus[s] = "succeeded"
    BY <1>12 DEF recoverRunningTasks
  <2>2. UNCHANGED [x \in Tasks |-> Earned(x)]
    BY <2>1, EarnedKept, EarnedUnchanged
  <2>3. Lifecycle!Block(T)
    BY <1>12, <2>2, OpenUnchanged DEF recoverRunningTasks, Lifecycle!Block
  <2>4. QED
    BY <2>3 DEF Lifecycle!Next
<1>13. QED
  BY <1>2, <1>3, <1>4, <1>5, <1>6, <1>7, <1>9, <1>10, <1>11, <1>12 DEF TaskMove

\* Every step is one of TaskLifecycle or a stutter.
LEMMA RefinementStep ==
  ASSUME IInv, ClaimIffRunning, OwnedInv, ReviewInv, ExecInv, ExecInv', [Next]_vars
  PROVE  [Lifecycle!Next]_(Lifecycle!vars)
<1>1. CASE UNCHANGED vars
  <2>1. UNCHANGED [t \in Tasks |-> Earned(t)]
    BY <1>1, EarnedKept, EarnedUnchanged DEF vars, dbVars, stepVars
  <2>2. QED
    BY <1>1, <2>1, OpenUnchanged DEF vars, dbVars, taskVars, Lifecycle!vars
<1>2. CASE Next /\ ~ UNCHANGED << taskStatus, claimedBy, reviewVars >>
  BY <1>2, StepIsTaskMove, MoveRefines
<1>3. CASE Next /\ UNCHANGED << taskStatus, claimedBy, reviewVars >>
  <2>1. CASE UNCHANGED stepStatus
    <3>1. UNCHANGED [t \in Tasks |-> Earned(t)]
      BY <2>1, EarnedKept, EarnedUnchanged
    <3>2. QED
      BY <1>3, <3>1, OpenUnchanged DEF Lifecycle!vars
  <2>2. ASSUME NEW t \in Tasks, taskStatus[t] = "running",
               \A s \in Steps : StepTask[s] # t => stepStatus'[s] = stepStatus[s]
        PROVE  Lifecycle!Next
    <3>1. \A x \in Tasks \ {t} : Earned(x)' = Earned(x)
      <4>1. \A x \in Tasks \ {t} : Earned(x)' <=> Earned(x)
        BY <2>2, EarnedKept
      <4>2. QED
        BY <4>1 DEF Earned
    <3>2. [x \in Tasks |-> Earned(x)]' = [[x \in Tasks |-> Earned(x)] EXCEPT ![t] = Earned(t)']
      BY <3>1
    <3>3. Earned(t)' \in BOOLEAN
      BY DEF Earned
    <3>4. Lifecycle!Work(t)
      BY <1>3, <2>2, <3>2, <3>3, OpenUnchanged DEF Lifecycle!Work
    <3>5. QED
      BY <3>4 DEF Lifecycle!Next
  <2>3. QED
    BY <1>3, <2>1, <2>2, WorkOnOneTask
<1>4. QED
  BY <1>1, <1>2, <1>3

\* Under the same conditions the coordinators implement the lifecycle of tasks:
\* every step of executeTask, #executeStep, a recovery or the operator is one of
\* TaskLifecycle or leaves what it shows as it is.
THEOREM CoordinatorImplementsLifecycle ==
  ASSUME MaxStalls = 0, MaxFaults = 0 \/ ParallelTasks = {} PROVE Spec => ImplementsLifecycle
<1>1. Init => Lifecycle!Init
  <2> SUFFICES ASSUME Init PROVE Lifecycle!Init
    OBVIOUS
  <2>1. \A t \in Tasks : ~ Earned(t)
    BY RouteAssumption DEF Init, DbInit, Earned, StepsOf
  <2>2. [t \in Tasks |-> Earned(t)] = [t \in Tasks |-> FALSE]
    <3>1. \A t \in Tasks : Earned(t) = FALSE
      BY <2>1
    <3>2. QED
      BY <3>1
  <2>3. [t \in Tasks |-> PendingReviews(t)] = [t \in Tasks |-> {}]
    BY DEF Init, DbInit, PendingReviews
  <2>4. QED
    BY <2>2, <2>3 DEF Init, DbInit, Lifecycle!Init
<1> DEFINE Inv == IInv /\ ClaimIffRunning /\ OwnedInv /\ ReviewInv /\ ExecInv
<1>2. Inv /\ Inv' /\ [Next]_vars => [Lifecycle!Next]_(Lifecycle!vars)
  BY RefinementStep
<1>3. Spec => []Inv
  BY ExecInductive, ClaimsUnderCoordinators, PTL
<1>4. QED
  BY <1>1, <1>2, <1>3, PTL DEF Spec, ImplementsLifecycle, Lifecycle!Spec

-----------------------------------------------------------------------------
(* Worktrees.                                                               *)

\* A task whose owner is dead and not yet recovered.
HeldByDead(t) == \E d \in Workers : wpc[d] = "dead" /\ Owns(d, t)

\* A recovery cut the run off; a retry quarantines its worktree.
CutOff(r) == runStatus[r] = "stale" \/ runNote[r] = "heartbeat-expired"

\* A worktree of task t: it is named after a run of t, which works in it.
TreeOf(t, x) ==
  x # NoRun => runTree[x] = x /\ fpc[x] # "none" /\ StepTask[runStep[x]] = t

\* A run is recorded with no worktree or with the one of its fiber.
RunTreeInv(r) ==
  /\ fpc[r] # "none" => TreeOf(StepTask[runStep[r]], runTree[r])
  /\ runTree[r] \in {NoRun, ftree[r]}
  /\ fpc[r] \in {"none", "created", "stepped", "starting"} => runTree[r] = NoRun
  /\ fpc[r] \in {"prepared", "spawned", "running"} \cup Collected => runTree[r] # NoRun
  /\ fpc[r] = "none" => r \notin alive

\* A local process: an agent or a verifier.
Local(r) == r \in alive /\ ~ IsRemote(r)

\* The fiber of a local process watches it, or died with its worker; then the
\* run was cut off, or will be when the claim of the dead worker is recovered.
LiveInv(r) ==
  Local(r) =>
    /\ runTree[r] # NoRun
    /\ fpc[r] \in {"spawned", "running", "verifying", "catch", "dead"}
    /\ fpc[r] = "catch" => runStatus[r] \in {"starting", "running"}
    /\ fpc[r] = "dead" => \/ CutOff(r)
                          \/ /\ runStatus[r] \in {"starting", "running"}
                             /\ HeldByDead(StepTask[runStep[r]])

\* A local process whose worker died.
Orphan(r) == Local(r) /\ fpc[r] = "dead"

\* A worktree that an agent of task t may be given.
Usable(t, x) ==
  TreeOf(t, x) /\ \A q \in RunIds : Orphan(q) /\ x # NoRun => runTree[q] # x

\* Candidates side by side: each fiber makes a worktree of its own.
SideBySide(w) ==
  /\ snapshot[w] # {} => wtree[w] = NoRun /\ wpc[w] # "group"
  /\ wpc[w] = "group" => wtree[w] = NoRun
  /\ \A r \in inflight[w] : ftree[r] \in {NoRun, r}

\* The worktree a worker hands on, and those of its fibers, are usable.
WorkerTreeInv(w) ==
  /\ wpc[w] \in Executing => Usable(wtask[w], wtree[w])
  /\ \A r \in inflight[w] : Usable(wtask[w], ftree[r])
  /\ wtask[w] \in ParallelTasks => SideBySide(w)

\* The invariant behind the exclusiveness of worktrees.
TreeInv ==
  /\ \A r \in RunIds : RunTreeInv(r)
  /\ \A r \in RunIds : LiveInv(r)
  /\ \A w \in Workers : WorkerTreeInv(w)
  /\ WorktreeExclusive

-----------------------------------------------------------------------------

\* What every step keeps of worktrees and orphans.
TreesStay ==
  \A x \in RunIds :
    /\ fpc[x] # "none" => fpc'[x] # "none" /\ runStep'[x] = runStep[x]
    /\ runTree[x] # NoRun => runTree'[x] = runTree[x]

\* A worktree stays the one of its task.
LEMMA TreeOfKept ==
  ASSUME TreesStay, NEW t, NEW x \in RunIds \cup {NoRun}, TreeOf(t, x)
  PROVE  TreeOf(t, x)'
BY DEF TreeOf, TreesStay

\* A worktree stays usable while no process of its task is orphaned.
LEMMA UsableKept ==
  ASSUME TreesStay, TreeInv, NEW t, NEW x \in RunIds \cup {NoRun}, Usable(t, x),
         \A q \in RunIds : Orphan(q)' => Orphan(q) \/ (fpc[q] # "none" /\ runTree[q] # NoRun /\ StepTask[runStep[q]] # t)
  PROVE  Usable(t, x)'
<1>1. TreeOf(t, x)'
  BY TreeOfKept DEF Usable
<1>2. ASSUME NEW q \in RunIds, Orphan(q)', x # NoRun PROVE runTree'[q] # x
  <2>1. CASE Orphan(q)
    BY <1>2, <2>1 DEF Usable, TreeInv, LiveInv, Orphan, TreesStay
  <2>2. CASE fpc[q] # "none" /\ runTree[q] # NoRun /\ StepTask[runStep[q]] # t
    <3>1. TreeOf(StepTask[runStep[q]], runTree[q])
      BY <2>2 DEF TreeInv, RunTreeInv
    <3>2. QED
      BY <1>2, <2>2, <3>1 DEF Usable, TreeOf, TreesStay
  <2>3. QED
    BY <1>2, <2>1, <2>2
<1>3. QED
  BY <1>1, <1>2 DEF Usable

\* A run that a step leaves alone keeps its part of the invariant.
LEMMA RunTreeKept ==
  ASSUME TreesStay, IInv, NEW r \in RunIds, RunTreeInv(r),
         fpc'[r] = fpc[r], ftree'[r] = ftree[r], runTree'[r] = runTree[r],
         r \in alive' => r \in alive
  PROVE  RunTreeInv(r)'
<1>1. runTree[r] \in RunIds \cup {NoRun}
  BY DEF IInv, TypeOK, DbTypeOK
<1>2. fpc[r] # "none" /\ runTree[r] # NoRun =>
        /\ runTree'[runTree[r]] = runTree[r] /\ fpc'[runTree[r]] # "none"
        /\ StepTask[runStep'[runTree[r]]] = StepTask[runStep[r]]
  BY <1>1 DEF RunTreeInv, TreeOf, TreesStay
<1>3. fpc[r] # "none" => runStep'[r] = runStep[r]
  BY DEF TreesStay
<1>4. QED
  BY <1>2, <1>3 DEF RunTreeInv, TreeOf

\* So does its process.
LEMMA LiveKept ==
  ASSUME IInv, NEW r \in RunIds, LiveInv(r), fpc'[r] = fpc[r], runTree'[r] = runTree[r],
         runStep'[r] = runStep[r], runStatus'[r] = runStatus[r], runNote'[r] = runNote[r],
         r \in alive' => r \in alive,
         \A t \in Tasks : HeldByDead(t) => HeldByDead(t)'
  PROVE  LiveInv(r)'
<1>1. Local(r)' => Local(r)
  BY DEF Local, IsRemote
<1>2. fpc[r] = "dead" => StepTask[runStep[r]] \in Tasks
  BY StepAssumption DEF IInv, EvidenceInOrder
<1>3. CutOff(r) => CutOff(r)'
  BY DEF CutOff
<1>4. QED
  BY <1>1, <1>2, <1>3 DEF LiveInv

\* Fewer processes, in the worktrees they had.
LEMMA ExclusiveKept ==
  ASSUME TreesStay, TreeInv, \A q \in RunIds : q \in alive' => q \in alive /\ fpc[q] # "none", alive' \subseteq RunIds
  PROVE  WorktreeExclusive'
BY DEF WorktreeExclusive, TreesStay, TreeInv, LiveInv, Local, IsRemote

-----------------------------------------------------------------------------
(* Fibers.                                                                  *)

\* A fiber leaves the worktrees of other runs alone.
LEMMA FiberTouchesItsTree ==
  ASSUME IInv, NEW r \in RunIds, FiberStep(r), NEW q \in RunIds, q # r
  PROVE  runTree'[q] = runTree[q] /\ runNote'[q] = runNote[q]
<1> USE DEF IInv, TypeOK, ProcTypeOK, DbTypeOK, FiberGoto, LeaveTry, dbVars, runVars
<1>1. CASE StepRunning(r) \/ CloseStep(r) \/ CatchStep(r)
  BY <1>1 DEF StepRunning, CloseStep, CatchStep, updateRouteStep
<1>2. CASE RunStarting(r) \/ CatchUpdate(r)
  BY <1>2 DEF RunStarting, CatchUpdate, updateRun
<1>3. CASE PersistStart(r) \/ FinishRun(r)
  BY <1>3 DEF PersistStart, FinishRun, updateRun
<1>4. CASE PrepareWorktree(r)
  BY <1>4 DEF PrepareWorktree, updateRunTree
<1>5. CASE SpawnAgent(r) \/ StartAnswerLost(r) \/ FiberThrows(r) \/ Catch(r)
  BY <1>5 DEF SpawnAgent, StartAnswerLost, FiberThrows, Catch
<1>6. CASE CollectResult(r) \/ IngestArtifacts(r) \/ VerificationPasses(r) \/ CaptureReviewArtifacts(r)
  BY <1>6 DEF CollectResult, IngestArtifacts, VerificationPasses, CaptureReviewArtifacts
<1>7. QED
  BY <1>1, <1>2, <1>3, <1>4, <1>5, <1>6 DEF FiberStep

\* A fiber prepares its worktree once, before it starts a process, and it
\* starts processes only in a prepared worktree.
LEMMA FiberWorktree ==
  ASSUME IInv, ExecInv, TreeInv, NEW r \in RunIds, FiberStep(r)
  PROVE  \/ /\ fpc[r] = "starting" /\ fpc'[r] = "prepared" /\ alive' = alive
            /\ ftree'[r] = (IF ftree[r] = NoRun THEN r ELSE ftree[r])
            /\ runTree'[r] = ftree'[r]
            /\ runStatus'[r] = runStatus[r] /\ runNote'[r] = runNote[r]
         \/ /\ ftree'[r] = ftree[r] /\ runTree'[r] = runTree[r]
            /\ Local(r)' => /\ fpc'[r] \in {"spawned", "running", "verifying", "catch"}
                            /\ fpc'[r] = "catch" => runStatus'[r] \in {"starting", "running"}
                            /\ Local(r) \/ fpc[r] \in {"prepared", "collected"}
            /\ fpc'[r] \in {"created", "stepped", "starting"} => fpc[r] \in {"created", "stepped"}
            /\ fpc'[r] \in {"prepared", "spawned", "running"} \cup Collected =>
                 fpc[r] \in {"prepared", "spawned", "running"} \cup Collected
<1> USE DEF IInv, TypeOK, ProcTypeOK, DbTypeOK, FiberGoto, LeaveTry, dbVars, runVars, InTry, InCatch,
            Collected, Local, IsRemote
<1>a. FiberInv(r) /\ LiveInv(r)
  BY DEF ExecInv, TreeInv
<1> USE <1>a DEF FiberInv, LiveInv
<1>1. CASE StepRunning(r) \/ CloseStep(r) \/ CatchStep(r)
  BY <1>1 DEF StepRunning, CloseStep, CatchStep, updateRouteStep
<1>2. CASE RunStarting(r) \/ CatchUpdate(r)
  BY <1>2 DEF RunStarting, CatchUpdate, updateRun
<1>3. CASE PersistStart(r)
  BY <1>3 DEF PersistStart, updateRun
<1>4. CASE FinishRun(r)
  BY <1>4 DEF FinishRun, updateRun
<1>5. CASE PrepareWorktree(r)
  BY <1>5 DEF PrepareWorktree, updateRunTree
<1>6. CASE SpawnAgent(r) \/ StartAnswerLost(r)
  BY <1>6 DEF SpawnAgent, StartAnswerLost
<1>7. CASE FiberThrows(r)
  BY <1>7 DEF FiberThrows
<1>8. CASE Catch(r)
  BY <1>8 DEF Catch
<1>9. CASE CollectResult(r)
  BY <1>9 DEF CollectResult
<1>10. CASE IngestArtifacts(r) \/ VerificationPasses(r) \/ CaptureReviewArtifacts(r)
  BY <1>10 DEF IngestArtifacts, VerificationPasses, CaptureReviewArtifacts
<1>11. QED
  BY <1>1, <1>2, <1>3, <1>4, <1>5, <1>6, <1>7, <1>8, <1>9, <1>10 DEF FiberStep

\* A fiber moves no worktree of another run.
LEMMA FiberTreesStay ==
  ASSUME IInv, ExecInv, TreeInv, NEW r \in RunIds, FiberStep(r)
  PROVE  TreesStay
<1>1. fpc'[r] # "none" /\ runStep' = runStep
  BY FiberProgress DEF Underway, InTry, InCatch
<1>2. runTree[r] # NoRun => runTree'[r] = runTree[r]
  BY FiberWorktree DEF TreeInv, RunTreeInv
<1>3. QED
  BY <1>1, <1>2, FiberTouchesItsRun, FiberTouchesItsTree DEF IInv, TreesStay

\* Nobody else is at work in the worktree in which a fiber starts a process.
LEMMA TreeIsFree ==
  ASSUME IInv, OwnedInv, ExecInv, LoneInv, TreeInv, NEW r \in RunIds, fpc[r] \in {"prepared", "collected"},
         NEW q \in RunIds \ {r}, Local(q)
  PROVE  runTree[q] # runTree[r]
<1> DEFINE w == fworker[r]
           t == StepTask[runStep[r]]
<1>1. /\ w \in Workers /\ runStep[r] \in Steps /\ r \in inflight[w] /\ t = wtask[w] /\ Owns(w, t)
  BY UnderwayInGroup DEF Underway, InTry
<1>2. /\ runTree[r] # NoRun /\ runTree[r] = ftree[r] /\ TreeOf(t, runTree[r])
  BY DEF TreeInv, RunTreeInv, Collected
<1>3. Usable(t, runTree[r])
  BY <1>1, <1>2 DEF TreeInv, WorkerTreeInv
<1>4. LiveInv(q) /\ RunTreeInv(q)
  BY DEF TreeInv
<1>5. CASE fpc[q] = "dead"
  BY <1>2, <1>3, <1>5 DEF Orphan, Usable
<1>6. CASE fpc[q] # "dead"
  <2>1. Underway(q) /\ fpc[q] # "none" /\ runTree[q] # NoRun
    BY <1>4, <1>6 DEF LiveInv, Underway, InTry, InCatch
  <2>2. /\ fworker[q] \in Workers /\ q \in inflight[fworker[q]]
        /\ Owns(fworker[q], StepTask[runStep[q]])
    BY <2>1, UnderwayInGroup
  <2>3. CASE fworker[q] # w
    <3>1. StepTask[runStep[q]] # t
      BY <1>1, <2>2, <2>3 DEF Owns
    <3>2. QED
      BY <1>2, <1>4, <2>1, <3>1 DEF RunTreeInv, TreeOf
  <2>4. CASE fworker[q] = w
    <3>1. t \in ParallelTasks /\ ftree[q] \in {NoRun, q} /\ ftree[r] \in {NoRun, r}
      BY <1>1, <2>2, <2>4 DEF TreeInv, WorkerTreeInv, LoneInv, Lone, SideBySide
    <3>2. QED
      BY <1>2, <1>4, <2>1, <3>1 DEF RunTreeInv
  <2>5. QED
    BY <2>3, <2>4
<1>7. QED
  BY <1>5, <1>6

\* A step of a fiber keeps the invariant.
LEMMA FiberTree ==
  ASSUME IInv, OwnedInv, ExecInv, LoneInv, TreeInv, NEW r \in RunIds, FiberStep(r)
  PROVE  TreeInv'
<1> DEFINE w == fworker[r]
<1>1. /\ w \in Workers /\ runStep[r] \in Steps /\ r \in inflight[w] /\ StepTask[runStep[r]] = wtask[w]
  BY FiberProgress, UnderwayInGroup
<1>2. /\ TreesStay /\ UNCHANGED << taskStatus, claimedBy, wpc, wtask, snapshot, wtree, todo, inflight >>
      /\ UNCHANGED << runStep, fworker >>
  BY FiberTreesStay, FiberClaimed, FiberProgress DEF taskVars, workerVars
<1>3. \A t \in Tasks : HeldByDead(t) => HeldByDead(t)'
  BY <1>2 DEF HeldByDead, Owns
<1>4. RunTreeInv(r) /\ LiveInv(r) /\ Usable(wtask[w], ftree[r])
  BY <1>1 DEF TreeInv, WorkerTreeInv
<1>5. /\ ftree[r] \in RunIds \cup {NoRun} /\ runTree[r] \in RunIds \cup {NoRun} /\ r # NoRun
      /\ inflight \in [Workers -> SUBSET RunIds] /\ wtree \in [Workers -> RunIds \cup {NoRun}]
      /\ ftree \in [RunIds -> RunIds \cup {NoRun}]
  BY DEF IInv, TypeOK, ProcTypeOK, DbTypeOK, NoRun, RunIds
<1>6. fpc'[r] \notin {"none", "dead"}
  BY FiberProgress DEF Underway, InTry, InCatch
<1> DEFINE Prepares == /\ fpc[r] = "starting" /\ fpc'[r] = "prepared" /\ alive' = alive
                       /\ ftree'[r] = (IF ftree[r] = NoRun THEN r ELSE ftree[r])
                       /\ runTree'[r] = ftree'[r]
                       /\ runStatus'[r] = runStatus[r] /\ runNote'[r] = runNote[r]
           Goes == /\ ftree'[r] = ftree[r] /\ runTree'[r] = runTree[r]
                   /\ Local(r)' => /\ fpc'[r] \in {"spawned", "running", "verifying", "catch"}
                                   /\ fpc'[r] = "catch" => runStatus'[r] \in {"starting", "running"}
                                   /\ Local(r) \/ fpc[r] \in {"prepared", "collected"}
                   /\ fpc'[r] \in {"created", "stepped", "starting"} => fpc[r] \in {"created", "stepped"}
                   /\ fpc'[r] \in {"prepared", "spawned", "running"} \cup Collected =>
                        fpc[r] \in {"prepared", "spawned", "running"} \cup Collected
<1>7. Prepares \/ Goes
  BY FiberWorktree
<1>8. ASSUME Prepares PROVE RunTreeInv(r)' /\ LiveInv(r)'
  <2>1. RunTreeInv(r)'
    <3>1. runTree'[r] # NoRun
      BY <1>5, <1>8
    <3>2. CASE ftree[r] = NoRun
      BY <1>2, <1>6, <1>8, <3>1, <3>2 DEF RunTreeInv, TreeOf
    <3>3. CASE ftree[r] # NoRun
      <4>1. TreeOf(StepTask[runStep[r]], ftree[r])'
        BY <1>1, <1>2, <1>4, <1>5, <1>8, <3>3 DEF Usable, TreeOf, TreesStay
      <4>2. QED
        BY <1>2, <1>6, <1>8, <3>1, <3>3, <4>1 DEF RunTreeInv, TreeOf
    <3>4. QED
      BY <3>2, <3>3
  <2>2. ~ Local(r) /\ ~ Local(r)' /\ LiveInv(r)'
    BY <1>2, <1>4, <1>8 DEF LiveInv, Local, IsRemote
  <2>3. QED
    BY <2>1, <2>2
<1>9. ASSUME Goes PROVE RunTreeInv(r)' /\ LiveInv(r)'
  <2>1. RunTreeInv(r)'
    BY <1>2, <1>4, <1>5, <1>6, <1>9 DEF RunTreeInv, TreeOf, TreesStay
  <2>2. LiveInv(r)'
    BY <1>4, <1>6, <1>9 DEF RunTreeInv, LiveInv, Collected
  <2>3. QED
    BY <2>1, <2>2
<1>10. ASSUME NEW q \in RunIds PROVE RunTreeInv(q)' /\ LiveInv(q)'
  <2>1. CASE q # r
    BY <1>2, <1>3, <2>1, FiberTouchesItsRun, FiberTouchesItsTree, RunTreeKept, LiveKept DEF TreeInv, IInv
  <2>2. QED
    BY <1>7, <1>8, <1>9, <2>1
<1>11. \A q \in RunIds : Orphan(q)' => Orphan(q)
  BY <1>2, <1>6, FiberTouchesItsRun DEF IInv, Orphan, Local, IsRemote
<1>12. ASSUME Prepares, ftree[r] = NoRun PROVE Usable(wtask[w], r)'
  <2>1. TreeOf(wtask[w], r)'
    BY <1>1, <1>2, <1>6, <1>12 DEF TreeOf
  <2>2. ASSUME NEW q \in RunIds, Orphan(q)' PROVE runTree'[q] # r
    <3>1. Orphan(q) /\ runTree[q] # NoRun /\ runTree'[q] = runTree[q] /\ RunTreeInv(q)
      BY <1>2, <1>11, <2>2 DEF TreeInv, LiveInv, Orphan, TreesStay
    <3>2. QED
      BY <1>4, <1>5, <1>12, <3>1 DEF RunTreeInv, Orphan, TreeOf
  <2>3. QED
    BY <2>1, <2>2 DEF Usable
<1>13. ASSUME NEW v \in Workers PROVE WorkerTreeInv(v)'
  <2>1. WorkerTreeInv(v) /\ InflightInv(v)
    BY DEF TreeInv, ExecInv, GroupInv
  <2>2. ASSUME NEW x \in RunIds \cup {NoRun}, Usable(wtask[v], x) PROVE Usable(wtask[v], x)'
    <3>1. \A t : Usable(t, x) => Usable(t, x)'
      BY <1>2, <1>11, UsableKept
    <3>2. QED
      BY <1>2, <2>2, <3>1 DEF Usable, TreeOf
  <2>3. wpc'[v] \in Executing => Usable(wtask[v], wtree[v])'
    BY <1>2, <1>5, <2>1, <2>2 DEF WorkerTreeInv, Usable, TreeOf
  <2>4. ASSUME NEW q \in inflight[v]
        PROVE  Usable(wtask[v], ftree[q])' /\ (ftree'[q] = ftree[q] \/ ftree'[q] = q)
    <3>1. Usable(wtask[v], ftree[q]) /\ q \in RunIds
      BY <1>5, <2>1 DEF WorkerTreeInv
    <3>2. CASE ftree'[q] = ftree[q]
      BY <1>2, <1>5, <2>2, <3>1, <3>2 DEF Usable, TreeOf
    <3>3. CASE ftree'[q] # ftree[q]
      <4>1. q = r
        BY <3>1, <3>3, FiberTouchesItsRun DEF IInv
      <4>2. v = w
        BY <2>1, <4>1 DEF InflightInv
      <4>3. Prepares /\ ftree[r] = NoRun /\ ftree'[r] = r
        BY <1>7, <3>3, <4>1
      <4>4. QED
        BY <1>2, <1>12, <4>1, <4>2, <4>3 DEF Usable, TreeOf
    <3>4. QED
      BY <3>2, <3>3
  <2>5. (wtask[v] \in ParallelTasks => SideBySide(v))'
    BY <1>2, <2>1, <2>4 DEF WorkerTreeInv, SideBySide
  <2>6. QED
    BY <1>2, <2>3, <2>4, <2>5 DEF WorkerTreeInv
<1>14. \A q \in RunIds : Local(q)' => /\ runTree'[q] = runTree[q]
                                      /\ Local(q) \/ (q = r /\ fpc[r] \in {"prepared", "collected"})
  <2>1. ASSUME NEW q \in RunIds \ {r}, Local(q)' PROVE Local(q) /\ runTree'[q] = runTree[q]
    BY <1>2, <2>1, FiberTouchesItsRun, FiberTouchesItsTree DEF IInv, Local, IsRemote
  <2>2. Prepares => ~ Local(r)'
    BY <1>2, <1>4 DEF LiveInv, Local, IsRemote
  <2>3. QED
    BY <1>7, <2>1, <2>2
<1>15. WorktreeExclusive'
  <2>1. alive' \subseteq RunIds
    BY IInvStep DEF Next, IInv, TypeOK, ProcTypeOK
  <2>2. ASSUME NEW p \in RunIds, NEW q \in RunIds, p # q, Local(p)', Local(q)'
        PROVE  runTree'[p] # runTree'[q]
    BY <1>14, <2>2, TreeIsFree DEF TreeInv, WorktreeExclusive, Local
  <2>3. QED
    BY <2>1, <2>2 DEF WorktreeExclusive, Local
<1>16. QED
  BY <1>10, <1>13, <1>15 DEF TreeInv

-----------------------------------------------------------------------------
(* Workers.                                                                 *)

\* What a worker leaves as it is keeps its trees in order.
LEMMA WorkerTreeKept ==
  ASSUME TreesStay, IInv, TreeInv, NEW v \in Workers, wtask'[v] = wtask[v], wtree'[v] = wtree[v],
         wpc'[v] \in Executing => wpc[v] \in Executing, wpc'[v] = "group" => wpc[v] = "group",
         todo'[v] \subseteq todo[v], inflight'[v] = inflight[v], snapshot'[v] \subseteq snapshot[v],
         \A q \in inflight[v] : ftree'[q] = ftree[q],
         \A q \in RunIds : Orphan(q)' =>
           Orphan(q) \/ (fpc[q] # "none" /\ runTree[q] # NoRun /\ StepTask[runStep[q]] # wtask[v])
  PROVE  WorkerTreeInv(v)'
<1>1. WorkerTreeInv(v)
  BY DEF TreeInv
<1>2. /\ wtree[v] \in RunIds \cup {NoRun} /\ inflight[v] \subseteq RunIds
      /\ \A q \in RunIds : ftree[q] \in RunIds \cup {NoRun}
  BY DEF IInv, TypeOK, ProcTypeOK
<1>3. ASSUME NEW x \in RunIds \cup {NoRun}, Usable(wtask[v], x) PROVE Usable(wtask[v], x)'
  <2>1. \A t : t = wtask[v] /\ Usable(t, x) => Usable(t, x)'
    BY UsableKept
  <2>2. QED
    BY <1>3, <2>1 DEF Usable, TreeOf
<1>4. wpc'[v] \in Executing => Usable(wtask[v], wtree[v])'
  BY <1>1, <1>2, <1>3 DEF WorkerTreeInv, Usable, TreeOf
<1>5. \A q \in inflight[v] : Usable(wtask[v], ftree[q])'
  BY <1>1, <1>2, <1>3 DEF WorkerTreeInv, Usable, TreeOf
<1>6. (wtask[v] \in ParallelTasks => SideBySide(v))'
  BY <1>1 DEF WorkerTreeInv, SideBySide, Executing
<1>7. QED
  BY <1>4, <1>5, <1>6 DEF WorkerTreeInv

\* A worker without a task has no worktree to hand on.
LEMMA RestingWorkerTree ==
  ASSUME NEW w \in Workers, wpc'[w] \notin Executing,
         todo'[w] = {}, inflight'[w] = {}, snapshot'[w] = {}
  PROVE  WorkerTreeInv(w)'
BY DEF WorkerTreeInv, SideBySide, Executing

\* A worker's step is about its own worktrees and at most one new run.
LEMMA WorkerTreeFrame ==
  ASSUME IInv, NEW w \in Workers, WorkerStep(w)
  PROVE  /\ UNCHANGED << runTree, runNote >> /\ alive' \subseteq alive
         /\ \A v \in Workers \ {w} : wtree'[v] = wtree[v]
         /\ \A q \in RunIds : fpc[q] # "none" => ftree'[q] = ftree[q]
         /\ \A q \in RunIds : fpc[q] = "none" => fpc'[q] \in {"none", "created"}
<1> USE DEF IInv, TypeOK, ProcTypeOK, DbTypeOK, dbVars, fiberVars, runVars, worldVars, Goto, LeaveTask, LeaveTaskWithout
<1>1. CASE BeginLoop(w) \/ ExecuteTaskRefused(w) \/ StopLoop(w) \/ BlockForShutdown(w) \/ HandoffFails(w)
  BY <1>1 DEF BeginLoop, ExecuteTaskRefused, StopLoop, BlockForShutdown, HandoffFails
<1>2. CASE StartGroup(w) \/ JoinGroup(w)
  BY <1>2 DEF StartGroup, JoinGroup
<1>3. CASE \E t \in Tasks : ClaimNextTask(w, t)
  BY <1>3 DEF ClaimNextTask, claimNextTask
<1>4. CASE \E r \in RunIds : ReconcileProcess(w, r) \/ ReconcileRemote(w, r)
  BY <1>4 DEF ReconcileProcess, ReconcileRemote, confirmRemoteCancellation, workerVars
<1>5. CASE ExecuteTask(w)
  BY <1>5 DEF ExecuteTask, heartbeatTask
<1>6. CASE BlockTask(w)
  BY <1>6 DEF BlockTask, updateTaskStatus
<1>7. CASE FinalizeTask(w)
  BY <1>7 DEF FinalizeTask, finalizeDone, finalizeNeedsReview
<1>8. CASE \E f \in todo[w] : UnavailableStep(w, f)
  BY <1>8 DEF UnavailableStep, updateRouteStep
<1>9. ASSUME NEW f \in todo[w], NEW r \in RunIds, CreateRun(w, f, r)
      PROVE  /\ UNCHANGED << runTree, runNote, alive, wtree >>
             /\ \A q \in RunIds \ {r} : ftree'[q] = ftree[q] /\ fpc'[q] = fpc[q]
             /\ fpc[r] = "none" /\ fpc'[r] = "created"
  BY <1>9 DEF CreateRun, createRun, NextRunId, EvidenceInOrder
<1>10. QED
  BY <1>1, <1>2, <1>3, <1>4, <1>5, <1>6, <1>7, <1>8, <1>9 DEF WorkerStep

\* A worker that takes a step is alive.
LEMMA WorkerIsAlive ==
  ASSUME IInv, ExecInv, NEW w \in Workers, WorkerStep(w)
  PROVE  wpc[w] # "dead"
<1>1. todo[w] # {} => wpc[w] = "group"
  BY DEF ExecInv, GroupInv, TodoInv
<1>2. QED
  BY <1>1 DEF WorkerStep, BeginLoop, ClaimNextTask, ReconcileProcess, ReconcileRemote, ExecuteTask,
     ExecuteTaskRefused, StartGroup, JoinGroup, StopLoop, BlockForShutdown, BlockTask, HandoffFails,
     FinalizeTask

\* It does not touch the task of a dead one.
LEMMA DeadOwnersStay ==
  ASSUME IInv, OwnedInv, ExecInv, NEW w \in Workers, WorkerStep(w), NEW t \in Tasks, HeldByDead(t)
  PROVE  HeldByDead(t)'
<1> USE DEF IInv, TypeOK, DbTypeOK
<1>1. PICK d \in Workers : wpc[d] = "dead" /\ Owns(d, t)
  BY DEF HeldByDead
<1>2. d # w /\ wpc'[d] = "dead"
  BY <1>1, WorkerIsAlive, WorkerFrame
<1>3. CASE UNCHANGED << taskStatus, claimedBy >>
  BY <1>1, <1>2, <1>3 DEF HeldByDead, Owns
<1>4. CASE \E u \in Tasks : ClaimNextTask(w, u)
  BY <1>1, <1>2, <1>4 DEF ClaimNextTask, claimNextTask, NextToClaim, HeldByDead, Owns
<1>5. CASE BlockTask(w) \/ FinalizeTask(w)
  <2>1. Owns(w, wtask[w])
    BY <1>5 DEF BlockTask, FinalizeTask, OwnedInv, Claimed, Busy, Executing
  <2>2. t # wtask[w]
    BY <1>1, <1>2, <2>1 DEF Owns
  <2>3. taskStatus'[t] = taskStatus[t] /\ claimedBy'[t] = claimedBy[t]
    BY <1>5, <2>2 DEF BlockTask, FinalizeTask, updateTaskStatus, finalizeDone, finalizeNeedsReview,
       ReleaseTask, dbVars, taskVars
  <2>4. QED
    BY <1>1, <1>2, <2>3 DEF HeldByDead, Owns
<1>6. CASE BeginLoop(w) \/ ExecuteTaskRefused(w) \/ StartGroup(w) \/ JoinGroup(w)
             \/ StopLoop(w) \/ BlockForShutdown(w) \/ HandoffFails(w)
  BY <1>3, <1>6 DEF BeginLoop, ExecuteTaskRefused, StartGroup, JoinGroup, StopLoop,
     BlockForShutdown, HandoffFails, dbVars, taskVars
<1>7. CASE ExecuteTask(w) \/ \E r \in RunIds : ReconcileProcess(w, r) \/ ReconcileRemote(w, r)
  BY <1>3, <1>7 DEF ExecuteTask, heartbeatTask, ReconcileProcess, ReconcileRemote,
     confirmRemoteCancellation, dbVars, taskVars
<1>8. CASE \E f \in todo[w] : UnavailableStep(w, f) \/ \E r \in RunIds : CreateRun(w, f, r)
  BY <1>3, <1>8 DEF UnavailableStep, updateRouteStep, CreateRun, createRun, taskVars
<1>9. QED
  BY <1>4, <1>5, <1>6, <1>7, <1>8 DEF WorkerStep

\* A worker's own steps are not about worktrees and processes that are there.
LEMMA WorkerKeepsRuns ==
  ASSUME IInv, OwnedInv, ExecInv, TreeInv, NEW w \in Workers, WorkerStep(w)
  PROVE  /\ TreesStay /\ WorktreeExclusive'
         /\ \A q \in RunIds : RunTreeInv(q)' /\ LiveInv(q)' /\ (Orphan(q)' => Orphan(q))
<1>1. TreesStay
  BY WorkerFrame, WorkerTreeFrame DEF TreesStay
<1>2. ASSUME NEW q \in RunIds PROVE RunTreeInv(q)' /\ LiveInv(q)' /\ (Orphan(q)' => Orphan(q))
  <2>1. RunTreeInv(q) /\ LiveInv(q) /\ (q \in alive' => q \in alive)
    BY WorkerTreeFrame DEF TreeInv
  <2>2. CASE fpc[q] # "none"
    <3>1. /\ fpc'[q] = fpc[q] /\ ftree'[q] = ftree[q] /\ runTree'[q] = runTree[q] /\ runNote'[q] = runNote[q]
          /\ runStep'[q] = runStep[q] /\ runStatus'[q] = runStatus[q]
      BY <2>2, WorkerFrame, WorkerTreeFrame
    <3>2. QED
      BY <1>1, <2>1, <3>1, DeadOwnersStay, RunTreeKept, LiveKept DEF Orphan, Local, IsRemote
  <2>3. CASE fpc[q] = "none"
    <3>1. runTree[q] = NoRun /\ q \notin alive' /\ runTree'[q] = NoRun /\ fpc'[q] \in {"none", "created"}
      BY <2>1, <2>3, WorkerTreeFrame DEF RunTreeInv
    <3>2. QED
      BY <3>1 DEF RunTreeInv, LiveInv, Orphan, Local, TreeOf, Collected
  <2>4. QED
    BY <2>2, <2>3
<1>3. WorktreeExclusive'
  <2>1. \A q \in RunIds : q \in alive' => q \in alive /\ fpc[q] # "none"
    BY WorkerTreeFrame DEF TreeInv, RunTreeInv
  <2>2. alive' \subseteq RunIds
    BY WorkerTreeFrame DEF IInv, TypeOK, ProcTypeOK
  <2>3. QED
    BY <1>1, <2>1, <2>2, ExclusiveKept
<1>4. QED
  BY <1>1, <1>2, <1>3

\* The worktrees of other workers stay usable.
LEMMA OtherWorkersTree ==
  ASSUME IInv, OwnedInv, ExecInv, TreeInv, NEW w \in Workers, WorkerStep(w), NEW v \in Workers \ {w}
  PROVE  WorkerTreeInv(v)'
<1>1. \A q \in inflight[v] : q \in RunIds /\ fpc[q] # "none"
  BY DEF IInv, TypeOK, ProcTypeOK, ExecInv, GroupInv, InflightInv
<1>2. QED
  BY <1>1, WorkerFrame, WorkerTreeFrame, WorkerKeepsRuns, WorkerTreeKept

\* A retry inherits no worktree in which an orphaned process may be at work:
\* the run of such a process was cut off, as its worker is not this one.
LEMMA InheritedIsUsable ==
  ASSUME IInv, OwnedInv, ExecInv, TreeInv, NEW w \in Workers, Busy(w), NEW t \in Tasks, Owns(w, t)
  PROVE  /\ InheritedWorktree(t) \in RunIds \cup {NoRun} /\ Usable(t, InheritedWorktree(t))
         /\ t \in ParallelTasks => InheritedWorktree(t) = NoRun
<1> DEFINE latest == {r \in InheritableRuns(t) : \A q \in InheritableRuns(t) : q <= r}
           l == CHOOSE r \in latest : TRUE
<1>1. CASE t \in ParallelTasks \/ latest = {}
  <2>1. InheritedWorktree(t) = NoRun
    BY <1>1 DEF InheritedWorktree
  <2>2. QED
    BY <2>1 DEF Usable, TreeOf
<1>2. CASE ~ (t \in ParallelTasks \/ latest = {})
  <2>1. l \in latest
    BY <1>2, ChooseFromNonEmpty
  <2> DEFINE x == runTree[l]
  <2>2. InheritedWorktree(t) = x
    BY <1>2 DEF InheritedWorktree
  <2>3. /\ l \in RunIds /\ fpc[l] # "none" /\ StepTask[runStep[l]] = t
        /\ x # NoRun /\ x \notin QuarantinedWorktrees(t)
    BY <2>1 DEF InheritableRuns, RunsOf, StepsOf, IInv, EvidenceInOrder
  <2>4. x \in RunIds \cup {NoRun}
    BY <2>3 DEF IInv, TypeOK, DbTypeOK
  <2>5. TreeOf(t, x)
    BY <2>3 DEF TreeInv, RunTreeInv
  <2>6. ASSUME NEW q \in RunIds, Orphan(q), runTree[q] = x PROVE FALSE
    <3>1. /\ fpc[q] # "none" /\ StepTask[runStep[q]] = t
      BY <2>3, <2>6 DEF TreeInv, RunTreeInv, TreeOf, Orphan
    <3>2. q \in RunsOf(t)
      BY <3>1 DEF IInv, EvidenceInOrder, RunsOf, StepsOf
    <3>3. ~ CutOff(q)
      BY <2>3, <2>6, <3>2 DEF CutOff, ExpiredRuns, QuarantinedWorktrees
    <3>4. HeldByDead(t)
      BY <2>6, <3>1, <3>3 DEF TreeInv, LiveInv, Orphan
    <3>5. QED
      BY <3>4 DEF HeldByDead, Owns, Busy, Executing
  <2>7. QED
    BY <1>2, <2>2, <2>4, <2>5, <2>6 DEF Usable
<1>3. QED
  BY <1>1, <1>2

\* executeTask starts with the worktree of the latest run not quarantined.
LEMMA ExecuteTaskTree ==
  ASSUME IInv, OwnedInv, ExecInv, TreeInv, NEW w \in Workers, WorkerStep(w), ExecuteTask(w)
  PROVE  WorkerTreeInv(w)'
<1> DEFINE t == wtask[w]
<1>1. /\ wpc[w] = "claimed" /\ Owns(w, t) /\ t \in Tasks /\ Busy(w)
  BY DEF ExecuteTask, IInv, WorkerHasTask, Busy
<1>2. /\ wtask' = wtask /\ inflight' = inflight /\ todo' = todo
      /\ wtree'[w] = InheritedWorktree(t) /\ wpc'[w] # "group"
  BY DEF ExecuteTask, IInv, TypeOK, ProcTypeOK
<1>3. inflight[w] = {} /\ todo[w] = {}
  BY <1>1 DEF ExecInv, GroupInv, TodoInv, InflightInv, Executing
<1>4. Usable(wtask[w], wtree[w])'
  <2>1. PICK x \in RunIds \cup {NoRun}, u \in Tasks :
           x = InheritedWorktree(t) /\ u = t /\ Usable(u, x)
    BY <1>1, InheritedIsUsable
  <2>2. Usable(u, x)'
    BY <2>1, WorkerKeepsRuns, UsableKept
  <2>3. QED
    BY <1>2, <2>1, <2>2 DEF Usable, TreeOf
<1>5. t \in ParallelTasks => wtree'[w] = NoRun
  BY <1>1, <1>2, InheritedIsUsable
<1>6. QED
  BY <1>2, <1>3, <1>4, <1>5 DEF WorkerTreeInv, SideBySide

\* Candidates of a parallel plan start without a worktree to share.
LEMMA StartGroupTree ==
  ASSUME IInv, OwnedInv, ExecInv, TreeInv, NEW w \in Workers, WorkerStep(w), StartGroup(w)
  PROVE  WorkerTreeInv(w)'
<1>1. /\ wpc[w] = "loop" /\ wtask' = wtask /\ wtree' = wtree /\ inflight'[w] = {}
      /\ todo'[w] = todo[w] \cup (NextSequence(w) \X {TRUE})
      /\ snapshot'[w] = snapshot[w] \ NextSequence(w) /\ snapshot[w] # {}
  BY DEF StartGroup, IInv, TypeOK, ProcTypeOK
<1>2. wtask[w] \in Tasks /\ todo[w] = {} /\ wpc[w] \in Executing
  BY <1>1 DEF IInv, WorkerHasTask, Executing, ExecInv, GroupInv, TodoInv
<1>3. Usable(wtask[w], wtree[w])'
  <2>1. PICK x \in RunIds \cup {NoRun}, u \in Tasks : x = wtree[w] /\ u = wtask[w] /\ Usable(u, x)
    BY <1>2 DEF TreeInv, WorkerTreeInv, IInv, TypeOK, ProcTypeOK
  <2>2. Usable(u, x)'
    BY <2>1, WorkerKeepsRuns, UsableKept
  <2>3. QED
    BY <1>1, <2>1, <2>2 DEF Usable, TreeOf
<1>4. CASE wtask[w] \in ParallelTasks
  <2>1. snapshot'[w] = {} /\ wtree'[w] = NoRun
    BY <1>1, <1>2, <1>4, GroupSize DEF TreeInv, WorkerTreeInv, SideBySide
  <2>2. QED
    BY <1>1, <1>3, <1>4, <2>1 DEF WorkerTreeInv, SideBySide
<1>5. CASE wtask[w] \notin ParallelTasks
  BY <1>1, <1>3, <1>5 DEF WorkerTreeInv
<1>6. QED
  BY <1>4, <1>5

\* A settled group hands on the worktree its fibers made.
LEMMA JoinGroupTree ==
  ASSUME IInv, OwnedInv, ExecInv, TreeInv, NEW w \in Workers, WorkerStep(w), JoinGroup(w)
  PROVE  WorkerTreeInv(w)'
<1>1. /\ wpc[w] = "group" /\ wpc'[w] \in Executing \ {"group"} /\ wtree'[w] = GroupTree(w)
      /\ UNCHANGED << wtask, snapshot, todo, inflight, ftree >>
  BY DEF JoinGroup, IInv, TypeOK, ProcTypeOK, Executing, fiberVars
<1>2. wtask[w] \in Tasks /\ wpc[w] \in Executing /\ WorkerTreeInv(w)
  BY <1>1 DEF IInv, WorkerHasTask, Executing, TreeInv
<1>3. GroupTree(w) = wtree[w] \/ \E r \in inflight[w] : GroupTree(w) = ftree[r]
  <2> DEFINE made == {r \in inflight[w] : ftree[r] # NoRun}
  <2>1. made # {} => (CHOOSE r \in made : TRUE) \in made
    BY ChooseFromNonEmpty
  <2>2. QED
    BY <2>1 DEF GroupTree
<1>4. ASSUME NEW y \in {wtree[w]} \cup {ftree[r] : r \in inflight[w]}
      PROVE  y \in RunIds \cup {NoRun} /\ Usable(wtask[w], y)
  BY <1>2 DEF WorkerTreeInv, IInv, TypeOK, ProcTypeOK
<1>5. ASSUME NEW y \in {wtree[w]} \cup {ftree[r] : r \in inflight[w]},
             NEW x \in RunIds \cup {NoRun}, NEW u \in Tasks, x = y, u = wtask[w]
      PROVE  Usable(u, x)'
  BY <1>4, <1>5, WorkerKeepsRuns, UsableKept
<1>6. Usable(wtask[w], wtree[w])'
  <2>1. PICK x \in RunIds \cup {NoRun}, u \in Tasks : x = GroupTree(w) /\ u = wtask[w]
    BY <1>2, <1>3, <1>4
  <2>2. Usable(u, x)'
    BY <1>3, <1>5, <2>1
  <2>3. QED
    BY <1>1, <2>1, <2>2 DEF Usable, TreeOf
<1>7. ASSUME NEW r \in inflight[w] PROVE Usable(wtask[w], ftree[r])'
  <2>1. PICK x \in RunIds \cup {NoRun}, u \in Tasks : x = ftree[r] /\ u = wtask[w]
    BY <1>2, <1>4
  <2>2. Usable(u, x)'
    BY <1>5, <2>1
  <2>3. QED
    BY <1>1, <2>1, <2>2 DEF Usable, TreeOf
<1>8. QED
  BY <1>1, <1>2, <1>6, <1>7 DEF WorkerTreeInv, SideBySide

\* A new run has the worktree of its worker, or none yet.
LEMMA CreateRunTree ==
  ASSUME IInv, OwnedInv, ExecInv, TreeInv, NEW w \in Workers, WorkerStep(w),
         NEW f \in todo[w], NEW r \in RunIds, CreateRun(w, f, r)
  PROVE  WorkerTreeInv(w)'
<1>1. PICK s \in Steps : /\ f = <<s, TRUE>> /\ f[1] = s /\ f[2] = TRUE
                         /\ StepTask[s] = wtask[w] /\ Owns(w, wtask[w]) /\ wpc[w] = "group"
  BY TodoOwned
<1>2. /\ fpc[r] = "none" /\ ftree'[r] = wtree[w] /\ inflight'[w] = inflight[w] \cup {r}
      /\ todo'[w] = todo[w] \ {f} /\ UNCHANGED << wpc, wtask, snapshot, wtree >>
      /\ \A q \in RunIds \ {r} : ftree'[q] = ftree[q]
  BY <1>1 DEF CreateRun, createRun, NextRunId, IInv, EvidenceInOrder, TypeOK, ProcTypeOK
<1>3. /\ WorkerTreeInv(w) /\ wtask[w] \in Tasks /\ wpc[w] \in Executing
      /\ \A q \in inflight[w] : q \in RunIds \ {r}
  <2>1. WorkerTreeInv(w) /\ wtask[w] \in Tasks /\ wpc[w] \in Executing
    BY <1>1 DEF TreeInv, IInv, WorkerHasTask, Executing
  <2>2. inflight[w] \subseteq RunIds /\ InflightInv(w)
    BY DEF ExecInv, GroupInv, IInv, TypeOK, ProcTypeOK
  <2>3. QED
    BY <1>2, <2>1, <2>2 DEF InflightInv
<1>4. ASSUME NEW y \in {wtree[w]} \cup {ftree[q] : q \in inflight[w]}
      PROVE  y \in RunIds \cup {NoRun} /\ Usable(wtask[w], y)
  BY <1>3 DEF WorkerTreeInv, IInv, TypeOK, ProcTypeOK
<1>5. ASSUME NEW y \in {wtree[w]} \cup {ftree[q] : q \in inflight[w]},
             NEW x \in RunIds \cup {NoRun}, NEW u \in Tasks, x = y, u = wtask[w]
      PROVE  Usable(u, x)'
  BY <1>4, <1>5, WorkerKeepsRuns, UsableKept
<1>6. Usable(wtask[w], wtree[w])'
  <2>1. PICK x \in RunIds \cup {NoRun}, u \in Tasks : x = wtree[w] /\ u = wtask[w]
    BY <1>3, <1>4
  <2>2. Usable(u, x)'
    BY <1>5, <2>1
  <2>3. QED
    BY <1>2, <2>1, <2>2 DEF Usable, TreeOf
<1>7. ASSUME NEW q \in inflight[w] PROVE Usable(wtask[w], ftree[q])'
  <2>1. PICK x \in RunIds \cup {NoRun}, u \in Tasks : x = ftree[q] /\ u = wtask[w]
    BY <1>3, <1>4
  <2>2. Usable(u, x)'
    BY <1>5, <2>1
  <2>3. QED
    BY <1>2, <1>3, <2>1, <2>2 DEF Usable, TreeOf
<1>8. Usable(wtask[w], ftree[r])'
  BY <1>2, <1>6 DEF Usable, TreeOf
<1>9. (wtask[w] \in ParallelTasks => SideBySide(w))'
  BY <1>1, <1>2, <1>3 DEF WorkerTreeInv, SideBySide
<1>10. QED
  BY <1>2, <1>6, <1>7, <1>8, <1>9 DEF WorkerTreeInv

\* A worker's step keeps the invariant.
LEMMA WorkerTree ==
  ASSUME IInv, OwnedInv, ExecInv, TreeInv, NEW w \in Workers, WorkerStep(w)
  PROVE  TreeInv'
<1> USE DEF IInv, TypeOK, ProcTypeOK
<1>1. WorkerTreeInv(w)'
  <2>1. GroupInv(w) /\ TreesStay /\ \A q \in RunIds : Orphan(q)' => Orphan(q)
    BY WorkerKeepsRuns DEF ExecInv
  <2>2. CASE \/ BeginLoop(w) \/ StopLoop(w) \/ HandoffFails(w)
             \/ BlockForShutdown(w) /\ Goto(w, "blocking")
             \/ \E r \in RunIds : ReconcileProcess(w, r) \/ ReconcileRemote(w, r)
             \/ \E f \in todo[w] : UnavailableStep(w, f)
    <3>1. /\ wtask'[w] = wtask[w] /\ wtree'[w] = wtree[w] /\ inflight'[w] = inflight[w]
          /\ todo'[w] \subseteq todo[w] /\ snapshot'[w] = snapshot[w]
          /\ wpc'[w] \in Executing => wpc[w] \in Executing
          /\ wpc'[w] = "group" => wpc[w] = "group"
          /\ ftree' = ftree
      BY <2>2 DEF BeginLoop, StopLoop, HandoffFails, BlockForShutdown, ReconcileProcess, ReconcileRemote,
         UnavailableStep, Goto, workerVars, fiberVars, Executing
    <3>2. QED
      BY <2>1, <3>1, WorkerTreeKept
  <2>3. CASE LeaveTask(w) /\ wpc[w] # "group"
    <3>1. todo[w] = {}
      BY <2>1, <2>3 DEF GroupInv, TodoInv
    <3>2. wpc'[w] = "idle" /\ todo'[w] = {} /\ inflight'[w] = {} /\ snapshot'[w] = {}
      BY <2>3, <3>1 DEF LeaveTask, LeaveTaskWithout
    <3>3. QED
      BY <3>2, RestingWorkerTree DEF Executing
  <2>4. CASE BlockForShutdown(w) \/ BlockTask(w) \/ FinalizeTask(w) \/ ExecuteTaskRefused(w)
    BY <2>2, <2>3, <2>4 DEF BlockForShutdown, BlockTask, FinalizeTask, ExecuteTaskRefused
  <2>5. CASE \E t \in Tasks : ClaimNextTask(w, t)
    <3>1. wpc[w] = "idle" /\ wpc'[w] = "claimed" /\ UNCHANGED << todo, inflight, snapshot >>
      BY <2>5 DEF ClaimNextTask
    <3>2. todo[w] = {} /\ inflight[w] = {} /\ snapshot[w] = {}
      BY <3>1, IdleWorker DEF Busy, Executing
    <3>3. QED
      BY <3>1, <3>2, RestingWorkerTree DEF Executing
  <2>6. CASE \E f \in todo[w], r \in RunIds : CreateRun(w, f, r)
    BY <2>6, CreateRunTree
  <2>7. CASE ExecuteTask(w) \/ StartGroup(w) \/ JoinGroup(w)
    BY <2>7, ExecuteTaskTree, StartGroupTree, JoinGroupTree
  <2>8. QED
    BY <2>2, <2>4, <2>5, <2>6, <2>7 DEF WorkerStep
<1>2. QED
  BY <1>1, WorkerKeepsRuns, OtherWorkersTree DEF TreeInv

-----------------------------------------------------------------------------
(* The environment and the operator.                                        *)

\* Only tasks move, none of them away from a dead owner, or a worker starts.
LEMMA QuietTree ==
  ASSUME IInv, TreeInv,
         UNCHANGED << runTree, runStatus, runNote, runStep, fpc, ftree, alive >>,
         UNCHANGED << wtask, wtree, snapshot, todo, inflight >>,
         \A v \in Workers : wpc'[v] = wpc[v] \/ wpc'[v] = "recovering",
         \A t \in Tasks : HeldByDead(t) => HeldByDead(t)'
  PROVE  TreeInv'
<1>1. TreesStay
  BY DEF TreesStay
<1>2. ASSUME NEW q \in RunIds PROVE RunTreeInv(q)' /\ LiveInv(q)' /\ (Orphan(q)' => Orphan(q))
  BY <1>1, RunTreeKept, LiveKept DEF TreeInv, Orphan, Local, IsRemote
<1>3. ASSUME NEW v \in Workers PROVE WorkerTreeInv(v)'
  <2>1. /\ wpc'[v] \in Executing => wpc[v] \in Executing
        /\ wpc'[v] = "group" => wpc[v] = "group"
    BY DEF Executing
  <2>2. QED
    BY <1>1, <1>2, <2>1, WorkerTreeKept
<1>4. WorktreeExclusive'
  BY DEF TreeInv, WorktreeExclusive, IsRemote
<1>5. QED
  BY <1>2, <1>3, <1>4 DEF TreeInv

\* A recovery cuts off the runs of the tasks it takes from dead workers.
LEMMA RecoverTree ==
  ASSUME IInv, OwnedInv, ExecInv, TreeInv, NEW T \in SUBSET Tasks,
         recoverRunningTasks(T, "heartbeat-expired"),
         \A t \in T : \A v \in Workers : ~ AtWork(v, t),
         \A v \in Workers : wpc'[v] = wpc[v] \/ (wpc[v] = "off" /\ wpc'[v] = "recovering"),
         UNCHANGED << wtask, wtree, snapshot, todo, inflight, fpc, ftree, alive >>
  PROVE  TreeInv'
<1>1. TreesStay /\ UNCHANGED << runTree, runStep >>
  BY DEF TreesStay, recoverRunningTasks
<1>2. \A t \in Tasks \ T : HeldByDead(t) => HeldByDead(t)'
  BY DEF HeldByDead, Owns, recoverRunningTasks
<1>3. \A q \in RunIds : Orphan(q)' => Orphan(q)
  BY <1>1 DEF Orphan, Local, IsRemote
<1>4. ASSUME NEW q \in RunIds PROVE RunTreeInv(q)'
  BY <1>1, RunTreeKept DEF TreeInv
<1>5. ASSUME NEW q \in RunIds PROVE LiveInv(q)'
  <2>1. LiveInv(q) /\ (Local(q)' <=> Local(q))
    BY <1>1 DEF TreeInv, Local, IsRemote
  <2>2. CASE q \in ActiveRunsOf(T)
    <3>1. runNote'[q] = "heartbeat-expired"
      BY <2>2 DEF recoverRunningTasks
    <3>2. ASSUME fpc[q] = "catch" PROVE FALSE
      <4>1. /\ fworker[q] \in Workers /\ wpc[fworker[q]] = "group"
            /\ AtWork(fworker[q], StepTask[runStep[q]])
        BY <3>2, UnderwayInGroup DEF Underway, InCatch
      <4>2. QED
        BY <2>2, <4>1 DEF ActiveRunsOf
    <3>3. QED
      BY <1>1, <2>1, <3>1, <3>2 DEF LiveInv, CutOff
  <2>3. CASE q \notin ActiveRunsOf(T)
    <3>1. runStatus'[q] = runStatus[q] /\ runNote'[q] = runNote[q]
      BY <2>3 DEF recoverRunningTasks
    <3>2. ASSUME Local(q), fpc[q] = "dead", ~ CutOff(q) PROVE HeldByDead(StepTask[runStep[q]])'
      <4>1. /\ runStatus[q] \in {"starting", "running"} /\ HeldByDead(StepTask[runStep[q]])
            /\ runStep[q] \in Steps
        BY <2>1, <3>2 DEF LiveInv, IInv, EvidenceInOrder
      <4>2. StepTask[runStep[q]] \in Tasks \ T
        BY <2>3, <4>1, StepAssumption, NullAssumption DEF ActiveRunsOf
      <4>3. QED
        BY <1>1, <1>2, <4>1, <4>2
    <3>3. QED
      BY <1>1, <2>1, <3>1, <3>2 DEF LiveInv, CutOff
  <2>4. QED
    BY <2>2, <2>3
<1>6. ASSUME NEW v \in Workers PROVE WorkerTreeInv(v)'
  <2>1. /\ wpc'[v] \in Executing => wpc[v] \in Executing
        /\ wpc'[v] = "group" => wpc[v] = "group"
    BY DEF Executing
  <2>2. QED
    BY <1>1, <1>3, <2>1, WorkerTreeKept
<1>7. WorktreeExclusive'
  BY <1>1 DEF TreeInv, WorktreeExclusive, IsRemote
<1>8. QED
  BY <1>4, <1>5, <1>6, <1>7 DEF TreeInv

\* A crash orphans the processes of the worker: their runs are active and their
\* task is held by the dead.
\* Any other worker that abandons its task leaves no process.
LEMMA AbandonTree ==
  ASSUME IInv, OwnedInv, ExecInv, TreeInv, NEW w \in Workers, Abandons(w), wpc[w] # "dead",
         UNCHANGED << dbVars, ftree, alive >>, \A v \in Workers \ {w} : wtree'[v] = wtree[v],
         wpc'[w] = "dead" \/ \A q \in RunIds : Underway(q) /\ fworker[q] = w => ~ Local(q)
  PROVE  TreeInv'
<1>1. /\ UNCHANGED << taskStatus, claimedBy, runTree, runStatus, runNote, runStep, ftree, alive >>
      /\ wpc'[w] \in {"idle", "dead"} /\ todo'[w] = {} /\ inflight'[w] = {} /\ snapshot'[w] = {}
      /\ \A v \in Workers \ {w} :
           /\ wpc'[v] = wpc[v] /\ wtask'[v] = wtask[v] /\ snapshot'[v] = snapshot[v]
           /\ todo'[v] = todo[v] /\ inflight'[v] = inflight[v] /\ wtree'[v] = wtree[v]
  BY DEF Abandons, dbVars, taskVars, runVars
<1>2. /\ \A q \in RunIds : Underway(q) /\ fworker[q] = w => fpc'[q] = "dead"
      /\ \A q \in RunIds : ~ (Underway(q) /\ fworker[q] = w) => fpc'[q] = fpc[q]
  BY DEF Abandons
<1>3. TreesStay
  BY <1>1, <1>2 DEF TreesStay, Underway
<1>4. \A t \in Tasks : HeldByDead(t) => HeldByDead(t)'
  BY <1>1 DEF HeldByDead, Owns
<1>5. ASSUME NEW q \in RunIds, Underway(q), fworker[q] = w
      PROVE  /\ RunTreeInv(q)' /\ LiveInv(q)' /\ Owns(w, StepTask[runStep[q]]) /\ fpc[q] # "none"
             /\ Local(q) => runTree[q] # NoRun
  <2>1. RunTreeInv(q) /\ LiveInv(q) /\ FiberInv(q) /\ fpc'[q] = "dead" /\ fpc[q] # "none"
    BY <1>2, <1>5 DEF TreeInv, ExecInv, Underway, InTry, InCatch
  <2>2. Owns(w, StepTask[runStep[q]])
    BY <1>5, UnderwayInGroup
  <2>3. RunTreeInv(q)'
    <3>1. runTree[q] \in RunIds \cup {NoRun}
      BY DEF IInv, TypeOK, DbTypeOK
    <3>2. QED
      BY <1>1, <1>3, <2>1, <3>1 DEF RunTreeInv, TreeOf, TreesStay, Collected
  <2>4. LiveInv(q)'
    <3>1. Local(q)' => Local(q)
      BY <1>1 DEF Local, IsRemote
    <3>2. Local(q) => runStatus[q] \in {"starting", "running"}
      BY <1>5, <2>1 DEF LiveInv, FiberInv, Collected, Underway, InTry, InCatch
    <3>3. Local(q) => HeldByDead(StepTask[runStep[q]])'
      BY <1>1, <1>5, <2>2 DEF HeldByDead, Owns
    <3>4. QED
      BY <1>1, <2>1, <3>1, <3>2, <3>3 DEF LiveInv
  <2>5. QED
    BY <2>1, <2>2, <2>3, <2>4 DEF LiveInv
<1>6. ASSUME NEW q \in RunIds, ~ (Underway(q) /\ fworker[q] = w)
      PROVE  RunTreeInv(q)' /\ LiveInv(q)' /\ (Orphan(q)' => Orphan(q))
  <2>1. RunTreeInv(q) /\ LiveInv(q) /\ fpc'[q] = fpc[q]
    BY <1>2, <1>6 DEF TreeInv
  <2>2. QED
    BY <1>1, <1>3, <1>4, <2>1, RunTreeKept, LiveKept DEF Orphan, Local, IsRemote
<1>7. ASSUME NEW v \in Workers PROVE WorkerTreeInv(v)'
  <2>1. CASE v = w
    BY <1>1, <2>1, RestingWorkerTree DEF Executing
  <2>2. CASE v # w /\ (wpc[v] \in Executing \/ inflight[v] # {})
    <3>1. Owns(v, wtask[v])
      BY <2>2 DEF OwnedInv, Claimed, Busy, ExecInv, GroupInv, InflightInv
    <3>2. ASSUME NEW q \in RunIds, Orphan(q)', ~ Orphan(q)
          PROVE  fpc[q] # "none" /\ runTree[q] # NoRun /\ StepTask[runStep[q]] # wtask[v]
      <4>1. Underway(q) /\ fworker[q] = w /\ Local(q)
        BY <1>1, <1>6, <3>2 DEF Orphan, Local, IsRemote
      <4>2. QED
        BY <1>5, <2>2, <3>1, <4>1 DEF Owns
    <3>3. QED
      BY <1>1, <1>3, <2>2, <3>2, WorkerTreeKept
  <2>3. CASE v # w /\ wpc[v] \notin Executing /\ inflight[v] = {}
    <3>1. WorkerTreeInv(v)
      BY DEF TreeInv
    <3>2. QED
      BY <1>1, <2>3, <3>1 DEF WorkerTreeInv, SideBySide
  <2>4. QED
    BY <2>1, <2>2, <2>3
<1>8. WorktreeExclusive'
  BY <1>1 DEF TreeInv, WorktreeExclusive, IsRemote
<1>9. QED
  BY <1>5, <1>6, <1>7, <1>8 DEF TreeInv

\* A worker that starts recovers tasks that no worker works on; with no daemon
\* there is no other recovery.
LEMMA EnvironmentTree ==
  ASSUME MaxStalls = 0, MaxFaults = 0 \/ ParallelTasks = {}, DaemonWorkers = {},
         IInv, OwnedInv, ExecInv, LoneInv, TreeInv, Environment
  PROVE  TreeInv'
<1>1. ASSUME NEW w \in Workers, StartWorker(w) PROVE TreeInv'
  <2>1. \A t \in LapsedTasks : \A v \in Workers : ~ AtWork(v, t)
    BY DEF AtWork, LapsedTasks, OwnedInv, Claimed
  <2>2. \A v \in Workers : wpc'[v] = wpc[v] \/ (wpc[v] = "off" /\ wpc'[v] = "recovering")
    BY <1>1 DEF StartWorker, Goto, IInv, TypeOK, ProcTypeOK
  <2>3. LapsedTasks \in SUBSET Tasks
    BY DEF LapsedTasks
  <2>4. QED
    BY <1>1, <2>1, <2>2, <2>3, RecoverTree DEF StartWorker, recoverStaleTasks, Goto, fiberVars, worldVars
<1>2. ~ \E w, d \in Workers : RecoverDeadWorker(w, d)
  BY DEF RecoverDeadWorker
<1>3. ASSUME NEW w \in Workers, Crash(w) PROVE TreeInv'
  <2>1. Abandons(w) /\ wpc[w] # "dead" /\ wpc'[w] = "dead"
    BY <1>3 DEF Abandons, Crash, IInv, TypeOK, ProcTypeOK, dbVars, taskVars, stepVars, runVars
  <2>2. UNCHANGED << dbVars, ftree, alive >> /\ \A v \in Workers \ {w} : wtree'[v] = wtree[v]
    BY <1>3 DEF Crash, worldVars, IInv, TypeOK, ProcTypeOK
  <2>3. QED
    BY <2>1, <2>2, AbandonTree
<1>4. ASSUME NEW w \in Workers, RequestShutdown(w) PROVE TreeInv'
  BY <1>4, QuietTree DEF RequestShutdown, HeldByDead, Owns, dbVars, taskVars, stepVars, runVars,
     workerVars, fiberVars, worldVars
<1>5. ASSUME NEW w \in Workers, Heartbeat(w) PROVE TreeInv'
  BY <1>5, QuietTree DEF Heartbeat, heartbeatTask, HeldByDead, Owns, procVars, stepVars, runVars,
     workerVars, fiberVars, worldVars
<1>6. ASSUME NEW t \in Tasks, ClaimLapses(t) PROVE TreeInv'
  BY <1>6, QuietTree DEF ClaimLapses, ClaimAges, HeldByDead, Owns, procVars, stepVars, runVars,
     workerVars, fiberVars, worldVars
<1>7. ~ \E t \in Tasks : ClaimStalls(t)
  BY DEF ClaimStalls, IInv, TypeOK, ProcTypeOK
<1>8. ASSUME NEW w \in Workers, Rejects(w)
      PROVE  TreeInv'
  <2>1. ParallelTasks = {}
    BY <1>8, RejectionIsFault
  <2>2. Abandons(w) /\ Busy(w) /\ UNCHANGED << dbVars, ftree, alive >>
    BY <1>8, <2>1, RejectionAbandons
  <2>3. ASSUME NEW q \in RunIds, Underway(q), fworker[q] = w PROVE ~ Local(q)
    BY <1>8, <2>1, <2>3, RejectionAbandons DEF TreeInv, LiveInv
  <2>4. wpc[w] # "dead" /\ \A v \in Workers \ {w} : wtree'[v] = wtree[v]
    BY <1>8, <2>1, <2>2, RejectionAbandons DEF Busy, Executing
  <2>5. QED
    BY <2>2, <2>3, <2>4, AbandonTree
<1>9. ASSUME NEW r \in RunIds, StepThrows(r) PROVE TreeInv'
  BY <1>8, <1>9, UnderwayInGroup DEF Rejects, StepThrows, Underway, InTry, InCatch
<1>10. QED
  BY <1>1, <1>2, <1>3, <1>4, <1>5, <1>6, <1>7, <1>8, <1>9 DEF Environment, Rejects

\* The operator decides about tasks that no worker holds.
LEMMA OperatorTree ==
  ASSUME IInv, TreeInv, Operator
  PROVE  TreeInv'
<1>1. /\ UNCHANGED << runTree, runStatus, runNote, runStep, fpc, ftree, alive >>
      /\ UNCHANGED << wpc, wtask, wtree, snapshot, todo, inflight >>
  BY DEF Operator, CreateTask, ApproveReview, RequestRework, RetryBlockedTask, Requeue, createTask,
     approveTaskReview, requestTaskRework, retryBlockedTask, procVars, workerVars, fiberVars, worldVars, runVars
<1>2. PICK t \in Tasks : OperatorMove(t)
  BY OperatorMoves
<1>3. \A u \in Tasks : HeldByDead(u) => HeldByDead(u)'
  BY <1>1, <1>2 DEF HeldByDead, Owns, OperatorMove
<1>4. QED
  BY <1>1, <1>3, QuietTree

\* Inductive.
LEMMA TreeInvStep ==
  ASSUME MaxStalls = 0, MaxFaults = 0 \/ ParallelTasks = {}, DaemonWorkers = {},
         IInv, OwnedInv, ExecInv, LoneInv, TreeInv, [Next]_vars
  PROVE  TreeInv'
<1>1. CASE UNCHANGED vars
  BY <1>1, QuietTree DEF vars, dbVars, taskVars, stepVars, runVars, procVars, workerVars, fiberVars,
     worldVars, HeldByDead, Owns
<1>2. ASSUME NEW w \in Workers, WorkerStep(w) PROVE TreeInv'
  BY <1>2, WorkerTree
<1>3. ASSUME NEW r \in RunIds, FiberStep(r) PROVE TreeInv'
  BY <1>3, FiberTree
<1>4. QED
  BY <1>1, <1>2, <1>3, EnvironmentTree, OperatorTree DEF Next

\* Initially there is no worktree and no process.
LEMMA TreeInvInit == Init => TreeInv
<1> SUFFICES ASSUME Init PROVE TreeInv
  OBVIOUS
<1>1. /\ \A r \in RunIds : fpc[r] = "none" /\ runTree[r] = NoRun /\ r \notin alive
      /\ \A w \in Workers : wpc[w] = "off" /\ todo[w] = {} /\ inflight[w] = {} /\ snapshot[w] = {}
  BY DEF Init, DbInit
<1>2. ASSUME NEW r \in RunIds PROVE RunTreeInv(r) /\ LiveInv(r)
  BY <1>1 DEF RunTreeInv, LiveInv, Local, Collected
<1>3. ASSUME NEW w \in Workers PROVE WorkerTreeInv(w)
  <2>1. wpc[w] \notin Executing /\ wpc[w] # "group" /\ todo[w] = {} /\ inflight[w] = {} /\ snapshot[w] = {}
    BY <1>1 DEF Executing
  <2>2. SideBySide(w)
    BY <2>1 DEF SideBySide
  <2>3. QED
    BY <2>1, <2>2 DEF WorkerTreeInv
<1>4. alive = {} /\ WorktreeExclusive
  BY DEF Init, WorktreeExclusive
<1>5. QED
  BY <1>2, <1>3, <1>4 DEF TreeInv

\* Under the same conditions and without daemons, agents and verifiers never
\* share a worktree: whoever reuses the worktree of an earlier run
\* (#executeClaimedTask, coordinator.ts) finds the process of that run gone,
\* since the runs whose worker died are cut off by the recovery and the
\* worktrees of such runs are not reused.
THEOREM OneProcessPerWorktree ==
  ASSUME MaxStalls = 0, MaxFaults = 0 \/ ParallelTasks = {}, DaemonWorkers = {}
  PROVE  Spec => []WorktreeExclusive
<1>1. IInv /\ OwnedInv /\ ExecInv /\ LoneInv /\ TreeInv /\ [Next]_vars => TreeInv'
  BY TreeInvStep
<1>2. TreeInv => WorktreeExclusive
  BY DEF TreeInv
<1>3. QED
  BY <1>1, <1>2, TreeInvInit, ExecInductive, PTL DEF Spec
==============================================================================
