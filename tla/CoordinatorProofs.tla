------------------------- MODULE CoordinatorProofs -------------------------
(***************************************************************************)
(* What the database guarantees whatever its callers do; that the           *)
(* coordinators use it only through its operations, and so inherit these    *)
(* guarantees; that a run recorded as succeeded has its evidence, for any   *)
(* number of tasks, steps and workers, whatever crashes, stalls or fails on *)
(* the way; and that, while heartbeats arrive in time, a worker owns the    *)
(* task it executes, so that tasks and reviews agree.                       *)
(***************************************************************************)
EXTENDS Coordinator, FiniteSetTheorems, TLAPS

-----------------------------------------------------------------------------
(* The database.                                                            *)

\* Every operation of db.ts leaves every column within its domain.
LEMMA DbTypeStep == DbTypeOK /\ [DbNext]_dbVars => DbTypeOK'
<1> SUFFICES ASSUME DbTypeOK, [DbNext]_dbVars PROVE DbTypeOK'
  OBVIOUS
<1> USE DEF DbTypeOK, TaskStatus, RouteStepStatus, RunStatus, ReviewStatus, RunNote,
            NoRun, taskVars, stepVars, runVars, reviewVars
<1>1. ASSUME NEW t \in Tasks, createTask(t) PROVE DbTypeOK'
  BY <1>1 DEF createTask
<1>2. ASSUME NEW t \in Tasks, ClaimAges(t) PROVE DbTypeOK'
  BY <1>2 DEF ClaimAges
<1>3. ASSUME NEW t \in Tasks, NEW w \in Workers, claimNextTask(w, t) PROVE DbTypeOK'
  BY <1>3 DEF claimNextTask
<1>4. ASSUME NEW t \in Tasks, NEW w \in Workers, heartbeatTask(t, w) PROVE DbTypeOK'
  BY <1>4 DEF heartbeatTask
<1>5. ASSUME NEW t \in Tasks, NEW status \in TaskStatus, updateTaskStatus(t, status)
      PROVE  DbTypeOK'
  BY <1>5 DEF updateTaskStatus, ReleaseTask
<1>6. ASSUME NEW t \in Tasks, finalizeDone(t) PROVE DbTypeOK'
  BY <1>6 DEF finalizeDone, ReleaseTask
<1>7. ASSUME NEW t \in Tasks, NEW v \in ReviewIds, finalizeNeedsReview(t, v) PROVE DbTypeOK'
  BY <1>7 DEF finalizeNeedsReview, ReleaseTask
<1>8. ASSUME NEW t \in Tasks, NEW v \in ReviewIds, approveTaskReview(t, v) PROVE DbTypeOK'
  BY <1>8 DEF approveTaskReview, ReleaseTask
<1>9. ASSUME NEW t \in Tasks, NEW v \in ReviewIds, requestTaskRework(t, v) PROVE DbTypeOK'
  BY <1>9 DEF requestTaskRework, ReleaseTask, ResetSteps
<1>10. ASSUME NEW t \in Tasks, NEW allow \in BOOLEAN, retryBlockedTask(t, allow) PROVE DbTypeOK'
  BY <1>10 DEF retryBlockedTask, ReleaseTask, ResetSteps
<1>11. ASSUME NEW T \in SUBSET Tasks, NEW note \in RunNote, recoverRunningTasks(T, note)
       PROVE  DbTypeOK'
  BY <1>11 DEF recoverRunningTasks, RecoveredStatus
<1>12. ASSUME recoverStaleTasks PROVE DbTypeOK'
  BY <1>11, <1>12 DEF recoverStaleTasks, LapsedTasks
<1>13. ASSUME NEW d \in Workers, recoverTasksOwnedBy(d) PROVE DbTypeOK'
  BY <1>11, <1>13 DEF recoverTasksOwnedBy, TasksOwnedBy
<1>14. ASSUME NEW s \in Steps, NEW status \in RouteStepStatus, NEW run \in RunIds \cup {NoRun},
              updateRouteStep(s, status, run)
       PROVE  DbTypeOK'
  BY <1>14 DEF updateRouteStep
<1>15. ASSUME NEW s \in Steps, NEW r \in RunIds, createRun(s, r) PROVE DbTypeOK'
  BY <1>15 DEF createRun
<1>16. ASSUME NEW r \in RunIds, NEW status \in RunStatus, updateRun(r, status) PROVE DbTypeOK'
  BY <1>16 DEF updateRun
<1>17. ASSUME NEW r \in RunIds, NEW tree \in RunIds, updateRunTree(r, tree) PROVE DbTypeOK'
  BY <1>17 DEF updateRunTree
<1>18. ASSUME NEW r \in RunIds, confirmRemoteCancellation(r) PROVE DbTypeOK'
  BY <1>18 DEF confirmRemoteCancellation
<1>19. ASSUME UNCHANGED dbVars PROVE DbTypeOK'
  BY <1>19 DEF dbVars
<1>20. ASSUME NEW t \in Tasks, resetRouteSteps(t) PROVE DbTypeOK'
  BY <1>20 DEF resetRouteSteps, ResetSteps
<1>21. ASSUME NEW t \in Tasks, NEW v \in ReviewIds, createReview(t, v) PROVE DbTypeOK'
  BY <1>21 DEF createReview
<1>22. ASSUME NEW v \in ReviewIds, NEW status \in ReviewStatus \ {"pending"},
              decideReview(v, status)
       PROVE  DbTypeOK'
  BY <1>22 DEF decideReview
<1>23. CASE DbCalls(TaskStatus, RunStatus)
  BY <1>23, <1>1, <1>2, <1>3, <1>4, <1>5, <1>6, <1>7, <1>8, <1>9, <1>10, <1>12, <1>13,
     <1>14, <1>15, <1>16, <1>17, <1>18 DEF DbCalls
<1>24. QED
  BY <1>19, <1>20, <1>21, <1>22, <1>23 DEF DbNext

\* The tables are typed, whatever the callers do.
THEOREM DbTypeCorrect == DbSpec => []DbTypeOK
<1>1. DbInit => DbTypeOK
  BY NullAssumption DEF DbInit, DbTypeOK, RouteStepStatus, RunNote, NoRun
<1>2. QED
  BY <1>1, DbTypeStep, PTL DEF DbSpec

\* The operations that write no column of a task.
StepsRunsOrReviewsMove ==
  \/ \E s \in Steps, status \in RouteStepStatus, run \in RunIds \cup {NoRun} :
       updateRouteStep(s, status, run)
  \/ \E s \in Steps, r \in RunIds : createRun(s, r)
  \/ \E r \in RunIds, status \in RunStatus : updateRun(r, status)
  \/ \E r \in RunIds, tree \in RunIds : updateRunTree(r, tree)
  \/ \E r \in RunIds : confirmRemoteCancellation(r)
  \/ \E t \in Tasks : resetRouteSteps(t) \/ \E v \in ReviewIds : createReview(t, v)
  \/ \E v \in ReviewIds, status \in ReviewStatus : decideReview(v, status)

LEMMA TasksUntouched == StepsRunsOrReviewsMove => UNCHANGED taskVars
BY DEF StepsRunsOrReviewsMove, updateRouteStep, createRun, updateRun, updateRunTree,
   confirmRemoteCancellation, resetRouteSteps, createReview, decideReview, taskVars

\* The operations that write no column of a run.
RunsUntouchedStep ==
  \/ \E t \in Tasks :
       \/ createTask(t) \/ ClaimAges(t)
       \/ \E w \in Workers : claimNextTask(w, t) \/ heartbeatTask(t, w)
       \/ \E status \in TaskStatus : updateTaskStatus(t, status)
       \/ finalizeDone(t) \/ resetRouteSteps(t)
       \/ \E v \in ReviewIds : \/ finalizeNeedsReview(t, v) \/ approveTaskReview(t, v)
                               \/ requestTaskRework(t, v) \/ createReview(t, v)
       \/ \E allow \in BOOLEAN : retryBlockedTask(t, allow)
  \/ \E s \in Steps, status \in RouteStepStatus, run \in RunIds \cup {NoRun} :
       updateRouteStep(s, status, run)
  \/ \E v \in ReviewIds, status \in ReviewStatus : decideReview(v, status)

LEMMA RunsUntouched == RunsUntouchedStep => UNCHANGED runVars
BY DEF RunsUntouchedStep, createTask, ClaimAges, claimNextTask, heartbeatTask, updateTaskStatus,
   finalizeDone, resetRouteSteps, finalizeNeedsReview, approveTaskReview, requestTaskRework,
   createReview, retryBlockedTask, updateRouteStep, decideReview, runVars

\* Only a running task has an owner: a claim vanishes with the status, in every
\* operation of db.ts that takes a task out of "running".
THEOREM ClaimsAreOfRunningTasks == DbSpec => []OnlyRunningIsClaimed
<1>1. DbInit => OnlyRunningIsClaimed
  BY DEF DbInit, OnlyRunningIsClaimed
<1>2. DbTypeOK /\ OnlyRunningIsClaimed /\ [DbNext]_dbVars => OnlyRunningIsClaimed'
  <2> SUFFICES ASSUME DbTypeOK, OnlyRunningIsClaimed, [DbNext]_dbVars
               PROVE  OnlyRunningIsClaimed'
    OBVIOUS
  <2> USE DEF DbTypeOK, OnlyRunningIsClaimed
  <2>1. ASSUME NEW t \in Tasks, createTask(t) PROVE OnlyRunningIsClaimed'
    BY <2>1 DEF createTask
  <2>2. ASSUME NEW t \in Tasks, ClaimAges(t) PROVE OnlyRunningIsClaimed'
    BY <2>2 DEF ClaimAges
  <2>3. ASSUME NEW t \in Tasks, NEW w \in Workers, claimNextTask(w, t)
        PROVE  OnlyRunningIsClaimed'
    BY <2>3 DEF claimNextTask
  <2>4. ASSUME NEW t \in Tasks, NEW w \in Workers, heartbeatTask(t, w)
        PROVE  OnlyRunningIsClaimed'
    BY <2>4 DEF heartbeatTask
  <2>5. ASSUME NEW t \in Tasks, NEW status, ReleaseTask(t, status) PROVE OnlyRunningIsClaimed'
    BY <2>5 DEF ReleaseTask
  <2>6. ASSUME NEW t \in Tasks, NEW status \in TaskStatus, updateTaskStatus(t, status)
        PROVE  OnlyRunningIsClaimed'
    BY <2>5, <2>6 DEF updateTaskStatus
  <2>7. ASSUME NEW t \in Tasks, finalizeDone(t) PROVE OnlyRunningIsClaimed'
    BY <2>5, <2>7 DEF finalizeDone
  <2>8. ASSUME NEW t \in Tasks, NEW v \in ReviewIds,
               \/ finalizeNeedsReview(t, v) \/ approveTaskReview(t, v) \/ requestTaskRework(t, v)
        PROVE  OnlyRunningIsClaimed'
    BY <2>5, <2>8 DEF finalizeNeedsReview, approveTaskReview, requestTaskRework
  <2>9. ASSUME NEW t \in Tasks, NEW allow \in BOOLEAN, retryBlockedTask(t, allow)
        PROVE  OnlyRunningIsClaimed'
    BY <2>5, <2>9 DEF retryBlockedTask
  <2>10. ASSUME NEW T, NEW note, recoverRunningTasks(T, note) PROVE OnlyRunningIsClaimed'
    BY <2>10 DEF recoverRunningTasks
  <2>11. ASSUME recoverStaleTasks \/ \E d \in Workers : recoverTasksOwnedBy(d)
         PROVE  OnlyRunningIsClaimed'
    BY <2>10, <2>11 DEF recoverStaleTasks, recoverTasksOwnedBy
  <2>12. ASSUME UNCHANGED taskVars PROVE OnlyRunningIsClaimed'
    BY <2>12 DEF taskVars
  <2>13. ASSUME StepsRunsOrReviewsMove PROVE OnlyRunningIsClaimed'
    BY <2>12, <2>13, TasksUntouched
  <2>14. QED
    BY <2>1, <2>2, <2>3, <2>4, <2>6, <2>7, <2>8, <2>9, <2>11, <2>12, <2>13
       DEF DbNext, DbCalls, StepsRunsOrReviewsMove, dbVars
<1>3. QED
  BY <1>1, <1>2, DbTypeCorrect, PTL DEF DbSpec

\* The statuses of tasks move along the table of protocol.ts, whichever
\* operation writes them.
LEMMA TasksMove == DbTypeOK /\ [DbNext]_dbVars => \A u \in Tasks : TaskMoves(u)
<1> SUFFICES ASSUME DbTypeOK, [DbNext]_dbVars, NEW u \in Tasks PROVE TaskMoves(u)
  OBVIOUS
<1> USE DEF TaskMoves, DbTypeOK, TaskTransitionAllowed
<1>1. ASSUME taskStatus'[u] = taskStatus[u] PROVE TaskMoves(u)
  BY <1>1
<1>2. ASSUME NEW t \in Tasks, NEW from \in TaskStatus, NEW to \in TaskStatus,
             taskStatus[t] = from, taskStatus' = [taskStatus EXCEPT ![t] = to],
             from = to \/ to \in TASK_TRANSITIONS[from]
      PROVE  TaskMoves(u)
  BY <1>1, <1>2 DEF TaskStatus
<1>3. /\ "blocked" \in TASK_TRANSITIONS["running"]
      /\ "done" \in TASK_TRANSITIONS["running"]
      /\ "needs-review" \in TASK_TRANSITIONS["running"]
      /\ "done" \in TASK_TRANSITIONS["needs-review"]
      /\ "queued" \in TASK_TRANSITIONS["needs-review"]
      /\ "queued" \in TASK_TRANSITIONS["blocked"]
      /\ "running" \in TASK_TRANSITIONS["queued"]
  BY DEF TASK_TRANSITIONS, TaskStatus
<1>4. ASSUME NEW t \in Tasks, createTask(t) PROVE TaskMoves(u)
  BY <1>1, <1>4 DEF createTask
<1>5. ASSUME NEW t \in Tasks, \E w \in Workers : claimNextTask(w, t) PROVE TaskMoves(u)
  BY <1>2, <1>3, <1>5 DEF claimNextTask, NextToClaim, TaskStatus
<1>6. ASSUME NEW t \in Tasks,
             ClaimAges(t) \/ \E w \in Workers : heartbeatTask(t, w)
      PROVE  TaskMoves(u)
  BY <1>1, <1>6 DEF ClaimAges, heartbeatTask
<1>7. ASSUME NEW t \in Tasks, NEW status \in TaskStatus, updateTaskStatus(t, status)
      PROVE  TaskMoves(u)
  BY <1>2, <1>7 DEF updateTaskStatus, ReleaseTask
<1>8. ASSUME NEW t \in Tasks, finalizeDone(t) PROVE TaskMoves(u)
  BY <1>2, <1>3, <1>8 DEF finalizeDone, ReleaseTask, TaskStatus
<1>9. ASSUME NEW t \in Tasks, NEW v \in ReviewIds,
             \/ finalizeNeedsReview(t, v) \/ approveTaskReview(t, v) \/ requestTaskRework(t, v)
      PROVE  TaskMoves(u)
  BY <1>2, <1>3, <1>9 DEF finalizeNeedsReview, approveTaskReview, requestTaskRework,
     Decidable, ReleaseTask, TaskStatus
<1>10. ASSUME NEW t \in Tasks, NEW allow \in BOOLEAN, retryBlockedTask(t, allow)
       PROVE  TaskMoves(u)
  BY <1>2, <1>3, <1>10 DEF retryBlockedTask, ReleaseTask, TaskStatus
<1>11. ASSUME NEW T, NEW note, recoverRunningTasks(T, note), \A t \in T : taskStatus[t] = "running"
       PROVE  TaskMoves(u)
  BY <1>3, <1>11 DEF recoverRunningTasks
<1>12. ASSUME recoverStaleTasks \/ \E d \in Workers : recoverTasksOwnedBy(d)
       PROVE  TaskMoves(u)
  <2>1. \A t \in LapsedTasks : taskStatus[t] = "running"
    BY DEF LapsedTasks
  <2>2. \A d \in Workers : \A t \in TasksOwnedBy(d) : taskStatus[t] = "running"
    BY DEF TasksOwnedBy, Owns
  <2>3. QED
    BY <1>11, <1>12, <2>1, <2>2 DEF recoverStaleTasks, recoverTasksOwnedBy
<1>13. ASSUME UNCHANGED taskVars PROVE TaskMoves(u)
  BY <1>1, <1>13 DEF taskVars
<1>14. ASSUME StepsRunsOrReviewsMove PROVE TaskMoves(u)
  BY <1>13, <1>14, TasksUntouched
<1>15. QED
  BY <1>4, <1>5, <1>6, <1>7, <1>8, <1>9, <1>10, <1>12, <1>13, <1>14
     DEF DbNext, DbCalls, StepsRunsOrReviewsMove, dbVars

\* So do the statuses of runs.
LEMMA RunsMove == DbTypeOK /\ [DbNext]_dbVars => \A q \in RunIds : RunMoves(q)
<1> SUFFICES ASSUME DbTypeOK, [DbNext]_dbVars, NEW q \in RunIds PROVE RunMoves(q)
  OBVIOUS
<1> USE DEF RunMoves, DbTypeOK, RunTransitionAllowed
<1>1. ASSUME runStatus' = runStatus PROVE RunMoves(q)
  BY <1>1
<1>2. ASSUME NEW T, NEW note, recoverRunningTasks(T, note) PROVE RunMoves(q)
  <2>1. "failed" \in RUN_TRANSITIONS["starting"] /\ "stale" \in RUN_TRANSITIONS["running"]
    BY DEF RUN_TRANSITIONS, RunStatus
  <2>2. QED
    BY <1>2, <2>1 DEF recoverRunningTasks, ActiveRunsOf, RecoveredStatus
<1>3. CASE recoverStaleTasks \/ \E d \in Workers : recoverTasksOwnedBy(d)
  BY <1>2, <1>3 DEF recoverStaleTasks, recoverTasksOwnedBy
<1>4. ASSUME NEW s \in Steps, NEW r \in RunIds, createRun(s, r) PROVE RunMoves(q)
  BY <1>4 DEF createRun, NextRunId
<1>5. ASSUME NEW r \in RunIds, NEW status \in RunStatus, updateRun(r, status) PROVE RunMoves(q)
  BY <1>5 DEF updateRun, CanUpdateRun
<1>6. ASSUME NEW r \in RunIds,
             (\E tree \in RunIds : updateRunTree(r, tree)) \/ confirmRemoteCancellation(r)
      PROVE  RunMoves(q)
  BY <1>1, <1>6 DEF updateRunTree, confirmRemoteCancellation
<1>7. CASE RunsUntouchedStep
  BY <1>1, <1>7, RunsUntouched DEF runVars
<1>8. QED
  BY <1>1, <1>3, <1>4, <1>5, <1>6, <1>7 DEF DbNext, DbCalls, RunsUntouchedStep, dbVars, runVars

\* No row takes a way that the tables do not have, whatever is called, although
\* claim, recovery, completion, review, rework and retry never consult them.
THEOREM TablesAreObeyed == DbSpec => TransitionsObeyed
<1>1. DbTypeOK /\ [DbNext]_dbVars
        => [(\A t \in Tasks : TaskMoves(t)) /\ (\A r \in RunIds : RunMoves(r))]_dbVars
  BY TasksMove, RunsMove
<1>2. QED
  BY <1>1, DbTypeCorrect, PTL DEF DbSpec, TransitionsObeyed

\* A review is decided at most once: the operations that decide one take only a
\* pending review, and nothing else touches a review that exists.
THEOREM DecisionsAreKept == DbSpec => DecisionIsFinal
<1> DEFINE Kept(v) == reviewStatus[v] \in {"approved", "rework_requested"}
                        => reviewStatus'[v] = reviewStatus[v]
<1>1. DbTypeOK /\ [DbNext]_dbVars => \A v \in ReviewIds : Kept(v)
  <2> SUFFICES ASSUME DbTypeOK, [DbNext]_dbVars, NEW u \in ReviewIds PROVE Kept(u)
    OBVIOUS
  <2>1. ASSUME reviewStatus' = reviewStatus PROVE Kept(u)
    BY <2>1
  <2>2. ASSUME NEW t \in Tasks, NEW v \in ReviewIds,
               \/ finalizeNeedsReview(t, v) \/ approveTaskReview(t, v)
               \/ requestTaskRework(t, v) \/ createReview(t, v)
        PROVE  Kept(u)
    BY <2>2 DEF DbTypeOK, finalizeNeedsReview, NextReviewId, approveTaskReview,
       requestTaskRework, Decidable, createReview
  <2>3. ASSUME NEW v \in ReviewIds, NEW status \in ReviewStatus \ {"pending"},
               decideReview(v, status)
        PROVE  Kept(u)
    BY <2>3 DEF DbTypeOK, decideReview
  <2>4. ASSUME NEW t \in Tasks,
               \/ createTask(t) \/ ClaimAges(t)
               \/ \E w \in Workers : claimNextTask(w, t) \/ heartbeatTask(t, w)
               \/ \E status \in TaskStatus : updateTaskStatus(t, status)
               \/ finalizeDone(t) \/ resetRouteSteps(t)
               \/ \E allow \in BOOLEAN : retryBlockedTask(t, allow)
        PROVE  Kept(u)
    BY <2>1, <2>4 DEF createTask, ClaimAges, claimNextTask, heartbeatTask, updateTaskStatus,
       finalizeDone, resetRouteSteps, retryBlockedTask, reviewVars
  <2>5. ASSUME recoverStaleTasks \/ \E d \in Workers : recoverTasksOwnedBy(d) PROVE Kept(u)
    BY <2>1, <2>5 DEF recoverStaleTasks, recoverTasksOwnedBy, recoverRunningTasks, reviewVars
  <2>6. ASSUME NEW s \in Steps, NEW status \in RouteStepStatus, NEW run \in RunIds \cup {NoRun},
               updateRouteStep(s, status, run)
        PROVE  Kept(u)
    BY <2>1, <2>6 DEF updateRouteStep, reviewVars
  <2>7. ASSUME NEW r \in RunIds,
               \/ \E s \in Steps : createRun(s, r)
               \/ \E status \in RunStatus : updateRun(r, status)
               \/ \E tree \in RunIds : updateRunTree(r, tree)
               \/ confirmRemoteCancellation(r)
        PROVE  Kept(u)
    BY <2>1, <2>7 DEF createRun, updateRun, updateRunTree, confirmRemoteCancellation, reviewVars
  <2>8. CASE UNCHANGED dbVars
    BY <2>1, <2>8 DEF dbVars, reviewVars
  <2>9. QED
    BY <2>2, <2>3, <2>4, <2>5, <2>6, <2>7, <2>8 DEF DbNext, DbCalls
<1>2. QED
  BY <1>1, DbTypeCorrect, PTL DEF DbSpec, DecisionIsFinal

-----------------------------------------------------------------------------
(* The calls that the coordinators make.                                    *)

\* They are some of the calls that the database allows.
LEMMA CallsAreDbSteps == [CoordinatorCalls]_dbVars => [DbNext]_dbVars
<1> SUFFICES ASSUME CoordinatorCalls PROVE DbNext
  OBVIOUS
<1>1. "blocked" \in TaskStatus
  BY DEF TaskStatus
<1>2. DbCalls(TaskStatus, RunStatus)
  BY <1>1 DEF CoordinatorCalls, DbCalls
<1>3. QED
  BY <1>2 DEF DbNext

\* What the database guarantees to everybody it guarantees to them.
LEMMA CallsImplementDb == CallsSpec => DbSpec
BY CallsAreDbSteps, PTL DEF CallsSpec, DbSpec

\* As long as updateTaskStatus only blocks tasks, a running task has an owner.
LEMMA ClaimsFollowStatus == CallsSpec => []ClaimIffRunning
<1> DEFINE RunningIsClaimed == \A t \in Tasks : taskStatus[t] = "running" => claimedBy[t] # NoWorker
<1>1. DbInit => RunningIsClaimed
  BY DEF DbInit
<1>2. DbTypeOK /\ RunningIsClaimed /\ [CoordinatorCalls]_dbVars => RunningIsClaimed'
  <2> SUFFICES ASSUME DbTypeOK, RunningIsClaimed, [CoordinatorCalls]_dbVars
               PROVE  RunningIsClaimed'
    OBVIOUS
  <2> USE NullAssumption DEF DbTypeOK
  <2>1. ASSUME NEW t \in Tasks, createTask(t) PROVE RunningIsClaimed'
    BY <2>1 DEF createTask
  <2>2. ASSUME NEW t \in Tasks, ClaimAges(t) PROVE RunningIsClaimed'
    BY <2>2 DEF ClaimAges
  <2>3. ASSUME NEW t \in Tasks, NEW w \in Workers, claimNextTask(w, t) PROVE RunningIsClaimed'
    BY <2>3 DEF claimNextTask
  <2>4. ASSUME NEW t \in Tasks, NEW w \in Workers, heartbeatTask(t, w) PROVE RunningIsClaimed'
    BY <2>4 DEF heartbeatTask
  <2>5. ASSUME NEW t \in Tasks, NEW status \in TaskStatus \ {"running"}, ReleaseTask(t, status)
        PROVE  RunningIsClaimed'
    BY <2>5 DEF ReleaseTask, TaskStatus
  <2>6. ASSUME NEW t \in Tasks, updateTaskStatus(t, "blocked") PROVE RunningIsClaimed'
    BY <2>5, <2>6 DEF updateTaskStatus, TaskStatus
  <2>7. ASSUME NEW t \in Tasks, finalizeDone(t) PROVE RunningIsClaimed'
    BY <2>5, <2>7 DEF finalizeDone, TaskStatus
  <2>8. ASSUME NEW t \in Tasks, NEW v \in ReviewIds,
               \/ finalizeNeedsReview(t, v) \/ approveTaskReview(t, v) \/ requestTaskRework(t, v)
        PROVE  RunningIsClaimed'
    BY <2>5, <2>8 DEF finalizeNeedsReview, approveTaskReview, requestTaskRework, TaskStatus
  <2>9. ASSUME NEW t \in Tasks, NEW allow \in BOOLEAN, retryBlockedTask(t, allow)
        PROVE  RunningIsClaimed'
    BY <2>5, <2>9 DEF retryBlockedTask, TaskStatus
  <2>10. ASSUME NEW T, NEW note, recoverRunningTasks(T, note) PROVE RunningIsClaimed'
    BY <2>10 DEF recoverRunningTasks
  <2>11. ASSUME recoverStaleTasks \/ \E d \in Workers : recoverTasksOwnedBy(d)
         PROVE  RunningIsClaimed'
    BY <2>10, <2>11 DEF recoverStaleTasks, recoverTasksOwnedBy
  <2>12. ASSUME UNCHANGED taskVars PROVE RunningIsClaimed'
    BY <2>12 DEF taskVars
  <2>13. ASSUME StepsRunsOrReviewsMove PROVE RunningIsClaimed'
    BY <2>12, <2>13, TasksUntouched
  <2>14. QED
    BY <2>1, <2>2, <2>3, <2>4, <2>6, <2>7, <2>8, <2>9, <2>11, <2>12, <2>13
       DEF CoordinatorCalls, DbCalls, StepsRunsOrReviewsMove, dbVars
<1>3. RunningIsClaimed /\ OnlyRunningIsClaimed => ClaimIffRunning
  BY DEF OnlyRunningIsClaimed, ClaimIffRunning
<1>4. CallsSpec => []DbTypeOK
  BY CallsImplementDb, DbTypeCorrect, PTL
<1>5. CallsSpec => []OnlyRunningIsClaimed
  BY CallsImplementDb, ClaimsAreOfRunningTasks, PTL
<1> HIDE DEF RunningIsClaimed
<1>6. QED
  BY <1>1, <1>2, <1>3, <1>4, <1>5, PTL DEF CallsSpec

\* The ways the status of one run can change then.
RunMovesForward(r) ==
  /\ runStatus[r] \in {"succeeded", "failed", "stopped"} => runStatus'[r] = runStatus[r]
  /\ runStatus[r] = "stale" => runStatus'[r] \in {"stale", "failed"}

\* What one run's status can do in a step of the coordinators' calls.
LEMMA RunsMoveForward ==
  DbTypeOK /\ [CoordinatorCalls]_dbVars => \A r \in RunIds : RunMovesForward(r)
<1> SUFFICES ASSUME DbTypeOK, [CoordinatorCalls]_dbVars, NEW q \in RunIds PROVE RunMovesForward(q)
  OBVIOUS
<1> USE DEF RunMovesForward, DbTypeOK
<1>1. ASSUME runStatus' = runStatus PROVE RunMovesForward(q)
  BY <1>1
<1>2. ASSUME NEW T, NEW note, recoverRunningTasks(T, note) PROVE RunMovesForward(q)
  BY <1>2 DEF recoverRunningTasks, ActiveRunsOf
<1>3. CASE recoverStaleTasks \/ \E d \in Workers : recoverTasksOwnedBy(d)
  BY <1>2, <1>3 DEF recoverStaleTasks, recoverTasksOwnedBy
<1>4. ASSUME NEW s \in Steps, NEW r \in RunIds, createRun(s, r) PROVE RunMovesForward(q)
  BY <1>4 DEF createRun, NextRunId
<1>5. ASSUME NEW r \in RunIds, NEW status \in RunStatus \ {"queued"}, updateRun(r, status)
      PROVE  RunMovesForward(q)
  BY <1>5 DEF updateRun, CanUpdateRun, RunTransitionAllowed, RUN_TRANSITIONS, RunStatus
<1>6. ASSUME NEW r \in RunIds,
             (\E tree \in RunIds : updateRunTree(r, tree)) \/ confirmRemoteCancellation(r)
      PROVE  RunMovesForward(q)
  BY <1>1, <1>6 DEF updateRunTree, confirmRemoteCancellation
<1>7. CASE RunsUntouchedStep
  BY <1>1, <1>7, RunsUntouched DEF runVars
<1>8. CASE \E t \in Tasks : updateTaskStatus(t, "blocked")
  BY <1>1, <1>8 DEF updateTaskStatus, runVars
<1>9. QED
  BY <1>1, <1>3, <1>4, <1>5, <1>6, <1>7, <1>8
     DEF CoordinatorCalls, DbCalls, RunsUntouchedStep, dbVars, runVars

\* They resurrect no settled run and judge none again; the one change left is
\* that a stale run is closed as failed.
LEMMA SettledRunsAreKept == CallsSpec => SettledRunsStay
<1>1. CallsSpec => []DbTypeOK
  BY CallsImplementDb, DbTypeCorrect, PTL
<1>2. QED
  BY <1>1, RunsMoveForward, PTL DEF CallsSpec, SettledRunsStay, RunMovesForward

-----------------------------------------------------------------------------
(* The coordinators: types, and the operations of the database they use.    *)

\* A worker that executes has a task.
WorkerHasTask ==
  \A w \in Workers : wpc[w] \in Executing \cup {"claimed"} => wtask[w] \in Tasks

\* The inductive invariant.
IInv == TypeOK /\ WorkerHasTask /\ EvidenceInOrder /\ SuccessHasEvidence /\ SuccessIsQuiet

\* A choice from a set is a member of it.
LEMMA ChooseFromNonEmpty ==
  ASSUME NEW S, S # {} PROVE (CHOOSE x \in S : TRUE) \in S
OBVIOUS

\* Every step of a coordinator is one operation of the database or none.
LEMMA DbStep == TypeOK /\ WorkerHasTask /\ EvidenceInOrder /\ [Next]_vars => [CoordinatorCalls]_dbVars
<1> SUFFICES ASSUME TypeOK, WorkerHasTask, EvidenceInOrder, [Next]_vars PROVE [CoordinatorCalls]_dbVars
  OBVIOUS
<1>1. ASSUME NEW w \in Workers, WorkerStep(w) PROVE [CoordinatorCalls]_dbVars
  <2>1. CASE BeginLoop(w) \/ ExecuteTaskRefused(w) \/ StartGroup(w) \/ JoinGroup(w)
             \/ StopLoop(w) \/ BlockForShutdown(w) \/ HandoffFails(w)
    BY <2>1 DEF BeginLoop, ExecuteTaskRefused, StartGroup, JoinGroup, StopLoop,
       BlockForShutdown, HandoffFails
  <2>2. CASE \E t \in Tasks : ClaimNextTask(w, t)
    BY <2>2 DEF ClaimNextTask, CoordinatorCalls, DbCalls
  <2>3. CASE \E r \in RunIds : ReconcileProcess(w, r) \/ ReconcileRemote(w, r)
    BY <2>3 DEF ReconcileProcess, ReconcileRemote, CoordinatorCalls, DbCalls
  <2>4. CASE ExecuteTask(w)
    BY <2>4 DEF ExecuteTask, CoordinatorCalls, DbCalls, WorkerHasTask
  <2>5. CASE BlockTask(w)
    BY <2>5 DEF BlockTask, CoordinatorCalls, DbCalls, WorkerHasTask, Executing
  <2>6. CASE FinalizeTask(w)
    BY <2>6 DEF FinalizeTask, CoordinatorCalls, DbCalls, WorkerHasTask, Executing
  <2>7. ASSUME NEW f \in todo[w], UnavailableStep(w, f) PROVE [CoordinatorCalls]_dbVars
    <3>1. f[1] \in Steps /\ stepRun[f[1]] \in RunIds \cup {NoRun}
      BY DEF TypeOK, ProcTypeOK, DbTypeOK
    <3>2. QED
      BY <2>7, <3>1 DEF UnavailableStep, CoordinatorCalls, DbCalls, RouteStepStatus
  <2>8. ASSUME NEW f \in todo[w], NEW r \in RunIds, CreateRun(w, f, r) PROVE [CoordinatorCalls]_dbVars
    <3>1. f[1] \in Steps
      BY DEF TypeOK, ProcTypeOK
    <3>2. QED
      BY <2>8, <3>1 DEF CreateRun, CoordinatorCalls, DbCalls
  <2>9. QED
    BY <1>1, <2>1, <2>2, <2>3, <2>4, <2>5, <2>6, <2>7, <2>8 DEF WorkerStep
<1>2. ASSUME NEW r \in RunIds, FiberStep(r) PROVE [CoordinatorCalls]_dbVars
  <2>1. CASE SpawnAgent(r) \/ StartAnswerLost(r) \/ CollectResult(r) \/ IngestArtifacts(r)
             \/ VerificationPasses(r) \/ CaptureReviewArtifacts(r) \/ FiberThrows(r) \/ Catch(r)
    BY <2>1 DEF SpawnAgent, StartAnswerLost, CollectResult, IngestArtifacts,
       VerificationPasses, CaptureReviewArtifacts, FiberThrows, Catch
  <2>2. ASSUME fpc[r] # "none", NEW status \in RouteStepStatus, NEW run \in RunIds \cup {NoRun},
               updateRouteStep(runStep[r], status, run)
        PROVE  [CoordinatorCalls]_dbVars
    BY <2>2 DEF EvidenceInOrder, CoordinatorCalls, DbCalls
  <2>3. CASE StepRunning(r)
    BY <2>2, <2>3 DEF StepRunning, RouteStepStatus
  <2>4. fpc[r] # "none" => stepRun[runStep[r]] \in RunIds \cup {NoRun}
    BY DEF EvidenceInOrder, TypeOK, ProcTypeOK, DbTypeOK
  <2>5. CASE CloseStep(r) \/ CatchStep(r)
    BY <2>2, <2>4, <2>5 DEF CloseStep, CatchStep, RouteStepStatus
  <2>6. CASE RunStarting(r) \/ PersistStart(r) \/ CatchUpdate(r)
    BY <2>6 DEF RunStarting, PersistStart, CatchUpdate, CoordinatorCalls, DbCalls, RunStatus
  <2>7. CASE FinishRun(r)
    BY <2>7 DEF FinishRun, CoordinatorCalls, DbCalls, EvidenceInOrder, Collected, Terminal, RunStatus
  <2>8. CASE PrepareWorktree(r)
    BY <2>8 DEF PrepareWorktree, CoordinatorCalls, DbCalls, TypeOK, ProcTypeOK
  <2>9. QED
    BY <1>2, <2>1, <2>3, <2>5, <2>6, <2>7, <2>8 DEF FiberStep
<1>3. CASE Environment
  <2>1. ASSUME NEW w \in Workers,
               \/ Crash(w) \/ RequestShutdown(w) \/ WorkerThrows(w) \/ ClosingThrows(w)
               \/ \E f \in todo[w] : OpeningThrows(w, f)
        PROVE  [CoordinatorCalls]_dbVars
    BY <2>1 DEF Crash, RequestShutdown, WorkerThrows, ClosingThrows, OpeningThrows
  <2>2. ASSUME NEW w \in Workers, StartWorker(w) PROVE [CoordinatorCalls]_dbVars
    BY <2>2 DEF StartWorker, CoordinatorCalls, DbCalls
  <2>3. ASSUME NEW w \in Workers, Heartbeat(w) PROVE [CoordinatorCalls]_dbVars
    BY <2>3 DEF Heartbeat, CoordinatorCalls, DbCalls, WorkerHasTask
  <2>4. ASSUME NEW w \in Workers, NEW d \in Workers, RecoverDeadWorker(w, d)
        PROVE  [CoordinatorCalls]_dbVars
    BY <2>4 DEF RecoverDeadWorker, CoordinatorCalls, DbCalls
  <2>5. ASSUME NEW r \in RunIds, StepThrows(r) PROVE [CoordinatorCalls]_dbVars
    BY <2>5 DEF StepThrows
  <2>6. ASSUME NEW t \in Tasks, ClaimLapses(t) \/ ClaimStalls(t) PROVE [CoordinatorCalls]_dbVars
    BY <2>6 DEF ClaimLapses, ClaimStalls, CoordinatorCalls, DbCalls
  <2>7. QED
    BY <1>3, <2>1, <2>2, <2>3, <2>4, <2>5, <2>6 DEF Environment
<1>4. CASE Operator
  BY <1>4 DEF Operator, CreateTask, ApproveReview, RequestRework, RetryBlockedTask, CoordinatorCalls, DbCalls
<1>5. CASE UNCHANGED vars
  BY <1>5 DEF vars
<1>6. QED
  BY <1>1, <1>2, <1>3, <1>4, <1>5 DEF Next

\* The types, action by action.
LEMMA GotoType ==
  ASSUME TypeOK, WorkerHasTask, NEW w \in Workers, NEW pc \in WorkerPc,
         pc \in Executing => wpc[w] \in Executing, pc # "claimed", Goto(w, pc)
  PROVE  /\ wpc' \in [Workers -> WorkerPc]
         /\ UNCHANGED << wtask, snapshot, wtree, todo, inflight, refused >>
         /\ WorkerHasTask'
BY DEF TypeOK, ProcTypeOK, Goto, WorkerHasTask, Executing

LEMMA LeaveTaskWithoutType ==
  ASSUME TypeOK, WorkerHasTask, NEW w \in Workers, NEW thrown, LeaveTaskWithout(w, thrown)
  PROVE  /\ wpc' \in [Workers -> WorkerPc]
         /\ wtask' \in [Workers -> Tasks \cup {NoTask}]
         /\ snapshot' \in [Workers -> SUBSET Steps]
         /\ wtree' \in [Workers -> RunIds \cup {NoRun}]
         /\ todo' \in [Workers -> SUBSET (Steps \X BOOLEAN)]
         /\ inflight' \in [Workers -> SUBSET RunIds]
         /\ refused' \in [Workers -> BOOLEAN]
         /\ WorkerHasTask'
<1>1. {<<f[1], FALSE>> : f \in todo[w] \ thrown} \in SUBSET (Steps \X BOOLEAN)
  <2>1. ASSUME NEW f \in todo[w] PROVE <<f[1], FALSE>> \in Steps \X BOOLEAN
    <3>1. f \in Steps \X BOOLEAN
      BY DEF TypeOK, ProcTypeOK
    <3>2. f[1] \in Steps
      BY <3>1
    <3>3. QED
      BY <3>2
  <2>2. QED
    BY <2>1
<1>2. WorkerHasTask'
  BY DEF TypeOK, ProcTypeOK, LeaveTaskWithout, WorkerHasTask, Executing
<1>3. QED
  BY <1>1, <1>2 DEF TypeOK, ProcTypeOK, LeaveTaskWithout, WorkerPc

LEMMA LeaveTaskType ==
  ASSUME TypeOK, WorkerHasTask, NEW w \in Workers, LeaveTask(w)
  PROVE  /\ wpc' \in [Workers -> WorkerPc]
         /\ wtask' \in [Workers -> Tasks \cup {NoTask}]
         /\ snapshot' \in [Workers -> SUBSET Steps]
         /\ wtree' \in [Workers -> RunIds \cup {NoRun}]
         /\ todo' \in [Workers -> SUBSET (Steps \X BOOLEAN)]
         /\ inflight' \in [Workers -> SUBSET RunIds]
         /\ refused' \in [Workers -> BOOLEAN]
         /\ WorkerHasTask'
BY LeaveTaskWithoutType DEF LeaveTask

\* What a worker does to its own variables keeps them well typed.
LEMMA WorkerStepType ==
  ASSUME TypeOK, WorkerHasTask, NEW w \in Workers, WorkerStep(w)
  PROVE  ProcTypeOK' /\ WorkerHasTask'
<1>1. CASE BeginLoop(w)
  <2>1. "idle" \in WorkerPc /\ "idle" \notin Executing
    BY DEF WorkerPc, Executing
  <2>2. QED
    BY <1>1, <2>1, GotoType DEF BeginLoop, TypeOK, ProcTypeOK, fiberVars, worldVars, boundVars
<1>2. ASSUME NEW t \in Tasks, ClaimNextTask(w, t) PROVE ProcTypeOK' /\ WorkerHasTask'
  BY <1>2 DEF ClaimNextTask, TypeOK, ProcTypeOK, WorkerHasTask, WorkerPc, Executing, fiberVars, worldVars, boundVars
<1>3. ASSUME NEW r \in RunIds, ReconcileProcess(w, r) \/ ReconcileRemote(w, r)
      PROVE  ProcTypeOK' /\ WorkerHasTask'
  BY <1>3 DEF ReconcileProcess, ReconcileRemote, TypeOK, ProcTypeOK, WorkerHasTask,
     workerVars, fiberVars, boundVars
<1>4. CASE ExecuteTask(w)
  <2>1. wtree' \in [Workers -> RunIds \cup {NoRun}]
    <3> DEFINE latest == {r \in InheritableRuns(wtask[w]) :
                            \A q \in InheritableRuns(wtask[w]) : q <= r}
    <3>1. latest # {} => (CHOOSE r \in latest : TRUE) \in RunIds
      BY ChooseFromNonEmpty DEF InheritableRuns, RunsOf
    <3>2. InheritedWorktree(wtask[w]) \in RunIds \cup {NoRun}
      BY <3>1 DEF InheritedWorktree, TypeOK, ProcTypeOK, DbTypeOK
    <3>3. QED
      BY <1>4, <3>2 DEF ExecuteTask, TypeOK, ProcTypeOK
  <2>2. snapshot' \in [Workers -> SUBSET Steps]
    BY <1>4 DEF ExecuteTask, TypeOK, ProcTypeOK, StepsOf
  <2>3. wpc' \in [Workers -> WorkerPc]
    BY <1>4 DEF ExecuteTask, TypeOK, ProcTypeOK, WorkerPc
  <2>4. WorkerHasTask'
    BY <1>4 DEF ExecuteTask, TypeOK, ProcTypeOK, WorkerHasTask
  <2>5. QED
    BY <1>4, <2>1, <2>2, <2>3, <2>4 DEF ExecuteTask, TypeOK, ProcTypeOK, fiberVars, worldVars, boundVars
<1>5. CASE ExecuteTaskRefused(w)
  BY <1>5, LeaveTaskType DEF ExecuteTaskRefused, TypeOK, ProcTypeOK, fiberVars, worldVars, boundVars
<1>6. CASE StartGroup(w)
  <2>1. NextSequence(w) \in SUBSET Steps
    BY DEF NextSequence, TypeOK, ProcTypeOK
  <2>2. todo' \in [Workers -> SUBSET (Steps \X BOOLEAN)] /\ snapshot' \in [Workers -> SUBSET Steps]
    BY <1>6, <2>1 DEF StartGroup, TypeOK, ProcTypeOK
  <2>3. QED
    BY <1>6, <2>2 DEF StartGroup, TypeOK, ProcTypeOK, WorkerHasTask, WorkerPc, Executing,
       fiberVars, worldVars, boundVars
<1>7. CASE JoinGroup(w)
  <2>1. GroupTree(w) \in RunIds \cup {NoRun}
    <3> DEFINE made == {r \in inflight[w] : ftree[r] # NoRun}
    <3>1. made # {} => (CHOOSE r \in made : TRUE) \in RunIds
      BY ChooseFromNonEmpty DEF TypeOK, ProcTypeOK
    <3>2. QED
      BY <3>1 DEF GroupTree, TypeOK, ProcTypeOK
  <2>2. wpc' \in [Workers -> WorkerPc] /\ WorkerHasTask'
    BY <1>7 DEF JoinGroup, TypeOK, ProcTypeOK, WorkerPc, WorkerHasTask, Executing
  <2>3. QED
    BY <1>7, <2>1, <2>2 DEF JoinGroup, TypeOK, ProcTypeOK, fiberVars, worldVars, boundVars
<1>8. CASE StopLoop(w) \/ HandoffFails(w)
  <2>1. {"shutdown", "finalize", "blocking"} \in SUBSET WorkerPc
    BY DEF WorkerPc
  <2>2. wpc[w] \in {"loop", "finalize"}
    BY <1>8 DEF StopLoop, HandoffFails
  <2>3. QED
    BY <1>8, <2>1, <2>2, GotoType DEF StopLoop, HandoffFails, TypeOK, ProcTypeOK, Executing,
       fiberVars, worldVars, boundVars
<1>9. CASE BlockForShutdown(w)
  <2>1. CASE Goto(w, "blocking")
    <3>1. "blocking" \in WorkerPc /\ wpc[w] \in Executing
      BY <1>9 DEF BlockForShutdown, WorkerPc, Executing
    <3>2. QED
      BY <1>9, <2>1, <3>1, GotoType DEF BlockForShutdown, TypeOK, ProcTypeOK,
         fiberVars, worldVars, boundVars
  <2>2. CASE LeaveTask(w)
    BY <1>9, <2>2, LeaveTaskType DEF BlockForShutdown, TypeOK, ProcTypeOK,
       fiberVars, worldVars, boundVars
  <2>3. QED
    BY <1>9, <2>1, <2>2 DEF BlockForShutdown
<1>10. CASE BlockTask(w) \/ FinalizeTask(w)
  BY <1>10, LeaveTaskType DEF BlockTask, FinalizeTask, TypeOK, ProcTypeOK,
     fiberVars, worldVars, boundVars
<1>11. ASSUME NEW f \in todo[w], UnavailableStep(w, f) PROVE ProcTypeOK' /\ WorkerHasTask'
  <2>1. f[1] \in Steps /\ f[2] \in BOOLEAN
    BY DEF TypeOK, ProcTypeOK
  <2>2. refused' \in [Workers -> BOOLEAN] /\ todo' \in [Workers -> SUBSET (Steps \X BOOLEAN)]
    BY <1>11, <2>1, PlanAssumption DEF UnavailableStep, TypeOK, ProcTypeOK
  <2>3. QED
    BY <1>11, <2>2 DEF UnavailableStep, TypeOK, ProcTypeOK, WorkerHasTask,
       fiberVars, FiberRest, boundVars
<1>12. ASSUME NEW f \in todo[w], NEW r \in RunIds, CreateRun(w, f, r)
       PROVE  ProcTypeOK' /\ WorkerHasTask'
  BY <1>12 DEF CreateRun, TypeOK, ProcTypeOK, WorkerHasTask, FiberPc, FiberRest, boundVars
<1>13. QED
  BY <1>1, <1>2, <1>3, <1>4, <1>5, <1>6, <1>7, <1>8, <1>9, <1>10, <1>11, <1>12 DEF WorkerStep

LEMMA FiberGotoType ==
  ASSUME TypeOK, WorkerHasTask, NEW r \in RunIds, NEW pc \in FiberPc, FiberGoto(r, pc)
  PROVE  /\ fpc' \in [RunIds -> FiberPc]
         /\ UNCHANGED << fworker, wpc, wtask, snapshot, wtree, todo, inflight, refused >>
         /\ UNCHANGED << shutdown, cleanup, stalls, requeues, faults >>
         /\ WorkerHasTask'
BY DEF TypeOK, ProcTypeOK, FiberGoto, workerVars, FiberRest, boundVars, WorkerHasTask

\* So does what a fiber does to its own.
LEMMA FiberStepType ==
  ASSUME TypeOK, WorkerHasTask, NEW r \in RunIds, FiberStep(r)
  PROVE  ProcTypeOK' /\ WorkerHasTask'
<1>1. ASSUME NEW pc \in FiberPc, FiberGoto(r, pc),
             /\ ftree' \in [RunIds -> RunIds \cup {NoRun}]
             /\ result' \in [RunIds -> Terminal \cup {"none"}]
             /\ alive' \in SUBSET RunIds
             /\ evidence' \in [RunIds -> SUBSET Artifact]
      PROVE  ProcTypeOK' /\ WorkerHasTask'
  BY <1>1, FiberGotoType DEF TypeOK, ProcTypeOK
<1>2. {"stepped", "succeeded", "failed"} \cup InTry \cup InCatch \subseteq FiberPc
  BY DEF FiberPc
<1>3. /\ ftree \in [RunIds -> RunIds \cup {NoRun}]
      /\ result \in [RunIds -> Terminal \cup {"none"}]
      /\ alive \in SUBSET RunIds
      /\ evidence \in [RunIds -> SUBSET Artifact]
  BY DEF TypeOK, ProcTypeOK
<1>4. CASE StepRunning(r) \/ RunStarting(r) \/ CatchUpdate(r) \/ CatchStep(r)
  BY <1>1, <1>2, <1>3, <1>4 DEF StepRunning, RunStarting, CatchUpdate, CatchStep, InTry, InCatch
<1>5. CASE PrepareWorktree(r) \/ CaptureReviewArtifacts(r)
  BY <1>1, <1>2, <1>3, <1>5 DEF PrepareWorktree, CaptureReviewArtifacts, InTry, Artifact
<1>6. CASE SpawnAgent(r) \/ StartAnswerLost(r) \/ PersistStart(r) \/ FinishRun(r) \/ CloseStep(r) \/ FiberThrows(r)
  BY <1>1, <1>2, <1>3, <1>6 DEF SpawnAgent, StartAnswerLost, PersistStart, FinishRun, CloseStep, FiberThrows,
     LeaveTry, InTry, InCatch
<1>7. CASE CollectResult(r) \/ Catch(r)
  BY <1>1, <1>2, <1>3, <1>7 DEF CollectResult, Catch, InTry, InCatch
<1>8. CASE IngestArtifacts(r) \/ VerificationPasses(r)
  BY <1>1, <1>2, <1>3, <1>8 DEF IngestArtifacts, VerificationPasses, InTry, Artifact
<1>9. QED
  BY <1>4, <1>5, <1>6, <1>7, <1>8 DEF FiberStep

\* The environment keeps the types.
LEMMA EnvironmentType ==
  ASSUME TypeOK, WorkerHasTask, EvidenceInOrder, Environment
  PROVE  ProcTypeOK' /\ WorkerHasTask'
<1>1. ASSUME NEW w \in Workers, StartWorker(w) PROVE ProcTypeOK' /\ WorkerHasTask'
  <2>1. Candidates(ActiveRunsOf(LapsedTasks)) \in SUBSET RunIds
    BY DEF Candidates, ActiveRunsOf
  <2>2. QED
    BY <1>1, <2>1 DEF StartWorker, Goto, TypeOK, ProcTypeOK, WorkerHasTask, WorkerPc, Executing,
       fiberVars, worldVars, boundVars
<1>2. ASSUME NEW w \in Workers, Crash(w) PROVE ProcTypeOK' /\ WorkerHasTask'
  <2>1. WorkerHasTask'
    BY <1>2 DEF Crash, TypeOK, ProcTypeOK, WorkerHasTask, Executing
  <2>2. fpc' \in [RunIds -> FiberPc]
    BY <1>2 DEF Crash, TypeOK, ProcTypeOK, FiberPc
  <2>3. result' \in [RunIds -> Terminal \cup {"none"}]
    BY <1>2 DEF Crash, TypeOK, ProcTypeOK
  <2>4. QED
    BY <1>2, <2>1, <2>2, <2>3 DEF Crash, TypeOK, ProcTypeOK, WorkerPc, worldVars, boundVars
<1>3. ASSUME NEW w \in Workers, RequestShutdown(w) \/ Heartbeat(w)
      PROVE  ProcTypeOK' /\ WorkerHasTask'
  BY <1>3 DEF RequestShutdown, Heartbeat, TypeOK, ProcTypeOK, WorkerHasTask, procVars,
     workerVars, fiberVars, worldVars, boundVars
<1>4. ASSUME NEW w \in Workers,
             WorkerThrows(w) \/ ClosingThrows(w) \/ \E f \in todo[w] : OpeningThrows(w, f)
      PROVE  ProcTypeOK' /\ WorkerHasTask'
  <2>1. ASSUME NEW thrown, LeaveTaskWithout(w, thrown), UNCHANGED << shutdown, cleanup, fiberVars, worldVars, stalls, requeues >>,
               faults' = faults + 1
        PROVE  ProcTypeOK' /\ WorkerHasTask'
    BY <2>1, LeaveTaskWithoutType DEF TypeOK, ProcTypeOK, fiberVars, worldVars
  <2>2. CASE WorkerThrows(w) \/ ClosingThrows(w)
    BY <2>1, <2>2 DEF WorkerThrows, ClosingThrows, LeaveTask
  <2>3. ASSUME NEW f \in todo[w], OpeningThrows(w, f) PROVE ProcTypeOK' /\ WorkerHasTask'
    <3>1. CASE f[2]
      BY <2>1, <2>3, <3>1 DEF OpeningThrows
    <3>2. CASE ~ f[2]
      BY <2>3, <3>2 DEF OpeningThrows, TypeOK, ProcTypeOK, WorkerHasTask, fiberVars, worldVars
    <3>3. QED
      BY <3>1, <3>2
  <2>4. QED
    BY <1>4, <2>2, <2>3
<1>5. ASSUME NEW w \in Workers, NEW d \in Workers, RecoverDeadWorker(w, d)
      PROVE  ProcTypeOK' /\ WorkerHasTask'
  <2>1. Candidates(ActiveRunsOf(TasksOwnedBy(d))) \in SUBSET RunIds
    BY DEF Candidates, ActiveRunsOf
  <2>2. QED
    BY <1>5, <2>1 DEF RecoverDeadWorker, TypeOK, ProcTypeOK, WorkerHasTask,
       workerVars, fiberVars, worldVars, boundVars
<1>6. ASSUME NEW r \in RunIds, StepThrows(r) PROVE ProcTypeOK' /\ WorkerHasTask'
  <2>1. fworker[r] \in Workers
    BY <1>6 DEF StepThrows, EvidenceInOrder
  <2>2. fpc' \in [RunIds -> FiberPc]
    BY <1>6 DEF StepThrows, TypeOK, ProcTypeOK, FiberPc
  <2>3. CASE LeaveTask(fworker[r])
    BY <1>6, <2>1, <2>2, <2>3, LeaveTaskType DEF StepThrows, TypeOK, ProcTypeOK, worldVars
  <2>4. CASE UNCHANGED workerVars
    BY <1>6, <2>2, <2>4 DEF StepThrows, TypeOK, ProcTypeOK, WorkerHasTask, workerVars, worldVars
  <2>5. QED
    BY <1>6, <2>3, <2>4 DEF StepThrows
<1>7. ASSUME NEW t \in Tasks, ClaimLapses(t) \/ ClaimStalls(t) PROVE ProcTypeOK' /\ WorkerHasTask'
  BY <1>7 DEF ClaimLapses, ClaimStalls, TypeOK, ProcTypeOK, WorkerHasTask, procVars,
     workerVars, fiberVars, worldVars, boundVars
<1>8. QED
  BY <1>1, <1>2, <1>3, <1>4, <1>5, <1>6, <1>7 DEF Environment

\* Every step keeps the type invariant.
LEMMA TypeStep == TypeOK /\ WorkerHasTask /\ EvidenceInOrder /\ [Next]_vars => TypeOK' /\ WorkerHasTask'
<1> SUFFICES ASSUME TypeOK, WorkerHasTask, EvidenceInOrder, [Next]_vars
             PROVE  TypeOK' /\ WorkerHasTask'
  OBVIOUS
<1>1. DbTypeOK'
  BY DbStep, CallsAreDbSteps, DbTypeStep DEF TypeOK
<1>2. ProcTypeOK' /\ WorkerHasTask'
  <2>1. CASE Operator
    BY <2>1 DEF Operator, CreateTask, ApproveReview, RequestRework, RetryBlockedTask, Requeue,
       TypeOK, ProcTypeOK, WorkerHasTask, procVars, workerVars, fiberVars, worldVars, boundVars
  <2>2. CASE UNCHANGED vars
    BY <2>2 DEF vars, TypeOK, ProcTypeOK, WorkerHasTask, procVars, workerVars, fiberVars,
       worldVars, boundVars
  <2>3. QED
    BY <2>1, <2>2, WorkerStepType, FiberStepType, EnvironmentType DEF Next
<1>3. QED
  BY <1>1, <1>2 DEF TypeOK, ProcTypeOK

-----------------------------------------------------------------------------
(* The evidence of a run, step by step.                                     *)

\* What IInv says of one run.
RunInv(q) ==
  /\ runStatus[q] = "absent" <=> fpc[q] = "none"
  /\ fpc[q] # "none" => runStep[q] \in Steps /\ fworker[q] \in Workers
  /\ fpc[q] \in {"prepared", "spawned", "running"} \cup Collected
       => "prompt" \in evidence[q] /\ ftree[q] # NoRun
  /\ fpc[q] \in Collected \cup {"closing"} => result[q] \in Terminal
  /\ fpc[q] \in Collected \ {"collected"} => "logs" \in evidence[q]
  /\ fpc[q] \in Collected \ {"verifying"} /\ result[q] = "succeeded" => q \notin alive
  /\ fpc[q] \in {"capturing", "finishing"} /\ MustVerify(q) => "verification" \in evidence[q]
  /\ fpc[q] = "finishing" => "git" \in evidence[q]
  /\ runStatus[q] = "succeeded" =>
       /\ fpc[q] \in {"closing", "catch", "catchStep", "succeeded", "failed", "dead"}
       /\ {"prompt", "logs", "git"} \subseteq evidence[q]
       /\ NeedsVerifier[runStep[q]] => "verification" \in evidence[q]
       /\ q \notin alive

\* The invariant about evidence, run by run.
LEMMA RunInvAll ==
  (\A q \in RunIds : RunInv(q)) <=> EvidenceInOrder /\ SuccessHasEvidence /\ SuccessIsQuiet
BY DEF RunInv, EvidenceInOrder, SuccessHasEvidence, SuccessIsQuiet

\* A step that leaves the variables of a run alone, or only ends a process of
\* it, keeps its invariant.
LEMMA RunUntouched ==
  ASSUME NEW q \in RunIds, RunInv(q),
         runStatus'[q] = runStatus[q], runStep'[q] = runStep[q], fpc'[q] = fpc[q],
         fworker'[q] = fworker[q], ftree'[q] = ftree[q], result'[q] = result[q],
         evidence'[q] = evidence[q], q \in alive' => q \in alive
  PROVE  RunInv(q)'
BY DEF RunInv, MustVerify

\* A recovery judges only runs that are "starting" or "running".
LEMMA RecoveryKeepsRunInv ==
  ASSUME NEW q \in RunIds, RunInv(q), NEW T, NEW note, recoverRunningTasks(T, note),
         UNCHANGED << fpc, fworker, ftree, result, evidence, alive >>, TypeOK
  PROVE  RunInv(q)'
<1>1. runStep' = runStep
  BY DEF recoverRunningTasks
<1>2. CASE q \notin ActiveRunsOf(T)
  <2>1. runStatus'[q] = runStatus[q]
    BY <1>2 DEF recoverRunningTasks
  <2>2. QED
    BY <1>1, <2>1, RunUntouched
<1>3. CASE q \in ActiveRunsOf(T)
  <2>1. runStatus'[q] \in {"stale", "failed"} /\ runStatus[q] \in {"starting", "running"}
    BY <1>3 DEF recoverRunningTasks, ActiveRunsOf, RecoveredStatus
  <2>2. QED
    BY <1>1, <2>1 DEF RunInv, MustVerify
<1>4. QED
  BY <1>2, <1>3

\* A fiber writes about its own run only.
LEMMA FiberTouchesItsRun ==
  ASSUME TypeOK, NEW r \in RunIds, FiberStep(r), NEW q \in RunIds, q # r
  PROVE  /\ runStatus'[q] = runStatus[q] /\ runStep'[q] = runStep[q]
         /\ fpc'[q] = fpc[q] /\ fworker'[q] = fworker[q] /\ ftree'[q] = ftree[q]
         /\ result'[q] = result[q] /\ evidence'[q] = evidence[q]
         /\ q \in alive' => q \in alive
<1> USE DEF TypeOK, ProcTypeOK, DbTypeOK, FiberGoto, LeaveTry, dbVars, runVars
<1>1. CASE StepRunning(r) \/ CloseStep(r) \/ CatchStep(r)
  BY <1>1 DEF StepRunning, CloseStep, CatchStep, updateRouteStep
<1>2. CASE RunStarting(r) \/ CatchUpdate(r)
  BY <1>2 DEF RunStarting, CatchUpdate, updateRun
<1>3. CASE PersistStart(r)
  BY <1>3 DEF PersistStart, updateRun
<1>4. CASE FinishRun(r)
  BY <1>4 DEF FinishRun, updateRun
<1>5. CASE PrepareWorktree(r)
  BY <1>5 DEF PrepareWorktree, updateRunTree
<1>6. CASE SpawnAgent(r) \/ StartAnswerLost(r) \/ FiberThrows(r) \/ Catch(r)
  BY <1>6 DEF SpawnAgent, StartAnswerLost, FiberThrows, Catch
<1>7. CASE CollectResult(r)
  BY <1>7 DEF CollectResult
<1>8. CASE IngestArtifacts(r) \/ VerificationPasses(r) \/ CaptureReviewArtifacts(r)
  BY <1>8 DEF IngestArtifacts, VerificationPasses, CaptureReviewArtifacts
<1>9. QED
  BY <1>1, <1>2, <1>3, <1>4, <1>5, <1>6, <1>7, <1>8 DEF FiberStep

\* Each step of #executeStep keeps the invariant of its run.
LEMMA FiberKeepsItsRunInv ==
  ASSUME TypeOK, NEW r \in RunIds, RunInv(r), FiberStep(r)
  PROVE  RunInv(r)'
<1> USE DEF TypeOK, ProcTypeOK, DbTypeOK, FiberGoto, dbVars, runVars, RunInv, MustVerify,
            Collected, Terminal
<1>1. CASE StepRunning(r)
  BY <1>1 DEF StepRunning, updateRouteStep
<1>2. CASE RunStarting(r)
  BY <1>2 DEF RunStarting, updateRun
<1>3. CASE PrepareWorktree(r)
  <2>1. ftree'[r] # NoRun
    BY <1>3, BoundAssumption DEF PrepareWorktree, RunIds, NoRun
  <2>2. runStatus' = runStatus /\ runStep' = runStep /\ fpc[r] = "starting"
    BY <1>3 DEF PrepareWorktree, updateRunTree
  <2>3. QED
    BY <1>3, <2>1, <2>2 DEF PrepareWorktree
<1>4. CASE SpawnAgent(r)
  BY <1>4 DEF SpawnAgent
<1>5. CASE StartAnswerLost(r)
  BY <1>5 DEF StartAnswerLost, LeaveTry
<1>6. CASE PersistStart(r)
  BY <1>6 DEF PersistStart, LeaveTry, updateRun
<1>7. CASE CollectResult(r)
  BY <1>7 DEF CollectResult
<1>8. CASE IngestArtifacts(r)
  BY <1>8 DEF IngestArtifacts
<1>9. CASE VerificationPasses(r)
  BY <1>9 DEF VerificationPasses
<1>10. CASE CaptureReviewArtifacts(r)
  BY <1>10 DEF CaptureReviewArtifacts
<1>11. CASE FinishRun(r)
  BY <1>11 DEF FinishRun, LeaveTry, updateRun
<1>12. CASE CloseStep(r)
  BY <1>12 DEF CloseStep, LeaveTry, updateRouteStep
<1>13. CASE FiberThrows(r)
  BY <1>13 DEF FiberThrows, LeaveTry, InTry
<1>14. CASE Catch(r)
  BY <1>14 DEF Catch
<1>15. CASE CatchUpdate(r)
  BY <1>15 DEF CatchUpdate, updateRun
<1>16. CASE CatchStep(r)
  BY <1>16 DEF CatchStep, updateRouteStep
<1>17. QED
  BY <1>1, <1>2, <1>3, <1>4, <1>5, <1>6, <1>7, <1>8, <1>9, <1>10, <1>11, <1>12, <1>13,
     <1>14, <1>15, <1>16 DEF FiberStep

\* A worker's step keeps what is durable about each run.
LEMMA WorkerKeepsRunInv ==
  ASSUME TypeOK, NEW w \in Workers, WorkerStep(w), NEW q \in RunIds, RunInv(q)
  PROVE  RunInv(q)'
<1>1. ASSUME NEW f \in todo[w], NEW r \in RunIds, CreateRun(w, f, r) PROVE RunInv(q)'
  <2>1. f[1] \in Steps /\ runStatus[r] = "absent"
    BY <1>1 DEF CreateRun, createRun, NextRunId, TypeOK, ProcTypeOK
  <2>2. UNCHANGED << result, alive, evidence >>
    BY <1>1 DEF CreateRun
  <2>3. CASE q = r
    <3>1. runStatus'[q] = "queued" /\ runStep'[q] = f[1] /\ fpc'[q] = "created" /\ fworker'[q] = w
      BY <1>1, <2>3 DEF CreateRun, createRun, TypeOK, ProcTypeOK, DbTypeOK
    <3>2. QED
      BY <2>1, <2>2, <3>1 DEF RunInv, MustVerify, Collected
  <2>4. CASE q # r
    <3>1. /\ runStatus'[q] = runStatus[q] /\ runStep'[q] = runStep[q]
          /\ fpc'[q] = fpc[q] /\ fworker'[q] = fworker[q] /\ ftree'[q] = ftree[q]
      BY <1>1, <2>4 DEF CreateRun, createRun, TypeOK, ProcTypeOK, DbTypeOK
    <3>2. QED
      BY <2>2, <3>1, RunUntouched
  <2>5. QED
    BY <2>3, <2>4
<1>2. ASSUME UNCHANGED << runStatus, runStep, fpc, fworker, ftree, result, evidence >>,
             q \in alive' => q \in alive
      PROVE  RunInv(q)'
  BY <1>2, RunUntouched
<1> USE DEF fiberVars, worldVars, dbVars, runVars
<1>3. CASE BeginLoop(w) \/ ExecuteTaskRefused(w) \/ StartGroup(w) \/ JoinGroup(w)
           \/ StopLoop(w) \/ BlockForShutdown(w) \/ HandoffFails(w)
  BY <1>2, <1>3 DEF BeginLoop, ExecuteTaskRefused, StartGroup, JoinGroup, StopLoop,
     BlockForShutdown, HandoffFails
<1>4. CASE \E t \in Tasks : ClaimNextTask(w, t)
  BY <1>2, <1>4 DEF ClaimNextTask, claimNextTask
<1>5. CASE \E r \in RunIds : ReconcileProcess(w, r) \/ ReconcileRemote(w, r)
  BY <1>2, <1>5 DEF ReconcileProcess, ReconcileRemote, confirmRemoteCancellation
<1>6. CASE ExecuteTask(w)
  BY <1>2, <1>6 DEF ExecuteTask, heartbeatTask
<1>7. CASE BlockTask(w) \/ FinalizeTask(w)
  BY <1>2, <1>7 DEF BlockTask, FinalizeTask, updateTaskStatus, finalizeDone, finalizeNeedsReview
<1>8. ASSUME NEW f \in todo[w], UnavailableStep(w, f) PROVE RunInv(q)'
  BY <1>2, <1>8 DEF UnavailableStep, updateRouteStep
<1>9. QED
  BY <1>1, <1>3, <1>4, <1>5, <1>6, <1>7, <1>8 DEF WorkerStep

\* So does the environment, a crash included.
LEMMA EnvironmentKeepsRunInv ==
  ASSUME TypeOK, Environment, NEW q \in RunIds, RunInv(q)
  PROVE  RunInv(q)'
<1> USE DEF fiberVars, worldVars, dbVars, runVars
<1>1. ASSUME NEW w \in Workers, StartWorker(w) PROVE RunInv(q)'
  BY <1>1, RecoveryKeepsRunInv DEF StartWorker, recoverStaleTasks
<1>2. ASSUME NEW w \in Workers, NEW d \in Workers, RecoverDeadWorker(w, d) PROVE RunInv(q)'
  BY <1>2, RecoveryKeepsRunInv DEF RecoverDeadWorker, recoverTasksOwnedBy
<1>3. ASSUME NEW w \in Workers, Crash(w) PROVE RunInv(q)'
  <2>1. UNCHANGED << runStatus, runStep, fworker, ftree, alive, evidence >>
    BY <1>3 DEF Crash
  <2>2. CASE Underway(q) /\ fworker[q] = w
    <3>1. fpc'[q] = "dead" /\ fpc[q] # "none"
      BY <1>3, <2>2 DEF Crash, Underway, InTry, InCatch
    <3>2. QED
      BY <2>1, <3>1 DEF RunInv, MustVerify, Collected
  <2>3. CASE ~ (Underway(q) /\ fworker[q] = w)
    <3>1. fpc'[q] = fpc[q] /\ result'[q] = result[q]
      BY <1>3, <2>3 DEF Crash
    <3>2. QED
      BY <2>1, <3>1, RunUntouched
  <2>4. QED
    BY <2>2, <2>3
<1>4. ASSUME NEW r \in RunIds, StepThrows(r) PROVE RunInv(q)'
  <2>1. UNCHANGED << runStatus, runStep, fworker, ftree, result, alive, evidence >>
    BY <1>4 DEF StepThrows
  <2>2. CASE q = r
    <3>1. fpc'[q] = "dead" /\ fpc[q] # "none"
      BY <1>4, <2>2 DEF StepThrows, TypeOK, ProcTypeOK
    <3>2. QED
      BY <2>1, <3>1 DEF RunInv, MustVerify, Collected
  <2>3. CASE q # r
    <3>1. fpc'[q] = fpc[q]
      BY <1>4, <2>3 DEF StepThrows, TypeOK, ProcTypeOK
    <3>2. QED
      BY <2>1, <3>1, RunUntouched
  <2>4. QED
    BY <2>2, <2>3
<1>5. ASSUME UNCHANGED << runStatus, runStep, fpc, fworker, ftree, result, evidence, alive >>
      PROVE  RunInv(q)'
  BY <1>5, RunUntouched
<1>6. ASSUME NEW w \in Workers,
             \/ RequestShutdown(w) \/ WorkerThrows(w) \/ ClosingThrows(w)
             \/ \E f \in todo[w] : OpeningThrows(w, f)
      PROVE  RunInv(q)'
  BY <1>5, <1>6 DEF RequestShutdown, WorkerThrows, ClosingThrows, OpeningThrows
<1>7. ASSUME NEW w \in Workers, Heartbeat(w) PROVE RunInv(q)'
  BY <1>5, <1>7 DEF Heartbeat, heartbeatTask, procVars
<1>8. ASSUME NEW t \in Tasks, ClaimLapses(t) \/ ClaimStalls(t) PROVE RunInv(q)'
  BY <1>5, <1>8 DEF ClaimLapses, ClaimStalls, ClaimAges, procVars
<1>9. QED
  BY <1>1, <1>2, <1>3, <1>4, <1>6, <1>7, <1>8 DEF Environment

\* The operator does not touch runs.
LEMMA OperatorKeepsRunInv ==
  ASSUME Operator \/ UNCHANGED vars, NEW q \in RunIds, RunInv(q)
  PROVE  RunInv(q)'
<1>1. UNCHANGED << runStatus, runStep, fpc, fworker, ftree, result, evidence, alive >>
  BY DEF Operator, CreateTask, ApproveReview, RequestRework, RetryBlockedTask, Requeue,
     createTask, approveTaskReview, requestTaskRework, retryBlockedTask,
     vars, procVars, fiberVars, worldVars, dbVars, runVars
<1>2. QED
  BY <1>1, RunUntouched

\* IInv is inductive.
LEMMA IInvStep == IInv /\ [Next]_vars => IInv'
<1> SUFFICES ASSUME IInv, [Next]_vars PROVE IInv'
  OBVIOUS
<1>1. TypeOK' /\ WorkerHasTask'
  BY TypeStep DEF IInv
<1>2. ASSUME NEW q \in RunIds PROVE RunInv(q)'
  <2>1. TypeOK /\ \A r \in RunIds : RunInv(r)
    BY RunInvAll DEF IInv
  <2>2. ASSUME NEW r \in RunIds, FiberStep(r) PROVE RunInv(q)'
    <3>1. CASE q = r
      BY <2>1, <2>2, <3>1, FiberKeepsItsRunInv
    <3>2. CASE q # r
      BY <2>1, <2>2, <3>2, FiberTouchesItsRun, RunUntouched
    <3>3. QED
      BY <3>1, <3>2
  <2>3. QED
    BY <2>1, <2>2, WorkerKeepsRunInv, EnvironmentKeepsRunInv, OperatorKeepsRunInv DEF Next
<1>3. (EvidenceInOrder /\ SuccessHasEvidence /\ SuccessIsQuiet)'
  BY <1>2 DEF RunInv, EvidenceInOrder, SuccessHasEvidence, SuccessIsQuiet
<1>4. QED
  BY <1>1, <1>3 DEF IInv

\* Initially there are no runs.
LEMMA IInvInit == Init => IInv
<1> SUFFICES ASSUME Init PROVE IInv
  OBVIOUS
<1>1. DbTypeOK
  BY DEF Init, DbInit, DbTypeOK, TaskStatus, RouteStepStatus, RunStatus, ReviewStatus, RunNote, NoRun
<1>2. ProcTypeOK
  BY DEF Init, ProcTypeOK, WorkerPc, FiberPc, NoRun
<1>3. WorkerHasTask
  BY DEF Init, WorkerHasTask, Executing
<1>4. EvidenceInOrder /\ SuccessHasEvidence /\ SuccessIsQuiet
  BY DEF Init, DbInit, EvidenceInOrder, SuccessHasEvidence, SuccessIsQuiet, Collected
<1>5. QED
  BY <1>1, <1>2, <1>3, <1>4 DEF IInv, TypeOK

-----------------------------------------------------------------------------
(* The theorems.                                                            *)

\* The inductive invariant of the coordinators (coordinator.ts, runtime.ts).
THEOREM Inductive == Spec => []IInv
BY IInvInit, IInvStep, PTL DEF Spec

\* Whatever the coordinators do, crash or fail to do, every column of the
\* database and every local variable stays within its domain.
THEOREM TypeCorrect == Spec => []TypeOK
<1>1. IInv => TypeOK
  BY DEF IInv
<1>2. QED
  BY <1>1, Inductive, PTL

\* #executeStep records a run as succeeded only after its prompt, logs, Git
\* state and verification report are durable.
THEOREM EvidenceBeforeSuccess == Spec => []SuccessHasEvidence
<1>1. IInv => SuccessHasEvidence
  BY DEF IInv
<1>2. QED
  BY <1>1, Inductive, PTL

\* #executeStep records a run as succeeded only when no agent or verifier of it
\* is left running, and none is started afterwards.
THEOREM NothingRunsAfterSuccess == Spec => []SuccessIsQuiet
<1>1. IInv => SuccessIsQuiet
  BY DEF IInv
<1>2. QED
  BY <1>1, Inductive, PTL

\* How far #executeStep has come bounds what is durable about its run.
THEOREM EvidenceOrder == Spec => []EvidenceInOrder
<1>1. IInv => EvidenceInOrder
  BY DEF IInv
<1>2. QED
  BY <1>1, Inductive, PTL

\* The coordinators change the database only by its operations, and call them
\* only in the ways of CoordinatorCalls: the detailed specification implements
\* the one of the database.
THEOREM CoordinatorUsesDatabase == Spec => CallsSpec
<1>1. Init => DbInit
  BY DEF Init
<1>2. IInv /\ [Next]_vars => [CoordinatorCalls]_dbVars
  BY DbStep DEF IInv
<1>3. QED
  BY <1>1, <1>2, Inductive, PTL DEF Spec, CallsSpec

\* With a stalled worker or without, a task has an owner exactly while it runs.
THEOREM ClaimsUnderCoordinators == Spec => []ClaimIffRunning
BY CoordinatorUsesDatabase, ClaimsFollowStatus, PTL

\* No worker, however late, resurrects or re-judges a settled run.
THEOREM RunsUnderCoordinators == Spec => SettledRunsStay
BY CoordinatorUsesDatabase, SettledRunsAreKept, PTL

\* No worker or operator changes a decision on a review.
THEOREM DecisionsUnderCoordinators == Spec => DecisionIsFinal
BY CoordinatorUsesDatabase, CallsImplementDb, DecisionsAreKept, PTL

-----------------------------------------------------------------------------
(* Ownership: heartbeats that arrive keep the claim of a task fresh for as   *)
(* long as executeTask works on it (coordinator.ts:250-262).                *)

\* The worker is between its claim and its last write about a task.
Busy(w) == wpc[w] \in Executing \cup {"claimed"}

\* Such a worker owns its task, and its claim is fresh.
Claimed(w) == Busy(w) => Owns(w, wtask[w]) /\ ~ lapsed[wtask[w]]

OwnedInv == \A w \in Workers : Claimed(w)

\* A step that writes no claim, and makes no worker busy, keeps them.
LEMMA ClaimedKept ==
  ASSUME NEW v \in Workers, Claimed(v), Busy(v)' => Busy(v) /\ wtask'[v] = wtask[v],
         UNCHANGED << taskStatus, claimedBy, lapsed >>
  PROVE  Claimed(v)'
BY DEF Claimed, Owns

\* A worker that leaves its task is not busy any more.
LEMMA LeaveTaskWithoutClaimed ==
  ASSUME TypeOK, NEW w \in Workers, NEW thrown, LeaveTaskWithout(w, thrown), NEW v \in Workers, Busy(v)'
  PROVE  v # w /\ Busy(v) /\ wtask'[v] = wtask[v]
BY DEF LeaveTaskWithout, Busy, Executing, TypeOK, ProcTypeOK

LEMMA LeaveTaskClaimed ==
  ASSUME TypeOK, NEW w \in Workers, LeaveTask(w), NEW v \in Workers, Busy(v)'
  PROVE  v # w /\ Busy(v) /\ wtask'[v] = wtask[v]
BY LeaveTaskWithoutClaimed DEF LeaveTask

\* A worker that goes on with its task, or rests, stays with its task.
LEMMA GotoClaimed ==
  ASSUME TypeOK, NEW w \in Workers, NEW pc, Goto(w, pc), Busy(w) \/ pc \notin Executing \cup {"claimed"},
         NEW v \in Workers, Busy(v)'
  PROVE  Busy(v) /\ wtask'[v] = wtask[v]
BY DEF Goto, Busy, Executing, TypeOK, ProcTypeOK

\* Nobody else holds the task of a worker.
LEMMA ReleaseClaimed ==
  ASSUME TypeOK, OwnedInv, NEW w \in Workers, Busy(w), NEW status, ReleaseTask(wtask[w], status),
         LeaveTask(w), NEW v \in Workers
  PROVE  Claimed(v)'
<1> SUFFICES ASSUME Busy(v)' PROVE Claimed(v)'
  BY DEF Claimed
<1>1. v # w /\ Busy(v) /\ wtask'[v] = wtask[v]
  BY LeaveTaskClaimed
<1>2. Owns(v, wtask[v]) /\ Owns(w, wtask[w]) /\ ~ lapsed[wtask[v]]
  BY <1>1 DEF OwnedInv, Claimed
<1>3. wtask[v] # wtask[w]
  BY <1>1, <1>2 DEF Owns
<1>4. QED
  BY <1>1, <1>2, <1>3 DEF Claimed, Owns, ReleaseTask, TypeOK, DbTypeOK

\* Recovered tasks have no busy owner.
LEMMA RecoverClaimed ==
  ASSUME TypeOK, NEW T, NEW note, recoverRunningTasks(T, note), NEW v \in Workers, Claimed(v),
         Busy(v) => wtask[v] \in Tasks \ T, Busy(v)' => Busy(v) /\ wtask'[v] = wtask[v]
  PROVE  Claimed(v)'
BY DEF Claimed, Owns, recoverRunningTasks

\* The steps of workers, fibers, the environment and the operator.
LEMMA WorkerClaimed ==
  ASSUME IInv, OwnedInv, NEW w \in Workers, WorkerStep(w), NEW v \in Workers
  PROVE  Claimed(v)'
<1> USE DEF IInv, OwnedInv
<1>1. CASE BeginLoop(w) \/ StopLoop(w) \/ HandoffFails(w)
  BY <1>1, GotoClaimed, ClaimedKept DEF BeginLoop, StopLoop, HandoffFails, Busy, Executing, dbVars, taskVars
<1>2. CASE BlockForShutdown(w)
  BY <1>2, GotoClaimed, LeaveTaskClaimed, ClaimedKept
     DEF BlockForShutdown, Busy, Executing, dbVars, taskVars
<1>3. CASE ExecuteTaskRefused(w)
  BY <1>3, LeaveTaskClaimed, ClaimedKept DEF ExecuteTaskRefused, dbVars, taskVars
<1>4. CASE StartGroup(w) \/ JoinGroup(w)
  <2>1. Busy(v)' => Busy(v) /\ wtask'[v] = wtask[v]
    BY <1>4 DEF StartGroup, JoinGroup, Busy, Executing, TypeOK, ProcTypeOK
  <2>2. QED
    BY <1>4, <2>1, ClaimedKept DEF StartGroup, JoinGroup, dbVars, taskVars
<1>5. ASSUME NEW t \in Tasks, ClaimNextTask(w, t) PROVE Claimed(v)'
  <2>1. taskStatus[t] = "queued"
    BY <1>5 DEF ClaimNextTask, claimNextTask, NextToClaim
  <2>2. CASE v = w
    BY <1>5, <2>2 DEF ClaimNextTask, claimNextTask, Claimed, Owns, TypeOK, ProcTypeOK, DbTypeOK
  <2>3. CASE v # w
    <3>1. Busy(v)' => Busy(v) /\ wtask'[v] = wtask[v]
      BY <1>5, <2>3 DEF ClaimNextTask, Busy, TypeOK, ProcTypeOK
    <3>2. QED
      BY <1>5, <2>1, <3>1 DEF ClaimNextTask, claimNextTask, Claimed, Owns, TypeOK, DbTypeOK
  <2>4. QED
    BY <2>2, <2>3
<1>6. CASE \E r \in RunIds : ReconcileProcess(w, r) \/ ReconcileRemote(w, r)
  BY <1>6, ClaimedKept DEF ReconcileProcess, ReconcileRemote, confirmRemoteCancellation,
     workerVars, dbVars, taskVars, Busy
<1>7. CASE ExecuteTask(w)
  <2>1. Busy(v)' => Busy(v) /\ wtask'[v] = wtask[v]
    BY <1>7 DEF ExecuteTask, Busy, Executing, TypeOK, ProcTypeOK
  <2>2. taskStatus' = taskStatus /\ claimedBy' = claimedBy
    BY <1>7 DEF ExecuteTask, heartbeatTask, dbVars, taskVars
  <2>3. ASSUME NEW t \in Tasks, ~ lapsed[t] PROVE ~ lapsed'[t]
    BY <1>7, <2>3 DEF ExecuteTask, heartbeatTask, dbVars, taskVars, TypeOK, DbTypeOK
  <2>4. QED
    BY <2>1, <2>2, <2>3 DEF Claimed, Owns, WorkerHasTask, Busy
<1>8. CASE BlockTask(w)
  <2>1. CASE updateTaskStatus(wtask[w], "blocked")
    BY <1>8, <2>1, ReleaseClaimed DEF BlockTask, updateTaskStatus, Busy, Executing
  <2>2. CASE UNCHANGED dbVars
    BY <1>8, <2>2, LeaveTaskClaimed, ClaimedKept DEF BlockTask, dbVars, taskVars
  <2>3. QED
    BY <1>8, <2>1, <2>2 DEF BlockTask
<1>9. CASE FinalizeTask(w)
  <2>1. CASE finalizeDone(wtask[w]) \/ \E u \in ReviewIds : finalizeNeedsReview(wtask[w], u)
    BY <1>9, <2>1, ReleaseClaimed DEF FinalizeTask, finalizeDone, finalizeNeedsReview, Busy, Executing
  <2>2. CASE UNCHANGED dbVars
    BY <1>9, <2>2, LeaveTaskClaimed, ClaimedKept DEF FinalizeTask, dbVars, taskVars
  <2>3. QED
    BY <1>9, <2>1, <2>2 DEF FinalizeTask
<1>10. ASSUME NEW f \in todo[w],
              UnavailableStep(w, f) \/ \E r \in RunIds : CreateRun(w, f, r)
       PROVE  Claimed(v)'
  BY <1>10, ClaimedKept DEF UnavailableStep, CreateRun, updateRouteStep, createRun, taskVars, Busy
<1>11. QED
  BY <1>1, <1>2, <1>3, <1>4, <1>5, <1>6, <1>7, <1>8, <1>9, <1>10 DEF WorkerStep

\* Fibers leave the claims alone.
LEMMA FiberClaimed ==
  ASSUME NEW r \in RunIds, FiberStep(r)
  PROVE  UNCHANGED << taskVars, reviewVars, workerVars, shutdown >>
<1> USE DEF FiberGoto, LeaveTry, FiberRest, dbVars
<1>1. CASE StepRunning(r) \/ CloseStep(r) \/ CatchStep(r)
  BY <1>1 DEF StepRunning, CloseStep, CatchStep, updateRouteStep
<1>2. CASE RunStarting(r) \/ PersistStart(r) \/ CatchUpdate(r) \/ FinishRun(r)
  BY <1>2 DEF RunStarting, PersistStart, CatchUpdate, FinishRun, updateRun
<1>3. CASE PrepareWorktree(r)
  BY <1>3 DEF PrepareWorktree, updateRunTree
<1>4. CASE SpawnAgent(r) \/ StartAnswerLost(r) \/ CollectResult(r) \/ IngestArtifacts(r)
           \/ VerificationPasses(r) \/ CaptureReviewArtifacts(r) \/ FiberThrows(r) \/ Catch(r)
  BY <1>4 DEF SpawnAgent, StartAnswerLost, CollectResult, IngestArtifacts, VerificationPasses,
     CaptureReviewArtifacts, FiberThrows, Catch
<1>5. QED
  BY <1>1, <1>2, <1>3, <1>4 DEF FiberStep

\* Without stalls only claims lapse whose worker is dead or has left the task.
LEMMA EnvironmentClaimed ==
  ASSUME MaxStalls = 0, IInv, OwnedInv, Environment, NEW v \in Workers
  PROVE  Claimed(v)'
<1> USE DEF IInv, OwnedInv
<1>1. ASSUME NEW w \in Workers, StartWorker(w) PROVE Claimed(v)'
  <2>1. Busy(v)' => Busy(v) /\ wtask'[v] = wtask[v]
    BY <1>1 DEF StartWorker, Goto, Busy, Executing, TypeOK, ProcTypeOK
  <2>2. Busy(v) => wtask[v] \in Tasks \ LapsedTasks
    BY DEF Claimed, LapsedTasks, WorkerHasTask, Busy
  <2>3. QED
    BY <1>1, <2>1, <2>2, RecoverClaimed DEF StartWorker, recoverStaleTasks
<1>2. ASSUME NEW w \in Workers, NEW d \in Workers, RecoverDeadWorker(w, d) PROVE Claimed(v)'
  <2>1. Busy(v)' => Busy(v) /\ wtask'[v] = wtask[v]
    BY <1>2 DEF RecoverDeadWorker, workerVars, Busy
  <2>2. Busy(v) => wtask[v] \in Tasks \ TasksOwnedBy(d)
    BY <1>2 DEF Claimed, RecoverDeadWorker, TasksOwnedBy, WorkerHasTask, Owns, Busy, Executing
  <2>3. QED
    BY <1>2, <2>1, <2>2, RecoverClaimed DEF RecoverDeadWorker, recoverTasksOwnedBy
<1>3. ASSUME NEW w \in Workers, Crash(w) PROVE Claimed(v)'
  <2>1. Busy(v)' => Busy(v) /\ wtask'[v] = wtask[v]
    BY <1>3 DEF Crash, Busy, Executing, TypeOK, ProcTypeOK
  <2>2. QED
    BY <1>3, <2>1, ClaimedKept DEF Crash, dbVars, taskVars
<1>4. ASSUME NEW w \in Workers, RequestShutdown(w) PROVE Claimed(v)'
  BY <1>4, ClaimedKept DEF RequestShutdown, workerVars, Busy, dbVars, taskVars
<1>5. ASSUME NEW w \in Workers,
             WorkerThrows(w) \/ ClosingThrows(w) \/ \E f \in todo[w] : OpeningThrows(w, f)
      PROVE  Claimed(v)'
  <2>1. UNCHANGED << taskStatus, claimedBy, lapsed >>
    BY <1>5 DEF WorkerThrows, ClosingThrows, OpeningThrows, dbVars, taskVars
  <2>2. CASE LeaveTask(w) \/ \E f \in todo[w] : LeaveTaskWithout(w, {f})
    BY <2>1, <2>2, LeaveTaskClaimed, LeaveTaskWithoutClaimed, ClaimedKept
  <2>3. CASE UNCHANGED << wpc, wtask >>
    BY <2>1, <2>3, ClaimedKept DEF Busy
  <2>4. QED
    BY <1>5, <2>2, <2>3 DEF WorkerThrows, ClosingThrows, OpeningThrows
<1>6. ASSUME NEW w \in Workers, Heartbeat(w) PROVE Claimed(v)'
  BY <1>6 DEF Heartbeat, heartbeatTask, procVars, workerVars, Claimed, Owns, Busy, WorkerHasTask,
     TypeOK, DbTypeOK
<1>7. ASSUME NEW r \in RunIds, StepThrows(r) PROVE Claimed(v)'
  <2>1. fworker[r] \in Workers
    BY <1>7 DEF StepThrows, EvidenceInOrder
  <2>2. QED
    BY <1>7, <2>1, LeaveTaskClaimed, ClaimedKept DEF StepThrows, workerVars, Busy, dbVars, taskVars
<1>8. ASSUME NEW t \in Tasks, ClaimLapses(t) PROVE Claimed(v)'
  <2>1. Busy(v) => wtask[v] # t
    BY <1>8 DEF ClaimLapses, Claimed, Busy, Executing
  <2>2. QED
    BY <1>8, <2>1 DEF ClaimLapses, ClaimAges, procVars, workerVars, Claimed, Owns, Busy,
       TypeOK, DbTypeOK
<1>9. ASSUME NEW t \in Tasks, ClaimStalls(t) PROVE FALSE
  BY <1>9 DEF ClaimStalls, TypeOK, ProcTypeOK
<1>10. QED
  BY <1>1, <1>2, <1>3, <1>4, <1>5, <1>6, <1>7, <1>8, <1>9 DEF Environment

\* The operator does not touch running tasks.
LEMMA OperatorClaimed ==
  ASSUME IInv, OwnedInv, Operator, NEW v \in Workers
  PROVE  Claimed(v)'
<1>1. Busy(v)' = Busy(v) /\ wtask' = wtask
  BY DEF Operator, CreateTask, ApproveReview, RequestRework, RetryBlockedTask, Requeue,
     procVars, workerVars, Busy
<1>2. PICK t \in Tasks : /\ taskStatus[t] # "running"
                         /\ \A u \in Tasks \ {t} : /\ taskStatus'[u] = taskStatus[u]
                                                   /\ claimedBy'[u] = claimedBy[u]
                                                   /\ lapsed'[u] = lapsed[u]
  BY DEF Operator, CreateTask, createTask, ApproveReview, approveTaskReview, Decidable,
     RequestRework, requestTaskRework, RetryBlockedTask, retryBlockedTask, ReleaseTask,
     IInv, TypeOK, DbTypeOK
<1>3. QED
  BY <1>1, <1>2 DEF Claimed, OwnedInv, Owns, IInv, WorkerHasTask, Busy

\* Inductive while heartbeats arrive.
LEMMA OwnedStep ==
  ASSUME MaxStalls = 0, IInv, OwnedInv, [Next]_vars
  PROVE  OwnedInv'
<1> SUFFICES ASSUME NEW v \in Workers PROVE Claimed(v)'
  BY DEF OwnedInv
<1>1. CASE \E r \in RunIds : FiberStep(r)
  BY <1>1, FiberClaimed, ClaimedKept DEF OwnedInv, taskVars, workerVars, Busy
<1>2. CASE UNCHANGED vars
  BY <1>2, ClaimedKept DEF OwnedInv, vars, dbVars, taskVars, procVars, workerVars, Busy
<1>3. QED
  BY <1>1, <1>2, WorkerClaimed, EnvironmentClaimed, OperatorClaimed DEF Next

\* Without stalls executeTask (coordinator.ts) works only on a task that its
\* worker owns, from its claim to its last write about it: a recovery takes
\* tasks from dead workers or from workers that have left them.
THEOREM OwnedWhileExecuting == ASSUME MaxStalls = 0 PROVE Spec => []ExecutionIsOwned
<1>1. Init => OwnedInv
  BY DEF Init, OwnedInv, Claimed, Busy, Executing
<1>2. IInv /\ OwnedInv /\ [Next]_vars => OwnedInv'
  BY OwnedStep
<1>3. OwnedInv => ExecutionIsOwned
  BY DEF OwnedInv, Claimed, ExecutionIsOwned, Busy
<1>4. QED
  BY <1>1, <1>2, <1>3, Inductive, PTL DEF Spec

-----------------------------------------------------------------------------
(* Reviews.                                                                 *)

\* The undecided reviews of a task: one while it waits for a review, else none.
ReviewsMatch(t) ==
  \/ taskStatus[t] # "needs-review" /\ PendingReviews(t) = {}
  \/ taskStatus[t] = "needs-review" /\ \E v \in ReviewIds : PendingReviews(t) = {v}

ReviewInv == \A t \in Tasks : ReviewsMatch(t)

\* What a step does to tasks and reviews as a whole, seen without the steps,
\* runs and fibers: nothing, or one of the operations by which tasks move.
TaskMove ==
  \/ UNCHANGED << taskStatus, claimedBy, reviewVars >>
  \/ \E t \in Tasks :
       \/ createTask(t)
       \/ \E w \in Workers : claimNextTask(w, t)
       \/ taskStatus[t] = "running" /\ updateTaskStatus(t, "blocked")
       \/ \E w \in Workers : /\ wpc[w] = "finalize" /\ wtask[w] = t /\ Owns(w, t)
                            /\ \/ ~ NeedsReview[t] /\ finalizeDone(t)
                               \/ NeedsReview[t] /\ \E v \in ReviewIds : finalizeNeedsReview(t, v)
       \/ \E v \in ReviewIds : approveTaskReview(t, v) \/ requestTaskRework(t, v)
       \/ \E allow \in BOOLEAN : retryBlockedTask(t, allow)
  \/ \E T \in SUBSET Tasks, note \in RunNote :
       /\ \A t \in T : taskStatus[t] = "running"
       /\ recoverRunningTasks(T, note)

\* Whatever a worker, a fiber, the environment or the operator does.
LEMMA StepIsTaskMove ==
  ASSUME IInv, OwnedInv, Next
  PROVE  TaskMove
<1> USE DEF IInv
<1>1. ASSUME NEW w \in Workers, WorkerStep(w) PROVE TaskMove
  <2>1. CASE BeginLoop(w) \/ ExecuteTaskRefused(w) \/ StartGroup(w) \/ JoinGroup(w)
             \/ StopLoop(w) \/ BlockForShutdown(w) \/ HandoffFails(w)
    BY <2>1 DEF BeginLoop, ExecuteTaskRefused, StartGroup, JoinGroup, StopLoop,
       BlockForShutdown, HandoffFails, TaskMove, dbVars, taskVars
  <2>2. CASE \E t \in Tasks : ClaimNextTask(w, t)
    BY <2>2 DEF ClaimNextTask, TaskMove
  <2>3. CASE \E r \in RunIds : ReconcileProcess(w, r) \/ ReconcileRemote(w, r)
    BY <2>3 DEF ReconcileProcess, ReconcileRemote, confirmRemoteCancellation, TaskMove, dbVars, taskVars
  <2>4. CASE ExecuteTask(w)
    BY <2>4 DEF ExecuteTask, heartbeatTask, TaskMove, dbVars, taskVars
  <2>5. CASE BlockTask(w)
    <3>1. taskStatus[wtask[w]] = "running" /\ wtask[w] \in Tasks
      BY <2>5 DEF BlockTask, OwnedInv, Claimed, Busy, Executing, Owns, WorkerHasTask
    <3>2. QED
      BY <2>5, <3>1 DEF BlockTask, TaskMove, dbVars, taskVars
  <2>6. CASE FinalizeTask(w)
    <3>1. Owns(w, wtask[w]) /\ wtask[w] \in Tasks /\ wpc[w] = "finalize"
      BY <2>6 DEF FinalizeTask, OwnedInv, Claimed, Busy, Executing, WorkerHasTask
    <3>2. QED
      BY <2>6, <3>1 DEF FinalizeTask, TaskMove, dbVars, taskVars
  <2>7. ASSUME NEW f \in todo[w], UnavailableStep(w, f) \/ \E r \in RunIds : CreateRun(w, f, r)
        PROVE  TaskMove
    BY <2>7 DEF UnavailableStep, CreateRun, updateRouteStep, createRun, TaskMove, taskVars
  <2>8. QED
    BY <1>1, <2>1, <2>2, <2>3, <2>4, <2>5, <2>6, <2>7 DEF WorkerStep
<1>2. ASSUME NEW r \in RunIds, FiberStep(r) PROVE TaskMove
  BY <1>2, FiberClaimed DEF TaskMove, taskVars
<1>3. CASE Environment
  <2>1. ASSUME NEW w \in Workers, StartWorker(w) PROVE TaskMove
    BY <2>1 DEF StartWorker, recoverStaleTasks, LapsedTasks, RunNote, TaskMove
  <2>2. ASSUME NEW w \in Workers, NEW d \in Workers, RecoverDeadWorker(w, d) PROVE TaskMove
    BY <2>2 DEF RecoverDeadWorker, recoverTasksOwnedBy, TasksOwnedBy, Owns, RunNote, TaskMove
  <2>3. ASSUME NEW w \in Workers,
               \/ Crash(w) \/ RequestShutdown(w) \/ WorkerThrows(w) \/ ClosingThrows(w)
               \/ \E f \in todo[w] : OpeningThrows(w, f)
        PROVE  TaskMove
    BY <2>3 DEF Crash, RequestShutdown, WorkerThrows, ClosingThrows, OpeningThrows, TaskMove,
       dbVars, taskVars
  <2>4. ASSUME NEW w \in Workers, Heartbeat(w) PROVE TaskMove
    BY <2>4 DEF Heartbeat, heartbeatTask, TaskMove
  <2>5. ASSUME NEW r \in RunIds, StepThrows(r) PROVE TaskMove
    BY <2>5 DEF StepThrows, TaskMove, dbVars, taskVars
  <2>6. ASSUME NEW t \in Tasks, ClaimLapses(t) \/ ClaimStalls(t) PROVE TaskMove
    BY <2>6 DEF ClaimLapses, ClaimStalls, ClaimAges, TaskMove
  <2>7. QED
    BY <1>3, <2>1, <2>2, <2>3, <2>4, <2>5, <2>6 DEF Environment
<1>4. CASE Operator
  BY <1>4 DEF Operator, CreateTask, ApproveReview, RequestRework, RetryBlockedTask, TaskMove
<1>5. QED
  BY <1>1, <1>2, <1>3, <1>4 DEF Next

\* The status of a task moves without touching its reviews.
LEMMA ReviewsUntouched ==
  ASSUME NEW t \in Tasks, ReviewsMatch(t), UNCHANGED reviewVars,
         taskStatus'[t] = taskStatus[t] \/ (taskStatus[t] # "needs-review" /\ taskStatus'[t] # "needs-review")
  PROVE  ReviewsMatch(t)'
BY DEF ReviewsMatch, PendingReviews, reviewVars

\* Inductive, with ownership: whoever submits or blocks a task holds it.
LEMMA ReviewStep ==
  ASSUME IInv, OwnedInv, ReviewInv, [Next]_vars
  PROVE  ReviewInv'
<1> SUFFICES ASSUME NEW u \in Tasks PROVE ReviewsMatch(u)'
  BY DEF ReviewInv
<1> ReviewsMatch(u)
  BY DEF ReviewInv
<1> USE DEF IInv, TypeOK, DbTypeOK
<1>1. CASE UNCHANGED << taskStatus, claimedBy, reviewVars >>
  BY <1>1, ReviewsUntouched
<1>2. ASSUME NEW t \in Tasks,
             \/ createTask(t)
             \/ \E w \in Workers : claimNextTask(w, t)
             \/ taskStatus[t] = "running" /\ updateTaskStatus(t, "blocked")
             \/ finalizeDone(t)
             \/ \E allow \in BOOLEAN : retryBlockedTask(t, allow)
      PROVE  ReviewsMatch(u)'
  BY <1>2, ReviewsUntouched DEF createTask, claimNextTask, NextToClaim, updateTaskStatus,
     finalizeDone, retryBlockedTask, ReleaseTask
<1>3. ASSUME NEW T, NEW note, recoverRunningTasks(T, note), \A t \in T : taskStatus[t] = "running"
      PROVE  ReviewsMatch(u)'
  BY <1>3, ReviewsUntouched DEF recoverRunningTasks
<1>4. ASSUME NEW t \in Tasks, NEW v \in ReviewIds, finalizeNeedsReview(t, v) PROVE ReviewsMatch(u)'
  <2>1. \A x \in Tasks : PendingReviews(x)' = IF x = t THEN PendingReviews(x) \cup {v} ELSE PendingReviews(x)
    BY <1>4 DEF finalizeNeedsReview, NextReviewId, PendingReviews
  <2>2. QED
    BY <1>4, <2>1 DEF finalizeNeedsReview, ReleaseTask, ReviewsMatch
<1>5. ASSUME NEW t \in Tasks, NEW v \in ReviewIds, approveTaskReview(t, v) \/ requestTaskRework(t, v)
      PROVE  ReviewsMatch(u)'
  <2>1. \A x \in Tasks : PendingReviews(x)' = PendingReviews(x) \ {v}
    BY <1>5 DEF approveTaskReview, requestTaskRework, PendingReviews
  <2>2. v \in PendingReviews(t) /\ \A x \in Tasks \ {t} : v \notin PendingReviews(x)
    BY <1>5 DEF approveTaskReview, requestTaskRework, Decidable, PendingReviews
  <2>3. taskStatus[t] = "needs-review" /\ taskStatus'[t] # "needs-review"
        /\ \A x \in Tasks \ {t} : taskStatus'[x] = taskStatus[x]
    BY <1>5 DEF approveTaskReview, requestTaskRework, Decidable, ReleaseTask
  <2>4. ReviewsMatch(t)
    BY DEF ReviewInv
  <2>5. QED
    BY <2>1, <2>2, <2>3, <2>4 DEF ReviewsMatch
<1>6. CASE UNCHANGED vars
  BY <1>6, ReviewsUntouched DEF vars, dbVars, taskVars
<1>7. QED
  BY <1>1, <1>2, <1>3, <1>4, <1>5, <1>6, StepIsTaskMove DEF TaskMove

\* Without stalls there is one pending review exactly while a task waits for
\* it: #blockTask and #finalizeTask find the task running, so that neither
\* leaves a review open behind.
THEOREM OneReviewPerSubmission == ASSUME MaxStalls = 0 PROVE Spec => []ReviewMatchesTask
<1>1. Init => OwnedInv
  BY DEF Init, OwnedInv, Claimed, Busy, Executing
<1>2. Init => ReviewInv
  BY DEF Init, DbInit, ReviewInv, ReviewsMatch, PendingReviews
<1>3. IInv /\ OwnedInv /\ [Next]_vars => OwnedInv'
  BY OwnedStep
<1>4. IInv /\ OwnedInv /\ ReviewInv /\ [Next]_vars => ReviewInv'
  BY ReviewStep
<1>5. ReviewInv => ReviewMatchesTask
  <2> SUFFICES ASSUME ReviewInv, NEW t \in Tasks
               PROVE  Cardinality(PendingReviews(t)) = IF taskStatus[t] = "needs-review" THEN 1 ELSE 0
    BY DEF ReviewMatchesTask, PendingReviews
  <2>1. QED
    BY FS_EmptySet, FS_Singleton DEF ReviewInv, ReviewsMatch
<1>6. QED
  BY <1>1, <1>2, <1>3, <1>4, <1>5, Inductive, PTL DEF Spec
=============================================================================
