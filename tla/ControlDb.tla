------------------------------ MODULE ControlDb ------------------------------
(***************************************************************************)
(* The durable state of the control center, as the SQLite database of       *)
(* src/src/db.ts keeps it, and its operations.  Every operation is one      *)
(* action: it runs either in an IMMEDIATE transaction or as a read followed *)
(* by an UPDATE that repeats what was read in its WHERE clause, so that a   *)
(* write of another process in between makes it throw and change nothing.   *)
(* DbSpec is the database under callers that may call anything at any time, *)
(* with every status a task or run can be given; what holds of it holds     *)
(* whatever the coordinators do.                                            *)
(*                                                                          *)
(* claimed_at is abstracted to lapsed[t]: it is older than the stale        *)
(* cutoff.  The error text of a run is abstracted to the one thing the code *)
(* ever looks for in it: runNote[r] says whether the recovery wrote it, and *)
(* which of its two wordings it used.  A worktree is named after the run    *)
(* that created it.                                                         *)
(***************************************************************************)
EXTENDS Protocol, Naturals, FiniteSets

CONSTANTS
  Tasks,        \* task ids
  Steps,        \* route step ids
  StepTask,     \* the task a step belongs to
  StepAgent,    \* the agent a step is assigned to
  Priority,     \* 0 for urgent ... 3 for low
  Workers,      \* worker ids; an id stands for one process incarnation
  NoWorker,     \* claimed_by IS NULL
  NoStep,       \* the route step of a run id that is not in use
  NoTask,       \* the task of a review id that is not in use
  MaxRuns,      \* bound on the runs ever created
  MaxReviews    \* bound on the reviews ever created

RunIds == 1..MaxRuns

ReviewIds == 1..MaxReviews

NoRun == 0

RunNote == {"none", "heartbeat-expired", "owner-dead"}

ASSUME StepAssumption ==
  /\ StepTask \in [Steps -> Tasks]
  /\ Priority \in [Tasks -> Nat]

ASSUME NullAssumption ==
  /\ NoWorker \notin Workers
  /\ NoStep \notin Steps
  /\ NoTask \notin Tasks

ASSUME BoundAssumption == MaxRuns \in Nat /\ MaxReviews \in Nat

VARIABLES
  taskStatus,    \* tasks.status, or "absent"
  claimedBy,     \* tasks.claimed_by
  lapsed,        \* tasks.claimed_at is before the stale cutoff
  older,         \* pairs of tasks in the order of created_at
  stepStatus,    \* route_steps.status
  stepRun,       \* route_steps.run_id
  runStatus,     \* runs.status, or "absent"
  runStep,       \* runs.route_step_id
  runNote,       \* which recovery, if any, wrote runs.error
  runTree,       \* runs.worktree_path
  confirmed,     \* runs with an event run.remote_cancellation_confirmed
  reviewStatus,  \* reviews.status, or "absent"
  reviewTask     \* reviews.task_id

taskVars == << taskStatus, claimedBy, lapsed, older >>
stepVars == << stepStatus, stepRun >>
runVars == << runStatus, runStep, runNote, runTree, confirmed >>
reviewVars == << reviewStatus, reviewTask >>
dbVars == << taskVars, stepVars, runVars, reviewVars >>

DbTypeOK ==
  /\ taskStatus \in [Tasks -> TaskStatus \cup {"absent"}]
  /\ claimedBy \in [Tasks -> Workers \cup {NoWorker}]
  /\ lapsed \in [Tasks -> BOOLEAN]
  /\ older \in SUBSET (Tasks \X Tasks)
  /\ stepStatus \in [Steps -> RouteStepStatus]
  /\ stepRun \in [Steps -> RunIds \cup {NoRun}]
  /\ runStatus \in [RunIds -> RunStatus \cup {"absent"}]
  /\ runStep \in [RunIds -> Steps \cup {NoStep}]
  /\ runNote \in [RunIds -> RunNote]
  /\ runTree \in [RunIds -> RunIds \cup {NoRun}]
  /\ confirmed \in SUBSET RunIds
  /\ reviewStatus \in [ReviewIds -> ReviewStatus \cup {"absent"}]
  /\ reviewTask \in [ReviewIds -> Tasks \cup {NoTask}]

DbInit ==
  /\ taskStatus = [t \in Tasks |-> "absent"]
  /\ claimedBy = [t \in Tasks |-> NoWorker]
  /\ lapsed = [t \in Tasks |-> FALSE]
  /\ older = {}
  /\ stepStatus = [s \in Steps |-> "pending"]
  /\ stepRun = [s \in Steps |-> NoRun]
  /\ runStatus = [r \in RunIds |-> "absent"]
  /\ runStep = [r \in RunIds |-> NoStep]
  /\ runNote = [r \in RunIds |-> "none"]
  /\ runTree = [r \in RunIds |-> NoRun]
  /\ confirmed = {}
  /\ reviewStatus = [v \in ReviewIds |-> "absent"]
  /\ reviewTask = [v \in ReviewIds |-> NoTask]

StepsOf(t) == {s \in Steps : StepTask[s] = t}

RunsOf(t) == {r \in RunIds : runStatus[r] # "absent" /\ runStep[r] \in StepsOf(t)}

\* Slip: the claim columns are not cleared.
ReleaseTask_keepsClaim(t, status) ==
  /\ taskStatus' = [taskStatus EXCEPT ![t] = status]
  /\ UNCHANGED << claimedBy, lapsed, older >>

\* Writes the status of a task that nobody holds from now on.
ReleaseTask(t, status) ==
  /\ taskStatus' = [taskStatus EXCEPT ![t] = status]
  /\ claimedBy' = [claimedBy EXCEPT ![t] = NoWorker]
  /\ lapsed' = [lapsed EXCEPT ![t] = FALSE]
  /\ UNCHANGED older

-----------------------------------------------------------------------------
(* Tasks and claims.                                                        *)

createTask(t) ==
  /\ taskStatus[t] = "absent"
  /\ taskStatus' = [taskStatus EXCEPT ![t] = "queued"]
  /\ older' = older \cup {<<u, t>> : u \in {x \in Tasks : taskStatus[x] # "absent"}}
  /\ UNCHANGED << claimedBy, lapsed, stepVars, runVars, reviewVars >>

\* The oldest of the queued tasks of the best priority.
NextToClaim(t) ==
  /\ taskStatus[t] = "queued"
  /\ \A u \in Tasks : taskStatus[u] = "queued" =>
       /\ Priority[t] <= Priority[u]
       /\ Priority[t] = Priority[u] => <<u, t>> \notin older

claimNextTask(w, t) ==
  /\ NextToClaim(t)
  /\ taskStatus' = [taskStatus EXCEPT ![t] = "running"]
  /\ claimedBy' = [claimedBy EXCEPT ![t] = w]
  /\ lapsed' = [lapsed EXCEPT ![t] = FALSE]
  /\ UNCHANGED << older, stepVars, runVars, reviewVars >>

Owns(w, t) == taskStatus[t] = "running" /\ claimedBy[t] = w

heartbeatTask(t, w) ==
  /\ Owns(w, t)
  /\ lapsed' = [lapsed EXCEPT ![t] = FALSE]
  /\ UNCHANGED << taskStatus, claimedBy, older, stepVars, runVars, reviewVars >>

\* Time passes: claimed_at of a running task falls behind the cutoff.  It is
\* NULL when claimed_by is, and NULL is behind no cutoff.
ClaimAges(t) ==
  /\ taskStatus[t] = "running" /\ claimedBy[t] # NoWorker
  /\ lapsed' = [lapsed EXCEPT ![t] = TRUE]
  /\ UNCHANGED << taskStatus, claimedBy, older, stepVars, runVars, reviewVars >>

\* No claim is checked: any status the table allows may be written by anyone.
\* "running" leaves the claim as it is, so that a queued task may run unclaimed.
updateTaskStatus(t, status) ==
  /\ taskStatus[t] # "absent"
  /\ TaskTransitionAllowed(taskStatus[t], status)
  /\ \/ status # "running" /\ ReleaseTask(t, status)
     \/ /\ status = "running"
        /\ taskStatus' = [taskStatus EXCEPT ![t] = status]
        /\ UNCHANGED << claimedBy, lapsed, older >>
  /\ UNCHANGED << stepVars, runVars, reviewVars >>

-----------------------------------------------------------------------------
(* Recovery of running tasks whose owner stopped (recoverStaleTasks) or is  *)
(* known to be dead (recoverTasksOwnedBy).                                  *)

ActiveRunsOf(T) ==
  {r \in RunIds : /\ runStatus[r] \in {"starting", "running"}
                  /\ runStep[r] # NoStep
                  /\ StepTask[runStep[r]] \in T}

\* Slip: every open run of a task is declared stale.
RecoveredStatus_stale(status) == "stale"

\* Only a run that was active is stale.
RecoveredStatus(status) == IF status = "running" THEN "stale" ELSE "failed"

recoverRunningTasks(T, note) ==
  /\ taskStatus' = [t \in Tasks |-> IF t \in T THEN "blocked" ELSE taskStatus[t]]
  /\ claimedBy' = [t \in Tasks |-> IF t \in T THEN NoWorker ELSE claimedBy[t]]
  /\ lapsed' = [t \in Tasks |-> IF t \in T THEN FALSE ELSE lapsed[t]]
  /\ stepStatus' = [s \in Steps |->
       IF StepTask[s] \in T /\ stepStatus[s] = "running" THEN "failed" ELSE stepStatus[s]]
  /\ runStatus' = [r \in RunIds |->
       IF r \in ActiveRunsOf(T) THEN RecoveredStatus(runStatus[r]) ELSE runStatus[r]]
  /\ runNote' = [r \in RunIds |-> IF r \in ActiveRunsOf(T) THEN note ELSE runNote[r]]
  /\ UNCHANGED << older, stepRun, runStep, runTree, confirmed, reviewVars >>

\* Slip: the age of the claim is not compared with the cutoff.
LapsedTasks_anyAge == {t \in Tasks : taskStatus[t] = "running"}

LapsedTasks == {t \in Tasks : taskStatus[t] = "running" /\ lapsed[t]}

recoverStaleTasks == recoverRunningTasks(LapsedTasks, "heartbeat-expired")

TasksOwnedBy(d) == {t \in Tasks : Owns(d, t)}

recoverTasksOwnedBy(d) == recoverRunningTasks(TasksOwnedBy(d), "owner-dead")

-----------------------------------------------------------------------------
(* Route steps and runs.                                                    *)

\* The caller's claim on the task is not part of the WHERE clause.
updateRouteStep(s, status, run) ==
  /\ stepStatus' = [stepStatus EXCEPT ![s] = status]
  /\ stepRun' = [stepRun EXCEPT ![s] = run]
  /\ UNCHANGED << taskVars, runVars, reviewVars >>

\* Run ids are taken in the order of created_at.
NextRunId(r) ==
  /\ runStatus[r] = "absent"
  /\ \A q \in RunIds : q < r => runStatus[q] # "absent"

createRun(s, r) ==
  /\ NextRunId(r)
  /\ runStatus' = [runStatus EXCEPT ![r] = "queued"]
  /\ runStep' = [runStep EXCEPT ![r] = s]
  /\ UNCHANGED << runNote, runTree, confirmed, taskVars, stepVars, reviewVars >>

\* Slip: the transition table is not consulted.
CanUpdateRun_unchecked(r, status) == runStatus[r] # "absent"

CanUpdateRun(r, status) ==
  /\ runStatus[r] # "absent"
  /\ RunTransitionAllowed(runStatus[r], status)

\* A patch with a status.  A terminal patch carries the caller's error, which
\* replaces the error text the recovery may have written.
updateRun(r, status) ==
  /\ CanUpdateRun(r, status)
  /\ runStatus' = [runStatus EXCEPT ![r] = status]
  /\ runNote' = IF status \in {"queued", "starting", "running"} THEN runNote
                ELSE [runNote EXCEPT ![r] = "none"]
  /\ UNCHANGED << runStep, runTree, confirmed, taskVars, stepVars, reviewVars >>

\* A patch without a status: worktree_path, branch and base_commit.
updateRunTree(r, tree) ==
  /\ runStatus[r] # "absent"
  /\ runTree' = [runTree EXCEPT ![r] = tree]
  /\ UNCHANGED << runStatus, runStep, runNote, confirmed, taskVars, stepVars, reviewVars >>

\* appendEvent of run.remote_cancellation_confirmed
confirmRemoteCancellation(r) ==
  /\ runStatus[r] # "absent"
  /\ confirmed' = confirmed \cup {r}
  /\ UNCHANGED << runStatus, runStep, runNote, runTree, taskVars, stepVars, reviewVars >>

-----------------------------------------------------------------------------
(* Completion, review and retry.                                            *)

NextReviewId(v) ==
  /\ reviewStatus[v] = "absent"
  /\ \A u \in ReviewIds : u < v => reviewStatus[u] # "absent"

\* Only the status is checked, not who holds the claim.
finalizeDone(t) ==
  /\ taskStatus[t] = "running"
  /\ ReleaseTask(t, "done")
  /\ UNCHANGED << stepVars, runVars, reviewVars >>

finalizeNeedsReview(t, v) ==
  /\ taskStatus[t] = "running"
  /\ NextReviewId(v)
  /\ ReleaseTask(t, "needs-review")
  /\ reviewStatus' = [reviewStatus EXCEPT ![v] = "pending"]
  /\ reviewTask' = [reviewTask EXCEPT ![v] = t]
  /\ UNCHANGED << stepVars, runVars >>

\* Slip: a review that was decided before is decided again.
Decidable_again(t, v) ==
  /\ taskStatus[t] = "needs-review"
  /\ reviewTask[v] = t

\* The task waits for review and v is a pending review of it.  A caller that
\* names no review gets the latest pending one, one that names a review gets
\* that one, with updated_at as a precondition; as a review row is only ever
\* rewritten by its decision, pending implies that updated_at did not change.
Decidable(t, v) ==
  /\ taskStatus[t] = "needs-review"
  /\ reviewTask[v] = t
  /\ reviewStatus[v] = "pending"

approveTaskReview(t, v) ==
  /\ Decidable(t, v)
  /\ reviewStatus' = [reviewStatus EXCEPT ![v] = "approved"]
  /\ ReleaseTask(t, "done")
  /\ UNCHANGED << reviewTask, stepVars, runVars >>

ResetSteps(t, from) ==
  LET reset == {s \in StepsOf(t) : stepStatus[s] \in from}
  IN /\ stepStatus' = [s \in Steps |-> IF s \in reset THEN "pending" ELSE stepStatus[s]]
     /\ stepRun' = [s \in Steps |-> IF s \in reset THEN NoRun ELSE stepRun[s]]

\* Slip: the task is queued again but its review stays open.
requestTaskRework_leavesReview(t, v) ==
  /\ Decidable(t, v)
  /\ ResetSteps(t, RouteStepStatus)
  /\ ReleaseTask(t, "queued")
  /\ UNCHANGED << reviewVars, runVars >>

requestTaskRework(t, v) ==
  /\ Decidable(t, v)
  /\ reviewStatus' = [reviewStatus EXCEPT ![v] = "rework_requested"]
  /\ ResetSteps(t, RouteStepStatus)
  /\ ReleaseTask(t, "queued")
  /\ UNCHANGED << reviewTask, runVars >>

\* runs.error LIKE '%Worker heartbeat expired%' matches one of the two notes.
UnresolvedRemote(t) ==
  {r \in RunsOf(t) : /\ StepAgent[runStep[r]] = "openclaw"
                     /\ runStatus[r] = "stale" \/ runNote[r] = "heartbeat-expired"
                     /\ r \notin confirmed}

retryBlockedTask(t, allowUnconfirmedRemote) ==
  /\ taskStatus[t] = "blocked"
  /\ allowUnconfirmedRemote \/ UnresolvedRemote(t) = {}
  /\ ResetSteps(t, {"failed"})
  /\ ReleaseTask(t, "queued")
  /\ UNCHANGED << runVars, reviewVars >>

-----------------------------------------------------------------------------
(* Operations that nothing in src/src calls; the tests do.                  *)

resetRouteSteps(t) ==
  /\ ResetSteps(t, RouteStepStatus)
  /\ UNCHANGED << taskVars, runVars, reviewVars >>

\* The task's status is not looked at.
createReview(t, v) ==
  /\ taskStatus[t] # "absent"
  /\ NextReviewId(v)
  /\ reviewStatus' = [reviewStatus EXCEPT ![v] = "pending"]
  /\ reviewTask' = [reviewTask EXCEPT ![v] = t]
  /\ UNCHANGED << taskVars, stepVars, runVars >>

\* The task stays as it is.
decideReview(v, status) ==
  /\ reviewStatus[v] = "pending"
  /\ reviewStatus' = [reviewStatus EXCEPT ![v] = status]
  /\ UNCHANGED << reviewTask, taskVars, stepVars, runVars >>

-----------------------------------------------------------------------------
(* The database under arbitrary callers.                                    *)

\* The operations that src/src calls, when updateTaskStatus is given the
\* statuses of taskTo and updateRun those of runTo.
DbCalls(taskTo, runTo) ==
  \/ \E t \in Tasks :
       \/ createTask(t)
       \/ ClaimAges(t)
       \/ \E w \in Workers : claimNextTask(w, t) \/ heartbeatTask(t, w)
       \/ \E status \in taskTo : updateTaskStatus(t, status)
       \/ finalizeDone(t)
       \/ \E v \in ReviewIds : \/ finalizeNeedsReview(t, v)
                               \/ approveTaskReview(t, v)
                               \/ requestTaskRework(t, v)
       \/ \E allow \in BOOLEAN : retryBlockedTask(t, allow)
  \/ recoverStaleTasks
  \/ \E d \in Workers : recoverTasksOwnedBy(d)
  \/ \E s \in Steps, status \in RouteStepStatus, run \in RunIds \cup {NoRun} :
       updateRouteStep(s, status, run)
  \/ \E s \in Steps, r \in RunIds : createRun(s, r)
  \/ \E r \in RunIds, status \in runTo : updateRun(r, status)
  \/ \E r \in RunIds, tree \in RunIds : updateRunTree(r, tree)
  \/ \E r \in RunIds : confirmRemoteCancellation(r)

DbNext ==
  \/ DbCalls(TaskStatus, RunStatus)
  \/ \E t \in Tasks : resetRouteSteps(t) \/ \E v \in ReviewIds : createReview(t, v)
  \/ \E v \in ReviewIds, status \in ReviewStatus \ {"pending"} : decideReview(v, status)

DbSpec == DbInit /\ [][DbNext]_dbVars

\* The calls that src/src makes: updateTaskStatus blocks a task, and updateRun
\* never queues a run again.
CoordinatorCalls == DbCalls({"blocked"}, RunStatus \ {"queued"})

CallsSpec == DbInit /\ [][CoordinatorCalls]_dbVars

-----------------------------------------------------------------------------
(* What the database guarantees whatever its callers do.                    *)

\* Only a running task has an owner, and only a claim can lapse: no path out of
\* "running" leaves a claim behind.
OnlyRunningIsClaimed ==
  \A t \in Tasks :
    /\ claimedBy[t] # NoWorker => taskStatus[t] = "running"
    /\ lapsed[t] => claimedBy[t] # NoWorker

TaskMoves(t) ==
  \/ taskStatus[t] = "absent" /\ taskStatus'[t] \in {"absent", "queued"}
  \/ taskStatus[t] # "absent" /\ TaskTransitionAllowed(taskStatus[t], taskStatus'[t])

RunMoves(r) ==
  \/ runStatus[r] = "absent" /\ runStatus'[r] \in {"absent", "queued"}
  \/ runStatus[r] # "absent" /\ RunTransitionAllowed(runStatus[r], runStatus'[r])

\* No row takes a way that the tables of protocol.ts do not have, although most
\* operations write statuses in SQL and never ask the tables: claim, recovery,
\* completion, review, rework and retry.
TransitionsObeyed ==
  [][(\A t \in Tasks : TaskMoves(t)) /\ (\A r \in RunIds : RunMoves(r))]_dbVars

\* A review is decided once; the decision is never changed or withdrawn.
DecisionIsFinal ==
  [][\A v \in ReviewIds : reviewStatus[v] \in {"approved", "rework_requested"}
       => reviewStatus'[v] = reviewStatus[v]]_dbVars

-----------------------------------------------------------------------------
(* What holds of the calls that the coordinators make.                      *)

\* A task has an owner exactly while it is running, so that a task that nobody
\* works on is found by its status or by the age of its claim.  The database
\* alone does not see to it: updateTaskStatus takes "running".
ClaimIffRunning ==
  \A t \in Tasks :
    /\ taskStatus[t] = "running" <=> claimedBy[t] # NoWorker
    /\ lapsed[t] => taskStatus[t] = "running"

\* A settled run is never resurrected or re-judged: what succeeded, failed or
\* was stopped stays so, and a run that recovery declared stale can at most be
\* closed as failed by the worker that was believed dead.  The table would let
\* updateRun queue a run again.
SettledRunsStay ==
  [][\A r \in RunIds :
       /\ runStatus[r] \in {"succeeded", "failed", "stopped"} => runStatus'[r] = runStatus[r]
       /\ runStatus[r] = "stale" => runStatus'[r] \in {"stale", "failed"}]_dbVars
=============================================================================
