---------------------------- MODULE RunControl ----------------------------
(***************************************************************************)
(* One run of a local CLI agent under the requests of operators to stop it. *)
(* Source: #executeStep from createRun on, #runVerification and stopRun of  *)
(* src/src/coordinator.ts, CliAdapter of src/src/adapters/cli-adapter.ts    *)
(* and ProcessTaskVerifier of src/src/verifier.ts, over the processes of    *)
(* ProcessSupervisor: one for the agent, one for the verification.          *)
(*                                                                          *)
(* What #executeStep writes to the database is the subject of Coordinator;  *)
(* here only the run's status counts, and the maps by which stopRun finds   *)
(* out what there is to stop.  An await that can fail may end in the catch  *)
(* block.                                                                   *)
(***************************************************************************)
EXTENDS ProcessSupervisor

CONSTANTS
  Operators,   \* calls of stopRun
  Verified     \* role execute, and the task has a verification command

Agent == "agent"
Verifier == "verifier"

ASSUME ControlAssumption ==
  /\ Handles = {Agent, Verifier}
  /\ Verified \in BOOLEAN

VARIABLES
  fpc,              \* where #executeStep is
  status,           \* the run's status in the database
  phase,            \* #runPhases
  active,           \* #activeRuns has the run
  activeVerif,      \* #activeVerifications has the run
  stopRequestedRun, \* #stopRequestedRuns has the run
  verifierActive,   \* #active of the verifier has the run
  stopBeforeStart,  \* #stopBeforeStart of the verifier has the run
  verdict,          \* what the verifier's run returns
  opc,              \* where a call of stopRun is
  seen,             \* the phase it read
  answer            \* what it returned or threw

mapVars == << phase, active, activeVerif, stopRequestedRun, verifierActive, stopBeforeStart >>
fiberVars == << fpc, status, verdict >>
callVars == << opc, seen, answer >>
controlVars == << mapVars, fiberVars, callVars >>
vars == << supVars, controlVars >>

FiberPc == {"starting", "launching", "spawning", "persisting", "abandoning", "halting",
            "collecting", "ingesting", "before", "entering", "verifierStart",
            "verifierUp", "verifierAbandon", "verifierCollect", "logging", "judging",
            "recording", "publishing", "catch", "catchStop", "catching", "caught", "done"}

Phases == {"none", "starting", "active", "verifying", "finalizing"}

RunOver == {"succeeded", "stopped", "failed"}

MapTypeOK ==
  /\ active \in BOOLEAN
  /\ activeVerif \in BOOLEAN
  /\ stopRequestedRun \in BOOLEAN
  /\ verifierActive \in BOOLEAN
  /\ stopBeforeStart \in BOOLEAN

ControlTypeOK ==
  /\ fpc \in FiberPc
  /\ status \in {"starting", "running"} \cup RunOver
  /\ phase \in Phases
  /\ verdict \in Statuses \cup {"none"}
  /\ opc \in [Operators -> {"idle", "read", "publishing", "agent", "verifier", "answered"}]
  /\ seen \in [Operators -> Phases]
  /\ answer \in [Operators -> {"none", "accepted", "already-terminal", "finalizing", "error"}]

\* Everything stays within its domain.
TypeOK == SupTypeOK /\ MapTypeOK /\ ControlTypeOK

Init ==
  /\ SupInit
  /\ fpc = "starting" /\ status = "starting" /\ verdict = "none"
  /\ phase = "starting"
  /\ active = FALSE /\ activeVerif = FALSE /\ stopRequestedRun = FALSE
  /\ verifierActive = FALSE /\ stopBeforeStart = FALSE
  /\ opc = [o \in Operators |-> "idle"]
  /\ seen = [o \in Operators |-> "none"]
  /\ answer = [o \in Operators |-> "none"]

Goto(pc) == fpc' = pc /\ UNCHANGED << status, verdict >>

-----------------------------------------------------------------------------
(* #executeStep: the agent.                                                 *)

\* An awaited effect throws, or #shutdownRequested does.
Throws ==
  /\ fpc \in {"starting", "launching", "collecting", "ingesting", "before", "entering",
              "judging", "recording", "publishing"}
  /\ Goto("catch")
  /\ UNCHANGED << supVars, mapVars, callVars >>

\* Slip: no look at #stopRequestedRuns before the agent is started.
CheckStop_none ==
  /\ fpc = "starting"
  /\ Goto("launching")
  /\ UNCHANGED << supVars, mapVars, callVars >>

\* The worktree and the prompt are ready.
CheckStop ==
  /\ fpc = "starting"
  /\ Goto(IF stopRequestedRun THEN "catch" ELSE "launching")
  /\ stopRequestedRun' = FALSE
  /\ UNCHANGED << supVars, phase, active, activeVerif, verifierActive, stopBeforeStart,
                  callVars >>

\* startTask of the adapter calls the supervisor.
StartTask ==
  /\ fpc = "launching"
  /\ startProcess(Agent)
  /\ Goto("spawning")
  /\ UNCHANGED << mapVars, callVars >>

StartReturns ==
  /\ fpc = "spawning" /\ start[Agent] \in {"up", "threw"}
  /\ Goto(IF start[Agent] = "up" THEN "persisting" ELSE "catch")
  /\ UNCHANGED << supVars, mapVars, callVars >>

\* onStarted cannot record or announce the process: startTask stops it and throws.
PersistFails ==
  /\ fpc = "persisting"
  /\ stop(Agent)
  /\ status' \in {status, "running"} /\ UNCHANGED verdict
  /\ fpc' = "abandoning"
  /\ UNCHANGED << mapVars, callVars >>

Abandoned ==
  /\ fpc = "abandoning" /\ Settled(Agent)
  /\ Goto("catch")
  /\ UNCHANGED << supVars, mapVars, callVars >>

\* onStarted has recorded the process; startTask returns, and what was asked
\* for while the run was starting is done.
Persist ==
  /\ fpc = "persisting"
  /\ status' = "running" /\ UNCHANGED verdict
  /\ active' = TRUE
  /\ phase' = "active"
  /\ stopRequestedRun' = FALSE
  /\ IF stopRequestedRun
     THEN stop(Agent) /\ fpc' = "halting"
     ELSE UNCHANGED supVars /\ fpc' = "collecting"
  /\ UNCHANGED << activeVerif, verifierActive, stopBeforeStart, callVars >>

\* stop returns, or cannot read the result.
Halted ==
  /\ fpc = "halting" /\ Settled(Agent)
  /\ \/ Goto("collecting") /\ active' = FALSE
     \/ Goto("catch") /\ UNCHANGED active
  /\ UNCHANGED << supVars, phase, activeVerif, stopRequestedRun, verifierActive,
                  stopBeforeStart, callVars >>

\* collectResult returns.
Collect ==
  /\ fpc = "collecting" /\ Settled(Agent)
  /\ active' = FALSE
  /\ phase' = "finalizing"
  /\ Goto("ingesting")
  /\ UNCHANGED << supVars, activeVerif, stopRequestedRun, verifierActive, stopBeforeStart,
                  callVars >>

\* The logs are durable.
Ingest ==
  /\ fpc = "ingesting"
  /\ IF Verified /\ outcome[Agent] = "succeeded"
     THEN Goto("before") /\ phase' = "verifying"
     ELSE Goto("recording") /\ UNCHANGED phase
  /\ UNCHANGED << supVars, active, activeVerif, stopRequestedRun, verifierActive,
                  stopBeforeStart, callVars >>

-----------------------------------------------------------------------------
(* #runVerification and the verifier's run.                                 *)

\* The worktree was captured.
BeginVerification ==
  /\ fpc = "before"
  /\ activeVerif' = TRUE
  /\ Goto("entering")
  /\ UNCHANGED << supVars, phase, active, stopRequestedRun, verifierActive, stopBeforeStart,
                  callVars >>

\* The directory is ready: either the run was stopped meanwhile or it starts.
EnterVerifier ==
  /\ fpc = "entering"
  /\ IF stopBeforeStart
     THEN /\ fpc' = "logging" /\ verdict' = "stopped" /\ UNCHANGED status
          /\ UNCHANGED << supVars, verifierActive >>
     ELSE /\ startProcess(Verifier)
          /\ verifierActive' = TRUE
          /\ Goto("verifierStart")
  /\ stopBeforeStart' = FALSE
  /\ UNCHANGED << phase, active, activeVerif, stopRequestedRun, callVars >>

\* The verifier has the supervisor's result, or an error in its place.
Verdict(v) ==
  /\ fpc' = "logging" /\ verdict' = v /\ UNCHANGED status
  /\ verifierActive' = FALSE
  /\ UNCHANGED << supVars, phase, active, activeVerif, stopRequestedRun, stopBeforeStart,
                  callVars >>

VerifierStarted ==
  /\ fpc = "verifierStart" /\ start[Verifier] = "up"
  /\ Goto("verifierUp")
  /\ UNCHANGED << supVars, mapVars, callVars >>

VerifierThrew == fpc = "verifierStart" /\ start[Verifier] = "threw" /\ Verdict("failed")

VerifierAnnounced ==
  /\ fpc = "verifierUp"
  /\ Goto("verifierCollect")
  /\ UNCHANGED << supVars, mapVars, callVars >>

\* onStarted throws: the verification is stopped and counts as failed.
VerifierAnnounceFails ==
  /\ fpc = "verifierUp"
  /\ stop(Verifier)
  /\ Goto("verifierAbandon")
  /\ UNCHANGED << mapVars, callVars >>

VerifierAbandoned == fpc = "verifierAbandon" /\ Settled(Verifier) /\ Verdict("failed")

VerifierCollected ==
  /\ fpc = "verifierCollect" /\ Settled(Verifier)
  /\ Verdict(outcome[Verifier])

\* The log is written, or cannot be, or the command line cannot be parsed: run
\* returns or throws.
LeaveVerifier ==
  /\ fpc \in {"entering", "logging"}
  /\ \/ fpc = "logging" /\ Goto("judging")
     \/ Goto("catch")
  /\ activeVerif' = FALSE
  /\ UNCHANGED << supVars, phase, active, stopRequestedRun, verifierActive, stopBeforeStart,
                  callVars >>

\* Slip: only a failed verification counts against the run.
Judge_notFailed ==
  /\ fpc = "judging"
  /\ IF verdict # "failed"
     THEN Goto("recording") /\ phase' = "finalizing"
     ELSE Goto("catch") /\ UNCHANGED phase
  /\ UNCHANGED << supVars, active, activeVerif, stopRequestedRun, verifierActive,
                  stopBeforeStart, callVars >>

\* The repository is unchanged and the verdict decides.
Judge ==
  /\ fpc = "judging"
  /\ IF verdict = "succeeded"
     THEN Goto("recording") /\ phase' = "finalizing"
     ELSE Goto("catch") /\ UNCHANGED phase
  /\ UNCHANGED << supVars, active, activeVerif, stopRequestedRun, verifierActive,
                  stopBeforeStart, callVars >>

-----------------------------------------------------------------------------
(* The end of #executeStep.                                                 *)

Record ==
  /\ fpc = "recording"
  /\ status' = outcome[Agent] /\ UNCHANGED verdict
  /\ fpc' = "publishing"
  /\ UNCHANGED << supVars, mapVars, callVars >>

Forget ==
  /\ fpc \in {"publishing", "caught"}
  /\ Goto("done")
  /\ phase' = "none"
  /\ stopRequestedRun' = FALSE
  /\ UNCHANGED << supVars, active, activeVerif, verifierActive, stopBeforeStart, callVars >>

\* Slip: the catch block does not stop the agent.
Catch_leave ==
  /\ fpc = "catch"
  /\ phase' = "finalizing"
  /\ Goto("catching")
  /\ UNCHANGED << supVars, active, activeVerif, stopRequestedRun, verifierActive,
                  stopBeforeStart, callVars >>

Catch ==
  /\ fpc = "catch"
  /\ IF active
     THEN stop(Agent) /\ Goto("catchStop") /\ UNCHANGED phase
     ELSE UNCHANGED supVars /\ Goto("catching") /\ phase' = "finalizing"
  /\ UNCHANGED << active, activeVerif, stopRequestedRun, verifierActive, stopBeforeStart,
                  callVars >>

CatchStopped ==
  /\ fpc = "catchStop" /\ Settled(Agent)
  /\ active' = FALSE
  /\ phase' = "finalizing"
  /\ Goto("catching")
  /\ UNCHANGED << supVars, activeVerif, stopRequestedRun, verifierActive, stopBeforeStart,
                  callVars >>

RecordFailure ==
  /\ fpc = "catching"
  /\ status' = IF status \in RunOver THEN status ELSE "failed"
  /\ fpc' = "caught" /\ UNCHANGED verdict
  /\ UNCHANGED << supVars, mapVars, callVars >>

-----------------------------------------------------------------------------
(* stopRun.                                                                 *)

Reply(o, a) ==
  /\ opc' = [opc EXCEPT ![o] = "answered"]
  /\ answer' = [answer EXCEPT ![o] = a]
  /\ UNCHANGED seen

\* getRun
StopCall(o) ==
  /\ opc[o] = "idle"
  /\ IF status \in RunOver
     THEN Reply(o, "already-terminal")
     ELSE opc' = [opc EXCEPT ![o] = "read"] /\ UNCHANGED << seen, answer >>
  /\ UNCHANGED << supVars, mapVars, fiberVars >>

\* The phase is read before the request is published and used after it.
StopReadPhase(o) ==
  /\ opc[o] = "read"
  /\ IF phase = "finalizing"
     THEN Reply(o, "finalizing")
     ELSE /\ opc' = [opc EXCEPT ![o] = "publishing"]
          /\ seen' = [seen EXCEPT ![o] = phase]
          /\ UNCHANGED answer
  /\ UNCHANGED << supVars, mapVars, fiberVars >>

\* stop of the verifier
StopVerification(o) ==
  /\ opc[o] = "publishing" /\ activeVerif
  /\ IF ~ verifierActive
     THEN stopBeforeStart' = TRUE /\ Reply(o, "accepted") /\ UNCHANGED supVars
     ELSE /\ UNCHANGED stopBeforeStart
          /\ IF Registered(Verifier)
             THEN /\ stop(Verifier)
                  /\ opc' = [opc EXCEPT ![o] = "verifier"]
                  /\ UNCHANGED << seen, answer >>
             ELSE Reply(o, "error") /\ UNCHANGED supVars
  /\ UNCHANGED << phase, active, activeVerif, stopRequestedRun, verifierActive, fiberVars >>

\* stop of the adapter
StopAgent(o) ==
  /\ opc[o] = "publishing" /\ ~ activeVerif /\ active
  /\ stop(Agent)
  /\ opc' = [opc EXCEPT ![o] = "agent"]
  /\ UNCHANGED << mapVars, fiberVars, seen, answer >>

StopLater(o) ==
  /\ opc[o] = "publishing" /\ ~ activeVerif /\ ~ active
  /\ IF seen[o] = "starting"
     THEN stopRequestedRun' = TRUE /\ Reply(o, "accepted")
     ELSE UNCHANGED stopRequestedRun /\ Reply(o, "error")
  /\ UNCHANGED << supVars, phase, active, activeVerif, verifierActive, stopBeforeStart,
                  fiberVars >>

StopReturns(o) ==
  /\ \/ opc[o] = "agent" /\ Settled(Agent)
     \/ opc[o] = "verifier" /\ Settled(Verifier)
  /\ Reply(o, "accepted")
  /\ UNCHANGED << supVars, mapVars, fiberVars >>

\* getRun, the publication or the adapter's reading of the result throws.
StopThrows(o) ==
  /\ \/ opc[o] \in {"read", "publishing"}
     \/ opc[o] = "agent" /\ Settled(Agent)
  /\ Reply(o, "error")
  /\ UNCHANGED << supVars, mapVars, fiberVars >>

-----------------------------------------------------------------------------

FiberStep ==
  \/ CheckStop \/ StartTask \/ StartReturns \/ Persist \/ PersistFails \/ Abandoned
  \/ Halted \/ Collect \/ Ingest \/ BeginVerification \/ EnterVerifier
  \/ VerifierStarted \/ VerifierThrew \/ VerifierAnnounced \/ VerifierAnnounceFails
  \/ VerifierAbandoned \/ VerifierCollected \/ LeaveVerifier \/ Judge \/ Record
  \/ Forget \/ Catch \/ CatchStopped \/ RecordFailure

StopStep(o) ==
  \/ StopReadPhase(o) \/ StopVerification(o) \/ StopAgent(o) \/ StopLater(o)
  \/ StopReturns(o) \/ StopThrows(o)

\* What the process's event loop has to do, timers included.
EventLoop ==
  \/ FiberStep
  \/ \E o \in Operators : StopStep(o)
  \/ \E h \in Handles : SupervisorStep(h) /\ UNCHANGED controlVars

Killed == \E h \in Handles, p \in Procs : Die(h, p) /\ UNCHANGED controlVars

Next ==
  \/ EventLoop
  \/ Throws
  \/ \E o \in Operators : StopCall(o)
  \/ \E h \in Handles : (OutputStep(h) \/ ProcessStep(h)) /\ UNCHANGED controlVars

\* The event loop goes on as long as it has something to do, and a process that
\* got SIGKILL dies.  No process has to exit by itself, and nobody has to stop
\* the run.
Fairness == WF_vars(EventLoop) /\ WF_vars(Killed)

Spec == Init /\ [][Next]_vars

FairSpec == Spec /\ Fairness

-----------------------------------------------------------------------------

\* A request that reached a process before its result was there is never lost:
\* the run is not recorded as a success, although the process may have exited
\* with 0 in the meantime.
StopOutranksSuccess ==
  (\E h \in Handles : stopRequested[h]) => status # "succeeded"

\* When the run's end is recorded, no process of it is left unsettled: every
\* error path stops and awaits what was started.
EndedRunIsSettled ==
  status \in RunOver =>
    \A h \in Handles : start[h] # "none" => Settled(h) \/ start[h] = "threw"

\* A request that is recorded in time keeps a process from being started at all:
\* the agent's while the worktree is prepared, the verification's until the
\* verifier looks.
EarlyStopPreventsStart ==
  /\ [](fpc = "starting" /\ stopRequestedRun => [](start[Agent] = "none"))
  /\ [](fpc = "entering" /\ stopBeforeStart => [](start[Verifier] = "none"))

\* A process that left the group holds the output pipes of its tree.
Held == \E h \in Handles : \E p \in pipes[h] : proc[h][p] = "escaped"

\* Unless such a process keeps them for ever, the run ends and every request to
\* stop it is answered, whatever the processes do: timeout and SIGKILL see to it.
RunEnds ==
  <>[] ~ Held => <>(fpc = "done" /\ \A o \in Operators : opc[o] \in {"idle", "answered"})
=============================================================================
