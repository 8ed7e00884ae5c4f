-------------------------- MODULE RunControlProofs --------------------------
(***************************************************************************)
(* What a result of the supervisor says about its processes, and what a     *)
(* run's end says about the requests to stop it: proofs for                 *)
(* ProcessSupervisor and RunControl, for every set of processes, every      *)
(* output limit and every number of operators.                              *)
(***************************************************************************)
EXTENDS RunControl, TLAPS

USE SupervisorAssumption

-----------------------------------------------------------------------------
(* The supervisor.                                                          *)

\* Nothing has happened to a handle before its child is spawned.
UntouchedBeforeSpawn(h) ==
  start[h] \in {"none", "preparing"} =>
    /\ ~ stopRequested[h] /\ ~ failure[h] /\ term[h] = "none" /\ killTimer[h] = "off"
    /\ fin[h] = "no" /\ outcome[h] = "none" /\ exit[h] = "none" /\ lost[h] = {}
    /\ ~ timeoutTimer[h]

\* A child that was not spawned has no processes.
NoTreeWithoutSpawn(h) ==
  start[h] \in {"none", "preparing", "erroring"} =>
    pipes[h] = {} /\ \A p \in Procs : proc[h][p] = "none"

\* The leader ends once; only live processes are waiting to die.
LeaderEndsOnce(h) ==
  /\ exit[h] # "none" => proc[h][Leader] \in {"none", "gone"}
  /\ doomed[h] \subseteq Live(h)

\* A termination is over, and the artifacts are closed, only when the group is
\* empty or the run has failed.
QuietOrFailed(h) ==
  /\ term[h] = "resolved" /\ ~ failure[h] => Group(h) = {}
  /\ fin[h] = "closing" /\ ~ failure[h] => Group(h) = {}
  /\ outcome[h] \in {"succeeded", "stopped"} => Group(h) = {}

\* Nobody writes output once #finalize has begun, and a result comes after it.
ClosedBeforeResult(h) ==
  /\ fin[h] # "no" => pipes[h] = {}
  /\ outcome[h] # "none" => fin[h] = "closing"

\* Lost output fails the run until the result is there, and a success has
\* lost nothing.
LostOutputFails(h) ==
  /\ lost[h] # {} /\ outcome[h] = "none" => failure[h]
  /\ outcome[h] = "succeeded" => exit[h] = "zero" /\ ~ stopRequested[h] /\ lost[h] = {}

HandleInv(h) ==
  /\ UntouchedBeforeSpawn(h)
  /\ NoTreeWithoutSpawn(h)
  /\ LeaderEndsOnce(h)
  /\ QuietOrFailed(h)
  /\ ClosedBeforeResult(h)
  /\ LostOutputFails(h)

\* The inductive invariant of the supervisor.
SupInv == SupTypeOK /\ \A h \in Handles : HandleInv(h)

HandleStep(h) == CallStep(h) \/ SupervisorStep(h) \/ OutputStep(h) \/ ProcessStep(h)

\* The invariant holds before anything is started.
LEMMA SupInitInv == SupInit => SupInv
BY DEF SupInit, SupInv, SupTypeOK, HandleInv, UntouchedBeforeSpawn, NoTreeWithoutSpawn,
       LeaderEndsOnce, QuietOrFailed, ClosedBeforeResult, LostOutputFails, Group, Live,
       StartPc, Statuses, RunTypeOK, OutputTypeOK, OsTypeOK

USE DEF runVars, outputVars, osVars

\* What #beginTermination does to the handle it is called for, and only to it.
LEMMA TerminationEffect ==
  ASSUME SupTypeOK, NEW h \in Handles, beginTermination(h)
  PROVE  /\ term' \in [Handles -> {"none", "pending", "resolved"}]
         /\ killTimer' \in [Handles -> {"off", "armed", "waiting"}]
         /\ \A i \in Handles : i # h => term'[i] = term[i] /\ killTimer'[i] = killTimer[i]
         /\ term'[h] = "resolved" <=> term[h] = "resolved"
<1>. USE DEF SupTypeOK, RunTypeOK
<1>1. CASE Settled(h) \/ term[h] # "none"
  BY <1>1 DEF beginTermination
<1>2. CASE ~ (Settled(h) \/ term[h] # "none")
  BY <1>2 DEF beginTermination
<1>. QED BY <1>1, <1>2

\* The same for #fail.
LEMMA FailEffect ==
  ASSUME SupTypeOK, NEW h \in Handles, fail(h)
  PROVE  /\ failure' \in [Handles -> BOOLEAN]
         /\ term' \in [Handles -> {"none", "pending", "resolved"}]
         /\ killTimer' \in [Handles -> {"off", "armed", "waiting"}]
         /\ \A i \in Handles : i # h => /\ failure'[i] = failure[i] /\ term'[i] = term[i]
                                       /\ killTimer'[i] = killTimer[i]
         /\ term'[h] = "resolved" <=> term[h] = "resolved"
         /\ failure[h] \/ ~ Settled(h) => failure'[h]
<1>1. failure' = [failure EXCEPT ![h] = IF Settled(h) THEN failure[h] ELSE TRUE]
  BY DEF fail
<1>2. beginTermination(h)
  BY DEF fail
<1>. QED BY <1>1, <1>2, TerminationEffect DEF SupTypeOK, RunTypeOK

\* What the supervisor keeps about a handle stays within its domain.
LEMMA RunStepType ==
  ASSUME SupTypeOK, NEW h \in Handles, HandleStep(h)
  PROVE  RunTypeOK'
<1>. USE DEF SupTypeOK, RunTypeOK, StartPc, Statuses
<1>1. CASE startProcess(h)
  BY <1>1 DEF startProcess
<1>2. CASE stop(h)
  BY <1>2 DEF stop, beginTermination
<1>3. CASE Spawn(h) \/ SpawnNothing(h)
  <2>1. timeoutTimer' = [timeoutTimer EXCEPT ![h] = h \in Timed]
    BY <1>3 DEF Spawn, SpawnNothing
  <2>2. (h \in Timed) \in BOOLEAN
    OBVIOUS
  <2>3. timeoutTimer' \in [Handles -> BOOLEAN]
    BY <2>1, <2>2, Zenon
  <2>. QED BY <1>3, <2>3 DEF Spawn, SpawnNothing
<1>4. CASE StartFails(h) \/ SpawnEvent(h) \/ ErrorEvent(h) \/ StartRejects(h)
  BY <1>4 DEF StartFails, SpawnEvent, ErrorEvent, StartRejects
<1>5. CASE KillTimer(h)
  BY <1>5 DEF KillTimer
<1>11. CASE WaitForTreeExit(h)
  BY <1>11 DEF WaitForTreeExit
<1>6. CASE Timeout(h)
  BY <1>6, FailEffect DEF Timeout
<1>7. CASE CloseEvent(h)
  BY <1>7 DEF CloseEvent, beginTermination
<1>8. CASE AwaitTermination(h) \/ Finalize(h)
  BY <1>8 DEF AwaitTermination, Finalize, Status
<1>9. CASE OutputStep(h)
  <2>1. PICK s \in Streams : StreamError(h, s) \/ \E n \in 1..2 : captureOutput(h, s, n)
    BY <1>9 DEF OutputStep
  <2>2. CASE StreamError(h, s)
    BY <2>2 DEF StreamError, fail, beginTermination
  <2>3. CASE \E n \in 1..2 : captureOutput(h, s, n)
    <3>1. /\ UNCHANGED << start, stopRequested, timeoutTimer, fin, outcome >>
          /\ fail(h) \/ UNCHANGED << failure, term, killTimer >>
      BY <2>3 DEF captureOutput
    <3>. QED BY <3>1, FailEffect
  <2>. QED BY <2>1, <2>2, <2>3
<1>10. CASE ProcessStep(h)
  BY <1>10 DEF ProcessStep, Exit, Die, Escape, Fork, Leave
<1>. QED BY <1>1, <1>2, <1>3, <1>4, <1>5, <1>6, <1>7, <1>8, <1>9, <1>10,
            <1>11
         DEF HandleStep, CallStep, SupervisorStep

\* No artifact grows beyond its limit.
LEMMA OutputStepType ==
  ASSUME SupTypeOK, NEW h \in Handles, HandleStep(h)
  PROVE  OutputTypeOK'
<1>. USE DEF SupTypeOK, OutputTypeOK
<1>1. CASE UNCHANGED outputVars
  BY <1>1
<1>2. CASE OutputStep(h)
  <2>1. PICK s \in Streams : StreamError(h, s) \/ \E n \in 1..2 : captureOutput(h, s, n)
    BY <1>2 DEF OutputStep
  <2>2. CASE StreamError(h, s)
    BY <2>2 DEF StreamError
  <2>3. CASE \E n \in 1..2 : captureOutput(h, s, n)
    <3>1. PICK n \in 1..2 : captureOutput(h, s, n)
      BY <2>3
    <3>2. bytes[h][s] \in Nat /\ bytes[h][s] <= MaxBytes[h] /\ MaxBytes[h] \in Nat
      OBVIOUS
    <3>3. bytes[h][s] + Smaller(MaxBytes[h] - bytes[h][s], n) \in 0..MaxBytes[h]
      BY <3>2 DEF Smaller
    <3>4. bytes' = [bytes EXCEPT ![h][s] = bytes[h][s] + Smaller(MaxBytes[h] - bytes[h][s], n)]
      BY <3>1 DEF captureOutput
    <3>5. bytes' \in [Handles -> [Streams -> Nat]]
      BY <3>2, <3>3, <3>4
    <3>6. \A i \in Handles, r \in Streams : bytes'[i][r] <= MaxBytes[i]
      BY <3>3, <3>4
    <3>7. lost' \in [Handles -> SUBSET Streams]
      BY <3>1 DEF captureOutput
    <3>. QED BY <3>5, <3>6, <3>7
  <2>. QED BY <2>1, <2>2, <2>3
<1>3. CASE CallStep(h)
  BY <1>1, <1>3 DEF CallStep, startProcess, stop
<1>4. CASE SupervisorStep(h)
  BY <1>1, <1>4 DEF SupervisorStep, Spawn, SpawnNothing, StartFails, SpawnEvent, ErrorEvent,
              StartRejects, KillTimer, WaitForTreeExit, Timeout, CloseEvent,
              AwaitTermination, Finalize
<1>5. CASE ProcessStep(h)
  BY <1>1, <1>5 DEF ProcessStep, Exit, Die, Escape, Fork, Leave
<1>. QED BY <1>2, <1>3, <1>4, <1>5 DEF HandleStep

\* The processes and their pipes stay within their domains.
LEMMA OsStepType ==
  ASSUME SupTypeOK, NEW h \in Handles, HandleStep(h)
  PROVE  OsTypeOK'
<1>. USE DEF SupTypeOK, OsTypeOK
<1>1. CASE UNCHANGED osVars
  BY <1>1
<1>2. CASE CallStep(h)
  BY <1>1, <1>2 DEF CallStep, startProcess, stop
<1>3. CASE SupervisorStep(h)
  <2>1. CASE Spawn(h)
    BY <2>1 DEF Spawn
  <2>2. CASE ErrorEvent(h)
    BY <2>2 DEF ErrorEvent
  <2>3. CASE KillTimer(h)
    BY <2>3 DEF KillTimer, Group
  <2>4. CASE ~ (Spawn(h) \/ ErrorEvent(h) \/ KillTimer(h))
    BY <1>1, <1>3, <2>4
       DEF SupervisorStep, SpawnNothing, StartFails, SpawnEvent, StartRejects,
           WaitForTreeExit, Timeout, CloseEvent, AwaitTermination, Finalize
  <2>. QED BY <2>1, <2>2, <2>3, <2>4
<1>4. CASE OutputStep(h)
  BY <1>1, <1>4 DEF OutputStep, StreamError, captureOutput
<1>5. CASE ProcessStep(h)
  <2>1. PICK p \in Procs : \/ Exit(h, p) \/ Die(h, p) \/ Escape(h, p)
                           \/ \E child \in Procs : Fork(h, p, child)
    BY <1>5 DEF ProcessStep
  <2>2. CASE Leave(h, p)
    BY <2>2 DEF Leave
  <2>3. CASE Escape(h, p)
    BY <2>3 DEF Escape
  <2>4. CASE \E child \in Procs : Fork(h, p, child)
    <3>1. PICK child \in Procs : Fork(h, p, child)
      BY <2>4
    <3>2. proc' \in [Handles -> [Procs -> {"none", "group", "escaped", "gone"}]]
      BY <3>1 DEF Fork
    <3>3. pipes' \in [Handles -> SUBSET Procs]
      BY <3>1 DEF Fork
    <3>. QED BY <3>1, <3>2, <3>3 DEF Fork
  <2>. QED BY <2>1, <2>2, <2>3, <2>4 DEF Exit, Die
<1>. QED BY <1>2, <1>3, <1>4, <1>5 DEF HandleStep

\* A step of one handle leaves the others alone.
LEMMA OtherHandles ==
  ASSUME SupTypeOK, NEW h \in Handles, HandleStep(h), NEW i \in Handles, i # h
  PROVE  /\ start'[i] = start[i] /\ stopRequested'[i] = stopRequested[i]
         /\ failure'[i] = failure[i] /\ term'[i] = term[i] /\ killTimer'[i] = killTimer[i]
         /\ fin'[i] = fin[i] /\ outcome'[i] = outcome[i] /\ lost'[i] = lost[i]
         /\ proc'[i] = proc[i] /\ pipes'[i] = pipes[i] /\ doomed'[i] = doomed[i]
         /\ exit'[i] = exit[i] /\ timeoutTimer'[i] = timeoutTimer[i]
<1>. USE DEF SupTypeOK, RunTypeOK, OutputTypeOK, OsTypeOK
<1>1. CASE startProcess(h)
  BY <1>1 DEF startProcess
<1>10. CASE stop(h)
  <2>1. /\ beginTermination(h) /\ stopRequested'[i] = stopRequested[i]
        /\ UNCHANGED << start, failure, timeoutTimer, fin, outcome, lost, osVars >>
    BY <1>10 DEF stop
  <2>. QED BY <2>1, TerminationEffect
<1>2. CASE Spawn(h)
  <2>1. /\ start' = [start EXCEPT ![h] = "spawning"]
        /\ proc' = [proc EXCEPT ![h][Leader] = "group"]
        /\ pipes' = [pipes EXCEPT ![h] = {Leader}]
        /\ UNCHANGED << stopRequested, failure, term, killTimer, fin, outcome, lost,
                        doomed, exit >>
        /\ timeoutTimer'[i] = timeoutTimer[i]
    BY <1>2 DEF Spawn
  <2>. QED BY <2>1
<1>9. CASE SpawnNothing(h) \/ StartFails(h) \/ SpawnEvent(h) \/ ErrorEvent(h)
  BY <1>9 DEF SpawnNothing, StartFails, SpawnEvent, ErrorEvent
<1>3. CASE StartRejects(h) \/ KillTimer(h)
  BY <1>3 DEF StartRejects, KillTimer
<1>11. CASE WaitForTreeExit(h)
  BY <1>11 DEF WaitForTreeExit
<1>4. CASE Timeout(h)
  <2>1. /\ fail(h) /\ UNCHANGED << start, stopRequested, fin, outcome, lost, osVars >>
        /\ timeoutTimer' = [timeoutTimer EXCEPT ![h] = FALSE]
    BY <1>4 DEF Timeout
  <2>. QED BY <2>1, FailEffect
<1>5. CASE CloseEvent(h)
  BY <1>5 DEF CloseEvent, beginTermination
<1>6. CASE AwaitTermination(h) \/ Finalize(h)
  BY <1>6 DEF AwaitTermination, Finalize
<1>7. CASE OutputStep(h)
  <2>1. PICK s \in Streams :
          /\ UNCHANGED << start, stopRequested, timeoutTimer, fin, outcome, osVars >>
          /\ fail(h) \/ UNCHANGED << failure, term, killTimer >>
          /\ lost' = [lost EXCEPT ![h] = lost[h] \cup {s}] \/ UNCHANGED lost
    BY <1>7 DEF OutputStep, StreamError, captureOutput
  <2>. QED BY <2>1, FailEffect
<1>8. CASE ProcessStep(h)
  <2>1. CASE \E p \in Procs : Leave(h, p)
    BY <2>1 DEF Leave
  <2>2. CASE \E p \in Procs : Escape(h, p)
    BY <2>2 DEF Escape
  <2>3. CASE \E p \in Procs, child \in Procs : Fork(h, p, child)
    BY <2>3 DEF Fork
  <2>. QED BY <1>8, <2>1, <2>2, <2>3 DEF ProcessStep, Exit, Die
<1>. QED BY <1>1, <1>2, <1>3, <1>4, <1>5, <1>6, <1>7, <1>8, <1>9,
            <1>10, <1>11
         DEF HandleStep, CallStep, SupervisorStep

\* Each step of a handle keeps the invariant of every handle.
LEMMA SupStepInv ==
  ASSUME SupInv, NEW h \in Handles, HandleStep(h)
  PROVE  SupInv'
<1>. USE DEF SupInv
<1>1. SupTypeOK'
  BY RunStepType, OutputStepType, OsStepType DEF SupTypeOK
<1>2. ASSUME NEW i \in Handles, i # h PROVE HandleInv(i)'
  BY <1>2, OtherHandles
     DEF HandleInv, UntouchedBeforeSpawn, NoTreeWithoutSpawn, LeaderEndsOnce,
         QuietOrFailed, ClosedBeforeResult, LostOutputFails, Group, Live
<1>3. HandleInv(h)'
  <2>. USE DEF SupTypeOK, RunTypeOK, OutputTypeOK, OsTypeOK, HandleInv, UntouchedBeforeSpawn,
           NoTreeWithoutSpawn, LeaderEndsOnce, QuietOrFailed, ClosedBeforeResult,
           LostOutputFails
  <2>15. UNCHANGED osVars => Group(h)' = Group(h) /\ Live(h)' = Live(h)
    BY DEF Group, Live
  <2>1. CASE startProcess(h)
    BY <2>1, <2>15 DEF startProcess
  <2>2. CASE stop(h)
    <3>1. /\ stopRequested' = [stopRequested EXCEPT ![h] = IF Settled(h) THEN @ ELSE TRUE]
          /\ beginTermination(h)
          /\ UNCHANGED << start, failure, fin, outcome, lost, osVars >>
      BY <2>2 DEF stop
    <3>2. start[h] \notin {"none", "preparing"}
      BY <2>2 DEF stop, Registered, Settled
    <3>. QED BY <3>1, <3>2, <2>15, TerminationEffect DEF Settled
  <2>3. CASE Spawn(h)
    <3>1. /\ start[h] = "preparing"
          /\ start' = [start EXCEPT ![h] = "spawning"]
          /\ proc' = [proc EXCEPT ![h][Leader] = "group"]
          /\ pipes' = [pipes EXCEPT ![h] = {Leader}]
          /\ UNCHANGED << stopRequested, failure, term, killTimer, fin, outcome, lost,
                          doomed, exit >>
      BY <2>3 DEF Spawn
    <3>2. doomed'[h] \subseteq Live(h)'
      BY <3>1 DEF Live
    <3>. QED BY <3>1, <3>2
  <2>4. CASE SpawnNothing(h)
    <3>1. /\ start[h] = "preparing"
          /\ start' = [start EXCEPT ![h] = "erroring"]
          /\ UNCHANGED << stopRequested, failure, term, killTimer, fin, outcome, lost, osVars >>
      BY <2>4 DEF SpawnNothing
    <3>. QED BY <3>1, <2>15
  <2>5. CASE StartFails(h) \/ SpawnEvent(h) \/ StartRejects(h)
    BY <2>5, <2>15 DEF StartFails, SpawnEvent, StartRejects
  <2>6. CASE ErrorEvent(h)
    BY <2>6 DEF ErrorEvent, Group, Live
  <2>7. CASE KillTimer(h)
    BY <2>7 DEF KillTimer, Group, Live
  <2>8. CASE WaitForTreeExit(h)
    BY <2>8, <2>15 DEF WaitForTreeExit, treeIsAlive
  <2>9. CASE Timeout(h)
    <3>1. /\ timeoutTimer[h] /\ fail(h)
          /\ UNCHANGED << start, stopRequested, fin, outcome, lost, osVars >>
      BY <2>9 DEF Timeout
    <3>. QED BY <3>1, <2>15, FailEffect
  <2>14. CASE OutputStep(h)
    <3>1. start[h] \notin {"none", "preparing"} /\ outcome[h] = "none"
      <4>1. \/ Registered(h) /\ ~ Settled(h)
            \/ pipes[h] # {}
        BY <2>14 DEF OutputStep, StreamError, captureOutput
      <4>. QED BY <4>1 DEF Registered, Settled
    <3>2. PICK s \in Streams :
            /\ UNCHANGED << start, stopRequested, fin, outcome, osVars >>
            /\ \/ fail(h) /\ lost' = [lost EXCEPT ![h] = lost[h] \cup {s}]
               \/ UNCHANGED << failure, term, lost >>
      BY <2>14 DEF OutputStep, StreamError, captureOutput
    <3>3. CASE fail(h) /\ lost' = [lost EXCEPT ![h] = lost[h] \cup {s}]
      BY <3>1, <3>2, <3>3, <2>15, FailEffect DEF Settled
    <3>4. CASE UNCHANGED << failure, term, lost >>
      BY <3>1, <3>2, <3>4, <2>15
    <3>. QED BY <3>2, <3>3, <3>4
  <2>10. CASE CloseEvent(h)
    <3>1. /\ start[h] \notin {"none", "preparing"} /\ outcome[h] = "none" /\ pipes[h] = {}
          /\ UNCHANGED << start, stopRequested, outcome, lost, osVars >>
          /\ fin' = [fin EXCEPT ![h] = IF term'[h] = "pending" THEN "awaiting" ELSE "closing"]
      BY <2>10 DEF CloseEvent, Registered, Settled
    <3>2. CASE treeIsAlive(h)
      <4>1. /\ failure' = [failure EXCEPT ![h] = IF term[h] = "none" THEN TRUE ELSE @]
            /\ beginTermination(h)
        BY <2>10, <3>2 DEF CloseEvent
      <4>2. term'[h] = "resolved" => term[h] = "resolved"
        BY <4>1, TerminationEffect
      <4>3. term'[h] # "pending" => term'[h] = "resolved"
        BY <3>1, <4>1 DEF beginTermination, Settled
      <4>. QED BY <3>1, <4>1, <4>2, <4>3, <2>15
    <3>3. CASE ~ treeIsAlive(h)
      <4>1. Group(h) = {} /\ UNCHANGED failure
        BY <2>10, <3>3 DEF CloseEvent, treeIsAlive
      <4>. QED BY <3>1, <4>1, <2>15
    <3>. QED BY <3>2, <3>3
  <2>11. CASE AwaitTermination(h)
    <3>1. fin[h] = "awaiting" /\ term[h] = "resolved" /\ fin'[h] = "closing"
      BY <2>11 DEF AwaitTermination
    <3>2. UNCHANGED << start, stopRequested, failure, term, killTimer, timeoutTimer, outcome,
                       lost, osVars >>
      BY <2>11 DEF AwaitTermination
    <3>. HIDE DEF SupTypeOK
    <3>. QED BY <3>1, <3>2, <2>15
  <2>12. CASE Finalize(h)
    <3>1. /\ fin[h] = "closing" /\ outcome[h] = "none"
          /\ outcome' = [outcome EXCEPT ![h] = Status(h)]
          /\ UNCHANGED << start, stopRequested, failure, term, fin, lost, osVars >>
      BY <2>12 DEF Finalize, Settled
    <3>2. /\ Status(h) \in {"succeeded", "stopped"} => ~ failure[h]
          /\ Status(h) = "succeeded" => exit[h] = "zero" /\ ~ stopRequested[h]
      BY DEF Status
    <3>3. outcome'[h] = Status(h)
      BY <3>1
    <3>. HIDE DEF SupTypeOK
    <3>. QED BY <3>1, <3>2, <3>3, <2>15
  <2>13. CASE ProcessStep(h)
    <3>1. PICK p \in Procs : \/ Exit(h, p) \/ Die(h, p) \/ Escape(h, p)
                             \/ \E child \in Procs : Fork(h, p, child)
      BY <2>13 DEF ProcessStep
    <3>2. CASE Exit(h, p) \/ Die(h, p)
      <4>1. p \in Live(h) /\ start[h] \notin {"none", "preparing", "erroring"}
        BY <3>2 DEF Exit, Die, Live
      <4>2. /\ UNCHANGED << runVars, lost >>
            /\ proc' = [proc EXCEPT ![h][p] = "gone"]
            /\ pipes' = [pipes EXCEPT ![h] = @ \ {p}]
            /\ doomed' = [doomed EXCEPT ![h] = @ \ {p}]
            /\ p # Leader => UNCHANGED exit
        BY <3>2 DEF Exit, Die, Leave
      <4>3. outcome[h] = "succeeded" => exit'[h] = "zero"
        <5>1. outcome[h] = "succeeded" => p # Leader
          BY <4>1 DEF Live
        <5>. QED BY <4>2, <5>1
      <4>4. exit'[h] # "none" => proc'[h][Leader] \in {"none", "gone"}
        BY <4>2
      <4>5. doomed'[h] \subseteq Live(h)' /\ Group(h)' \subseteq Group(h)
        BY <4>2 DEF Live, Group
      <4>. QED BY <4>1, <4>2, <4>3, <4>4, <4>5
    <3>3. CASE Escape(h, p)
      BY <3>3 DEF Escape, Group, Live
    <3>4. CASE \E child \in Procs : Fork(h, p, child)
      <4>1. PICK child \in Procs : Fork(h, p, child)
        BY <3>4
      <4>2. start[h] \notin {"none", "preparing", "erroring"}
        BY <4>1 DEF Fork, Live
      <4>3. Group(h) = {} => Group(h)' = {}
        BY <4>1 DEF Fork, Group, Live
      <4>4. pipes[h] = {} => pipes'[h] = {}
        BY <4>1 DEF Fork
      <4>5. doomed'[h] \subseteq Live(h)' /\ proc'[h][Leader] = proc[h][Leader]
        BY <4>1 DEF Fork, Live
      <4>6. UNCHANGED << runVars, lost, exit >>
        BY <4>1 DEF Fork
      <4>. QED BY <4>2, <4>3, <4>4, <4>5, <4>6
    <3>. QED BY <3>1, <3>2, <3>3, <3>4
  <2>. QED BY <2>1, <2>2, <2>3, <2>4, <2>5, <2>6, <2>7, <2>8, <2>9, <2>10, <2>11, <2>12, <2>13,
              <2>14
           DEF HandleStep, CallStep, SupervisorStep
<1>. QED BY <1>1, <1>2, <1>3

\* What no step takes back: a result, a rejected start, and a handle that has
\* not been started stays so unless start is called.
LEMMA StaysEnded ==
  ASSUME SupTypeOK, NEW h \in Handles, HandleStep(h), NEW i \in Handles
  PROVE  /\ Settled(i) => outcome'[i] = outcome[i]
         /\ start[i] = "threw" => start'[i] = "threw"
         /\ start[i] = "none" => start'[i] = "none" \/ startProcess(i)
<1>1. CASE i # h
  BY <1>1, OtherHandles
<1>2. CASE i = h
  <2>. USE DEF SupTypeOK, RunTypeOK
  <2>1. CASE CallStep(h)
    BY <1>2, <2>1 DEF CallStep, startProcess, stop
  <2>2. CASE SupervisorStep(h)
    BY <1>2, <2>2 DEF SupervisorStep, Spawn, SpawnNothing, StartFails, SpawnEvent, ErrorEvent,
              StartRejects, KillTimer, WaitForTreeExit, Timeout, CloseEvent,
              AwaitTermination, Finalize
  <2>3. CASE OutputStep(h)
    BY <1>2, <2>3 DEF OutputStep, StreamError, captureOutput
  <2>4. CASE ProcessStep(h)
    BY <1>2, <2>4 DEF ProcessStep, Exit, Die, Escape, Fork, Leave
  <2>. QED BY <2>1, <2>2, <2>3, <2>4 DEF HandleStep
<1>. QED BY <1>1, <1>2

-----------------------------------------------------------------------------
(* A run's control is a client of the supervisor.                           *)

USE ControlAssumption

\* #executeStep uses the supervisor only through start and stop.
LEMMA FiberIsClient ==
  FiberStep => UNCHANGED supVars \/ \E h \in Handles : CallStep(h)
<1>. SUFFICES ASSUME FiberStep PROVE UNCHANGED supVars \/ \E h \in Handles : CallStep(h)
  OBVIOUS
<1>. USE DEF CallStep
<1>1. CASE StartTask \/ PersistFails \/ Persist \/ Catch
  BY <1>1 DEF StartTask, PersistFails, Persist, Catch
<1>2. CASE EnterVerifier \/ VerifierAnnounceFails
  BY <1>2 DEF EnterVerifier, VerifierAnnounceFails
<1>3. CASE CheckStop \/ StartReturns \/ Abandoned \/ Halted \/ Collect \/ Ingest
  BY <1>3 DEF CheckStop, StartReturns, Abandoned, Halted, Collect, Ingest
<1>4. CASE BeginVerification \/ VerifierStarted \/ VerifierThrew \/ VerifierAnnounced
             \/ VerifierAbandoned \/ VerifierCollected \/ LeaveVerifier \/ Judge
  BY <1>4 DEF BeginVerification, VerifierStarted, VerifierThrew, VerifierAnnounced,
              VerifierAbandoned, VerifierCollected, LeaveVerifier, Judge, Verdict
<1>5. CASE Record \/ Forget \/ CatchStopped \/ RecordFailure
  BY <1>5 DEF Record, Forget, CatchStopped, RecordFailure
<1>. QED BY <1>1, <1>2, <1>3, <1>4, <1>5 DEF FiberStep

\* So does stopRun, only through stop.
LEMMA OperatorIsClient ==
  ASSUME NEW o \in Operators, StopCall(o) \/ StopStep(o)
  PROVE  UNCHANGED supVars \/ \E h \in Handles : stop(h)
<1>1. CASE StopCall(o) \/ StopReadPhase(o) \/ StopLater(o) \/ StopReturns(o) \/ StopThrows(o)
  BY <1>1 DEF StopCall, StopReadPhase, StopLater, StopReturns, StopThrows
<1>2. CASE StopVerification(o) \/ StopAgent(o)
  BY <1>2 DEF StopVerification, StopAgent
<1>. QED BY <1>1, <1>2 DEF StopStep

\* Every step of the run is one of the supervisor's or leaves it alone.
LEMMA StepIsSupervisorStep == [Next]_vars => [SupNext]_supVars
<1>. SUFFICES ASSUME [Next]_vars PROVE [SupNext]_supVars
  OBVIOUS
<1>1. CASE FiberStep
  BY <1>1, FiberIsClient DEF SupNext
<1>2. CASE \E o \in Operators : StopCall(o) \/ StopStep(o)
  BY <1>2, OperatorIsClient DEF SupNext, CallStep
<1>3. CASE Throws
  BY <1>3 DEF Throws
<1>4. CASE \E h \in Handles : SupervisorStep(h) \/ OutputStep(h) \/ ProcessStep(h)
  BY <1>4 DEF SupNext
<1>5. CASE UNCHANGED vars
  BY <1>5 DEF vars
<1>. QED BY <1>1, <1>2, <1>3, <1>4, <1>5 DEF Next, EventLoop

\* Whatever #executeStep, the verifier and the operators do, the supervisor's
\* processes behave as ProcessSupervisor says.
THEOREM RunIsSupervised == Spec => SupSpec
<1>1. Init => SupInit
  BY DEF Init
<1>. QED BY <1>1, StepIsSupervisorStep, PTL DEF Spec, SupSpec

\* The supervisor's invariant is inductive.
LEMMA SupNextInv == SupInv /\ [SupNext]_supVars => SupInv'
<1>. SUFFICES ASSUME SupInv, [SupNext]_supVars PROVE SupInv'
  OBVIOUS
<1>1. CASE SupNext
  BY <1>1, SupStepInv DEF SupNext, HandleStep
<1>2. CASE UNCHANGED supVars
  BY <1>2 DEF supVars, SupInv, SupTypeOK, RunTypeOK, OutputTypeOK, OsTypeOK, HandleInv,
              UntouchedBeforeSpawn, NoTreeWithoutSpawn, LeaderEndsOnce, QuietOrFailed,
              ClosedBeforeResult, LostOutputFails, Group, Live
<1>. QED BY <1>1, <1>2

\* For any processes and output limits: nothing happens to a handle before its
\* spawn, a termination ends with an empty group or a failure, a result comes
\* after the last output, and lost output is a failure.
THEOREM SupervisorInvariant == SupSpec => []SupInv
BY SupInitInv, SupNextInv, PTL DEF SupSpec

\* For any tree of processes, any of which forks, exits, ignores SIGTERM or
\* leaves the group at any time: a result other than "failed" means that the
\* process group is empty.
THEOREM QuietResult == SupSpec => []QuietUnlessFailed
<1>1. SupInv => QuietUnlessFailed
  BY DEF SupInv, HandleInv, QuietOrFailed, QuietUnlessFailed
<1>. QED BY <1>1, SupervisorInvariant, PTL

\* For any output limits and any failure of the artifacts' streams: a success
\* is an exit with 0 that nobody asked to stop and whose output is complete.
THEOREM WholeSuccess == SupSpec => []SuccessIsWhole
<1>1. SupInv => SuccessIsWhole
  BY DEF SupInv, HandleInv, LostOutputFails, SuccessIsWhole
<1>. QED BY <1>1, SupervisorInvariant, PTL

-----------------------------------------------------------------------------
(* The run.                                                                 *)

\* Nothing of handle h was started, or it is over.
Over(h) == start[h] = "none" \/ Settled(h) \/ start[h] = "threw"

BeforeVerifier == {"starting", "launching", "spawning", "persisting", "abandoning", "halting",
                   "collecting", "ingesting", "before", "entering"}

InVerification == {"before", "entering", "verifierStart", "verifierUp", "verifierAbandon",
                   "verifierCollect", "logging", "judging"}

AfterVerifier == {"logging", "judging", "recording", "publishing", "catch", "catchStop",
                  "catching", "caught", "done"}

\* What has been started by the time #executeStep is where it is.
Started ==
  /\ fpc \in {"starting", "launching"} => start[Agent] = "none"
  /\ fpc \in BeforeVerifier => start[Verifier] = "none"
  /\ fpc \in InVerification => Verified

\* What is over by then; the catch block finds the agent in #activeRuns, or
\* there is nothing to stop.
Awaited ==
  /\ fpc = "collecting" => active \/ Settled(Agent)
  /\ fpc \in (InVerification \cup {"ingesting", "recording", "publishing"}) => Settled(Agent)
  /\ fpc = "catch" => active \/ Over(Agent)
  /\ fpc \in {"catching", "caught", "done"} => Over(Agent)
  /\ fpc \in AfterVerifier => Over(Verifier)
  /\ status \in RunOver => /\ fpc \in {"publishing", "catch", "catchStop", "catching", "caught",
                                       "done"}
                           /\ Over(Agent)

\* The verification that a success rests on.
VerificationPassed ==
  IF Verified THEN outcome[Verifier] = "succeeded" ELSE start[Verifier] = "none"

Earned ==
  /\ verdict = "succeeded" => outcome[Verifier] = "succeeded"
  /\ fpc = "recording" /\ outcome[Agent] = "succeeded" => VerificationPassed
  /\ status = "succeeded" => outcome[Agent] = "succeeded" /\ VerificationPassed

\* The inductive invariant of the run, on top of the supervisor's.
ControlInv == ControlTypeOK /\ Started /\ Awaited /\ Earned

\* The control's invariant holds when the run is created.
LEMMA ControlInitInv == Init => ControlInv
BY DEF Init, SupInit, ControlInv, ControlTypeOK, Started, Awaited, Earned, FiberPc, Phases,
       RunOver, Statuses, BeforeVerifier, InVerification, AfterVerifier, Agent, Verifier,
       MapTypeOK

\* The control's own variables keep their types.
LEMMA MapStepType == MapTypeOK /\ [Next]_vars => MapTypeOK'
<1>. SUFFICES ASSUME MapTypeOK, [Next]_vars PROVE MapTypeOK'
  OBVIOUS
<1>. USE DEF MapTypeOK, mapVars
<1>1. CASE UNCHANGED mapVars
  BY <1>1
<1>2. CASE Throws
  BY <1>1, <1>2 DEF Throws
<1>3. CASE FiberStep
  <2>1. CASE StartTask \/ StartReturns \/ PersistFails \/ Abandoned \/ VerifierStarted
               \/ VerifierAnnounced \/ VerifierAnnounceFails \/ Record \/ RecordFailure
    BY <1>1, <2>1 DEF StartTask, StartReturns, PersistFails, Abandoned, VerifierStarted,
         VerifierAnnounced, VerifierAnnounceFails, Record, RecordFailure
  <2>2. CASE CheckStop
    BY <2>2, Zenon DEF CheckStop
  <2>3. CASE Persist
    BY <2>3, Zenon DEF Persist
  <2>4. CASE Halted
    BY <2>4, Zenon DEF Halted
  <2>5. CASE Collect
    BY <2>5, Zenon DEF Collect
  <2>6. CASE Ingest
    BY <2>6, Zenon DEF Ingest
  <2>7. CASE BeginVerification
    BY <2>7, Zenon DEF BeginVerification
  <2>8. CASE EnterVerifier
    BY <2>8, Zenon DEF EnterVerifier
  <2>9. CASE VerifierThrew \/ VerifierAbandoned \/ VerifierCollected
    BY <2>9, Zenon DEF VerifierThrew, VerifierAbandoned, VerifierCollected, Verdict
  <2>10. CASE LeaveVerifier
    BY <2>10, Zenon DEF LeaveVerifier
  <2>11. CASE Judge
    BY <2>11, Zenon DEF Judge
  <2>12. CASE Forget
    BY <2>12, Zenon DEF Forget
  <2>13. CASE Catch
    BY <2>13, Zenon DEF Catch
  <2>14. CASE CatchStopped
    BY <2>14, Zenon DEF CatchStopped
  <2>. QED BY <1>3, <2>1, <2>2, <2>3, <2>4, <2>5, <2>6, <2>7, <2>8, <2>9, <2>10, <2>11, <2>12,
              <2>13, <2>14 DEF FiberStep
<1>4. CASE \E o \in Operators : StopCall(o) \/ StopStep(o)
  <2>1. PICK o \in Operators : StopCall(o) \/ StopStep(o)
    BY <1>4
  <2>2. CASE StopCall(o) \/ StopReadPhase(o) \/ StopAgent(o) \/ StopReturns(o) \/ StopThrows(o)
    BY <1>1, <2>2 DEF StopCall, StopReadPhase, StopAgent, StopReturns, StopThrows
  <2>3. CASE StopVerification(o)
    BY <2>3, Zenon DEF StopVerification
  <2>4. CASE StopLater(o)
    BY <2>4, Zenon DEF StopLater
  <2>. QED BY <2>1, <2>2, <2>3, <2>4 DEF StopStep
<1>5. CASE UNCHANGED controlVars
  BY <1>1, <1>5 DEF controlVars
<1>. QED BY <1>2, <1>3, <1>4, <1>5 DEF Next, EventLoop, vars

\* Where #executeStep, the verifier and the operators are stays within its domain.
LEMMA ControlStepType ==
  ASSUME SupTypeOK, ControlInv, [Next]_vars
  PROVE  ControlTypeOK'
<1>. USE DEF ControlInv, ControlTypeOK, FiberPc, Phases, RunOver, Statuses, mapVars, fiberVars,
             callVars, controlVars, Goto
<1>1. CASE Throws
  BY <1>1 DEF Throws
<1>2. CASE FiberStep
  <2>1. CASE CheckStop \/ StartTask \/ StartReturns
    BY <2>1 DEF CheckStop, StartTask, StartReturns
  <2>2. CASE PersistFails \/ Abandoned \/ Persist
    BY <2>2 DEF PersistFails, Abandoned, Persist
  <2>3. CASE Halted \/ Collect \/ Ingest \/ BeginVerification
    BY <2>3 DEF Halted, Collect, Ingest, BeginVerification
  <2>4. CASE EnterVerifier
    BY <2>4 DEF EnterVerifier
  <2>5. CASE VerifierStarted \/ VerifierThrew \/ VerifierAnnounced \/ VerifierAnnounceFails
               \/ VerifierAbandoned
    BY <2>5 DEF VerifierStarted, VerifierThrew, VerifierAnnounced, VerifierAnnounceFails,
                VerifierAbandoned, Verdict
  <2>6. CASE VerifierCollected
    BY <2>6 DEF VerifierCollected, Verdict, SupTypeOK, RunTypeOK
  <2>7. CASE LeaveVerifier \/ Judge \/ Forget \/ Catch \/ CatchStopped \/ RecordFailure
    BY <2>7 DEF LeaveVerifier, Judge, Forget, Catch, CatchStopped, RecordFailure
  <2>8. CASE Record
    BY <2>8 DEF Record, Awaited, Settled, SupTypeOK, RunTypeOK
  <2>. QED BY <1>2, <2>1, <2>2, <2>3, <2>4, <2>5, <2>6, <2>7, <2>8 DEF FiberStep
<1>3. CASE \E o \in Operators : StopCall(o) \/ StopStep(o)
  <2>1. PICK o \in Operators : StopCall(o) \/ StopStep(o)
    BY <1>3
  <2>2. CASE StopCall(o) \/ StopReadPhase(o)
    BY <2>2 DEF StopCall, StopReadPhase, Reply
  <2>3. CASE StopVerification(o)
    BY <2>3 DEF StopVerification, Reply
  <2>4. CASE StopAgent(o) \/ StopLater(o) \/ StopReturns(o) \/ StopThrows(o)
    BY <2>4 DEF StopAgent, StopLater, StopReturns, StopThrows, Reply
  <2>. QED BY <2>1, <2>2, <2>3, <2>4 DEF StopStep
<1>4. CASE UNCHANGED controlVars
  BY <1>4
<1>. QED BY <1>1, <1>2, <1>3, <1>4 DEF Next, EventLoop, vars

\* No step takes back a result or a rejected start.
Kept == \A i \in Handles : /\ Settled(i) => outcome'[i] = outcome[i]
                           /\ start[i] = "threw" => start'[i] = "threw"

\* Handles that a step does not start.
Unstarted(S) == \A i \in S : start[i] = "none" => start'[i] = "none"

\* Every step of the run keeps results and rejected starts.
LEMMA StepKeeps == SupTypeOK /\ [Next]_vars => Kept
<1>. SUFFICES ASSUME SupTypeOK, [Next]_vars PROVE Kept
  OBVIOUS
<1>1. [SupNext]_supVars
  BY StepIsSupervisorStep
<1>2. CASE SupNext
  BY <1>2, StaysEnded DEF SupNext, HandleStep, Kept
<1>3. CASE UNCHANGED supVars
  BY <1>3 DEF supVars, Kept
<1>. QED BY <1>1, <1>2, <1>3

\* Nothing but start takes a handle out of "none".
LEMMA OnlyStartStarts ==
  ASSUME SupTypeOK, NEW h \in Handles,
         stop(h) \/ SupervisorStep(h) \/ OutputStep(h) \/ ProcessStep(h)
  PROVE  Unstarted(Handles)
<1>. USE DEF SupTypeOK, RunTypeOK, Unstarted
<1>1. CASE stop(h)
  BY <1>1 DEF stop
<1>2. CASE SupervisorStep(h)
  BY <1>2 DEF SupervisorStep, Spawn, SpawnNothing, StartFails, SpawnEvent, ErrorEvent,
              StartRejects, KillTimer, WaitForTreeExit, Timeout, CloseEvent,
              AwaitTermination, Finalize
<1>3. CASE OutputStep(h)
  BY <1>3 DEF OutputStep, StreamError, captureOutput
<1>4. CASE ProcessStep(h)
  BY <1>4 DEF ProcessStep, Exit, Die, Escape, Fork, Leave
<1>. QED BY <1>1, <1>2, <1>3, <1>4

\* A step that leaves #executeStep where it is keeps what holds there.
LEMMA ElsewhereInv ==
  ASSUME SupTypeOK, ControlInv, Kept, Unstarted(Handles), UNCHANGED << fiberVars, active >>
  PROVE  (Started /\ Awaited /\ Earned)'
<1>. USE DEF ControlInv, ControlTypeOK, Kept, Unstarted, fiberVars, Settled, Over
<1>1. Agent \in Handles /\ Verifier \in Handles
  OBVIOUS
<1>2. Started'
  BY <1>1 DEF Started
<1>3. Awaited'
  BY <1>1 DEF Awaited
<1>4. Earned'
  <2>1. verdict' = "succeeded" => outcome'[Verifier] = "succeeded"
    BY <1>1 DEF Earned
  <2>2. VerificationPassed => VerificationPassed'
    BY <1>1 DEF VerificationPassed
  <2>3. fpc = "recording" => outcome'[Agent] = outcome[Agent]
    BY <1>1 DEF Awaited
  <2>4. outcome[Agent] = "succeeded" => outcome'[Agent] = "succeeded"
    BY <1>1
  <2>. QED BY <2>1, <2>2, <2>3, <2>4 DEF Earned
<1>. QED BY <1>2, <1>3, <1>4

\* #executeStep moves without touching a process.
LEMMA QuietMoves ==
  ASSUME SupTypeOK, ControlInv, UNCHANGED supVars, FiberStep \/ Throws
  PROVE  (Started /\ Awaited /\ Earned)'
<1>. USE DEF ControlInv, ControlTypeOK, supVars, Settled, Over, Goto, Started, Awaited, Earned,
             VerificationPassed, BeforeVerifier, InVerification, AfterVerifier, RunOver, FiberPc,
             mapVars
<1>1. CASE Throws
  BY <1>1 DEF Throws
<1>2. CASE CheckStop
  BY <1>2 DEF CheckStop
<1>3. CASE StartTask
  BY <1>3 DEF StartTask, startProcess, SupTypeOK, RunTypeOK
<1>4. CASE StartReturns
  BY <1>4 DEF StartReturns
<1>5. CASE PersistFails
  BY <1>5 DEF PersistFails
<1>6. CASE Abandoned
  BY <1>6 DEF Abandoned
<1>7. CASE Persist
  BY <1>7 DEF Persist
<1>8. CASE Halted
  BY <1>8 DEF Halted
<1>9. CASE Collect
  BY <1>9 DEF Collect
<1>10. CASE Ingest
  BY <1>10 DEF Ingest
<1>11. CASE BeginVerification
  BY <1>11 DEF BeginVerification
<1>12. CASE EnterVerifier
  BY <1>12 DEF EnterVerifier
<1>13. CASE VerifierStarted
  BY <1>13 DEF VerifierStarted
<1>14. CASE VerifierThrew
  BY <1>14 DEF VerifierThrew, Verdict
<1>15. CASE VerifierAnnounced
  BY <1>15 DEF VerifierAnnounced
<1>16. CASE VerifierAnnounceFails
  BY <1>16 DEF VerifierAnnounceFails
<1>17. CASE VerifierAbandoned
  BY <1>17 DEF VerifierAbandoned, Verdict
<1>18. CASE VerifierCollected
  BY <1>18 DEF VerifierCollected, Verdict
<1>19. CASE LeaveVerifier
  BY <1>19 DEF LeaveVerifier
<1>20. CASE Judge
  BY <1>20 DEF Judge
<1>21. CASE Record
  BY <1>21 DEF Record
<1>22. CASE Forget
  BY <1>22 DEF Forget
<1>23. CASE Catch
  BY <1>23 DEF Catch
<1>24. CASE CatchStopped
  BY <1>24 DEF CatchStopped
<1>25. CASE RecordFailure
  BY <1>25 DEF RecordFailure
<1>. QED BY <1>1, <1>2, <1>3, <1>4, <1>5, <1>6, <1>7, <1>8, <1>9, <1>10, <1>11, <1>12, <1>13,
            <1>14, <1>15, <1>16, <1>17, <1>18, <1>19, <1>20, <1>21, <1>22, <1>23, <1>24, <1>25
         DEF FiberStep

\* #executeStep starts a process or asks the supervisor to stop one.
LEMMA CallingMoves ==
  ASSUME SupTypeOK, ControlInv, FiberStep, ~ UNCHANGED supVars
  PROVE  (Started /\ Awaited /\ Earned)'
<1>. USE DEF ControlInv, ControlTypeOK, Settled, Over, Goto, Started, Awaited, Earned,
             VerificationPassed, BeforeVerifier, InVerification, AfterVerifier, RunOver, FiberPc,
             mapVars
<1>1. CASE StartTask
  BY <1>1 DEF StartTask, startProcess, SupTypeOK, RunTypeOK, Agent, Verifier
<1>2. CASE PersistFails
  BY <1>2 DEF PersistFails, stop
<1>3. CASE Persist
  <2>1. stop(Agent) /\ fpc = "persisting" /\ fpc' = "halting" /\ status' = "running" /\ UNCHANGED verdict
    BY <1>3 DEF Persist
  <2>. QED BY <2>1 DEF stop
<1>4. CASE EnterVerifier
  <2>1. startProcess(Verifier) /\ fpc = "entering" /\ Goto("verifierStart")
    BY <1>4 DEF EnterVerifier
  <2>. QED BY <2>1 DEF startProcess, SupTypeOK, RunTypeOK, Agent, Verifier
<1>5. CASE VerifierAnnounceFails
  BY <1>5 DEF VerifierAnnounceFails, stop
<1>6. CASE Catch
  <2>1. stop(Agent) /\ fpc = "catch" /\ Goto("catchStop")
    BY <1>6 DEF Catch
  <2>. QED BY <2>1 DEF stop
<1>7. CASE CheckStop \/ StartReturns \/ Abandoned \/ Halted \/ Collect \/ Ingest
  BY <1>7 DEF CheckStop, StartReturns, Abandoned, Halted, Collect, Ingest
<1>8. CASE BeginVerification \/ VerifierStarted \/ VerifierThrew \/ VerifierAnnounced
             \/ VerifierAbandoned \/ VerifierCollected \/ LeaveVerifier \/ Judge
  BY <1>8 DEF BeginVerification, VerifierStarted, VerifierThrew, VerifierAnnounced,
              VerifierAbandoned, VerifierCollected, LeaveVerifier, Judge, Verdict
<1>9. CASE Record \/ Forget \/ CatchStopped \/ RecordFailure
  BY <1>9 DEF Record, Forget, CatchStopped, RecordFailure
<1>. QED BY <1>1, <1>2, <1>3, <1>4, <1>5, <1>6, <1>7, <1>8, <1>9 DEF FiberStep

\* The control's invariant is inductive, given the supervisor's types.
LEMMA ControlStepInv ==
  ASSUME SupTypeOK, ControlInv, [Next]_vars
  PROVE  ControlInv'
<1>1. ControlTypeOK'
  BY ControlStepType
<1>2. Kept
  BY StepKeeps
<1>3. (Started /\ Awaited /\ Earned)'
  <2>1. CASE FiberStep
    BY <2>1, QuietMoves, CallingMoves
  <2>2. CASE Throws
    BY <2>2, QuietMoves DEF Throws
  <2>3. CASE \E o \in Operators : StopCall(o) \/ StopStep(o)
    <3>1. UNCHANGED supVars \/ \E h \in Handles : stop(h)
      BY <2>3, OperatorIsClient
    <3>2. Unstarted(Handles)
      BY <3>1, OnlyStartStarts DEF supVars, Unstarted
    <3>3. UNCHANGED << fiberVars, active >>
      BY <2>3 DEF StopCall, StopStep, StopReadPhase, StopVerification, StopAgent, StopLater,
                  StopReturns, StopThrows, mapVars
    <3>. QED BY <1>2, <3>2, <3>3, ElsewhereInv
  <2>4. CASE \E h \in Handles : /\ SupervisorStep(h) \/ OutputStep(h) \/ ProcessStep(h)
                                /\ UNCHANGED controlVars
    <3>1. Unstarted(Handles)
      BY <2>4, OnlyStartStarts
    <3>. QED BY <1>2, <2>4, <3>1, ElsewhereInv DEF controlVars, mapVars
  <2>5. CASE UNCHANGED vars
    BY <1>2, <2>5, ElsewhereInv DEF vars, supVars, controlVars, mapVars, Unstarted
  <2>. QED BY <2>1, <2>2, <2>3, <2>4, <2>5 DEF Next, EventLoop
<1>. QED BY <1>1, <1>3 DEF ControlInv

\* The inductive invariant: the supervisor's, the types of the maps, and the
\* control's.
RunInv == SupInv /\ MapTypeOK /\ ControlInv

\* The program's invariant: where #executeStep is determines what was started and
\* what has been awaited, and a success is earned.
THEOREM RunInvariant == Spec => []RunInv
<1>1. Init => RunInv
  <2>1. Init => MapTypeOK
    BY DEF Init, MapTypeOK
  <2>2. Init => SupInv
    BY SupInitInv DEF Init
  <2>. QED BY <2>1, <2>2, ControlInitInv DEF RunInv
<1>2. RunInv /\ [Next]_vars => RunInv'
  <2>. SUFFICES ASSUME RunInv, [Next]_vars PROVE RunInv'
    OBVIOUS
  <2>1. SupInv /\ SupTypeOK /\ MapTypeOK /\ ControlInv
    BY DEF RunInv, SupInv
  <2>2. SupInv'
    BY <2>1, StepIsSupervisorStep, SupNextInv
  <2>3. MapTypeOK'
    BY <2>1, MapStepType
  <2>4. ControlInv'
    BY <2>1, ControlStepInv
  <2>. QED BY <2>2, <2>3, <2>4 DEF RunInv
<1>. QED BY <1>1, <1>2, PTL DEF Spec

\* For any processes, output and operators, everything stays within its domain; in
\* particular no artifact grows beyond its limit.
THEOREM RunTypeCorrect == Spec => []TypeOK
<1>1. RunInv => TypeOK
  BY DEF RunInv, SupInv, ControlInv, TypeOK
<1>. QED BY <1>1, RunInvariant, PTL

\* For any number of operators, whenever they call: once a request has reached a
\* process that has no result yet, the run is never recorded as a success.
THEOREM StopWins == Spec => []StopOutranksSuccess
<1>1. RunInv => StopOutranksSuccess
  <2>. SUFFICES ASSUME RunInv, status = "succeeded", NEW h \in Handles PROVE ~ stopRequested[h]
    BY DEF StopOutranksSuccess
  <2>1. outcome[Agent] = "succeeded" /\ VerificationPassed
    BY DEF RunInv, ControlInv, Earned
  <2>2. \A i \in Handles : HandleInv(i)
    BY DEF RunInv, SupInv
  <2>3. outcome[h] = "succeeded" \/ start[h] = "none"
    BY <2>1 DEF VerificationPassed
  <2>. QED BY <2>2, <2>3 DEF HandleInv, LostOutputFails, UntouchedBeforeSpawn
<1>. QED BY <1>1, RunInvariant, PTL

\* Whichever of its awaits fail and whenever it is stopped: when the run's end is
\* recorded, each process that was started for it is settled.
THEOREM NoOrphans == Spec => []EndedRunIsSettled
<1>1. RunInv => EndedRunIsSettled
  <2>. SUFFICES ASSUME RunInv, status \in RunOver, NEW h \in Handles PROVE Over(h)
    BY DEF EndedRunIsSettled, Over
  <2>1. Awaited
    BY DEF RunInv, ControlInv
  <2>2. Over(Agent) /\ fpc \in {"publishing", "catch", "catchStop", "catching", "caught", "done"}
    BY <2>1 DEF Awaited
  <2>3. Over(Verifier)
    BY <2>1, <2>2 DEF Awaited, AfterVerifier
  <2>. QED BY <2>2, <2>3
<1>. QED BY <1>1, RunInvariant, PTL

-----------------------------------------------------------------------------
(* Requests that are recorded before there is a process.                    *)

\* From a request that #executeStep finds before it starts the agent, the only
\* way leads through the catch block.
AgentPrevented ==
  /\ start[Agent] = "none"
  /\ \/ fpc = "starting" /\ stopRequestedRun
     \/ fpc \in {"catch", "catchStop", "catching", "caught", "done"}

\* From one that the verifier finds before it starts, nothing leads back to it.
VerifierPrevented ==
  /\ start[Verifier] = "none"
  /\ \/ fpc = "entering" /\ stopBeforeStart
     \/ fpc \in AfterVerifier

\* Neither way leads to a start.
LEMMA PreventedStays ==
  ASSUME SupTypeOK, [Next]_vars
  PROVE  /\ AgentPrevented => AgentPrevented'
         /\ VerifierPrevented => VerifierPrevented'
<1>. USE DEF AgentPrevented, VerifierPrevented, AfterVerifier
<1>1. CASE FiberStep
  <2>. USE DEF Goto, supVars, mapVars
  <2>1. CASE CheckStop \/ StartReturns \/ Abandoned \/ Halted \/ Collect \/ Ingest
    BY <2>1 DEF CheckStop, StartReturns, Abandoned, Halted, Collect, Ingest
  <2>2. CASE StartTask \/ PersistFails \/ Persist
    BY <2>2 DEF StartTask, PersistFails, Persist
  <2>3. CASE BeginVerification \/ VerifierStarted \/ VerifierThrew \/ VerifierAnnounced
               \/ VerifierAnnounceFails \/ VerifierAbandoned \/ VerifierCollected
    BY <2>3 DEF BeginVerification, VerifierStarted, VerifierThrew, VerifierAnnounced,
                VerifierAnnounceFails, VerifierAbandoned, VerifierCollected, Verdict
  <2>4. CASE EnterVerifier
    BY <2>4 DEF EnterVerifier
  <2>5. CASE LeaveVerifier \/ Judge \/ Record \/ Forget \/ CatchStopped \/ RecordFailure
    BY <2>5 DEF LeaveVerifier, Judge, Record, Forget, CatchStopped, RecordFailure
  <2>6. CASE Catch
    BY <2>6 DEF Catch, stop
  <2>. QED BY <1>1, <2>1, <2>2, <2>3, <2>4, <2>5, <2>6 DEF FiberStep
<1>2. CASE Throws
  BY <1>2 DEF Throws, Goto, supVars
<1>3. CASE \E o \in Operators : StopCall(o) \/ StopStep(o)
  <2>1. PICK o \in Operators : StopCall(o) \/ StopStep(o)
    BY <1>3
  <2>2. UNCHANGED supVars \/ \E h \in Handles : stop(h)
    BY <2>1, OperatorIsClient
  <2>3. Unstarted(Handles)
    BY <2>2, OnlyStartStarts DEF supVars, Unstarted
  <2>4. /\ UNCHANGED fpc
        /\ stopRequestedRun => stopRequestedRun'
        /\ stopBeforeStart => stopBeforeStart'
    <3>1. CASE StopCall(o) \/ StopReadPhase(o) \/ StopAgent(o) \/ StopReturns(o) \/ StopThrows(o)
      BY <3>1 DEF StopCall, StopReadPhase, StopAgent, StopReturns, StopThrows, mapVars, fiberVars
    <3>2. CASE StopVerification(o)
      BY <3>2, Zenon DEF StopVerification, fiberVars
    <3>3. CASE StopLater(o)
      BY <3>3, Zenon DEF StopLater, fiberVars
    <3>. QED BY <2>1, <3>1, <3>2, <3>3 DEF StopStep
  <2>. QED BY <2>3, <2>4 DEF Unstarted
<1>4. CASE \E h \in Handles : /\ SupervisorStep(h) \/ OutputStep(h) \/ ProcessStep(h)
                              /\ UNCHANGED controlVars
  <2>1. Unstarted(Handles)
    BY <1>4, OnlyStartStarts
  <2>. QED BY <1>4, <2>1 DEF Unstarted, controlVars, mapVars, fiberVars
<1>5. CASE UNCHANGED vars
  BY <1>5 DEF vars, supVars, controlVars, mapVars, fiberVars
<1>. QED BY <1>1, <1>2, <1>3, <1>4, <1>5 DEF Next, EventLoop

\* However many operators call and whatever else happens: a request that is
\* recorded before #executeStep or the verifier looks keeps the process from
\* being started, for ever.
THEOREM EarlyStop == Spec => EarlyStopPreventsStart
<1>1. RunInv => /\ fpc = "starting" /\ stopRequestedRun => AgentPrevented
                /\ fpc = "entering" /\ stopBeforeStart => VerifierPrevented
  BY DEF RunInv, ControlInv, Started, BeforeVerifier, AgentPrevented, VerifierPrevented
<1>2. RunInv /\ [Next]_vars => /\ AgentPrevented => AgentPrevented'
                               /\ VerifierPrevented => VerifierPrevented'
  BY PreventedStays DEF RunInv, SupInv
<1>3. /\ AgentPrevented => start[Agent] = "none"
      /\ VerifierPrevented => start[Verifier] = "none"
  BY DEF AgentPrevented, VerifierPrevented
<1>. QED BY <1>1, <1>2, <1>3, RunInvariant, PTL DEF Spec, EarlyStopPreventsStart
=============================================================================
