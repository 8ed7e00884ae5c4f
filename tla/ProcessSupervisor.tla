------------------------- MODULE ProcessSupervisor -------------------------
(***************************************************************************)
(* Processes that the supervisor starts, watches and ends.  Source: class   *)
(* ProcessSupervisor of src/src/adapters/process-supervisor.ts, on POSIX.   *)
(*                                                                          *)
(* A handle is the id of one start.  Its process tree is a leader and what  *)
(* it forks; a descendant may leave the process group (setsid).  Node's     *)
(* "close" event comes when the leader is reaped and nobody holds its pipes *)
(* any more.  SIGTERM changes no state here: any process may exit at any    *)
(* time, and none has to because of it.  The wording of an error is left    *)
(* out: failure says whether there is one.                                  *)
(***************************************************************************)
EXTENDS Naturals, FiniteSets

CONSTANTS
  Handles,     \* ids given to start
  Procs,       \* processes of one tree
  Leader,      \* the one that is spawned
  MayEscape,   \* those that may leave the process group
  Streams,     \* stdout, stderr
  MaxBytes,    \* maxStdoutBytes, maxStderrBytes, in chunks
  Timed        \* handles with timeoutMs > 0

ASSUME SupervisorAssumption ==
  /\ Leader \in Procs
  /\ MayEscape \subseteq Procs \ {Leader}
  /\ MaxBytes \in [Handles -> Nat]
  /\ Timed \subseteq Handles

VARIABLES
  start,          \* where start is
  stopRequested,  \* state.stopRequested
  failure,        \* state.failureReason or state.processError is set
  term,           \* state.terminationCompletion
  killTimer,      \* state.killTimer, or the wait that follows it
  timeoutTimer,   \* state.timeoutTimer is armed
  fin,            \* where #finalize is
  outcome,        \* state.result
  bytes,          \* state.stdoutBytes, state.stderrBytes
  lost,           \* streams of which some output is not in the artifact
  proc,           \* each process: in the group, out of it, or gone
  pipes,          \* processes that hold the output pipes
  doomed,         \* processes that got SIGKILL
  exit            \* how the leader ended

runVars == << start, stopRequested, failure, term, killTimer, timeoutTimer, fin, outcome >>
outputVars == << bytes, lost >>
osVars == << proc, pipes, doomed, exit >>
supVars == << runVars, outputVars, osVars >>

StartPc == {"none", "preparing", "spawning", "erroring", "up", "threw"}

Statuses == {"succeeded", "stopped", "failed"}

RunTypeOK ==
  /\ start \in [Handles -> StartPc]
  /\ stopRequested \in [Handles -> BOOLEAN]
  /\ failure \in [Handles -> BOOLEAN]
  /\ term \in [Handles -> {"none", "pending", "resolved"}]
  /\ killTimer \in [Handles -> {"off", "armed", "waiting"}]
  /\ timeoutTimer \in [Handles -> BOOLEAN]
  /\ fin \in [Handles -> {"no", "awaiting", "closing"}]
  /\ outcome \in [Handles -> Statuses \cup {"none"}]

OutputTypeOK ==
  /\ bytes \in [Handles -> [Streams -> Nat]]
  /\ \A h \in Handles, s \in Streams : bytes[h][s] <= MaxBytes[h]
  /\ lost \in [Handles -> SUBSET Streams]

OsTypeOK ==
  /\ proc \in [Handles -> [Procs -> {"none", "group", "escaped", "gone"}]]
  /\ pipes \in [Handles -> SUBSET Procs]
  /\ doomed \in [Handles -> SUBSET Procs]
  /\ exit \in [Handles -> {"none", "zero", "nonzero", "error"}]

SupTypeOK == RunTypeOK /\ OutputTypeOK /\ OsTypeOK

SupInit ==
  /\ start = [h \in Handles |-> "none"]
  /\ stopRequested = [h \in Handles |-> FALSE]
  /\ failure = [h \in Handles |-> FALSE]
  /\ term = [h \in Handles |-> "none"]
  /\ killTimer = [h \in Handles |-> "off"]
  /\ timeoutTimer = [h \in Handles |-> FALSE]
  /\ fin = [h \in Handles |-> "no"]
  /\ outcome = [h \in Handles |-> "none"]
  /\ bytes = [h \in Handles |-> [s \in Streams |-> 0]]
  /\ lost = [h \in Handles |-> {}]
  /\ proc = [h \in Handles |-> [p \in Procs |-> "none"]]
  /\ pipes = [h \in Handles |-> {}]
  /\ doomed = [h \in Handles |-> {}]
  /\ exit = [h \in Handles |-> "none"]

Settled(h) == outcome[h] # "none"

\* #runs has the handle; it keeps the ones that are settled.
Registered(h) == start[h] \in {"spawning", "erroring", "up"} \/ Settled(h)

Group(h) == {p \in Procs : proc[h][p] = "group"}

\* Signal 0 to the group; a child that could not be spawned has no group and
\* counts as alive until its error is known.
treeIsAlive(h) ==
  \/ Group(h) # {}
  \/ start[h] = "erroring" /\ exit[h] = "none"

-----------------------------------------------------------------------------
(* Termination.                                                             *)

\* Slip: stop and failures only send SIGTERM.
beginTermination_term(h) ==
  /\ term' = [term EXCEPT ![h] = IF @ = "none" THEN "pending" ELSE @]
  /\ UNCHANGED killTimer

beginTermination(h) ==
  IF Settled(h) \/ term[h] # "none"
  THEN UNCHANGED << term, killTimer >>
  ELSE /\ term' = [term EXCEPT ![h] = "pending"]
       /\ killTimer' = [killTimer EXCEPT ![h] = "armed"]

fail(h) ==
  /\ failure' = [failure EXCEPT ![h] = IF Settled(h) THEN @ ELSE TRUE]
  /\ beginTermination(h)

\* The timer of beginTermination: SIGKILL to whoever is left in the group.
KillTimer(h) ==
  /\ killTimer[h] = "armed"
  /\ doomed' = [doomed EXCEPT ![h] = @ \cup Group(h)]
  /\ killTimer' = [killTimer EXCEPT ![h] = "waiting"]
  /\ UNCHANGED << start, stopRequested, failure, term, timeoutTimer, fin, outcome,
                  outputVars, proc, pipes, exit >>

\* The tree is gone, or 250 ms have passed; then #resolveTermination.
WaitForTreeExit(h) ==
  /\ killTimer[h] = "waiting"
  /\ failure' = [failure EXCEPT ![h] = IF treeIsAlive(h) THEN TRUE ELSE @]
  /\ term' = [term EXCEPT ![h] = "resolved"]
  /\ killTimer' = [killTimer EXCEPT ![h] = "off"]
  /\ UNCHANGED << start, stopRequested, timeoutTimer, fin, outcome, outputVars, osVars >>

-----------------------------------------------------------------------------
(* start, stop and the events of a child.                                   *)

\* start, up to the mkdirs
startProcess(h) ==
  /\ start[h] = "none"
  /\ start' = [start EXCEPT ![h] = "preparing"]
  /\ UNCHANGED << stopRequested, failure, term, killTimer, timeoutTimer, fin, outcome,
                  outputVars, osVars >>

\* spawn returns a child
Spawn(h) ==
  /\ start[h] = "preparing"
  /\ start' = [start EXCEPT ![h] = "spawning"]
  /\ timeoutTimer' = [timeoutTimer EXCEPT ![h] = h \in Timed]
  /\ proc' = [proc EXCEPT ![h][Leader] = "group"]
  /\ pipes' = [pipes EXCEPT ![h] = {Leader}]
  /\ UNCHANGED << stopRequested, failure, term, killTimer, fin, outcome,
                  outputVars, doomed, exit >>

\* spawn returns a child that has no process (ENOENT, EACCES, ...)
SpawnNothing(h) ==
  /\ start[h] = "preparing"
  /\ start' = [start EXCEPT ![h] = "erroring"]
  /\ timeoutTimer' = [timeoutTimer EXCEPT ![h] = h \in Timed]
  /\ UNCHANGED << stopRequested, failure, term, killTimer, fin, outcome,
                  outputVars, osVars >>

\* A mkdir or spawn itself throws: nothing is registered.
StartFails(h) ==
  /\ start[h] = "preparing"
  /\ start' = [start EXCEPT ![h] = "threw"]
  /\ UNCHANGED << stopRequested, failure, term, killTimer, timeoutTimer, fin, outcome,
                  outputVars, osVars >>

\* The "spawn" event: start returns.
SpawnEvent(h) ==
  /\ start[h] = "spawning"
  /\ start' = [start EXCEPT ![h] = "up"]
  /\ UNCHANGED << stopRequested, failure, term, killTimer, timeoutTimer, fin, outcome,
                  outputVars, osVars >>

\* The "error" event of a child that was not spawned.
ErrorEvent(h) ==
  /\ start[h] = "erroring" /\ exit[h] = "none"
  /\ exit' = [exit EXCEPT ![h] = "error"]
  /\ failure' = [failure EXCEPT ![h] = TRUE]
  /\ UNCHANGED << start, stopRequested, term, killTimer, timeoutTimer, fin, outcome,
                  outputVars, proc, pipes, doomed >>

\* start throws that error when the result is there.
StartRejects(h) ==
  /\ start[h] = "erroring" /\ Settled(h)
  /\ start' = [start EXCEPT ![h] = "threw"]
  /\ UNCHANGED << stopRequested, failure, term, killTimer, timeoutTimer, fin, outcome,
                  outputVars, osVars >>

stop(h) ==
  /\ Registered(h)
  /\ stopRequested' = [stopRequested EXCEPT ![h] = IF Settled(h) THEN @ ELSE TRUE]
  /\ beginTermination(h)
  /\ UNCHANGED << start, failure, timeoutTimer, fin, outcome, outputVars, osVars >>

Timeout(h) ==
  /\ timeoutTimer[h]
  /\ timeoutTimer' = [timeoutTimer EXCEPT ![h] = FALSE]
  /\ fail(h)
  /\ UNCHANGED << start, stopRequested, fin, outcome, outputVars, osVars >>

Smaller(a, b) == IF a < b THEN a ELSE b

\* Slip: output beyond the limit is dropped and nothing else.
captureOutput_quiet(h, s, n) ==
  LET remaining == MaxBytes[h] - bytes[h][s]
  IN /\ pipes[h] \ doomed[h] # {} /\ s \notin lost[h]
     /\ bytes' = [bytes EXCEPT ![h][s] = @ + Smaller(remaining, n)]
     /\ lost' = [lost EXCEPT ![h] = IF n > remaining THEN @ \cup {s} ELSE @]
     /\ UNCHANGED << runVars, osVars >>

\* #captureOutput of a chunk of size n.  Once a stream has lost output a
\* further chunk changes nothing that matters.
captureOutput(h, s, n) ==
  LET remaining == MaxBytes[h] - bytes[h][s]
  IN /\ pipes[h] \ doomed[h] # {} /\ s \notin lost[h]
     /\ bytes' = [bytes EXCEPT ![h][s] = @ + Smaller(remaining, n)]
     /\ IF n > remaining
        THEN lost' = [lost EXCEPT ![h] = @ \cup {s}] /\ fail(h)
        ELSE UNCHANGED << lost, failure, term, killTimer >>
     /\ UNCHANGED << start, stopRequested, timeoutTimer, fin, outcome, osVars >>

\* The artifact's stream fails, while output arrives or when it is closed.
StreamError(h, s) ==
  /\ Registered(h) /\ ~ Settled(h) /\ s \notin lost[h]
  /\ lost' = [lost EXCEPT ![h] = @ \cup {s}]
  /\ fail(h)
  /\ UNCHANGED << start, stopRequested, timeoutTimer, fin, outcome, bytes, osVars >>

-----------------------------------------------------------------------------
(* #finalize.                                                               *)

\* Slip: #finalize does not look for descendants.
CloseEvent_childOnly(h) ==
  /\ Registered(h) /\ fin[h] = "no"
  /\ exit[h] # "none" /\ pipes[h] = {}
  /\ timeoutTimer' = [timeoutTimer EXCEPT ![h] = FALSE]
  /\ fin' = [fin EXCEPT ![h] = "closing"]
  /\ UNCHANGED << start, stopRequested, failure, term, killTimer, outcome,
                  outputVars, osVars >>

\* The "close" event: #finalize up to its first wait.
CloseEvent(h) ==
  /\ Registered(h) /\ fin[h] = "no"
  /\ exit[h] # "none" /\ pipes[h] = {}
  /\ timeoutTimer' = [timeoutTimer EXCEPT ![h] = FALSE]
  /\ IF treeIsAlive(h)
     THEN /\ failure' = [failure EXCEPT ![h] = IF term[h] = "none" THEN TRUE ELSE @]
          /\ beginTermination(h)
     ELSE /\ UNCHANGED failure
          /\ term' = [term EXCEPT ![h] = IF @ = "none" THEN @ ELSE "resolved"]
          /\ killTimer' = [killTimer EXCEPT ![h] = "off"]
  /\ fin' = [fin EXCEPT ![h] = IF term'[h] = "pending" THEN "awaiting" ELSE "closing"]
  /\ UNCHANGED << start, stopRequested, outcome, outputVars, osVars >>

AwaitTermination(h) ==
  /\ fin[h] = "awaiting" /\ term[h] = "resolved"
  /\ fin' = [fin EXCEPT ![h] = "closing"]
  /\ UNCHANGED << start, stopRequested, failure, term, killTimer, timeoutTimer, outcome,
                  outputVars, osVars >>

Status(h) ==
  IF failure[h] THEN "failed"
  ELSE IF stopRequested[h] THEN "stopped"
  ELSE IF exit[h] = "zero" THEN "succeeded" ELSE "failed"

\* Both artifacts are closed; the result is there.
Finalize(h) ==
  /\ fin[h] = "closing" /\ ~ Settled(h)
  /\ outcome' = [outcome EXCEPT ![h] = Status(h)]
  /\ UNCHANGED << start, stopRequested, failure, term, killTimer, timeoutTimer, fin,
                  outputVars, osVars >>

-----------------------------------------------------------------------------
(* The operating system.                                                    *)

Live(h) == {p \in Procs : proc[h][p] \in {"group", "escaped"}}

\* p leaves by itself or because it was killed.
Leave(h, p) ==
  /\ proc' = [proc EXCEPT ![h][p] = "gone"]
  /\ pipes' = [pipes EXCEPT ![h] = @ \ {p}]
  /\ doomed' = [doomed EXCEPT ![h] = @ \ {p}]
  /\ IF p = Leader
     THEN \E code \in {"zero", "nonzero"} :
            /\ p \in doomed[h] => code = "nonzero"
            /\ exit' = [exit EXCEPT ![h] = code]
     ELSE UNCHANGED exit
  /\ UNCHANGED << runVars, outputVars >>

Exit(h, p) == p \in Live(h) \ doomed[h] /\ Leave(h, p)

Die(h, p) == p \in doomed[h] /\ Leave(h, p)

\* A child inherits the group, and the pipes unless its output is redirected.
Fork(h, p, child) ==
  /\ p \in Live(h) \ doomed[h] /\ proc[h][child] = "none" /\ child # Leader
  /\ proc' = [proc EXCEPT ![h][child] = proc[h][p]]
  /\ pipes' \in {pipes, [pipes EXCEPT ![h] = IF p \in @ THEN @ \cup {child} ELSE @]}
  /\ UNCHANGED << runVars, outputVars, doomed, exit >>

Escape(h, p) ==
  /\ p \in MayEscape /\ p \in Group(h) \ doomed[h]
  /\ proc' = [proc EXCEPT ![h][p] = "escaped"]
  /\ UNCHANGED << runVars, outputVars, pipes, doomed, exit >>

-----------------------------------------------------------------------------

\* Steps of the supervisor that it will take.
SupervisorStep(h) ==
  \/ Spawn(h) \/ SpawnNothing(h) \/ StartFails(h)
  \/ SpawnEvent(h) \/ ErrorEvent(h) \/ StartRejects(h)
  \/ KillTimer(h) \/ WaitForTreeExit(h) \/ Timeout(h)
  \/ CloseEvent(h) \/ AwaitTermination(h) \/ Finalize(h)

OutputStep(h) ==
  \E s \in Streams : StreamError(h, s) \/ \E n \in 1..2 : captureOutput(h, s, n)

ProcessStep(h) ==
  \E p \in Procs : \/ Exit(h, p) \/ Die(h, p) \/ Escape(h, p)
                   \/ \E child \in Procs : Fork(h, p, child)

CallStep(h) == startProcess(h) \/ stop(h)

SupNext ==
  \E h \in Handles : CallStep(h) \/ SupervisorStep(h) \/ OutputStep(h) \/ ProcessStep(h)

SupSpec == SupInit /\ [][SupNext]_supVars

-----------------------------------------------------------------------------

\* When a result other than "failed" is there, nothing of the process group is
\* left: whatever stopped it or raced with its exit, and although the leader's
\* own exit says nothing about its descendants.
QuietUnlessFailed ==
  \A h \in Handles : outcome[h] \in {"succeeded", "stopped"} => Group(h) = {}

\* A success means exit code 0, no request to stop before the result, and
\* artifacts that hold all of the output.
SuccessIsWhole ==
  \A h \in Handles : outcome[h] = "succeeded" =>
    exit[h] = "zero" /\ ~ stopRequested[h] /\ lost[h] = {}
=============================================================================
