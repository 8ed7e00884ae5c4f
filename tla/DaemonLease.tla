---------------------------- MODULE DaemonLease ----------------------------
(***************************************************************************)
(* The lease file by which at most one daemon works on an ACC_HOME:         *)
(* acquireDaemonLease and release of src/src/daemon-lease.ts, one action    *)
(* per file operation, for daemons that start, stop and crash at any time.  *)
(*                                                                          *)
(* A process stands for one pid and one instance token, so a pid that the   *)
(* system reuses is not in the model.  The contents of the file are the     *)
(* process that created it, and whether its record has been written yet.    *)
(***************************************************************************)
EXTENDS Naturals, Processes

CONSTANT MaxAttempts   \* MAX_ACQUIRE_ATTEMPTS

ASSUME AttemptAssumption == MaxAttempts \in Nat \ {0}

VARIABLES
  file,       \* the creator of the lease file
  written,    \* its record is complete
  pc,         \* where a process is
  observed,   \* the record it read first
  reclaimed,  \* the stale record it removed
  attempts,   \* attempts it has begun
  raced       \* history: a lease was created while another process stood
              \* between its re-read and its unlink; no guard reads it

vars == << file, written, pc, observed, reclaimed, attempts, raced >>

Pc == {"off", "create", "write", "read", "probe", "reread", "remove", "held",
       "release", "exited", "dead"}

TypeOK ==
  /\ file \in Procs \cup {NoProc}
  /\ written \in BOOLEAN
  /\ pc \in [Procs -> Pc]
  /\ observed \in [Procs -> Procs \cup {NoProc}]
  /\ reclaimed \in [Procs -> Procs \cup {NoProc}]
  /\ attempts \in [Procs -> Nat]
  /\ raced \in BOOLEAN

Init ==
  /\ file = NoProc
  /\ written = FALSE
  /\ pc = [p \in Procs |-> "off"]
  /\ observed = [p \in Procs |-> NoProc]
  /\ reclaimed = [p \in Procs |-> NoProc]
  /\ attempts = [p \in Procs |-> 0]
  /\ raced = FALSE

Goto(p, l) == pc' = [pc EXCEPT ![p] = l]

\* kill(pid, 0)
processIsAlive(p) == pc[p] \notin {"off", "exited", "dead"}

\* readLeaseRecord returns the record of q.  It throws when there is no file
\* and when the file is not a complete record.
Reads(q) == file = q /\ q # NoProc /\ written

ReadThrows == file = NoProc \/ ~ written

-----------------------------------------------------------------------------

Start(p) ==
  /\ pc[p] = "off"
  /\ Goto(p, "create")
  /\ UNCHANGED << file, written, observed, reclaimed, attempts, raced >>

\* open with O_CREAT | O_EXCL; the loop ends after MaxAttempts.
CreateExclusive(p) ==
  /\ pc[p] = "create"
  /\ attempts' = [attempts EXCEPT ![p] = @ + 1]
  /\ \/ /\ attempts[p] < MaxAttempts /\ file = NoProc
        /\ file' = p /\ written' = FALSE
        /\ raced' = (raced \/ \E q \in Procs : pc[q] = "remove")
        /\ Goto(p, "write")
     \/ /\ attempts[p] < MaxAttempts /\ file # NoProc
        /\ Goto(p, "read")
        /\ UNCHANGED << file, written, raced >>
     \/ /\ attempts[p] >= MaxAttempts
        /\ Goto(p, "exited")
        /\ UNCHANGED << file, written, raced >>
  /\ UNCHANGED << observed, reclaimed >>

\* The record goes to the file that was opened, linked or not.
WriteRecord(p) ==
  /\ pc[p] = "write"
  /\ written' = (written \/ file = p)
  /\ Goto(p, "held")
  /\ UNCHANGED << file, observed, reclaimed, attempts, raced >>

\* The write fails: whatever is at the path is removed.
WriteFails(p) ==
  /\ pc[p] = "write"
  /\ file' = NoProc /\ written' = FALSE
  /\ Goto(p, "exited")
  /\ UNCHANGED << observed, reclaimed, attempts, raced >>

ReadRecord(p) ==
  /\ pc[p] = "read"
  /\ \/ \E q \in Procs : Reads(q) /\ observed' = [observed EXCEPT ![p] = q] /\ Goto(p, "probe")
     \/ ReadThrows /\ Goto(p, "exited") /\ UNCHANGED observed
  /\ UNCHANGED << file, written, reclaimed, attempts, raced >>

\* Slip: the probe's answer is not looked at.
ProbeOwner_ignored(p) ==
  /\ pc[p] = "probe"
  /\ Goto(p, "reread")
  /\ UNCHANGED << file, written, observed, reclaimed, attempts, raced >>

\* The lease is held: DaemonLeaseHeldError.
ProbeOwner(p) ==
  /\ pc[p] = "probe"
  /\ Goto(p, IF processIsAlive(observed[p]) THEN "exited" ELSE "reread")
  /\ UNCHANGED << file, written, observed, reclaimed, attempts, raced >>

\* Slip: the second record is not compared with the first.
RereadRecord_uncompared(p) ==
  /\ pc[p] = "reread"
  /\ Goto(p, IF ReadThrows THEN "exited" ELSE "remove")
  /\ UNCHANGED << file, written, observed, reclaimed, attempts, raced >>

RereadRecord(p) ==
  /\ pc[p] = "reread"
  /\ \/ Reads(observed[p]) /\ Goto(p, "remove")
     \/ ~ ReadThrows /\ ~ Reads(observed[p]) /\ Goto(p, "create")
     \/ ReadThrows /\ Goto(p, "exited")
  /\ UNCHANGED << file, written, observed, reclaimed, attempts, raced >>

\* An unlink by name.
RemoveStale(p) ==
  /\ pc[p] = "remove"
  /\ file' = NoProc /\ written' = FALSE
  /\ reclaimed' = [reclaimed EXCEPT ![p] = observed[p]]
  /\ Goto(p, "create")
  /\ UNCHANGED << observed, attempts, raced >>

\* The read of release; a record that is not its own is left alone.
Release(p) ==
  /\ pc[p] = "held"
  /\ Goto(p, IF Reads(p) THEN "release" ELSE "exited")
  /\ UNCHANGED << file, written, observed, reclaimed, attempts, raced >>

RemoveOwn(p) ==
  /\ pc[p] = "release"
  /\ file' = NoProc /\ written' = FALSE
  /\ Goto(p, "exited")
  /\ UNCHANGED << observed, reclaimed, attempts, raced >>

\* The process dies and leaves the file as it is.
Crash(p) ==
  /\ processIsAlive(p)
  /\ Goto(p, "dead")
  /\ UNCHANGED << file, written, observed, reclaimed, attempts, raced >>

Step(p) ==
  \/ Start(p) \/ CreateExclusive(p) \/ WriteRecord(p) \/ WriteFails(p)
  \/ ReadRecord(p) \/ ProbeOwner(p) \/ RereadRecord(p) \/ RemoveStale(p)
  \/ Release(p) \/ RemoveOwn(p) \/ Crash(p)

Next == \E p \in Procs : Step(p)

Spec == Init /\ [][Next]_vars

-----------------------------------------------------------------------------

\* No two daemons work on one ACC_HOME at the same time.  The unlink is by
\* name, so this is not what the code does: a lease created between another
\* process's re-read and its unlink is removed under its holder's feet.
OneDaemon == \A p, q \in Procs : pc[p] = "held" /\ pc[q] = "held" => p = q

\* That race is the only way to two daemons, whoever crashes while others
\* start, read half-written records, reclaim, fail and release.
OneDaemonUnlessRaced == ~ raced => OneDaemon

\* The worker whose tasks the daemon recovers (lease.reclaimed, given to
\* recoverDeadWorker) has really ended, however long ago it was probed.
ReclaimedIsDead ==
  \A p \in Procs : reclaimed[p] # NoProc => ~ processIsAlive(reclaimed[p])
=============================================================================
