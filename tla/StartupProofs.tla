--------------------------- MODULE StartupProofs ---------------------------
(***************************************************************************)
(* At most one daemon, for any number of processes, until a lease is        *)
(* created between a reclaimer's re-read and its unlink; and what a daemon  *)
(* recovers belongs to a process that ended, after that too.                *)
(*                                                                          *)
(* Migrations that are applied once and in order, with a snapshot before    *)
(* each, for any number of processes of any versions.                       *)
(*                                                                          *)
(* A process that opens the database and then takes the lease does nothing  *)
(* to either that these proofs do not cover.                                *)
(***************************************************************************)
EXTENDS Startup, FiniteSetTheorems, TLAPS

\* The part of LeaseIsRecorded that does not depend on the scheduling.
ObservedIsDead ==
  /\ \A p \in Procs : pc[p] \in {"reread", "remove"} =>
       observed[p] \in Procs /\ pc[observed[p]] \in {"exited", "dead"}
  /\ \A p \in Procs : pc[p] = "probe" => observed[p] \in Procs /\ pc[observed[p]] # "off"
  /\ file # NoProc => pc[file] # "off"
  /\ \A p \in Procs : reclaimed[p] # NoProc =>
       reclaimed[p] \in Procs /\ pc[reclaimed[p]] \in {"exited", "dead"}

LEMMA InitType == Init => TypeOK
<1>1. Init => written \in BOOLEAN
  BY DEF Init
<1>2. Init => attempts \in [Procs -> Nat]
  BY DEF Init
<1>3. QED
  BY <1>1, <1>2 DEF Init, TypeOK, Pc

\* Every file operation leaves the variables within their types.
LEMMA TypeStep == TypeOK /\ [Next]_vars => TypeOK'
<1> SUFFICES ASSUME TypeOK, [Next]_vars PROVE TypeOK'
  OBVIOUS
<1> USE DEF TypeOK, Pc, Goto
<1>1. ASSUME NEW p \in Procs, Step(p) PROVE TypeOK'
  <2>1. CASE CreateExclusive(p)
    <3>1. attempts' \in [Procs -> Nat]
      BY <2>1 DEF CreateExclusive
    <3>2. pc' \in [Procs -> Pc] /\ file' \in Procs \cup {NoProc} /\ written' \in BOOLEAN
      BY <2>1 DEF CreateExclusive
    <3>3. QED
      BY <2>1, <3>1, <3>2 DEF CreateExclusive
  <2>2. CASE Start(p) \/ WriteRecord(p) \/ WriteFails(p) \/ ReadRecord(p) \/ ProbeOwner(p)
    BY <2>2 DEF Start, WriteRecord, WriteFails, ReadRecord, ProbeOwner
  <2>3. CASE RereadRecord(p) \/ RemoveStale(p)
    BY <2>3 DEF RereadRecord, RemoveStale
  <2>4. CASE Release(p) \/ RemoveOwn(p) \/ Crash(p)
    BY <2>4 DEF Release, RemoveOwn, Crash
  <2>5. QED
    BY <1>1, <2>1, <2>2, <2>3, <2>4 DEF Step
<1>2. CASE UNCHANGED vars
  BY <1>2 DEF vars
<1>3. QED
  BY <1>1, <1>2 DEF Next

\* A process that ended stays ended, so a probe's answer does not go stale.
LEMMA EndedStays ==
  ASSUME TypeOK, NEW p \in Procs, Step(p), NEW q \in Procs
  PROVE  /\ pc[q] \in {"exited", "dead"} => pc'[q] \in {"exited", "dead"}
         /\ pc[q] # "off" => pc'[q] # "off"
BY DEF TypeOK, Pc, Step, Goto, Start, CreateExclusive, WriteRecord, WriteFails, ReadRecord,
   ProbeOwner, RereadRecord, RemoveStale, Release, RemoveOwn, Crash, processIsAlive

LEMMA ObservedStep == TypeOK /\ ObservedIsDead /\ [Next]_vars => ObservedIsDead'
<1> SUFFICES ASSUME TypeOK, ObservedIsDead, [Next]_vars PROVE ObservedIsDead'
  OBVIOUS
<1>1. ASSUME NEW p \in Procs, Step(p) PROVE ObservedIsDead'
  <2> USE <1>1, EndedStays, ProcAssumption DEF TypeOK, Pc, Goto, ObservedIsDead
  <2>1. CASE Start(p) \/ CreateExclusive(p)
    BY <2>1 DEF Start, CreateExclusive
  <2>2. CASE WriteRecord(p) \/ WriteFails(p)
    BY <2>2 DEF WriteRecord, WriteFails
  <2>3. CASE ReadRecord(p)
    BY <2>3 DEF ReadRecord, Reads
  <2>4. CASE ProbeOwner(p)
    BY <2>4 DEF ProbeOwner, processIsAlive
  <2>5. CASE RereadRecord(p)
    BY <2>5 DEF RereadRecord
  <2>6. CASE RemoveStale(p)
    BY <2>6 DEF RemoveStale
  <2>7. CASE Release(p) \/ RemoveOwn(p) \/ Crash(p)
    BY <2>7 DEF Release, RemoveOwn, Crash
  <2>8. QED
    BY <2>1, <2>2, <2>3, <2>4, <2>5, <2>6, <2>7 DEF Step
<1>2. CASE UNCHANGED vars
  BY <1>2 DEF vars, ObservedIsDead
<1>3. QED
  BY <1>1, <1>2 DEF Next

\* Whatever the scheduling: the daemon whose tasks are recovered has ended.
THEOREM RecoveredOwnerEnded == Spec => []ReclaimedIsDead
<1>1. Init => TypeOK /\ ObservedIsDead
  <2>1. Init => ObservedIsDead
    BY ProcAssumption DEF Init, ObservedIsDead
  <2>2. QED
    BY <2>1, InitType
<1>2. TypeOK /\ ObservedIsDead => ReclaimedIsDead
  BY DEF ObservedIsDead, ReclaimedIsDead, processIsAlive
<1>3. QED
  BY <1>1, <1>2, TypeStep, ObservedStep, PTL DEF Spec

-----------------------------------------------------------------------------

\* Before the race, a process on its way to or from the lease is the one in
\* the file, and a process about to unlink has in front of it the record of a
\* dead process, or nothing when another reclaimer was faster.
Recorded ==
  /\ \A p \in Procs : pc[p] \in {"write", "held", "release"} => file = p
  /\ \A p \in Procs : pc[p] = "remove" => file \in {observed[p], NoProc}

LeaseIsRecorded == ~ raced => Recorded

LEMMA RecordedStep ==
  TypeOK /\ ObservedIsDead /\ LeaseIsRecorded /\ [Next]_vars => LeaseIsRecorded'
<1> SUFFICES ASSUME TypeOK, ObservedIsDead, LeaseIsRecorded, [Next]_vars, ~ raced'
             PROVE  Recorded'
  BY DEF LeaseIsRecorded
<1>1. ASSUME NEW p \in Procs, Step(p) PROVE Recorded'
  <2>1. ~ raced /\ Recorded
    BY <1>1 DEF LeaseIsRecorded, TypeOK, Step, Start, CreateExclusive, WriteRecord, WriteFails,
       ReadRecord, ProbeOwner, RereadRecord, RemoveStale, Release, RemoveOwn, Crash
  <2> USE <1>1, <2>1, ProcAssumption DEF TypeOK, Pc, Goto, Recorded, ObservedIsDead
  <2>2. CASE CreateExclusive(p)
    <3>1. CASE file' = p /\ pc' = [pc EXCEPT ![p] = "write"] /\ file = NoProc
      <4>1. \A q \in Procs : pc[q] # "remove"
        BY <2>2, <3>1 DEF CreateExclusive
      <4>2. \A q \in Procs : pc[q] \notin {"write", "held", "release"}
        BY <3>1
      <4>3. QED
        BY <3>1, <4>1, <4>2
    <3>2. CASE file' = file /\ \E l \in {"read", "exited"} : pc' = [pc EXCEPT ![p] = l]
      BY <2>2, <3>2 DEF CreateExclusive
    <3>3. QED
      BY <2>2, <3>1, <3>2 DEF CreateExclusive
  <2>3. CASE WriteRecord(p)
    BY <2>3 DEF WriteRecord
  <2>4. CASE WriteFails(p)
    BY <2>4 DEF WriteFails
  <2>5. CASE RereadRecord(p)
    BY <2>5 DEF RereadRecord, Reads
  <2>6. CASE RemoveStale(p)
    BY <2>6 DEF RemoveStale
  <2>7. CASE RemoveOwn(p)
    BY <2>7 DEF RemoveOwn
  <2>8. CASE Start(p) \/ ReadRecord(p) \/ ProbeOwner(p) \/ Release(p) \/ Crash(p)
    BY <2>8 DEF Start, ReadRecord, ProbeOwner, Release, Crash
  <2>9. QED
    BY <2>2, <2>3, <2>4, <2>5, <2>6, <2>7, <2>8 DEF Step
<1>2. CASE UNCHANGED vars
  BY <1>2 DEF vars, LeaseIsRecorded, Recorded
<1>3. QED
  BY <1>1, <1>2 DEF Next

\* Two daemons work on one ACC_HOME only after a lease was created between
\* another process's re-read and its unlink, however many start, reclaim,
\* release and die.
THEOREM OneDaemonWithoutRace == Spec => []OneDaemonUnlessRaced
<1>1. Init => TypeOK /\ ObservedIsDead /\ LeaseIsRecorded
  <2>1. Init => LeaseIsRecorded /\ ObservedIsDead
    BY ProcAssumption DEF Init, LeaseIsRecorded, Recorded, ObservedIsDead
  <2>2. QED
    BY <2>1, InitType
<1>2. LeaseIsRecorded => OneDaemonUnlessRaced
  BY DEF LeaseIsRecorded, Recorded, OneDaemonUnlessRaced, OneDaemon
<1>3. QED
  BY <1>1, <1>2, TypeStep, ObservedStep, RecordedStep, PTL DEF Spec

-----------------------------------------------------------------------------

\* Where a process is with its migration and how far the database is.
Position(p) ==
  /\ mpc[p] \in {"backup", "begin", "locked", "count"} => version + 1 >= at[p]
  /\ mpc[p] \in {"recount", "integrity"} => version >= at[p]
  /\ mpc[p] \in {"opening", "open"} => version >= Known[p]

Saved(v) == \E b \in backups : b.before = v /\ b.version = v - 1

\* Between the snapshot and the commit: it is there, unless the migration will
\* be found applied.
Snapshot(p) ==
  mpc[p] \in {"begin", "locked"} /\ preCounts[p] > 0 => version >= at[p] \/ Saved(at[p])

\* A count that nobody has added to is not too small.
CountIsHigh(p) ==
  mpc[p] \in {"backup", "begin", "locked", "integrity"} /\ ~ grown[p]
    => Cardinality(rows) <= preCounts[p]

MigrationInv ==
  /\ MigrationTypeOK
  /\ AppliedInOrder
  /\ \A p \in Procs : Position(p)
  /\ MigratedIsSaved
  /\ \A p \in Procs : Snapshot(p)
  /\ \A p \in Procs : CountIsHigh(p)

LEMMA RowsFinite ==
  ASSUME NEW S \in SUBSET Rows, NEW T \in SUBSET S
  PROVE  /\ IsFiniteSet(S) /\ Cardinality(S) \in Nat
         /\ Cardinality(T) \in Nat /\ Cardinality(T) <= Cardinality(S)
         /\ Cardinality(T) = Cardinality(S) => T = S
BY KnownAssumption, FS_Subset, FS_CardinalityType DEF KnownAssumption

LEMMA KnownNat == \A p \in Procs : Known[p] \in Nat /\ Known[p] >= 1
BY KnownAssumption DEF KnownAssumption

LEMMA MigrationInitInv == MigrationInit => MigrationInv
<1> SUFFICES ASSUME MigrationInit PROVE MigrationInv
  OBVIOUS
<1> USE DEF MigrationInit
<1>1. MigrationTypeOK
  BY KnownAssumption DEF MigrationTypeOK, OpenPc, KnownAssumption
<1>2. AppliedInOrder /\ MigratedIsSaved
  BY DEF AppliedInOrder, MigratedIsSaved
<1>3. QED
  BY <1>1, <1>2 DEF MigrationInv, Position, Snapshot, CountIsHigh

\* The steps of one process that leave the database as it is.
Quiet == UNCHANGED << version, rows, applied >> /\ backups \subseteq backups'

LEMMA QuietInv ==
  ASSUME MigrationInv, NEW p \in Procs, Quiet, MigrationTypeOK',
         \A q \in Procs \ {p} :
           /\ mpc'[q] = mpc[q] /\ at'[q] = at[q] /\ preCounts'[q] = preCounts[q]
           /\ grown'[q] = grown[q],
         Position(p)', Snapshot(p)', CountIsHigh(p)'
  PROVE  MigrationInv'
<1>1. AppliedInOrder'
  BY DEF MigrationInv, AppliedInOrder, Quiet
<1>2. MigratedIsSaved'
  BY DEF MigrationInv, MigratedIsSaved, Quiet
<1>3. ASSUME NEW q \in Procs PROVE Position(q)' /\ Snapshot(q)' /\ CountIsHigh(q)'
  <2>1. CASE q = p
    BY <2>1
  <2>2. CASE q # p
    <3>1. Position(q) /\ Snapshot(q) /\ CountIsHigh(q)
      BY DEF MigrationInv
    <3>2. Saved(at[q]) => Saved(at[q])'
      BY <2>2 DEF Saved, Quiet
    <3>3. QED
      BY <2>2, <3>1, <3>2 DEF Position, Snapshot, CountIsHigh, Quiet
  <2>3. QED
    BY <2>1, <2>2
<1>4. QED
  BY <1>1, <1>2, <1>3 DEF MigrationInv

\* A process that fails, dies or closes leaves the others what they rely on;
\* one that finishes has migrated.
LEMMA LeaveInv ==
  ASSUME MigrationInv, NEW p \in Procs, NEW l \in OpenPc, Leave(p, l),
         UNCHANGED << dbVars, backups >>,
         l \in {"failed", "dead", "closed"} \/ (l = "opening" /\ version >= Known[p])
  PROVE  MigrationInv'
<1> USE DEF MigrationInv, MigrationTypeOK, Leave, MGoto, dbVars, OpenPc
<1>1. MigrationTypeOK'
  <2>1. at' \in [Procs -> Nat] /\ \A q \in Procs : at'[q] <= Known[q]
    BY KnownNat
  <2>2. mpc' \in [Procs -> OpenPc] /\ preCounts' \in [Procs -> Nat] /\ grown' \in [Procs -> BOOLEAN]
    OBVIOUS
  <2>3. lock' \in Procs \cup {NoProc}
    OBVIOUS
  <2>4. QED
    BY <2>1, <2>2, <2>3
<1>2. Position(p)' /\ Snapshot(p)' /\ CountIsHigh(p)'
  BY DEF Position, Snapshot, CountIsHigh
<1>3. QED
  BY <1>1, <1>2, QuietInv DEF Quiet

LEMMA ReadInv ==
  ASSUME MigrationInv, NEW p \in Procs, AssertKnown(p) \/ Bootstrap(p) \/ OpenDatabase(p)
  PROVE  MigrationInv'
<1>1. CASE AssertKnown(p) /\ version > Known[p]
  BY <1>1, LeaveInv DEF AssertKnown, OpenPc
<1>2. CASE \/ AssertKnown(p) /\ ~ (version > Known[p])
           \/ Bootstrap(p) \/ OpenDatabase(p)
  <2> USE <1>2 DEF AssertKnown, Bootstrap, OpenDatabase, Stay, MigrationInv, MigrationTypeOK,
                   MGoto, dbVars, OpenPc
  <2>1. MigrationTypeOK'
    OBVIOUS
  <2>2. Position(p)' /\ Snapshot(p)' /\ CountIsHigh(p)'
    BY DEF Position, Snapshot, CountIsHigh
  <2>3. QED
    BY <2>1, <2>2, QuietInv DEF Quiet
<1>3. QED
  BY <1>1, <1>2

LEMMA ReadVersionInv ==
  ASSUME MigrationInv, NEW p \in Procs, ReadVersion(p) \/ LockedNewer(p) PROVE MigrationInv'
<1>1. CASE \/ Leave(p, "failed") /\ UNCHANGED << dbVars, backups >>
           \/ Leave(p, "opening") /\ version >= Known[p] /\ UNCHANGED << dbVars, backups >>
  BY <1>1, LeaveInv DEF OpenPc
<1>2. CASE /\ version < Known[p] /\ MGoto(p, "count")
           /\ at' = [at EXCEPT ![p] = version + 1]
           /\ UNCHANGED << lock, preCounts, grown, dbVars, backups >>
  <2> USE <1>2 DEF MigrationInv, MigrationTypeOK, MGoto, dbVars, OpenPc
  <2>1. version + 1 \in Nat /\ version + 1 <= Known[p]
    BY KnownNat
  <2>2. at' \in [Procs -> Nat] /\ \A q \in Procs : at'[q] <= Known[q]
    BY <2>1
  <2>3. MigrationTypeOK'
    BY <2>2
  <2>4. Position(p)' /\ Snapshot(p)' /\ CountIsHigh(p)'
    BY DEF Position, Snapshot, CountIsHigh
  <2>5. QED
    BY <2>3, <2>4, QuietInv DEF Quiet
<1>3. version = Known[p] => version >= Known[p]
  BY KnownNat
<1>4. QED
  BY <1>1, <1>2, <1>3 DEF ReadVersion, LockedNewer

LEMMA CountInv ==
  ASSUME MigrationInv, NEW p \in Procs, FirstCount(p) PROVE MigrationInv'
<1> USE DEF FirstCount, Count, MigrationInv, MigrationTypeOK, MGoto, dbVars, OpenPc
<1>1. Cardinality(rows) \in Nat
  BY RowsFinite
<1>2. MigrationTypeOK'
  BY <1>1
<1>3. Position(p)' /\ Snapshot(p)' /\ CountIsHigh(p)'
  BY <1>1 DEF Position, Snapshot, CountIsHigh
<1>4. QED
  BY <1>2, <1>3, QuietInv DEF Quiet

\* The snapshot has the version before the migration, or a later one when
\* another process was faster.
LEMMA BackupInv ==
  ASSUME MigrationInv, NEW p \in Procs, BackupDatabase(p) PROVE MigrationInv'
<1> USE DEF BackupDatabase, Stay, MigrationInv, MigrationTypeOK, MGoto, dbVars, OpenPc
<1> DEFINE b == [before |-> at[p], version |-> version, rows |-> rows]
<1>1. b \in Backup
  BY DEF Backup
<1>2. MigrationTypeOK'
  BY <1>1
<1>3. Position(p)' /\ CountIsHigh(p)'
  BY DEF Position, CountIsHigh
<1>4. Snapshot(p)'
  <2>1. CASE preCounts[p] = 0 \/ version >= at[p]
    BY <2>1 DEF Snapshot
  <2>2. CASE preCounts[p] # 0 /\ ~ (version >= at[p])
    <3>1. version = at[p] - 1
      BY <2>2 DEF Position
    <3>2. b \in backups' /\ b.before = at[p] /\ b.version = at[p] - 1
      BY <2>2, <3>1
    <3>3. Saved(at[p])'
      BY <3>2 DEF Saved
    <3>4. QED
      BY <3>3 DEF Snapshot
  <2>3. QED
    BY <2>1, <2>2
<1>5. QED
  BY <1>2, <1>3, <1>4, QuietInv DEF Quiet

LEMMA LockInv ==
  ASSUME MigrationInv, NEW p \in Procs, Begin(p) \/ LockedDone(p) PROVE MigrationInv'
<1> USE KnownNat DEF Begin, LockedDone, Pending, MigrationInv,
        MigrationTypeOK, MGoto, dbVars, OpenPc
<1>1. MigrationTypeOK'
  OBVIOUS
<1>2. Saved(at[p])' = Saved(at[p])
  BY DEF Saved
<1>3. Position(p)' /\ Snapshot(p)' /\ CountIsHigh(p)'
  BY <1>2 DEF Position, Snapshot, CountIsHigh
<1>4. QED
  BY <1>1, <1>3, QuietInv DEF Quiet

\* The next migration is begun only when this one is in the database.
LEMMA ProceedInv ==
  ASSUME MigrationInv, NEW p \in Procs, Recount(p) \/ CheckIntegrity(p) PROVE MigrationInv'
<1>1. mpc[p] \in {"recount", "integrity"} /\ version >= at[p]
  BY DEF MigrationInv, Position, Recount, CheckIntegrity
<1>2. CASE Leave(p, "failed") \/ (Leave(p, "opening") /\ at[p] = Known[p])
  BY <1>1, <1>2, LeaveInv DEF OpenPc, Recount, CheckIntegrity
<1>3. CASE /\ at[p] # Known[p] /\ MGoto(p, "backup") /\ at' = [at EXCEPT ![p] = @ + 1]
           /\ UNCHANGED lock
           /\ Count(p) \/ (mpc[p] = "integrity" /\ UNCHANGED << preCounts, grown >>)
  <2> USE <1>3 DEF Recount, CheckIntegrity, Count, MigrationInv, MigrationTypeOK, MGoto,
                   dbVars, OpenPc
  <2>1. Cardinality(rows) \in Nat
    BY RowsFinite
  <2>2. at[p] + 1 \in Nat /\ at[p] + 1 <= Known[p]
    BY KnownNat
  <2>3. at' \in [Procs -> Nat] /\ \A q \in Procs : at'[q] <= Known[q]
    BY <2>2
  <2>4. MigrationTypeOK'
    BY <2>1, <2>3
  <2>5. Position(p)'
    <3>1. /\ version \in Nat /\ at[p] \in Nat /\ version' = version
          /\ mpc'[p] = "backup" /\ at'[p] = at[p] + 1
      OBVIOUS
    <3> HIDE DEF MigrationInv
    <3>2. QED
      BY <1>1, <3>1, SMT DEF Position
  <2>6. Snapshot(p)'
    BY DEF Snapshot
  <2>7. CountIsHigh(p)'
    <3>1. CASE Count(p)
      <4>1. preCounts'[p] = Cardinality(rows) /\ rows' = rows
        BY <3>1
      <4>2. Cardinality(rows') <= preCounts'[p]
        BY <2>1, <4>1
      <4>3. QED
        BY <4>2 DEF CountIsHigh
    <3>2. CASE mpc[p] = "integrity" /\ UNCHANGED << preCounts, grown >>
      BY <3>2 DEF CountIsHigh
    <3>3. QED
      BY <3>1, <3>2
  <2>8. QED
    BY <2>4, <2>5, <2>6, <2>7, QuietInv DEF Quiet
<1>4. QED
  BY <1>2, <1>3 DEF Recount, CheckIntegrity, Proceed

\* The migration is the next one, its snapshot is there, and it keeps the rows.
LEMMA MigrateInv ==
  ASSUME MigrationInv, NEW p \in Procs, Migrate(p) PROVE MigrationInv'
<1> PICK gone \in Removed(at[p]) :
      /\ NoRowsLost(p, rows \ gone)
      /\ rows' = rows \ gone
      /\ preCounts' = [preCounts EXCEPT ![p] = Cardinality(rows \ gone)]
  BY DEF Migrate
<1> USE DEF MigrationInv
<1>1. /\ mpc[p] = "locked" /\ version < at[p] /\ version' = at[p]
      /\ applied' = Append(applied, [version |-> at[p], counted |-> preCounts[p]])
      /\ lock' = NoProc /\ grown' = [grown EXCEPT ![p] = FALSE]
      /\ mpc' = [mpc EXCEPT ![p] = "integrity"]
      /\ UNCHANGED << tables, backups, at >>
  BY DEF Migrate, Pending, MGoto
<1>2. gone \subseteq rows
  BY DEF Removed
<1>3. /\ Cardinality(rows) \in Nat /\ Cardinality(rows \ gone) \in Nat
      /\ Cardinality(rows \ gone) <= Cardinality(rows)
      /\ Cardinality(rows \ gone) = Cardinality(rows) => rows \ gone = rows
  BY RowsFinite DEF MigrationTypeOK
<1>4. version \in Nat /\ at[p] \in Nat /\ version + 1 = at[p]
  BY <1>1 DEF Position, MigrationTypeOK
<1>5. MigrationTypeOK'
  <2>1. applied' \in Seq([version : Nat, counted : Nat])
    BY <1>1 DEF MigrationTypeOK
  <2>2. rows' \in SUBSET Rows
    BY <1>2 DEF MigrationTypeOK
  <2>3. preCounts' \in [Procs -> Nat]
    BY <1>3 DEF MigrationTypeOK
  <2>4. QED
    BY <1>1, <1>4, <2>1, <2>2, <2>3 DEF MigrationTypeOK, OpenPc
<1>6. /\ Len(applied') = at[p] /\ DOMAIN applied' = 1..at[p]
      /\ \A i \in 1..version : applied'[i] = applied[i]
      /\ applied'[at[p]] = [version |-> at[p], counted |-> preCounts[p]]
      /\ DOMAIN applied = 1..version
  BY <1>1, <1>4 DEF MigrationTypeOK, AppliedInOrder
<1>7. AppliedInOrder'
  BY <1>1, <1>4, <1>6 DEF AppliedInOrder
<1>8. preCounts[p] > 0 => Saved(at[p])
  BY <1>1, <1>4 DEF Snapshot
<1>9. MigratedIsSaved'
  <2>1. SUFFICES ASSUME NEW i \in DOMAIN applied', applied'[i].counted > 0
                 PROVE  \E b \in backups' : b.before = i /\ b.version = i - 1
    BY DEF MigratedIsSaved
  <2>2. CASE i = at[p]
    BY <1>1, <1>6, <1>8, <2>1, <2>2 DEF Saved
  <2>3. CASE i # at[p]
    <3>1. i \in 1..version
      BY <1>4, <1>6, <2>3
    <3>2. applied[i].counted > 0
      BY <1>6, <2>1, <3>1
    <3>3. QED
      BY <1>1, <1>6, <3>1, <3>2 DEF MigratedIsSaved
  <2>4. QED
    BY <2>2, <2>3
<1>10. ASSUME NEW q \in Procs PROVE Position(q)' /\ Snapshot(q)' /\ CountIsHigh(q)'
  <2>1. CASE q = p
    BY <1>1, <1>3, <1>4, <2>1 DEF Position, Snapshot, CountIsHigh, MigrationTypeOK
  <2>2. CASE q # p
    <3>1. Position(q) /\ Snapshot(q) /\ CountIsHigh(q) /\ at[q] \in Nat /\ Known[q] \in Nat
      BY KnownNat DEF MigrationTypeOK
    <3>2. mpc'[q] = mpc[q] /\ at'[q] = at[q] /\ preCounts'[q] = preCounts[q] /\ grown'[q] = grown[q]
      BY <1>1, <2>2 DEF MigrationTypeOK
    <3>3. Saved(at[q])' = Saved(at[q])
      BY <1>1, <3>2 DEF Saved
    <3>4. Position(q)'
      BY <1>1, <1>4, <3>1, <3>2 DEF Position
    <3>5. Snapshot(q)'
      BY <1>1, <1>4, <3>1, <3>2, <3>3 DEF Snapshot
    <3>6. preCounts[q] \in Nat
      BY DEF MigrationTypeOK
    <3>7. CountIsHigh(q)'
      BY <1>3, <3>1, <3>2, <3>6 DEF CountIsHigh
    <3>8. QED
      BY <3>4, <3>5, <3>7
  <2>3. QED
    BY <2>1, <2>2
<1>11. QED
  BY <1>5, <1>7, <1>9, <1>10

\* Who has the database open adds and removes rows; a count is only made too
\* small by a row that is added, and that is noted.
LEMMA UseInv ==
  ASSUME MigrationInv, NEW p \in Procs, UseStep(p) PROVE MigrationInv'
<1> USE DEF MigrationInv
<1>1. CASE InsertRow(p)
  <2> USE <1>1 DEF InsertRow
  <2>1. MigrationTypeOK'
    BY DEF MigrationTypeOK, Opening
  <2>2. AppliedInOrder' /\ MigratedIsSaved'
    BY DEF AppliedInOrder, MigratedIsSaved
  <2>3. ASSUME NEW q \in Procs PROVE Position(q)' /\ Snapshot(q)'
    BY DEF Position, Snapshot, Saved
  <2>4. ASSUME NEW q \in Procs PROVE CountIsHigh(q)'
    BY DEF CountIsHigh, Opening
  <2>5. QED
    BY <2>1, <2>2, <2>3, <2>4
<1>2. CASE PurgeRow(p)
  <2> USE <1>2 DEF PurgeRow, openVars
  <2>1. MigrationTypeOK'
    BY DEF MigrationTypeOK
  <2>2. AppliedInOrder' /\ MigratedIsSaved'
    BY DEF AppliedInOrder, MigratedIsSaved
  <2>3. ASSUME NEW q \in Procs PROVE Position(q)' /\ Snapshot(q)'
    BY DEF Position, Snapshot, Saved
  <2>4. /\ Cardinality(rows) \in Nat /\ Cardinality(rows') \in Nat
        /\ Cardinality(rows') <= Cardinality(rows)
    BY RowsFinite DEF MigrationTypeOK
  <2>5. ASSUME NEW q \in Procs PROVE CountIsHigh(q)'
    <3>1. CountIsHigh(q) /\ preCounts[q] \in Nat
      BY DEF MigrationTypeOK
    <3>2. QED
      BY <2>4, <3>1 DEF CountIsHigh
  <2>6. QED
    BY <2>1, <2>2, <2>3, <2>5
<1>3. QED
  BY <1>1, <1>2 DEF UseStep

LEMMA MigrationStepInv == MigrationInv /\ [MigrationNext]_migrationVars => MigrationInv'
<1> SUFFICES ASSUME MigrationInv, [MigrationNext]_migrationVars PROVE MigrationInv'
  OBVIOUS
<1>1. ASSUME NEW p \in Procs, OpenStep(p) PROVE MigrationInv'
  <2>1. CASE MigrateThrows(p) \/ OpenFails(p)
    BY <2>1, LeaveInv DEF MigrateThrows, OpenFails, OpenPc
  <2>2. QED
    BY <1>1, <2>1, ReadInv, ReadVersionInv, CountInv, BackupInv, LockInv, ProceedInv,
       MigrateInv DEF OpenStep
<1>2. ASSUME NEW p \in Procs, CloseDatabase(p) \/ DatabaseDies(p) PROVE MigrationInv'
  BY <1>2, LeaveInv DEF CloseDatabase, DatabaseDies, OpenPc
<1>3. CASE UNCHANGED migrationVars
  BY <1>3 DEF migrationVars, dbVars, openVars, MigrationInv, MigrationTypeOK, AppliedInOrder,
     MigratedIsSaved, Position, Snapshot, Saved, CountIsHigh
<1>4. QED
  BY <1>1, <1>2, <1>3, UseInv DEF MigrationNext

LEMMA MigrationInductive == MigrationSpec => []MigrationInv
BY MigrationInitInv, MigrationStepInv, PTL DEF MigrationSpec

\* Each migration is committed once and in order by however many processes of
\* whatever versions open the database together, wherever they fail or die.
THEOREM AppliedOnceInOrder == MigrationSpec => []AppliedInOrder
<1>1. MigrationInv => AppliedInOrder
  BY DEF MigrationInv
<1>2. QED
  BY <1>1, MigrationInductive, PTL

\* A process has the database open only when all its migrations are in it.
THEOREM OpenedIsMigrated == MigrationSpec => []OpenIsMigrated
<1>1. MigrationInv => OpenIsMigrated
  BY DEF MigrationInv, Position, OpenIsMigrated
<1>2. QED
  BY <1>1, MigrationInductive, PTL

\* What a migration found in the database is in a snapshot of the version
\* before it.
THEOREM SnapshotBeforeMigration == MigrationSpec => []MigratedIsSaved
<1>1. MigrationInv => MigratedIsSaved
  BY DEF MigrationInv
<1>2. QED
  BY <1>1, MigrationInductive, PTL

\* Only Migrate commits.
LEMMA CommitIsMigrate ==
  ASSUME MigrationTypeOK, NEW p \in Procs, NEW q \in Procs, Commits(q),
         OpenStep(p) \/ UseStep(p) \/ CloseDatabase(p) \/ DatabaseDies(p)
  PROVE  Migrate(q)
<1> USE DEF Commits, MigrationTypeOK, MGoto, Leave, Stay
<1>1. mpc'[q] # mpc[q]
  OBVIOUS
<1>2. ~ UseStep(p)
  BY <1>1 DEF UseStep, InsertRow, PurgeRow, openVars
<1>3. ~ CloseDatabase(p) /\ ~ DatabaseDies(p)
  BY DEF CloseDatabase, DatabaseDies
<1>4. OpenStep(p)
  BY <1>2, <1>3
<1>5. p = q
  BY <1>1, <1>4 DEF OpenStep, AssertKnown, Bootstrap, ReadVersion, FirstCount, BackupDatabase,
     Begin, LockedNewer, LockedDone, Recount, Migrate, MigrateThrows, CheckIntegrity,
     OpenDatabase, OpenFails, Proceed
<1>6. ~ LockedNewer(q) /\ ~ LockedDone(q) /\ ~ MigrateThrows(q) /\ ~ OpenFails(q)
  BY DEF LockedNewer, LockedDone, MigrateThrows, OpenFails
<1>7. QED
  BY <1>4, <1>5, <1>6 DEF OpenStep, AssertKnown, Bootstrap, ReadVersion, FirstCount,
     BackupDatabase, Begin, Recount, CheckIntegrity, OpenDatabase

LEMMA LossNoticedStep ==
  MigrationInv /\ [MigrationNext]_migrationVars
    => [\A p \in Procs : KeepsUncontended(p)]_migrationVars
<1> SUFFICES ASSUME MigrationInv, [MigrationNext]_migrationVars, migrationVars' # migrationVars,
                    NEW q \in Procs, Commits(q), ~ grown[q]
             PROVE  rows \subseteq rows'
  BY DEF KeepsUncontended
<1>1. Migrate(q)
  BY CommitIsMigrate DEF MigrationNext, MigrationInv
<1>2. PICK gone \in Removed(at[q]) : NoRowsLost(q, rows \ gone) /\ rows' = rows \ gone
  BY <1>1 DEF Migrate
<1>3. /\ Cardinality(rows) \in Nat /\ Cardinality(rows \ gone) \in Nat
      /\ Cardinality(rows \ gone) <= Cardinality(rows)
      /\ Cardinality(rows \ gone) = Cardinality(rows) => rows \ gone = rows
  BY RowsFinite DEF MigrationInv, MigrationTypeOK
<1>4. Cardinality(rows) <= preCounts[q] /\ preCounts[q] \in Nat
  BY DEF Commits, MigrationInv, CountIsHigh, MigrationTypeOK
<1>5. QED
  BY <1>2, <1>3, <1>4 DEF NoRowsLost

\* Rows that a migration removes undeclared are missed, unless others were
\* inserted between the count and the lock.
THEOREM UndeclaredLossIsNoticed == MigrationSpec => LossIsNoticed
BY MigrationInductive, LossNoticedStep, PTL DEF MigrationSpec, LossIsNoticed

-----------------------------------------------------------------------------

\* A process of Startup is a process of the lease protocol.
THEOREM StartupKeepsLease == StartupSpec => Spec
<1>1. StartupInit => Init
  BY DEF StartupInit
<1>2. [StartupNext]_startupVars => [Next]_vars
  <2>1. ASSUME NEW p \in Procs, StartupStep(p) PROVE [Next]_vars
    BY <2>1 DEF StartupStep, Database, Lease, LeaseEnds, CommandEnds, Dies, Step, Next, leaseVars
  <2>2. QED
    BY <2>1 DEF StartupNext, startupVars, leaseVars
<1>3. QED
  BY <1>1, <1>2, PTL DEF StartupSpec, Spec

\* And it opens the database as Migrations has it.
THEOREM StartupKeepsMigrations == StartupSpec => MigrationSpec
<1>1. StartupInit => MigrationInit
  BY DEF StartupInit
<1>2. [StartupNext]_startupVars => [MigrationNext]_migrationVars
  <2>1. ASSUME NEW p \in Procs, StartupStep(p) PROVE [MigrationNext]_migrationVars
    BY <2>1 DEF StartupStep, Database, Lease, LeaseEnds, CommandEnds, Dies, MigrationNext
  <2>2. QED
    BY <2>1 DEF StartupNext, startupVars
<1>3. QED
  BY <1>1, <1>2, PTL DEF StartupSpec, MigrationSpec

\* A process takes part in the lease protocol only with the database open.
LeaseNeedsDatabase == \A p \in Procs : processIsAlive(p) => mpc[p] = "open"

\* What a step does to where the processes are.
LEMMA StepMoves ==
  ASSUME TypeOK, NEW p \in Procs, Step(p)
  PROVE  \A q \in Procs \ {p} : pc'[q] = pc[q]
BY DEF TypeOK, Step, Goto, Start, CreateExclusive, WriteRecord, WriteFails, ReadRecord,
   ProbeOwner, RereadRecord, RemoveStale, Release, RemoveOwn, Crash

LEMMA DatabaseMoves ==
  ASSUME MigrationTypeOK, NEW p \in Procs,
         OpenStep(p) \/ UseStep(p) \/ CloseDatabase(p) \/ DatabaseDies(p)
  PROVE  /\ \A q \in Procs \ {p} : mpc'[q] = mpc[q]
         /\ OpenStep(p) => mpc[p] # "open"
         /\ UseStep(p) => mpc' = mpc
<1> USE DEF MigrationTypeOK, MGoto, Leave, Stay
<1>1. CASE OpenStep(p)
  <2>1. mpc[p] # "open"
    BY <1>1 DEF OpenStep, AssertKnown, Bootstrap, ReadVersion, FirstCount, BackupDatabase,
       Begin, LockedNewer, LockedDone, Recount, Migrate, MigrateThrows, Pending, CheckIntegrity,
       OpenDatabase, OpenFails, Opening
  <2>2. ~ UseStep(p)
    BY <2>1 DEF UseStep, InsertRow, PurgeRow
  <2>3. \A q \in Procs \ {p} : mpc'[q] = mpc[q]
    BY <1>1 DEF OpenStep, AssertKnown, Bootstrap, ReadVersion, FirstCount, BackupDatabase,
       Begin, LockedNewer, LockedDone, Recount, Migrate, MigrateThrows, CheckIntegrity,
       OpenDatabase, OpenFails, Proceed
  <2>4. QED
    BY <2>1, <2>2, <2>3
<1>2. CASE ~ OpenStep(p)
  BY <1>2 DEF UseStep, InsertRow, PurgeRow, openVars, CloseDatabase, DatabaseDies
<1>3. QED
  BY <1>1, <1>2

LEMMA LeaseNeedsDatabaseStep ==
  TypeOK /\ MigrationTypeOK /\ LeaseNeedsDatabase /\ [StartupNext]_startupVars
    => LeaseNeedsDatabase'
<1> SUFFICES ASSUME TypeOK, MigrationTypeOK, LeaseNeedsDatabase, [StartupNext]_startupVars
             PROVE  LeaseNeedsDatabase'
  OBVIOUS
<1> USE DEF LeaseNeedsDatabase, processIsAlive
<1>1. ASSUME NEW p \in Procs, StartupStep(p) PROVE LeaseNeedsDatabase'
  <2>1. CASE Database(p)
    BY <2>1, DatabaseMoves DEF Database, leaseVars, vars
  <2>2. CASE Lease(p)
    BY <2>2, StepMoves DEF Lease, MayServe, migrationVars, openVars
  <2>3. CASE LeaseEnds(p)
    BY <2>3, StepMoves, DatabaseMoves DEF LeaseEnds
  <2>4. CASE CommandEnds(p)
    BY <2>4, DatabaseMoves DEF CommandEnds, leaseVars, vars
  <2>5. CASE Dies(p)
    <3>1. \A q \in Procs \ {p} : mpc'[q] = mpc[q]
      BY <2>5, DatabaseMoves DEF Dies
    <3>2. CASE Crash(p)
      BY <3>1, <3>2 DEF Crash, Goto, TypeOK
    <3>3. CASE ~ processIsAlive(p) /\ UNCHANGED leaseVars
      BY <3>1, <3>3 DEF leaseVars, vars
    <3>4. QED
      BY <2>5, <3>2, <3>3 DEF Dies
  <2>6. QED
    BY <1>1, <2>1, <2>2, <2>3, <2>4, <2>5 DEF StartupStep
<1>2. CASE UNCHANGED startupVars
  BY <1>2 DEF startupVars, leaseVars, vars, migrationVars, openVars
<1>3. QED
  BY <1>1, <1>2 DEF StartupNext

\* Every file operation and every statement leaves every variable in its domain.
THEOREM StartupTypeCorrect == StartupSpec => []StartupTypeOK
<1>1. Spec => []TypeOK
  BY InitType, TypeStep, PTL DEF Spec
<1>2. MigrationInv => MigrationTypeOK
  BY DEF MigrationInv
<1>3. TypeOK /\ MigrationTypeOK => StartupTypeOK
  BY DEF StartupTypeOK
<1>4. QED
  BY <1>1, <1>2, <1>3, StartupKeepsLease, StartupKeepsMigrations, MigrationInductive, PTL

\* The daemon with the lease works on a schema that has all it needs.
THEOREM DaemonHasItsSchema == StartupSpec => []DaemonIsMigrated
<1>1. StartupInit => LeaseNeedsDatabase
  BY DEF StartupInit, Init, LeaseNeedsDatabase, processIsAlive
<1>2. StartupTypeOK => TypeOK /\ MigrationTypeOK
  BY DEF StartupTypeOK
<1>3. StartupSpec => []LeaseNeedsDatabase
  BY <1>1, <1>2, LeaseNeedsDatabaseStep, StartupTypeCorrect, PTL DEF StartupSpec
<1>4. LeaseNeedsDatabase /\ OpenIsMigrated => DaemonIsMigrated
  BY DEF LeaseNeedsDatabase, OpenIsMigrated, DaemonIsMigrated, processIsAlive
<1>5. QED
  BY <1>3, <1>4, OpenedIsMigrated, StartupKeepsMigrations, PTL
=============================================================================
