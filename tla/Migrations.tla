----------------------------- MODULE Migrations -----------------------------
(***************************************************************************)
(* Processes of different versions of the program open one database: init   *)
(* and assertKnownSchemaVersion of src/src/db.ts, runMigrations of          *)
(* src/src/migrations/runner.ts with the migrations next to it.             *)
(*                                                                          *)
(* One action per statement that reads or writes the database.  The content *)
(* is a set of rows of one table; a process that has opened the database    *)
(* inserts and purges rows.  A transaction writes when it commits, since    *)
(* SQLite shows nothing of it before; what one reads under the write lock   *)
(* it reads in the step that uses it.                                       *)
(***************************************************************************)
EXTENDS Naturals, Sequences, FiniteSets, Processes

CONSTANTS
  Known,      \* the newest migration in the binary of each process
  Rows,       \* rows there can be
  Lossy       \* migrations that remove rows without declaring it

ASSUME KnownAssumption ==
  /\ Known \in [Procs -> Nat \ {0}]
  /\ Lossy \subseteq Nat
  /\ IsFiniteSet(Rows)

VARIABLES
  version,    \* user_version
  tables,     \* the baseline tables are there
  rows,       \* what the table holds
  applied,    \* the migrations that were committed, with the rows counted before
  backups,    \* the files in backups/
  lock,       \* who holds the write lock
  mpc,        \* where a process is
  at,         \* the migration it is at
  preCounts,  \* rows it counted
  grown       \* history: rows were inserted since it counted

dbVars == << version, tables, rows, applied >>
openVars == << mpc, at, preCounts, grown >>
migrationVars == << dbVars, backups, lock, openVars >>

OpenPc == {"new", "bootstrap", "read", "count", "backup", "begin", "locked", "recount",
           "integrity", "opening", "open", "closed", "failed", "dead"}

Backup == [before : Nat, version : Nat, rows : SUBSET Rows]

\* Everything stays within its domain, and no process looks for a migration
\* after the last one its binary knows.
MigrationTypeOK ==
  /\ version \in Nat
  /\ tables \in BOOLEAN
  /\ rows \in SUBSET Rows
  /\ applied \in Seq([version : Nat, counted : Nat])
  /\ backups \in SUBSET Backup
  /\ lock \in Procs \cup {NoProc}
  /\ mpc \in [Procs -> OpenPc]
  /\ at \in [Procs -> Nat] /\ \A p \in Procs : at[p] <= Known[p]
  /\ preCounts \in [Procs -> Nat]
  /\ grown \in [Procs -> BOOLEAN]

\* A new database, or one from before there were migrations.
MigrationInit ==
  /\ version = 0
  /\ tables \in BOOLEAN
  /\ rows \in SUBSET Rows /\ (~ tables => rows = {})
  /\ applied = << >> /\ backups = {} /\ lock = NoProc
  /\ mpc = [p \in Procs |-> "new"]
  /\ at = [p \in Procs |-> 0]
  /\ preCounts = [p \in Procs |-> 0]
  /\ grown = [p \in Procs |-> FALSE]

MGoto(p, l) == mpc' = [mpc EXCEPT ![p] = l]

\* The process is done with the database, and its variables are gone.
Leave(p, l) ==
  /\ MGoto(p, l)
  /\ lock' = IF lock = p THEN NoProc ELSE lock
  /\ at' = [at EXCEPT ![p] = 0]
  /\ preCounts' = [preCounts EXCEPT ![p] = 0]
  /\ grown' = [grown EXCEPT ![p] = FALSE]

Stay(p, l) == MGoto(p, l) /\ UNCHANGED << lock, at, preCounts, grown >>

Opening(p) == mpc[p] \notin {"new", "open", "closed", "failed", "dead"}

-----------------------------------------------------------------------------

\* assertKnownSchemaVersion
AssertKnown(p) ==
  /\ mpc[p] = "new"
  /\ IF version > Known[p] THEN Leave(p, "failed") ELSE Stay(p, "bootstrap")
  /\ UNCHANGED << dbVars, backups >>

\* CREATE TABLE IF NOT EXISTS, outside of a transaction.
Bootstrap(p) ==
  /\ mpc[p] = "bootstrap" /\ lock = NoProc
  /\ tables' = TRUE
  /\ Stay(p, "read")
  /\ UNCHANGED << version, rows, applied, backups >>

\* runMigrations reads the version again; what is after it is pending.
ReadVersion(p) ==
  /\ mpc[p] = "read"
  /\ \/ version > Known[p] /\ Leave(p, "failed")
     \/ version = Known[p] /\ Leave(p, "opening")
     \/ /\ version < Known[p]
        /\ MGoto(p, "count")
        /\ at' = [at EXCEPT ![p] = version + 1]
        /\ UNCHANGED << lock, preCounts, grown >>
  /\ UNCHANGED << dbVars, backups >>

\* countAllTables
Count(p) ==
  /\ preCounts' = [preCounts EXCEPT ![p] = Cardinality(rows)]
  /\ grown' = [grown EXCEPT ![p] = FALSE]

FirstCount(p) ==
  /\ mpc[p] = "count"
  /\ Count(p)
  /\ MGoto(p, "backup")
  /\ UNCHANGED << dbVars, backups, lock, at >>

\* Slip: one backup for all the pending migrations.
BackupDatabase_once(p) ==
  /\ mpc[p] = "backup"
  /\ backups' = IF preCounts[p] = 0 \/ backups # {} THEN backups
                ELSE backups \cup {[before |-> at[p], version |-> version, rows |-> rows]}
  /\ Stay(p, "begin")
  /\ UNCHANGED dbVars

\* VACUUM INTO, unless nothing was counted.
BackupDatabase(p) ==
  /\ mpc[p] = "backup"
  /\ backups' = IF preCounts[p] = 0 THEN backups
                ELSE backups \cup {[before |-> at[p], version |-> version, rows |-> rows]}
  /\ Stay(p, "begin")
  /\ UNCHANGED dbVars

\* BEGIN IMMEDIATE
Begin(p) ==
  /\ mpc[p] = "begin" /\ lock = NoProc
  /\ lock' = p
  /\ MGoto(p, "locked")
  /\ UNCHANGED << dbVars, backups, at, preCounts, grown >>

\* Slip: no look at the version under the lock.
Pending_unread(p) == mpc[p] = "locked"

\* The migration has not been applied by another process in the meantime.
Pending(p) == mpc[p] = "locked" /\ version < at[p]

\* A newer binary was faster.
LockedNewer(p) ==
  /\ mpc[p] = "locked" /\ version > Known[p]
  /\ Leave(p, "failed")
  /\ UNCHANGED << dbVars, backups >>

\* Slip: another process is at it, so there is nothing left to do.
LockedDone_all(p) ==
  /\ mpc[p] = "locked" /\ version <= Known[p] /\ ~ Pending(p)
  /\ Leave(p, "opening")
  /\ UNCHANGED << dbVars, backups >>

\* Another process has applied the migration: ROLLBACK, and count again.
LockedDone(p) ==
  /\ mpc[p] = "locked" /\ version <= Known[p] /\ ~ Pending(p)
  /\ lock' = NoProc
  /\ MGoto(p, "recount")
  /\ UNCHANGED << dbVars, backups, at, preCounts, grown >>

\* The next migration, if there is one.
Proceed(p, counted) ==
  IF at[p] = Known[p]
  THEN Leave(p, "opening")
  ELSE /\ MGoto(p, "backup")
       /\ at' = [at EXCEPT ![p] = @ + 1]
       /\ UNCHANGED lock
       /\ counted

Recount(p) ==
  /\ mpc[p] = "recount"
  /\ Proceed(p, Count(p))
  /\ UNCHANGED << dbVars, backups >>

\* The rows that up removes.
Removed(v) == IF v \in Lossy THEN SUBSET rows ELSE {{}}

\* Slip: a net gain of rows is not asked for.
NoRowsLost_any(p, kept) == kept \subseteq rows

\* assertNoRowsLost, with nothing declared
NoRowsLost(p, kept) == Cardinality(kept) >= preCounts[p]

\* up, PRAGMA user_version, the count and COMMIT.
Migrate(p) ==
  /\ Pending(p)
  /\ at[p] = 1 => tables
  /\ \E gone \in Removed(at[p]) :
       /\ NoRowsLost(p, rows \ gone)
       /\ rows' = rows \ gone
       /\ preCounts' = [preCounts EXCEPT ![p] = Cardinality(rows \ gone)]
  /\ version' = at[p]
  /\ applied' = Append(applied, [version |-> at[p], counted |-> preCounts[p]])
  /\ lock' = NoProc
  /\ grown' = [grown EXCEPT ![p] = FALSE]
  /\ MGoto(p, "integrity")
  /\ UNCHANGED << tables, backups, at >>

\* up throws, or rows are missing: ROLLBACK.
MigrateThrows(p) ==
  /\ Pending(p)
  /\ Leave(p, "failed")
  /\ UNCHANGED << dbVars, backups >>

\* PRAGMA integrity_check; it may find the file damaged.
CheckIntegrity(p) ==
  /\ mpc[p] = "integrity"
  /\ Proceed(p, UNCHANGED << preCounts, grown >>) \/ Leave(p, "failed")
  /\ UNCHANGED << dbVars, backups >>

\* The connection for transactions is opened.
OpenDatabase(p) ==
  /\ mpc[p] = "opening"
  /\ Stay(p, "open")
  /\ UNCHANGED << dbVars, backups >>

\* A statement fails, or the lock is not free within busy_timeout.
OpenFails(p) ==
  /\ Opening(p) /\ mpc[p] # "locked"
  /\ Leave(p, "failed")
  /\ UNCHANGED << dbVars, backups >>

DatabaseDies(p) ==
  /\ Opening(p) \/ mpc[p] = "open"
  /\ Leave(p, "dead")
  /\ UNCHANGED << dbVars, backups >>

CloseDatabase(p) ==
  /\ mpc[p] = "open"
  /\ Leave(p, "closed")
  /\ UNCHANGED << dbVars, backups >>

\* A transaction of a process that has the database open.
InsertRow(p) ==
  /\ mpc[p] = "open" /\ lock = NoProc
  /\ \E r \in Rows \ rows : rows' = rows \cup {r}
  /\ grown' = [q \in Procs |-> Opening(q)]
  /\ UNCHANGED << version, tables, applied, backups, lock, mpc, at, preCounts >>

\* Old idempotency keys are purged.
PurgeRow(p) ==
  /\ mpc[p] = "open" /\ lock = NoProc
  /\ \E r \in rows : rows' = rows \ {r}
  /\ UNCHANGED << version, tables, applied, backups, lock, openVars >>

OpenStep(p) ==
  \/ AssertKnown(p) \/ Bootstrap(p) \/ ReadVersion(p) \/ FirstCount(p)
  \/ BackupDatabase(p) \/ Begin(p) \/ LockedNewer(p) \/ LockedDone(p) \/ Recount(p)
  \/ Migrate(p) \/ MigrateThrows(p) \/ CheckIntegrity(p) \/ OpenDatabase(p)
  \/ OpenFails(p)

UseStep(p) == InsertRow(p) \/ PurgeRow(p)

MigrationNext ==
  \E p \in Procs : OpenStep(p) \/ UseStep(p) \/ CloseDatabase(p) \/ DatabaseDies(p)

MigrationSpec == MigrationInit /\ [][MigrationNext]_migrationVars

-----------------------------------------------------------------------------

\* Each migration is committed once and in its order, however many processes of
\* whatever versions start at once and wherever they fail or die; user_version
\* says how far they are.
AppliedInOrder ==
  /\ Len(applied) = version
  /\ \A i \in DOMAIN applied : applied[i].version = i

\* A process works on the database only when everything its binary needs is
\* there, also when it left the work to another process that then died.
OpenIsMigrated == \A p \in Procs : mpc[p] \in {"opening", "open"} => version >= Known[p]

\* For each migration that found rows there is a snapshot that was taken before
\* it and after the one before, although the snapshot is taken without the lock.
MigratedIsSaved ==
  \A i \in DOMAIN applied :
    applied[i].counted > 0 => \E b \in backups : b.before = i /\ b.version = i - 1

\* p commits the migration it is at.
Commits(p) == mpc[p] = "locked" /\ mpc'[p] = "integrity"

KeepsUncontended(p) == Commits(p) /\ ~ grown[p] => rows \subseteq rows'

\* A migration that removes rows it has not declared is not committed, unless
\* somebody has inserted rows between the count and the lock.  Rows that
\* somebody removes in between are no reason to let one pass.
LossIsNoticed == [][\A p \in Procs : KeepsUncontended(p)]_migrationVars
=============================================================================
