------------------------------ MODULE Startup ------------------------------
(***************************************************************************)
(* A process from its start to its end, as the commands of src/src/cli.ts   *)
(* compose it: createRuntime opens the database, where Migrations brings it *)
(* up to date; acc serve then takes the lease of DaemonLease and works      *)
(* until it stops, fails or dies, and the other commands do their work and  *)
(* close the database.                                                      *)
(*                                                                          *)
(* The database is opened before the lease is asked for, so any number of   *)
(* processes migrate at once, also below a daemon that holds the lease.     *)
(***************************************************************************)
EXTENDS DaemonLease, Migrations

leaseVars == vars
startupVars == << leaseVars, migrationVars >>

\* Everything stays within its domain.
StartupTypeOK == TypeOK /\ MigrationTypeOK

StartupInit == Init /\ MigrationInit

\* createRuntime, and the database in use by a command or by the daemon.
Database(p) ==
  /\ OpenStep(p) \/ (UseStep(p) /\ pc[p] \in {"off", "held"})
  /\ UNCHANGED leaseVars

\* Slip: a daemon that could not open the database goes on.
MayServe_failed(p) == mpc[p] \in {"open", "failed"}

MayServe(p) == mpc[p] = "open"

\* startControlCenterDaemon, with the runtime that createRuntime has made.
Lease(p) ==
  /\ MayServe(p)
  /\ Step(p) /\ pc'[p] \notin {"exited", "dead"}
  /\ UNCHANGED migrationVars

\* The lease is refused, cannot be written or is released: the runtime is closed.
LeaseEnds(p) ==
  /\ Step(p) /\ pc'[p] = "exited"
  /\ CloseDatabase(p)

\* A command has done its work.
CommandEnds(p) ==
  /\ pc[p] = "off"
  /\ CloseDatabase(p)
  /\ UNCHANGED leaseVars

\* The process dies while it opens the database, or with it.
Dies(p) ==
  /\ DatabaseDies(p)
  /\ IF processIsAlive(p) THEN Crash(p) ELSE UNCHANGED leaseVars

StartupStep(p) == Database(p) \/ Lease(p) \/ LeaseEnds(p) \/ CommandEnds(p) \/ Dies(p)

StartupNext == \E p \in Procs : StartupStep(p)

StartupSpec == StartupInit /\ [][StartupNext]_startupVars

-----------------------------------------------------------------------------

\* The daemon that holds the lease works on a schema that has everything its
\* binary needs, whoever migrated it.
DaemonIsMigrated == \A p \in Procs : pc[p] = "held" => version >= Known[p]
=============================================================================
