----------------------------- MODULE Processes -----------------------------
(* The processes that work on one ACC_HOME: acc serve and the other         *)
(* commands.                                                                *)
CONSTANTS
  Procs,         \* the processes
  NoProc         \* none of them

ASSUME ProcAssumption == NoProc \notin Procs
=============================================================================
