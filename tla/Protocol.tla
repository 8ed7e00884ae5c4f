------------------------------ MODULE Protocol ------------------------------
(***************************************************************************)
(* The statuses of tasks, route steps, runs and reviews, and the two        *)
(* transition tables that the database consults before it writes a status. *)
(* Source: src/src/protocol.ts.                                            *)
(***************************************************************************)

\* "absent" stands for a row that does not exist yet.
TaskStatus == {"queued", "running", "needs-review", "blocked", "done"}

RouteStepStatus == {"pending", "running", "succeeded", "failed", "skipped"}

RunStatus == {"queued", "starting", "running", "succeeded", "failed",
              "stopped", "stale"}

ReviewStatus == {"pending", "approved", "rework_requested"}

TASK_TRANSITIONS ==
  [ s \in TaskStatus |->
      CASE s = "queued"       -> {"running", "blocked"}
        [] s = "running"      -> {"needs-review", "blocked", "done", "queued"}
        [] s = "needs-review" -> {"done", "queued", "blocked"}
        [] s = "blocked"      -> {"queued", "done"}
        [] s = "done"         -> {"queued"} ]

RUN_TRANSITIONS ==
  [ s \in RunStatus |->
      CASE s = "queued"    -> {"starting", "stopped"}
        [] s = "starting"  -> {"running", "failed", "stopped"}
        [] s = "running"   -> {"succeeded", "failed", "stopped", "stale"}
        [] s = "succeeded" -> {}
        [] s = "failed"    -> {"queued"}
        [] s = "stopped"   -> {"queued"}
        [] s = "stale"     -> {"queued", "failed"} ]

\* assertTaskTransition and assertRunTransition throw when these are false;
\* a write that leaves the status as it is always passes.
TaskTransitionAllowed(from, to) == from = to \/ to \in TASK_TRANSITIONS[from]

RunTransitionAllowed(from, to) == from = to \/ to \in RUN_TRANSITIONS[from]
=============================================================================
