--------------------------- MODULE TaskLifecycle ---------------------------
(***************************************************************************)
(* What the control center promises about a task, without workers' steps,   *)
(* fibers or recovery: a task is worked on by one owner, is completed only  *)
(* from a running state in which its required steps are earned, and is      *)
(* closed by the decision on the one review that its completion opened.     *)
(***************************************************************************)
CONSTANTS Tasks, Workers, NoWorker, NeedsReview, Reviews

VARIABLES
  status,   \* of each task
  owner,    \* the worker that holds it
  earned,   \* whether every required step has a succeeded run
  open      \* its undecided reviews

vars == << status, owner, earned, open >>

Init ==
  /\ status = [t \in Tasks |-> "absent"]
  /\ owner = [t \in Tasks |-> NoWorker]
  /\ earned = [t \in Tasks |-> FALSE]
  /\ open = [t \in Tasks |-> {}]

Move(t, from, to, worker) ==
  /\ status[t] = from
  /\ status' = [status EXCEPT ![t] = to]
  /\ owner' = [owner EXCEPT ![t] = worker]

Create(t) == Move(t, "absent", "queued", NoWorker) /\ UNCHANGED << earned, open >>

Claim(t) ==
  /\ \E w \in Workers : Move(t, "queued", "running", w)
  /\ UNCHANGED << earned, open >>

\* The owner works: steps are opened, succeed and fail.
Work(t) ==
  /\ status[t] = "running"
  /\ \E b \in BOOLEAN : earned' = [earned EXCEPT ![t] = b]
  /\ UNCHANGED << status, owner, open >>

Complete(t) ==
  /\ earned[t] /\ ~ NeedsReview[t]
  /\ Move(t, "running", "done", NoWorker)
  /\ UNCHANGED << earned, open >>

Submit(t) ==
  /\ earned[t] /\ NeedsReview[t] /\ open[t] = {}
  /\ Move(t, "running", "needs-review", NoWorker)
  /\ \E v \in Reviews : open' = [open EXCEPT ![t] = {v}]
  /\ UNCHANGED earned

\* The owner of one task gives up, or a recovery ends a number of them at once.
Block(T) ==
  /\ \A t \in T : status[t] = "running"
  /\ status' = [t \in Tasks |-> IF t \in T THEN "blocked" ELSE status[t]]
  /\ owner' = [t \in Tasks |-> IF t \in T THEN NoWorker ELSE owner[t]]
  /\ UNCHANGED << earned, open >>

Approve(t) ==
  /\ open[t] # {}
  /\ Move(t, "needs-review", "done", NoWorker)
  /\ open' = [open EXCEPT ![t] = {}]
  /\ UNCHANGED earned

Rework(t) ==
  /\ open[t] # {}
  /\ Move(t, "needs-review", "queued", NoWorker)
  /\ open' = [open EXCEPT ![t] = {}]
  /\ earned' = [earned EXCEPT ![t] = FALSE]

Retry(t) == Move(t, "blocked", "queued", NoWorker) /\ UNCHANGED << earned, open >>

Next ==
  \/ \E t \in Tasks :
       \/ Create(t) \/ Claim(t) \/ Work(t) \/ Retry(t)
       \/ Complete(t) \/ Submit(t) \/ Approve(t) \/ Rework(t)
  \/ \E T \in SUBSET Tasks : Block(T)

Spec == Init /\ [][Next]_vars
=============================================================================
