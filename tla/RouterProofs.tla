---------------------------- MODULE RouterProofs ----------------------------
(***************************************************************************)
(* What every plan of routeTask has, for every text and requested agent;    *)
(* the coordinator relies on it.                                            *)
(***************************************************************************)
EXTENDS Router, TLAPS

\* A risk-sensitive change to code that is left to the router or given to codex
\* is executed by codex and afterwards reviewed by another agent, whose failure
\* blocks the task, before a human decides (risk "high").  The exception is a
\* planner-first request, where the other agent comes before codex, not after.
RiskyChangeIsReviewed(task) ==
  /\ Risky(task) /\ {"CODING", "CHANGE_INTENT"} \subseteq task.matches
  /\ task.agent = "codex" \/ (task.agent = "auto" /\ "PLANNER_FIRST" \notin task.matches)
  => LET plan == routeTask(task) IN
     /\ plan.risk = "high"
     /\ \E i, j \in DOMAIN plan.steps :
          /\ plan.steps[i].role = "execute" /\ plan.steps[i].agent = "codex"
          /\ plan.steps[j].role = "review" /\ plan.steps[j].agent # "codex"
          /\ plan.steps[j].required
          /\ plan.steps[i].sequence < plan.steps[j].sequence

\* Two steps share a sequence number, and so run at the same time, exactly in
\* parallel mode, in which no worktree is inherited; and then their agents
\* differ.
ConcurrencyIsDeclared(task) ==
  LET plan == routeTask(task) IN
  \A i, j \in DOMAIN plan.steps :
    i # j =>
      /\ plan.steps[i].sequence = plan.steps[j].sequence <=> plan.mode = "parallel"
      /\ plan.mode = "parallel" => plan.steps[i].agent # plan.steps[j].agent

\* The first step is required, and only an approval may be skipped, so that a
\* task whose agents are all unavailable never completes.
SomethingIsRequired(task) ==
  LET plan == routeTask(task) IN
  /\ 1 \in DOMAIN plan.steps /\ plan.steps[1].required
  /\ \A i \in DOMAIN plan.steps : plan.steps[i].required \/ plan.steps[i].role = "approval"

LEMMA PlanCases ==
  ASSUME NEW task \in TaskText
  PROVE  \/ routeTask(task) = Plan("parallel", Risk(task), << Step(0, "codex", "execute", TRUE),
                                       Step(0, "claude", "execute", TRUE) >>)
            /\ task.agent = "parallel"
         \/ routeTask(task) = Plan("sequential", Risk(task), << Step(0, "claude", "review", TRUE),
                                         Step(1, "codex", "execute", TRUE),
                                         Step(2, "openclaw", "execute", TRUE) >>)
            /\ task.agent = "auto" /\ "PLANNER_FIRST" \in task.matches
         \/ routeTask(task) = Plan("sequential", "high", << Step(0, "codex", "execute", TRUE),
                                     Step(1, "claude", "review", TRUE),
                                     Step(2, "openclaw", "approval", FALSE) >>)
         \/ /\ \E agent, role : routeTask(task) = Single(task, agent, role)
            /\ ~ (/\ Risky(task)
                  /\ {"CODING", "CHANGE_INTENT"} \subseteq task.matches
                  /\ task.agent \in {"auto", "codex"})
BY DEF routeTask

\* routeTask never lets a risky change through without a second agent's review.
THEOREM RiskIsReviewed == \A task \in TaskText : RiskyChangeIsReviewed(task)
<1> SUFFICES ASSUME NEW task \in TaskText PROVE RiskyChangeIsReviewed(task)
  OBVIOUS
<1>1. CASE routeTask(task) = Plan("sequential", "high", << Step(0, "codex", "execute", TRUE),
                                     Step(1, "claude", "review", TRUE),
                                     Step(2, "openclaw", "approval", FALSE) >>)
  BY <1>1 DEF RiskyChangeIsReviewed, Plan, Step
<1>2. QED
  BY <1>1, PlanCases DEF RiskyChangeIsReviewed

\* Plans run two agents at once in parallel mode, and only then.
THEOREM ConcurrencyOnlyInParallel == \A task \in TaskText : ConcurrencyIsDeclared(task)
BY PlanCases DEF ConcurrencyIsDeclared, Plan, Step, Single

\* Every plan has a required step.
THEOREM PlansHaveRequiredSteps == \A task \in TaskText : SomethingIsRequired(task)
BY PlanCases DEF SomethingIsRequired, Plan, Step, Single
=============================================================================
