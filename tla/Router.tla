------------------------------- MODULE Router -------------------------------
(***************************************************************************)
(* routeTask: which agents work on a task, in which roles and in which      *)
(* order.  The regular expressions that classify the goal's text are        *)
(* abstracted to one Boolean each: a task is the agent it asks for, its     *)
(* urgency and the set of patterns its text matches.                        *)
(* Source: src/src/router.ts.                                              *)
(***************************************************************************)
EXTENDS Naturals, Sequences, FiniteSets

AgentKind == {"codex", "claude", "openclaw"}

RequestedAgent == AgentKind \cup {"auto", "parallel"}

Patterns == {"RISKY", "CODING", "CHANGE_INTENT", "EXTERNAL", "ARCHITECTURE",
             "PLANNER_FIRST"}

TaskText == [agent : RequestedAgent, urgent : BOOLEAN, matches : SUBSET Patterns]

Step(sequence, agent, role, required) ==
  [sequence |-> sequence, agent |-> agent, role |-> role, required |-> required]

Plan(mode, risk, steps) == [mode |-> mode, risk |-> risk, steps |-> steps]

Risky(task) == task.urgent \/ "RISKY" \in task.matches

Risk(task) == IF Risky(task) THEN "high" ELSE "normal"

Single(task, agent, role) ==
  Plan("single", Risk(task), << Step(0, agent, role, TRUE) >>)

\* The chain of early returns of routeTask, in its order.
routeTask(task) ==
  IF task.agent = "parallel"
  THEN Plan("parallel", Risk(task), << Step(0, "codex", "execute", TRUE),
                                       Step(0, "claude", "execute", TRUE) >>)
  ELSE IF task.agent = "auto" /\ "PLANNER_FIRST" \in task.matches
  THEN Plan("sequential", Risk(task), << Step(0, "claude", "review", TRUE),
                                         Step(1, "codex", "execute", TRUE),
                                         Step(2, "openclaw", "execute", TRUE) >>)
  ELSE IF /\ Risky(task)
          /\ {"CODING", "CHANGE_INTENT"} \subseteq task.matches
          /\ task.agent \in {"auto", "codex"}
  THEN Plan("sequential", "high", << Step(0, "codex", "execute", TRUE),
                                     Step(1, "claude", "review", TRUE),
                                     Step(2, "openclaw", "approval", FALSE) >>)
  ELSE IF task.agent # "auto" THEN Single(task, task.agent, "execute")
  ELSE IF "EXTERNAL" \in task.matches THEN Single(task, "openclaw", "execute")
  ELSE IF /\ "ARCHITECTURE" \in task.matches
          /\ "CHANGE_INTENT" \notin task.matches
  THEN Single(task, "claude", "review")
  ELSE Single(task, "codex", "execute")
=============================================================================
