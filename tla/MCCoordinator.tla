--------------------------- MODULE MCCoordinator ---------------------------
(***************************************************************************)
(* Coordinator instantiated with the plans that Router makes: a .cfg gives  *)
(* each task the text of one of the kinds below, and the plan follows.      *)
(***************************************************************************)
EXTENDS Coordinator, TLC

CONSTANTS
  t1, w1, w2,
  Text,       \* the text of each task
  Reviewed,   \* tasks with handoffRequired
  Verified    \* tasks with a verification command

R == INSTANCE Router

\* A risk-sensitive change: codex, claude, and openclaw if it is available.
RiskyText == [t \in {t1} |-> [agent |-> "auto", urgent |-> FALSE,
                              matches |-> {"RISKY", "CODING", "CHANGE_INTENT"}]]

ParallelText == [t \in {t1} |-> [agent |-> "parallel", urgent |-> FALSE, matches |-> {}]]

CodexText == [t \in {t1} |-> [agent |-> "auto", urgent |-> FALSE, matches |-> {"CODING"}]]

ExternalText == [t \in {t1} |-> [agent |-> "auto", urgent |-> FALSE, matches |-> {"EXTERNAL"}]]

PlanOf(t) == R!routeTask(Text[t])

MCSteps == UNION {{t} \X DOMAIN PlanOf(t).steps : t \in Tasks}

PlanStep(s) == PlanOf(s[1]).steps[s[2]]

MCStepTask == [s \in MCSteps |-> s[1]]
MCStepAgent == [s \in MCSteps |-> PlanStep(s).agent]
MCStepSequence == [s \in MCSteps |-> PlanStep(s).sequence]
MCStepRequired == [s \in MCSteps |-> PlanStep(s).required]
MCNeedsVerifier == [s \in MCSteps |-> PlanStep(s).role = "execute" /\ s[1] \in Verified]
MCParallelTasks == {t \in Tasks : PlanOf(t).mode = "parallel"}
MCNeedsReview == [t \in Tasks |-> t \in Reviewed \/ PlanOf(t).risk = "high"]
Symmetry == Permutations(Workers)

MCPriority == [t \in Tasks |-> 2]
=============================================================================
