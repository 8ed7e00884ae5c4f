CONSTANTS
  t1 = t1
  w1 = w1
  w2 = w2
  NoWorker = NoWorker
  NoStep = NoStep
  NoTask = NoTask
  Tasks = {t1}
  Workers = {w1, w2}
  DaemonWorkers = {}
  Text <- CodexText
  Reviewed = {t1}
  Verified = {}
  Steps <- MCSteps
  StepTask <- MCStepTask
  StepAgent <- MCStepAgent
  StepSequence <- MCStepSequence
  StepRequired <- MCStepRequired
  NeedsVerifier <- MCNeedsVerifier
  ParallelTasks <- MCParallelTasks
  NeedsReview <- MCNeedsReview
  Priority <- MCPriority
  MaxRuns = 3
  MaxReviews = 2
  MaxRequeues = 2
  MaxFaults = 0
  MaxStalls = 1
SPECIFICATION Spec
INVARIANTS
  ApprovalIsOfLatest
SYMMETRY Symmetry
CHECK_DEADLOCK FALSE
