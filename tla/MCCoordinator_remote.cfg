CONSTANTS
  t1 = t1
  w1 = w1
  w2 = w2
  NoWorker = NoWorker
  NoStep = NoStep
  NoTask = NoTask
  Tasks = {t1}
  Workers = {w1, w2}
  DaemonWorkers = {w1, w2}
  Text <- ExternalText
  Reviewed = {}
  Verified = {}
  Steps <- MCSteps
  StepTask <- MCStepTask
  StepAgent <- MCStepAgent
  StepSequence <- MCStepSequence
  StepRequired <- MCStepRequired
  NeedsVerifier <- MCNeedsVerifier
  ParallelTasks <- MCParallelTasks
  NeedsReview <- MCNeedsReview
  Priority <- MCPriority
  MaxRuns = 2
  MaxReviews = 2
  MaxRequeues = 1
  MaxFaults = 0
  MaxStalls = 0
SPECIFICATION Spec
INVARIANTS
  CutOffRemoteDeniesRetry
SYMMETRY Symmetry
CHECK_DEADLOCK FALSE
