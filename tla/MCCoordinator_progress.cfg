CONSTANTS
  t1 = t1
  w1 = w1
  w2 = w2
  NoWorker = NoWorker
  NoStep = NoStep
  NoTask = NoTask
  Tasks = {t1}
  Workers = {w1, w2}
  DaemonWorkers = {}
  Text <- ParallelText
  Reviewed = {}
  Verified = {}
  Steps <- MCSteps
  StepTask <- MCStepTask
  StepAgent <- MCStepAgent
  StepSequence <- MCStepSequence
  StepRequired <- MCStepRequired
  NeedsVerifier <- MCNeedsVerifier
  ParallelTasks <- MCParallelTasks
  NeedsReview <- MCNeedsReview
  Priority <- MCPriority
  MaxRuns = 2
  MaxReviews = 1
  MaxRequeues = 0
  MaxFaults = 0
  MaxStalls = 0
SPECIFICATION FairSpec
PROPERTIES
  ExecutionEnds
  LapsedClaimRecovered
CHECK_DEADLOCK FALSE
