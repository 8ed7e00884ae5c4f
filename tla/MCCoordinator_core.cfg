CONSTANTS
  t1 = t1
  w1 = w1
  w2 = w2
  NoWorker = NoWorker
  NoStep = NoStep
  NoTask = NoTask
  Tasks = {t1}
  Workers = {w1, w2}
  DaemonWorkers = {}
  Text <- RiskyText
  Reviewed = {}
  Verified = {t1}
  Steps <- MCSteps
  StepTask <- MCStepTask
  StepAgent <- MCStepAgent
  StepSequence <- MCStepSequence
  StepRequired <- MCStepRequired
  NeedsVerifier <- MCNeedsVerifier
  ParallelTasks <- MCParallelTasks
  NeedsReview <- MCNeedsReview
  Priority <- MCPriority
  MaxRuns = 6
  MaxReviews = 2
  MaxRequeues = 1
  MaxFaults = 0
  MaxStalls = 0
SPECIFICATION Spec
INVARIANTS
  TypeOK
  ExecutionIsOwned
  CompletionIsEarned
  ReviewMatchesTask
  WorktreeExclusive
PROPERTIES
  ImplementsLifecycle
SYMMETRY Symmetry
CHECK_DEADLOCK FALSE
