CONSTANTS
  t1 = t1
  w1 = w1
  w2 = w2
  NoWorker = NoWorker
  NoStep = NoStep
  NoTask = NoTask
  Tasks = {t1}
  Workers = {w1, w2}
  DaemonWorkers = {w1, w2}
  Text <- CodexText
  Reviewed = {t1}
  Verified = {t1}
  Steps <- MCSteps
  StepTask <- MCStepTask
  StepAgent <- MCStepAgent
  StepSequence <- MCStepSequence
  StepRequired <- MCStepRequired
  NeedsVerifier <- MCNeedsVerifier
  ParallelTasks <- MCParallelTasks
  NeedsReview <- MCNeedsReview
  Priority <- MCPriority
  MaxRuns = 2
  MaxReviews = 2
  MaxRequeues = 1
  MaxFaults = 1
  MaxStalls = 1
SPECIFICATION Spec
INVARIANTS
  EvidenceInOrder
  SuccessHasEvidence
  SuccessIsQuiet
  ClaimIffRunning
PROPERTIES
  SettledRunsStay
  DecisionIsFinal
  TransitionsObeyed
SYMMETRY Symmetry
CHECK_DEADLOCK FALSE
