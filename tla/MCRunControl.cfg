CONSTANTS
  Handles = {"agent", "verifier"}
  Leader = "leader"
  Procs = {"leader", "child"}
  MayEscape = {"child"}
  Streams = {"stdout"}
  MaxBytes <- MCMaxBytes
  Timed = {"agent", "verifier"}
  Operators = {"o1"}
  Verified = TRUE
SPECIFICATION FairSpec
INVARIANTS
  QuietUnlessFailed
  SuccessIsWhole
  StopOutranksSuccess
  EndedRunIsSettled
PROPERTIES
  EarlyStopPreventsStart
  RunEnds
CHECK_DEADLOCK FALSE
