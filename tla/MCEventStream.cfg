CONSTANTS
  Tasks = {"t1", "t2"}
  Watched = {"t1"}
  After = 0
  PageLimit = 2
  HighWater = 1
  QueueSizes = {0, 1}
  MaxEvents = 3
  MaxBreaks = 1
  MaxBeats = 1
SPECIFICATION FairSpec
INVARIANTS
  TypeOK
  StreamIsExact
PROPERTIES
  EventuallyReceived
CHECK_DEADLOCK FALSE
