CONSTANTS
  o1 = o1
  o2 = o2
  NoOffer = NoOffer
  Local = Local
  Offers = {o1}
  MaxEvents = 4
  MaxBuffered = 1
  MaxBatch = 2
  MaxUnacked = 1
  MaxCrashes = 1
  MaxQueued = 2
SPECIFICATION LaterSpec
INVARIANTS
  AckedIsIngested
  EventsAccounted
  ProtectedAreKept
  AnswersAreStable
  OfferRunsOnce
  CompletionIsOwn
CHECK_DEADLOCK FALSE
