CONSTANTS
  o1 = o1
  o2 = o2
  NoOffer = NoOffer
  Local = Local
  Offers = {o1, o2}
  MaxEvents = 3
  MaxBuffered = 3
  MaxBatch = 2
  MaxUnacked = 1
  MaxCrashes = 1
  MaxQueued = 2
SPECIFICATION Spec
INVARIANT
  AcceptedIsKept
SYMMETRY Symmetry
CHECK_DEADLOCK FALSE
