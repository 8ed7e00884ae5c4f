CONSTANTS
  p1 = p1
  p2 = p2
  p3 = p3
  NoProc = NoProc
  Procs = {p1, p2, p3}
  Known <- MCKnown
  Rows = {1}
  Lossy = {2}
  MaxAttempts = 2
SPECIFICATION StartupSpec
INVARIANT
  OneDaemon
SYMMETRY Symmetry
CHECK_DEADLOCK FALSE
