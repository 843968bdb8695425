CONSTANTS
  Procs = {p1, p2, p3}
  Blocks = {b1, b2, b3}
  Vals = {0}
  LOGSIZE = 3
  MAXOPBLOCKS = 1
  nlog = 3
  MaxOps = 3
  MaxCrashes = 0
SPECIFICATION Spec
INVARIANT ReservationHolds
