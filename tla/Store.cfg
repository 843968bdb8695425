CONSTANTS
  Procs = {p1, p2}
  Blocks = {b1, b2, b3}
  Vals = {0, 1}
  LOGSIZE = 4
  MAXOPBLOCKS = 2
  nlog = 4
  MaxOps = 3
  MaxCrashes = 2
  Bufs = {k1, k2, k3}
  Blocknos = {b1, b2, b3, b4}
  NoBlock = none
  Clients = {p1, p2}
  NoClient = none
  BufContents = {x1, x2}
SPECIFICATION StSpec
INVARIANTS
  TypeOK
  LogFits
  CacheSound
PROPERTIES
  ImplementsAtomic
SYMMETRY StSymmetry
