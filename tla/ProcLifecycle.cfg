CONSTANTS
  NPROC = 3
  CPUs = {c1, c2}
  NoCPU = NoCPU
  MaxPid = 4
  Calls = {"fork", "exit", "wait"}
  Targets = {}
  Harts = {0, 1}
  Threads = {t1, t2}
  Scheduler = Scheduler
  MaxHeld = 2
  Pcs = 2
  Users = {u0, u1}
  User0 = u0
  NoOne = none
  NFILE = 3
  NOFILE = 2
  MaxOff = 1
SPECIFICATION PfSpec
INVARIANTS
  TypeOK
  StackExclusive
  NoLostWakeup
  NoDanglingParent
  TrapStateRight
  FilesCounted
SYMMETRY CPUSymmetry
