CONSTANTS
  NPROC = 2
  CPUs = {c1, c2}
  NoCPU = NoCPU
  MaxPid = 3
  Calls = {"fork", "exit", "wait", "kill", "freeze", "unfreeze", "fault"}
  Targets = {0, 1, 2, 3}
SPECIFICATION Spec
INVARIANTS
  SchedLocks
  PidUnique
PROPERTIES
  FrozenPreserved
  ImplementsLife
SYMMETRY CPUSymmetry
