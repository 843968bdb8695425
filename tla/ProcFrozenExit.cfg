CONSTANTS
  NPROC = 2
  CPUs = {c1, c2}
  NoCPU = NoCPU
  MaxPid = 2
  Calls = {"fork", "exit", "freeze"}
  Targets = {2}
SPECIFICATION Spec
PROPERTIES
  FrozenDoesNotExit
SYMMETRY CPUSymmetry
