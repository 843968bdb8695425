CONSTANTS
  NPROC = 2
  CPUs = {c1, c2}
  NoCPU = NoCPU
  MaxPid = 3
  Calls = {"fork", "exit", "wait", "freeze"}
  Targets = {2}
SPECIFICATION Spec
PROPERTIES
  BornUnfrozen
SYMMETRY CPUSymmetry
