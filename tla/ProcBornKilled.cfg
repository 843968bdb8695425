CONSTANTS
  NPROC = 2
  CPUs = {c1, c2}
  NoCPU = NoCPU
  MaxPid = 3
  Calls = {"fork", "kill"}
  Targets = {0}
SPECIFICATION Spec
PROPERTIES
  BornUnkilled
SYMMETRY CPUSymmetry
