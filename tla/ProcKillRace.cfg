CONSTANTS
  NPROC = 2
  CPUs = {c1, c2}
  NoCPU = NoCPU
  MaxPid = 2
  Calls = {"fork", "wait", "kill"}
  Targets = {1}
SPECIFICATION Spec
INVARIANTS
  KilledNotAsleep
SYMMETRY CPUSymmetry
