CONSTANTS
  NPROC = 3
  CPUs = {c1}
  NoCPU = NoCPU
  MaxPid = 3
  Calls = {"fork", "wait", "kill"}
  Targets = {2}
  PairNPROC = 2
  PairCalls = {"fork", "exit", "wait", "kill", "freeze", "unfreeze"}
  PairTargets = {2}
  Dozers = {p1, p2}
  CPUids = {0, 1}
  Width = 2
  MaxN = 2
  MaxDelay = 1
  MAXARGS = 3
  Words = {"a", "b"}
  MaxTokens = 4
  Scripts <- PsScripts
  Pids = {1, 2, 3, 4, 5, 6}
  MaxFails = 1
SPECIFICATION PsSpec
INVARIANTS
  SleepExact
  RunsAsWritten
PROPERTIES
  PairRuns
  PairWaitReturns
  KilledExits
  SleepReturns
  LineEnds
