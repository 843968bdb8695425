CONSTANTS
  Callers = {p1}
  NoCaller = none
  NInodes = 4
  Names = {"a", "b"}
  Paths <- NsPaths
  Calls = {"open", "unlink", "chdir"}
  MaxCalls = 3
  Trees <- NsDeepTrees
SPECIFICATION NsSpec
INVARIANTS
  LockedAllocated
CHECK_DEADLOCK FALSE
