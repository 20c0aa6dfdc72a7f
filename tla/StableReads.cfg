CONSTANTS
  r1 = r1
  w1 = w1
  NoProc = NoProc
  Procs = {r1, w1}
  Calls <- MCCalls
  Names = {"a", "b"}
  Ids = {1}
  Steps <- MCSteps
  EngineFails = FALSE
  GoesOn = FALSE
  MaxVersions = 3
  MaxOps = 2
  MaxMutations = 2
SPECIFICATION Spec
INVARIANT StableReads
