CONSTANTS
  r1 = r1
  w1 = w1
  NoProc = NoProc
  Procs = {r1, w1}
  Calls <- MCCalls
  Names = {"a", "b"}
  Ids = {1}
  Steps <- MCSteps
  EngineFails = TRUE
  GoesOn = FALSE
  MaxVersions = 3
  MaxOps = 2
  MaxMutations = 1
SPECIFICATION Spec
INVARIANT TypeOK
INVARIANT SnapshotGets
INVARIANT LockedQueriesAreExact
INVARIANT PromisesKept
PROPERTY PromisedVersionsStay
PROPERTY CallsReturn
