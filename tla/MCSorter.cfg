CONSTANTS
  Ids = {1, 2, 3}
  Bytes <- MCBytes
  SortBufferSize = 2
  MaxInt = 7
  Queries <- MCQueries
  CompareValues <- genericCmp
  ScanIndex <- scanIndexCandidateIDs
  Skips = {0, 1, 4}
  Limits <- MCLimits
  Matches = {{1, 2, 3}, {1, 3}}
SPECIFICATION Spec
INVARIANT UniformValuesAreOrdered
INVARIANT IndexGivesTheOrder
INVARIANT MemoryBounded
INVARIANT PanicsOnlyOnOverflow
INVARIANT WindowIsRight
CHECK_DEADLOCK FALSE
