CONSTANTS
  Hex = 2
  Collections <- MCCollections
  IndexSets <- MCIndexSets
  Queries <- MCQueries
  InFree = 1
  InMost = 3
  InRatio = 1
SPECIFICATION Spec
CHECK_DEADLOCK FALSE
INVARIANT PlansAreExact
INVARIANT OrderIsTheSorters
INVARIANT PathsAgree
