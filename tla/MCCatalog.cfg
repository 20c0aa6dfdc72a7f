CONSTANTS
  n1 = n1
  n2 = n2
  p1 = p1
  k1 = k1
  k2 = k2
  one = one
  two = two
  both = both
  bare = bare
  NoDoc = NoDoc
  Names = {n1, n2}
  Ids = {1}
  Paths = {p1}
  Keys = {k1}
  Docs = {one}
  Unstorable = {}
  Values <- MCValues
  QueryActs = {}
  IndexModes = {FALSE}
  ResultFails = TRUE
  EngineFails = FALSE
  Tolerated = {"ddl", "discarded", "leaked"}
  MaxPending = 1
  MaxDBID = 4
  MaxCount = 1
SPECIFICATION Spec
SYMMETRY NameSymmetry
INVARIANT IndexIdsDistinct
INVARIANT PutsHaveCollections
INVARIANT IdsBelowNext
INVARIANT ReopenLosesNothing
