CONSTANTS
  n1 = n1
  n2 = n2
  p1 = p1
  k1 = k1
  k2 = k2
  one = one
  two = two
  both = both
  bare = bare
  NoDoc = NoDoc
  Names = {n1, n2}
  Ids = {1}
  Paths = {p1}
  Keys = {k1}
  Docs = {one}
  Unstorable = {}
  Values <- MCValues
  QueryActs = {"upsert"}
  IndexModes = {FALSE}
  ResultFails = TRUE
  EngineFails = TRUE
  Tolerated = {"abandoned", "ddl", "discarded", "leaked", "torn", "repeated"}
  MaxPending = 1
  MaxDBID = 3
  MaxCount = 1
SPECIFICATION Spec
SYMMETRY NameSymmetry
VIEW ProgramState
INVARIANT TypeOK
INVARIANT CollectionsDisjoint
