CONSTANTS
  n1 = n1
  n2 = n2
  p1 = p1
  k1 = k1
  k2 = k2
  one = one
  two = two
  both = both
  bare = bare
  NoDoc = NoDoc
  Names = {n1}
  Ids = {1, 2}
  Paths = {p1}
  Keys = {k1, k2}
  Docs = {one, both}
  Unstorable = {}
  Values <- MCValues
  QueryActs = {"del", "apply", "upsert"}
  IndexModes = {FALSE}
  ResultFails = TRUE
  EngineFails = FALSE
  Tolerated = {"ddl", "discarded"}
  MaxPending = 2
  MaxDBID = 3
  MaxCount = 4
SPECIFICATION Spec
PROPERTY CommitPublishesView
