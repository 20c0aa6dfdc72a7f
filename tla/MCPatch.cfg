CONSTANTS
  MaxInt = 7
  Exact = 4
  Roots <- MCRoots
  Ops <- MCOps
  Merges <- MCMerges
  MaxOps = 3
  MaxSize = 7
  Terms <- MCTerms
  Foreign <- MCForeign
  MaxTerms = 3
SPECIFICATION MCSpec
INVARIANT ProjectionSelects
INVARIANT CopiesStayApart
PROPERTY OpsFollowRFC6902
PROPERTY SwapExchanges
PROPERTY MergeFollowsRFC7386
VIEW ProgramState
