CONSTANTS
  MaxOperands = 3
  MaxStages = 2
SPECIFICATION Spec
CHECK_DEADLOCK FALSE
INVARIANT PrecedenceIsUsual
INVARIANT CanonicalIsFaithful
INVARIANT StagesCommute
INVARIANT ComparisonsAreRead
