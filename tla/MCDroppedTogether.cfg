SPECIFICATION Spec
CONSTANTS
  None = None
  Alphabet <- MCAlphabet
  Families <- MCDroppedTogether
  Foreign <- MCForeign
INVARIANT
  UpApplies
CHECK_DEADLOCK FALSE
