SPECIFICATION Spec
CONSTANTS
  None = None
  Alphabet <- MCAlphabet
  Families <- MCReleased
  Foreign <- MCForeign
INVARIANT
  ForeignUntouched
CHECK_DEADLOCK FALSE
