SPECIFICATION Spec
CONSTANTS
  None = None
  Alphabet <- MCAlphabet
  Families <- MCCheckRenamed
  Foreign <- MCForeign
INVARIANT
  DownRestores
CHECK_DEADLOCK FALSE
