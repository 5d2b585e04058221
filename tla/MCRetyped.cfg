SPECIFICATION Spec
CONSTANTS
  None = None
  Alphabet <- MCAlphabet
  Families <- MCRetyped
  Foreign <- MCForeign
INVARIANT
  FoldReadsBack
CHECK_DEADLOCK FALSE
