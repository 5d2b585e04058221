SPECIFICATION Spec
CONSTANTS
  None = None
  Alphabet <- MCAlphabet
  Families <- MCUniqueRenamed
  Foreign <- MCForeign
INVARIANT
  FoldReadsBack
CHECK_DEADLOCK FALSE
