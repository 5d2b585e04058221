SPECIFICATION Spec
CONSTANTS
  None = None
  Alphabet <- MCAlphabet
  Families <- MCFamilies
  Foreign <- MCForeign
INVARIANTS
  TypeOK
  UpApplies
  DownRestores
  FoldReadsBack
  FoldMirrorsTheTables
  FoldMirrorsTheConstraints
  NothingLeftToDo
  MigratedIsFresh
  ForeignUntouched
CHECK_DEADLOCK FALSE
