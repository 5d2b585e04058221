SPECIFICATION Spec
CONSTANTS
  None = None
  Null = Null
  Nil = Nil
  NaN = NaN
  Unrepresentable = Unrepresentable
  Alphabet <- MCAlphabet
  ToLower <- MCToLower
  NotPlain <- MCNotPlain
  ServerErrors = {"P0001"}
  Strays <- MCStrays
  NewLabel = "zz"
  Scenes <- MCRivalScenes
INVARIANT
  DeclaredRelationshipsConnect
CHECK_DEADLOCK FALSE
