SPECIFICATION Spec
CONSTANTS
  None = None
  Null = Null
  Nil = Nil
  NaN = NaN
  Unrepresentable = Unrepresentable
  Alphabet <- MCAlphabet
  ToLower <- MCToLower
  NotPlain <- MCNotPlain
  ServerErrors = {"P0001"}
  Strays <- MCStrays
  NewLabel = "zz"
  Scenes <- MCScenes
INVARIANTS
  TypeOK
  PositionsKnowTheirTables
  RelationshipsConnect
  PostgresTakesTheGraph
  FreshGraphConforms
  CleanReportMeansConforming
  CheckInv
  AnswerIsRight
  IntrospectionIsExact
  FunctionSeesWhatIsMeant
  AnswerIsWhole
  SqlstatePreserved
CHECK_DEADLOCK FALSE
