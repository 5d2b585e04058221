SPECIFICATION Spec
CONSTANTS
  t1 = t1
  t2 = t2
  t3 = t3
  m1 = m1
  m2 = m2
  Tables <- MCTwoTables
  Shape <- MCShapeOfTwo
  Defs <- MCDefs
  Migrators <- MCMigrators
  Empty = Empty
  Foreign = Foreign
  Bare = Bare
  NoDef = NoDef
  NoGraph = NoGraph
  NoOne = NoOne
  NoFile = NoFile
  SwitchTablesOn = TRUE
  MaxEdits = 0
  MaxCrashes = 1
  MaxDowns = 1
INVARIANTS
  TablesHalfStaysOff
