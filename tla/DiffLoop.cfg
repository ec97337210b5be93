SPECIFICATION Spec
CONSTANTS
  Unnamed = Unnamed
  PrimaryKeyModifier = TRUE
  Tables <- MCTables
  Columns <- MCColumns
  GoNames <- MCGoNames
  Defs <- MCDefs
  IndexNames <- MCIndexNames
  DefaultIndex <- MCDefaultIndex
  Rank <- MCRank
  Sources <- MCSources
  Schemas <- MCSchemas
INVARIANTS
  TypeOK
  EveryChangeIsDue
  NothingToDo
  PhasesInOrder
  OneStatementPerIndex
  EverythingIsServed
  LoopsComputeDiff
CHECK_DEADLOCK FALSE
