SPECIFICATION Spec
CONSTANTS
  Unnamed = Unnamed
  NewColumn = NewColumn
  PrimaryName = "PRIMARY"
  Tables <- MCTables
  Columns <- MCColumns
  GoNames <- MCGoNames
  Defs <- MCDefs
  IndexNames <- MCIndexNames
  DefaultIndex <- MCDefaultIndex
  Rank <- MCRank
  Camel <- MCCamel
  Snake <- MCSnake
  AsColumn <- MCAsColumn
  Histories <- MCIndexHistories
  Procs = {p1}
  MaxFaults = 0
INVARIANTS
  SyncIsIdempotent
