SPECIFICATION Spec
CONSTANTS
  Unnamed = Unnamed
  NewColumn = NewColumn
  PrimaryName = "PRIMARY"
  Tables <- MCTables
  Columns <- MCColumns
  GoNames <- MCGoNames
  Defs <- MCDefs
  IndexNames <- MCIndexNames
  DefaultIndex <- MCDefaultIndex
  Rank <- MCRank
  Camel <- MCCamel
  Snake <- MCSnake
  AsColumn <- MCAsColumn
  Histories <- MCOverlapHistories
  Procs = {p1, p2}
  MaxFaults = 0
INVARIANTS
  AllSucceededMeansMatch
