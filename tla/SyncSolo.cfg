SPECIFICATION FairSpec
CONSTANTS
  Unnamed = Unnamed
  NewColumn = NewColumn
  PrimaryName = "PRIMARY"
  Tables <- MCTables
  Columns <- MCColumns
  GoNames <- MCGoNames
  Defs <- MCDefs
  IndexNames <- MCIndexNames
  DefaultIndex <- MCDefaultIndex
  Rank <- MCRank
  Camel <- MCCamel
  Snake <- MCSnake
  AsColumn <- MCAsColumn
  Histories <- MCHistories
  Procs = {p1}
  MaxFaults = 1
INVARIANTS
  TypeOK
  SuccessMeansMatch
  DeclaredDataKept
  OtherTablesUntouched
PROPERTIES
  MatchIsStable
  Converges
