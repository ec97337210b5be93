SPECIFICATION FairSpec
CONSTANTS
  Unnamed = Unnamed
  NewColumn = NewColumn
  PrimaryName = "PRIMARY_KEY"
  NoExtra = NoExtra
  Tables <- MCTables
  Columns <- MCColumns
  GoNames <- MCGoNames
  Defs <- MCDefs
  IndexNames <- MCIndexNames
  DefaultIndex <- MCDefaultIndex
  Rank <- MCRank
  Camel <- MCCamel
  Snake <- MCSnake
  AsColumn <- MCAsColumn
  Convertible <- MCConvertible
  Histories <- MCHistories
  MaxFaults = 1
INVARIANTS
  SuccessMeansMatch
  DeclaredDataKept
PROPERTIES
  Converges
