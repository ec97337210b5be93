SPECIFICATION DumpSpec
CHECK_DEADLOCK FALSE
CONSTANTS
  Buffer = 24
  Sources <- MCSources
  Snake <- MCSnake
  Exported <- MCExported
  Opaque <- MCOpaque
  Databases <- MCDatabases
  SortedNames <- MCSorted
  Camel <- MCCamel
  Identifiers <- MCIdentifiers
  OldFile <- MCOldFile
INVARIANTS
  TypeOK
  HoldsNull
  HoldsIntegers
  DumpedTypeIsStable
  DumpedTypeIsImported
  ReadsBackAsMeant
  ReadBackIsDatabase
  DumpIsRead
  DumpIsWhole
  ResultIsMeant
  FailsOnlyForMarked
PROPERTIES
  Answers
