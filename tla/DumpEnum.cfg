SPECIFICATION DumpSpec
CHECK_DEADLOCK FALSE
CONSTANTS
  Buffer = 24
  Sources <- NoSources
  Snake <- MCSnake
  Exported <- MCExported
  Opaque <- MCOpaque
  Databases <- EnumDatabases
  SortedNames <- MCSorted
  Camel <- MCCamel
  Identifiers <- MCIdentifiers
  OldFile <- MCOldFile
PROPERTIES
  Answers
