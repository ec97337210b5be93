SPECIFICATION FairSpec
CONSTANTS
  N = 3
  MaxFaults = 3
INVARIANTS
  TypeOK
  PrefixApplied
  CommittedMeansDone
  ClosedAfterRun
  NoClosedClientUsed
PROPERTIES
  ImplementsMigration
  MigrationCompletes
