SPECIFICATION FairSpec
CONSTANTS
  N = 3
  MaxFaults = 3
INVARIANTS
  RolledBackLeavesSchema
