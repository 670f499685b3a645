SPECIFICATION FairSpec
CONSTANTS
  Histories <- ColumnHistories
  MaxFaults = 2
  MaxWrites = 1
INVARIANTS
  ReachesDefinition
  PlansRun
PROPERTIES
  NothingLeft
  DataKept
  Converges
CHECK_DEADLOCK FALSE
