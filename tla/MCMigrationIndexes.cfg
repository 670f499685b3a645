SPECIFICATION FairSpec
CONSTANTS
  Histories <- ThreeReleases
  MaxFaults = 1
  MaxWrites = 1
INVARIANTS
  TypeOK
  ReachesDefinition
  PlansRun
  NoGap
PROPERTIES
  NothingLeft
  Converges
CHECK_DEADLOCK FALSE
