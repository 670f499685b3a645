SPECIFICATION Spec
CONSTANTS
  Histories <- KindChanged
  MaxFaults = 0
  MaxWrites = 0
INVARIANT ReachesDefinition
CHECK_DEADLOCK FALSE
