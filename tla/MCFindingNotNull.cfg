SPECIFICATION Spec
CONSTANTS
  Histories <- NotNullTakenBack
  MaxFaults = 1
  MaxWrites = 0
INVARIANT PlansRun
CHECK_DEADLOCK FALSE
