SPECIFICATION Spec
CONSTANTS
  Histories <- RetypedWithCheck
  MaxFaults = 0
  MaxWrites = 0
INVARIANT PlansRun
CHECK_DEADLOCK FALSE
