SPECIFICATION Spec
CONSTANTS
  Histories <- UniqueRelaxed
  MaxFaults = 1
  MaxWrites = 0
INVARIANT NoGap
CHECK_DEADLOCK FALSE
