SPECIFICATION FairSpec
CONSTANTS
  Rows = {r1, r2, r3}
  Absent = Absent
  Null = Null
  Filled = Filled
  Own = Own
  BatchSize = 2
  Attempts = 2
  MaxWrites = 3
  MaxFaults = 2
PROPERTIES
  FillsNulls
  Ends
CHECK_DEADLOCK FALSE
