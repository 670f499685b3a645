SPECIFICATION Spec
CONSTANTS
  Histories <- TwoIndexesChanged
  MaxFaults = 0
  MaxWrites = 0
INVARIANT NeverThrows
CHECK_DEADLOCK FALSE
