SPECIFICATION Spec
CONSTANTS
  Unset = Unset
  BigintMax = 9
  BigintMin <- LeastBigint
  Histories <- Moved
  MaxFaults = 0
  MaxUses = 0
PROPERTIES
  AddsFitRows
CHECK_DEADLOCK FALSE
