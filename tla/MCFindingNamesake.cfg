SPECIFICATION Spec
CONSTANTS
  Unset = Unset
  BigintMax = 9
  BigintMin <- LeastBigint
  Histories <- Namesake
  MaxFaults = 0
  MaxUses = 0
INVARIANTS
  NeverThrows
CHECK_DEADLOCK FALSE
