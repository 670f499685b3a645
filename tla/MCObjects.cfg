SPECIFICATION FairSpec
CONSTANTS
  Unset = Unset
  BigintMax = 9
  BigintMin <- LeastBigint
  Histories <- ObjectHistories
  MaxFaults = 1
  MaxUses = 2
INVARIANTS
  PlansRun
  NeverThrows
PROPERTIES
  Deployed
  NothingLost
  AddsFitRows
  Resumes
CHECK_DEADLOCK FALSE
