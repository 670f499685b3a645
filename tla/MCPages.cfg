SPECIFICATION Spec
CONSTANTS
    Null = Null
    Members = {1, 2}
    Ids = {1, 2}
    Names = {1}
    Requests <- MCRequests
    DefaultLimit = 1
    MaxLimit = 2
    MaxPages = 3
    MaxWrites = 1
    InitialRows <- MCInitialRows
INVARIANTS TypeOK SeenOnce TotalAgrees
PROPERTY PageIsSlice
CHECK_DEADLOCK FALSE
