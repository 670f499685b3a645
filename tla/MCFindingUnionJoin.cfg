SPECIFICATION Spec
CONSTANTS
    Null = Null
    Members = {1, 2}
    Ids = {1, 2}
    Names = {1}
    Requests <- JoiningRequests
    DefaultLimit = 1
    MaxLimit = 2
    MaxPages = 1
    MaxWrites = 0
    InitialRows <- MCInitialRows
INVARIANTS JoinIsRead
CHECK_DEADLOCK FALSE
