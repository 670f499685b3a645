SPECIFICATION Spec
CONSTANTS
    Null = Null
    Members <- MCMembers
    Scopes <- MCScopes
    Ids = {1, 2, 3}
    Orgs = {1, 2}
    Teams = {1, 2}
    Names = {1, 2}
    Requests <- EmptyNotRequests
    Lists <- MCLists
    Given <- MCGiven
    InitialDbs <- MCInitialDbs
    MaxRequests = 2
    MaxWrites = 1
PROPERTY MeansWhere
CHECK_DEADLOCK FALSE
