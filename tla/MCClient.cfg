SPECIFICATION Spec
CONSTANTS
    Null = Null
    Members <- MCMembers
    Scopes <- MCScopes
    Ids = {1, 2, 3}
    Orgs = {1, 2}
    Teams = {1, 2}
    Names = {1, 2}
    Requests <- MCRequests
    Lists <- MCLists
    Given <- MCGiven
    InitialDbs <- MCInitialDbs
    MaxRequests = 2
    MaxWrites = 1
INVARIANTS TypeOK NamesItsPost ListsIds
PROPERTIES StaysPrivate MeansWhere
CHECK_DEADLOCK FALSE
