SPECIFICATION FairSpec
CONSTANTS
    tab = tab
    pri = pri
    None = None
    Names <- MCNames
    SpaceNos <- MCSpaceNos
    IndexNos <- MCIndexNos
    Spaces <- MCSpaces
    Indexes <- MCIndexes
    SpaceArgs <- MCSpaceArgs
    IndexArgs <- MCIndexArgs
    Passwords <- MCAnyPassword
    RetryCount = 2
    SyncWidth = 100
    MaxSync = 2
PROPERTIES CallReturns ComesNearer Promise
CHECK_DEADLOCK FALSE
