SPECIFICATION Spec
CONSTANTS
    tab = tab
    pri = pri
    None = None
    Names <- MCNames
    SpaceNos <- MCSpaceNos
    IndexNos <- MCIndexNos
    Spaces <- MCSpaces
    Indexes <- MCIndexes
    SpaceArgs <- MCSpaceArgs
    IndexArgs <- MCIndexArgs
    Passwords <- MCGuest
    RetryCount = 1
    SyncWidth = 100
    MaxSync = 3
PROPERTY NamedIndexAccepted
CHECK_DEADLOCK FALSE
