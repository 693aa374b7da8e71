SPECIFICATION Spec
CONSTANTS
    tab = tab
    pri = pri
    None = None
    Names <- MCNames
    SpaceNos <- MCSpaceNos
    IndexNos <- MCIndexNos
    Spaces <- MCSpaces
    Indexes <- MCIndexes
    SpaceArgs <- MCNamedSpace
    IndexArgs <- MCIndexArgs
    Passwords <- MCAnyPassword
    RetryCount = 1
    SyncWidth = 2
    MaxSync = 3
INVARIANTS TypeOK InSync CacheTruth
PROPERTIES OwnAnswer NotSentAgain
CHECK_DEADLOCK FALSE
