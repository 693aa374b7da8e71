CONSTANTS
    UintSteps <- MCUintSteps
    IntSteps <- MCIntSteps
    StrSteps <- MCStrSteps
    SeqSteps <- MCSeqSteps
    LongMax = 4095
    Numeric <- MCNumeric
    Word = 1024
    SpaceNos <- MCSpaceNos
    IndexNos <- MCIndexNos
    LookupLimit = 512
    Logins <- MCLogins
    Upper <- MCUpper
    Calls <- MCNegativeCalls
    Syncs <- MCSyncs
    Answers <- MCPlainAnswers
    SchemaId = 300
    ErrorBit = 512
    Fails = {}
    MaxWaiting = 0
    Depth <- MCNegativeDepth
    Written <- Write

SPECIFICATION Spec

INVARIANT ValuesKept
