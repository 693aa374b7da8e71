CONSTANTS
    UintSteps <- MCUintSteps
    IntSteps <- MCIntSteps
    StrSteps <- MCStrSteps
    SeqSteps <- MCSeqSteps
    LongMax = 4095
    Numeric <- MCNumeric
    Word = 1024
    SpaceNos <- MCSpaceNos
    IndexNos <- MCIndexNos
    LookupLimit = 512
    Logins <- MCLogins
    Upper <- MCUpper
    Calls <- MCCalls
    Syncs <- MCSyncs
    Answers <- MCAnswers
    SchemaId = 300
    ErrorBit = 512
    Fails <- MCFails
    MaxWaiting = 3
    Depth <- MCDepth
    Written <- Write

SPECIFICATION Spec

INVARIANTS TypeOK AnnouncedSize AnswerShown ParsersAgree
PROPERTY IsMessages
