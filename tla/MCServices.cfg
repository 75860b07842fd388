CONSTANTS
    Requests <- MCRequests
    Codes <- MCCodes
    MaxInt32 = 2
    MaxRedeliveries = 1
SPECIFICATION FairSpec
INVARIANTS
    AnswerIsRight
PROPERTIES
    NobodyWaits
    PublishedIsHandled
