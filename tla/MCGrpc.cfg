CONSTANTS
    Codes = {"OK", "NotFound"}
    LocalCodes = {"Canceled"}
    SizeConfigs <- MCSizeConfigs
    MaxSends = 2
    MaxReplies = 2
SPECIFICATION FairSpec
INVARIANTS
    StatusIsRight
    CountsAgree
    EntryIsRight
PROPERTIES
    FinishedOnce
    CallFinishes
