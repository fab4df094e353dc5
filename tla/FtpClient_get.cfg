\* One get, nothing that fails.
SPECIFICATION FairSpec
CONSTANTS
    Files <- ShortFiles
    Buffer = 1
    MaxLines = 1
    Typing = {"right"}
    Commands = {"get"}
    Signals = FALSE
PROPERTIES
    GetReturns
CHECK_DEADLOCK FALSE
