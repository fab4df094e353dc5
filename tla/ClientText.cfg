\* Any input and any signal, files shorter and longer than the buffer; lines of up to
\* four characters, arguments of up to seven fields, every port.
SPECIFICATION AllSpec
CONSTANTS
    Files <- ShortFiles
    Buffer = 1
    MaxLines = 3
    Typing = {"right", "wrong", "spaced", "cut"}
    Commands = {"ls", "get", "put", "cd", "pwd", "quit"}
    Signals = TRUE
    MaxLength = 4
    Numbers = {0, 255, 256}
    MaxFields = 7
INVARIANTS
    TypeOK
    RepliesMatched
    KeepsOrder
    SuccessMeansWhole
    ParsesWords
    TokensFit
    PortAims
    PassiveRoundTrip
PROPERTIES
    CommandEnds
CHECK_DEADLOCK FALSE
