SPECIFICATION Spec
CONSTANTS
    Clients = {c1, c2}
    NoClient = NoClient
    Ports = {p1, p2}
    NoPort = NoPort
    c1 = c1
    c2 = c2
    p1 = p1
    p2 = p2
    MaxForks = 2
    MaxCommands = 3
    Commands = {"PASV", "LIST", "RETR", "STOR", "QUIT"}
    Patient = {c1, c2}
    Aborts = TRUE
    Losses = {c1, c2}
INVARIANTS
    TypeOK
    RepliesInOrder
    DataHeldByItsTransfer
    
SYMMETRY ChannelSymmetry
CHECK_DEADLOCK FALSE
