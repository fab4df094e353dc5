SPECIFICATION FairSpec
CONSTANTS
    Clients = {c1, c2}
    NoClient = NoClient
    Ports = {p1, p2}
    NoPort = NoPort
    c1 = c1
    c2 = c2
    p1 = p1
    p2 = p2
    MaxForks = 1
    MaxCommands = 2
    Commands = {"PASV", "PORT", "RETR", "STOR", "QUIT"}
    Patient = {c1}
    Aborts = TRUE
    Losses = {c2}
PROPERTIES
    EndOfData
    QuitEnds
    CommandAnswered
CHECK_DEADLOCK FALSE
