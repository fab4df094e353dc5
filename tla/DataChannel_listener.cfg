SPECIFICATION Spec
CONSTANTS
    Clients = {c1}
    NoClient = NoClient
    Ports = {p1, p2}
    NoPort = NoPort
    c1 = c1
    p1 = p1
    p2 = p2
    MaxForks = 2
    MaxCommands = 2
    Commands = {"PASV", "LIST"}
    Patient = {c1}
    Aborts = FALSE
    Losses = {}
INVARIANTS
    NoListenerLeft
CHECK_DEADLOCK FALSE
