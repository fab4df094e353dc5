\* A client that asks for a transfer and never opens the data connection.
SPECIFICATION ServerFairSpec
CONSTANTS
    Clients = {c1, c2}
    NoClient = NoClient
    MaxClients = 2
    Descriptors = 2
    Talkers = {c1, c2}
    Kinds = {"plain", "quit", "xfer"}
    MaxLines = 1
    Window = 1
    Fragments = FALSE
    Losses = FALSE
    c1 = c1
    c2 = c2
PROPERTIES
    QueuedAccepted
