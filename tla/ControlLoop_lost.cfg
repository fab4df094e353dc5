\* One client that disappears while the server goes on.
SPECIFICATION FairSpec
CONSTANTS
    Clients = {c1}
    NoClient = NoClient
    MaxClients = 1
    Descriptors = 1
    Talkers = {c1}
    Kinds = {"plain", "quit", "xfer"}
    MaxLines = 1
    Window = 1
    Fragments = FALSE
    Losses = TRUE
    c1 = c1
PROPERTIES
    LostConnectionReleased
