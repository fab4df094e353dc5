\* Clients that wait for each reply, may send a line in two pieces and keep
\* their side of the protocol; any of their lines may be one the process does not
\* survive, and the descriptors may run out.
SPECIFICATION FairSpec
CONSTANTS
    Clients = {c1, c2}
    NoClient = NoClient
    MaxClients = 2
    Descriptors = 2
    Talkers = {c1, c2}
    Kinds = {"xfer", "odd"}
    MaxLines = 2
    Window = 1
    Fragments = TRUE
    Losses = FALSE
    c1 = c1
    c2 = c2
INVARIANTS
    TypeOK
    SlotsSound
    NoStaleReadiness
PROPERTIES
    QueuedAccepted
    LineAnswered
    StopHonoured
