\* More clients than slots, clients that disappear, one that sends lines two at once
\* and in pieces: the buffer, the end of the process, and the abstract service.
SPECIFICATION Spec
CONSTANTS
    Clients = {c1, c2, c3}
    NoClient = NoClient
    MaxClients = 2
    Descriptors = 3
    Talkers = {c1}
    Kinds = {"plain", "quit", "odd"}
    MaxLines = 2
    Window = 2
    Fragments = TRUE
    Losses = TRUE
    c1 = c1
    c2 = c2
    c3 = c3
SYMMETRY ClientSymmetry
INVARIANTS
    StrandBound
    BlocksOnlyOnPartialLine
PROPERTIES
    EndsForAReason
    NoSilentClose
    KeepsPromise
