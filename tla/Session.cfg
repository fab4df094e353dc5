\* Three clients and two slots, which are used again and again.
SPECIFICATION Spec
CONSTANTS
    c1 = c1
    c2 = c2
    c3 = c3
    Clients = {c1, c2, c3}
    NoClient = NoClient
    MaxClients = 2
    root = root
    sub = sub
    Root = root
    Places = {root, sub}
    Names = {"anonymous", "somebody", ""}
INVARIANTS
    TypeOK
    UserKnown
    FreshUntilLogin
PROPERTIES
    KeepsAccess
SYMMETRY SessionSymmetry
