\* One client that gives names and passwords.
SPECIFICATION Spec
CONSTANTS
    c1 = c1
    Clients = {c1}
    NoClient = NoClient
    MaxClients = 1
    root = root
    Root = root
    Places = {root}
    Names = {"anonymous", ""}
PROPERTIES
    PassAsDocumented
