\* Two sessions over a tree of five directories.
SPECIFICATION Spec
CONSTANTS
    above = above
    root = root
    sub = sub
    deep = deep
    beside = beside
    c1 = c1
    c2 = c2
    Clients = {c1, c2}
    Dirs = {above, root, sub, deep, beside}
    Root = root
    Prefixed = {root, sub, deep, beside}
    Removable = {sub, deep}
    Here = "."
    Back = ".."
    Absolute = {"/root/sub", "/above", "/root2"}
    Paths <- TreePaths
    Lookup <- TreeLookup
    MaxKids = 1
INVARIANTS
    TypeOK
    StaysPrefixed
PROPERTIES
    OwnDirectory
    SurvivesRemoval
VIEW ButOutcome
SYMMETRY DirSymmetry
CHECK_DEADLOCK FALSE
