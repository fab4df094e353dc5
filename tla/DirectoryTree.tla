---------------------------- MODULE DirectoryTree ----------------------------
(***************************************************************************)
(* The part of the host's file system the server works on.  A path is a    *)
(* member of a small set, and Lookup says what it denotes from each        *)
(* directory: a directory, a regular file or nothing.  Directories can be  *)
(* removed, by DELE, and do not come back.                                 *)
(***************************************************************************)
CONSTANTS
    Dirs,       \* directories of the host
    Root,       \* the one given to the server when it was started
    Prefixed,   \* those whose path begins with the text of Root's: Root, what is
                \* below it, and a directory beside it whose name goes on after Root's
    Paths,      \* the paths clients use
    Here,       \* the path "."
    Back,       \* the path ".."
    Absolute,   \* the paths that begin at the top
    Lookup,     \* what each path denotes from each directory
    Removable   \* directories that hold no file

Nothing == "nothing"
File    == "file"

ASSUME TreeAssumption ==
    /\ Nothing \notin Dirs /\ File \notin Dirs
    /\ Root \in Prefixed
    /\ Prefixed \subseteq Dirs
    /\ Here \in Paths /\ Back \in Paths
    /\ Absolute \subseteq Paths
    /\ Here \notin Absolute /\ Back \notin Absolute
    /\ Lookup \in [Dirs -> [Paths -> Dirs \cup {Nothing, File}]]
    /\ \A d, e \in Dirs : \A p \in Absolute : Lookup[d][p] = Lookup[e][p]
    /\ \A d \in Dirs : Lookup[d][Here] = d
    /\ \A d \in Dirs : Lookup[d][Back] \in Dirs
    /\ Removable \subseteq Dirs \ {Root}

\* What p denotes from d, a directory that exists, when those in gone do not.
Target(d, p, gone) ==
    IF Lookup[d][p] \in gone THEN Nothing ELSE Lookup[d][p]

\* The directories right below d.
Below(d) == {e \in Dirs : e # d /\ Lookup[e][Back] = d}

\* rmdir() takes empty directories only.
CanRemove(t, gone) == t \in Removable /\ t \notin gone /\ Below(t) \subseteq gone

=============================================================================
