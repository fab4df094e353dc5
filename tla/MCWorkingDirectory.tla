------------------------- MODULE MCWorkingDirectory -------------------------
(* A small tree: above/root/sub/sub, and beside root a directory whose name  *)
(* begins like root's.  "sub" is a directory in root and one in root/sub;    *)
(* "file" is a regular file in root only.                                    *)
EXTENDS WorkingDirectory, TLC

CONSTANTS above, root, sub, deep, beside

TreePaths == {".", "..", "sub", "file", "/root/sub", "/above", "/root2"}

Up == above :> above @@ root :> above @@ sub :> root @@ deep :> sub @@ beside :> above

TreeLookup ==
    [d \in {above, root, sub, deep, beside} |->
        [p \in TreePaths |->
            CASE p = "."         -> d
              [] p = ".."        -> Up[d]
              [] p = "sub"       -> IF d = root THEN sub ELSE IF d = sub THEN deep ELSE Nothing
              [] p = "file"      -> IF d = root THEN File ELSE Nothing
              [] p = "/root/sub" -> sub
              [] p = "/above"    -> above
              [] p = "/root2"    -> beside]]

\* No action reads did: states that differ in it alone have the same successors.
ButOutcome == <<alive, cwd, wd, gone, kids>>

DirSymmetry == Permutations(Clients)

=============================================================================
