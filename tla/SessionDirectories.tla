------------------------- MODULE SessionDirectories -------------------------
(***************************************************************************)
(* What a client may expect of directories: its session has one of its     *)
(* own, and paths are resolved from it, whatever other sessions do.  A     *)
(* transfer acts in the directory its session was in when it was asked     *)
(* for.  Paths that are not absolute are Free for STOR, and from a         *)
(* directory that has been removed: they are resolved from wherever the    *)
(* process may be, which is still a Prefixed directory.                    *)
(***************************************************************************)
EXTENDS DirectoryTree

CONSTANTS Clients

VARIABLES where,  \* the directory of each session
          gone,   \* directories that were removed
          jobs,   \* transfers under way: who, what, which path, from where
          did     \* the outcome of the latest command, or of a transfer

dirVars == <<where, gone, jobs, did>>

Free(deed, d, p) == p \notin Absolute /\ (deed = "stor" \/ d \in gone)

\* The directories p may denote to a process that can be anywhere.
Somewhere(p) == {Lookup[e][p] : e \in Prefixed} \cap Dirs

Outcome(c, deed, p, ok, dir) ==
    did' = [client |-> c, deed |-> deed, path |-> p, ok |-> ok, dir |-> dir]

Clip(d) == IF d \in Prefixed THEN d ELSE Root

DirInit ==
    /\ where = [c \in Clients |-> Root]
    /\ gone = {}
    /\ jobs = {}
    /\ \E c \in Clients : did = [client |-> c, deed |-> "none", path |-> Here, ok |-> TRUE, dir |-> Root]

Goes(c, p, d) ==
    /\ where' = [where EXCEPT ![c] = d]
    /\ Outcome(c, "change", p, TRUE, d)

\* The session goes where p leads, to Root instead of elsewhere.  It may be refused,
\* and it may be told that it has moved when its p, a name, leads nowhere.
Change(c, p) ==
    LET t == Target(where[c], p, gone)  free == Free("change", where[c], p) IN
    /\ UNCHANGED <<gone, jobs>>
    /\ \/ /\ ~free
          /\ t \in Dirs
          /\ Goes(c, p, Clip(t))
       \/ /\ ~free
          /\ t \notin Dirs
          /\ p \notin Absolute \cup {Here, Back}
          /\ Goes(c, p, where[c])
       \/ /\ free
          /\ \E d \in Somewhere(p) \ gone : Goes(c, p, Clip(d))
       \/ /\ Outcome(c, "change", p, FALSE, Root)
          /\ UNCHANGED where

\* What p denotes from the session's directory is removed, if it can be.
Remove(c, p) ==
    /\ UNCHANGED <<where, jobs>>
    /\ \/ /\ Outcome(c, "delete", p, FALSE, Root)
          /\ UNCHANGED gone
       \/ \E d \in Prefixed :
            /\ where[c] \notin gone => d = where[c]
            /\ Outcome(c, "delete", p, TRUE, d)
            /\ \/ /\ Target(d, p, gone) = File
                  /\ UNCHANGED gone
               \/ /\ CanRemove(Target(d, p, gone), gone)
                  /\ gone' = gone \cup {Target(d, p, gone)}

\* A transfer is accepted or refused; LIST is accepted for a Prefixed directory only.
Ask(c, deed, p) ==
    /\ UNCHANGED <<where, gone>>
    /\ \/ /\ \/ deed # "list"
             \/ Free(deed, where[c], p)
             \/ Target(where[c], p, gone) \in Prefixed
          /\ jobs' = jobs \cup {[client |-> c, deed |-> deed, path |-> p, from |-> where[c]]}
          /\ UNCHANGED did
       \/ /\ Outcome(c, deed, p, FALSE, Root)
          /\ UNCHANGED jobs

\* It is made, or cannot be any more.  The same may have been asked for twice.
Perform(j) ==
    /\ jobs' \in {jobs, jobs \ {j}}
    /\ UNCHANGED <<where, gone>>
    /\ \/ Outcome(j.client, j.deed, j.path, FALSE, Root)
       \/ \E d \in Dirs :
            /\ IF Free(j.deed, j.from, j.path) THEN d \in Somewhere(j.path)
                                              ELSE d = Target(j.from, j.path, gone)
            /\ Outcome(j.client, j.deed, j.path, TRUE, d)

DirNext ==
    \/ \E c \in Clients, p \in Paths : Change(c, p) \/ Remove(c, p)
    \/ \E c \in Clients, p \in Paths, deed \in {"list", "retr", "stor"} : Ask(c, deed, p)
    \/ \E j \in jobs : Perform(j)

Directories == DirInit /\ [][DirNext]_dirVars
=============================================================================
