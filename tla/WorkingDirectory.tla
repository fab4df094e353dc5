-------------------------- MODULE WorkingDirectory --------------------------
(***************************************************************************)
(* The sessions' working directories, and the one directory of the server  *)
(* process that stands behind them.  A handler is executed to its end      *)
(* before the next line of any client, so that each is one action; what it *)
(* leaves behind is the directory of the process.  The children made for   *)
(* LIST, RETR and STOR have a copy of it and of the session's, and go on   *)
(* by themselves.                                                          *)
(*                                                                         *)
(* Logged-in clients with a data socket; the number of arguments is right, *)
(* and directories that exist can be entered.                              *)
(*                                                                         *)
(* Definitions ending in _Faulty are mistakes the property named in their  *)
(* comment excludes; they are not part of the model.                       *)
(***************************************************************************)
EXTENDS DirectoryTree, Naturals, FiniteSets

CONSTANTS Clients,
          MaxKids   \* bound: children at a time

ASSUME KidsAssumption == MaxKids \in Nat

VARIABLES alive,  \* the server process runs
          cwd,    \* its directory
          wd,     \* working_directory of each connection
          gone,   \* directories that were removed
          kids,   \* children that have not begun: cwd and wd are their copies
          did     \* the outcome of the latest command, or of a transfer

vars == <<alive, cwd, wd, gone, kids, did>>

Deeds == {"none", "change", "delete", "list", "retr", "stor"}

TypeOK ==
    /\ alive \in BOOLEAN
    /\ cwd \in Dirs
    /\ wd \in [Clients -> Dirs]
    /\ gone \subseteq Removable
    /\ \A d \in gone : Below(d) \subseteq gone
    /\ kids \subseteq [client : Clients, deed : {"list", "retr", "stor"},
                       path : Paths, cwd : Dirs, wd : Dirs]
    /\ did \in [client : Clients, deed : Deeds, path : Paths, ok : BOOLEAN, dir : Dirs]

-----------------------------------------------------------------------------
\* What p denotes to a process in d.  One whose directory was removed is still
\* there: "." and ".." work, names find nothing.
Find(d, p) ==
    IF d \notin gone \/ p \in Absolute THEN Target(d, p, gone)
    ELSE IF p \in {Here, Back} THEN Lookup[d][p]
    ELSE Nothing

\* Where chdir(p), unchecked, leaves a process that is in d.
Enter(d, p) == IF Find(d, p) \in Dirs THEN Find(d, p) ELSE d

\* ... and chdir(working_directory), an absolute path.
EnterWd(d, w) == IF w \in gone THEN d ELSE w

Outcome(c, deed, p, ok, dir) ==
    did' = [client |-> c, deed |-> deed, path |-> p, ok |-> ok, dir |-> dir]

Failed(c, deed, p) == Outcome(c, deed, p, FALSE, Root)

\* The session is left where getcwd() found the process (StaysPrefixed).
Settle_Faulty(d) == d

\* check_new_path: strncmp() with as many characters as Root's path has.
Settle(d) == IF d \in Prefixed THEN d ELSE Root

Init ==
    /\ alive = TRUE
    /\ cwd = Root
    /\ wd = [c \in Clients |-> Root]
    /\ gone = {}
    /\ kids = {}
    /\ \E c \in Clients : did = [client |-> c, deed |-> "none", path |-> Here, ok |-> TRUE, dir |-> Root]

-----------------------------------------------------------------------------
(* CWD and CDUP.                                                           *)

\* access() and opendir() look from the directory of the process; opendir() may fail
\* on a directory too, for lack of the right to read it or of a descriptor.
ChangeRefused(c, p) ==
    /\ alive
    /\ Failed(c, "change", p)
    /\ UNCHANGED <<alive, cwd, wd, gone, kids>>

\* chdir(working_directory) is left out (OwnDirectory).
Changed_Faulty(c, p) ==
    LET new == Enter(cwd, p) IN
    /\ alive
    /\ Find(cwd, p) \in Dirs
    /\ new \notin gone
    /\ wd' = [wd EXCEPT ![c] = Settle(new)]
    /\ cwd' = Root
    /\ Outcome(c, "change", p, TRUE, Settle(new))
    /\ UNCHANGED <<alive, gone, kids>>

\* The two chdir() go from the session's directory; neither is checked.
Changed(c, p) ==
    LET new == Enter(EnterWd(cwd, wd[c]), p) IN
    /\ alive
    /\ Find(cwd, p) \in Dirs
    /\ new \notin gone
    /\ wd' = [wd EXCEPT ![c] = Settle(new)]
    /\ cwd' = Root
    /\ Outcome(c, "change", p, TRUE, Settle(new))
    /\ UNCHANGED <<alive, gone, kids>>

\* getcwd() gives NULL in a directory that was removed; strncmp() reads it.
ChangeCrashes(c, p) ==
    /\ alive
    /\ Find(cwd, p) \in Dirs
    /\ Enter(EnterWd(cwd, wd[c]), p) \in gone
    /\ alive' = FALSE
    /\ UNCHANGED <<cwd, wd, gone, kids, did>>

Cwd(c, p) == ChangeRefused(c, p) \/ Changed(c, p) \/ ChangeCrashes(c, p)

Cdup(c) == Cwd(c, Back)

-----------------------------------------------------------------------------
(* DELE.  The process stays in the directory it was taken to.              *)

\* What is in a directory goes with it (TypeOK).
Removes_Faulty(d, p) ==
    LET t == Find(d, p) IN
    \/ t = File /\ UNCHANGED gone
    \/ t \in Removable \ gone /\ p \notin {Here, Back} /\ gone' = gone \cup {t}

\* remove(): a file, or a directory with nothing in it.
Removes(d, p) ==
    LET t == Find(d, p) IN
    \/ t = File /\ UNCHANGED gone
    \/ CanRemove(t, gone) /\ p \notin {Here, Back} /\ gone' = gone \cup {t}

Dele(c, p) ==
    /\ alive
    /\ cwd' = EnterWd(cwd, wd[c])
    /\ \/ Removes(cwd', p) /\ Outcome(c, "delete", p, TRUE, cwd')
       \/ Failed(c, "delete", p) /\ UNCHANGED gone
    /\ UNCHANGED <<alive, wd, kids>>

-----------------------------------------------------------------------------
(* LIST, RETR and STOR, in the server process.                             *)

Forked(c, deed, p) ==
    /\ Cardinality(kids) < MaxKids
    /\ kids' = kids \cup {[client |-> c, deed |-> deed, path |-> p,
                           cwd |-> cwd', wd |-> wd[c]]}
    /\ UNCHANGED <<alive, wd, gone, did>>

\* LIST without an argument looks at nothing beforehand.
List(c) ==
    /\ alive
    /\ UNCHANGED cwd
    /\ Forked(c, "list", Here)

\* check_exists looks from the directory of the process, check_directory_access
\* from the session's: what the first has seen may not be there for the second,
\* which then leaves the process where it is.
ListRefused(c, p) ==
    LET d == EnterWd(cwd, wd[c])  t == Find(d, p) IN
    /\ alive
    /\ cwd' = IF Find(cwd, p) = Nothing THEN cwd
              ELSE IF t \notin Dirs THEN d ELSE Root
    /\ \/ Find(cwd, p) = Nothing
       \/ t \notin Dirs
       \/ t \notin gone \cup Prefixed
    /\ Failed(c, "list", p)
    /\ UNCHANGED <<alive, wd, gone, kids>>

\* chdir(working_directory) is left out of check_directory_access (SurvivesRemoval).
ListCrashes_Faulty(c, p) ==
    /\ alive
    /\ Find(cwd, p) \in gone
    /\ alive' = FALSE
    /\ UNCHANGED <<cwd, wd, gone, kids, did>>

\* getcwd() gives NULL here too.
ListCrashes(c, p) ==
    /\ alive
    /\ Find(cwd, p) # Nothing
    /\ Find(EnterWd(cwd, wd[c]), p) \in gone
    /\ alive' = FALSE
    /\ UNCHANGED <<cwd, wd, gone, kids, did>>

ListPath(c, p) ==
    LET t == Find(EnterWd(cwd, wd[c]), p) IN
    /\ alive
    /\ Find(cwd, p) # Nothing
    /\ t \in Prefixed \ gone
    /\ cwd' = Root
    /\ Forked(c, "list", p)

\* The file, in the directory p, is looked for and may be there.
Retr(c, p) ==
    /\ alive
    /\ cwd' = Root
    /\ \/ Find(EnterWd(cwd, wd[c]), p) \in Dirs /\ Forked(c, "retr", p)
       \/ Failed(c, "retr", p) /\ UNCHANGED <<alive, wd, gone, kids>>

\* Nothing is looked at before the fork.
Stor(c, p) ==
    /\ alive
    /\ UNCHANGED cwd
    /\ Forked(c, "stor", p)

-----------------------------------------------------------------------------
(* A child.  LIST and RETR go to the session's directory first; STOR opens *)
(* its file from wherever the server process was.                          *)

Place(k) == Find(IF k.deed = "stor" THEN k.cwd ELSE EnterWd(k.cwd, k.wd), k.path)

Perform(k) ==
    /\ kids' = kids \ {k}
    /\ \/ Place(k) \in Dirs /\ Outcome(k.client, k.deed, k.path, TRUE, Place(k))
       \/ Failed(k.client, k.deed, k.path)
    /\ UNCHANGED <<alive, cwd, wd, gone>>

-----------------------------------------------------------------------------
Next ==
    \/ \E c \in Clients : Cdup(c) \/ List(c)
    \/ \E c \in Clients, p \in Paths :
        \/ Cwd(c, p) \/ Dele(c, p)
        \/ ListRefused(c, p) \/ ListCrashes(c, p) \/ ListPath(c, p)
        \/ Retr(c, p) \/ Stor(c, p)
    \/ \E k \in kids : Perform(k)

Spec == Init /\ [][Next]_vars

-----------------------------------------------------------------------------
(* Properties.                                                             *)

\* check_new_path: CDUP from the top, or a detour over a directory that is not
\* there any more, never leaves a session, the process between two commands, or a
\* child where no path that begins like Root's leads.  This is less than the
\* comments of check_new_path and check_directory_access say: a directory beside
\* Root whose name begins like Root's is outside, and passes.
StaysPrefixed ==
    /\ cwd \in Prefixed
    /\ \A c \in Clients : wd[c] \in Prefixed
    /\ \A k \in kids : k.cwd \in Prefixed /\ k.wd \in Prefixed

\* A removed directory ends the server, through getcwd(), only for a session whose own
\* directory was removed, while the process itself stands in a removed one, and only
\* with "." or "..": a session whose directory is there never brings the others down,
\* whatever they have removed and wherever they have left the process.
SurvivesRemoval ==
    [][\A c \in Clients, p \in Paths :
          ChangeCrashes(c, p) \/ ListCrashes(c, p) =>
              {cwd, wd[c]} \subseteq gone /\ p \in {Here, Back}]_vars

Own == INSTANCE SessionDirectories WITH
    where <- wd,
    jobs  <- {[client |-> k.client, deed |-> k.deed, path |-> k.path, from |-> k.wd] :
                k \in kids}

\* Although all sessions share one directory, in which DELE and LIST leave the
\* process anywhere, each session acts in its own as long as that has not been
\* removed: CWD and CDUP move it to what the path denotes there, if anywhere, LIST,
\* RETR and DELE act on what it denotes there.  CWD may be refused, or answered 250
\* and leave the session where it is, for what is found where the process is.  Only
\* STOR takes a path that is not absolute from where the process is.
OwnDirectory == Own!Directories

=============================================================================
