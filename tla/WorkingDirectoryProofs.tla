----------------------- MODULE WorkingDirectoryProofs -----------------------
(***************************************************************************)
(* WorkingDirectory, for every tree of directories, set of paths and       *)
(* number of sessions: its types, that nothing ends up in a directory that *)
(* strncmp() would not let through, what a removed directory can do to the *)
(* server, and that the sessions behave as SessionDirectories promises.    *)
(***************************************************************************)
EXTENDS WorkingDirectory, TLAPS

-----------------------------------------------------------------------------
(* The tree.                                                               *)

\* What a path denotes, to a process anywhere and whatever was removed.
LEMMA FindType ==
    ASSUME TypeOK, NEW d \in Dirs, NEW p \in Paths
    PROVE  /\ Find(d, p) \in Dirs \cup {Nothing, File}
           /\ Enter(d, p) \in Dirs
BY TreeAssumption DEF Find, Enter, Target

\* The directory above one that exists exists.
LEMMA ParentsStay ==
    ASSUME TypeOK, NEW d \in Dirs, d \notin gone
    PROVE  Lookup[d][Back] \in Dirs \ gone
<1>1. Lookup[d][Back] \in Dirs
  BY TreeAssumption
<1>2. ASSUME Lookup[d][Back] \in gone PROVE FALSE
  <2>1. CASE Lookup[d][Back] = d
    BY <1>2, <2>1
  <2>2. CASE Lookup[d][Back] # d
    <3>1. d \in Below(Lookup[d][Back])
      BY <2>2 DEF Below
    <3>2. Below(Lookup[d][Back]) \subseteq gone
      BY <1>2 DEF TypeOK
    <3> QED BY <3>1, <3>2
  <2> QED BY <2>1, <2>2
<1> QED BY <1>1, <1>2

\* An absolute path denotes the same for everybody.
LEMMA AbsoluteFind ==
    ASSUME NEW d \in Dirs, NEW e \in Dirs, NEW p \in Absolute
    PROVE  Find(d, p) = Target(e, p, gone)
<1>1. p \in Paths /\ Lookup[d][p] = Lookup[e][p]
  BY TreeAssumption
<1> QED BY <1>1 DEF Find, Target

\* In a directory that exists names denote what they do in the tree, and "." and
\* ".." a directory.
LEMMA LiveFind ==
    ASSUME TypeOK, NEW d \in Dirs, d \notin gone
    PROVE  /\ \A p \in Paths : Find(d, p) = Target(d, p, gone)
           /\ \A p \in {Here, Back} : Target(d, p, gone) \in Dirs
<1>1. \A p \in Paths : Find(d, p) = Target(d, p, gone)
  BY DEF Find
<1>2. Target(d, Here, gone) \in Dirs
  BY TreeAssumption DEF Target
<1>3. Target(d, Back, gone) \in Dirs
  BY ParentsStay DEF Target
<1> QED BY <1>1, <1>2, <1>3

\* "." and ".." lead somewhere from everywhere.
LEMMA DotsFind ==
    ASSUME TypeOK, NEW d \in Dirs, NEW p \in {Here, Back}
    PROVE  Find(d, p) \in Dirs
<1>1. CASE d \notin gone
  BY <1>1, LiveFind, TreeAssumption
<1>2. CASE d \in gone
  BY <1>2, TreeAssumption DEF Find
<1> QED BY <1>1, <1>2

\* From a directory that was removed, paths that are not absolute find neither
\* files nor directories other than "." and "..".
LEMMA DeadFind ==
    ASSUME NEW d \in gone, NEW p \in Paths \ Absolute, p \notin {Here, Back}
    PROVE  Find(d, p) = Nothing
BY DEF Find

LEMMA EnterWdType ==
    ASSUME NEW d \in Dirs, NEW w \in Dirs
    PROVE  /\ EnterWd(d, w) \in {d, w}
           /\ w \notin gone => EnterWd(d, w) = w
BY DEF EnterWd

-----------------------------------------------------------------------------
(* Types, and where sessions, process and children can be.                 *)

DirInv == TypeOK /\ StaysPrefixed

LEMMA DirInvInit == Init => DirInv
BY TreeAssumption DEF Init, DirInv, TypeOK, StaysPrefixed, Deeds

\* Changing directory.
LEMMA ChangeKeeps ==
    ASSUME DirInv, NEW c \in Clients, NEW p \in Paths, Cwd(c, p)
    PROVE  DirInv'
<1> USE DEF DirInv
<1>1. CASE ChangeRefused(c, p)
  BY <1>1, TreeAssumption DEF ChangeRefused, Failed, Outcome, TypeOK, StaysPrefixed, Deeds
<1>2. CASE Changed(c, p)
  <2>1. PICK new : new = Enter(EnterWd(cwd, wd[c]), p)
    OBVIOUS
  <2>2. Settle(new) \in Prefixed /\ Settle(new) \in Dirs
    BY TreeAssumption DEF Settle
  <2>3. /\ wd' = [wd EXCEPT ![c] = Settle(new)]
        /\ cwd' = Root
        /\ did' = [client |-> c, deed |-> "change", path |-> p, ok |-> TRUE, dir |-> Settle(new)]
        /\ UNCHANGED <<alive, gone, kids>>
    BY <1>2, <2>1 DEF Changed, Outcome
  <2> QED BY <2>2, <2>3, TreeAssumption DEF TypeOK, StaysPrefixed, Deeds
<1>3. CASE ChangeCrashes(c, p)
  BY <1>3 DEF ChangeCrashes, TypeOK, StaysPrefixed, Deeds
<1> QED BY <1>1, <1>2, <1>3 DEF Cwd

\* Deleting: only empty directories go, so that no directory loses the one above.
LEMMA DeleKeeps ==
    ASSUME DirInv, NEW c \in Clients, NEW p \in Paths, Dele(c, p)
    PROVE  DirInv'
<1> USE DEF DirInv
<1>1. cwd' \in Prefixed /\ cwd' \in Dirs
  BY TreeAssumption DEF Dele, EnterWd, StaysPrefixed
<1>2. did' \in [client : Clients, deed : Deeds, path : Paths, ok : BOOLEAN, dir : Dirs]
  <2>1. PICK d \in Dirs, b \in BOOLEAN : Outcome(c, "delete", p, b, d)
    BY <1>1, TreeAssumption DEF Dele, Failed
  <2> QED BY <2>1 DEF Outcome, Deeds
<1>3. gone' \subseteq Removable /\ \A d \in gone' : Below(d) \subseteq gone'
  <2>1. CASE gone' = gone
    BY <2>1 DEF TypeOK
  <2>2. CASE CanRemove(Find(cwd', p), gone) /\ gone' = gone \cup {Find(cwd', p)}
    <3>1. PICK t : t = Find(cwd', p)
      OBVIOUS
    <3>2. t \in Removable /\ Below(t) \subseteq gone /\ gone' = gone \cup {t}
      BY <2>2, <3>1 DEF CanRemove
    <3> QED BY <3>2 DEF TypeOK
  <2> QED BY <2>1, <2>2 DEF Dele, Removes
<1>4. UNCHANGED <<alive, wd, kids>>
  BY DEF Dele
<1> QED BY <1>1, <1>2, <1>3, <1>4 DEF TypeOK, StaysPrefixed

\* The server's part of a transfer.
LEMMA AskKeeps ==
    ASSUME DirInv, NEW c \in Clients, NEW p \in Paths,
           \/ List(c) \/ ListRefused(c, p) \/ ListCrashes(c, p) \/ ListPath(c, p)
           \/ Retr(c, p) \/ Stor(c, p)
    PROVE  DirInv'
<1> USE DEF DirInv
<1>1. cwd' \in Prefixed /\ cwd' \in Dirs
  BY TreeAssumption DEF List, ListRefused, ListCrashes, ListPath, Retr, Stor, EnterWd,
                        StaysPrefixed
<1>2. ASSUME NEW deed \in {"list", "retr", "stor"}, NEW q \in Paths, Forked(c, deed, q)
      PROVE  DirInv'
  <2>1. PICK k : k = [client |-> c, deed |-> deed, path |-> q, cwd |-> cwd', wd |-> wd[c]]
    OBVIOUS
  <2>2. kids' = kids \cup {k} /\ UNCHANGED <<alive, wd, gone, did>>
    BY <1>2, <2>1 DEF Forked
  <2>3. k.cwd \in Prefixed /\ k.wd \in Prefixed
    BY <1>1, <2>1 DEF StaysPrefixed
  <2>4. k \in [client : Clients, deed : {"list", "retr", "stor"}, path : Paths,
               cwd : Dirs, wd : Dirs]
    BY <1>1, <2>1 DEF TypeOK
  <2> QED BY <1>1, <2>2, <2>3, <2>4 DEF TypeOK, StaysPrefixed
<1>3. ASSUME NEW deed \in {"list", "retr"}, Failed(c, deed, p), UNCHANGED <<alive, wd, gone, kids>>
      PROVE  DirInv'
  BY <1>1, <1>3, TreeAssumption DEF Failed, Outcome, TypeOK, StaysPrefixed, Deeds
<1>4. ASSUME ListCrashes(c, p) PROVE DirInv'
  BY <1>4 DEF ListCrashes, TypeOK, StaysPrefixed
<1> QED BY <1>2, <1>3, <1>4, TreeAssumption DEF List, ListRefused, ListPath, Retr, Stor

\* A child.
LEMMA PerformKeeps ==
    ASSUME DirInv, NEW k \in kids, Perform(k)
    PROVE  DirInv'
<1>1. k.client \in Clients /\ k.deed \in Deeds /\ k.path \in Paths
  BY DEF DirInv, TypeOK, Deeds
<1>2. did' \in [client : Clients, deed : Deeds, path : Paths, ok : BOOLEAN, dir : Dirs]
  <2>1. PICK d \in Dirs, b \in BOOLEAN : Outcome(k.client, k.deed, k.path, b, d)
    BY TreeAssumption DEF Perform, Failed
  <2> QED BY <1>1, <2>1 DEF Outcome
<1>3. UNCHANGED <<alive, cwd, wd, gone>> /\ kids' \subseteq kids
  BY DEF Perform
<1> QED BY <1>2, <1>3 DEF DirInv, TypeOK, StaysPrefixed

LEMMA DirInvNext == DirInv /\ [Next]_vars => DirInv'
<1> SUFFICES ASSUME DirInv, [Next]_vars PROVE DirInv'
  OBVIOUS
<1>1. ASSUME NEW c \in Clients, Cdup(c) PROVE DirInv'
  BY <1>1, ChangeKeeps, TreeAssumption DEF Cdup
<1>2. ASSUME NEW c \in Clients, List(c) PROVE DirInv'
  BY <1>2, AskKeeps, TreeAssumption
<1>3. ASSUME NEW c \in Clients, NEW p \in Paths, Cwd(c, p) PROVE DirInv'
  BY <1>3, ChangeKeeps
<1>4. ASSUME NEW c \in Clients, NEW p \in Paths, Dele(c, p) PROVE DirInv'
  BY <1>4, DeleKeeps
<1>5. ASSUME NEW c \in Clients, NEW p \in Paths,
             ListRefused(c, p) \/ ListCrashes(c, p) \/ ListPath(c, p) \/ Retr(c, p) \/ Stor(c, p)
      PROVE  DirInv'
  BY <1>5, AskKeeps
<1>6. ASSUME NEW k \in kids, Perform(k) PROVE DirInv'
  BY <1>6, PerformKeeps
<1>7. CASE UNCHANGED vars
  BY <1>7 DEF vars, DirInv, TypeOK, StaysPrefixed
<1> QED BY <1>1, <1>2, <1>3, <1>4, <1>5, <1>6, <1>7 DEF Next

LEMMA DirInvAlways == Spec => []DirInv
BY DirInvInit, DirInvNext, PTL DEF Spec

\* Type correctness: getcwd()'s answer is always a directory, and the tree stays
\* a tree, for every tree, set of paths and number of sessions.
THEOREM DirTypeCorrect == Spec => []TypeOK
BY DirInvAlways, PTL DEF DirInv

\* Neither a session nor the process between two commands nor a child is ever where
\* strncmp() tells the path from Root's, for every tree of directories.
THEOREM StaysPrefixedAlways == Spec => []StaysPrefixed
BY DirInvAlways, PTL DEF DirInv

-----------------------------------------------------------------------------
(* What a removed directory can do to the server.                          *)

\* A removed directory is found only from a removed one, with "." or "..".
LEMMA FindsRemoved ==
    ASSUME TypeOK, NEW d \in Dirs, NEW p \in Paths, Find(d, p) \in gone
    PROVE  d \in gone /\ p \in {Here, Back}
<1>0. Nothing \notin gone
  BY TreeAssumption DEF TypeOK
<1>1. ~(d \notin gone \/ p \in Absolute)
  BY <1>0 DEF Find, Target
<1> QED BY <1>0, <1>1 DEF Find

\* To go to the session's directory leads to a removed one only from a removed one,
\* when the session's was removed too.
LEMMA EntersRemoved ==
    ASSUME NEW d, NEW w, EnterWd(d, w) \in gone
    PROVE  {d, w} \subseteq gone /\ EnterWd(d, w) = d
BY DEF EnterWd

\* A session whose directory exists never ends the server, and the others only with
\* "." and ".." while the process too is in a removed directory.
THEOREM SurvivesRemovalAlways == Spec => SurvivesRemoval
<1>1. ASSUME TypeOK, NEW c \in Clients, NEW p \in Paths, ChangeCrashes(c, p) \/ ListCrashes(c, p)
      PROVE  {cwd, wd[c]} \subseteq gone /\ p \in {Here, Back}
  <2> DEFINE d == EnterWd(cwd, wd[c])
  <2>0. cwd \in Dirs /\ wd[c] \in Dirs /\ d \in Dirs
    BY <1>1, EnterWdType DEF TypeOK
  <2>1. CASE ListCrashes(c, p)
    <3>1. Find(d, p) \in gone
      BY <2>1 DEF ListCrashes
    <3> QED BY <1>1, <2>0, <3>1, FindsRemoved, EntersRemoved
  <2>2. CASE ChangeCrashes(c, p)
    <3>1. Find(cwd, p) \in Dirs /\ Enter(d, p) \in gone
      BY <2>2 DEF ChangeCrashes
    <3>2. CASE Find(d, p) \in Dirs
      <4>1. Find(d, p) \in gone
        BY <3>1, <3>2 DEF Enter
      <4> QED BY <1>1, <2>0, <4>1, FindsRemoved, EntersRemoved
    <3>3. CASE Find(d, p) \notin Dirs
      <4>1. d \in gone
        BY <3>1, <3>3 DEF Enter
      <4>2. d = cwd
        BY <4>1, EntersRemoved
      <4> QED BY <3>1, <3>3, <4>2
    <3> QED BY <3>2, <3>3
  <2> QED BY <1>1, <2>1, <2>2
<1>2. TypeOK /\ [Next]_vars =>
        [\A c \in Clients, p \in Paths :
            ChangeCrashes(c, p) \/ ListCrashes(c, p) =>
                {cwd, wd[c]} \subseteq gone /\ p \in {Here, Back}]_vars
  BY <1>1
<1> QED BY <1>2, DirTypeCorrect, PTL DEF Spec, SurvivesRemoval

-----------------------------------------------------------------------------
(* Every step is one of SessionDirectories, seen through jobs, or none.    *)

Job(k) == [client |-> k.client, deed |-> k.deed, path |-> k.path, from |-> k.wd]

OwnStep == [Own!DirNext]_(Own!dirVars)

LEMMA SameTree ==
    ASSUME NEW d, NEW p, NEW t
    PROVE  /\ Own!Target(d, p, gone) = Target(d, p, gone)
           /\ Own!CanRemove(t, gone) <=> CanRemove(t, gone)
           /\ Own!File = File
BY DEF Own!Target, Target, Own!CanRemove, CanRemove, Own!Below, Below, Own!File, File,
       Own!Nothing, Nothing

\* Unless nothing is promised of p from w, it denotes for a process that tried to
\* go to w what it denotes in w.
LEMMA FindFromOwn ==
    ASSUME TypeOK, NEW d \in Dirs, NEW w \in Dirs, NEW p \in Paths,
           w \notin gone \/ p \in Absolute
    PROVE  Find(EnterWd(d, w), p) = Target(w, p, gone)
<1>1. CASE p \in Absolute
  BY <1>1, AbsoluteFind, EnterWdType
<1>2. CASE w \notin gone
  BY <1>2, LiveFind, EnterWdType
<1> QED BY <1>1, <1>2

\* What a path that is not absolute denotes to a process anywhere.
LEMMA FindSomewhere ==
    ASSUME NEW d \in Prefixed, NEW p \in Paths, Find(d, p) \in Dirs
    PROVE  Find(d, p) \in Own!Somewhere(p)
<1>1. Find(d, p) = Lookup[d][p]
  BY TreeAssumption DEF Find, Target
<1> QED BY <1>1 DEF Own!Somewhere

LEMMA ChangeIsOwn ==
    ASSUME DirInv, NEW c \in Clients, NEW p \in Paths, Cwd(c, p)
    PROVE  OwnStep
<1> DEFINE w == wd[c]
<1>0. TypeOK /\ cwd \in Dirs /\ w \in Dirs /\ cwd \in Prefixed /\ w \in Prefixed
  BY DEF DirInv, TypeOK, StaysPrefixed
<1>f. Own!Free("change", w, p) <=> w \in gone /\ p \notin Absolute
  BY DEF Own!Free
<1>s. Own!Change(c, p) => OwnStep
  BY DEF OwnStep, Own!DirNext
<1>1. CASE ChangeRefused(c, p)
  <2>1. UNCHANGED <<gone, wd, kids>> /\ Failed(c, "change", p)
    BY <1>1 DEF ChangeRefused
  <2> QED BY <1>s, <2>1 DEF Own!Change, Own!Outcome, Failed, Outcome
<1>2. CASE Changed(c, p)
  <2>1. PICK new : new = Enter(EnterWd(cwd, w), p)
    OBVIOUS
  <2>2. /\ Find(cwd, p) \in Dirs
        /\ new \notin gone
        /\ wd' = [wd EXCEPT ![c] = Settle(new)]
        /\ Outcome(c, "change", p, TRUE, Settle(new))
        /\ UNCHANGED <<gone, kids>>
    BY <1>2, <2>1 DEF Changed
  <2>3. Own!Goes(c, p, Settle(new)) /\ Settle(new) = Own!Clip(new)
    BY <2>2 DEF Own!Goes, Own!Outcome, Outcome, Settle, Own!Clip
  <2>4. CASE Own!Free("change", w, p)
    <3>1. EnterWd(cwd, w) = cwd
      BY <1>f, <2>4 DEF EnterWd
    <3>2. new = Find(cwd, p)
      BY <2>1, <2>2, <3>1 DEF Enter
    <3>3. new \in Own!Somewhere(p) \ gone
      BY <1>0, <2>2, <3>2, FindSomewhere
    <3> QED BY <1>s, <2>2, <2>3, <2>4, <3>3 DEF Own!Change
  <2>5. CASE ~Own!Free("change", w, p)
    <3>1. Find(EnterWd(cwd, w), p) = Target(w, p, gone)
      BY <1>0, <1>f, <2>5, FindFromOwn
    <3>2. CASE Target(w, p, gone) \in Dirs
      <4>1. new = Own!Target(w, p, gone)
        BY <2>1, <3>1, <3>2, SameTree DEF Enter
      <4> QED BY <1>s, <2>2, <2>3, <2>5, <3>2, <4>1, SameTree DEF Own!Change
    <3>3. CASE Target(w, p, gone) \notin Dirs
      <4>1. p \notin Absolute
        BY <1>0, <2>2, <3>3, AbsoluteFind
      <4>2. w \notin gone
        BY <1>f, <2>5, <4>1
      <4>3. p \notin {Here, Back}
        BY <1>0, <3>3, <4>2, LiveFind
      <4>4. new = w
        BY <2>1, <3>1, <3>3, <4>2 DEF Enter, EnterWd
      <4>5. Settle(new) = w
        BY <1>0, <4>4 DEF Settle
      <4> QED BY <1>s, <2>2, <2>3, <2>5, <3>3, <4>1, <4>3, <4>5, SameTree DEF Own!Change
    <3> QED BY <3>2, <3>3
  <2> QED BY <2>4, <2>5
<1>3. CASE ChangeCrashes(c, p)
  BY <1>3 DEF ChangeCrashes, OwnStep, Own!dirVars
<1> QED BY <1>1, <1>2, <1>3 DEF Cwd

LEMMA DeleIsOwn ==
    ASSUME DirInv, NEW c \in Clients, NEW p \in Paths, Dele(c, p)
    PROVE  OwnStep
<1>0. TypeOK /\ cwd \in Prefixed /\ wd[c] \in Prefixed /\ Prefixed \subseteq Dirs
  BY TreeAssumption DEF DirInv, TypeOK, StaysPrefixed
<1>1. PICK d : d = EnterWd(cwd, wd[c])
  OBVIOUS
<1>2. d \in Prefixed /\ d \in Dirs /\ (wd[c] \notin gone => d = wd[c])
  BY <1>0, <1>1, EnterWdType
<1>3. /\ UNCHANGED <<wd, kids>>
      /\ \/ Removes(d, p) /\ Outcome(c, "delete", p, TRUE, d)
         \/ Failed(c, "delete", p) /\ UNCHANGED gone
  BY <1>1 DEF Dele
<1>4. Own!Remove(c, p)
  <2>1. CASE Failed(c, "delete", p) /\ UNCHANGED gone
    BY <1>3, <2>1 DEF Own!Remove, Own!Outcome, Failed, Outcome
  <2>2. CASE Removes(d, p) /\ Outcome(c, "delete", p, TRUE, d)
    <3>1. Find(d, p) = Target(d, p, gone)
      <4>1. CASE d \notin gone \/ p \in Absolute
        BY <4>1 DEF Find
      <4>2. CASE d \in gone /\ p \notin Absolute
        <5>1. Find(d, p) # File
          BY <1>2, <4>2, TreeAssumption DEF Find, Nothing, File
        <5>2. ~(CanRemove(Find(d, p), gone) /\ p \notin {Here, Back})
          BY <4>2, DeadFind, TreeAssumption DEF CanRemove
        <5> QED BY <2>2, <5>1, <5>2 DEF Removes
      <4> QED BY <4>1, <4>2
    <3>2. \/ Own!Target(d, p, gone) = Own!File /\ UNCHANGED gone
          \/ /\ Own!CanRemove(Own!Target(d, p, gone), gone)
             /\ gone' = gone \cup {Own!Target(d, p, gone)}
      BY <2>2, <3>1, SameTree DEF Removes
    <3>3. Own!Outcome(c, "delete", p, TRUE, d)
      BY <2>2 DEF Own!Outcome, Outcome
    <3> QED BY <1>2, <1>3, <3>2, <3>3 DEF Own!Remove
  <2> QED BY <1>3, <2>1, <2>2
<1> QED BY <1>4 DEF OwnStep, Own!DirNext

LEMMA AskIsOwn ==
    ASSUME DirInv, NEW c \in Clients, NEW p \in Paths,
           \/ List(c) \/ ListRefused(c, p) \/ ListCrashes(c, p) \/ ListPath(c, p)
           \/ Retr(c, p) \/ Stor(c, p)
    PROVE  OwnStep
<1>1. ASSUME NEW deed \in {"list", "retr", "stor"}, NEW q \in Paths, Forked(c, deed, q),
             \/ deed # "list"
             \/ Own!Free(deed, wd[c], q)
             \/ Own!Target(wd[c], q, gone) \in Prefixed
      PROVE  OwnStep
  <2>1. UNCHANGED <<wd, gone, did>>
    BY <1>1 DEF Forked
  <2>2. PICK k : k = [client |-> c, deed |-> deed, path |-> q, cwd |-> cwd', wd |-> wd[c]]
    OBVIOUS
  <2>k. kids' = kids \cup {k}
    BY <1>1, <2>2 DEF Forked
  <2>j. Job(k) = [client |-> c, deed |-> deed, path |-> q, from |-> wd[c]]
    BY <2>2 DEF Job
  <2>3. {Job(x) : x \in kids'} = {Job(x) : x \in kids} \cup {Job(k)}
    BY <2>k
  <2>4. Own!Ask(c, deed, q)
    BY <1>1, <2>1, <2>j, <2>3 DEF Own!Ask, Job
  <2> QED BY <2>4 DEF OwnStep, Own!DirNext
<1>2. ASSUME NEW deed \in {"list", "retr"}, Failed(c, deed, p), UNCHANGED <<alive, wd, gone, kids>>
      PROVE  OwnStep
  <2>1. Own!Ask(c, deed, p)
    BY <1>2 DEF Own!Ask, Own!Outcome, Failed, Outcome
  <2> QED BY <2>1 DEF OwnStep, Own!DirNext
<1>3. ASSUME ListCrashes(c, p) PROVE OwnStep
  BY <1>3 DEF ListCrashes, OwnStep, Own!dirVars
<1>4. TypeOK /\ cwd \in Dirs /\ wd[c] \in Dirs /\ wd[c] \in Prefixed
  BY DEF DirInv, TypeOK, StaysPrefixed
<1>5. CASE List(c)
  <2>1. Own!Free("list", wd[c], Here) \/ Own!Target(wd[c], Here, gone) \in Prefixed
    BY <1>4, SameTree, TreeAssumption DEF Own!Free, Target
  <2> QED BY <1>1, <1>5, <2>1, TreeAssumption DEF List
<1>6. CASE ListPath(c, p)
  <2>1. Find(EnterWd(cwd, wd[c]), p) \in Prefixed /\ Forked(c, "list", p)
    BY <1>6 DEF ListPath
  <2>2. Own!Free("list", wd[c], p) \/ Own!Target(wd[c], p, gone) \in Prefixed
    BY <1>4, <2>1, FindFromOwn, SameTree DEF Own!Free
  <2> QED BY <1>1, <2>1, <2>2
<1>7. CASE Retr(c, p) \/ Stor(c, p)
  BY <1>1, <1>2, <1>7 DEF Retr, Stor
<1>8. CASE ListRefused(c, p)
  BY <1>2, <1>8 DEF ListRefused
<1> QED BY <1>3, <1>5, <1>6, <1>7, <1>8

LEMMA PerformIsOwn ==
    ASSUME DirInv, NEW k \in kids, Perform(k)
    PROVE  OwnStep
<1>0. /\ TypeOK
      /\ k \in [client : Clients, deed : {"list", "retr", "stor"}, path : Paths,
                 cwd : Dirs, wd : Dirs]
      /\ k.cwd \in Prefixed
  BY DEF DirInv, TypeOK, StaysPrefixed
<1>1. UNCHANGED <<wd, gone>> /\ kids' = kids \ {k}
  BY DEF Perform
<1>2. {Job(x) : x \in kids'} \in {{Job(x) : x \in kids}, {Job(x) : x \in kids} \ {Job(k)}}
  <2>1. CASE \E y \in kids' : Job(y) = Job(k)
    BY <1>1, <2>1
  <2>2. CASE \A y \in kids' : Job(y) # Job(k)
    BY <1>1, <2>2
  <2> QED BY <2>1, <2>2
<1>3. /\ Job(k).client = k.client /\ Job(k).deed = k.deed
      /\ Job(k).path = k.path /\ Job(k).from = k.wd
  BY DEF Job
<1>4. \/ Own!Outcome(k.client, k.deed, k.path, FALSE, Root)
      \/ \E d \in Dirs :
            /\ IF Own!Free(k.deed, k.wd, k.path)
               THEN d \in Own!Somewhere(k.path)
               ELSE d = Own!Target(k.wd, k.path, gone)
            /\ Own!Outcome(k.client, k.deed, k.path, TRUE, d)
  <2>1. CASE Failed(k.client, k.deed, k.path)
    BY <2>1 DEF Own!Outcome, Failed, Outcome
  <2>2. CASE Place(k) \in Dirs /\ Outcome(k.client, k.deed, k.path, TRUE, Place(k))
    <3>1. ~Own!Free(k.deed, k.wd, k.path) => Place(k) = Target(k.wd, k.path, gone)
      <4>1. CASE k.path \in Absolute
        BY <1>0, <4>1, AbsoluteFind, EnterWdType DEF Place
      <4>2. CASE k.deed # "stor" /\ k.wd \notin gone
        BY <1>0, <4>2, FindFromOwn DEF Place
      <4>3. CASE k.path \notin Absolute /\ (k.deed = "stor" \/ k.wd \in gone)
        BY <4>3 DEF Own!Free
      <4> QED BY <4>1, <4>2, <4>3
    <3>2. Own!Free(k.deed, k.wd, k.path) => Place(k) \in Own!Somewhere(k.path)
      <4> SUFFICES ASSUME Own!Free(k.deed, k.wd, k.path)
                   PROVE  Place(k) \in Own!Somewhere(k.path)
        OBVIOUS
      <4>1. Place(k) = Find(k.cwd, k.path)
        BY DEF Place, EnterWd, Own!Free
      <4> QED BY <1>0, <2>2, <4>1, FindSomewhere
    <3> QED BY <2>2, <3>1, <3>2, SameTree DEF Own!Outcome, Outcome
  <2> QED BY <2>1, <2>2 DEF Perform
<1>5. Job(k) \in {Job(x) : x \in kids}
  OBVIOUS
<1>6. Own!Perform(Job(k))
  BY <1>1, <1>2, <1>3, <1>4 DEF Own!Perform, Job
<1> QED BY <1>5, <1>6 DEF OwnStep, Own!DirNext, Job

LEMMA NextIsOwn == DirInv /\ [Next]_vars => OwnStep
<1> SUFFICES ASSUME DirInv, [Next]_vars PROVE OwnStep
  OBVIOUS
<1>1. ASSUME NEW c \in Clients, Cdup(c) PROVE OwnStep
  BY <1>1, ChangeIsOwn, TreeAssumption DEF Cdup
<1>2. ASSUME NEW c \in Clients, List(c) PROVE OwnStep
  BY <1>2, AskIsOwn, TreeAssumption
<1>3. ASSUME NEW c \in Clients, NEW p \in Paths, Cwd(c, p) PROVE OwnStep
  BY <1>3, ChangeIsOwn
<1>4. ASSUME NEW c \in Clients, NEW p \in Paths, Dele(c, p) PROVE OwnStep
  BY <1>4, DeleIsOwn
<1>5. ASSUME NEW c \in Clients, NEW p \in Paths,
             ListRefused(c, p) \/ ListCrashes(c, p) \/ ListPath(c, p) \/ Retr(c, p) \/ Stor(c, p)
      PROVE  OwnStep
  BY <1>5, AskIsOwn
<1>6. ASSUME NEW k \in kids, Perform(k) PROVE OwnStep
  BY <1>6, PerformIsOwn
<1>7. CASE UNCHANGED vars
  BY <1>7 DEF vars, OwnStep, Own!dirVars
<1> QED BY <1>1, <1>2, <1>3, <1>4, <1>5, <1>6, <1>7 DEF Next

\* As long as it is there each session acts in its own directory, STOR of a path that is
\* not absolute excepted, and else in a Prefixed one, for every tree and number of sessions:
\* the handlers, with what they leave of the directory of the process for the next
\* one, implement SessionDirectories.
THEOREM OwnDirectoryHolds == Spec => OwnDirectory
<1>1. Init => Own!DirInit
  BY DEF Init, Own!DirInit, Own!Outcome
<1>2. DirInv /\ [Next]_vars => [Own!DirNext]_(Own!dirVars)
  BY NextIsOwn DEF OwnStep
<1> QED BY <1>1, <1>2, DirInvAlways, PTL DEF Spec, OwnDirectory, Own!Directories

=============================================================================
