---------------------------- MODULE SessionProofs ----------------------------
(* Session keeps its types and its login for every number of clients and     *)
(* slots, and implements SessionAccess.                                      *)
EXTENDS Session, TLAPS

Users == (Names \ {NoArg}) \cup {Null}

Replies == [client : Clients,
            verb : Verbs \cup {"none", "connect", "USER", "PASS", "QUIT"},
            arg : Names \cup Words, code : 0..599]

\* A client has one slot at most, and none when it is ignored.
HeldOnce ==
    /\ \A i, j \in Slots : Serves(i) /\ fds[i] = fds[j] => i = j
    /\ \A i \in Slots : fds[i] \notin ignored

SessionInv == TypeOK /\ HeldOnce /\ UserKnown /\ FreshUntilLogin

-----------------------------------------------------------------------------
(* What a command may do to the connection of slot i.                      *)

LEMMA FreshTyped == Fresh \in Connection
BY SessionAssumption DEF Fresh, Connection, Null, Modes

LEMMA ReplyTyped ==
  ASSUME TypeOK, NEW i \in Slots, Serves(i),
         NEW verb \in Verbs \cup {"none", "connect", "USER", "PASS", "QUIT"},
         NEW arg \in Names \cup Words, NEW code \in 0..599,
         Reply(i, verb, arg, code)
  PROVE  reply' \in Replies
<1>1. fds[i] \in Clients
  BY DEF TypeOK, Serves
<1> QED
  BY <1>1 DEF Reply, Replies

\* A step of the session of slot i: its connection becomes one that may be.
Becomes(i, connection) ==
    /\ fds' = fds /\ ignored' = ignored
    /\ connections' = [connections EXCEPT ![i] = connection]

Proper(connection) ==
    /\ connection \in Connection
    /\ connection.logged_in => connection.user \in Right
    /\ ~connection.logged_in => Setting(connection) = Setting(Fresh)

LEMMA ProperKept ==
  ASSUME SessionInv, NEW i \in Slots, NEW connection,
         Becomes(i, connection), Proper(connection), reply' \in Replies
  PROVE  SessionInv'
<1>1. /\ connections' \in [Slots -> Connection]
      /\ \A j \in Slots : connections'[j] = IF j = i THEN connection ELSE connections[j]
  BY DEF SessionInv, TypeOK, Becomes, Proper
<1>2. TypeOK'
  BY <1>1 DEF SessionInv, TypeOK, Becomes, Replies
<1>3. HeldOnce'
  BY DEF SessionInv, HeldOnce, Serves, Becomes
<1>4. UserKnown'
  BY <1>1 DEF SessionInv, UserKnown, Serves, LoggedIn, Becomes, Proper
<1>5. FreshUntilLogin'
  BY <1>1 DEF SessionInv, FreshUntilLogin, Serves, LoggedIn, Becomes, Proper
<1> QED
  BY <1>2, <1>3, <1>4, <1>5 DEF SessionInv

LEMMA ServedProper ==
  ASSUME SessionInv, NEW i \in Slots, Serves(i)
  PROVE  Proper(connections[i])
BY DEF SessionInv, TypeOK, UserKnown, FreshUntilLogin, Proper, LoggedIn

\* Leave, as a step that sets the connection to what it was.
LEMMA LeaveBecomes ==
  ASSUME SessionInv, NEW i \in Slots, Leave(i)
  PROVE  Becomes(i, connections[i])
BY DEF Leave, Becomes, SessionInv, TypeOK

-----------------------------------------------------------------------------
(* Every command leaves a proper connection.                               *)

LEMMA QuitKeeps ==
  ASSUME SessionInv, NEW i \in Slots, Serves(i), Quit(i)
  PROVE  SessionInv'
<1>1. reply' \in Replies
  BY ReplyTyped DEF Quit, SessionInv, Words
<1>2. \A j \in Slots : fds'[j] = IF j = i THEN NoClient ELSE fds[j]
  BY DEF Quit, SessionInv, TypeOK
<1>3. TypeOK'
  BY <1>1 DEF Quit, SessionInv, TypeOK, Replies
<1>4. HeldOnce'
  BY <1>2, SessionAssumption DEF Quit, SessionInv, TypeOK, HeldOnce, Serves
<1>5. UserKnown' /\ FreshUntilLogin'
  BY <1>2 DEF Quit, SessionInv, UserKnown, FreshUntilLogin, Serves, LoggedIn
<1> QED
  BY <1>3, <1>4, <1>5 DEF SessionInv

\* A reply, and the session as it was.
LEMMA LeaveKeeps ==
  ASSUME SessionInv, NEW i \in Slots, Serves(i), Leave(i), reply' \in Replies
  PROVE  SessionInv'
BY ServedProper, LeaveBecomes, ProperKept

LEMMA SetKeeps ==
  ASSUME SessionInv, NEW i \in Slots, NEW connection, Set(i, connection),
         Proper(connection), reply' \in Replies
  PROVE  SessionInv'
BY ProperKept DEF Set, Becomes

\* A name given before the login.
LEMMA Named ==
  ASSUME NEW k, Proper(k), ~k.logged_in, NEW u \in Users
  PROVE  Proper([k EXCEPT !.user = u])
<1>1. k \in Connection
  BY DEF Proper
<1>2. PICK m : m = [k EXCEPT !.user = u]
  OBVIOUS
<1>3. /\ m \in Connection
      /\ m.user = u /\ m.logged_in = k.logged_in
      /\ m.transfer_mode = k.transfer_mode /\ m.data_socket = k.data_socket
      /\ m.working_directory = k.working_directory
  BY <1>1, <1>2 DEF Connection, Users
<1>4. Setting(m) = Setting(k)
  BY <1>3 DEF Setting
<1> QED
  BY <1>2, <1>3, <1>4 DEF Proper

LEMMA Logged ==
  ASSUME NEW k, Proper(k), k.user \in Right
  PROVE  Proper([k EXCEPT !.logged_in = TRUE])
<1>1. k \in Connection
  BY DEF Proper
<1>2. PICK m : m = [k EXCEPT !.logged_in = TRUE]
  OBVIOUS
<1>3. m \in Connection /\ m.user = k.user /\ m.logged_in = TRUE
  BY <1>1, <1>2 DEF Connection
<1> QED
  BY <1>2, <1>3 DEF Proper

LEMMA UserKeeps ==
  ASSUME SessionInv, NEW i \in Slots, Serves(i), NEW name \in Names,
         UserCommand(i, name)
  PROVE  SessionInv'
<1>1. reply' \in Replies
  <2>1. Reply(i, "USER", name, 530) \/ Reply(i, "USER", name, 331)
    BY DEF UserCommand
  <2> QED
    BY <2>1, ReplyTyped DEF SessionInv
<1>2. CASE Leave(i)
  BY <1>1, <1>2, LeaveKeeps
<1>3. CASE ~Leave(i)
  <2>1. PICK u : u = IF name = NoArg THEN Null ELSE name
    OBVIOUS
  <2>2. Set(i, [connections[i] EXCEPT !.user = u]) /\ ~connections[i].logged_in
    BY <1>3, <2>1 DEF UserCommand, LoggedIn
  <2>3. u \in Users
    BY <2>1 DEF Users
  <2>4. Proper([connections[i] EXCEPT !.user = u])
    BY <2>2, <2>3, ServedProper, Named
  <2> QED
    BY <1>1, <2>2, <2>4, SetKeeps
<1> QED
  BY <1>2, <1>3

LEMMA PassKeeps ==
  ASSUME SessionInv, NEW i \in Slots, Serves(i), NEW password \in Words,
         PassCommand(i, password)
  PROVE  SessionInv'
<1>1. reply' \in Replies
  <2>1. \E code \in {230, 503, 530} : Reply(i, "PASS", password, code)
    BY DEF PassCommand
  <2> QED
    BY <2>1, ReplyTyped DEF SessionInv
<1>2. Proper(connections[i])
  BY ServedProper
<1>3. CASE Leave(i)
  BY <1>1, <1>3, LeaveKeeps
<1>4. CASE /\ connections[i].user \in Right
           /\ Set(i, [connections[i] EXCEPT !.logged_in = TRUE])
  <2>1. Proper([connections[i] EXCEPT !.logged_in = TRUE])
    BY <1>2, <1>4, Logged
  <2> QED
    BY <1>1, <1>4, <2>1, SetKeeps
<1>5. CASE /\ ~connections[i].logged_in
           /\ Set(i, [connections[i] EXCEPT !.user = Null])
  <2>1. Proper([connections[i] EXCEPT !.user = Null])
    BY <1>2, <1>5, Named DEF Users
  <2> QED
    BY <1>1, <1>5, <2>1, SetKeeps
<1>6. \/ Leave(i)
      \/ /\ connections[i].user \in Right
         /\ Set(i, [connections[i] EXCEPT !.logged_in = TRUE])
      \/ /\ ~connections[i].logged_in
         /\ Set(i, [connections[i] EXCEPT !.user = Null])
  BY DEF PassCommand, LoggedIn
<1> QED
  BY <1>3, <1>4, <1>5, <1>6

-----------------------------------------------------------------------------
(* The commands a login opens: each sets the connection to one of the same *)
(* user, still logged in, and says so.                                     *)

Used(i) ==
    \E verb \in Verbs, code \in Login!Granted, k \in Connection :
        /\ LoggedIn(i)
        /\ Becomes(i, k)
        /\ k.user = connections[i].user /\ k.logged_in
        /\ Reply(i, verb, NoArg, code)

LEMMA GrantedCodes ==
  {150, 200, 227, 250, 425, 451, 500, 550} \subseteq Login!Granted
BY DEF Login!Granted

LEMMA StaysUsed ==
  ASSUME SessionInv, NEW i \in Slots, LoggedIn(i), Leave(i),
         NEW verb \in Verbs, NEW code \in Login!Granted,
         Reply(i, verb, NoArg, code)
  PROVE  Used(i)
<1>1. connections[i] \in Connection /\ Becomes(i, connections[i])
  BY LeaveBecomes DEF SessionInv, TypeOK
<1> QED
  BY <1>1 DEF Used, LoggedIn

LEMMA SetUsed ==
  ASSUME SessionInv, NEW i \in Slots, LoggedIn(i), NEW k \in Connection,
         Set(i, k), k.user = connections[i].user, k.logged_in,
         NEW verb \in Verbs, NEW code \in Login!Granted,
         Reply(i, verb, NoArg, code)
  PROVE  Used(i)
<1>1. Becomes(i, k)
  BY DEF Set, Becomes
<1> QED
  BY <1>1 DEF Used

LEMMA AnsweredUsed ==
  ASSUME SessionInv, NEW i \in Slots,
         \/ PwdCommand(i) \/ NoopCommand(i) \/ HelpCommand(i) \/ DeleCommand(i)
         \/ UnknownCommand(i)
  PROVE  Used(i)
<1>1. PICK verb \in Plain, codes \in {{257}, {200}, {214}, {250, 550}, {500}} :
          Answered(i, verb, codes)
  BY DEF PwdCommand, NoopCommand, HelpCommand, DeleCommand, UnknownCommand, Plain
<1>2. PICK code \in codes : Reply(i, verb, NoArg, code)
  BY <1>1 DEF Answered
<1>3. code \in Login!Granted /\ verb \in Verbs
  BY <1>2 DEF Verbs, Login!Granted
<1> QED
  BY <1>1, <1>2, <1>3, StaysUsed DEF Answered

LEMMA TypeUsed ==
  ASSUME SessionInv, NEW i \in Slots, TypeCommand(i)
  PROVE  Used(i)
<1>1. LoggedIn(i) /\ connections[i] \in Connection /\ "TYPE" \in Verbs
  BY DEF TypeCommand, SessionInv, TypeOK, Verbs
<1>2. CASE Leave(i) /\ Reply(i, "TYPE", NoArg, 500)
  BY <1>1, <1>2, GrantedCodes, StaysUsed
<1>3. ASSUME NEW mode \in Modes, Reply(i, "TYPE", NoArg, 200),
             Set(i, [connections[i] EXCEPT !.transfer_mode = mode])
      PROVE  Used(i)
  <2>1. PICK k : k = [connections[i] EXCEPT !.transfer_mode = mode]
    OBVIOUS
  <2>2. k \in Connection /\ k.user = connections[i].user /\ k.logged_in
    BY <1>1, <2>1 DEF Connection, LoggedIn
  <2>3. Set(i, k)
    BY <1>3, <2>1, Zenon
  <2> QED
    BY <1>1, <1>3, <2>2, <2>3, GrantedCodes, SetUsed
<1> QED
  BY <1>2, <1>3 DEF TypeCommand

LEMMA MoveUsed ==
  ASSUME SessionInv, NEW i \in Slots, NEW verb \in Moves, Move(i, verb)
  PROVE  Used(i)
<1>1. LoggedIn(i) /\ connections[i] \in Connection /\ verb \in Verbs
  BY DEF Move, SessionInv, TypeOK, Verbs
<1>2. CASE Leave(i) /\ Reply(i, verb, NoArg, 550)
  BY <1>1, <1>2, GrantedCodes, StaysUsed
<1>3. ASSUME NEW d \in Places, Reply(i, verb, NoArg, 250),
             Set(i, [connections[i] EXCEPT !.working_directory = d])
      PROVE  Used(i)
  <2>1. PICK k : k = [connections[i] EXCEPT !.working_directory = d]
    OBVIOUS
  <2>2. k \in Connection /\ k.user = connections[i].user /\ k.logged_in
    BY <1>1, <2>1 DEF Connection, LoggedIn
  <2>3. Set(i, k)
    BY <1>3, <2>1, Zenon
  <2> QED
    BY <1>1, <1>3, <2>2, <2>3, GrantedCodes, SetUsed
<1> QED
  BY <1>2, <1>3 DEF Move

\* PASV, PORT and the transfers touch the data socket only.
SocketSet(i, b) == Set(i, [connections[i] EXCEPT !.data_socket = b])

LEMMA SocketUsed ==
  ASSUME SessionInv, NEW i \in Slots, LoggedIn(i), NEW b \in BOOLEAN,
         NEW verb \in Verbs, NEW code \in Login!Granted,
         Reply(i, verb, NoArg, code), SocketSet(i, b)
  PROVE  Used(i)
<1>1. connections[i] \in Connection
  BY DEF SessionInv, TypeOK
<1>2. PICK k : k = [connections[i] EXCEPT !.data_socket = b]
  OBVIOUS
<1>3. k \in Connection
  BY <1>1, <1>2 DEF Connection
<1>4. k.user = connections[i].user /\ k.logged_in
  <2>1. PICK old \in Connection : old = connections[i]
    BY <1>1
  <2>2. k.user = old.user /\ k.logged_in = old.logged_in
    BY <1>2, <2>1 DEF Connection
  <2> QED
    BY <2>1, <2>2 DEF LoggedIn
<1>5. Set(i, k)
  BY <1>2, Zenon DEF SocketSet
<1> QED
  BY <1>3, <1>4, <1>5, SetUsed

SocketMade(i) == SocketSet(i, TRUE)
SocketGone(i) == SocketSet(i, FALSE)

SetsSocket(i, verb) ==
    /\ SocketMade(i) \/ SocketGone(i)
    /\ \E code \in Login!Granted : Reply(i, verb, NoArg, code)

Leaves(i, verb) ==
    Leave(i) /\ \E code \in Login!Granted : Reply(i, verb, NoArg, code)

LEMMA DataUsed ==
  ASSUME SessionInv, NEW i \in Slots, LoggedIn(i), NEW verb \in Verbs,
         SetsSocket(i, verb) \/ Leaves(i, verb)
  PROVE  Used(i)
<1>1. CASE SetsSocket(i, verb)
  <2>1. PICK code \in Login!Granted : Reply(i, verb, NoArg, code)
    BY <1>1 DEF SetsSocket
  <2>2. CASE SocketMade(i)
    BY <2>1, <2>2, SocketUsed DEF SocketMade
  <2>3. CASE SocketGone(i)
    BY <2>1, <2>3, SocketUsed DEF SocketGone
  <2> QED
    BY <1>1, <2>2, <2>3 DEF SetsSocket
<1>2. CASE Leaves(i, verb)
  BY <1>2, StaysUsed DEF Leaves
<1> QED
  BY <1>1, <1>2

LEMMA PasvUsed ==
  ASSUME SessionInv, NEW i \in Slots, PasvCommand(i)
  PROVE  Used(i)
<1>1. /\ LoggedIn(i)
      /\ \/ SocketMade(i) /\ Reply(i, "PASV", NoArg, 227)
         \/ SocketGone(i) /\ Reply(i, "PASV", NoArg, 451)
  BY Zenon DEF PasvCommand, SocketMade, SocketGone, SocketSet
<1>2. SetsSocket(i, "PASV")
  BY <1>1, GrantedCodes DEF SetsSocket
<1> QED
  BY <1>1, <1>2, DataUsed DEF Verbs

LEMMA PortUsed ==
  ASSUME SessionInv, NEW i \in Slots, PortCommand(i)
  PROVE  Used(i)
<1>1. /\ LoggedIn(i)
      /\ \/ Leave(i) /\ Reply(i, "PORT", NoArg, 500)
         \/ SocketMade(i) /\ Reply(i, "PORT", NoArg, 200)
         \/ SocketGone(i) /\ Reply(i, "PORT", NoArg, 451)
  BY Zenon DEF PortCommand, SocketMade, SocketGone, SocketSet
<1>2. SetsSocket(i, "PORT") \/ Leaves(i, "PORT")
  BY <1>1, GrantedCodes DEF SetsSocket, Leaves
<1> QED
  BY <1>1, <1>2, DataUsed DEF Verbs

LEMMA TransferUsed ==
  ASSUME SessionInv, NEW i \in Slots, NEW verb \in Transfers, Transfer(i, verb)
  PROVE  Used(i)
<1>1. /\ LoggedIn(i)
      /\ \/ Leave(i) /\ Reply(i, verb, NoArg, 425)
         \/ Leave(i) /\ \E code \in {451, 550} : Reply(i, verb, NoArg, code)
         \/ /\ SocketGone(i)
            /\ \E code \in {150, 425, 451, 550} : Reply(i, verb, NoArg, code)
  BY DEF Transfer, SocketGone, SocketSet
<1>2. SetsSocket(i, verb) \/ Leaves(i, verb)
  BY <1>1, GrantedCodes DEF SetsSocket, Leaves
<1> QED
  BY <1>1, <1>2, DataUsed DEF Verbs

LEMMA UsedKeeps ==
  ASSUME SessionInv, NEW i \in Slots, Serves(i), Used(i)
  PROVE  SessionInv'
<1>1. PICK verb \in Verbs, code \in Login!Granted, k \in Connection :
          /\ LoggedIn(i)
          /\ Becomes(i, k)
          /\ k.user = connections[i].user /\ k.logged_in
          /\ Reply(i, verb, NoArg, code)
  BY DEF Used
<1>2. reply' \in Replies
  BY <1>1, ReplyTyped DEF SessionInv, Words, Login!Granted
<1>3. Proper(k)
  BY <1>1, ServedProper DEF Proper, LoggedIn
<1> QED
  BY <1>1, <1>2, <1>3, ProperKept

LEMMA DeniedKeeps ==
  ASSUME SessionInv, NEW i \in Slots, Serves(i), NEW verb \in Verbs,
         PleaseLogin(i, verb)
  PROVE  SessionInv'
<1>1. reply' \in Replies
  BY ReplyTyped DEF SessionInv, PleaseLogin, Words
<1> QED
  BY <1>1, LeaveKeeps DEF PleaseLogin

LEMMA ConnectKeeps ==
  ASSUME SessionInv, NEW c \in Clients, Connect(c)
  PROVE  SessionInv'
<1>1. reply' \in Replies
  BY DEF Connect, Replies, Words
<1>2. ASSUME NEW i \in Slots, IsFirstFree(i), UNCHANGED ignored,
             fds' = [fds EXCEPT ![i] = c],
             connections' = [connections EXCEPT ![i] = Fresh]
      PROVE  SessionInv'
  <2>1. \A j \in Slots : /\ fds'[j] = IF j = i THEN c ELSE fds[j]
                         /\ connections'[j] = IF j = i THEN Fresh ELSE connections[j]
    BY <1>2 DEF SessionInv, TypeOK
  <2>2. TypeOK'
    BY <1>1, <1>2, FreshTyped DEF SessionInv, TypeOK, Replies
  <2>3. HeldOnce'
    BY <1>2, <2>1 DEF Connect, Away, SessionInv, HeldOnce, Serves
  <2>4. ~Fresh.logged_in
    BY DEF Fresh
  <2>5. UserKnown' /\ FreshUntilLogin'
    BY <2>1, <2>4 DEF SessionInv, UserKnown, FreshUntilLogin, Serves, LoggedIn
  <2> QED
    BY <2>2, <2>3, <2>5 DEF SessionInv
<1>3. CASE ignored' = ignored \cup {c} /\ UNCHANGED <<fds, connections>>
  <2>1. TypeOK'
    BY <1>1, <1>3 DEF SessionInv, TypeOK, Replies
  <2>2. HeldOnce'
    BY <1>3 DEF Connect, Away, SessionInv, HeldOnce, Serves
  <2>3. UserKnown' /\ FreshUntilLogin'
    BY <1>3 DEF SessionInv, UserKnown, FreshUntilLogin, Serves, LoggedIn
  <2> QED
    BY <2>1, <2>2, <2>3 DEF SessionInv
<1> QED
  BY <1>2, <1>3 DEF Connect

-----------------------------------------------------------------------------
(* The invariant.                                                          *)

\* What Execute(i) can be, for the proofs.
LEMMA Kinds ==
  ASSUME SessionInv, NEW i \in Slots, Execute(i)
  PROVE  /\ Serves(i)
         /\ \/ Quit(i)
            \/ \E name \in Names : UserCommand(i, name)
            \/ \E password \in Words : PassCommand(i, password)
            \/ \E verb \in Verbs : PleaseLogin(i, verb)
            \/ Used(i)
BY AnsweredUsed, TypeUsed, MoveUsed, PasvUsed, PortUsed, TransferUsed DEF Execute, Serves

LEMMA ExecuteKeeps ==
  ASSUME SessionInv, NEW i \in Slots, Execute(i)
  PROVE  SessionInv'
BY Kinds, QuitKeeps, UserKeeps, PassKeeps, DeniedKeeps, UsedKeeps

LEMMA SessionInvHolds == Spec => []SessionInv
<1>1. Init => SessionInv
  BY SessionAssumption DEF Init, SessionInv, TypeOK, HeldOnce, UserKnown,
     FreshUntilLogin, Serves, Slots, Words
<1>2. SessionInv /\ [Next]_vars => SessionInv'
  <2>1. SessionInv /\ Next => SessionInv'
    BY ConnectKeeps, ExecuteKeeps DEF Next
  <2>2. SessionInv /\ UNCHANGED vars => SessionInv'
    BY DEF SessionInv, vars, TypeOK, HeldOnce, UserKnown, FreshUntilLogin, Serves,
       LoggedIn
  <2> QED
    BY <2>1, <2>2
<1> QED
  BY <1>1, <1>2, PTL DEF Spec

\* No handler, and no new client in an old slot, leaves connections[] or a reply
\* outside its type.
THEOREM SessionTypeCorrect == Spec => []TypeOK
BY SessionInvHolds, PTL DEF SessionInv

\* Whoever is logged in (logged_in, set by process_login alone) is so by one of
\* the names process_login accepts.
THEOREM UserAlwaysKnown == Spec => []UserKnown
BY SessionInvHolds, PTL DEF SessionInv

\* A session that is not logged in is as init_connection has made it, whoever had
\* the slot before.
THEOREM AlwaysFreshUntilLogin == Spec => []FreshUntilLogin
BY SessionInvHolds, PTL DEF SessionInv

-----------------------------------------------------------------------------
(* The login, as SessionAccess sees it.                                    *)

AccessStep == [Login!AccessNext]_(Login!accessVars)

Holds(c) == \E i \in Slots : fds[i] = c

SettingOf(c) == IF Holds(c) THEN Setting(connections[SlotOf(c)]) ELSE Setting(Fresh)

StageOf    == [c \in Clients |-> Stage(c)]
SettingsOf == [c \in Clients |-> SettingOf(c)]

\* How far the client of slot i has got.
StageAt(connection) ==
    IF connection.logged_in THEN "in"
    ELSE IF connection.user \in Right THEN "named" ELSE "out"

LEMMA OneSlot ==
  ASSUME NEW f, NEW i \in Slots, \A j \in Slots : f[i] = f[j] => i = j
  PROVE  (CHOOSE j \in Slots : f[j] = f[i]) = i
<1>1. \E j \in Slots : f[j] = f[i]
  OBVIOUS
<1> QED
  BY <1>1

LEMMA Look ==
  ASSUME SessionInv, NEW i \in Slots, Serves(i)
  PROVE  /\ fds[i] \in Clients
         /\ Stage(fds[i]) = StageAt(connections[i])
         /\ SettingOf(fds[i]) = Setting(connections[i])
<1>1. fds[i] \in Clients /\ fds[i] \notin ignored
  BY DEF SessionInv, TypeOK, HeldOnce, Serves
<1>2. \A j \in Slots : fds[i] = fds[j] => i = j
  BY DEF SessionInv, HeldOnce
<1>3. SlotOf(fds[i]) = i
  BY <1>2, OneSlot DEF SlotOf
<1> QED
  BY <1>1, <1>3 DEF Stage, Away, StageAt, LoggedIn, SettingOf, Holds

LEMMA LookAfter ==
  ASSUME SessionInv', NEW i \in Slots, NEW c \in Clients, fds'[i] = c
  PROVE  /\ Stage(c)' = StageAt(connections'[i])
         /\ SettingOf(c)' = Setting(connections'[i])
<1>1. c \notin ignored' /\ c # NoClient
  BY SessionAssumption DEF SessionInv, HeldOnce
<1>2. \A j \in Slots : fds'[i] = fds'[j] => i = j
  BY <1>1 DEF SessionInv, HeldOnce, Serves
<1>3. SlotOf(c)' = i
  BY <1>2, OneSlot DEF SlotOf
<1>4. ~Away(c)' /\ Holds(c)'
  BY DEF Away, Holds
<1>5. Stage(c)' = StageAt(connections'[i])
  BY <1>1, <1>3, <1>4 DEF Stage, StageAt, LoggedIn
<1> QED
  BY <1>3, <1>4, <1>5 DEF SettingOf

\* A client that has a slot, is ignored, or is away stays so, and its session with
\* it, when only the connection of slot i changes.
LEMMA OthersStay ==
  ASSUME SessionInv, SessionInv', NEW i \in Slots, Serves(i), NEW k, Becomes(i, k),
         NEW c \in Clients, c # fds[i]
  PROVE  Stage(c)' = Stage(c) /\ SettingOf(c)' = SettingOf(c)
<1>1. CASE Holds(c)
  <2>1. PICK j \in Slots : fds[j] = c
    BY <1>1 DEF Holds
  <2>2. Serves(j) /\ j # i
    BY <2>1, SessionAssumption DEF Serves
  <2>3. fds'[j] = c /\ connections'[j] = connections[j]
    BY <2>1, <2>2 DEF Becomes, SessionInv, TypeOK
  <2> QED
    BY <2>1, <2>2, <2>3, Look, LookAfter
<1>2. CASE ~Holds(c)
  <2>1. ~Holds(c)' /\ Away(c)' = Away(c) /\ (c \in ignored' <=> c \in ignored)
    BY <1>2 DEF Holds, Away, Becomes
  <2>2. ~Away(c) => c \in ignored
    BY <1>2 DEF Away, Holds
  <2> QED
    BY <1>2, <2>1, <2>2 DEF Stage, SettingOf
<1> QED
  BY <1>1, <1>2

\* What the login sees of a command that sets the connection of slot i to k.
LEMMA Seen ==
  ASSUME SessionInv, SessionInv', NEW i \in Slots, Serves(i), NEW k, Becomes(i, k)
  PROVE  /\ StageOf' = [StageOf EXCEPT ![fds[i]] = StageAt(k)]
         /\ SettingsOf' = [SettingsOf EXCEPT ![fds[i]] = Setting(k)]
<1>1. fds[i] \in Clients
  BY Look
<1>2. fds'[i] = fds[i] /\ connections'[i] = k
  BY DEF Becomes, SessionInv, TypeOK
<1>3. PICK c \in Clients : c = fds[i]
  BY <1>1
<1>4. Stage(c)' = StageAt(k) /\ SettingOf(c)' = Setting(k)
  BY <1>2, <1>3, LookAfter
<1>5. \A d \in Clients \ {c} : Stage(d)' = Stage(d) /\ SettingOf(d)' = SettingOf(d)
  BY <1>3, OthersStay
<1> QED
  BY <1>3, <1>4, <1>5 DEF StageOf, SettingsOf

\* A reply, as an answer.
LEMMA ReplyAnswers ==
  ASSUME SessionInv, NEW i \in Slots, Serves(i), NEW verb, NEW arg, NEW code,
         NEW codes, code \in codes, Reply(i, verb, arg, code)
  PROVE  Login!Answers(fds[i], verb, arg, codes)
BY DEF Reply, Login!Answers

LEMMA LeaveUnseen ==
  ASSUME NEW i, Leave(i)
  PROVE  StageOf' = StageOf /\ SettingsOf' = SettingsOf
BY DEF Leave, StageOf, SettingsOf, Stage, SettingOf, Away, SlotOf, Holds, LoggedIn

LEMMA UserStep ==
  ASSUME SessionInv, SessionInv', NEW i \in Slots, Serves(i), NEW name \in Names,
         UserCommand(i, name)
  PROVE  AccessStep
<1>1. PICK c \in Clients : c = fds[i]
  BY Look
<1>2. Stage(c) = StageAt(connections[i])
  BY <1>1, Look
<1>3. CASE LoggedIn(i) /\ Reply(i, "USER", name, 530) /\ Leave(i)
  <2>1. Login!Answers(c, "USER", name, {530})
    BY <1>1, <1>3, ReplyAnswers
  <2>2. StageOf' = StageOf /\ SettingsOf' = SettingsOf
    BY <1>3, LeaveUnseen
  <2>3. StageOf[c] = "in"
    BY <1>2, <1>3 DEF StageOf, StageAt, LoggedIn
  <2>4. Login!GiveName(c, name)
    BY <2>1, <2>2, <2>3 DEF Login!GiveName, StageOf, SettingsOf, SettingOf, Holds
  <2> QED
    BY <2>4 DEF AccessStep, Login!AccessNext
<1>4. CASE /\ ~LoggedIn(i) /\ Reply(i, "USER", name, 331)
           /\ Set(i, [connections[i] EXCEPT !.user = IF name = NoArg THEN Null ELSE name])
  <2>1. Login!Answers(c, "USER", name, {331})
    BY <1>1, <1>4, ReplyAnswers
  <2>2. PICK k : k = [connections[i] EXCEPT !.user = IF name = NoArg THEN Null ELSE name]
    OBVIOUS
  <2>3. Becomes(i, k)
    BY <1>4, <2>2 DEF Set, Becomes
  <2>4. Proper(connections[i])
    BY ServedProper
  <2>5. /\ StageAt(k) = IF name \in Right THEN "named" ELSE "out"
        /\ Setting(k) = Setting(connections[i])
    BY <1>4, <2>2, <2>4 DEF Proper, Connection, LoggedIn, StageAt, Setting, Right, Null, NoArg
  <2>6. /\ StageOf' = [StageOf EXCEPT ![c] = IF name \in Right THEN "named" ELSE "out"]
        /\ SettingsOf' = [SettingsOf EXCEPT ![c] = Setting(connections[i])]
    BY <1>1, <2>3, <2>5, Seen
  <2>7. SettingsOf' = SettingsOf
    BY <1>1, <2>6, Look DEF SettingsOf
  <2>8. StageOf[c] \in {"out", "named"}
    BY <1>2, <1>4 DEF StageOf, StageAt, LoggedIn
  <2>9. Login!GiveName(c, name)
    BY <2>1, <2>6, <2>7, <2>8
    DEF Login!GiveName, Login!Present, StageOf, SettingsOf, SettingOf, Holds
  <2> QED
    BY <2>9 DEF AccessStep, Login!AccessNext
<1> QED
  BY <1>3, <1>4 DEF UserCommand

LEMMA PassStep ==
  ASSUME SessionInv, SessionInv', NEW i \in Slots, Serves(i), NEW password \in Words,
         PassCommand(i, password)
  PROVE  AccessStep
<1>1. PICK c \in Clients : c = fds[i]
  BY Look
<1>2. StageOf[c] = StageAt(connections[i]) /\ SettingsOf[c] = Setting(connections[i])
  BY <1>1, Look DEF StageOf, SettingsOf
<1>3. Proper(connections[i])
  BY ServedProper
<1> SUFFICES Login!GivePassword(c, password)
  BY DEF AccessStep, Login!AccessNext
<1>4. CASE LoggedIn(i) /\ Reply(i, "PASS", password, 230) /\ Leave(i)
  <2>1. Login!Answers(c, "PASS", password, {230})
    BY <1>1, <1>4, ReplyAnswers
  <2>2. StageOf' = StageOf /\ SettingsOf' = SettingsOf
    BY <1>4, LeaveUnseen
  <2>3. StageOf[c] = "in" /\ StageOf' = [StageOf EXCEPT ![c] = "in"]
    BY <1>2, <1>4, <2>2 DEF StageOf, StageAt, LoggedIn
  <2> QED
    BY <2>1, <2>2, <2>3 DEF Login!GivePassword, StageOf, SettingsOf, SettingOf, Holds
<1>5. CASE /\ ~LoggedIn(i) /\ connections[i].user = Null
           /\ Reply(i, "PASS", password, 503) /\ Leave(i)
  <2>1. Login!Answers(c, "PASS", password, {503, 530})
    BY <1>1, <1>5, ReplyAnswers
  <2>2. StageOf' = StageOf /\ SettingsOf' = SettingsOf
    BY <1>5, LeaveUnseen
  <2>3. StageOf[c] = "out" /\ StageOf' = [StageOf EXCEPT ![c] = "out"]
    BY <1>2, <1>5, <2>2 DEF StageOf, StageAt, LoggedIn, Null, Right
  <2> QED
    BY <2>1, <2>2, <2>3 DEF Login!GivePassword, StageOf, SettingsOf, SettingOf, Holds
<1>6. CASE /\ ~LoggedIn(i) /\ connections[i].user \in Right /\ password = Password
           /\ Set(i, [connections[i] EXCEPT !.logged_in = TRUE])
           /\ Reply(i, "PASS", password, 230)
  <2>1. Login!Answers(c, "PASS", password, {230})
    BY <1>1, <1>6, ReplyAnswers
  <2>2. PICK k : k = [connections[i] EXCEPT !.logged_in = TRUE]
    OBVIOUS
  <2>3. Becomes(i, k)
    BY <1>6, <2>2 DEF Set, Becomes
  <2>4. StageAt(k) = "in" /\ Setting(k) = SettingsOf[c]
    BY <1>2, <1>3, <2>2 DEF Proper, Connection, StageAt, Setting
  <2>5. /\ StageOf' = [StageOf EXCEPT ![c] = "in"]
        /\ SettingsOf' = [SettingsOf EXCEPT ![c] = SettingsOf[c]]
    BY <1>1, <2>3, <2>4, Seen
  <2>6. StageOf[c] = "named"
    BY <1>2, <1>6 DEF StageAt, LoggedIn
  <2>7. SettingsOf' = SettingsOf
    BY <2>5 DEF SettingsOf
  <2> QED
    BY <1>6, <2>1, <2>5, <2>6, <2>7
    DEF Login!GivePassword, StageOf, SettingsOf, SettingOf, Holds
<1>7. CASE /\ ~LoggedIn(i)
           /\ connections[i].user \notin Right \/ password # Password
           /\ Set(i, [connections[i] EXCEPT !.user = Null])
           /\ Reply(i, "PASS", password, 530)
  <2>1. Login!Answers(c, "PASS", password, {503, 530})
    BY <1>1, <1>7, ReplyAnswers
  <2>2. PICK k : k = [connections[i] EXCEPT !.user = Null]
    OBVIOUS
  <2>3. Becomes(i, k)
    BY <1>7, <2>2 DEF Set, Becomes
  <2>4. StageAt(k) = "out" /\ Setting(k) = SettingsOf[c]
    BY <1>2, <1>3, <1>7, <2>2
    DEF Proper, Connection, StageAt, Setting, LoggedIn, Null, Right
  <2>5. /\ StageOf' = [StageOf EXCEPT ![c] = "out"]
        /\ SettingsOf' = [SettingsOf EXCEPT ![c] = SettingsOf[c]]
    BY <1>1, <2>3, <2>4, Seen
  <2>6. StageOf[c] = "out" \/ (StageOf[c] = "named" /\ password # Password)
    BY <1>2, <1>7 DEF StageAt, LoggedIn
  <2>7. SettingsOf' = SettingsOf
    BY <2>5 DEF SettingsOf
  <2> QED
    BY <2>1, <2>5, <2>6, <2>7
    DEF Login!GivePassword, StageOf, SettingsOf, SettingOf, Holds
<1> QED
  BY <1>4, <1>5, <1>6, <1>7 DEF PassCommand

LEMMA DeniedStep ==
  ASSUME SessionInv, NEW i \in Slots, Serves(i), NEW verb \in Verbs,
         PleaseLogin(i, verb)
  PROVE  AccessStep
<1>1. PICK c \in Clients : c = fds[i]
  BY Look
<1>2. Login!Answers(c, verb, "", {530})
  <2>1. Reply(i, verb, NoArg, 530)
    BY DEF PleaseLogin
  <2>2. Login!Answers(fds[i], verb, NoArg, {530})
    BY <2>1, ReplyAnswers
  <2> QED
    BY <1>1, <2>2 DEF NoArg
<1>3. StageOf' = StageOf /\ SettingsOf' = SettingsOf
  BY LeaveUnseen DEF PleaseLogin
<1>4. StageOf[c] \in {"out", "named"}
  BY <1>1, Look DEF StageOf, StageAt, PleaseLogin, LoggedIn
<1>5. Login!Use(c, verb)
  BY <1>2, <1>3, <1>4
  DEF Login!Use, Login!Present, StageOf, SettingsOf, SettingOf, Holds
<1> QED
  BY <1>5 DEF AccessStep, Login!AccessNext

Settings == [transfer_mode : Modes, data_socket : BOOLEAN,
             working_directory : Places]

LEMMA SettingsTyped ==
  ASSUME SessionInv
  PROVE  SettingsOf \in [Clients -> Settings]
<1>1. ASSUME NEW k \in Connection PROVE Setting(k) \in Settings
  BY DEF Connection, Setting, Settings
<1>2. \A c \in Clients : Holds(c) => connections[SlotOf(c)] \in Connection
  BY DEF SessionInv, TypeOK, Holds, SlotOf
<1> QED
  BY <1>1, <1>2, FreshTyped DEF SettingsOf, SettingOf

LEMMA UsedStep ==
  ASSUME SessionInv, SessionInv', NEW i \in Slots, Serves(i), Used(i)
  PROVE  AccessStep
<1>1. PICK c \in Clients : c = fds[i]
  BY Look
<1>2. PICK verb \in Verbs, code \in Login!Granted, k \in Connection :
          /\ LoggedIn(i)
          /\ Becomes(i, k)
          /\ k.user = connections[i].user /\ k.logged_in
          /\ Reply(i, verb, NoArg, code)
  BY DEF Used
<1>3. Login!Answers(c, verb, "", Login!Granted)
  <2>1. Login!Answers(fds[i], verb, NoArg, Login!Granted)
    BY <1>2, ReplyAnswers
  <2> QED
    BY <1>1, <2>1 DEF NoArg
<1>4. StageOf[c] = "in"
  BY <1>1, <1>2, Look DEF StageOf, StageAt, LoggedIn
<1>5. StageAt(k) = "in"
  BY <1>2 DEF StageAt
<1>6. /\ StageOf' = [StageOf EXCEPT ![c] = "in"]
      /\ SettingsOf' = [SettingsOf EXCEPT ![c] = Setting(k)]
  BY <1>1, <1>2, <1>5, Seen
<1>7. StageOf' = StageOf
  <2>1. StageOf = [d \in Clients |-> StageOf[d]]
    BY DEF StageOf
  <2> QED
    BY <1>4, <1>6, <2>1
<1>8. \A d \in Clients \ {c} : SettingsOf'[d] = SettingsOf[d]
  <2>1. SettingsOf = [d \in Clients |-> SettingsOf[d]]
    BY DEF SettingsOf
  <2> QED
    BY <1>6, <2>1
<1>9. Setting(k) \in Settings
  BY DEF Connection, Setting, Settings
<1>10. SettingsOf' \in [Clients -> Settings]
  BY <1>6, <1>9, SettingsTyped
<1>11. Login!Use(c, verb)
  BY <1>3, <1>4, <1>7, <1>8, <1>10
  DEF Login!Use, StageOf, SettingsOf, SettingOf, Holds, Settings
<1> QED
  BY <1>11 DEF AccessStep, Login!AccessNext

\* A client whose slot is not the one that changes.
LEMMA ElsewhereStays ==
  ASSUME SessionInv, SessionInv', NEW i \in Slots, NEW c \in Clients,
         fds[i] # c, fds'[i] # c, c \in ignored' <=> c \in ignored,
         \A j \in Slots \ {i} : fds'[j] = fds[j] /\ connections'[j] = connections[j]
  PROVE  Stage(c)' = Stage(c) /\ SettingOf(c)' = SettingOf(c)
<1>1. CASE Holds(c)
  <2>1. PICK j \in Slots : fds[j] = c
    BY <1>1 DEF Holds
  <2>2. Serves(j) /\ j # i /\ fds'[j] = c /\ connections'[j] = connections[j]
    BY <2>1, SessionAssumption DEF Serves
  <2> QED
    BY <2>1, <2>2, Look, LookAfter
<1>2. CASE ~Holds(c)
  <2>1. ~Holds(c)' /\ (Away(c)' <=> Away(c)) /\ (~Away(c) => c \in ignored)
    BY <1>2 DEF Holds, Away
  <2> QED
    BY <1>2, <2>1 DEF Stage, SettingOf
<1> QED
  BY <1>1, <1>2

LEMMA QuitStep ==
  ASSUME SessionInv, SessionInv', NEW i \in Slots, Serves(i), Quit(i)
  PROVE  AccessStep
<1>1. PICK c \in Clients : c = fds[i]
  BY Look
<1>2. Login!Answers(c, "QUIT", "", {221})
  BY <1>1, ReplyAnswers DEF Quit, NoArg
<1>3. StageOf[c] \in {"out", "named", "in"}
  BY <1>1, Look DEF StageOf, StageAt
<1>4. \A j \in Slots : fds'[j] = IF j = i THEN NoClient ELSE fds[j]
  BY DEF Quit, SessionInv, TypeOK
<1>5. Stage(c)' = "away" /\ SettingOf(c)' = Setting(Fresh)
  <2>1. \A j \in Slots : fds'[j] # c
    BY <1>1, <1>4, SessionAssumption DEF SessionInv, HeldOnce, Serves
  <2>2. c \notin ignored'
    BY <1>1 DEF Quit, SessionInv, HeldOnce
  <2> QED
    BY <2>1, <2>2 DEF Stage, Away, SettingOf, Holds
<1>6. \A d \in Clients \ {c} : Stage(d)' = Stage(d) /\ SettingOf(d)' = SettingOf(d)
  BY <1>1, <1>4, ElsewhereStays, SessionAssumption DEF Quit
<1>7. /\ StageOf' = [StageOf EXCEPT ![c] = "away"]
      /\ SettingsOf' = [SettingsOf EXCEPT ![c] = Setting(Fresh)]
  BY <1>5, <1>6 DEF StageOf, SettingsOf
<1>8. Login!Leave(c)
  BY <1>2, <1>3, <1>7
  DEF Login!Leave, Login!Present, StageOf, SettingsOf, SettingOf, Holds
<1> QED
  BY <1>8 DEF AccessStep, Login!AccessNext

LEMMA ConnectStep ==
  ASSUME SessionInv, SessionInv', NEW c \in Clients, Connect(c)
  PROVE  AccessStep
<1>1. Login!Answers(c, "connect", "", {220})
  BY DEF Connect, Login!Answers, NoArg
<1>2. StageOf[c] = "away" /\ ~Holds(c)
  BY DEF Connect, Away, Stage, StageOf, Holds
<1>3. /\ StageOf' = [StageOf EXCEPT ![c] = "out"] \/ StageOf' = [StageOf EXCEPT ![c] = "ignored"]
      /\ SettingsOf' = SettingsOf
  <2>1. ASSUME NEW i \in Slots, IsFirstFree(i), UNCHANGED ignored,
               fds' = [fds EXCEPT ![i] = c],
               connections' = [connections EXCEPT ![i] = Fresh]
        PROVE  StageOf' = [StageOf EXCEPT ![c] = "out"] /\ SettingsOf' = SettingsOf
    <3>1. \A j \in Slots : /\ fds'[j] = IF j = i THEN c ELSE fds[j]
                           /\ connections'[j] = IF j = i THEN Fresh ELSE connections[j]
      BY <2>1 DEF SessionInv, TypeOK
    <3>2. StageAt(Fresh) = "out"
      BY DEF Fresh, StageAt, Null, Right
    <3>3. Stage(c)' = "out" /\ SettingOf(c)' = SettingOf(c)
      BY <1>2, <3>1, <3>2, LookAfter DEF SettingOf
    <3>4. fds[i] = NoClient
      BY <2>1 DEF IsFirstFree
    <3>5. \A d \in Clients \ {c} : Stage(d)' = Stage(d) /\ SettingOf(d)' = SettingOf(d)
      BY <2>1, <3>1, <3>4, ElsewhereStays, SessionAssumption
    <3> QED
      BY <3>3, <3>5 DEF StageOf, SettingsOf
  <2>2. ASSUME ignored' = ignored \cup {c}, UNCHANGED <<fds, connections>>
        PROVE  StageOf' = [StageOf EXCEPT ![c] = "ignored"] /\ SettingsOf' = SettingsOf
    <3>1. Stage(c)' = "ignored"
      BY <2>2 DEF Stage, Away
    <3>2. \A d \in Clients \ {c} : Stage(d)' = Stage(d)
      BY <2>2 DEF Stage, Away, LoggedIn, SlotOf
    <3>3. \A d \in Clients : SettingOf(d)' = SettingOf(d)
      BY <2>2 DEF SettingOf, Holds, SlotOf
    <3> QED
      BY <3>1, <3>2, <3>3 DEF StageOf, SettingsOf
  <2> QED
    BY <2>1, <2>2 DEF Connect
<1>4. Login!Enter(c)
  BY <1>1, <1>2, <1>3 DEF Login!Enter, StageOf, SettingsOf, SettingOf, Holds
<1> QED
  BY <1>4 DEF AccessStep, Login!AccessNext

LEMMA ExecuteStep ==
  ASSUME SessionInv, SessionInv', NEW i \in Slots, Execute(i)
  PROVE  AccessStep
BY Kinds, QuitStep, UserStep, PassStep, DeniedStep, UsedStep

\* The slots implement SessionAccess, for every number of clients and slots and
\* all names: no order of connections, logins, failed logins, commands and QUITs,
\* each handler being one step of the server process, gives a client more than its
\* own USER and PASS have earned.
THEOREM AccessKept == Spec => KeepsAccess
<1>1. Init => Login!AccessInit
  <2>1. ASSUME Init PROVE \A c \in Clients : Stage(c) = "away" /\ SettingOf(c) = Setting(Fresh)
    BY <2>1, SessionAssumption DEF Init, Stage, Away, SettingOf, Holds
  <2> QED
    BY <2>1 DEF Login!AccessInit, Init, NoArg, SettingOf, Holds
<1>2. SessionInv /\ SessionInv' /\ [Next]_vars => AccessStep
  <2>1. SessionInv /\ SessionInv' /\ Next => AccessStep
    BY ConnectStep, ExecuteStep DEF Next
  <2>2. UNCHANGED vars => AccessStep
    BY DEF vars, AccessStep, Login!accessVars, Stage, Away, LoggedIn, SlotOf
  <2> QED
    BY <2>1, <2>2
<1> QED
  BY <1>1, <1>2, SessionInvHolds, PTL DEF Spec, KeepsAccess, Login!Access, AccessStep

=============================================================================
