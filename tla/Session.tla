------------------------------ MODULE Session ------------------------------
(***************************************************************************)
(* The connection_t of each slot: who is logged in, and what a session has *)
(* made of it.  A slot is used again after a QUIT, and what was in it is    *)
(* left there.  One action is one line, from the look-up of its handler to *)
(* the reply; how lines get here is ControlLoop's matter, what a directory *)
(* or a data socket is that of WorkingDirectory and DataChannel.  A        *)
(* connection that is lost keeps its slot: only QUIT frees one.            *)
(*                                                                         *)
(* Definitions ending in _Faulty are mistakes the property named in their  *)
(* comment excludes; they are not part of the model.                       *)
(***************************************************************************)
EXTENDS Naturals

CONSTANTS Clients, NoClient,
          MaxClients,     \* MAX_CLIENTS
          Root, Places,   \* the server's directory, and those a session may be in
          Names           \* bound: what clients say after USER

ASSUME SessionAssumption ==
    /\ NoClient \notin Clients
    /\ MaxClients \in Nat
    /\ Root \in Places
    /\ "NULL" \notin Names

VARIABLES fds,          \* the client of each slot
          connections,  \* what the slot knows of it
          ignored,      \* clients that were accepted when every slot was taken
          reply         \* the latest reply: to whom, to which line, which code

vars == <<fds, connections, ignored, reply>>

Slots == 1..MaxClients

\* user is NULL; an argument is missing.
Null  == "NULL"
NoArg == ""

Right    == {"anonymous", "Anonymous"}
Password == NoArg
Words    == {NoArg, "anonymous"}

\* Commands whose handler begins with the test of logged_in, and "?" for lines
\* that name no command.
Plain     == {"PWD", "NOOP", "HELP", "DELE", "?"}
Transfers == {"LIST", "RETR", "STOR"}
Moves     == {"CWD", "CDUP"}
Verbs     == Plain \cup Transfers \cup Moves \cup {"PASV", "PORT", "TYPE"}

Modes == {"ASCII", "BINARY"}

Connection == [user : (Names \ {NoArg}) \cup {Null}, logged_in : BOOLEAN,
               transfer_mode : Modes, data_socket : BOOLEAN,
               working_directory : Places]

TypeOK ==
    /\ fds \in [Slots -> Clients \cup {NoClient}]
    /\ connections \in [Slots -> Connection]
    /\ ignored \subseteq Clients
    /\ reply \in [client : Clients, verb : Verbs \cup {"none", "connect", "USER", "PASS", "QUIT"},
                  arg : Names \cup Words, code : 0..599]

Reply(i, verb, arg, code) ==
    reply' = [client |-> fds[i], verb |-> verb, arg |-> arg, code |-> code]

\* The array of process_connections is not initialised: anything may be in it.
Init ==
    /\ fds = [i \in Slots |-> NoClient]
    /\ connections \in [Slots -> Connection]
    /\ ignored = {}
    /\ \E c \in Clients : reply = [client |-> c, verb |-> "none", arg |-> NoArg, code |-> 0]

-----------------------------------------------------------------------------
(* Connections come and go.                                                *)

\* The directory is not set (TypeOK).
Fresh_Faulty == [user |-> Null, logged_in |-> FALSE, transfer_mode |-> "BINARY",
                 data_socket |-> FALSE, working_directory |-> Null]

\* init_connection.
Fresh == [user |-> Null, logged_in |-> FALSE, transfer_mode |-> "BINARY",
          data_socket |-> FALSE, working_directory |-> Root]

Away(c) == c \notin ignored /\ \A i \in Slots : fds[i] # c

IsFirstFree(i) == fds[i] = NoClient /\ \A j \in Slots : j < i => fds[j] # NoClient

\* The slot keeps what it held (FreshUntilLogin).
Connect_Faulty(c) ==
    /\ Away(c)
    /\ \E i \in Slots :
        /\ IsFirstFree(i)
        /\ fds' = [fds EXCEPT ![i] = c]
        /\ connections' = [connections EXCEPT ![i].working_directory = Root]
    /\ reply' = [client |-> c, verb |-> "connect", arg |-> NoArg, code |-> 220]
    /\ UNCHANGED ignored

\* accept_new_connection.
Connect(c) ==
    /\ Away(c)
    /\ reply' = [client |-> c, verb |-> "connect", arg |-> NoArg, code |-> 220]
    /\ \/ \E i \in Slots :
            /\ IsFirstFree(i)
            /\ fds' = [fds EXCEPT ![i] = c]
            /\ connections' = [connections EXCEPT ![i] = Fresh]
            /\ UNCHANGED ignored
       \/ /\ \A i \in Slots : fds[i] # NoClient
          /\ ignored' = ignored \cup {c}
          /\ UNCHANGED <<fds, connections>>

\* QUIT, before or after a login: 221, and the slot is free.
Quit(i) ==
    /\ fds' = [fds EXCEPT ![i] = NoClient]
    /\ Reply(i, "QUIT", NoArg, 221)
    /\ UNCHANGED <<connections, ignored>>

-----------------------------------------------------------------------------
(* Logging in.                                                             *)

LoggedIn(i) == connections[i].logged_in

Set(i, connection) ==
    /\ connections' = [connections EXCEPT ![i] = connection]
    /\ UNCHANGED <<fds, ignored>>

Leave(i) == UNCHANGED <<fds, connections, ignored>>

\* The name may change after the login (UserKnown).
UserCommand_Faulty(i, name) ==
    /\ Set(i, [connections[i] EXCEPT !.user = IF name = NoArg THEN Null ELSE name])
    /\ Reply(i, "USER", name, 331)

UserCommand(i, name) ==
    \/ /\ LoggedIn(i)
       /\ Reply(i, "USER", name, 530)
       /\ Leave(i)
    \/ /\ ~LoggedIn(i)
       /\ Set(i, [connections[i] EXCEPT !.user = IF name = NoArg THEN Null ELSE name])
       /\ Reply(i, "USER", name, 331)

\* A login that was refused leaves the name (KeepsAccess).
PassCommand_Faulty(i, password) ==
    /\ ~LoggedIn(i)
    /\ IF connections[i].user \in Right /\ password = Password
       THEN /\ Set(i, [connections[i] EXCEPT !.logged_in = TRUE])
            /\ Reply(i, "PASS", password, 230)
       ELSE /\ Leave(i)
            /\ Reply(i, "PASS", password, 530)

\* A login that was refused takes the name back.
PassCommand(i, password) ==
    LET connection == connections[i]
        user == connection.user IN
    \/ /\ LoggedIn(i)
       /\ Reply(i, "PASS", password, 230)
       /\ Leave(i)
    \/ /\ ~LoggedIn(i)
       /\ user = Null
       /\ Reply(i, "PASS", password, 503)
       /\ Leave(i)
    \/ /\ ~LoggedIn(i)
       /\ user \in Right /\ password = Password
       /\ Set(i, [connection EXCEPT !.logged_in = TRUE])
       /\ Reply(i, "PASS", password, 230)
    \/ /\ ~LoggedIn(i)
       /\ user # Null
       /\ user \notin Right \/ password # Password
       /\ Set(i, [connection EXCEPT !.user = Null])
       /\ Reply(i, "PASS", password, 530)

-----------------------------------------------------------------------------
(* The other commands.                                                     *)

\* The test every handler begins with, and not_found_message.
PleaseLogin(i, verb) ==
    /\ ~LoggedIn(i)
    /\ Reply(i, verb, NoArg, 530)
    /\ Leave(i)

\* Carried out, the session being left as it is.
Answered(i, verb, codes) ==
    /\ LoggedIn(i)
    /\ \E code \in codes : Reply(i, verb, NoArg, code)
    /\ Leave(i)

PwdCommand(i)     == Answered(i, "PWD", {257})
NoopCommand(i)    == Answered(i, "NOOP", {200})
HelpCommand(i)    == Answered(i, "HELP", {214})
DeleCommand(i)    == Answered(i, "DELE", {250, 550})
UnknownCommand(i) == Answered(i, "?", {500})

TypeCommand(i) ==
    /\ LoggedIn(i)
    /\ \/ /\ \E mode \in Modes :
                Set(i, [connections[i] EXCEPT !.transfer_mode = mode])
          /\ Reply(i, "TYPE", NoArg, 200)
       \/ /\ Reply(i, "TYPE", NoArg, 500)
          /\ Leave(i)

\* CWD and CDUP.
Move(i, verb) ==
    /\ LoggedIn(i)
    /\ \/ /\ \E d \in Places : Set(i, [connections[i] EXCEPT !.working_directory = d])
          /\ Reply(i, verb, NoArg, 250)
       \/ /\ Reply(i, verb, NoArg, 550)
          /\ Leave(i)

PasvCommand(i) ==
    /\ LoggedIn(i)
    /\ \/ /\ Set(i, [connections[i] EXCEPT !.data_socket = TRUE])
          /\ Reply(i, "PASV", NoArg, 227)
       \/ /\ Set(i, [connections[i] EXCEPT !.data_socket = FALSE])
          /\ Reply(i, "PASV", NoArg, 451)

PortCommand(i) ==
    /\ LoggedIn(i)
    /\ \/ /\ Reply(i, "PORT", NoArg, 500)
          /\ Leave(i)
       \/ /\ Set(i, [connections[i] EXCEPT !.data_socket = TRUE])
          /\ Reply(i, "PORT", NoArg, 200)
       \/ /\ Set(i, [connections[i] EXCEPT !.data_socket = FALSE])
          /\ Reply(i, "PORT", NoArg, 451)

\* LIST, RETR and STOR: refused beforehand, or the data socket is used up; the
\* code is that of the first reply.
Transfer(i, verb) ==
    /\ LoggedIn(i)
    /\ \/ /\ ~connections[i].data_socket
          /\ Reply(i, verb, NoArg, 425)
          /\ Leave(i)
       \/ /\ connections[i].data_socket
          /\ \E code \in {451, 550} : Reply(i, verb, NoArg, code)
          /\ Leave(i)
       \/ /\ connections[i].data_socket
          /\ Set(i, [connections[i] EXCEPT !.data_socket = FALSE])
          /\ \E code \in {150, 425, 451, 550} : Reply(i, verb, NoArg, code)

-----------------------------------------------------------------------------
\* execute_command for the client of slot i.
Execute(i) ==
    /\ fds[i] # NoClient
    /\ \/ Quit(i)
       \/ \E name \in Names : UserCommand(i, name)
       \/ \E password \in Words : PassCommand(i, password)
       \/ \E verb \in Verbs : PleaseLogin(i, verb)
       \/ PwdCommand(i) \/ NoopCommand(i) \/ HelpCommand(i) \/ DeleCommand(i)
       \/ UnknownCommand(i)
       \/ TypeCommand(i) \/ PasvCommand(i) \/ PortCommand(i)
       \/ \E verb \in Moves : Move(i, verb)
       \/ \E verb \in Transfers : Transfer(i, verb)

Next ==
    \/ \E c \in Clients : Connect(c)
    \/ \E i \in Slots : Execute(i)

Spec == Init /\ [][Next]_vars

-----------------------------------------------------------------------------
(* Properties.                                                             *)

Serves(i) == fds[i] # NoClient

\* Whoever is logged in is so by a name that may: no order of USER, PASS, failed
\* logins and reconnections makes a session somebody else's.
UserKnown ==
    \A i \in Slots : Serves(i) /\ LoggedIn(i) => connections[i].user \in Right

\* What commands have made of a session, the login apart.
Setting(connection) == [transfer_mode     |-> connection.transfer_mode,
                        data_socket       |-> connection.data_socket,
                        working_directory |-> connection.working_directory]

\* Until it logs in, a session has no data socket and is where it began, in a
\* slot that may have served others before.
FreshUntilLogin ==
    \A i \in Slots : Serves(i) /\ ~LoggedIn(i)
        => Setting(connections[i]) = Setting(Fresh)

\* The session of a client, wherever its slot is.
SlotOf(c) == CHOOSE i \in Slots : fds[i] = c

Stage(c) ==
    IF Away(c) THEN "away"
    ELSE IF c \in ignored THEN "ignored"
    ELSE IF LoggedIn(SlotOf(c)) THEN "in"
    ELSE IF connections[SlotOf(c)].user \in Right THEN "named"
    ELSE "out"

Login == INSTANCE SessionAccess WITH
    Default  <- Setting(Fresh),
    Settings <- [transfer_mode : Modes, data_socket : BOOLEAN,
                 working_directory : Places],
    stage    <- [c \in Clients |-> Stage(c)],
    settings <- [c \in Clients |-> IF \E i \in Slots : fds[i] = c
                                   THEN Setting(connections[SlotOf(c)])
                                   ELSE Setting(Fresh)],
    answer   <- reply

\* A login is had by a right name followed by the right password on the same
\* connection, and by nothing else; until then commands are denied; a session
\* feels its own commands only.  The right password is the empty one, as the comment
\* of process_login has it; PassAsDocumented is what the list of commands says.
KeepsAccess == Login!Access

\* What docs/commands.md says of PASS: after USER anonymous, "PASS anonymous" is
\* answered 230, and a client that has logged in is answered 500.
PassAsDocumented ==
    [][\A i \in Slots : fds[i] = reply'.client /\ reply'.verb = "PASS" =>
          /\ LoggedIn(i) => reply'.code = 500
          /\ ~LoggedIn(i) /\ connections[i].user = "anonymous" /\ reply'.arg = "anonymous"
                => reply'.code = 230]_vars

=============================================================================
