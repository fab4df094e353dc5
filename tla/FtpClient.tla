------------------------------ MODULE FtpClient ------------------------------
(***************************************************************************)
(* The bonus client and the server it talks to, over one control           *)
(* connection.                                                             *)
(*                                                                         *)
(* The client is one process that sends a line and blocks until the reply  *)
(* is there.  It reads each reply through a new FILE: whatever has arrived *)
(* with it goes into the buffer of that FILE, which nobody looks at again. *)
(* Transfers are passive, on the loopback interface (the only one PASV     *)
(* binds), and announced with a 150 and a 226 by a child of the server     *)
(* while the data goes through a socket buffer of limited size.            *)
(*                                                                         *)
(* The server is seen from one client here: a line is executed in one      *)
(* step, and of the processes it forks only the one that makes this        *)
(* client's transfer appears.  DataChannel and ControlLoop have the rest.  *)
(*                                                                         *)
(* Definitions ending in _Faulty are mistakes the property named in their  *)
(* comment excludes; they are not part of the model.                       *)
(***************************************************************************)
EXTENDS Integers, Sequences, Functions

CONSTANTS
    Files,     \* what files and listings can contain: sequences of Blocks
    Buffer,    \* how many blocks the buffers of a data connection hold
    MaxLines,  \* bound: commands the user types
    Typing,    \* how the user types a name or a password
    Commands,  \* the commands the user types
    Signals    \* TRUE: client and server may be told to stop

Blocks == {"text", "null"}     \* null: a block with a NUL byte in it

ASSUME ClientAssumption ==
    /\ Files \subseteq Seq(Blocks)
    /\ Buffer \in Nat \ {0}
    /\ MaxLines \in Nat
    /\ Typing \subseteq {"right", "wrong", "spaced", "cut"}
    /\ Commands \subseteq {"ls", "get", "put", "cd", "pwd", "quit"}
    /\ Signals \in BOOLEAN

VARIABLES
    at,       \* where the client is
    doing,    \* the command it executes, or executed last
    said,     \* what it has told the user of that command
    typed,    \* how many commands were typed
    stop,     \* stop_client
    eintr,    \* the call it is blocked in was interrupted
    sock,     \* client->data_socket
    opened,   \* the file put reads, or get writes, could be opened
    lost,     \* a reply went down with the FILE of the one read last
    inbox,    \* replies in the client's socket buffer
    outbox,   \* lines in the server's
    link,     \* the server's end of the control connection
    served,   \* the server had a slot for this client
    session,  \* the login of this client, at the server; new: not yet accepted
    ready,    \* the server has a data socket for it
    child,    \* the server's child that makes its transfer
    task,     \* the command it was forked for
    pipe,     \* the data in flight
    rest,     \* what the sending side has still to write
    meant,    \* all it set out to write
    got       \* what the receiving side has kept

linkVars   == <<inbox, outbox, link>>
serverVars == <<served, session, ready, child, task>>
dataVars   == <<pipe, rest, meant, got>>
vars == <<at, doing, said, typed, stop, eintr, sock, opened, lost, inbox, outbox,
          link, served, session, ready, child, task, pipe, rest, meant, got>>

\* Blocked in read_response, by the reply awaited; "first" and "second" are the
\* two replies of a transfer, "path" is the second half of cd.
Waits == {"greeting", "user", "pass", "pasv", "first", "second", "cwd", "path",
          "pwd", "bye"}
Ended == {"over", "crashed", "killed"}
Fetches == {"ls", "get"}

VerbOf == [ls |-> "LIST", get |-> "RETR", put |-> "STOR", none |-> "LIST",
           cd |-> "CWD", pwd |-> "PWD", quit |-> "QUIT"]

\* What the client, at p, waits for the answer to.
Awaited ==
    CASE at = "greeting" -> "connect"
      [] at = "user"     -> "USER"
      [] at = "pass"     -> "PASS"
      [] at = "pasv"     -> "PASV"
      [] at = "path"     -> "PWD"
      [] OTHER           -> VerbOf[doing]

Verbs == Range(VerbOf) \cup {"USER", "PASS", "PASV"}

TypeOK ==
    /\ at \in Waits \cup Ended \cup {"signin", "username", "password", "loop", "prompt",
                                     "dial", "upload", "data", "leave"}
    /\ doing \in DOMAIN VerbOf
    /\ said \in {"none", "failed", "listed", "downloaded", "uploaded"}
    /\ typed \in 0..MaxLines
    /\ {stop, eintr, opened, lost, served, ready} \subseteq BOOLEAN
    /\ sock \in {"none", "open", "shut", "reset"}
    /\ at \in {"loop", "prompt"} => sock \in {"none", "open"}
    /\ inbox \in Seq([code : 150..599, to : Verbs \cup {"connect", "stop"}])
    /\ outbox \in Seq([verb : Verbs, arg : Typing \cup {"", "junk"}, cut : BOOLEAN])
    /\ link \in {"up", "closed", "reset"}
    /\ task \in Verbs
    /\ session \in {"new", "out", "wrong", "named", "in"}
    /\ child \in {"none", "start", "failing", "moving", "moved", "leaving"}
    /\ {pipe, rest, meant, got} \subseteq Seq(Blocks \cup {"short"})

Gone == at \in Ended

Init ==
    /\ at = "greeting"
    /\ doing = "none" /\ said = "none" /\ typed = 0
    /\ stop = FALSE /\ eintr = FALSE /\ opened = FALSE /\ lost = FALSE
    /\ sock = "none"
    /\ inbox = <<>> /\ outbox = <<>>
    /\ link = "up"
    /\ served = FALSE /\ session = "new" /\ ready = FALSE /\ child = "none" /\ task = "LIST"
    /\ pipe = <<>> /\ rest = <<>> /\ meant = <<>> /\ got = <<>>

-----------------------------------------------------------------------------
(* What the client is built from.                                          *)

\* The child holds a copy of the server's end: until it has gone, nothing ends.
Eof == link # "up" /\ child = "none"

\* getline() on the control connection, through a FILE of its own.
Take(p) ==
    /\ at = p
    /\ ~eintr
    /\ inbox # <<>>
    /\ inbox' = <<>>
    /\ lost' = (Len(inbox) > 1)
    /\ UNCHANGED <<eintr, outbox, link>>

\* ... which fails.
NoReply(p) ==
    /\ at = p
    /\ eintr \/ (inbox = <<>> /\ Eof)
    /\ eintr' = FALSE
    /\ UNCHANGED <<lost, linkVars>>

Answer(p, code)   == Take(p) /\ Head(inbox).code = code
NoAnswer(p, code) == (Take(p) /\ Head(inbox).code # code) \/ NoReply(p)

\* A line without its end is completed by the next one.
Line(verb, arg) == [verb |-> verb, arg |-> arg, cut |-> arg = "cut"]

Sent(line) ==
    LET n == Len(outbox) IN
    IF n > 0 /\ outbox[n].cut
    THEN [outbox EXCEPT ![n] = [@ EXCEPT !.arg = "junk", !.cut = line.cut]]
    ELSE Append(outbox, line)

\* dprintf() to the server, then on to next.  The first write to a connection
\* that has ended is answered with a reset, the second one raises SIGPIPE.
Write(verb, arg, next) ==
    IF link = "reset"
    THEN at' = "killed" /\ UNCHANGED <<outbox, link>>
    ELSE /\ at' = next
         /\ outbox' = IF link = "up" THEN Sent(Line(verb, arg)) ELSE outbox
         /\ link' = IF Eof THEN "reset" ELSE link

Back(outcome) == at' = "loop" /\ said' = outcome

\* getline() on standard input.
Input(p)   == at = p /\ ~eintr /\ UNCHANGED <<eintr, lost, inbox>>
NoInput(p) == at = p /\ at' = "leave" /\ eintr' = FALSE /\ UNCHANGED <<lost, linkVars>>

-----------------------------------------------------------------------------
(* Login.                                                                  *)

Greeted ==
    /\ Take("greeting") \/ NoReply("greeting")
    /\ at' = "signin"
    /\ UNCHANGED <<doing, said, typed, stop, sock, opened, serverVars, dataVars>>

\* The test of the loop in login().
SignIn ==
    /\ at = "signin"
    /\ at' = IF stop THEN "leave" ELSE "username"
    /\ UNCHANGED <<doing, said, typed, stop, eintr, sock, opened, lost, linkVars,
                   serverVars, dataVars>>

GetUsername ==
    /\ \/ NoInput("username")
       \/ Input("username") /\ \E name \in Typing : Write("USER", name, "user")
    /\ UNCHANGED <<doing, said, typed, stop, sock, opened, serverVars, dataVars>>

SendUser ==
    /\ \/ Answer("user", 331) /\ at' = "password"
       \/ NoAnswer("user", 331) /\ at' = "leave"
    /\ UNCHANGED <<doing, said, typed, stop, sock, opened, serverVars, dataVars>>

GetPassword ==
    /\ \/ NoInput("password")
       \/ Input("password") /\ \E word \in Typing : Write("PASS", word, "pass")
    /\ UNCHANGED <<doing, said, typed, stop, sock, opened, serverVars, dataVars>>

\* A refused password, and no answer at all, lead to another attempt.
SendPass ==
    /\ \/ Answer("pass", 230) /\ at' = "loop"
       \/ NoAnswer("pass", 230) /\ at' = "signin"
    /\ UNCHANGED <<doing, said, typed, stop, sock, opened, serverVars, dataVars>>

-----------------------------------------------------------------------------
(* The prompt.                                                             *)

\* The test of the loop in client().
TestStop ==
    /\ at = "loop"
    /\ at' = IF stop THEN "leave" ELSE "prompt"
    /\ UNCHANGED <<doing, said, typed, stop, eintr, sock, opened, lost, linkVars,
                   serverVars, dataVars>>

\* End of the input, an empty line, exit.
Leave ==
    /\ NoInput("prompt")
    /\ UNCHANGED <<doing, said, typed, stop, sock, opened, serverVars, dataVars>>

\* help, an unknown command, a wrong number of arguments.  With two spaces in a
\* row the parser reads a token it never wrote, and may crash.
NotSent ==
    /\ Input("prompt")
    /\ at' \in {"loop", "crashed"}
    /\ UNCHANGED <<doing, said, typed, stop, sock, opened, outbox, link, serverVars, dataVars>>

Execute ==
    /\ Input("prompt")
    /\ typed < MaxLines
    /\ \E command \in Commands :
        /\ doing' = command
        /\ \/ command \in {"ls", "get", "put"} /\ Write("PASV", "", "pasv")
           \/ command = "cd" /\ Write("CWD", "", "cwd")
           \/ command = "pwd" /\ Write("PWD", "", "pwd")
           \/ command = "quit" /\ Write("QUIT", "", "bye")
    /\ said' = "none"
    /\ typed' = typed + 1
    /\ UNCHANGED <<stop, sock, opened, serverVars, dataVars>>

Cd ==
    /\ \/ /\ at = "cwd" /\ ~eintr /\ inbox # <<>> /\ Head(inbox).code = 250
          /\ inbox' = <<>>
          /\ lost' = (Len(inbox) > 1)
          /\ Write("PWD", "", "path")
          /\ UNCHANGED <<said, eintr>>
       \/ NoAnswer("cwd", 250) /\ Back("failed")
    /\ UNCHANGED <<doing, typed, stop, sock, opened, serverVars, dataVars>>

\* display_new_path goes on with a reply it has freed, or with none.
DisplayNewPath ==
    /\ \/ Answer("path", 257) /\ at' = "loop"
       \/ Take("path") /\ Head(inbox).code # 257 /\ at' \in {"loop", "crashed"}
       \/ NoReply("path") /\ at' = "crashed"
    /\ UNCHANGED <<doing, said, typed, stop, sock, opened, serverVars, dataVars>>

Pwd ==
    /\ \/ Answer("pwd", 257) /\ at' = "loop" /\ UNCHANGED said
       \/ NoAnswer("pwd", 257) /\ Back("failed")
    /\ UNCHANGED <<doing, typed, stop, sock, opened, serverVars, dataVars>>

Quit ==
    /\ \/ Answer("bye", 221) /\ at' = "leave" /\ UNCHANGED said
       \/ NoAnswer("bye", 221) /\ Back("failed")
    /\ UNCHANGED <<doing, typed, stop, sock, opened, serverVars, dataVars>>

\* destroy_client says QUIT, for the second time after a quit.
DestroyClient ==
    /\ at = "leave"
    /\ Write("QUIT", "", "over")
    /\ UNCHANGED <<doing, said, typed, stop, eintr, sock, opened, lost, inbox, serverVars,
                   dataVars>>

-----------------------------------------------------------------------------
(* A transfer, seen by the client.                                         *)

\* The reply is not looked at (KeepsOrder).
SendPasv_Faulty ==
    /\ \/ Take("pasv") /\ at' = "dial" /\ UNCHANGED said
       \/ NoReply("pasv") /\ Back("failed")
    /\ sock' = "none"
    /\ UNCHANGED <<doing, typed, stop, opened, serverVars, dataVars>>

\* create_data_socket; the socket of an earlier command, if any, is forgotten.
SendPasv ==
    /\ \/ Answer("pasv", 227) /\ at' = "dial" /\ UNCHANGED said
       \/ NoAnswer("pasv", 227) /\ Back("failed")
    /\ sock' = "none"
    /\ UNCHANGED <<doing, typed, stop, opened, serverVars, dataVars>>

\* connect_data_socket, then the command.  A file put cannot read is noticed
\* here, and the connection left open.
Dial ==
    /\ at = "dial"
    /\ \/ /\ link # "up"
          /\ Back("failed")
          /\ UNCHANGED <<sock, outbox, link>>
       \/ /\ link = "up" /\ doing = "put"
          /\ Back("failed")
          /\ sock' = "open"
          /\ UNCHANGED <<outbox, link>>
       \/ /\ link = "up"
          /\ Write(VerbOf[doing], "", "first")
          /\ sock' = "open"
          /\ UNCHANGED said
    /\ UNCHANGED <<doing, typed, stop, eintr, opened, lost, inbox, serverVars, dataVars>>

Abandon == Back("failed") /\ sock' = "none" /\ UNCHANGED <<opened, rest, meant>>

\* get does not read the second reply (RepliesMatched).
FetchBegins_Faulty ==
    /\ Answer("first", 150) /\ doing \in Fetches
    /\ at' = IF doing = "get" THEN "data" ELSE "second"
    /\ opened' = TRUE
    /\ UNCHANGED <<said, sock, rest, meant>>

FetchBegins ==
    /\ Answer("first", 150) /\ doing \in Fetches
    /\ at' = "second"
    /\ UNCHANGED <<said, sock, opened, rest, meant>>

\* put_result gives up at once when its file cannot be opened, and leaves the
\* connection open.
PutBegins ==
    /\ Answer("first", 150) /\ doing = "put"
    /\ \/ /\ at' = "upload"
          /\ opened' = TRUE
          /\ \E file \in Files : rest' = file /\ meant' = file
       \/ /\ at' = "second"
          /\ opened' = FALSE
          /\ UNCHANGED <<rest, meant>>
    /\ UNCHANGED <<said, sock>>

\* The first reply to a transfer command.
First ==
    /\ FetchBegins \/ PutBegins \/ (NoAnswer("first", 150) /\ Abandon)
    /\ UNCHANGED <<doing, typed, stop, serverVars, pipe, got>>

Full == Len(pipe) = Buffer

\* put_result writes on although nothing is left to take the data: the answer
\* is a reset, then SIGPIPE.  A write that is interrupted may lose its block.
Upload ==
    /\ at = "upload" /\ rest # <<>>
    /\ \/ /\ child # "none" /\ ~Full /\ ~eintr
          /\ pipe' = Append(pipe, Head(rest))
          /\ rest' = Tail(rest)
          /\ UNCHANGED <<at, eintr, sock>>
       \/ /\ eintr
          /\ eintr' = FALSE
          /\ rest' \in {rest, Tail(rest)}
          /\ UNCHANGED <<at, sock, pipe>>
       \/ /\ child = "none" /\ sock = "open" /\ ~eintr
          /\ sock' = "reset"
          /\ rest' = Tail(rest)
          /\ UNCHANGED <<at, eintr, pipe>>
       \/ /\ child = "none" /\ sock = "reset" /\ ~eintr
          /\ at' = "killed"
          /\ UNCHANGED <<eintr, sock, pipe, rest>>
    /\ UNCHANGED <<doing, said, typed, stop, opened, lost, linkVars, serverVars,
                   meant, got>>

EndUpload ==
    /\ at = "upload" /\ rest = <<>>
    /\ at' = "second"
    /\ sock' = "shut"
    /\ UNCHANGED <<doing, said, typed, stop, eintr, opened, lost, linkVars,
                   serverVars, dataVars>>

\* get says it has downloaded a file it could not create.
FetchReceives ==
    /\ Answer("second", 226) /\ doing \in Fetches
    /\ \/ /\ at' = "data"
          /\ opened' = TRUE
          /\ UNCHANGED <<said, sock>>
       \/ /\ doing = "get"
          /\ Back("downloaded")
          /\ sock' = "none"
          /\ opened' = FALSE
    /\ UNCHANGED <<rest, meant>>

PutEnds(outcome, closed) ==
    /\ doing = "put"
    /\ Back(outcome)
    /\ sock' = closed
    /\ UNCHANGED <<opened, rest, meant>>

\* Any reply will do (SuccessMeansWhole).
PutAny_Faulty == Take("second") /\ PutEnds("uploaded", "none")

\* The data socket is not destroyed (TypeOK).
PutDone_Faulty == Answer("second", 226) /\ PutEnds("uploaded", sock)

PutDone == Answer("second", 226) /\ PutEnds("uploaded", "none")

\* The second reply.
Second ==
    /\ FetchReceives \/ PutDone \/ (NoAnswer("second", 226) /\ Abandon)
    /\ UNCHANGED <<doing, typed, stop, serverVars, pipe, got>>

\* list_result, get_result: to the end of the stream, or to an interrupted read.
Receive ==
    /\ at = "data"
    /\ \/ /\ pipe # <<>> /\ ~eintr
          /\ got' = Append(got, Head(pipe))
          /\ pipe' = Tail(pipe)
          /\ UNCHANGED <<at, said, eintr, sock>>
       \/ /\ eintr
          /\ eintr' = FALSE
          /\ UNCHANGED <<at, said, sock, pipe, got>>
       \/ /\ eintr \/ (pipe = <<>> /\ child = "none")
          /\ eintr' = FALSE
          /\ Back(IF doing = "ls" THEN "listed" ELSE "downloaded")
          /\ sock' = "none"
          /\ UNCHANGED <<pipe, got>>
    /\ UNCHANGED <<doing, typed, stop, opened, lost, linkVars, serverVars, rest, meant>>

\* The client is inside a call that a signal makes fail.
Blocked ==
    \/ at \in Waits /\ inbox = <<>> /\ ~Eof
    \/ at \in {"username", "password", "prompt"}
    \/ at = "upload" /\ rest # <<>> /\ Full /\ child # "none"
    \/ at = "data" /\ pipe = <<>> /\ child # "none"

Signal ==
    /\ Signals /\ ~stop /\ ~Gone
    /\ stop' = TRUE
    /\ eintr' = Blocked
    /\ UNCHANGED <<at, doing, said, typed, sock, opened, lost, linkVars, serverVars,
                   dataVars>>

-----------------------------------------------------------------------------
(* The server.  What it does for a client that has gone is in ControlLoop. *)

Serve(verb) ==
    /\ served /\ link = "up" /\ ~Gone
    /\ outbox # <<>> /\ Head(outbox).verb = verb /\ ~Head(outbox).cut
    /\ outbox' = Tail(outbox)

Says(code, verb) == inbox' = Append(inbox, [code |-> code, to |-> verb])

\* Spaces in a row make the parser read a token it never wrote, which may end
\* the process.
ParserCrash(verb) ==
    /\ Serve(verb) /\ Head(outbox).arg = "spaced"
    /\ link' = "closed"
    /\ UNCHANGED <<inbox, session>>

\* accept_new_connection: the client is greeted, with a slot for it or without.
Accept ==
    /\ session = "new" /\ link = "up" /\ ~Gone
    /\ Says(220, "connect")
    /\ session' = "out"
    /\ served' \in BOOLEAN
    /\ UNCHANGED <<at, doing, said, typed, stop, eintr, sock, opened, lost, outbox, link,
                   ready, child, task, dataVars>>

UserCommand ==
    /\ \/ /\ Serve("USER")
          /\ Says(331, "USER")
          /\ session' \in CASE Head(outbox).arg = "right"  -> {"named"}
                            [] Head(outbox).arg = "spaced" -> {"named", "wrong"}
                            [] OTHER                       -> {"wrong"}
          /\ UNCHANGED link
       \/ ParserCrash("USER")
    /\ UNCHANGED <<at, doing, said, typed, stop, eintr, sock, opened, lost, served,
                   ready, child, task, dataVars>>

\* 530 stands for 503 as well: the client does not tell them apart.
PassCommand ==
    /\ \/ /\ Serve("PASS")
          /\ IF session = "named" /\ Head(outbox).arg = "right"
             THEN Says(230, "PASS") /\ session' = "in"
             ELSE Says(530, "PASS") /\ session' = "out"
          /\ UNCHANGED link
       \/ ParserCrash("PASS")
    /\ UNCHANGED <<at, doing, said, typed, stop, eintr, sock, opened, lost, served,
                   ready, child, task, dataVars>>

\* PASV, with a socket and without; CWD and PWD.
PlainCommand ==
    /\ \/ Serve("PASV") /\ Says(227, "PASV") /\ ready' = TRUE
       \/ Serve("PASV") /\ Says(451, "PASV") /\ ready' = FALSE
       \/ Serve("CWD") /\ (Says(250, "CWD") \/ Says(550, "CWD")) /\ UNCHANGED ready
       \/ Serve("PWD") /\ Says(257, "PWD") /\ UNCHANGED ready
    /\ UNCHANGED <<at, doing, said, typed, stop, eintr, sock, opened, lost, link, served,
                   session, child, task, dataVars>>

QuitCommand ==
    /\ Serve("QUIT")
    /\ Says(221, "QUIT")
    /\ link' = "closed"
    /\ UNCHANGED <<at, doing, said, typed, stop, eintr, sock, opened, lost, serverVars,
                   dataVars>>

Transfers == {VerbOf[command] : command \in {"ls", "get", "put"}}

\* list_command, retr_command and stor_command before the fork.  550 stands for
\* the 425 and 451 of an accept() and a fork() that fail: the data socket is
\* destroyed then, and kept when the path is refused.
TransferRefused ==
    /\ \E verb \in Transfers : Serve(verb) /\ Says(550, verb)
    /\ ready' \in {ready, FALSE}
    /\ UNCHANGED <<at, doing, said, typed, stop, eintr, sock, opened, lost, link, served,
                   session, child, task, dataVars>>

\* ... and the fork.  What STOR will be sent the client decides (First).
Fork ==
    /\ \E verb \in Transfers :
        /\ Serve(verb)
        /\ IF verb = "STOR" THEN UNCHANGED <<rest, meant>>
                            ELSE \E file \in Files : rest' = file /\ meant' = file
        /\ task' = verb
    /\ child' = "start"
    /\ ready' = FALSE
    /\ pipe' = <<>> /\ got' = <<>>
    /\ UNCHANGED <<at, doing, said, typed, stop, eintr, sock, opened, lost, inbox, link,
                   served, session>>

\* The child is inside a call that a signal makes fail.
ChildBlocked ==
    /\ child = "moving"
    /\ IF task = "STOR" THEN pipe = <<>> /\ sock = "open" ELSE Full /\ rest # <<>>

\* The signal that stops the server reaches its children too: STOR takes it for
\* the end of the data, RETR and LIST lose what they were writing.
Interrupt ==
    IF ChildBlocked /\ task = "STOR" THEN child' \in {"moving", "moved"} /\ UNCHANGED rest
    ELSE IF ChildBlocked THEN rest' \in {rest, Tail(rest)} /\ UNCHANGED child
    ELSE UNCHANGED <<child, rest>>

\* A line that was begun may be executed as it is.
Hurried ==
    IF served /\ outbox # <<>> /\ Head(outbox).cut
    THEN {<<>>, <<[code |-> IF Head(outbox).verb = "USER" THEN 331 ELSE 530,
                   to |-> Head(outbox).verb]>>}
    ELSE {<<>>}

ServerStops ==
    /\ Signals /\ link = "up" /\ ~Gone
    /\ \E replies \in Hurried :
        inbox' = inbox \o replies \o
                 (IF served THEN <<[code |-> 221, to |-> "stop"]>> ELSE <<>>)
    /\ link' \in IF outbox = <<>> THEN {"closed"} ELSE {"closed", "reset"}
    /\ outbox' = <<>>
    /\ Interrupt
    /\ UNCHANGED <<at, doing, said, typed, stop, eintr, sock, opened, lost, served,
                   session, ready, task, pipe, meant, got>>

-----------------------------------------------------------------------------
(* The child.                                                              *)

childKeeps == <<at, doing, said, typed, stop, eintr, sock, opened, lost, outbox, link,
                served, session, ready, task>>

Tells(code, stage) == Says(code, task) /\ child' = stage

\* LIST can refuse before its 150, RETR and STOR after it.
Begin ==
    /\ child = "start"
    /\ \/ Tells(150, "moving")
       \/ task = "LIST" /\ Tells(550, "leaving")
       \/ task # "LIST" /\ Tells(150, "failing")
    /\ UNCHANGED <<childKeeps, dataVars>>

\* The 451 is forgotten (CommandEnds).
Fail_Faulty ==
    /\ child = "failing"
    /\ child' = "leaving"
    /\ UNCHANGED <<childKeeps, inbox, dataVars>>

Fail ==
    /\ child = "failing"
    /\ Tells(451, "leaving")
    /\ UNCHANGED <<childKeeps, dataVars>>

\* dprintf("%s") ends at the first NUL.
Printed(block) == IF block = "null" THEN "short" ELSE block

There == sock = "open" /\ ~Gone

\* RETR and LIST write what they read; the second write to a connection its
\* client has closed, or the first, kills them.
WriteData ==
    /\ child = "moving" /\ task # "STOR" /\ rest # <<>>
    /\ \/ /\ There /\ ~Full
          /\ pipe' = Append(pipe, Printed(Head(rest)))
          /\ rest' = Tail(rest)
          /\ UNCHANGED child
       \/ /\ ~There
          /\ rest' = Tail(rest)
          /\ UNCHANGED <<child, pipe>>
       \/ /\ ~There
          /\ child' = "none"
          /\ UNCHANGED <<pipe, rest>>
    /\ UNCHANGED <<childKeeps, inbox, meant, got>>

StoreData ==
    /\ child = "moving" /\ task = "STOR" /\ pipe # <<>>
    /\ got' = Append(got, Head(pipe))
    /\ pipe' = Tail(pipe)
    /\ UNCHANGED <<childKeeps, child, inbox, rest, meant>>

Finish ==
    /\ \/ child = "moved"
       \/ child = "moving" /\ task # "STOR" /\ rest = <<>>
       \/ child = "moving" /\ task = "STOR" /\ pipe = <<>> /\ ~There
    /\ Tells(226, "leaving")
    /\ UNCHANGED <<childKeeps, dataVars>>

Exit ==
    /\ child = "leaving"
    /\ child' = "none"
    /\ UNCHANGED <<childKeeps, inbox, dataVars>>

-----------------------------------------------------------------------------
UserStep == GetUsername \/ GetPassword \/ Leave \/ NotSent \/ Execute

ClientStep ==
    \/ Greeted \/ SignIn \/ SendUser \/ SendPass \/ TestStop \/ DestroyClient
    \/ Cd \/ DisplayNewPath \/ Pwd \/ Quit
    \/ SendPasv \/ Dial \/ First \/ Upload \/ EndUpload \/ Second \/ Receive

ServerStep ==
    \/ Accept \/ UserCommand \/ PassCommand \/ PlainCommand \/ QuitCommand
    \/ TransferRefused \/ Fork

ChildStep == Begin \/ Fail \/ WriteData \/ StoreData \/ Finish \/ Exit

Next == UserStep \/ ClientStep \/ ServerStep \/ ChildStep \/ Signal \/ ServerStops

Spec == Init /\ [][Next]_vars

\* Three processes the host schedules; the user need not type anything, and no
\* signal need come.
Fairness == WF_vars(ClientStep) /\ WF_vars(ServerStep) /\ WF_vars(ChildStep)

FairSpec == Spec /\ Fairness

-----------------------------------------------------------------------------
(* Properties.                                                             *)

\* The client counts its replies and looks at nothing else: a reply it reads is
\* one to the command it waits for, and at the prompt none is left that the next
\* command would take for its own, as long as the server goes on.
RepliesMatched ==
    link = "up" =>
        /\ at \in Waits /\ ~eintr /\ inbox # <<>> => Head(inbox).to = Awaited
        /\ at = "prompt" => inbox = <<>>

\* The client and the server agree on the login and on the data socket: no line
\* reaches the server for which it is not logged in, and no transfer command
\* without a data socket to make it on.
KeepsOrder ==
    \A line \in Range(outbox) :
        /\ line.verb \notin {"USER", "PASS", "QUIT"} => session = "in"
        /\ line.verb \in Transfers => ready

Told == said \in {"listed", "downloaded", "uploaded"}

\* When the client reports a listing, a download or an upload, then all of it has
\* arrived on the other side, and what is missing of it are the lines of a download
\* beyond a NUL: whatever the sizes, the order in which three processes move the
\* data and who of them fails, unless the client's own file could not be opened,
\* the server was told to stop, or the client was during an upload.
SuccessMeansWhole ==
    /\ Told /\ opened /\ link = "up"
    /\ doing = "put" => ~stop
    => /\ DOMAIN got = DOMAIN meant
       /\ \A i \in DOMAIN got :
             \/ got[i] = meant[i]
             \/ doing \in Fetches /\ meant[i] = "null" /\ got[i] = "short"

Busy == Waits \cup {"dial", "upload", "data"}

\* The 226 of a transfer that does not fit into the buffers is waited for before
\* the data is read.
Jammed == at = "second" /\ doing \in Fetches /\ child = "moving" /\ Full /\ rest # <<>>

\* put_result has given up with the connection open.
Unsent == at = "second" /\ doing = "put" /\ ~opened /\ sock = "open"

\* The server waits for the end of a line.
Unended == outbox # <<>> /\ Head(outbox).cut

\* Accepted when every slot was taken.
Ignored == session # "new" /\ ~served

\* A command ends, and so does a login, unless the client is caught in one of the
\* five ways the code has to catch it: its reply went down with the FILE of the
\* one before, a full buffer, an upload it cannot read, a line it did not end, and
\* a server without a slot for it.
CommandEnds ==
    at \in Busy ~> at \notin Busy \/ lost \/ Jammed \/ Unsent \/ Unended \/ Ignored

\* A get returns to the prompt.
GetReturns == at = "first" /\ doing = "get" ~> at \in {"loop", "leave"} \cup Ended

=============================================================================
