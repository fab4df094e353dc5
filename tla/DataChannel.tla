----------------------------- MODULE DataChannel -----------------------------
(***************************************************************************)
(* Data sockets, transfers and the processes that make them.               *)
(*                                                                         *)
(* PASV and PORT prepare a data socket; LIST, RETR and STOR establish its  *)
(* connection in the server process and fork a child, which moves the data *)
(* and writes its own replies to the control connection it inherited.  The *)
(* server process goes on at once.  fork() copies every descriptor: what   *)
(* ends a connection is not a close() but the last one, so the model keeps *)
(* the set of processes that hold each socket.                             *)
(*                                                                         *)
(* Logged-in clients; who may log in is not the matter here, and of the    *)
(* way lines reach the server (ControlLoop's subject) only what strands a  *)
(* command is kept: the stdio buffer poll() cannot see.  Children are      *)
(* never waited for: one that has ended goes on occupying its entry in the *)
(* process table.  A client may be lost; whoever writes to its control     *)
(* connection then, the server process or a child, may die of SIGPIPE.     *)
(*                                                                         *)
(* Definitions ending in _Faulty are mistakes the property named in their  *)
(* comment excludes; they are not part of the model.                       *)
(***************************************************************************)
EXTENDS Integers, Sequences, Functions

CONSTANTS
    Clients,      \* logged-in clients
    NoClient,     \* no client
    Ports,        \* bound: data sockets that can be open at a time
    NoPort,       \* no data socket
    MaxForks,     \* children the system has room for, ended ones included
    MaxCommands,  \* bound: commands one client sends
    Commands,     \* the commands clients send
    Patient,      \* clients that wait for the end of each command
    Aborts,       \* TRUE: a client may drop a data connection half-way
    Losses        \* clients that may be lost, their control connection reset

Transfers == {"LIST", "RETR", "STOR"}

ASSUME ChannelAssumption ==
    /\ NoClient \notin Clients
    /\ NoPort \notin Ports
    /\ MaxForks \in Nat
    /\ MaxCommands \in Nat
    /\ Commands \subseteq Transfers \cup {"PASV", "PORT", "QUIT"}
    /\ Patient \subseteq Clients
    /\ Aborts \in BOOLEAN
    /\ Losses \subseteq Clients

Server == 0
Kids   == 1..MaxForks
Procs  == 0..MaxForks

VARIABLES
    pc,       \* where the server process is
    job,      \* the transfer command it is executing
    mode,     \* data_socket of each connection: none, passive or active
    sock,     \* ... and which socket it is
    control,  \* processes that hold each control connection
    listen,   \* processes that hold each listening data socket
    data,     \* processes that hold each data connection
    owner,    \* the client a data socket was made for
    far,      \* the client's end of each data connection
    child,    \* the forked processes
    asked,    \* how many commands each client has sent
    req,      \* those the server has not begun
    stdio,    \* how many of these are in the FILE's buffer already
    lost,     \* clients that are gone
    replies,  \* what was written to each control connection, in order
    disk      \* the file that RETR reads and STOR writes, and the child that
              \* emptied it last: "new" is all that child received, "short" less

serverVars == <<pc, job, mode, sock>>
socketVars == <<control, listen, data, owner, far>>
clientVars == <<asked, req, stdio, lost>>
vars == <<pc, job, mode, sock, control, listen, data, owner, far,
          child, asked, req, stdio, lost, replies, disk>>

NoJob   == [client |-> NoClient, kind |-> "LIST", to |-> 0]
NoChild == [stage |-> "none", client |-> NoClient, kind |-> "LIST", to |-> 0,
            conn |-> NoPort]

Jobs   == [client : Clients, kind : Transfers, to : 1..MaxCommands]
Stages == {"none", "start", "moving", "moved", "told", "leaving", "ended",
           "killed"}
Codes  == {150, 200, 221, 226, 227, 425, 451, 500, 550}

Modes  == {"none", "passive", "active"}

TypeOK ==
    /\ pc \in {"loop", "establish", "fork", "release", "down"}
    /\ job \in Jobs \cup {NoJob}
    /\ mode \in [Clients -> Modes]
    /\ sock \in [Clients -> Ports \cup {NoPort}]
    /\ \A c \in Clients : mode[c] = "none" <=> sock[c] = NoPort
    /\ control \in [Clients -> SUBSET Procs]
    /\ listen \in [Ports -> SUBSET Procs]
    /\ data \in [Ports -> SUBSET Procs]
    /\ owner \in [Ports -> Clients \cup {NoClient}]
    /\ far \in [Ports -> {"none", "dialled", "open", "shut", "gone"}]
    /\ child \in [Kids -> [stage : Stages, client : Clients \cup {NoClient},
                           kind : Transfers, to : 0..MaxCommands,
                           conn : Ports \cup {NoPort}]]
    /\ asked \in [Clients -> 0..MaxCommands]
    /\ req \in [Clients -> Seq(Commands)]
    /\ replies \in [Clients -> Seq([code : Codes, to : 1..MaxCommands])]
    /\ stdio \in [Clients -> 0..MaxCommands]
    /\ lost \subseteq Clients
    /\ disk \in [state : {"absent", "old", "short", "new"}, by : Procs]

-----------------------------------------------------------------------------
\* c has the final reply to its n-th command.
Told(c, n) == \E r \in Range(replies[c]) : r.to = n /\ r.code # 150

Running(k) == child[k].stage \notin {"none", "ended", "killed"}

\* A number the kernel can hand out for a new data socket.
FreePort(p) == listen[p] = {} /\ data[p] = {} /\ far[p] \in {"none", "shut", "gone"}

Say(c, n, codes) ==
    replies' = [replies EXCEPT ![c] =
                   @ \o [i \in 1..Len(codes) |-> [code |-> codes[i], to |-> n]]]

\* The number of the command at the head of c's queue.
Number(c) == asked[c] - Len(req[c]) + 1

Init ==
    /\ pc = "loop"
    /\ job = NoJob
    /\ mode = [c \in Clients |-> "none"]
    /\ sock = [c \in Clients |-> NoPort]
    /\ control = [c \in Clients |-> {Server}]
    /\ listen = [p \in Ports |-> {}]
    /\ data = [p \in Ports |-> {}]
    /\ owner = [p \in Ports |-> NoClient]
    /\ far = [p \in Ports |-> "none"]
    /\ child = [k \in Kids |-> NoChild]
    /\ asked = [c \in Clients |-> 0]
    /\ req = [c \in Clients |-> <<>>]
    /\ replies = [c \in Clients |-> <<>>]
    /\ stdio = [c \in Clients |-> 0]
    /\ lost = {}
    /\ disk \in [state : {"absent", "old"}, by : {Server}]

-----------------------------------------------------------------------------
(* The server process, between two commands.                               *)

\* poll() reports c: a command that is still in the kernel, or the loss of c.
Readable(c) == stdio[c] < Len(req[c]) \/ c \in lost

\* getline() returns one line.  Finding none in the FILE's buffer, it has moved
\* there all that the kernel held.
Take(c, cmd) ==
    /\ pc = "loop"
    /\ Server \in control[c]
    /\ Readable(c)
    /\ req[c] # <<>>
    /\ Head(req[c]) = cmd
    /\ req' = [req EXCEPT ![c] = Tail(@)]
    /\ stdio' = [stdio EXCEPT ![c] = (IF @ = 0 THEN Len(req[c]) ELSE @) - 1]
    /\ UNCHANGED <<asked, lost, child, disk>>

\* data_socket points to a new socket; the one before, if any, is forgotten and
\* stays open.
Prepare(c, m, p) ==
    /\ FreePort(p)
    /\ mode' = [mode EXCEPT ![c] = m]
    /\ sock' = [sock EXCEPT ![c] = p]
    /\ owner' = [owner EXCEPT ![p] = c]
    /\ far' = [far EXCEPT ![p] = "none"]

\* No socket is to be had: setup_*_data_socket returns NULL, which is stored.
Unprepared(c) ==
    /\ \A p \in Ports : ~FreePort(p)
    /\ mode' = [mode EXCEPT ![c] = "none"]
    /\ sock' = [sock EXCEPT ![c] = NoPort]
    /\ Say(c, Number(c), <<451>>)
    /\ UNCHANGED socketVars

Pasv(c) ==
    /\ Take(c, "PASV")
    /\ UNCHANGED <<pc, job>>
    /\ \/ Unprepared(c)
       \/ \E p \in Ports :
            /\ Prepare(c, "passive", p)
            /\ listen' = [listen EXCEPT ![p] = {Server}]
            /\ Say(c, Number(c), <<227>>)
            /\ UNCHANGED <<control, data>>

\* The socket of an active connection is made by PORT, long before the transfer
\* that connects it.
Port(c) ==
    /\ Take(c, "PORT")
    /\ UNCHANGED <<pc, job>>
    /\ \/ Unprepared(c)
       \/ \E p \in Ports :
            /\ Prepare(c, "active", p)
            /\ data' = [data EXCEPT ![p] = {Server}]
            /\ Say(c, Number(c), <<200>>)
            /\ UNCHANGED <<control, listen>>
       \/ /\ Say(c, Number(c), <<500>>)
          /\ UNCHANGED <<mode, sock, socketVars>>

\* list_command, retr_command and stor_command up to execute_data_socket_command.
\* The 451 of RETR stands with the 550s.
Transfer(c) == \E kind \in Transfers :
    /\ Take(c, kind)
    /\ UNCHANGED <<mode, sock, socketVars>>
    /\ \/ /\ mode[c] = "none"
          /\ Say(c, Number(c), <<425>>)
          /\ UNCHANGED <<pc, job>>
       \/ /\ mode[c] # "none"
          /\ Say(c, Number(c), <<550>>)
          /\ UNCHANGED <<pc, job>>
       \/ /\ mode[c] # "none"
          /\ kind = "RETR" => disk.state # "absent"
          /\ pc' = "establish"
          /\ job' = [client |-> c, kind |-> kind, to |-> Number(c)]
          /\ UNCHANGED replies

\* The pointer to the destroyed socket is kept (TypeOK).
DropSocket_Faulty(c) ==
    /\ mode' = [mode EXCEPT ![c] = "none"]
    /\ UNCHANGED sock
    /\ data' = [p \in Ports |-> IF p = sock[c] THEN data[p] \ {Server} ELSE data[p]]

\* destroy_data_socket, and data_socket = NULL.  The listening socket of a
\* passive one is not closed.
DropSocket(c) ==
    /\ mode' = [mode EXCEPT ![c] = "none"]
    /\ sock' = [sock EXCEPT ![c] = NoPort]
    /\ data' = [p \in Ports |-> IF p = sock[c] THEN data[p] \ {Server} ELSE data[p]]

\* The control connection is not closed (QuitEnds).
Quit_Faulty(c) ==
    /\ Take(c, "QUIT")
    /\ Say(c, Number(c), <<221>>)
    /\ DropSocket(c)
    /\ UNCHANGED <<pc, job, control, listen, owner, far>>

\* handle_connection on COMMAND_QUIT.
Quit(c) ==
    /\ Take(c, "QUIT")
    /\ Say(c, Number(c), <<221>>)
    /\ DropSocket(c)
    /\ control' = [control EXCEPT ![c] = @ \ {Server}]
    /\ UNCHANGED <<pc, job, listen, owner, far>>

-----------------------------------------------------------------------------
(* The server process, in the middle of a transfer command.                *)

\* accept() takes the client's connection, or connect() reaches it.
Establish ==
    /\ pc = "establish"
    /\ LET c == job.client  p == sock[c] IN
        /\ mode[c] = "passive" => far[p] = "dialled"
        /\ far' = [far EXCEPT ![p] = "open"]
        /\ data' = [data EXCEPT ![p] = @ \cup {Server}]
    /\ pc' = "fork"
    /\ UNCHANGED <<job, mode, sock, control, listen, owner, child, clientVars,
                   replies, disk>>

\* Nobody listens there, the call was interrupted, or no descriptor is left.
EstablishFails ==
    /\ pc = "establish"
    /\ DropSocket(job.client)
    /\ Say(job.client, job.to, <<425>>)
    /\ pc' = "loop"
    /\ job' = NoJob
    /\ UNCHANGED <<control, listen, owner, far, child, clientVars, disk>>

Inherit(holders, k) ==
    [s \in DOMAIN holders |-> IF Server \in holders[s] THEN holders[s] \cup {k}
                                                       ELSE holders[s]]

\* fork() gives the child a copy of every descriptor.
Fork ==
    /\ pc = "fork"
    /\ \E k \in Kids :
        /\ child[k].stage = "none"
        /\ \A j \in Kids : j < k => child[j].stage # "none"
        /\ child' = [child EXCEPT ![k] =
               [stage |-> "start", client |-> job.client, kind |-> job.kind,
                to |-> job.to, conn |-> sock[job.client]]]
        /\ control' = Inherit(control, k)
        /\ listen' = Inherit(listen, k)
        /\ data' = Inherit(data, k)
    /\ pc' = "release"
    /\ UNCHANGED <<job, mode, sock, owner, far, clientVars, replies, disk>>

\* fork() fails and the client is not told (CommandAnswered).
ForkFails_Faulty ==
    /\ pc = "fork"
    /\ \A k \in Kids : child[k].stage # "none"
    /\ pc' = "release"
    /\ UNCHANGED <<job, mode, sock, socketVars, child, clientVars, replies, disk>>

\* The process table is full of children nobody has waited for.
ForkFails ==
    /\ pc = "fork"
    /\ \A k \in Kids : child[k].stage # "none"
    /\ Say(job.client, job.to, <<451>>)
    /\ pc' = "release"
    /\ UNCHANGED <<job, mode, sock, socketVars, child, clientVars, disk>>

\* The server keeps its copy of the data connection (EndOfData).
Release_Faulty ==
    /\ pc = "release"
    /\ mode' = [mode EXCEPT ![job.client] = "none"]
    /\ sock' = [sock EXCEPT ![job.client] = NoPort]
    /\ pc' = "loop"
    /\ job' = NoJob
    /\ UNCHANGED <<socketVars, child, clientVars, replies, disk>>

\* execute_data_socket_command closes its own copy and forgets the socket.
Release ==
    /\ pc = "release"
    /\ DropSocket(job.client)
    /\ pc' = "loop"
    /\ job' = NoJob
    /\ UNCHANGED <<control, listen, owner, far, child, clientVars, replies, disk>>

\* The kernel closes whatever the process holds.
Closes(k) ==
    /\ control' = [c \in Clients |-> control[c] \ {k}]
    /\ listen' = [p \in Ports |-> listen[p] \ {k}]
    /\ data' = [p \in Ports |-> data[p] \ {k}]
    /\ UNCHANGED <<owner, far>>

\* The server process is about to write to the control connection of c.
Answering(c) ==
    \/ pc = "loop" /\ Server \in control[c] /\ req[c] # <<>>
    \/ pc \in {"establish", "fork"} /\ job.client = c

\* SIGPIPE, raised by a reply to a lost client, ends the server process; its
\* children go on.
ServerKilled ==
    /\ \E c \in lost : Answering(c)
    /\ pc' = "down"
    /\ job' = NoJob
    /\ mode' = [c \in Clients |-> "none"]
    /\ sock' = [c \in Clients |-> NoPort]
    /\ Closes(Server)
    /\ UNCHANGED <<child, clientVars, replies, disk>>

-----------------------------------------------------------------------------
(* A child.                                                                *)

GoTo(k, stage) == child' = [child EXCEPT ![k].stage = stage]

SayFor(k, codes) == Say(child[k].client, child[k].to, codes)

Emptied(k) == [state |-> "short", by |-> k]

\* The 150; STOR has opened, and so emptied, the file before it.
Begin(k) ==
    /\ child[k].stage = "start"
    /\ GoTo(k, "moving")
    /\ SayFor(k, <<150>>)
    /\ disk' = IF child[k].kind = "STOR" THEN Emptied(k) ELSE disk
    /\ UNCHANGED <<serverVars, socketVars, clientVars>>

\* A return is missing after the error (RepliesInOrder).
BeginFails_Faulty(k) ==
    /\ child[k].stage = "start"
    /\ GoTo(k, "moving")
    /\ SayFor(k, IF child[k].kind = "LIST" THEN <<550>> ELSE <<150, 451>>)
    /\ UNCHANGED <<serverVars, socketVars, clientVars, disk>>

\* The directory or the file is gone since the server process looked for it, or
\* cannot be opened: LIST says so before the 150, the others after it.  A popen()
\* that fails is one of the former.
BeginFails(k) ==
    /\ child[k].stage = "start"
    /\ GoTo(k, "leaving")
    /\ SayFor(k, IF child[k].kind = "LIST" THEN <<550>> ELSE <<150, 451>>)
    /\ UNCHANGED <<serverVars, socketVars, clientVars, disk>>

\* LIST and RETR write until nothing is left; STOR reads up to the end of the
\* stream and closes it.
Move(k) ==
    /\ child[k].stage = "moving"
    /\ LET p == child[k].conn IN
        IF child[k].kind = "STOR"
        THEN /\ far[p] \in {"shut", "gone"}
             /\ data' = [data EXCEPT ![p] = @ \ {k}]
        ELSE UNCHANGED data
    /\ GoTo(k, "moved")
    /\ UNCHANGED <<serverVars, control, listen, owner, far, clientVars, replies, disk>>

Finish(k) ==
    /\ child[k].stage = "moved"
    /\ GoTo(k, "told")
    /\ SayFor(k, <<226>>)
    /\ UNCHANGED <<serverVars, socketVars, clientVars, disk>>

End(k, stage) ==
    /\ GoTo(k, stage)
    /\ Closes(k)
    /\ UNCHANGED <<serverVars, clientVars, replies>>

\* _exit() loses what is in the buffer of the file (StoredInTheEnd).
Leave_Faulty(k) ==
    /\ child[k].stage \in {"told", "leaving"}
    /\ End(k, "ended")
    /\ UNCHANGED disk

\* fclose() of the stored file comes after the 226; then exit(0).
Leave(k) ==
    /\ child[k].stage \in {"told", "leaving"}
    /\ End(k, "ended")
    /\ disk' = IF child[k].stage = "told" /\ disk.by = k
               THEN [disk EXCEPT !.state = "new"] ELSE disk

\* A second write to a data connection its client has dropped raises SIGPIPE.
KilledByData(k) ==
    /\ child[k].stage = "moving"
    /\ child[k].kind # "STOR"
    /\ far[child[k].conn] = "gone"
    /\ End(k, "killed")
    /\ UNCHANGED disk

\* So may the first reply or the 226 to a client that is lost.  STOR has opened
\* the file before the one, and has not written all of it at the other.
KilledByReply(k) ==
    /\ child[k].client \in lost
    /\ End(k, "killed")
    /\ \/ child[k].stage \in {"start", "moved"} /\ UNCHANGED disk
       \/ child[k].stage = "start" /\ child[k].kind = "STOR" /\ disk' = Emptied(k)

Killed(k) == KilledByData(k) \/ KilledByReply(k)

-----------------------------------------------------------------------------
(* The clients.                                                            *)

Send(c) ==
    /\ Server \in control[c]
    /\ c \notin lost
    /\ asked[c] < MaxCommands
    /\ "QUIT" \notin Range(req[c])
    /\ IF c \in Patient THEN asked[c] > 0 => Told(c, asked[c]) ELSE Len(req[c]) < 2
    /\ \E cmd \in Commands : req' = [req EXCEPT ![c] = Append(@, cmd)]
    /\ asked' = [asked EXCEPT ![c] = @ + 1]
    /\ UNCHANGED <<serverVars, socketVars, stdio, lost, child, replies, disk>>

\* To the port of the latest 227: the kernel completes the connection.
Dial(c) ==
    /\ c \notin lost
    /\ mode[c] = "passive"
    /\ far[sock[c]] = "none"
    /\ far' = [far EXCEPT ![sock[c]] = "dialled"]
    /\ UNCHANGED <<serverVars, control, listen, data, owner, child, clientVars,
                   replies, disk>>

\* c disappears.  What it had sent is still read; its kernel ends its data
\* connections by Hangup or Abort.
Vanish(c) ==
    /\ c \in Losses
    /\ Server \in control[c]
    /\ c \notin lost
    /\ lost' = lost \cup {c}
    /\ UNCHANGED <<serverVars, socketVars, asked, req, stdio, child, replies, disk>>

Storing(p) == \E k \in Kids : Running(k) /\ child[k].conn = p /\ child[k].kind = "STOR"

\* c closes its end: when all is sent, or on the end of the data it receives.
Hangup(p) ==
    /\ far[p] = "open"
    /\ Storing(p) \/ data[p] = {}
    /\ far' = [far EXCEPT ![p] = "shut"]
    /\ UNCHANGED <<serverVars, control, listen, data, owner, child, clientVars,
                   replies, disk>>

Abort(p) ==
    /\ Aborts
    /\ far[p] = "open"
    /\ far' = [far EXCEPT ![p] = "gone"]
    /\ UNCHANGED <<serverVars, control, listen, data, owner, child, clientVars,
                   replies, disk>>

-----------------------------------------------------------------------------
ServerStep ==
    \/ \E c \in Clients : Pasv(c) \/ Port(c) \/ Transfer(c) \/ Quit(c)
    \/ Establish \/ Fork \/ ForkFails \/ Release

ChildStep(k) == Begin(k) \/ BeginFails(k) \/ Move(k) \/ Finish(k) \/ Leave(k) \/ Killed(k)

Next ==
    \/ ServerStep
    \/ EstablishFails \/ ServerKilled
    \/ \E k \in Kids : ChildStep(k)
    \/ \E c \in Clients : Send(c) \/ Dial(c) \/ Vanish(c)
    \/ \E p \in Ports : Hangup(p) \/ Abort(p)

Spec == Init /\ [][Next]_vars

\* Every process is scheduled; clients open the data connections they asked for
\* and close them when the data has ended.  Nothing need fail and no client need
\* send another command.
Fairness ==
    /\ WF_vars(ServerStep)
    /\ \A k \in Kids : WF_vars(ChildStep(k))
    /\ \A c \in Clients : WF_vars(Dial(c))
    /\ \A p \in Ports : WF_vars(Hangup(p))

FairSpec == Spec /\ Fairness

-----------------------------------------------------------------------------
(* Properties.                                                             *)

\* The replies to a client that waits for the end of each command come in the
\* order of its commands although two processes write them: at most one 150,
\* then one final reply, and nothing of a command after its final reply.
RepliesInOrder ==
    \A c \in Patient : \A i, j \in DOMAIN replies[c] :
        i < j => \/ replies[c][i].to < replies[c][j].to
                 \/ /\ replies[c][i].to = replies[c][j].to
                    /\ replies[c][i].code = 150
                    /\ replies[c][j].code # 150

\* Only the child that makes a transfer, and the server until it has let go of
\* it, holds a data connection: no other process can delay its end.  So it is as
\* long as nobody sends PORT, whose socket is there to be inherited before its
\* transfer begins.
DataHeldByItsTransfer ==
    \A p \in Ports : \A k \in Kids \cap data[p] :
        Running(k) /\ child[k].conn = p /\ child[k].client = owner[p]

\* The server process may hold a listening data socket only for a connection
\* whose data_socket it is.
NoListenerLeft ==
    \A p \in Ports : Server \in listen[p] => \E c \in Clients : sock[c] = p

\* The 226 to a STOR is out before the end of its file is: once the child that
\* emptied the file is gone the file holds all that child received, unless SIGPIPE
\* killed it because its client was lost before it could be told.
StoredInTheEnd ==
    disk.state = "short" =>
        LET storer == child[disk.by] IN
            /\ storer.kind = "STOR"
            /\ storer.stage # "ended"
            /\ storer.stage = "killed" => storer.client \in lost

\* The n-th command of c waits in the FILE's buffer, and poll() reports nothing.
Stranded(c, n) == n > asked[c] - Len(req[c]) /\ ~Readable(c)

\* The child that was to answer it died of SIGPIPE: c dropped the data connection, or
\* is lost.
Dropped(c, n) ==
    \E k \in Kids : child[k].stage = "killed" /\ child[k].client = c /\ child[k].to = n

\* The server process waits for a data connection nobody will make.
Held == /\ pc = "establish"
        /\ mode[job.client] = "passive"
        /\ far[sock[job.client]] = "none"
        /\ job.client \in lost

\* Every command gets a final reply, one of a lost client included, unless its client
\* kills the child that would write it, by dropping a connection, or sent it together
\* with an earlier one, which strands it in the FILE's buffer; or unless a lost client
\* takes the server process with it, by SIGPIPE or by a data connection it does not open.
CommandAnswered ==
    \A c \in Clients : \A n \in 1..MaxCommands :
        asked[c] >= n ~> \/ Told(c, n)
                         \/ Dropped(c, n) \/ Stranded(c, n)
                         \/ Held \/ pc = "down"

\* A data connection that was established ends.
EndOfData == \A p \in Ports : far[p] = "open" ~> data[p] = {}

\* A client that quits sees the end of its control connection, if not at once: the
\* children of other clients hold it as well.
QuitEnds ==
    \A c \in Clients : (\E r \in Range(replies[c]) : r.code = 221) ~> control[c] = {}

=============================================================================
