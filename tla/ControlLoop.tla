----------------------------- MODULE ControlLoop -----------------------------
(***************************************************************************)
(* The control plane of the myftp server: ONE process that runs            *)
(*                                                                         *)
(*   while (!is_server_stopped())  process_connection()                    *)
(*                                                                         *)
(* over a table of MAX_CLIENTS slots.  One iteration polls the listening   *)
(* socket and every occupied slot, accepts at most one client, and then    *)
(* walks the slots in order, reading and executing at most one line of     *)
(* each readable one.  Everything a client does -- connect, send a line or *)
(* a piece of one, half-close, vanish, open the data connection it asked   *)
(* for -- interleaves with every step of that walk, and a SIGINT or        *)
(* SIGTERM may arrive at any of them.                                      *)
(*                                                                         *)
(* Three places block the whole process: poll() itself, getline() on a     *)
(* client that has sent only part of a line, and the accept() or connect() *)
(* of a data connection.  The last two are made by the same process that   *)
(* serves everybody else, before it forks.                                 *)
(*                                                                         *)
(* A client's lines are read through a stdio FILE: one read() pulls every  *)
(* byte the kernel holds into the FILE's buffer, getline() hands out one   *)
(* line, and poll() knows nothing of the lines left in the buffer.  The    *)
(* two indices pulled and taken into the history of lines sent are that    *)
(* split; the unfinished line that follows the last complete one is part.  *)
(*                                                                         *)
(* What a line says is abstracted to the effects the loop tells apart:     *)
(* "quit" frees the slot, "xfer" may wait for a data connection, "plain"   *)
(* answers at once and may prepare a data socket.  An "odd" line is one of *)
(* any of these kinds that the process may not survive: with two spaces in *)
(* succession, which makes parse_buffer read a token nobody wrote, or a    *)
(* CWD, CDUP or LIST in a directory that was removed, for which getcwd()   *)
(* returns NULL.                                                           *)
(*                                                                         *)
(* Descriptors run out: control connections of ignored clients are never   *)
(* closed, nor are listening data sockets, and accept() fails from then on.*)
(*                                                                         *)
(* A definition whose name ends in _Faulty is not part of the model: it is *)
(* the definition after it with a mistake the code might have contained,   *)
(* and the property named in its comment excludes that mistake.            *)
(***************************************************************************)
EXTENDS Integers, Sequences, FiniteSets

CONSTANTS
    Clients,     \* the machines that may connect; each connects at most once
    NoClient,    \* fd = -1: the content of a free slot
    MaxClients,  \* MAX_CLIENTS, the number of slots
    Descriptors, \* how many the process may open, its own left out
    Talkers,     \* bound: clients that send lines; the others only connect
    Kinds,       \* bound: the kinds of lines they send
    MaxLines,    \* bound: complete lines one client sends
    Window,      \* lines a client may have sent and not seen answered;
                 \* 1 is a client that waits for each reply
    Fragments,   \* TRUE: a line may arrive in two pieces
    Losses       \* TRUE: a client may disappear, closing both directions

ASSUME LoopAssumption ==
    /\ NoClient \notin Clients
    /\ MaxClients \in Nat \ {0}
    /\ Descriptors \in Nat
    /\ Talkers \subseteq Clients
    /\ Kinds \subseteq {"plain", "quit", "xfer", "odd"}
    /\ MaxLines \in Nat
    /\ Window \in Nat \ {0}
    /\ Fragments \in BOOLEAN
    /\ Losses \in BOOLEAN

VARIABLES
    pc,       \* where the server process is
    cur,      \* loop index i of process_client_events
    stop,     \* stop_server, set by the signal handler
    fds,      \* fds[i].fd for the slots 1..MaxClients
    ready,    \* slots with POLLIN in revents; 0 is the listening socket
    backlog,  \* connections the kernel holds for accept()
    conn,     \* the server's end of each client's connection
    peer,     \* the client's end of it
    held,     \* descriptors that data sockets keep
    sent,     \* kinds of the complete lines a client has sent, in order
    pulled,   \* how many of them read() has moved into the FILE's buffer
    taken,    \* how many of them getline() has returned
    part,     \* where the beginning of an unfinished line is
    dialed,   \* clients whose data connection waits to be established
    bye       \* clients that have been sent a 221

loopVars   == <<pc, cur, stop, fds, ready>>
netVars    == <<backlog, conn, peer, held>>
streamVars == <<sent, pulled, taken, part>>
vars == <<pc, cur, stop, fds, ready, backlog, conn, peer, held,
          sent, pulled, taken, part, dialed, bye>>

Slots == 1..MaxClients
PCs   == {"test", "poll", "accept", "scan", "read", "wait", "down"}

TypeOK ==
    /\ pc \in PCs
    /\ cur \in 1..(MaxClients + 1)
    /\ stop \in BOOLEAN
    /\ fds \in [Slots -> Clients \cup {NoClient}]
    /\ ready \subseteq 0..MaxClients
    /\ backlog \in Seq(Clients)
    /\ conn \in [Clients -> {"away", "queued", "open", "closed"}]
    /\ peer \in [Clients -> {"up", "shut", "gone", "reset"}]
    /\ held \in Nat
    /\ sent \in [Clients -> Seq(Kinds)]
    /\ pulled \in [Clients -> Nat]
    /\ taken \in [Clients -> Nat]
    /\ \A c \in Clients : taken[c] <= pulled[c] /\ pulled[c] <= Len(sent[c])
    /\ part \in [Clients -> {"none", "kernel", "stdio"}]
    /\ dialed \subseteq Clients
    /\ bye \subseteq Clients

-----------------------------------------------------------------------------
(* What the kernel and the buffers hold.                                   *)

Serving(c) == \E i \in Slots : fds[i] = c

\* read() on c's socket would return at once: bytes, an end of file or an error.
Readable(c) == \/ pulled[c] < Len(sent[c])
               \/ part[c] = "kernel"
               \/ peer[c] # "up"

ReadySlots == {i \in Slots : fds[i] # NoClient /\ Readable(fds[i])}

\* What poll() would report now.
Pollable == ReadySlots \cup {i \in {0} : backlog # <<>>}

\* The server process is inside accept() or connect() for c's data connection.
WaitingFor(c) == pc = "wait" /\ fds[cur] = c

\* Lines of c whose command has been carried out as far as this process does.
Answered(c) == taken[c] - (IF WaitingFor(c) THEN 1 ELSE 0)

\* Descriptors that are left.  Ignored clients keep theirs.
Spare == Descriptors - held - Cardinality({c \in Clients : conn[c] = "open"})

\* Without the test fds[i].fd < 0 (NoStaleReadiness).
IsFirstFree_Faulty(i) == \A j \in Slots : j < i => fds[j] # NoClient

IsFirstFree(i) == /\ fds[i] = NoClient
                  /\ \A j \in Slots : j < i => fds[j] # NoClient

-----------------------------------------------------------------------------
Init ==
    /\ pc = "test"
    /\ cur = 1
    /\ stop = FALSE
    /\ fds = [i \in Slots |-> NoClient]
    /\ ready = {}
    /\ backlog = <<>>
    /\ conn = [c \in Clients |-> "away"]
    /\ peer = [c \in Clients |-> "up"]
    /\ held = 0
    /\ sent = [c \in Clients |-> <<>>]
    /\ pulled = [c \in Clients |-> 0]
    /\ taken = [c \in Clients |-> 0]
    /\ part = [c \in Clients |-> "none"]
    /\ dialed = {}
    /\ bye = {}

-----------------------------------------------------------------------------
(* The end of the process: the kernel closes every descriptor.             *)

CloseAll(told) ==
    /\ pc' = "down"
    /\ cur' = 1
    /\ fds' = [i \in Slots |-> NoClient]
    /\ ready' = {}
    /\ backlog' = <<>>
    /\ conn' = [c \in Clients |-> IF conn[c] = "away" THEN "away" ELSE "closed"]
    /\ bye' = bye \cup told
    /\ UNCHANGED <<peer, held, sent, pulled, taken, part, dialed>>

\* The loop of destroy_server stops one slot early (NoSilentClose).
Shutdown_Faulty ==
    CloseAll({c \in Clients : \E i \in 1..(MaxClients - 1) : fds[i] = c})

\* destroy_server: a 221 to the slots in order.  A 221 written to a connection
\* that was reset may raise SIGPIPE, whose default action ends the process
\* before the slots that follow are told.
Shutdown ==
    \E n \in 0..MaxClients :
        /\ n < MaxClients => fds[n + 1] # NoClient /\ peer[fds[n + 1]] = "reset"
        /\ CloseAll({c \in Clients : \E i \in 1..n : fds[i] = c})

\* The first dprintf() to a client that has closed its socket succeeds and
\* draws a reset.
AfterWrite(c) ==
    peer' = IF peer[c] = "gone" THEN [peer EXCEPT ![c] = "reset"] ELSE peer

\* The process ends while it carries out a line of c, or greets it: a further
\* write may raise SIGPIPE, which the server neither ignores nor handles (HELP
\* alone replies with several, the second of which may already find the reset),
\* and an odd line may make it follow a pointer that leads nowhere.
Killed(c, kind) ==
    /\ \/ peer[c] = "reset"
       \/ kind = "plain" /\ peer[c] = "gone"
       \/ kind = "odd"
    /\ CloseAll({})
    /\ UNCHANGED stop

\* PASV and PORT open a socket.  A transfer or QUIT closes that of PORT; that of
\* PASV stays open.
Opens  == held' = held \/ (Spare > 0 /\ held' = held + 1)
Closes == held' = held \/ (held > 0 /\ held' = held - 1)

NextSlot == pc' = "scan" /\ cur' = cur + 1

\* The command was answered and the client keeps its slot.
Reply(c) ==
    /\ AfterWrite(c)
    /\ NextSlot
    /\ UNCHANGED <<stop, fds, ready, backlog, conn, dialed, bye>>

\* fd->fd = -1 is forgotten (SlotsSound).
Farewell_Faulty(c) ==
    /\ bye' = bye \cup {c}
    /\ conn' = [conn EXCEPT ![c] = "closed"]
    /\ AfterWrite(c)
    /\ Closes
    /\ NextSlot
    /\ UNCHANGED <<stop, fds, ready, backlog, dialed>>

\* handle_connection on COMMAND_QUIT: 221, close, free the slot.
Farewell(c) ==
    /\ bye' = bye \cup {c}
    /\ conn' = [conn EXCEPT ![c] = "closed"]
    /\ fds' = [fds EXCEPT ![cur] = NoClient]
    /\ AfterWrite(c)
    /\ Closes
    /\ NextSlot
    /\ UNCHANGED <<stop, ready, backlog, dialed>>

\* The command needs the data connection: wait for it in this process.
AwaitData ==
    /\ pc' = "wait"
    /\ UNCHANGED <<cur, stop, fds, ready, netVars, dialed, bye>>

\* execute_command, as far as the loop sees it.  A transfer command without a
\* prepared data socket or without a login is refused at once, like a plain one.
Execute(c, kind) ==
    \/ kind \in {"plain", "odd"} /\ Opens /\ Reply(c)
    \/ kind = "xfer" /\ UNCHANGED held /\ Reply(c)
    \/ kind \in {"xfer", "odd"} /\ AwaitData
    \/ kind \in {"quit", "odd"} /\ Farewell(c)

-----------------------------------------------------------------------------
(* process_connections and process_connection.                             *)

TestStop ==
    /\ pc = "test"
    /\ UNCHANGED stop
    /\ \/ stop /\ Shutdown
       \/ /\ ~stop
          /\ pc' = "poll"
          /\ UNCHANGED <<cur, fds, ready, netVars, streamVars, dialed, bye>>

\* New connections are looked at only when no client is ready (QueuedAccepted).
PollReady_Faulty ==
    /\ pc = "poll"
    /\ Pollable # {}
    /\ pc' = "accept"
    /\ ready' = IF ReadySlots # {} THEN ReadySlots ELSE Pollable
    /\ UNCHANGED <<cur, stop, fds, netVars, streamVars, dialed, bye>>

\* poll() returns with at least one descriptor ready; it rewrites every revents.
PollReady ==
    /\ pc = "poll"
    /\ Pollable # {}
    /\ pc' = "accept"
    /\ ready' = Pollable
    /\ UNCHANGED <<cur, stop, fds, netVars, streamVars, dialed, bye>>

\* poll() without a timeout (StopHonoured).
PollTimeout_Faulty == FALSE

\* A result of 0 taken for an error (EndsForAReason).
PollError_Faulty ==
    /\ pc = "poll"
    /\ Pollable = {}
    /\ Shutdown
    /\ UNCHANGED stop

\* POLL_TIMEOUT elapses: result 0 is not an error and the walk runs all the same.
PollTimeout ==
    /\ pc = "poll"
    /\ Pollable = {}
    /\ pc' = "accept"
    /\ ready' = {}
    /\ UNCHANGED <<cur, stop, fds, netVars, streamVars, dialed, bye>>

\* accept_new_connection: greet the client (220), then look for a slot.  With
\* every slot taken the descriptor is dropped without being closed: the client
\* has been greeted and nothing will ever read what it sends.
Accept ==
    /\ pc = "accept"
    /\ 0 \in ready
    /\ Spare > 0
    /\ LET c == Head(backlog) IN
        \/ Killed(c, "none")
        \/ /\ pc' = "scan"
           /\ backlog' = Tail(backlog)
           /\ conn' = [conn EXCEPT ![c] = "open"]
           /\ AfterWrite(c)
           /\ \/ \E i \in Slots : /\ IsFirstFree(i)
                                  /\ fds' = [fds EXCEPT ![i] = c]
              \/ /\ \A i \in Slots : fds[i] # NoClient
                 /\ UNCHANGED fds
           /\ UNCHANGED <<cur, stop, ready, held, streamVars, dialed, bye>>

\* No descriptor is left: accept() returns -1, and the connection stays where it is.
AcceptFails ==
    /\ pc = "accept"
    /\ 0 \in ready
    /\ Spare <= 0
    /\ pc' = "scan"
    /\ UNCHANGED <<cur, stop, fds, ready, netVars, streamVars, dialed, bye>>

\* Nobody is waiting on the listening socket.
NoAccept ==
    /\ pc = "accept"
    /\ 0 \notin ready
    /\ pc' = "scan"
    /\ UNCHANGED <<cur, stop, fds, ready, netVars, streamVars, dialed, bye>>

\* process_client_events: a free slot, or one whose revents has no POLLIN.
SkipSlot ==
    /\ pc = "scan"
    /\ cur \in Slots
    /\ fds[cur] = NoClient \/ cur \notin ready
    /\ cur' = cur + 1
    /\ UNCHANGED <<pc, stop, fds, ready, netVars, streamVars, dialed, bye>>

\* Without the test of revents (BlocksOnlyOnPartialLine).
VisitSlot_Faulty ==
    /\ pc = "scan"
    /\ cur \in Slots
    /\ fds[cur] # NoClient
    /\ pc' = "read"
    /\ UNCHANGED <<cur, stop, fds, ready, netVars, streamVars, dialed, bye>>

VisitSlot ==
    /\ pc = "scan"
    /\ cur \in Slots
    /\ fds[cur] # NoClient /\ cur \in ready
    /\ pc' = "read"
    /\ UNCHANGED <<cur, stop, fds, ready, netVars, streamVars, dialed, bye>>

\* The walk starts again at index 0, the listening socket (TypeOK).
EndScanAtZero_Faulty ==
    /\ pc = "scan"
    /\ cur = MaxClients + 1
    /\ pc' = "test"
    /\ cur' = 0
    /\ ready' = {}
    /\ UNCHANGED <<stop, fds, netVars, streamVars, dialed, bye>>

\* The walk may stop one slot early (LineAnswered).
EndScanEarly_Faulty ==
    /\ pc = "scan"
    /\ cur >= MaxClients
    /\ pc' = "test"
    /\ cur' = 1
    /\ ready' = {}
    /\ UNCHANGED <<stop, fds, netVars, streamVars, dialed, bye>>

EndScan ==
    /\ pc = "scan"
    /\ cur = MaxClients + 1
    /\ pc' = "test"
    /\ cur' = 1
    /\ ready' = {}
    /\ UNCHANGED <<stop, fds, netVars, streamVars, dialed, bye>>

-----------------------------------------------------------------------------
(* read_socket and handle_client_command for the client of slot cur.       *)

\* Nothing is left to read of c but, perhaps, the beginning of a line.
Drained(c) == /\ taken[c] = pulled[c]
              /\ pulled[c] = Len(sent[c])
              /\ part[c] # "kernel"

\* getline() finds a complete line in the FILE's buffer.
TakeLine ==
    /\ pc = "read"
    /\ LET c == fds[cur] IN
        /\ taken[c] < pulled[c]
        /\ LET kind == sent[c][taken[c] + 1] IN
            \/ Killed(c, kind)
            \/ /\ taken' = [taken EXCEPT ![c] = @ + 1]
               /\ UNCHANGED <<sent, pulled, part>>
               /\ Execute(c, kind)

\* One read() counts as having handled the event (StrandBound).
FillBuffer_Faulty ==
    /\ pc = "read"
    /\ LET c == fds[cur] IN
        /\ taken[c] = pulled[c]
        /\ ~Drained(c)
        /\ pulled' = [pulled EXCEPT ![c] = Len(sent[c])]
        /\ part' = [part EXCEPT ![c] = IF @ = "kernel" THEN "stdio" ELSE @]
    /\ NextSlot
    /\ UNCHANGED <<stop, fds, ready, netVars, sent, taken, dialed, bye>>

\* getline() finds none and read() returns all the kernel holds.
FillBuffer ==
    /\ pc = "read"
    /\ LET c == fds[cur] IN
        /\ taken[c] = pulled[c]
        /\ ~Drained(c)
        /\ pulled' = [pulled EXCEPT ![c] = Len(sent[c])]
        /\ part' = [part EXCEPT ![c] = IF @ = "kernel" THEN "stdio" ELSE @]
    /\ UNCHANGED <<loopVars, netVars, sent, taken, dialed, bye>>

ExecuteFragment(c, kind) ==
    /\ sent' = [sent EXCEPT ![c] = Append(@, kind)]
    /\ pulled' = [pulled EXCEPT ![c] = @ + 1]
    /\ taken' = [taken EXCEPT ![c] = @ + 1]
    /\ part' = [part EXCEPT ![c] = "none"]
    /\ Execute(c, kind)

\* getline() gives up in the middle of a line, at the end of the stream or on
\* EINTR, and returns the piece it has: it is executed as if it were a line,
\* whatever command it happens to spell.
TakeFragment(c) ==
    /\ part[c] = "stdio"
    /\ \E kind \in Kinds :
        Killed(c, kind) \/ ExecuteFragment(c, kind)

\* The slot is freed and the connection left open (KeepsPromise).
ReadNothing_Faulty(c) ==
    /\ part[c] = "none"
    /\ NextSlot
    /\ fds' = [fds EXCEPT ![cur] = NoClient]
    /\ UNCHANGED <<stop, ready, netVars, streamVars, dialed, bye>>

\* getline() returns -1: handle_client_command returns 1, which is
\* COMMAND_FAILURE, and handle_connection does nothing about it.
ReadNothing(c) ==
    /\ part[c] = "none"
    /\ NextSlot
    /\ UNCHANGED <<stop, fds, ready, netVars, streamVars, dialed, bye>>

ReadEnd ==
    /\ pc = "read"
    /\ LET c == fds[cur] IN
        /\ Drained(c)
        /\ peer[c] # "up"
        /\ TakeFragment(c) \/ ReadNothing(c)

\* accept() or connect() returns: the transfer goes on in a forked child and
\* the loop moves on.
DataReady ==
    /\ pc = "wait"
    /\ fds[cur] \in dialed
    /\ dialed' = dialed \ {fds[cur]}
    /\ Closes
    /\ NextSlot
    /\ UNCHANGED <<stop, fds, ready, backlog, conn, peer, streamVars, bye>>

\* It fails -- nobody listens there, no descriptor is left, or a signal
\* interrupted it: 425, and the data socket is dropped.
DataRefused ==
    /\ pc = "wait"
    /\ LET c == fds[cur] IN
        \/ Closes /\ Reply(c) /\ UNCHANGED streamVars
        \/ Killed(c, "xfer")

-----------------------------------------------------------------------------
(* SIGINT and SIGTERM.  handle_signal sets the flag; sa_flags is 0, so a call *)
(* that was blocking then MAY return EINTR instead of being restarted: it does  *)
(* so unless the signal arrived just before the call.                        *)

Signal ==
    /\ pc # "down"
    /\ ~stop
    /\ stop' = TRUE
    /\ UNCHANGED <<pc, cur, fds, ready, netVars, streamVars, dialed, bye>>

\* poll() returns -1, which ends the loop.
PollInterrupted ==
    /\ pc = "poll"
    /\ stop
    /\ Pollable = {}
    /\ Shutdown
    /\ UNCHANGED stop

\* getline() returns what it has of the line, or -1.
ReadInterrupted ==
    /\ pc = "read"
    /\ stop
    /\ LET c == fds[cur] IN
        /\ Drained(c)
        /\ peer[c] = "up"
        /\ TakeFragment(c) \/ ReadNothing(c)

-----------------------------------------------------------------------------
(* The clients and the network.                                            *)

Connected(c) == pc # "down" /\ conn[c] \in {"queued", "open"}

\* The kernel completes the handshake on its own as long as the listen() queue
\* has room, whatever the server process is doing.
Connect(c) ==
    /\ pc # "down"
    /\ conn[c] = "away"
    /\ Len(backlog) <= MaxClients
    /\ conn' = [conn EXCEPT ![c] = "queued"]
    /\ backlog' = Append(backlog, c)
    /\ UNCHANGED <<loopVars, peer, held, streamVars, dialed, bye>>

\* c still writes, and has fewer than Window lines without an answer.
MaySend(c) ==
    /\ c \in Talkers
    /\ Connected(c)
    /\ peer[c] = "up"
    /\ Len(sent[c]) < MaxLines
    /\ Len(sent[c]) - Answered(c) < Window

BeginLine(c) ==
    /\ Fragments
    /\ MaySend(c)
    /\ part[c] = "none"
    /\ part' = [part EXCEPT ![c] = "kernel"]
    /\ UNCHANGED <<loopVars, netVars, sent, pulled, taken, dialed, bye>>

\* The line feed arrives.
CompleteLine(c) ==
    /\ \E kind \in Kinds : sent' = [sent EXCEPT ![c] = Append(@, kind)]
    /\ part' = [part EXCEPT ![c] = "none"]
    /\ UNCHANGED <<loopVars, netVars, pulled, taken, dialed, bye>>

SendLine(c) ==
    /\ MaySend(c)
    /\ part[c] = "none"
    /\ CompleteLine(c)

FinishLine(c) ==
    /\ Connected(c)
    /\ peer[c] = "up"
    /\ part[c] # "none"
    /\ CompleteLine(c)

\* c shuts its sending side and goes on reading.
Shut(c) ==
    /\ Connected(c)
    /\ peer[c] = "up"
    /\ peer' = [peer EXCEPT ![c] = "shut"]
    /\ UNCHANGED <<loopVars, backlog, conn, held, streamVars, dialed, bye>>

\* c closes its socket or dies; with replies it has not read, or when the
\* machine is gone, the server's kernel is told by a reset at once.
Vanish(c) ==
    /\ Losses
    /\ Connected(c)
    /\ peer[c] \in {"up", "shut"}
    /\ \E p \in {"gone", "reset"} : peer' = [peer EXCEPT ![c] = p]
    /\ UNCHANGED <<loopVars, backlog, conn, held, streamVars, dialed, bye>>

\* c opens the data connection for a transfer it has asked for: in passive mode
\* the kernel accepts it before the server does, in active mode c listens.
Dial(c) ==
    /\ Connected(c)
    /\ peer[c] \in {"up", "shut"}
    /\ c \notin dialed
    /\ \/ WaitingFor(c)
       \/ \E n \in (taken[c] + 1)..Len(sent[c]) : sent[c][n] \in {"xfer", "odd"}
    /\ dialed' = dialed \cup {c}
    /\ UNCHANGED <<loopVars, netVars, streamVars, bye>>

-----------------------------------------------------------------------------
\* The process has ended.
Terminated == pc = "down" /\ UNCHANGED vars

\* The steps the server process takes by itself.
ServerStep ==
    \/ TestStop \/ PollReady \/ PollTimeout \/ Accept \/ AcceptFails \/ NoAccept
    \/ SkipSlot \/ VisitSlot \/ EndScan
    \/ TakeLine \/ FillBuffer \/ ReadEnd \/ DataReady

ClientStep(c) ==
    \/ Connect(c) \/ BeginLine(c) \/ SendLine(c) \/ FinishLine(c)
    \/ Shut(c) \/ Vanish(c) \/ Dial(c)

Next ==
    \/ ServerStep
    \/ DataRefused \/ Signal \/ PollInterrupted \/ ReadInterrupted
    \/ \E c \in Clients : ClientStep(c)
    \/ Terminated

Spec == Init /\ [][Next]_vars

\* The process is scheduled, and poll() comes back after POLL_TIMEOUT at the
\* latest.  Nothing obliges a signal to come or a data connection to fail.
ServerFairness == WF_vars(ServerStep)

\* A client that has begun a line finishes it, and one that has asked for a
\* transfer opens its data connection.
ClientFairness == \A c \in Clients : /\ WF_vars(FinishLine(c))
                                     /\ WF_vars(Dial(c))

\* Clients may stop at any point of the dialogue.
ServerFairSpec == Spec /\ ServerFairness

\* Clients keep their side of the protocol.
FairSpec == Spec /\ ServerFairness /\ ClientFairness

-----------------------------------------------------------------------------
(* Safety.                                                                 *)

\* Every slot holds an open connection, no connection has two slots, and the
\* slot the process is reading from or waiting on is an occupied one: what
\* handle_connection is given is never a closed or foreign descriptor.
SlotsSound ==
    /\ \A i \in Slots : fds[i] # NoClient => conn[fds[i]] = "open"
    /\ \A i, j \in Slots : fds[i] = fds[j] /\ fds[i] # NoClient => i = j
    /\ pc \in {"read", "wait"} => cur \in Slots /\ fds[cur] # NoClient

\* The revents that process_client_events acts on were filled in before
\* accept_new_connection and before the slots that come first were served, yet
\* they are never stale: a slot marked ready and not reached yet still belongs
\* to a client whose read() returns at once.
NoStaleReadiness ==
    \A i \in Slots :
        /\ pc \in {"accept", "scan"}
        /\ i \in ready
        /\ i >= cur
        => fds[i] # NoClient /\ Readable(fds[i])

\* getline() can hold up the whole server only on a client that is connected,
\* has sent the beginning of a line and has not sent the rest.
BlocksOnlyOnPartialLine ==
    pc = "read" => LET c == fds[cur] IN
        \/ taken[c] < pulled[c]
        \/ Readable(c)
        \/ part[c] = "stdio"

\* Outside getline(), the lines of a client stranded in the FILE's buffer, which
\* poll() cannot see, are fewer than the lines it sends without waiting for an
\* answer: none for a client that waits for each reply.
StrandBound ==
    \A c \in Clients :
        pc # "down" /\ ~(pc = "read" /\ fds[cur] = c)
            => pulled[c] - taken[c] < Window

\* A client that has a slot is not dropped without a 221, by its own QUIT or when the
\* server stops, as long as the process lives: only a client that was reset, in its
\* slot or in one before it, keeps destroy_server from telling it, and only the death
\* of the process over a greeting or a command (EndsForAReason) spares it destroy_server.
NoSilentClose ==
    [][\A i \in Slots : fds[i] # NoClient /\ conn'[fds[i]] = "closed" =>
          \/ fds[i] \in bye'
          \/ \E j \in 1..i : fds[j] # NoClient /\ peer[fds[j]] = "reset"
          \/ pc \in {"accept", "read", "wait"} /\ pc' = "down"]_vars

\* Whom the process is greeting or carrying out a command for.
AtWorkFor(c) == \/ pc = "accept" /\ backlog # <<>> /\ c = Head(backlog)
                \/ pc \in {"read", "wait"} /\ c = fds[cur]

\* What the process is about to carry out for c is an odd line or a piece of a line.
OnOddLine(c) == /\ pc = "read"
                /\ \/ taken[c] < pulled[c] /\ sent[c][taken[c] + 1] = "odd"
                   \/ taken[c] = pulled[c] /\ part[c] = "stdio"

\* The process ends when it is told to, or while it answers one client: one that has
\* disappeared, or one whose line it does not survive.  An idle poll(), a refused
\* command, a full table, a failed accept() or a client lost while others are
\* being answered does not end it.
EndsForAReason ==
    [][pc # "down" /\ pc' = "down" =>
          \/ stop
          \/ \E c \in Clients :
                AtWorkFor(c) /\ (peer[c] \in {"gone", "reset"} \/ OnOddLine(c))]_vars

-----------------------------------------------------------------------------
(* Liveness.                                                               *)

\* A connection the kernel has completed is accepted, however busy the clients
\* already connected keep the loop, unless accept() fails again and again for want
\* of a descriptor.
QueuedAccepted ==
    \A c \in Clients :
        \/ conn[c] = "queued" ~> conn[c] # "queued"
        \/ []<>(pc = "accept" /\ conn[c] = "queued" /\ Spare <= 0)

\* A served client gets an answer to every line it has sent.
LineAnswered ==
    \A c \in Clients : \A n \in 1..MaxLines :
        Serving(c) /\ Len(sent[c]) >= n
            ~> Answered(c) >= n \/ conn[c] = "closed"

\* The slot of a client whose connection is lost is given back.
LostConnectionReleased ==
    \A c \in Clients :
        Serving(c) /\ peer[c] \in {"gone", "reset"} ~> conn[c] = "closed"

\* A stop signal ends the process, also when it arrives between the test of the
\* flag and poll().
StopHonoured == stop ~> pc = "down"

-----------------------------------------------------------------------------
(* The promise this loop keeps (module ControlService).                    *)

Phase(c) == IF conn[c] # "open" THEN conn[c]
            ELSE IF Serving(c) THEN "served" ELSE "ignored"

Promise == INSTANCE ControlService WITH
    Capacity <- MaxClients,
    phase    <- [c \in Clients |-> Phase(c)],
    arrivals <- backlog,
    asked    <- [c \in Clients |-> Len(sent[c])],
    answered <- [c \in Clients |-> Answered(c)],
    halted   <- pc = "down"

\* Every behaviour of the loop is one the promise allows: clients are admitted
\* first come first served, ignored only when every slot is taken, answered at
\* most once per line and never after the connection is closed.
KeepsPromise == Promise!Service

=============================================================================
