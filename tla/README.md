# A TLA+ model of MyFTP

MyFTP (`src/`) is an FTP server in C with, under `bonus/`, a small command-line
client. The server is one process: it polls the listening socket and the control
connections, executes at most one command line of each readable client per
iteration, and forks a child for the data of a transfer. This directory models it
in TLA+, checks the models with TLC on small instances, and proves the main
invariants with TLAPS for every value of the constants. Paths and line numbers
below are those of the repository.

## 1. Inventory

| Component | Source | State it keeps | Operations | Interacts through |
|---|---|---|---|---|
| Control loop | `src/connection.c`, `src/client_handler.c`, `src/signal.c` | slot table `fds[]` and `connections[]`, `revents`, the stop flag, one stdio buffer per client | poll, accept, read one line, execute, QUIT, shutdown | the kernel's sockets; signals; calls the dispatcher |
| Start-up | `src/main.c`, `src/socket.c` | listening socket, root path, directory of the process | check arguments, bind, listen, chdir | once, before the loop |
| Destruction | `src/destroyers.c` | none of its own | close and free connections, data sockets, commands | called by the loop, the commands, the children |
| Dispatch | `src/command_executor.c` | the table of 15 commands | look up, refuse unknown names | calls the handlers |
| Command parser | `src/command_parser.c`, `src/utils.c` | none | trim, count, tokenise, upper-case | called by the loop |
| Session | `commands/user.c pass.c type.c noop.c help.c pwd.c quit.c` | `user`, `logged_in`, `transfer_mode` per client | the commands of those names | replies on the control connection |
| Working directory | `commands/cwd.c cdup.c dele.c` | `working_directory` per client, and the ONE directory of the process | CWD, CDUP, DELE | shared by all clients through chdir() |
| Data channel | `passive_data_socket.c`, `active_data_socket.c`, `data_socket_executor.c`, `commands/pasv.c port.c` | `data_socket` per client, descriptors, children | PASV, PORT, accept/connect, fork | the parent blocks in it; children inherit every descriptor |
| Transfers | `commands/list.c retr.c stor.c` | none beyond the child | LIST, RETR, STOR | run in the child, write replies to the shared control socket |
| Bonus client | `bonus/src/` | login state, one data socket | login, get, put, ls, cd, pwd, quit | the server, over TCP |

Hard behaviours, by component (each is a row of `hazards` in `PROJECT.json`):

* *Control loop.* Events of all clients interleave with one sequential walk.
  Readiness is sampled once and used later. Lines hidden in a stdio buffer are
  invisible to `poll()`. `getline()` on a partial line, and the accept of a data
  connection, block everybody. Signals arrive anywhere and interrupt whatever
  blocks. A lost client is never released; SIGPIPE, or a line that is parsed or carried
  out by way of a pointer that leads nowhere, ends the process; a client beyond the last
  slot is greeted and then ignored; descriptors run out and `accept()` fails.
* *Working directory.* One process directory serves all sessions, DELE leaves it
  elsewhere, and checks and actions resolve paths from different directories; whether a
  directory is inside the root is decided by the first characters of its path.
* *Data channel.* Leaked listening sockets, zombies, descriptors inherited by
  children of other clients, replies of a child and of the parent on one socket, either
  of which may die of writing one.
* *Parser and codecs.* Counting spaces against merging them; a port of -1.
* *Client.* Replies lost in a discarded buffer, waiting for 226 before draining, replies
  told apart by their place only, signals and failures between the two replies of a transfer.

What makes each correct: a sound slot table; no blocking except where a client
keeps its side of the line open; every connection accepted and every line
answered for clients that follow the protocol; a stop signal that always ends the
process and a 221 for every served client (control loop). Gating by login (session).
A session's commands act in its own directory, and it stays where check_new_path lets it
(working directory). A data
connection belongs to the client that asked for it, ends, and leaves a whole file behind
(data channel). A line is read as its words (parser); ports survive the textual round
trip (codec). The client takes each reply for the command it belongs to, reports what
has happened, and comes back to its prompt (client).

## 2. Modules

| Module | What it is |
|---|---|
| `ControlLoop` | the server process, its clients and the network |
| `ControlService` | what the loop promises; `ControlLoop` implements it (`KeepsPromise`) |
| `DataChannel` | PASV, PORT, accept/connect, fork, children, who holds which descriptor, the order of replies |
| `DirectoryTree`, `WorkingDirectory` | several sessions over one process directory: CWD, CDUP, DELE, LIST, RETR, STOR; directories that vanish |
| `SessionDirectories` | each session in a directory of its own; `WorkingDirectory` implements it (`OwnDirectory`) |
| `Session` | login, what it opens, and slots that are used again |
| `SessionAccess` | what a client may expect of a login; `Session` implements it (`KeepsAccess`) |
| `FtpClient` | the bonus client with the server and the child it talks to |
| `CommandLine` | trim, token count and tokens, against a definition of the words of a line |
| `Ascending` | the numbers of a set in order, in which those definitions say what a scan finds |
| `PortCodec` | the numbers of PORT and 227, to and from an address and a port |
| `ControlLoopProofs`, `ControlLoopReadiness`, `ControlLoopPromise`, `DataChannelProofs`, `WorkingDirectoryProofs`, `SessionProofs`, `FtpClientProofs`, `TextProofs` | theorems (section 10) |
| `MC...` | instances for TLC; `MCClientText` puts `CommandLine` and `PortCodec`, which share no state with anything, beside `MCFtpClient` in one run |

The server is seen by four modules, each of which opens up what the others treat as
one step. `ControlLoop` has the loop, and of a command only whether it ends the session,
answers or waits for a data connection. `DataChannel`, `WorkingDirectory` and `Session` take
a line that has been read and have what its handler does to the descriptors, the
directories and the login. `FtpClient` has the server of one client, with the replies of
all handlers, and the client in full.

## 3. ControlLoop

One action per step of the server process between two points where something
else can happen; everything between them is atomic because nothing outside can see
the difference.

| Variable | Code |
|---|---|
| `pc`, `cur` | the program counter of the loop and the index `i` of `process_client_events` |
| `stop` | `stop_server` |
| `fds`, `ready` | `fds[i].fd` and `fds[i].revents & POLLIN`; index 0 is the listening socket |
| `backlog`, `conn`, `peer` | the kernel's accept queue, and the two ends of each TCP connection; `peer` is `shut` after a half-close, `gone` after a full close, `reset` once the server's kernel has seen a reset |
| `sent`, `pulled`, `taken`, `part` | the lines of a client: all it has sent, those moved into the stdio buffer, those returned by `getline()`, and where the beginning of an unfinished line is |
| `held` | descriptors that data sockets keep open in the server process |
| `dialed` | the client has opened (or listens for) its data connection |
| `bye` | a 221 was written to the client |

| Action | Code |
|---|---|
| `TestStop` | `while (!is_server_stopped())`, and `destroy_server` after it |
| `PollReady`, `PollTimeout`, `PollInterrupted` | the three returns of `poll()` |
| `Accept`, `AcceptFails`, `NoAccept` | `accept_new_connection`: 220, then the first free slot, if any; the -1 of `accept()` when no descriptor is left |
| `SkipSlot`, `VisitSlot`, `EndScan` | `process_client_events` |
| `FillBuffer`, `TakeLine`, `ReadEnd`, `ReadInterrupted` | `read_socket` and what `handle_client_command` does with the result |
| `DataReady`, `DataRefused` | the blocking part of `execute_data_socket_command` |
| `Signal` | `handle_signal` |
| `Connect` ... `Dial` | clients and kernel, external |

Abstractions. A line is one of four kinds, chosen by the client. `plain` lines are answered
at once, `quit` frees the slot, `xfer` may wait for a data connection; a transfer command
that is refused at once behaves as `plain`. An `odd` line does what a line of any of these
kinds does, or ends the process (`Killed`): one with two spaces in succession, which makes
`tokenize_buffer` read an entry nobody wrote (`command_parser.c:75`, section 8), or a CWD, CDUP
or LIST for which `getcwd()` returns NULL (`cwd.c:86`, section 5). A piece of a line may
happen to be any of them. A reply is one write, except that of a plain command, which may be
several (HELP). A read returns all that has arrived: lines are far shorter than the 4 kB buffer.

Descriptors. A connection that was accepted keeps one until QUIT, one without a slot for ever.
A PASV or PORT may take one (`Opens`); a transfer or QUIT may give one back (`Closes`): that of
PORT, as the listening socket of a PASV stays open. Which of these a line is, and whether the
socket of an overwritten `data_socket` is among the ones that stay, is left open, so that `held`
may take every course the code allows. With none to spare `accept()` fails (`connection.c:85`).
The `_Faulty` definitions are not part of the model; each shows the property named
beside it excluding a mistake.

### Properties

| Property | Says |
|---|---|
| `SlotsSound` | slots hold distinct open connections; the server reads and waits only on an occupied one |
| `NoStaleReadiness` | a `revents` bit sampled before the accept and before earlier slots were served is still true when it is acted on |
| `BlocksOnlyOnPartialLine` | `getline()` can block the server only on a connected client in the middle of a line |
| `StrandBound` | fewer than `Window` lines of a client are ever hidden from `poll()`; none when it waits for replies |
| `NoSilentClose` | a served client is never dropped without a 221 as long as the process lives; at its end it may be only when a client in its slot or before it was reset, or when the process died over a greeting or a command |
| `EndsForAReason` | the process ends for a stop signal, or while it answers one client that has disappeared or sent a line the process does not survive; nothing else ends it, neither the loss of a client nobody is answering nor a failed `accept()` |
| `KeepsPromise` | the loop implements `ControlService` |
| `QueuedAccepted` | every connection is accepted, unless `accept()` fails for want of a descriptor again and again |
| `LineAnswered`, `StopHonoured` | every line of a served client is answered, every stop signal obeyed |

### Runs

| Run | Instance | Result |
|---|---|---|
| `liveness` | 2 clients, 2 slots, 2 descriptors, 2 lines each, window 1, pieces, fair clients | passes, 547 043 states: type, `SlotsSound`, `NoStaleReadiness` and the liveness properties |
| `promise` | 3 clients, one of which sends 2 lines, 2 slots, 3 descriptors, window 2, pieces, losses | passes, 2.4 M states: `StrandBound`, `BlocksOnlyOnPartialLine`, `EndsForAReason`, `NoSilentClose`, `KeepsPromise` |
| `lost_connection` | 1 client that disappears | violated: nothing frees the slot (`client_handler.c:69` says the code does) |
| `held_up` | 2 clients that need not dial | violated: nobody is accepted meanwhile (`README.md:37`) |

Two results outside the runs. With `Window = 2`, `LineAnswered` fails: the second of two
lines that arrive together stays in the stdio buffer, which `poll()` does not see, until
the client sends more (`tests/test.sh:98` pipes several commands in at a time). And without
the second disjunct of `QueuedAccepted`, or without any of the exceptions of `EndsForAReason` and
`NoSilentClose`, the property fails in its run: SIGPIPE keeps its default action (`signal.c:44`),
and the descriptor of an ignored client or of a listening data socket is never closed. The
221 of the shutdown goes to the slots (`destroyers.c:14`), so a client that was accepted
beyond the last one gets none; `NoSilentClose` is about served clients for that reason.

Bounds. Two slots are enough for a slot before and one after the one being served, and
for the 221 of the shutdown to be cut short between them; two slots and three clients for a
full table with one more waiting. Every slot and client runs the same code, and the safety
properties are proved for any number of both. `MaxLines` and `Window` of 2 are the smallest
with a line behind another in the buffer. `Talkers` bounds who sends lines: in `promise` one
client does, and the others connect, occupy slots and disappear. `Kinds` bounds what is sent:
in `liveness` `xfer` and `odd`, which between them take every course (an odd line may turn
out plain, a QUIT or a transfer, and need not end the process); in `promise` no `xfer` by
name, an odd line being one as well. `Descriptors` is as large as the number of clients
in both, so that one leaked descriptor makes `accept()` fail. Clients that send nothing are
interchangeable in `promise`; no symmetry is used where liveness is checked.

Fairness. `ServerFairness` is weak fairness of the disjunction of the server's own
steps: it is one process, the operating system schedules it, and `poll()` comes
back within `POLL_TIMEOUT`. Signals, losses and failures of the data connection are
not fair. `ClientFairness` (a client finishes a line it has begun and opens the data
connection it has asked for) is an assumption on clients; `held_up` shows what
happens without it.

## 4. DataChannel

The server process and its children from PASV or PORT to the end of a transfer, for
clients that are logged in. What `ControlLoop` calls an `xfer` line and `DataReady` is
opened up here. Of what it says about lines, buffers and slots only this is kept: commands that
arrive together go to the stdio buffer together, and the server serves a client whose
socket `poll()` reports, not one whose next command is in the buffer. The two modules
share no variable; they meet in `execute_data_socket_command`.

| Variable | Code |
|---|---|
| `pc`, `job` | where the server process is inside a transfer command, and which |
| `mode`, `sock` | `data_socket` of each connection (NULL is `none`) and the socket it refers to |
| `control`, `listen`, `data` | for each `client_sockfd`, listening `data_sockfd` and data `client_sockfd`: the processes that hold a descriptor of it. A connection ends when the last one lets go |
| `far`, `owner` | the client's end of a data connection, and who it was made for |
| `child` | the forked processes; those that `ended` or were `killed` stay, as nothing waits for them |
| `asked`, `req`, `stdio` | commands sent, those not begun, and how many of these are in the stdio buffer |
| `lost` | clients that are gone, whose control connection was reset |
| `replies` | what was written to the control connection, in the order of the writes, by whichever process |
| `disk` | the stored file: `short` from the `fopen(..., "wb")` of a child to its `fclose()`, and which child that was |

| Action | Code |
|---|---|
| `Pasv`, `Port` | `pasv_command`, `port_command`, with a socket, without one, with a bad argument |
| `Transfer` | `list_command`, `retr_command`, `stor_command` up to `execute_data_socket_command` |
| `Establish`, `EstablishFails` | `establish_data_socket_connection`, and the 425 with the destruction that follows |
| `Fork`, `ForkFails`, `Release` | `fork_execution`; the destruction of the parent's copy |
| `Begin`, `BeginFails`, `Move`, `Finish`, `Leave` | `execute_ls_command`, `execute_retr_command`, `execute_stor_command`; `exit(0)` |
| `KilledByData` | SIGPIPE in a child that writes to a data connection its client has dropped |
| `KilledByReply` | SIGPIPE in a child whose 150, 451 or 226 goes to a lost client |
| `ServerKilled` | SIGPIPE in the server process, which replies to a lost client |
| `Take` | `read_socket`: `poll()` has reported the client, and `getline()` takes all that has arrived and returns one line |
| `Quit` | `handle_connection` on `COMMAND_QUIT` |
| `Send`, `Dial`, `Hangup`, `Abort`, `Vanish` | the client, external |

The three handlers differ in little: RETR looks for its file first, LIST refuses before
its 150, STOR reads instead of writing. They share actions, with `kind` where they differ.

| Property | Says |
|---|---|
| `RepliesInOrder` | to a client that waits for the end of each command, two processes write the replies in the order of the commands, one final reply each |
| `DataHeldByItsTransfer` | of the children only the one that makes the transfer holds its data connection, and it is running |
| `EndOfData` | an established data connection ends, whatever else happens |
| `QuitEnds` | a client that quits sees the end of its control connection at some time |
| `CommandAnswered` | every command gets a final reply, also when fork() fails or the file has gone, except in the four cases below |
| `StoredInTheEnd` | whoever stores and whoever fails, a file is not short once the child that emptied it is gone; except that SIGPIPE killed this child over a reply to a lost client |
| `NoListenerLeft` | what a comment says and the code does not do |

| Run | Instance | Result |
|---|---|---|
| `channel_passive` | 2 clients that wait and may be lost, 2 sockets, 2 children, 3 commands, PASV only, aborts | passes, 4.0 M states |
| `channel_live` | a client that waits and one that pipelines and may be lost, 2 sockets, 1 child (the second fork fails), 2 commands, all kinds but LIST, aborts, fair | passes, 304 942 states |
| `channel_listener` | PASV and LIST | violated: the listening socket is never closed (`destroyers.c:38`) |

The 226 of a STOR is written before the `fclose()` that writes the end of the file
(`stor.c:63`). A client that acts on it at once may find the file short, so
`StoredInTheEnd` is about the end of the child and not about the 226; and a child that dies
of writing the 226, because its client is lost, never comes to the `fclose()`: the file stays
short. That is the exception of the property.

The four cases of `CommandAnswered`. The child died of SIGPIPE, as the client dropped the data
connection or is lost (`Dropped`); the client sent the command together with an earlier one,
so that it is in the stdio buffer and `poll()` reports nothing (`Stranded`,
`client_handler.c:27`); a lost client is not going to open the passive connection the server
process waits for (`Held`, `data_socket_executor.c:55`); a reply to a lost client has ended the
server process. Without any one of them the property fails in `channel_live`: they are the
code's. A client that waits, and shares the server with nobody who is lost, meets the first only.

Two more results outside the runs. With PORT among the commands of `channel_passive`,
`DataHeldByItsTransfer` fails: the socket PORT makes is inherited by the next transfer of any
client, which then holds the connection open when its own transfer is over. And
`RepliesInOrder` does not hold of a client outside `Patient`: the 221 of a QUIT overtakes
the 226 of the transfer before it.

Bounds. `Ports` bounds the sockets open at a time, `MaxForks` the process table:
both are limits the system has, and the runs reach them (`Unprepared`, `ForkFails`).
Two clients are enough for a child of one to hold a descriptor of the other; two
children for two transfers at a time; three commands for PASV, a transfer and a QUIT; two
sockets for one of each client. LIST is left out of `channel_live`, where it differs from
RETR in nothing but a refusal before the 150, and is in `channel_passive`.

Fairness. The server process and each child are processes, so each is scheduled.
`Dial` and `Hangup` are fair: clients open and close the connections they asked for
(`held_up` shows the loop without that), a lost client excepted, which opens none. Failures,
aborts, losses and new commands are not fair.

## 5. WorkingDirectory

The sessions' directories and the one directory of the process that stands behind
them, for clients that are logged in, have a data socket and give the right number of
arguments, on a host where the directories that exist can be entered (`opendir()` may fail all
the same, and CWD is then refused). A handler runs to its end before the next line of any client, so each
command is one action; the children made for LIST, RETR and STOR go on by themselves.
`DirectoryTree` holds what both levels know of the host's file system: `Lookup` says
what a path denotes from each directory, and directories can be removed (`gone`).

The root. `check_new_path` (`cwd.c:56`, `cdup.c:53`) and `check_directory_access` (`list.c:74`)
compare as many characters as the path of the root has: what passes is `Prefixed`, the root,
what is below it, and also a directory beside the root whose name begins like the root's
(`/srv/ftp-old` beside `/srv/ftp`). A session can go there,
which is more than their comments say (`list.c:54-55`, `cwd.c:49`). Elsewhere CWD answers 250
and takes the session to the root. DELE, RETR and STOR compare nothing.

| Variable | Code |
|---|---|
| `cwd` | the directory of the server process |
| `wd` | `working_directory` of each connection |
| `gone` | directories removed by DELE |
| `kids` | the children that have not begun, with their copies of both |
| `alive` | FALSE once `check_new_path` was given the NULL of a failed `getcwd()` |
| `did` | what the latest command, or transfer, came to and where |

| Action | Code |
|---|---|
| `ChangeRefused`, `Changed`, `ChangeCrashes` | `cwd_command`, `cdup_command`: `access()` and `opendir()` from the directory of the process, then the two `chdir()` |
| `Dele` | `dele_command`: `chdir()` to the session's, `remove()`, and no way back |
| `List`, `ListPath`, `ListRefused`, `ListCrashes` | `list_command` with and without an argument, `check_exists`, `check_directory_access` |
| `Retr`, `Stor` | `retr_command`, `stor_command` up to the fork |
| `Perform` | the child of each |

`SessionDirectories` knows of no process: each session has a directory, and a command
acts in it. What the code keeps of this depends on the command, because only some of the
handlers go to the session's directory first:

| Command | Acts | May besides |
|---|---|---|
| CWD, CDUP | in the session's directory | be refused; for a name that leads nowhere from there, be answered 250 without moving, when the name leads somewhere from where the process is |
| LIST with a path | in the session's directory, if what it denotes there is `Prefixed` | be refused |
| LIST, RETR, DELE | in the session's directory | fail |
| STOR | for an absolute path, at that path | fail |
| STOR | for another path, wherever the process was left (`Free`): in a `Prefixed` directory | fail |

In a directory that was removed paths are `Free` for all of them, except absolute ones: the
process stays wherever another session left it, and the path is taken from there. What is
promised always: no session leaves `Prefixed`, no session is moved by another one. A
crash is a stutter of the abstract specification: it promises no progress.

| Property | Says |
|---|---|
| `StaysPrefixed` | no session, no child and, between two commands, not the process is in a directory that `check_new_path` tells from the root |
| `OwnDirectory` | `WorkingDirectory` implements `SessionDirectories` |
| `SurvivesRemoval` | the NULL of `getcwd()` ends the server only for a session whose directory was removed, with `.` or `..`, while the process too is in a removed one |

| Run | Instance | Result |
|---|---|---|
| `directories` | 2 sessions, 5 directories, 1 child | passes, 16 734 states under the view and the symmetry of the sessions |

A result outside the run, which the promise allows for: after a DELE of one session, which
leaves the process in its directory (`dele.c:23`), the CWD of another session to a name that
is there is refused with a 550 (`cwd.c:78`). And `StaysPrefixed` fails with `{root, sub, deep}`,
the directories inside the root, for `Prefixed` in it: `beside` is reached by one CWD.

Bounds. The tree has one directory above the root, one beside it that passes for one in
it, one below it and one below that: enough for `..` to lead outside, for a directory to
keep its parent from being removed, and for a session to be in one that vanishes. `sub` is a
name in two directories, so that what a name leads to depends on who looks. One child at a time, since
children share nothing with each other. `directories` compares states without `did`
(VIEW `ButOutcome`): no action reads it, and every step is still checked from each
state that differs in the rest. Directories removed do not come back: no command makes one.

## 6. Session

The `connection_t` of each slot: who is logged in, and what the session has made of it.
One action is one line from `execute_command` to the reply of its handler. A slot is
used again after a QUIT, `destroy_connection` resets no field, and the array is never
initialised: `Init` leaves what is in it open, and only `init_connection` stands between
a new client and the session of the one before.

| Variable | Code |
|---|---|
| `fds` | the client whose descriptor is in `fds[i]` |
| `connections` | `user`, `logged_in`, `transfer_mode`, whether `data_socket` is NULL, `working_directory` |
| `ignored` | clients that were accepted when every slot was taken |
| `reply` | the latest reply of a handler: to whom, to which command and argument, with which code |

| Action | Code |
|---|---|
| `Connect` | `accept_new_connection` with `init_connection` |
| `Quit` | `quit_command`, `handle_connection` on `COMMAND_QUIT` |
| `UserCommand`, `PassCommand` | `user_command`, `pass_command` with its two helpers |
| `PleaseLogin` | the test of `logged_in` in every other handler, and `not_found_message` |
| `PwdCommand` ... `UnknownCommand`, `TypeCommand` | the handlers of those names |
| `Move`, `PasvCommand`, `PortCommand`, `Transfer` | CWD and CDUP, PASV, PORT, the transfers: what they leave in the `connection_t` |

Which directory a CWD enters and what becomes of a data socket is the matter of
`WorkingDirectory` and `DataChannel`; here the choice is free. A connection that is lost
keeps its slot (`lost_connection`), so only QUIT frees one. A `fdopen()` or `strdup()`
that fails is not modelled, nor is the end of the process (`ControlLoop`).

`SessionAccess` knows of no slots: a client is away, out, has named itself, or is in. Its
`GivePassword` says when it gets in, and `Use` that a command of a client that is
out is denied, and that one of a client that is in changes nobody else's settings.

| Property | Says |
|---|---|
| `UserKnown` | whoever is logged in is so by a name that may |
| `FreshUntilLogin` | a session that is not logged in is as `init_connection` made it, in whatever slot |
| `KeepsAccess` | `Session` implements `SessionAccess` |
| `PassAsDocumented` | what `docs/commands.md` says of PASS and the code does not do |

The right password is the empty one, as the comment of `process_login` says (`pass.c:53`). The
list of commands disagrees, twice: its example for PASS is `PASS anonymous`, answered 230
(`docs/commands.md:54-55`), where the code answers 530 and forgets the user; and it answers a client
that has logged in with 500 (`docs/commands.md:51`), where the code answers 230
(`pass.c:39`). `KeepsAccess` promises what the code's own comment says; run
`password_documented` (one client, one slot) checks `PassAsDocumented`, which is violated.

Run `session`: 3 clients, 2 slots, 2 directories, a right, a wrong and a missing name; passes,
38 411 states under client symmetry. Two slots, so that one is used again while the
other is in use, and a third client to find both taken. `Names` and `Places` are the
only bounds; `"anonymous"` stands for both spellings the code accepts, which the model has.

## 7. FtpClient

The client of `bonus/`, the server as this client sees it, and the child that makes its
transfer, over one control connection and one data connection at a time. The client sends a
line and blocks until its reply is there; nothing in a reply tells it which command it
answers. It makes a new `FILE` for each (`reading.c:28`), so all that has arrived is taken
out of the socket with the first line and is gone when the next `FILE` is made.

| Variable | Code |
|---|---|
| `at`, `doing`, `said`, `typed` | where the client is, in which command, what it has printed, how many commands were typed |
| `stop`, `eintr` | `stop_client`, and whether the blocking call was interrupted |
| `sock`, `opened` | `client->data_socket`; whether the local file could be opened |
| `inbox`, `outbox`, `link` | the two directions of the control connection, and the server's end of it |
| `lost` | a reply went down with the `FILE` before it |
| `served`, `session`, `ready` | the server's slot, login and data socket for this client |
| `child`, `task`, `pipe`, `rest`, `meant`, `got` | the child and its command; the data in flight, still to write, to be sent in all, and kept |

| Action | Code |
|---|---|
| `Greeted`, `SignIn`, `GetUsername`, `SendUser`, `GetPassword`, `SendPass` | `login.c` |
| `TestStop`, `Leave`, `NotSent`, `Execute` | `client.c`, `command_executor.c`, `prompt.c` |
| `Cd`, `DisplayNewPath`, `Pwd`, `Quit`, `DestroyClient` | the commands of those names, `destroyers.c` |
| `SendPasv`, `Dial`, `First`, `Upload`, `EndUpload`, `Second`, `Receive` | `data_socket.c`, `get.c`, `put.c`, `ls.c` |
| `Signal` | the handler of the stop signal |
| `Accept`, `UserCommand`, `PassCommand`, `PlainCommand`, `QuitCommand`, `TransferRefused`, `Fork`, `ServerStops` | the server's handlers, each with all its replies |
| `Begin`, `Fail`, `WriteData`, `StoreData`, `Finish`, `Exit` | the child |

| Property | Says |
|---|---|
| `RepliesMatched` | each reply is read for the command it answers, and none is left at the prompt |
| `KeepsOrder` | no line reaches the server for which it has no login, and no transfer without a data socket |
| `SuccessMeansWhole` | a listing, download or upload that was reported has arrived whole |
| `CommandEnds` | a command ends unless the client is caught in one of five named ways |
| `GetReturns` | what `docs/client.md` says of `get`, in a run where nothing fails |

| Run | Instance | Result |
|---|---|---|
| `client_text` | 3 commands, any input, signals, empty, fitting and longer files | passes, 259 347 states with those of sections 8 and 9 |
| `client_get` | one `get`, nothing fails | violated: both replies in one segment, or a file that is longer than the buffers (`reading.c:28`, `get.c:63`) |

The five ways: the reply went down with the `FILE` of the one before (`lost`); a download
waits for the 226 while the child waits for room (`Jammed`); `put` gave up on a local file
with the data connection open, so that the server reads on (`Unsent`); a name that ended
with the input and not with a line feed (`Unended`); a client accepted beyond the last slot
(`Ignored`). Without any one of them `CommandEnds` fails.

`RepliesMatched` and `SuccessMeansWhole` are about a server that goes on (`link = "up"`): the
221 of one that was told to stop may come between the two replies of a transfer, and be
taken for the second. `SuccessMeansWhole` leaves out a local file that could not be
opened (`get` reports a download all the same, `get.c:70`), and lets a download lose what
follows a NUL in a line: the child prints lines with `%s` (`retr.c`). It says nothing of an upload whose client
was told to stop: an interrupted write loses its block.

Further remarks from the reading, which no property is about: `get` and `put` of
`docs/client.md` take an optional second argument that the code refuses; an empty line leaves the
client; `localhost` is refused by `inet_pton`.

Bounds. A buffer of one block and files of none, one and two: below, at and above the
size of the buffer, and one with a NUL. Three commands let the rest of one be met by
the next two, with `quit` last. A reply is one segment or two, as the interleaving of
`Begin`, `Finish` and the client has it.

Fairness. Client, server and child are scheduled, each by weak fairness of its own
steps. The user need not type (`UserStep` is not fair), no signal need come.

## 8. CommandLine

`trim_string`, `count_args`, `tokenize_buffer`, `setup_command` and `parse_buffer`, which the
server and the client have in common. The state is the line read so far; `Parse` gives the
set of what may come of it: where `count_args` counts more spaces than `strtok()` finds
tokens, the last entry of the array was never written, and reading it may crash.

| Property | Says |
|---|---|
| `ParsesWords` | a line with single spaces is read as its words, defined by their places and not by a scan, whatever white space it has at its ends |
| `TokensFit` | the tokens found never exceed the array, and the entry that is read is unwritten exactly when two spaces follow each other |

## 9. PortCodec

`merge_port`, `split_port`, `get_host_port`, the assembling of the address and `htons`, in
the widths of the code, on both sides: the argument of PORT read by the server, the
227 written by it and read by the client. The state is the argument given so far, and
the port a passive socket got from the kernel with the numbers in its reply.

| Property | Says |
|---|---|
| `PortAims` | a PORT of six octets connects to the address and port they name and to no other; fewer than six are refused |
| `PassiveRoundTrip` | the client connects to the port the server listens on, whichever it is |

An octet above 255 is answered 200 and connects to port 65535, as nobody tests the -1 of
`merge_port` (`active_data_socket.c:73`); `PortAims` is about octets.

Run `client_text` (`MCClientText`) checks both modules beside `FtpClient`, with which they share
nothing: a behaviour is one of the client, or a line, or an argument, or a PASV. Lines are of up to four characters out of four kinds of
white space and a letter in two cases, arguments of up to seven fields out of 0, 255, 256
and an empty one, and there are all 65536 ports. Four characters hold every pair of tokens with one or two
spaces between them and white space at one end; seven fields have one to ignore or one to skip.

## 10. Proved

`ControlLoopProofs`, for every set of clients and every value of the bounds under
`LoopAssumption`:

* `TypeCorrect`: `Spec => []TypeOK`. `TypeOK` alone is not inductive: the step out of
  `read` increments `cur`, which stays in range only because the slot under way is an
  occupied one (`CurOccupied`), and `Accept` takes the head of a queue that is not
  empty because `revents` of the listening socket was set by the last poll
  (`AcceptReady`). Both hold together with it (`TypeInv`).
* `SlotsAlwaysSound`: `Spec => []SlotsSound`. The strengthening (`SlotInv`) adds that
  every connection in the accept queue is still `queued` and is there once: hence the
  client accepted has no slot yet.

`ControlLoopReadiness`:

* `ReadinessNeverStale`, `BlocksOnlyInALine`: `NoStaleReadiness` says nothing while the
  server is inside `getline()` or waits for a data connection, where `ready` still
  holds the slots to come. `ReadyFresh` covers those too, leaving out the slot under
  way. It is kept because bytes of a client are consumed only while its own slot is
  visited (slots hold distinct clients, `SlotInv`), because no client step takes bytes
  away, and because a new client is put in a slot that was free when poll() ran.
* `FewLinesStranded`: the inductive fact is about the client's window, not about the
  buffer: a client is owed at most `Window` answers, the line it has begun included
  (`WindowKept`). Inside `getline()` the buffer may hold `Window` lines; it returns one.
* `EndsOnlyForAReason`, `ServedClientsAreTold`: `Spec => EndsForAReason` and
  `Spec => NoSilentClose`, losses and odd lines included, by cases of the step. A step that ends
  the process is the shutdown after a signal or a `Killed`, whose client is the one at the head
  of the queue or in the slot under way, which is an occupied one (`SlotInv`). What the shutdown
  tells is an initial part of the slots, cut off at one that was reset; a connection that is
  closed otherwise is that of a QUIT, and a slot that holds it is that slot.

`ControlLoopPromise`:

* `PromiseKept`: `Spec => KeepsPromise`, a step simulation over `TypeInv` and `SlotInv`.
  The step that is not obvious is `Accept`: that the service has room is a statement
  about the number of clients served, that a slot is free one about the table;
  `RoomIsFreeSlot` shows them equivalent, the slots being an injection of the clients
  served (`SlotInv`). A client the service calls `ignored` stays so: nothing puts a
  connection into a slot but `Accept`, and only the head of the queue, once.

`WorkingDirectoryProofs`, for every tree that satisfies `TreeAssumption`, every set of
paths and of sessions:

* `DirTypeCorrect`, `StaysPrefixedAlways`: `Spec => []TypeOK`, `Spec => []StaysPrefixed`.
  The two are inductive together (`DirInv`): the `chdir()` back to the session's
  directory may fail, and then leaves the process where it was. `TypeOK` says that
  what is below a removed directory is removed too; it holds because `remove()` takes
  empty directories only.
* `SurvivesRemovalAlways`: `Spec => SurvivesRemoval`. A removed directory is found only
  from a removed one, by `.` or `..` (`FindsRemoved`), and `chdir(working_directory)`
  leaves the process in one only if it was there and the session's is removed too
  (`EntersRemoved`). CWD has to pass its checks as well, which look from the directory
  of the process: should the second `chdir()` fail, the process would still be where
  they were made and have succeeded.
* `OwnDirectoryHolds`: `Spec => OwnDirectory`, a step simulation, one lemma per
  handler. The argument is in the lemmas on `Find`: an absolute path denotes the same
  for everybody (`AbsoluteFind`); in a directory that exists its parent exists
  (`ParentsStay`), so that `.` and `..` pass the checks made from any directory
  (`DotsFind`) and lead on from the session's own (`LiveFind`). Two children with the
  same command and the same `wd` are one job of the abstract specification, which is why
  `SessionDirectories!Perform` may leave the job in place.

`SessionProofs`, for every number of clients and slots, and all names and directories:

* `SessionTypeCorrect`, `UserAlwaysKnown`, `AlwaysFreshUntilLogin`: `TypeOK`, `UserKnown` and
  `FreshUntilLogin` are inductive together with `HeldOnce` (a client has one slot at
  most, and none when it is ignored). Each command is reduced to a step that sets one
  connection to a proper one (`ProperKept`); the ones a login opens share `Used`.
* `AccessKept`: `Spec => KeepsAccess`, a step simulation. What a client has is found
  through its slot (`Look`, `LookAfter`), which `HeldOnce` makes unique; a step on one slot is
  seen by its client only (`OthersStay`, `ElsewhereStays`). A `Connect` into a used slot maps to
  `Enter` because `init_connection` replaces every field.

`DataChannelProofs`, for every number of clients, sockets, children and commands:

* `ChannelTypeCorrect`: `Spec => []TypeOK`, with what it rests on (`TypeInv`): a command
  is established with a data socket (`JobReady`), a child that was forked has a client,
  a command and a connection (`ChildReady`), and no more is queued than was sent
  (`Counted`), so that replies carry numbers of commands.
* `StoredFileComplete`: `Spec => []StoredInTheEnd`, with the exception the property names. The
  inductive form says where the child that emptied a short file may be (`Stored`): before its
  `fclose()`, or killed, which for a STOR only a reply to a lost client can do. A child that
  gave up never emptied one.
* `ConnectionReserved`: `Spec => []DataHeldByItsTransfer`, under the hypothesis that nobody sends
  PORT. The server process holds a data connection only between the establishing of it
  and the end of the command (`HeldInCommand`), so that what a fork copies is the
  connection of that very transfer; and a socket that a connection refers to is its own
  because the listening socket that is never closed keeps its number taken (`SocketsOwned`).
* `RepliesKeepOrder`: `Spec => []RepliesInOrder`, for the clients in `Patient`, whatever the others
  send. For each of these there is one actor at most that will still answer it: the queue, the server process in
  `establish` or `fork`, or one child (`Turn`), each with what it may find among the replies.

`FtpClientProofs`, for any input, number of commands, size of the buffers and files:

* `ClientTypeCorrect`: `Spec => []TypeOK`. Inductive with the places a data socket that was shut
  or reset can be met at, all of them inside an upload.
* `RepliesAnswerTheirCommand`, `LinesComeInOrder`: `Spec => []RepliesMatched` and
  `Spec => []KeepsOrder`, together. The inductive invariant (`Matched`) tells, from the place the
  client is at, all that is under way between the two while the server goes on
  (`Conversation`): one line or the reply to it (`Asks`, `Hears`), nothing (`Resting`), or of a
  transfer what its child has announced and the client not read (`Announced`). Where the client gave
  up on a reply it was told to stop, and is `Leaving`: it reads no reply again, and what
  the server may still find is one line with a QUIT behind it (`Trailing`), so that
  nothing waits for the login or the data socket that line can cost. `TakeKnows` says
  what reading a reply tells the client, `ServeKnows` what a line tells the server.
* `ReportedTransfersAreWhole`: `Spec => []SuccessMeansWhole`, on top of `Matched`. While a transfer
  goes on nothing is missing (`Conserved`): what was kept, what is in the buffer and what the
  sending side has still to write make up what was meant, block by block (`MoveIn`, `MoveOut`). A
  226 that waits to be read means that the sender of a download had nothing left, or that
  the receiver of an upload has taken everything (`Fetching`, `Storing`), and `ActsKnows` that no
  child tells it early. What was reported stays put until the next command (`Reported`),
  because no child is left to move it and no line is left to fork another.

`TextProofs`, for lines and arguments of any length, any address and any port:

* `TokensAreWords`: what `strtok()` finds in a buffer, a fold over its characters (`Tokens`), is
  what its words are by their places alone (`Words`). After each character (`Reads`) the tokens
  are the words that begin before some place `s`, at increasing places, and from `s` on there
  is no space.
* `LineTokensFit`, `LineParsesWords`: `LineSpec => []TokensFit` and `LineSpec => []ParsesWords`. In a
  trimmed buffer a word begins at the start and after each space that another does not follow, so
  that there are as many as `count_args` counts if no two spaces meet and fewer if they do
  (`WordsCounted`). With as many tokens as entries the last one ends with the buffer, that is
  with no white space, and there is nothing for `Chomp` to cut off (`TokensOf`, `ArrayOf`).
* `PortArgumentAims`: `PortSpec => []PortAims`, from the fields passed over one by one
  (`PassesOver`) and `OctetsNamed`.
* `PassivePortFound`: `PortSpec => []PassiveRoundTrip`. TLC has seen every port of 16 bits as well;
  the proof says why: division and remainder by 256 are undone by `merge_port` (`SplitMerge`), and
  the result fits the field (`PortFits`).
* `OctetsNamed`: for any six octets, the arithmetic of the address never carries
  (`BytesStay`) and the port is the one they name.

The induction theorems of the library take an operator as a parameter, which no prover here can
instantiate. `TextProofs` has its own, about a set of numbers (`Induction`), from the least
number of a set (`Least`), which is the well-foundedness of `<`; with it the recursive function
inside `FoldLeft` is shown to exist (`FoldExists`) and unrolled step by step (`ScanSteps`,
`PassSteps`).

Every invariant and action property of the passing runs is thus a theorem. Only model-checked:
liveness (`QueuedAccepted`, `LineAnswered`, `StopHonoured`, `EndOfData`, `QuitEnds`,
`CommandAnswered`, `CommandEnds`), which is out of the prover's reach with its fairness.

## 11. Not modelled

* *Start-up* (`src/main.c`, `src/socket.c`, the client's `main.c`): arguments are checked and the
  socket is set up once, in sequence, before anybody can connect; nothing interleaves. What
  they leave behind is `Init` of `ControlLoop`.
* *Build, tests, continuous integration, documents*: no behaviour of their own. They are where
  the findings take what the program should do from.
* *Failures of `malloc`, `strdup`, `fdopen`, `dup`*: most are not handled by the code, which then ends.
* *Failures of `accept()` for the listening socket other than the want of a descriptor* (a
  connection aborted in the queue): the same return, after which the connection is not there.
* *Descriptors of data connections under way*, and those `opendir()` and `popen()` use for a moment:
  `ControlLoop` counts the ones that stay, of control connections and data sockets.
* *A disk that is full*: `fwrite()` and `fclose()` of a stored file are not checked (`stor.c:31`, `stor.c:64`,
  and `get.c` in the client), so that a file may be short after a 226; `StoredInTheEnd` and
  `SuccessMeansWhole` are about a disk with room.
* *Stop signals in `DataChannel`*: a terminal sends SIGINT to the children too. What it does to a
  transfer is in `FtpClient` (`Interrupt`), what it does to the server in `ControlLoop`.
* *The login in `DataChannel` and `WorkingDirectory`*: every client there is logged in; `Session` has the
  test that comes first.
* *Formatting, logging, memory*: no property is about them.
