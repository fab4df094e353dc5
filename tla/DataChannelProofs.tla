------------------------- MODULE DataChannelProofs -------------------------
(* The safety properties of DataChannel, for every number of clients,        *)
(* sockets and children.                                                     *)
EXTENDS DataChannel, SequenceTheorems, TLAPS

Answers == [code : Codes, to : 1..MaxCommands]

-----------------------------------------------------------------------------
(* What is written to a control connection.                                *)

Answer(code, n) == [code |-> code, to |-> n]

LEMMA SayOne ==
    ASSUME TypeOK, NEW c \in Clients, NEW n \in 1..MaxCommands, NEW code \in Codes,
           Say(c, n, <<code>>)
    PROVE  /\ replies' = [replies EXCEPT ![c] = Append(@, Answer(code, n))]
           /\ replies' \in [Clients -> Seq(Answers)]
<1>1. PICK r : r = Answer(code, n)
  OBVIOUS
<1>2. r \in Answers
  BY <1>1 DEF Answers, Answer
<1>3. [i \in 1..Len(<<code>>) |-> [code |-> <<code>>[i], to |-> n]] = <<r>>
  BY <1>1 DEF Answer
<1>4. replies \in [Clients -> Seq(Answers)]
  BY DEF TypeOK, Answers
<1>5. replies[c] \in Seq(Answers)
  BY <1>4
<1>6. replies[c] \o <<r>> = Append(replies[c], r) /\ Append(replies[c], r) \in Seq(Answers)
  BY <1>2, <1>5, AppendIsConcat, AppendProperties
<1>7. replies' = [replies EXCEPT ![c] = replies[c] \o <<r>>]
  BY <1>3 DEF Say
<1>8. replies' = [replies EXCEPT ![c] = Append(replies[c], r)]
  BY <1>6, <1>7
<1> QED
  BY <1>1, <1>4, <1>6, <1>8

LEMMA SayTwo ==
    ASSUME TypeOK, NEW c \in Clients, NEW n \in 1..MaxCommands,
           NEW first \in Codes, NEW second \in Codes, Say(c, n, <<first, second>>)
    PROVE  /\ replies' = [replies EXCEPT
                             ![c] = Append(Append(@, Answer(first, n)), Answer(second, n))]
           /\ replies' \in [Clients -> Seq(Answers)]
<1>1. PICK r, s : r = Answer(first, n) /\ s = Answer(second, n)
  OBVIOUS
<1>2. r \in Answers /\ s \in Answers
  BY <1>1 DEF Answers, Answer
<1>3. [i \in 1..Len(<<first, second>>) |-> [code |-> <<first, second>>[i], to |-> n]] = <<r, s>>
  BY <1>1 DEF Answer
<1>4. replies \in [Clients -> Seq(Answers)]
  BY DEF TypeOK, Answers
<1>5. PICK q \in Seq(Answers) : q = replies[c]
  BY <1>4
<1>6. /\ q \o <<r>> = Append(q, r)
      /\ Append(q, r) \in Seq(Answers)
  BY <1>2, AppendIsConcat, AppendProperties
<1>7. /\ Append(q, r) \o <<s>> = Append(Append(q, r), s)
      /\ Append(Append(q, r), s) \in Seq(Answers)
  BY <1>2, <1>6, AppendIsConcat, AppendProperties
<1>8. <<r>> \in Seq(Answers) /\ <<s>> \in Seq(Answers) /\ <<r>> \o <<s>> = <<r, s>>
  <2>1. <<r>> \in Seq(Answers) /\ <<s>> \in Seq(Answers)
    BY <1>2
  <2>2. Append(<<r>>, s) = <<r>> \o <<s>>
    BY <1>2, <2>1, AppendIsConcat
  <2>3. Append(<<r>>, s) = <<r, s>>
    <3>1. PICK t : t = Append(<<r>>, s)
      OBVIOUS
    <3>2. t \in Seq(Answers) /\ Len(t) = 2 /\ t[1] = r /\ t[2] = s
      BY <1>2, <2>1, <3>1, AppendProperties
    <3>3. PICK u : u = <<r, s>>
      OBVIOUS
    <3>4. u \in Seq(Answers) /\ Len(u) = 2 /\ u[1] = r /\ u[2] = s
      BY <1>2, <3>3
    <3>5. Len(t) = Len(u) /\ \A i \in 1..Len(t) : t[i] = u[i]
      BY <3>2, <3>4
    <3>6. t = u
      BY <3>2, <3>4, <3>5, SeqEqual
    <3> QED
      BY <3>1, <3>3, <3>6
  <2> QED
    BY <2>1, <2>2, <2>3
<1>9. q \o <<r, s>> = Append(Append(q, r), s)
  <2>1. (q \o <<r>>) \o <<s>> = q \o (<<r>> \o <<s>>)
    BY <1>8, ConcatAssociative
  <2> QED
    BY <1>6, <1>7, <1>8, <2>1
<1>10. replies' = [replies EXCEPT ![c] = replies[c] \o <<r, s>>]
  BY <1>3 DEF Say
<1>11. replies' = [replies EXCEPT ![c] = Append(Append(replies[c], r), s)]
  BY <1>5, <1>9, <1>10
<1> QED
  BY <1>1, <1>4, <1>5, <1>7, <1>11

-----------------------------------------------------------------------------
(* Types.  A transfer is begun with a data socket, whoever has made one; a *)
(* child that was forked has a command to answer.                          *)

JobReady ==
    /\ pc \notin {"loop", "down"} => job \in Jobs
    /\ pc \in {"establish", "fork"} => mode[job.client] # "none"

ChildReady ==
    \A k \in Kids : child[k].stage # "none" =>
        /\ child[k].client \in Clients
        /\ child[k].to \in 1..MaxCommands
        /\ child[k].conn \in Ports

\* Nothing is executed that was not sent, and no line is in the FILE's buffer that
\* is not still to be executed.
Counted == \A c \in Clients : stdio[c] =< Len(req[c]) /\ Len(req[c]) =< asked[c]

TypeInv == TypeOK /\ JobReady /\ ChildReady /\ Counted

LEMMA TypeInit == Init => TypeInv
<1> SUFFICES ASSUME Init
             PROVE  TypeInv
  OBVIOUS
<1> USE ChannelAssumption DEF Init
<1>1. TypeOK
  BY DEF TypeOK, Modes, Jobs, NoJob, NoChild, Stages, Transfers, Procs, Kids, Server, Codes
<1>2. JobReady /\ ChildReady /\ Counted
  BY DEF JobReady, ChildReady, Counted, NoChild
<1> QED
  BY <1>1, <1>2 DEF TypeInv

\* A command the server begins with is one that was sent.
LEMMA TakeKnown ==
    ASSUME TypeInv, NEW c \in Clients, NEW cmd, Take(c, cmd)
    PROVE  /\ Number(c) \in 1..MaxCommands
           /\ cmd \in Commands
           /\ req' = [req EXCEPT ![c] = Tail(@)]
           /\ req' \in [Clients -> Seq(Commands)]
           /\ stdio' \in [Clients -> 0..MaxCommands]
           /\ Counted'
           /\ UNCHANGED <<asked, lost, child, disk>>
<1>1. PICK q : q = req[c]
  OBVIOUS
<1>2. q \in Seq(Commands) /\ q # <<>> /\ Head(q) = cmd
  BY <1>1 DEF Take, TypeInv, TypeOK
<1>3. Head(q) \in Commands /\ Tail(q) \in Seq(Commands) /\ Len(Tail(q)) = Len(q) - 1
  BY <1>2, HeadTailProperties
<1>4. Len(q) \in Nat /\ Len(q) >= 1 /\ Len(q) =< asked[c]
  BY <1>1, <1>2 DEF TypeInv, Counted
<1>5. asked[c] \in 0..MaxCommands /\ MaxCommands \in Nat
  BY ChannelAssumption DEF TypeInv, TypeOK
<1>6. Number(c) \in 1..MaxCommands
  BY <1>1, <1>4, <1>5 DEF Number
<1>7. req' = [req EXCEPT ![c] = Tail(q)] /\ UNCHANGED <<asked, lost, child, disk>>
  BY <1>1 DEF Take
<1>8. req' \in [Clients -> Seq(Commands)]
  BY <1>3, <1>7 DEF TypeInv, TypeOK
<1>9. PICK b : b = (IF stdio[c] = 0 THEN Len(q) ELSE stdio[c]) - 1
  OBVIOUS
<1>10. stdio \in [Clients -> 0..MaxCommands] /\ stdio' = [stdio EXCEPT ![c] = b]
  BY <1>1, <1>9 DEF Take, TypeInv, TypeOK
<1>11. b \in 0..MaxCommands /\ b =< Len(q) - 1
  <2>1. stdio[c] =< Len(q) /\ stdio[c] \in 0..MaxCommands
    BY <1>1, <1>10 DEF TypeInv, Counted
  <2> QED
    BY <1>4, <1>5, <1>9, <2>1
<1>12. stdio' \in [Clients -> 0..MaxCommands]
  BY <1>10, <1>11
<1>13. Counted'
  <2> SUFFICES ASSUME NEW d \in Clients
               PROVE  stdio'[d] =< Len(req'[d]) /\ Len(req'[d]) =< asked'[d]
    BY DEF Counted
  <2>1. CASE d = c
    <3>1. req'[d] = Tail(q) /\ stdio'[d] = b
      BY <1>7, <1>10, <2>1 DEF TypeInv, TypeOK
    <3> QED
      BY <1>3, <1>4, <1>5, <1>7, <1>11, <2>1, <3>1
  <2>2. CASE d # c
    BY <1>7, <1>10, <2>2 DEF TypeInv, TypeOK, Counted
  <2> QED
    BY <2>1, <2>2
<1> QED
  BY <1>1, <1>2, <1>3, <1>6, <1>7, <1>8, <1>12, <1>13

\* The data socket of each connection, before and after.
SocketsTyped ==
    /\ mode \in [Clients -> Modes]
    /\ sock \in [Clients -> Ports \cup {NoPort}]
    /\ \A c \in Clients : mode[c] = "none" <=> sock[c] = NoPort
    /\ data \in [Ports -> SUBSET Procs]
    /\ listen \in [Ports -> SUBSET Procs]
    /\ control \in [Clients -> SUBSET Procs]
    /\ owner \in [Ports -> Clients \cup {NoClient}]
    /\ far \in [Ports -> {"none", "dialled", "open", "shut", "gone"}]

LEMMA DropTyped ==
    ASSUME TypeOK, NEW c \in Clients, DropSocket(c), UNCHANGED <<listen, owner, far>>,
           control' \in [Clients -> SUBSET Procs]
    PROVE  SocketsTyped'
<1>1. mode' = [mode EXCEPT ![c] = "none"] /\ sock' = [sock EXCEPT ![c] = NoPort]
  BY DEF DropSocket
<1>2. \A d \in Clients : mode'[d] = "none" <=> sock'[d] = NoPort
  BY <1>1 DEF TypeOK
<1>3. /\ mode' \in [Clients -> Modes]
      /\ sock' \in [Clients -> Ports \cup {NoPort}]
  BY <1>1 DEF TypeOK, Modes
<1>4. data' \in [Ports -> SUBSET Procs]
  BY DEF DropSocket, TypeOK
<1> QED
  BY <1>2, <1>3, <1>4 DEF SocketsTyped, TypeOK

LEMMA Prepared ==
    ASSUME TypeOK, NEW c \in Clients, NEW p \in Ports, NEW m \in {"passive", "active"},
           Prepare(c, m, p)
    PROVE  /\ mode' \in [Clients -> Modes]
           /\ sock' \in [Clients -> Ports \cup {NoPort}]
           /\ \A d \in Clients : mode'[d] = "none" <=> sock'[d] = NoPort
           /\ owner' \in [Ports -> Clients \cup {NoClient}]
           /\ far' \in [Ports -> {"none", "dialled", "open", "shut", "gone"}]
<1>1. /\ mode' = [mode EXCEPT ![c] = m]
      /\ sock' = [sock EXCEPT ![c] = p]
      /\ owner' = [owner EXCEPT ![p] = c]
      /\ far' = [far EXCEPT ![p] = "none"]
  BY DEF Prepare
<1>2. p # NoPort
  BY ChannelAssumption
<1> QED
  BY <1>1, <1>2 DEF TypeOK, Modes

LEMMA NotPrepared ==
    ASSUME TypeInv, NEW c \in Clients, Unprepared(c), Number(c) \in 1..MaxCommands
    PROVE  /\ SocketsTyped'
           /\ replies' = [replies EXCEPT ![c] = Append(@, Answer(451, Number(c)))]
           /\ replies' \in [Clients -> Seq(Answers)]
<1>1. TypeOK
  BY DEF TypeInv
<1>2. 451 \in Codes
  BY DEF Codes
<1>3. Say(c, Number(c), <<451>>)
  BY DEF Unprepared
<1>4. /\ mode' = [mode EXCEPT ![c] = "none"]
      /\ sock' = [sock EXCEPT ![c] = NoPort]
      /\ UNCHANGED <<control, listen, data, owner, far>>
  BY DEF Unprepared, socketVars
<1>5. SocketsTyped'
  BY <1>1, <1>4 DEF TypeOK, SocketsTyped, Modes
<1> QED
  BY <1>1, <1>2, <1>3, <1>5, SayOne

\* What a handler without a transfer leaves behind.
LEMMA HandlerTyped ==
    ASSUME TypeInv, SocketsTyped', UNCHANGED <<pc, job, asked, lost, child, disk>>,
           pc = "loop", replies' \in [Clients -> Seq(Answers)],
           stdio' \in [Clients -> 0..MaxCommands],
           req' \in [Clients -> Seq(Commands)], Counted'
    PROVE  TypeInv'
<1>1. TypeOK'
  BY DEF TypeInv, TypeOK, SocketsTyped, Answers
<1>2. JobReady' /\ ChildReady'
  BY DEF TypeInv, JobReady, ChildReady
<1> QED
  BY <1>1, <1>2 DEF TypeInv

LEMMA PasvTyped ==
    ASSUME TypeInv, NEW c \in Clients, Pasv(c)
    PROVE  TypeInv'
<1>1. Take(c, "PASV") /\ UNCHANGED <<pc, job>>
  BY DEF Pasv
<1>2. /\ Number(c) \in 1..MaxCommands
      /\ req' \in [Clients -> Seq(Commands)]
      /\ stdio' \in [Clients -> 0..MaxCommands]
      /\ Counted'
      /\ UNCHANGED <<asked, lost, child, disk>>
  BY <1>1, TakeKnown
<1>3. TypeOK /\ pc = "loop" /\ 227 \in Codes
  BY <1>1 DEF TypeInv, Take, Codes
<1>4. CASE Unprepared(c)
  BY <1>1, <1>2, <1>3, <1>4, NotPrepared, HandlerTyped
<1>5. CASE \E p \in Ports : /\ Prepare(c, "passive", p)
                            /\ listen' = [listen EXCEPT ![p] = {Server}]
                            /\ Say(c, Number(c), <<227>>)
                            /\ UNCHANGED <<control, data>>
  <2>1. PICK p \in Ports : /\ Prepare(c, "passive", p)
                           /\ listen' = [listen EXCEPT ![p] = {Server}]
                           /\ Say(c, Number(c), <<227>>)
                           /\ UNCHANGED <<control, data>>
    BY <1>5
  <2>2. listen' \in [Ports -> SUBSET Procs]
    BY <1>3, <2>1, ChannelAssumption DEF TypeOK, Procs, Server
  <2>3. SocketsTyped'
    BY <1>3, <2>1, <2>2, Prepared DEF SocketsTyped, TypeOK
  <2>4. replies' \in [Clients -> Seq(Answers)]
    BY <1>2, <1>3, <2>1, SayOne
  <2> QED
    BY <1>1, <1>2, <1>3, <2>3, <2>4, HandlerTyped
<1> QED
  BY <1>4, <1>5 DEF Pasv

LEMMA PortTyped ==
    ASSUME TypeInv, NEW c \in Clients, Port(c)
    PROVE  TypeInv'
<1>1. Take(c, "PORT") /\ UNCHANGED <<pc, job>>
  BY DEF Port
<1>2. /\ Number(c) \in 1..MaxCommands
      /\ req' \in [Clients -> Seq(Commands)]
      /\ stdio' \in [Clients -> 0..MaxCommands]
      /\ Counted'
      /\ UNCHANGED <<asked, lost, child, disk>>
  BY <1>1, TakeKnown
<1>3. TypeOK /\ pc = "loop" /\ 200 \in Codes /\ 500 \in Codes
  BY <1>1 DEF TypeInv, Take, Codes
<1>4. CASE Unprepared(c)
  BY <1>1, <1>2, <1>3, <1>4, NotPrepared, HandlerTyped
<1>5. CASE \E p \in Ports : /\ Prepare(c, "active", p)
                            /\ data' = [data EXCEPT ![p] = {Server}]
                            /\ Say(c, Number(c), <<200>>)
                            /\ UNCHANGED <<control, listen>>
  <2>1. PICK p \in Ports : /\ Prepare(c, "active", p)
                           /\ data' = [data EXCEPT ![p] = {Server}]
                           /\ Say(c, Number(c), <<200>>)
                           /\ UNCHANGED <<control, listen>>
    BY <1>5
  <2>2. data' \in [Ports -> SUBSET Procs]
    BY <1>3, <2>1, ChannelAssumption DEF TypeOK, Procs, Server
  <2>3. SocketsTyped'
    BY <1>3, <2>1, <2>2, Prepared DEF SocketsTyped, TypeOK
  <2>4. replies' \in [Clients -> Seq(Answers)]
    BY <1>2, <1>3, <2>1, SayOne
  <2> QED
    BY <1>1, <1>2, <1>3, <2>3, <2>4, HandlerTyped
<1>6. CASE Say(c, Number(c), <<500>>) /\ UNCHANGED <<mode, sock, socketVars>>
  <2>1. SocketsTyped'
    BY <1>3, <1>6 DEF SocketsTyped, TypeOK, socketVars
  <2>2. replies' \in [Clients -> Seq(Answers)]
    BY <1>2, <1>3, <1>6, SayOne
  <2> QED
    BY <1>1, <1>2, <1>3, <2>1, <2>2, HandlerTyped
<1> QED
  BY <1>4, <1>5, <1>6 DEF Port

LEMMA TransferTyped ==
    ASSUME TypeInv, NEW c \in Clients, Transfer(c)
    PROVE  TypeInv'
<1>1. PICK kind \in Transfers :
         /\ Take(c, kind)
         /\ UNCHANGED <<mode, sock, socketVars>>
         /\ \/ /\ Say(c, Number(c), <<425>>)
               /\ UNCHANGED <<pc, job>>
            \/ /\ Say(c, Number(c), <<550>>)
               /\ UNCHANGED <<pc, job>>
            \/ /\ mode[c] # "none"
               /\ pc' = "establish"
               /\ job' = [client |-> c, kind |-> kind, to |-> Number(c)]
               /\ UNCHANGED replies
  BY DEF Transfer
<1>2. /\ Number(c) \in 1..MaxCommands
      /\ req' \in [Clients -> Seq(Commands)]
      /\ stdio' \in [Clients -> 0..MaxCommands]
      /\ Counted'
      /\ UNCHANGED <<asked, lost, child, disk>>
  BY <1>1, TakeKnown
<1>3. TypeOK /\ pc = "loop" /\ 425 \in Codes /\ 550 \in Codes
  BY <1>1 DEF TypeInv, Take, Codes
<1>4. SocketsTyped'
  BY <1>1, <1>3 DEF SocketsTyped, TypeOK, socketVars
<1>5. CASE Say(c, Number(c), <<425>>) /\ UNCHANGED <<pc, job>>
  <2>1. replies' \in [Clients -> Seq(Answers)]
    BY <1>2, <1>3, <1>5, SayOne
  <2> QED
    BY <1>2, <1>3, <1>4, <1>5, <2>1, HandlerTyped
<1>6. CASE Say(c, Number(c), <<550>>) /\ UNCHANGED <<pc, job>>
  <2>1. replies' \in [Clients -> Seq(Answers)]
    BY <1>2, <1>3, <1>6, SayOne
  <2> QED
    BY <1>2, <1>3, <1>4, <1>6, <2>1, HandlerTyped
<1>7. CASE /\ mode[c] # "none"
           /\ pc' = "establish"
           /\ job' = [client |-> c, kind |-> kind, to |-> Number(c)]
           /\ UNCHANGED replies
  <2>1. PICK j \in Jobs : j = [client |-> c, kind |-> kind, to |-> Number(c)]
    BY <1>2 DEF Jobs
  <2>2. job' \in Jobs /\ job'.client = c
    BY <1>7, <2>1
  <2>3. TypeOK'
    BY <1>2, <1>3, <1>4, <1>7, <2>2 DEF TypeOK, SocketsTyped
  <2>4. JobReady'
    BY <1>1, <1>7, <2>2 DEF JobReady
  <2>5. ChildReady'
    BY <1>2 DEF TypeInv, ChildReady
  <2> QED
    BY <1>2, <2>3, <2>4, <2>5 DEF TypeInv
<1> QED
  BY <1>1, <1>5, <1>6, <1>7

LEMMA QuitTyped ==
    ASSUME TypeInv, NEW c \in Clients, Quit(c)
    PROVE  TypeInv'
<1>1. /\ Take(c, "QUIT")
      /\ Say(c, Number(c), <<221>>)
      /\ DropSocket(c)
      /\ control' = [control EXCEPT ![c] = @ \ {Server}]
      /\ UNCHANGED <<pc, job, listen, owner, far>>
  BY DEF Quit
<1>2. /\ Number(c) \in 1..MaxCommands
      /\ req' \in [Clients -> Seq(Commands)]
      /\ stdio' \in [Clients -> 0..MaxCommands]
      /\ Counted'
      /\ UNCHANGED <<asked, lost, child, disk>>
  BY <1>1, TakeKnown
<1>3. TypeOK /\ pc = "loop" /\ 221 \in Codes
  BY <1>1 DEF TypeInv, Take, Codes
<1>4. control' \in [Clients -> SUBSET Procs]
  BY <1>1, <1>3 DEF TypeOK
<1>5. SocketsTyped'
  BY <1>1, <1>3, <1>4, DropTyped
<1>6. replies' \in [Clients -> Seq(Answers)]
  BY <1>1, <1>2, <1>3, SayOne
<1> QED
  BY <1>1, <1>2, <1>3, <1>5, <1>6, HandlerTyped

LEMMA EstablishTyped ==
    ASSUME TypeInv, Establish
    PROVE  TypeInv'
<1>1. PICK c \in Clients, p \in Ports : c = job.client /\ p = sock[c]
  <2>1. job \in Jobs /\ mode[job.client] # "none"
    BY DEF Establish, TypeInv, JobReady
  <2>2. job.client \in Clients
    BY <2>1 DEF Jobs
  <2> QED
    BY <2>1, <2>2 DEF TypeInv, TypeOK
<1>2. /\ far' = [far EXCEPT ![p] = "open"]
      /\ data' = [data EXCEPT ![p] = @ \cup {Server}]
      /\ pc' = "fork"
      /\ UNCHANGED <<job, mode, sock, control, listen, owner, child, asked, req,
                     stdio, lost, replies, disk>>
  BY <1>1 DEF Establish, clientVars
<1>3. /\ far' \in [Ports -> {"none", "dialled", "open", "shut", "gone"}]
      /\ data' \in [Ports -> SUBSET Procs]
  BY <1>2, ChannelAssumption DEF TypeInv, TypeOK, Procs, Server
<1>4. TypeOK'
  BY <1>2, <1>3 DEF TypeInv, TypeOK
<1>5. pc = "establish"
  BY DEF Establish
<1> QED
  BY <1>2, <1>4, <1>5 DEF TypeInv, JobReady, ChildReady, Counted

\* The end of a command leaves the server process between two.
LEMMA BackTyped ==
    ASSUME TypeInv, NEW c \in Clients, DropSocket(c), pc' = "loop", job' = NoJob,
           UNCHANGED <<control, listen, owner, far, child, clientVars, disk>>,
           replies' \in [Clients -> Seq(Answers)]
    PROVE  TypeInv'
<1>1. TypeOK
  BY DEF TypeInv
<1>2. control' \in [Clients -> SUBSET Procs]
  BY <1>1 DEF TypeOK
<1>3. SocketsTyped'
  BY <1>1, <1>2, DropTyped
<1>4. UNCHANGED <<child, asked, req, stdio, lost, disk>>
  BY DEF clientVars
<1>5. TypeOK'
  BY <1>1, <1>3, <1>4 DEF TypeOK, SocketsTyped, Answers
<1>6. JobReady' /\ ChildReady' /\ Counted'
  BY <1>4 DEF TypeInv, JobReady, ChildReady, Counted
<1> QED
  BY <1>5, <1>6 DEF TypeInv

LEMMA EstablishFailsTyped ==
    ASSUME TypeInv, EstablishFails
    PROVE  TypeInv'
<1>1. /\ job \in Jobs
      /\ TypeOK
      /\ DropSocket(job.client)
      /\ Say(job.client, job.to, <<425>>)
      /\ pc' = "loop"
      /\ job' = NoJob
      /\ UNCHANGED <<control, listen, owner, far, child, clientVars, disk>>
  BY DEF EstablishFails, TypeInv, JobReady
<1>2. job.client \in Clients /\ job.to \in 1..MaxCommands /\ 425 \in Codes
  BY <1>1 DEF Jobs, Codes
<1>3. replies' \in [Clients -> Seq(Answers)]
  BY <1>1, <1>2, SayOne
<1> QED
  BY <1>1, <1>2, <1>3, BackTyped

LEMMA ReleaseTyped ==
    ASSUME TypeInv, Release
    PROVE  TypeInv'
<1>1. /\ job \in Jobs
      /\ TypeOK
      /\ DropSocket(job.client)
      /\ pc' = "loop"
      /\ job' = NoJob
      /\ UNCHANGED <<control, listen, owner, far, child, clientVars, replies, disk>>
  BY DEF Release, TypeInv, JobReady
<1>2. job.client \in Clients /\ replies' \in [Clients -> Seq(Answers)]
  BY <1>1 DEF Jobs, TypeOK, Answers
<1> QED
  BY <1>1, <1>2, BackTyped

LEMMA InheritTyped ==
    ASSUME NEW S, NEW holders \in [S -> SUBSET Procs], NEW k \in Kids
    PROVE  Inherit(holders, k) \in [S -> SUBSET Procs]
<1>1. k \in Procs
  BY ChannelAssumption DEF Kids, Procs
<1> QED
  BY <1>1 DEF Inherit

Children == [stage : Stages, client : Clients \cup {NoClient}, kind : Transfers,
             to : 0..MaxCommands, conn : Ports \cup {NoPort}]

LEMMA ForkTyped ==
    ASSUME TypeInv, Fork
    PROVE  TypeInv'
<1>1. PICK k \in Kids :
         /\ child' = [child EXCEPT ![k] =
               [stage |-> "start", client |-> job.client, kind |-> job.kind,
                to |-> job.to, conn |-> sock[job.client]]]
         /\ control' = Inherit(control, k)
         /\ listen' = Inherit(listen, k)
         /\ data' = Inherit(data, k)
  BY DEF Fork
<1>2. /\ pc = "fork"
      /\ pc' = "release"
      /\ UNCHANGED <<job, mode, sock, owner, far, asked, req, stdio, lost, replies,
                     disk>>
  BY DEF Fork, clientVars
<1>3. job \in Jobs /\ mode[job.client] # "none"
  BY <1>2 DEF TypeInv, JobReady
<1>4. /\ job.client \in Clients
      /\ job.kind \in Transfers
      /\ job.to \in 1..MaxCommands
  BY <1>3 DEF Jobs
<1>5. sock[job.client] \in Ports
  BY <1>3, <1>4 DEF TypeInv, TypeOK
<1>6. PICK m : m = [stage |-> "start", client |-> job.client, kind |-> job.kind,
                    to |-> job.to, conn |-> sock[job.client]]
  OBVIOUS
<1>7. m.client \in Clients /\ m.to \in 1..MaxCommands /\ m.conn \in Ports
  BY <1>4, <1>5, <1>6
<1>8. m \in Children
  <2>1. job.to \in 0..MaxCommands /\ "start" \in Stages
    BY <1>4, ChannelAssumption DEF Stages
  <2>2. job.client \in Clients \cup {NoClient} /\ sock[job.client] \in Ports \cup {NoPort}
    BY <1>4, <1>5
  <2> QED
    BY <1>4, <1>6, <2>1, <2>2 DEF Children
<1>9. child \in [Kids -> Children]
  BY DEF TypeInv, TypeOK, Children
<1>10. child' = [child EXCEPT ![k] = m]
  BY <1>1, <1>6
<1>11. child' \in [Kids -> Children]
  BY <1>9, <1>10, <1>8
<1>12. ChildReady'
  BY <1>9, <1>10, <1>7 DEF TypeInv, ChildReady
<1>13. /\ control' \in [Clients -> SUBSET Procs]
       /\ listen' \in [Ports -> SUBSET Procs]
       /\ data' \in [Ports -> SUBSET Procs]
  BY <1>1, InheritTyped DEF TypeInv, TypeOK
<1>14. TypeOK'
  BY <1>2, <1>11, <1>13 DEF TypeInv, TypeOK, Children
<1>15. JobReady' /\ Counted'
  BY <1>2 DEF TypeInv, JobReady, Counted
<1> QED
  BY <1>12, <1>14, <1>15 DEF TypeInv

LEMMA ForkFailsTyped ==
    ASSUME TypeInv, ForkFails
    PROVE  TypeInv'
<1>1. /\ pc = "fork"
      /\ Say(job.client, job.to, <<451>>)
      /\ pc' = "release"
      /\ UNCHANGED <<job, mode, sock, control, listen, data, owner, far, child,
                     asked, req, stdio, lost, disk>>
  BY DEF ForkFails, socketVars, clientVars
<1>2. TypeOK /\ job \in Jobs
  BY <1>1 DEF TypeInv, JobReady
<1>3. job.client \in Clients /\ job.to \in 1..MaxCommands /\ 451 \in Codes
  BY <1>2 DEF Jobs, Codes
<1>4. replies' \in [Clients -> Seq(Answers)]
  BY <1>1, <1>2, <1>3, SayOne
<1>5. TypeOK'
  BY <1>1, <1>2, <1>4 DEF TypeOK, Answers
<1> QED
  BY <1>1, <1>5 DEF TypeInv, JobReady, ChildReady, Counted

LEMMA ServerKilledTyped ==
    ASSUME TypeInv, ServerKilled
    PROVE  TypeInv'
<1>1. /\ pc' = "down"
      /\ job' = NoJob
      /\ mode' = [c \in Clients |-> "none"]
      /\ sock' = [c \in Clients |-> NoPort]
      /\ control' = [c \in Clients |-> control[c] \ {Server}]
      /\ listen' = [p \in Ports |-> listen[p] \ {Server}]
      /\ data' = [p \in Ports |-> data[p] \ {Server}]
      /\ UNCHANGED <<owner, far, child, asked, req, stdio, lost, replies, disk>>
  BY DEF ServerKilled, Closes, clientVars
<1>2. TypeOK
  BY DEF TypeInv
<1>3. SocketsTyped'
  BY <1>1, <1>2 DEF SocketsTyped, TypeOK, Modes
<1>4. TypeOK'
  BY <1>1, <1>2, <1>3 DEF TypeOK, SocketsTyped
<1>5. JobReady' /\ ChildReady' /\ Counted'
  BY <1>1 DEF TypeInv, JobReady, ChildReady, Counted
<1> QED
  BY <1>4, <1>5 DEF TypeInv

-----------------------------------------------------------------------------
Disks == [state : {"absent", "old", "short", "new"}, by : Procs]

LEMMA StageTyped ==
    ASSUME TypeInv, NEW k \in Kids, NEW stage \in Stages \ {"none"},
           child[k].stage # "none", GoTo(k, stage)
    PROVE  /\ child' \in [Kids -> Children]
           /\ ChildReady'
           /\ child[k].client \in Clients
           /\ child[k].to \in 1..MaxCommands
           /\ child[k].conn \in Ports
<1>1. child \in [Kids -> Children]
  BY DEF TypeInv, TypeOK, Children
<1>2. child' = [child EXCEPT ![k].stage = stage]
  BY DEF GoTo
<1>3. PICK m : m = [child[k] EXCEPT !.stage = stage]
  OBVIOUS
<1>4. m \in Children /\ m.client = child[k].client /\ m.to = child[k].to /\ m.conn = child[k].conn
  BY <1>1, <1>3 DEF Children
<1>5. child' = [child EXCEPT ![k] = m]
  BY <1>2, <1>3
<1>6. child' \in [Kids -> Children]
  BY <1>1, <1>4, <1>5
<1>7. /\ child[k].client \in Clients
      /\ child[k].to \in 1..MaxCommands
      /\ child[k].conn \in Ports
  BY DEF TypeInv, ChildReady
<1>8. ChildReady'
  BY <1>1, <1>4, <1>5, <1>7 DEF TypeInv, ChildReady
<1> QED
  BY <1>6, <1>7, <1>8

\* A step of a child leaves the server process and the commands alone.
LEMMA ChildTyped ==
    ASSUME TypeInv, child' \in [Kids -> Children], ChildReady',
           UNCHANGED <<serverVars, owner, far, clientVars>>,
           control' \in [Clients -> SUBSET Procs],
           listen' \in [Ports -> SUBSET Procs],
           data' \in [Ports -> SUBSET Procs],
           replies' \in [Clients -> Seq(Answers)],
           disk' \in Disks
    PROVE  TypeInv'
<1>1. UNCHANGED <<pc, job, mode, sock, asked, req, stdio, lost>>
  BY DEF serverVars, clientVars
<1>2. TypeOK'
  BY <1>1 DEF TypeInv, TypeOK, Children, Answers, Disks
<1>3. JobReady' /\ Counted'
  BY <1>1 DEF TypeInv, JobReady, Counted
<1> QED
  BY <1>2, <1>3 DEF TypeInv

LEMMA HeldTyped ==
    ASSUME TypeInv
    PROVE  /\ control \in [Clients -> SUBSET Procs]
           /\ listen \in [Ports -> SUBSET Procs]
           /\ data \in [Ports -> SUBSET Procs]
           /\ replies \in [Clients -> Seq(Answers)]
           /\ disk \in Disks
           /\ TypeOK
           /\ {150, 221, 226, 451, 550} \subseteq Codes
<1>1. TypeOK
  BY DEF TypeInv
<1>2. {150, 221, 226, 451, 550} \subseteq Codes
  BY DEF Codes
<1> QED
  BY <1>1, <1>2 DEF TypeOK, Answers, Disks

LEMMA EmptiedTyped ==
    ASSUME NEW k \in Kids
    PROVE  Emptied(k) \in Disks
<1>1. k \in Procs
  BY ChannelAssumption DEF Kids, Procs
<1> QED
  BY <1>1 DEF Emptied, Disks

LEMMA BeginTyped ==
    ASSUME TypeInv, NEW k \in Kids, Begin(k)
    PROVE  TypeInv'
<1>1. /\ child[k].stage = "start"
      /\ GoTo(k, "moving")
      /\ Say(child[k].client, child[k].to, <<150>>)
      /\ disk' = IF child[k].kind = "STOR" THEN Emptied(k) ELSE disk
      /\ UNCHANGED <<serverVars, control, listen, data, owner, far, clientVars>>
  BY DEF Begin, SayFor, socketVars
<1>2. /\ child' \in [Kids -> Children]
      /\ ChildReady'
      /\ child[k].client \in Clients
      /\ child[k].to \in 1..MaxCommands
  BY <1>1, StageTyped DEF Stages
<1>3. replies' \in [Clients -> Seq(Answers)]
  BY <1>1, <1>2, HeldTyped, SayOne
<1>4. disk' \in Disks
  BY <1>1, HeldTyped, EmptiedTyped
<1> QED
  BY <1>1, <1>2, <1>3, <1>4, HeldTyped, ChildTyped

LEMMA BeginFailsTyped ==
    ASSUME TypeInv, NEW k \in Kids, BeginFails(k)
    PROVE  TypeInv'
<1>1. /\ child[k].stage = "start"
      /\ GoTo(k, "leaving")
      /\ Say(child[k].client, child[k].to,
             IF child[k].kind = "LIST" THEN <<550>> ELSE <<150, 451>>)
      /\ UNCHANGED <<serverVars, control, listen, data, owner, far, clientVars, disk>>
  BY DEF BeginFails, SayFor, socketVars
<1>2. /\ child' \in [Kids -> Children]
      /\ ChildReady'
      /\ child[k].client \in Clients
      /\ child[k].to \in 1..MaxCommands
  BY <1>1, StageTyped DEF Stages
<1>3. replies' \in [Clients -> Seq(Answers)]
  <2>1. CASE child[k].kind = "LIST"
    <3>1. Say(child[k].client, child[k].to, <<550>>)
      BY <1>1, <2>1
    <3> QED
      BY <1>2, <3>1, HeldTyped, SayOne
  <2>2. CASE child[k].kind # "LIST"
    <3>1. Say(child[k].client, child[k].to, <<150, 451>>)
      BY <1>1, <2>2
    <3> QED
      BY <1>2, <3>1, HeldTyped, SayTwo
  <2> QED
    BY <2>1, <2>2
<1> QED
  BY <1>1, <1>2, <1>3, HeldTyped, ChildTyped

LEMMA MoveTyped ==
    ASSUME TypeInv, NEW k \in Kids, Move(k)
    PROVE  TypeInv'
<1>1. /\ child[k].stage = "moving"
      /\ GoTo(k, "moved")
      /\ UNCHANGED <<serverVars, control, listen, owner, far, clientVars, replies, disk>>
      /\ data' = [data EXCEPT ![child[k].conn] = @ \ {k}] \/ data' = data
  BY DEF Move
<1>2. child' \in [Kids -> Children] /\ ChildReady' /\ child[k].conn \in Ports
  BY <1>1, StageTyped DEF Stages
<1>3. data' \in [Ports -> SUBSET Procs]
  BY <1>1, <1>2, HeldTyped
<1> QED
  BY <1>1, <1>2, <1>3, HeldTyped, ChildTyped

LEMMA FinishTyped ==
    ASSUME TypeInv, NEW k \in Kids, Finish(k)
    PROVE  TypeInv'
<1>1. /\ child[k].stage = "moved"
      /\ GoTo(k, "told")
      /\ Say(child[k].client, child[k].to, <<226>>)
      /\ UNCHANGED <<serverVars, control, listen, data, owner, far, clientVars, disk>>
  BY DEF Finish, SayFor, socketVars
<1>2. /\ child' \in [Kids -> Children]
      /\ ChildReady'
      /\ child[k].client \in Clients
      /\ child[k].to \in 1..MaxCommands
  BY <1>1, StageTyped DEF Stages
<1>3. replies' \in [Clients -> Seq(Answers)]
  BY <1>1, <1>2, HeldTyped, SayOne
<1> QED
  BY <1>1, <1>2, <1>3, HeldTyped, ChildTyped

LEMMA EndTyped ==
    ASSUME TypeInv, NEW k \in Kids, child[k].stage # "none",
           NEW stage \in {"ended", "killed"}, End(k, stage), disk' \in Disks
    PROVE  TypeInv'
<1>1. /\ GoTo(k, stage)
      /\ control' = [c \in Clients |-> control[c] \ {k}]
      /\ listen' = [p \in Ports |-> listen[p] \ {k}]
      /\ data' = [p \in Ports |-> data[p] \ {k}]
      /\ UNCHANGED <<serverVars, owner, far, clientVars, replies>>
  BY DEF End, Closes
<1>2. child' \in [Kids -> Children] /\ ChildReady'
  BY <1>1, StageTyped DEF Stages
<1>3. /\ control' \in [Clients -> SUBSET Procs]
      /\ listen' \in [Ports -> SUBSET Procs]
      /\ data' \in [Ports -> SUBSET Procs]
  BY <1>1, HeldTyped
<1> QED
  BY <1>1, <1>2, <1>3, HeldTyped, ChildTyped

LEMMA SendTyped ==
    ASSUME TypeInv, NEW c \in Clients, Send(c)
    PROVE  TypeInv'
<1>1. PICK cmd \in Commands : req' = [req EXCEPT ![c] = Append(@, cmd)]
  BY DEF Send
<1>2. /\ asked[c] < MaxCommands
      /\ asked' = [asked EXCEPT ![c] = @ + 1]
      /\ UNCHANGED <<pc, job, mode, sock, control, listen, data, owner, far, child,
                     stdio, lost, replies, disk>>
  BY DEF Send, serverVars, socketVars
<1>3. PICK q \in Seq(Commands) : q = req[c]
  BY DEF TypeInv, TypeOK
<1>4. Append(q, cmd) \in Seq(Commands) /\ Len(Append(q, cmd)) = Len(q) + 1
  BY <1>3, AppendProperties
<1>5. req' = [req EXCEPT ![c] = Append(q, cmd)]
  BY <1>1, <1>3
<1>6. /\ asked \in [Clients -> 0..MaxCommands]
      /\ req \in [Clients -> Seq(Commands)]
      /\ stdio \in [Clients -> 0..MaxCommands]
      /\ MaxCommands \in Nat
  BY ChannelAssumption DEF TypeInv, TypeOK
<1>7. asked' \in [Clients -> 0..MaxCommands] /\ req' \in [Clients -> Seq(Commands)]
  BY <1>2, <1>4, <1>5, <1>6
<1>8. TypeOK'
  BY <1>2, <1>7 DEF TypeInv, TypeOK
<1>9. Counted'
  <2> SUFFICES ASSUME NEW d \in Clients
               PROVE  stdio'[d] =< Len(req'[d]) /\ Len(req'[d]) =< asked'[d]
    BY DEF Counted
  <2>1. CASE d = c
    <3>1. Len(q) \in Nat /\ Len(q) =< asked[c] /\ stdio[c] =< Len(q)
      BY <1>3, LenProperties DEF TypeInv, Counted
    <3>2. req'[d] = Append(q, cmd) /\ asked'[d] = asked[c] + 1
      BY <1>2, <1>5, <1>6, <2>1
    <3> QED
      BY <1>2, <1>4, <1>6, <2>1, <3>1, <3>2
  <2>2. CASE d # c
    BY <1>2, <1>5, <1>6, <2>2 DEF TypeInv, Counted
  <2> QED
    BY <2>1, <2>2
<1>10. JobReady' /\ ChildReady'
  BY <1>2 DEF TypeInv, JobReady, ChildReady
<1> QED
  BY <1>8, <1>9, <1>10 DEF TypeInv

\* A client's end of a data connection.
LEMMA FarTyped ==
    ASSUME TypeInv, NEW p, NEW state \in {"dialled", "shut", "gone"},
           far' = [far EXCEPT ![p] = state],
           UNCHANGED <<serverVars, control, listen, data, owner, child, clientVars,
                       replies, disk>>
    PROVE  TypeInv'
<1>1. far' \in [Ports -> {"none", "dialled", "open", "shut", "gone"}]
  BY DEF TypeInv, TypeOK
<1>2. UNCHANGED <<pc, job, mode, sock, control, listen, data, owner, child, asked, req,
                  stdio, lost, replies, disk>>
  BY DEF serverVars, clientVars
<1> QED
  BY <1>1, <1>2 DEF TypeInv, TypeOK, JobReady, ChildReady, Counted

LEMMA VanishTyped ==
    ASSUME TypeInv, NEW c \in Clients, Vanish(c)
    PROVE  TypeInv'
<1>1. /\ lost' = lost \cup {c}
      /\ UNCHANGED <<pc, job, mode, sock, control, listen, data, owner, far, asked, req,
                     stdio, child, replies, disk>>
  BY DEF Vanish, serverVars, socketVars
<1>2. lost' \subseteq Clients
  BY <1>1 DEF TypeInv, TypeOK
<1> QED
  BY <1>1, <1>2 DEF TypeInv, TypeOK, JobReady, ChildReady, Counted

LEMMA TypeStutter == TypeInv /\ UNCHANGED vars => TypeInv'
  BY DEF vars, TypeInv, TypeOK, JobReady, ChildReady, Counted

LEMMA TypeNext == TypeInv /\ [Next]_vars => TypeInv'
<1> SUFFICES ASSUME TypeInv, Next
             PROVE  TypeInv'
  BY TypeStutter
<1>1. CASE \E c \in Clients : Pasv(c) \/ Port(c) \/ Transfer(c) \/ Quit(c)
  BY <1>1, PasvTyped, PortTyped, TransferTyped, QuitTyped
<1>2. CASE Establish \/ Fork \/ ForkFails \/ Release \/ EstablishFails \/ ServerKilled
  BY <1>2, EstablishTyped, ForkTyped, ForkFailsTyped, ReleaseTyped, EstablishFailsTyped,
     ServerKilledTyped
<1>3. ASSUME NEW k \in Kids, ChildStep(k)
      PROVE  TypeInv'
  <2>1. CASE Begin(k) \/ BeginFails(k) \/ Move(k) \/ Finish(k)
    BY <2>1, BeginTyped, BeginFailsTyped, MoveTyped, FinishTyped
  <2>2. CASE Leave(k)
    <3>1. /\ child[k].stage # "none"
          /\ End(k, "ended")
          /\ disk' \in {disk, [disk EXCEPT !.state = "new"]}
      BY <2>2 DEF Leave
    <3>2. disk' \in Disks
      BY <3>1, HeldTyped DEF Disks
    <3> QED
      BY <3>1, <3>2, EndTyped
  <2>3. CASE Killed(k)
    <3>1. child[k].stage # "none" /\ End(k, "killed") /\ disk' \in {disk, Emptied(k)}
      BY <2>3 DEF Killed, KilledByData, KilledByReply
    <3> QED
      BY <3>1, HeldTyped, EmptiedTyped, EndTyped
  <2> QED
    BY <1>3, <2>1, <2>2, <2>3 DEF ChildStep
<1>4. ASSUME NEW c \in Clients, Send(c) \/ Dial(c) \/ Vanish(c)
      PROVE  TypeInv'
  BY <1>4, SendTyped, VanishTyped, FarTyped DEF Dial
<1>5. ASSUME NEW p \in Ports, Hangup(p) \/ Abort(p)
      PROVE  TypeInv'
  BY <1>5, FarTyped DEF Hangup, Abort
<1> QED
  BY <1>1, <1>2, <1>3, <1>4, <1>5 DEF Next, ServerStep

\* Every variable keeps its type, and data_socket points to a socket exactly when it
\* is set, for any number of clients, sockets, children and commands.
THEOREM ChannelTypeCorrect == Spec => []TypeOK
<1>1. TypeInv => TypeOK
  BY DEF TypeInv
<1> QED
  BY <1>1, TypeInit, TypeNext, PTL DEF Spec

-----------------------------------------------------------------------------
(* The stored file.  The child that emptied it last writes the rest of it  *)
(* unless SIGPIPE kills it, and what kills a STOR is a reply: its client   *)
(* is lost.                                                                *)

\* k has a part of the file in its buffer, or took it along.
Storer(k) ==
    /\ child[k].kind = "STOR"
    /\ child[k].stage \in {"moving", "moved", "told", "killed"}
    /\ child[k].stage = "killed" => child[k].client \in lost

Stored == disk.state = "short" => disk.by \in Kids /\ Storer(disk.by)

\* Other children, and clients that vanish, leave a storer what it is.
LEMMA StoredKept ==
    ASSUME Stored, disk' = disk, lost \subseteq lost',
           \A j \in Kids : child'[j] = child[j] \/ ~Storer(j) \/ Storer(j)' \/ j # disk.by
    PROVE  Stored'
<1> SUFFICES ASSUME disk.state = "short"
             PROVE  disk.by \in Kids /\ Storer(disk.by)'
  BY DEF Stored
<1>1. PICK j \in Kids : j = disk.by /\ Storer(j)
  BY DEF Stored
<1>2. CASE child'[j] = child[j]
  <2>1. Storer(j)'
    BY <1>1, <1>2 DEF Storer
  <2> QED
    BY <1>1, <2>1 DEF Storer
<1>3. CASE Storer(j)'
  BY <1>1, <1>3 DEF Storer
<1> QED
  BY <1>1, <1>2, <1>3

\* The child at its next stage.
LEMMA StoredAlong ==
    ASSUME TypeInv, Stored, NEW k \in Kids, NEW stage, GoTo(k, stage), lost' = lost,
           Storer(k) /\ disk.by = k =>
                        \/ stage \in {"moving", "moved", "told"}
                        \/ stage = "killed" /\ child[k].client \in lost,
           disk' = disk
    PROVE  Stored'
<1>1. child \in [Kids -> Children]
  BY DEF TypeInv, TypeOK, Children
<1>2. child' = [child EXCEPT ![k].stage = stage]
  BY DEF GoTo
<1>3. /\ child'[k].kind = child[k].kind
      /\ child'[k].client = child[k].client
      /\ child'[k].stage = stage
  BY <1>1, <1>2 DEF Children
<1>4. \A j \in Kids : j # k => child'[j] = child[j]
  BY <1>1, <1>2
<1>5. ~Storer(k) \/ Storer(k)' \/ k # disk.by
  BY <1>3 DEF Storer
<1> QED
  BY <1>4, <1>5, StoredKept

\* The child that has just emptied the file.
LEMMA StoredAnew ==
    ASSUME TypeInv, NEW k \in Kids, NEW stage, GoTo(k, stage), disk' = Emptied(k),
           child[k].kind = "STOR", lost' = lost,
           stage = "killed" => child[k].client \in lost,
           stage \in {"moving", "killed"}
    PROVE  Stored'
<1>1. child \in [Kids -> Children] /\ child' = [child EXCEPT ![k].stage = stage]
  BY DEF TypeInv, TypeOK, Children, GoTo
<1>2. /\ child'[k].kind = "STOR"
      /\ child'[k].client = child[k].client
      /\ child'[k].stage = stage
  BY <1>1 DEF Children
<1>3. Storer(k)'
  BY <1>2 DEF Storer
<1>4. disk'.by = k
  BY DEF Emptied
<1> QED
  BY <1>3, <1>4 DEF Stored, Storer

LEMMA StoredNext == TypeInv /\ Stored /\ [Next]_vars => Stored'
<1> SUFFICES ASSUME TypeInv, Stored, [Next]_vars
             PROVE  Stored'
  OBVIOUS
<1>1. CASE lost \subseteq lost' /\ UNCHANGED <<child, disk>>
  BY <1>1, StoredKept
<1>2. CASE UNCHANGED vars
  BY <1>1, <1>2 DEF vars
<1>3. ASSUME NEW c \in Clients, Pasv(c) \/ Port(c) \/ Transfer(c) \/ Quit(c)
      PROVE  Stored'
  BY <1>1, <1>3 DEF Pasv, Port, Transfer, Quit, Take
<1>4. CASE Establish \/ ForkFails \/ Release \/ EstablishFails \/ ServerKilled
  BY <1>1, <1>4 DEF Establish, ForkFails, Release, EstablishFails, ServerKilled, clientVars
<1>5. CASE Fork
  <2>1. PICK k, m :
           /\ k \in Kids
           /\ child[k].stage = "none"
           /\ child' = [child EXCEPT ![k] = m]
           /\ disk' = disk
           /\ lost' = lost
    BY <1>5 DEF Fork, clientVars
  <2>2. child \in [Kids -> Children]
    BY DEF TypeInv, TypeOK, Children
  <2>3. \A j \in Kids : j # k => child'[j] = child[j]
    BY <2>1, <2>2
  <2>4. ~Storer(k)
    BY <2>1 DEF Storer
  <2> QED
    BY <2>1, <2>3, <2>4, StoredKept
<1>6. ASSUME NEW k \in Kids, ChildStep(k)
      PROVE  Stored'
  <2>1. lost' = lost
    BY <1>6 DEF ChildStep, Begin, BeginFails, Move, Finish, Leave, Killed, KilledByData,
                KilledByReply, End, clientVars
  <2>2. CASE Begin(k)
    <3>1. CASE child[k].kind = "STOR"
      <4>1. GoTo(k, "moving") /\ disk' = Emptied(k)
        BY <2>2, <3>1 DEF Begin
      <4> QED
        BY <2>1, <3>1, <4>1, StoredAnew
    <3>2. CASE child[k].kind # "STOR"
      BY <2>1, <2>2, <3>2, StoredAlong DEF Begin
    <3> QED
      BY <3>1, <3>2
  <2>3. CASE BeginFails(k)
    BY <2>1, <2>3, StoredAlong DEF BeginFails, Storer
  <2>4. CASE Move(k)
    BY <2>1, <2>4, StoredAlong DEF Move
  <2>5. CASE Finish(k)
    BY <2>1, <2>5, StoredAlong DEF Finish
  <2>6. CASE Leave(k)
    <3>1. /\ child[k].stage \in {"told", "leaving"}
          /\ GoTo(k, "ended")
          /\ disk' = IF child[k].stage = "told" /\ disk.by = k
                     THEN [disk EXCEPT !.state = "new"] ELSE disk
      BY <2>6 DEF Leave, End
    <3>2. CASE child[k].stage = "told" /\ disk.by = k
      <4>1. disk'.state = "new"
        BY <3>1, <3>2 DEF TypeInv, TypeOK
      <4> QED
        BY <4>1 DEF Stored
    <3>3. CASE ~(child[k].stage = "told" /\ disk.by = k)
      BY <2>1, <3>1, <3>3, StoredAlong DEF Storer
    <3> QED
      BY <3>2, <3>3
  <2>7. CASE KilledByData(k)
    BY <2>1, <2>7, StoredAlong DEF KilledByData, End, Storer
  <2>8. CASE KilledByReply(k)
    <3>1. CASE disk' = disk
      BY <2>1, <2>8, <3>1, StoredAlong DEF KilledByReply, End
    <3>2. CASE child[k].kind = "STOR" /\ disk' = Emptied(k)
      BY <2>1, <2>8, <3>2, StoredAnew DEF KilledByReply, End
    <3> QED
      BY <2>8, <3>1, <3>2 DEF KilledByReply
  <2> QED
    BY <1>6, <2>2, <2>3, <2>4, <2>5, <2>6, <2>7, <2>8 DEF ChildStep, Killed
<1>7. ASSUME NEW c \in Clients, Send(c) \/ Dial(c) \/ Vanish(c)
      PROVE  Stored'
  BY <1>1, <1>7 DEF Send, Dial, Vanish, clientVars
<1>8. ASSUME NEW p \in Ports, Hangup(p) \/ Abort(p)
      PROVE  Stored'
  BY <1>1, <1>8 DEF Hangup, Abort, clientVars
<1> QED
  BY <1>2, <1>3, <1>4, <1>5, <1>6, <1>7, <1>8 DEF Next, ServerStep

\* However many children store into the same file, and whichever of them fail: once
\* the child that emptied it last is gone the file holds all that child received,
\* although the 226 is sent before the fclose(); unless SIGPIPE ended the child because
\* its client was lost before it could be told.
THEOREM StoredFileComplete == Spec => []StoredInTheEnd
<1>1. Init => TypeInv /\ Stored
  BY TypeInit DEF Init, Stored
<1>2. TypeInv /\ Stored /\ [Next]_vars => (TypeInv /\ Stored)'
  BY TypeNext, StoredNext
<1>3. TypeInv /\ Stored => StoredInTheEnd
  BY DEF Stored, StoredInTheEnd, Storer
<1> QED
  BY <1>1, <1>2, <1>3, PTL DEF Spec

-----------------------------------------------------------------------------
(* Who holds a data connection.  Without PORT the server process holds one *)
(* from the establishing of it to the end of the command only, so that a   *)
(* child inherits no connection but its own.                               *)

SocketsOwned ==
    \A c \in Clients : sock[c] # NoPort =>
        owner[sock[c]] = c /\ Server \in listen[sock[c]]

HeldInCommand ==
    \A p \in Ports : Server \in data[p] =>
        pc \in {"fork", "release"} /\ p = sock[job.client]

Reserved == SocketsOwned /\ HeldInCommand /\ DataHeldByItsTransfer

\* Socket, holders and children as they were, or fewer holders.
LEMMA ReservedStays ==
    ASSUME TypeInv, Reserved, UNCHANGED <<owner, child>>,
           SocketsOwned', HeldInCommand',
           \A p \in Ports : data'[p] \cap Kids \subseteq data[p]
    PROVE  Reserved'
  BY DEF Reserved, DataHeldByItsTransfer, Running

LEMMA ReservedSame ==
    ASSUME Reserved, UNCHANGED <<pc, job, sock, owner, child, listen, data>>
    PROVE  Reserved'
  BY DEF Reserved, SocketsOwned, HeldInCommand, DataHeldByItsTransfer, Running

LEMMA ReservedDropped ==
    ASSUME TypeInv, Reserved, NEW c \in Clients, DropSocket(c),
           UNCHANGED <<owner, child, listen>>,
           \/ pc = "loop" /\ pc' = pc
           \/ pc \in {"establish", "release"} /\ c = job.client
    PROVE  Reserved'
<1>1. /\ sock' = [sock EXCEPT ![c] = NoPort]
      /\ data' = [p \in Ports |-> IF p = sock[c] THEN data[p] \ {Server} ELSE data[p]]
      /\ sock \in [Clients -> Ports \cup {NoPort}]
  BY DEF DropSocket, TypeInv, TypeOK
<1>2. SocketsOwned'
  BY <1>1 DEF Reserved, SocketsOwned
<1>3. HeldInCommand'
  <2> SUFFICES ASSUME NEW p \in Ports, Server \in data'[p]
               PROVE  FALSE
    BY DEF HeldInCommand
  <2>1. Server \in data[p] /\ p # sock[c]
    BY <1>1
  <2>2. pc \in {"fork", "release"} /\ p = sock[job.client]
    BY <2>1 DEF Reserved, HeldInCommand
  <2> QED
    BY <2>1, <2>2
<1>4. \A p \in Ports : data'[p] \cap Kids \subseteq data[p]
  BY <1>1
<1> QED
  BY <1>2, <1>3, <1>4, ReservedStays

LEMMA ReservedPasv ==
    ASSUME TypeInv, Reserved, NEW c \in Clients, Pasv(c)
    PROVE  Reserved'
<1>1. pc = "loop" /\ UNCHANGED <<pc, job, child>>
  BY DEF Pasv, Take
<1>2. /\ sock \in [Clients -> Ports \cup {NoPort}]
      /\ owner \in [Ports -> Clients \cup {NoClient}]
      /\ listen \in [Ports -> SUBSET Procs]
      /\ NoPort \notin Ports
  BY ChannelAssumption DEF TypeInv, TypeOK
<1>3. CASE Unprepared(c)
  <2>1. sock' = [sock EXCEPT ![c] = NoPort] /\ UNCHANGED <<listen, data, owner>>
    BY <1>3 DEF Unprepared, socketVars
  <2>2. SocketsOwned'
    BY <1>2, <2>1 DEF Reserved, SocketsOwned
  <2>3. HeldInCommand'
    BY <1>1, <2>1 DEF Reserved, HeldInCommand
  <2> QED
    BY <1>1, <2>1, <2>2, <2>3, ReservedStays
<1>4. ASSUME NEW p \in Ports, FreePort(p),
             sock' = [sock EXCEPT ![c] = p],
             owner' = [owner EXCEPT ![p] = c],
             listen' = [listen EXCEPT ![p] = {Server}],
             data' = data
      PROVE  Reserved'
  <2>1. \A d \in Clients : sock[d] # p
    BY <1>2, <1>4 DEF FreePort, Reserved, SocketsOwned
  <2>2. SocketsOwned'
    <3> SUFFICES ASSUME NEW d \in Clients, sock'[d] # NoPort
                 PROVE  owner'[sock'[d]] = d /\ Server \in listen'[sock'[d]]
      BY DEF SocketsOwned
    <3>1. CASE d = c
      BY <1>2, <1>4, <3>1
    <3>2. CASE d # c
      <4>1. sock'[d] = sock[d] /\ sock[d] # p /\ sock[d] # NoPort
        BY <1>2, <1>4, <2>1, <3>2
      <4>2. owner[sock[d]] = d /\ Server \in listen[sock[d]]
        BY <4>1 DEF Reserved, SocketsOwned
      <4>3. sock[d] \in Ports
        BY <1>2, <4>1
      <4> QED
        BY <1>2, <1>4, <4>1, <4>2, <4>3
    <3> QED
      BY <3>1, <3>2
  <2>3. HeldInCommand'
    BY <1>1, <1>4 DEF Reserved, HeldInCommand
  <2>4. DataHeldByItsTransfer'
    <3> SUFFICES ASSUME NEW q \in Ports, NEW k \in Kids \cap data[q]
                 PROVE  Running(k) /\ child[k].conn = q /\ child[k].client = owner'[q]
      BY <1>1, <1>4 DEF DataHeldByItsTransfer, Running
    <3>1. q # p
      BY <1>4 DEF FreePort
    <3>2. owner'[q] = owner[q]
      BY <1>2, <1>4, <3>1
    <3> QED
      BY <3>2 DEF Reserved, DataHeldByItsTransfer
  <2> QED
    BY <2>2, <2>3, <2>4 DEF Reserved
<1> QED
  BY <1>3, <1>4 DEF Pasv, Prepare

LEMMA ReservedEstablish ==
    ASSUME TypeInv, Reserved, Establish
    PROVE  Reserved'
<1>1. PICK p \in Ports : p = sock[job.client]
  <2>1. job \in Jobs /\ mode[job.client] # "none"
    BY DEF Establish, TypeInv, JobReady
  <2>2. job.client \in Clients
    BY <2>1 DEF Jobs
  <2> QED
    BY <2>1, <2>2 DEF TypeInv, TypeOK
<1>2. /\ pc = "establish" /\ pc' = "fork"
      /\ data' = [data EXCEPT ![p] = @ \cup {Server}]
      /\ UNCHANGED <<job, sock, listen, owner, child>>
  BY <1>1 DEF Establish
<1>3. data \in [Ports -> SUBSET Procs] /\ Server \notin Kids
  BY ChannelAssumption DEF TypeInv, TypeOK, Server, Kids
<1>4. SocketsOwned'
  BY <1>2 DEF Reserved, SocketsOwned
<1>5. HeldInCommand'
  BY <1>1, <1>2, <1>3 DEF Reserved, HeldInCommand
<1>6. \A q \in Ports : data'[q] \cap Kids \subseteq data[q]
  BY <1>2, <1>3
<1> QED
  BY <1>2, <1>4, <1>5, <1>6, ReservedStays

LEMMA ReservedFork ==
    ASSUME TypeInv, Reserved, Fork
    PROVE  Reserved'
<1>1. PICK k, m :
         /\ k \in Kids
         /\ child[k].stage = "none"
         /\ m = [stage |-> "start", client |-> job.client, kind |-> job.kind,
                 to |-> job.to, conn |-> sock[job.client]]
         /\ child' = [child EXCEPT ![k] = m]
         /\ listen' = Inherit(listen, k)
         /\ data' = Inherit(data, k)
  BY DEF Fork
<1>2. pc = "fork" /\ pc' = "release" /\ UNCHANGED <<job, mode, sock, owner>>
  BY DEF Fork
<1>3. /\ child \in [Kids -> Children]
      /\ listen \in [Ports -> SUBSET Procs]
      /\ data \in [Ports -> SUBSET Procs]
      /\ sock \in [Clients -> Ports \cup {NoPort}]
      /\ Server # k
  BY <1>1, ChannelAssumption DEF TypeInv, TypeOK, Children, Server, Kids
<1>4. \A p \in Ports : /\ Server \in listen[p] => Server \in listen'[p]
                       /\ data'[p] \subseteq data[p] \cup {k}
                       /\ k \in data'[p] => k \in data[p] \/ Server \in data[p]
                       /\ Server \in data'[p] => Server \in data[p]
  BY <1>1, <1>3 DEF Inherit
<1>5. SocketsOwned'
  BY <1>2, <1>3, <1>4 DEF Reserved, SocketsOwned
<1>6. HeldInCommand'
  BY <1>2, <1>4 DEF Reserved, HeldInCommand
<1>7. DataHeldByItsTransfer'
  <2> SUFFICES ASSUME NEW p \in Ports, NEW j \in Kids, j \in data'[p]
               PROVE  Running(j)' /\ child'[j].conn = p /\ child'[j].client = owner[p]
    BY <1>2 DEF DataHeldByItsTransfer
  <2>1. CASE j # k
    <3>1. j \in data[p] /\ child'[j] = child[j]
      BY <1>1, <1>3, <1>4, <2>1
    <3> QED
      BY <3>1 DEF Reserved, DataHeldByItsTransfer, Running
  <2>2. CASE j = k
    <3>1. k \notin data[p]
      BY <1>1 DEF Reserved, DataHeldByItsTransfer, Running
    <3>2. p = sock[job.client]
      BY <1>4, <2>2, <3>1 DEF Reserved, HeldInCommand
    <3>3. job.client \in Clients
      BY <1>2 DEF TypeInv, JobReady, Jobs
    <3>4. owner[p] = job.client
      BY <3>2, <3>3, ChannelAssumption DEF Reserved, SocketsOwned
    <3>5. child'[k] = m
      BY <1>1, <1>3
    <3>6. m.stage = "start" /\ m.client = job.client /\ m.conn = sock[job.client]
      BY <1>1
    <3> QED
      BY <2>2, <3>2, <3>4, <3>5, <3>6 DEF Running
  <2> QED
    BY <2>1, <2>2
<1> QED
  BY <1>5, <1>6, <1>7 DEF Reserved

\* A child goes on: what it was made for does not change.
LEMMA ReservedAlong ==
    ASSUME TypeInv, Reserved, NEW k \in Kids, NEW stage \in Stages \ {"none", "ended", "killed"},
           GoTo(k, stage), UNCHANGED <<serverVars, owner, listen>>,
           \A p \in Ports : data'[p] \subseteq data[p]
    PROVE  Reserved'
<1>1. child \in [Kids -> Children] /\ child' = [child EXCEPT ![k].stage = stage]
  BY DEF TypeInv, TypeOK, Children, GoTo
<1>2. UNCHANGED <<pc, job, sock>>
  BY DEF serverVars
<1>3. /\ child'[k].conn = child[k].conn
      /\ child'[k].client = child[k].client
      /\ child'[k].stage = stage
  BY <1>1 DEF Children
<1>4. \A j \in Kids : j # k => child'[j] = child[j]
  BY <1>1
<1>5. SocketsOwned' /\ HeldInCommand'
  BY <1>2 DEF Reserved, SocketsOwned, HeldInCommand
<1>6. DataHeldByItsTransfer'
  BY <1>3, <1>4 DEF Reserved, DataHeldByItsTransfer, Running
<1> QED
  BY <1>5, <1>6 DEF Reserved

LEMMA ReservedEnds ==
    ASSUME TypeInv, Reserved, NEW k \in Kids, NEW stage, End(k, stage)
    PROVE  Reserved'
<1>1. child \in [Kids -> Children] /\ child' = [child EXCEPT ![k].stage = stage]
  BY DEF TypeInv, TypeOK, Children, End, GoTo
<1>2. UNCHANGED <<pc, job, sock, owner>>
  BY DEF End, Closes, serverVars
<1>3. /\ listen' = [p \in Ports |-> listen[p] \ {k}]
      /\ data' = [p \in Ports |-> data[p] \ {k}]
      /\ Server # k
      /\ sock \in [Clients -> Ports \cup {NoPort}]
  BY ChannelAssumption DEF End, Closes, Server, Kids, TypeInv, TypeOK
<1>4. \A j \in Kids : j # k => child'[j] = child[j]
  BY <1>1
<1>5. SocketsOwned'
  BY <1>2, <1>3 DEF Reserved, SocketsOwned
<1>6. HeldInCommand'
  BY <1>2, <1>3 DEF Reserved, HeldInCommand
<1>7. DataHeldByItsTransfer'
  <2> SUFFICES ASSUME NEW p \in Ports, NEW j \in Kids, j \in data[p], j # k
               PROVE  Running(j)' /\ child'[j].conn = p /\ child'[j].client = owner[p]
    BY <1>2, <1>3 DEF DataHeldByItsTransfer
  <2> QED
    BY <1>4 DEF Reserved, DataHeldByItsTransfer, Running
<1> QED
  BY <1>5, <1>6, <1>7 DEF Reserved

LEMMA ReservedNext ==
    ASSUME "PORT" \notin Commands, TypeInv, Reserved, [Next]_vars
    PROVE  Reserved'
<1>1. CASE UNCHANGED vars
  BY <1>1, ReservedSame DEF vars
<1>2. ASSUME NEW c \in Clients, Pasv(c) \/ Port(c) \/ Transfer(c) \/ Quit(c)
      PROVE  Reserved'
  <2>1. CASE Pasv(c)
    BY <2>1, ReservedPasv
  <2>2. ~Port(c)
    BY TakeKnown DEF Port
  <2>3. CASE Transfer(c)
    <3>1. UNCHANGED <<sock, owner, child, listen, data>> /\ pc = "loop"
      BY <2>3 DEF Transfer, Take, socketVars
    <3>2. SocketsOwned' /\ HeldInCommand'
      BY <3>1 DEF Reserved, SocketsOwned, HeldInCommand
    <3> QED
      BY <3>1, <3>2, ReservedStays
  <2>4. CASE Quit(c)
    BY <2>4, ReservedDropped DEF Quit, Take
  <2> QED
    BY <1>2, <2>1, <2>2, <2>3, <2>4
<1>3. CASE Establish
  BY <1>3, ReservedEstablish
<1>4. CASE Fork
  BY <1>4, ReservedFork
<1>5. CASE ForkFails
  <2>1. UNCHANGED <<job, sock, owner, child, listen, data>> /\ pc' = "release"
    BY <1>5 DEF ForkFails, socketVars
  <2>2. SocketsOwned' /\ HeldInCommand'
    BY <2>1 DEF Reserved, SocketsOwned, HeldInCommand
  <2> QED
    BY <2>1, <2>2, ReservedStays
<1>6. CASE Release \/ EstablishFails
  <2>1. /\ pc \in {"establish", "release"}
        /\ DropSocket(job.client)
        /\ UNCHANGED <<owner, child, listen>>
    BY <1>6 DEF Release, EstablishFails
  <2>2. job.client \in Clients
    BY <2>1 DEF TypeInv, JobReady, Jobs
  <2> QED
    BY <2>1, <2>2, ReservedDropped
<1>7. ASSUME NEW k \in Kids, ChildStep(k)
      PROVE  Reserved'
  <2>1. CASE Begin(k)
    BY <2>1, ReservedAlong DEF Begin, socketVars, Stages
  <2>2. CASE BeginFails(k)
    BY <2>2, ReservedAlong DEF BeginFails, socketVars, Stages
  <2>3. CASE Move(k)
    <3>1. data \in [Ports -> SUBSET Procs]
      BY DEF TypeInv, TypeOK
    <3>2. \A p \in Ports : data'[p] \subseteq data[p]
      BY <2>3, <3>1 DEF Move
    <3> QED
      BY <2>3, <3>2, ReservedAlong DEF Move, Stages
  <2>4. CASE Finish(k)
    BY <2>4, ReservedAlong DEF Finish, socketVars, Stages
  <2>5. CASE Leave(k) \/ Killed(k)
    <3>1. PICK stage : End(k, stage)
      BY <2>5 DEF Leave, Killed, KilledByData, KilledByReply
    <3> QED
      BY <3>1, ReservedEnds
  <2> QED
    BY <1>7, <2>1, <2>2, <2>3, <2>4, <2>5 DEF ChildStep
<1>8. ASSUME NEW c \in Clients, Send(c) \/ Dial(c) \/ Vanish(c)
      PROVE  Reserved'
  BY <1>8, ReservedSame DEF Send, Dial, Vanish, serverVars, socketVars
<1>9. ASSUME NEW p \in Ports, Hangup(p) \/ Abort(p)
      PROVE  Reserved'
  BY <1>9, ReservedSame DEF Hangup, Abort, serverVars
<1>10. CASE ServerKilled
  <2>1. /\ sock' = [c \in Clients |-> NoPort]
        /\ data' = [p \in Ports |-> data[p] \ {Server}]
        /\ UNCHANGED <<owner, child>>
    BY <1>10 DEF ServerKilled, Closes
  <2>2. SocketsOwned' /\ HeldInCommand'
    BY <2>1 DEF SocketsOwned, HeldInCommand
  <2> QED
    BY <2>1, <2>2, ReservedStays
<1> QED
  BY <1>1, <1>2, <1>3, <1>4, <1>5, <1>6, <1>7, <1>8, <1>9, <1>10 DEF Next, ServerStep

\* As long as no client sends PORT, a data connection is held by no child but the one
\* that makes its transfer: the end of it waits for no other client's transfer.
THEOREM ConnectionReserved ==
    ASSUME "PORT" \notin Commands
    PROVE  Spec => []DataHeldByItsTransfer
<1>1. Init => TypeInv /\ Reserved
  <2>1. Init => Reserved
    BY DEF Init, Reserved, SocketsOwned, HeldInCommand, DataHeldByItsTransfer
  <2> QED
    BY <2>1, TypeInit
<1>2. TypeInv /\ Reserved /\ [Next]_vars => (TypeInv /\ Reserved)'
  BY TypeNext, ReservedNext
<1>3. TypeInv /\ Reserved => DataHeldByItsTransfer
  BY DEF Reserved
<1> QED
  BY <1>1, <1>2, <1>3, PTL DEF Spec

-----------------------------------------------------------------------------
(* The order of replies.  A client that waits has at most one command      *)
(* unanswered, and one process at a time to answer it: the server process  *)
(* while the command is queued or its connection is made, then the child.  *)

InOrder(r, s) == r.to < s.to \/ (r.to = s.to /\ r.code = 150 /\ s.code # 150)

Ordered(q)    == \A i, j \in 1..Len(q) : i < j => InOrder(q[i], q[j])
UpTo(q, n)    == \A i \in 1..Len(q) : q[i].to =< n
Before(q, n)  == \A i \in 1..Len(q) : q[i].to < n
NoFinal(q, n) == \A i \in 1..Len(q) : q[i].to = n => q[i].code = 150

\* The next reply to the n-th command.
LEMMA Continued ==
    ASSUME NEW q \in Seq(Answers), NEW n \in 1..MaxCommands, NEW code \in Codes,
           Ordered(q), UpTo(q, n), NoFinal(q, n), code = 150 => Before(q, n)
    PROVE  /\ Append(q, Answer(code, n)) \in Seq(Answers)
           /\ Ordered(Append(q, Answer(code, n)))
           /\ UpTo(Append(q, Answer(code, n)), n)
           /\ code = 150 => NoFinal(Append(q, Answer(code, n)), n)
<1>1. PICK r : r = Answer(code, n)
  OBVIOUS
<1>2. r \in Answers /\ r.to = n /\ r.code = code
  BY <1>1 DEF Answer, Answers
<1>3. PICK s : s = Append(q, r)
  OBVIOUS
<1>4. /\ s \in Seq(Answers)
      /\ Len(s) = Len(q) + 1
      /\ \A i \in 1..Len(q) : s[i] = q[i]
      /\ s[Len(q) + 1] = r
  BY <1>2, <1>3, AppendProperties
<1>5. Len(q) \in Nat /\ n \in Int
  BY ChannelAssumption
<1>6. \A i \in 1..Len(s) : i \in 1..Len(q) \/ i = Len(q) + 1
  BY <1>4, <1>5
<1>7. \A i \in 1..Len(q) : q[i].to \in Int
  <2> SUFFICES ASSUME NEW i \in 1..Len(q)
               PROVE  q[i].to \in Int
    OBVIOUS
  <2>1. q[i] \in Answers
    OBVIOUS
  <2> QED
    BY <2>1, ChannelAssumption DEF Answers
<1>8. UpTo(s, n)
  BY <1>2, <1>4, <1>5, <1>6 DEF UpTo
<1>9. code = 150 => NoFinal(s, n)
  BY <1>2, <1>4, <1>6 DEF NoFinal
<1>10. \A i \in 1..Len(q) : InOrder(q[i], r)
  <2> SUFFICES ASSUME NEW i \in 1..Len(q)
               PROVE  InOrder(q[i], r)
    OBVIOUS
  <2>1. q[i].to =< n /\ q[i].to \in Int /\ (q[i].to = n => q[i].code = 150)
    BY <1>7 DEF UpTo, NoFinal
  <2>2. code = 150 => q[i].to < n
    BY DEF Before
  <2> QED
    BY <1>2, <1>5, <2>1, <2>2 DEF InOrder
<1>11. Ordered(s)
  <2> SUFFICES ASSUME NEW i \in 1..Len(s), NEW j \in 1..Len(s), i < j
               PROVE  InOrder(s[i], s[j])
    BY DEF Ordered
  <2>1. i \in 1..Len(q)
    BY <1>4, <1>5
  <2>2. CASE j \in 1..Len(q)
    <3>1. s[i] = q[i] /\ s[j] = q[j]
      BY <1>4, <2>1, <2>2
    <3>2. InOrder(q[i], q[j])
      BY <2>1, <2>2 DEF Ordered
    <3> QED
      BY <3>1, <3>2
  <2>3. CASE j = Len(q) + 1
    <3>1. s[i] = q[i] /\ s[j] = r
      BY <1>4, <2>1, <2>3
    <3> QED
      BY <1>10, <2>1, <3>1
  <2> QED
    BY <1>6, <2>2, <2>3
<1> QED
  BY <1>1, <1>3, <1>4, <1>8, <1>9, <1>11

Waiting(c) == req[c] # <<>>
Working(c) == pc \in {"establish", "fork"} /\ job.client = c
Acting(k, c) == child[k].client = c /\ child[k].stage \in {"start", "moving", "moved"}

\* Whose turn it is to answer c, and how far the answer to the last command is.
Turn(c) ==
    /\ Waiting(c) => /\ Len(req[c]) = 1
                     /\ ~Working(c)
                     /\ \A k \in Kids : ~Acting(k, c)
                     /\ Before(replies[c], asked[c])
    /\ Working(c) => /\ job.to = asked[c]
                     /\ \A k \in Kids : ~Acting(k, c)
                     /\ Before(replies[c], asked[c])
    /\ \A k \in Kids : Acting(k, c) =>
          /\ child[k].to = asked[c]
          /\ \A j \in Kids : Acting(j, c) => j = k
          /\ child[k].stage = "start" => Before(replies[c], asked[c])
          /\ NoFinal(replies[c], asked[c])

Orderly(c) == Ordered(replies[c]) /\ UpTo(replies[c], asked[c]) /\ Turn(c)

InTurn == \A c \in Patient : Orderly(c)

LEMMA TurnInit == Init => InTurn
<1> SUFFICES ASSUME Init, NEW c \in Clients
             PROVE  Orderly(c)
  BY ChannelAssumption DEF InTurn
<1>1. req[c] = <<>> /\ replies[c] = <<>> /\ pc = "loop" /\ \A k \in Kids : child[k].stage = "none"
  BY DEF Init, NoChild
<1> QED
  BY <1>1 DEF Orderly, Ordered, UpTo, Turn, Waiting, Working, Acting

\* A client for whom nothing happens, or whose child has gone further.
LEMMA TurnKept ==
    ASSUME NEW c, Orderly(c),
           req'[c] = req[c], asked'[c] = asked[c], replies'[c] = replies[c],
           Working(c)' => Working(c) /\ job' = job,
           \A k \in Kids : Acting(k, c)' =>
               /\ Acting(k, c)
               /\ child'[k].to = child[k].to
               /\ child'[k].stage = "start" => child[k].stage = "start"
    PROVE  Orderly(c)'
<1>1. Ordered(replies'[c]) /\ UpTo(replies'[c], asked'[c])
  BY DEF Orderly
<1>2. Waiting(c)' => Waiting(c)
  BY DEF Waiting
<1>3. Turn(c)'
  BY <1>2 DEF Orderly, Turn
<1> QED
  BY <1>1, <1>3 DEF Orderly

\* A client who has its answer.
LEMMA TurnOver ==
    ASSUME NEW c \in Clients, Ordered(replies'[c]), UpTo(replies'[c], asked'[c]),
           req'[c] = <<>>, ~Working(c)', \A k \in Kids : ~Acting(k, c)'
    PROVE  Orderly(c)'
  BY DEF Orderly, Turn, Waiting

\* What is known of the queue of a client that waits.
LEMMA TurnTaken ==
    ASSUME TypeInv, InTurn, NEW c \in Patient, NEW cmd, Take(c, cmd)
    PROVE  /\ req'[c] = <<>>
           /\ Number(c) = asked[c]
           /\ ~Working(c)
           /\ \A k \in Kids : ~Acting(k, c)
           /\ Before(replies[c], asked[c])
<1>1. req[c] # <<>> /\ req' = [req EXCEPT ![c] = Tail(@)]
  BY DEF Take
<1>2. req[c] \in Seq(Commands) /\ req \in [Clients -> Seq(Commands)] /\ c \in Clients
  BY ChannelAssumption DEF TypeInv, TypeOK
<1>3. Orderly(c)
  BY DEF InTurn
<1>4. /\ Len(req[c]) = 1
      /\ ~Working(c)
      /\ \A k \in Kids : ~Acting(k, c)
      /\ Before(replies[c], asked[c])
  BY <1>1, <1>3 DEF Orderly, Turn, Waiting
<1>5. Tail(req[c]) = <<>>
  <2>1. Tail(req[c]) \in Seq(Commands) /\ Len(Tail(req[c])) = 0
    BY <1>1, <1>2, <1>4, HeadTailProperties
  <2> QED
    BY <2>1, EmptySeq
<1>6. asked[c] \in Int
  BY <1>2, ChannelAssumption DEF TypeInv, TypeOK
<1>7. Number(c) = asked[c]
  BY <1>4, <1>6 DEF Number
<1> QED
  BY <1>1, <1>2, <1>4, <1>5, <1>7

\* To take a command of one client is nothing to another.
LEMMA OthersQueued ==
    ASSUME TypeInv, NEW c \in Clients, NEW cmd, Take(c, cmd)
    PROVE  /\ \A d \in Clients : d # c => req'[d] = req[d]
           /\ UNCHANGED <<asked, child>>
  BY DEF Take, TypeInv, TypeOK

\* Nor is a reply.
LEMMA OthersTold ==
    ASSUME TypeInv, NEW c, NEW n, NEW codes, Say(c, n, codes)
    PROVE  \A d \in Clients : d # c => replies'[d] = replies[d]
  BY DEF Say, TypeInv, TypeOK

LEMMA Apart ==
    ASSUME NEW q \in Seq(Answers), NEW n \in 1..MaxCommands, Before(q, n)
    PROVE  NoFinal(q, n) /\ UpTo(q, n)
<1> SUFFICES ASSUME NEW i \in 1..Len(q)
             PROVE  (q[i].to = n => q[i].code = 150) /\ q[i].to =< n
  BY DEF NoFinal, UpTo
<1>1. q[i] \in Answers
  OBVIOUS
<1>2. q[i].to \in Int /\ q[i].to < n /\ n \in Int
  BY <1>1, ChannelAssumption DEF Answers, Before
<1> QED
  BY <1>2

\* A reply to c, and what it leaves of the conversation.
LEMMA Answered ==
    ASSUME TypeInv, NEW c \in Clients, NEW n \in 1..MaxCommands, NEW code \in Codes,
           Say(c, n, <<code>>),
           Ordered(replies[c]), UpTo(replies[c], n), NoFinal(replies[c], n),
           code = 150 => Before(replies[c], n)
    PROVE  /\ Ordered(replies'[c])
           /\ UpTo(replies'[c], n)
           /\ code = 150 => NoFinal(replies'[c], n)
<1>1. TypeOK /\ replies \in [Clients -> Seq(Answers)] /\ replies[c] \in Seq(Answers)
  BY HeldTyped
<1>2. replies' = [replies EXCEPT ![c] = Append(@, Answer(code, n))]
  BY <1>1, SayOne
<1>3. PICK q : q = Append(replies[c], Answer(code, n))
  OBVIOUS
<1>4. Ordered(q) /\ UpTo(q, n) /\ (code = 150 => NoFinal(q, n))
  BY <1>1, <1>3, Continued
<1>5. replies'[c] = q
  BY <1>1, <1>2, <1>3
<1> QED
  BY <1>4, <1>5

\* A command that the server process answers itself.
LEMMA HandlerInTurn ==
    ASSUME TypeInv, InTurn, NEW c \in Clients, NEW cmd, Take(c, cmd),
           NEW code \in Codes \ {150}, Say(c, Number(c), <<code>>), UNCHANGED <<pc, job>>
    PROVE  InTurn'
<1>1. /\ \A d \in Clients : d # c => req'[d] = req[d] /\ replies'[d] = replies[d]
      /\ UNCHANGED <<asked, child>>
  BY OthersQueued, OthersTold
<1> SUFFICES ASSUME NEW d \in Patient
             PROVE  Orderly(d)'
  BY DEF InTurn
<1>2. Working(d)' <=> Working(d)
  BY DEF Working
<1>3. \A k \in Kids : Acting(k, d)' <=> Acting(k, d)
  BY <1>1 DEF Acting
<1>4. CASE d = c
  <2>1. /\ req'[c] = <<>>
        /\ Number(c) = asked[c]
        /\ ~Working(c)
        /\ \A k \in Kids : ~Acting(k, c)
        /\ Before(replies[c], asked[c])
    BY <1>4, TurnTaken
  <2>2. Number(c) \in 1..MaxCommands
    BY TakeKnown
  <2>3. replies[c] \in Seq(Answers)
    BY HeldTyped
  <2>4. NoFinal(replies[c], asked[c]) /\ UpTo(replies[c], asked[c]) /\ Ordered(replies[c])
    BY <1>4, <2>1, <2>2, <2>3, Apart DEF InTurn, Orderly
  <2>5. Ordered(replies'[c]) /\ UpTo(replies'[c], asked[c])
    BY <2>1, <2>2, <2>4, Answered
  <2> QED
    BY <1>1, <1>2, <1>3, <1>4, <2>1, <2>5, TurnOver
<1>5. CASE d # c
  <2>1. Orderly(d) /\ d \in Clients
    BY ChannelAssumption DEF InTurn
  <2> QED
    BY <1>1, <1>2, <1>3, <1>5, <2>1, TurnKept
<1> QED
  BY <1>4, <1>5

LEMMA TransferInTurn ==
    ASSUME TypeInv, InTurn, NEW c \in Clients, Transfer(c)
    PROVE  InTurn'
<1>1. PICK kind \in Transfers :
         /\ Take(c, kind)
         /\ \/ /\ Say(c, Number(c), <<425>>)
               /\ UNCHANGED <<pc, job>>
            \/ /\ Say(c, Number(c), <<550>>)
               /\ UNCHANGED <<pc, job>>
            \/ /\ job' = [client |-> c, kind |-> kind, to |-> Number(c)]
               /\ UNCHANGED replies
  BY DEF Transfer
<1>2. CASE \/ Say(c, Number(c), <<425>>) /\ UNCHANGED <<pc, job>>
           \/ Say(c, Number(c), <<550>>) /\ UNCHANGED <<pc, job>>
  BY <1>1, <1>2, HandlerInTurn DEF Codes
<1>3. CASE /\ job' = [client |-> c, kind |-> kind, to |-> Number(c)]
           /\ UNCHANGED replies
  <2>1. /\ \A d \in Clients : d # c => req'[d] = req[d]
        /\ UNCHANGED <<asked, child>>
    BY <1>1, OthersQueued
  <2>2. job'.client = c /\ job'.to = Number(c)
    BY <1>3
  <2> SUFFICES ASSUME NEW d \in Patient
               PROVE  Orderly(d)'
    BY DEF InTurn
  <2>3. Orderly(d) /\ d \in Clients
    BY ChannelAssumption DEF InTurn
  <2>4. \A k \in Kids : Acting(k, d)' <=> Acting(k, d)
    BY <2>1 DEF Acting
  <2>5. CASE d = c
    <3>1. /\ req'[c] = <<>>
          /\ Number(c) = asked[c]
          /\ \A k \in Kids : ~Acting(k, c)
          /\ Before(replies[c], asked[c])
      BY <1>1, <2>5, TurnTaken
    <3>2. ~Waiting(c)' /\ \A k \in Kids : ~Acting(k, c)'
      BY <2>4, <2>5, <3>1 DEF Waiting
    <3>3. Turn(c)'
      BY <1>3, <2>1, <2>2, <3>1, <3>2 DEF Turn
    <3> QED
      BY <1>3, <2>1, <2>3, <2>5, <3>3 DEF Orderly
  <2>6. CASE d # c
    <3>1. ~Working(d)'
      BY <2>2, <2>6 DEF Working
    <3> QED
      BY <1>3, <2>1, <2>3, <2>4, <2>6, <3>1, TurnKept
  <2> QED
    BY <2>5, <2>6
<1> QED
  BY <1>1, <1>2, <1>3

\* The server process answers a transfer command itself.
LEMMA RefusedInTurn ==
    ASSUME TypeInv, InTurn, pc \in {"establish", "fork"}, pc' \notin {"establish", "fork"},
           NEW code \in Codes \ {150}, Say(job.client, job.to, <<code>>),
           UNCHANGED <<child, asked, req>>
    PROVE  InTurn'
<1>1. PICK c \in Clients : c = job.client /\ job.to \in 1..MaxCommands
  BY DEF TypeInv, JobReady, Jobs
<1>2. \A d \in Clients : d # c => replies'[d] = replies[d]
  BY <1>1, OthersTold
<1> SUFFICES ASSUME NEW d \in Patient
             PROVE  Orderly(d)'
  BY DEF InTurn
<1>3. Orderly(d) /\ d \in Clients
  BY ChannelAssumption DEF InTurn
<1>4. ~Working(d)' /\ \A k \in Kids : Acting(k, d)' <=> Acting(k, d)
  BY DEF Working, Acting
<1>5. CASE d = c
  <2>1. Working(c) /\ Orderly(c)
    BY <1>1, <1>3, <1>5 DEF Working
  <2>2. /\ job.to = asked[c]
        /\ \A k \in Kids : ~Acting(k, c)
        /\ Before(replies[c], asked[c])
        /\ Ordered(replies[c])
        /\ ~Waiting(c)
    BY <2>1 DEF Orderly, Turn
  <2>3. replies[c] \in Seq(Answers)
    BY HeldTyped
  <2>4. NoFinal(replies[c], asked[c]) /\ UpTo(replies[c], asked[c])
    BY <1>1, <2>2, <2>3, Apart
  <2>5. Ordered(replies'[c]) /\ UpTo(replies'[c], asked[c])
    BY <1>1, <2>2, <2>4, Answered
  <2> QED
    BY <1>4, <1>5, <2>2, <2>5, TurnOver DEF Waiting
<1>6. CASE d # c
  BY <1>2, <1>3, <1>4, <1>6, TurnKept
<1> QED
  BY <1>5, <1>6

\* The turn passes to the child.
LEMMA ForkInTurn ==
    ASSUME TypeInv, InTurn, Fork
    PROVE  InTurn'
<1>1. PICK k, m :
         /\ k \in Kids
         /\ child[k].stage = "none"
         /\ m = [stage |-> "start", client |-> job.client, kind |-> job.kind,
                 to |-> job.to, conn |-> sock[job.client]]
         /\ child' = [child EXCEPT ![k] = m]
  BY DEF Fork
<1>2. pc = "fork" /\ pc' = "release" /\ UNCHANGED <<job, asked, req, replies>>
  BY DEF Fork, clientVars
<1>3. child \in [Kids -> Children]
  BY DEF TypeInv, TypeOK, Children
<1>4. PICK c \in Clients : c = job.client
  BY <1>2 DEF TypeInv, JobReady, Jobs
<1>5. child'[k] = m /\ \A j \in Kids : j # k => child'[j] = child[j]
  BY <1>1, <1>3
<1>6. m.stage = "start" /\ m.client = c /\ m.to = job.to
  BY <1>1, <1>4
<1> SUFFICES ASSUME NEW d \in Patient
             PROVE  Orderly(d)'
  BY DEF InTurn
<1>7. Orderly(d) /\ d \in Clients
  BY ChannelAssumption DEF InTurn
<1>8. ~Working(d)'
  BY <1>2 DEF Working
<1>9. CASE d = c
  <2>1. Working(c)
    BY <1>2, <1>4 DEF Working
  <2>2. /\ job.to = asked[c]
        /\ \A j \in Kids : ~Acting(j, c)
        /\ Before(replies[c], asked[c])
        /\ ~Waiting(c)
    BY <1>7, <1>9, <2>1 DEF Orderly, Turn
  <2>3. NoFinal(replies[c], asked[c])
    <3>1. job.to \in 1..MaxCommands
      BY <1>2 DEF TypeInv, JobReady, Jobs
    <3> QED
      BY <2>2, <3>1, HeldTyped, Apart
  <2>4. \A j \in Kids : Acting(j, c)' => j = k
    BY <1>5, <2>2 DEF Acting
  <2>5. ~Waiting(c)'
    BY <1>2, <2>2 DEF Waiting
  <2>6. /\ child'[k].to = asked'[c]
        /\ Before(replies'[c], asked'[c])
        /\ NoFinal(replies'[c], asked'[c])
    BY <1>2, <1>5, <1>6, <2>2, <2>3
  <2>7. Turn(c)'
    BY <1>8, <1>9, <2>4, <2>5, <2>6 DEF Turn
  <2> QED
    BY <1>2, <1>7, <1>9, <2>7 DEF Orderly
<1>10. CASE d # c
  <2>1. \A j \in Kids : Acting(j, d)' => Acting(j, d) /\ child'[j] = child[j]
    BY <1>5, <1>6, <1>10 DEF Acting
  <2> QED
    BY <1>2, <1>7, <1>8, <2>1, TurnKept
<1> QED
  BY <1>9, <1>10

\* A child at another stage is the same child.
LEMMA Staged ==
    ASSUME TypeInv, NEW k \in Kids, NEW stage, GoTo(k, stage)
    PROVE  /\ child'[k].stage = stage
           /\ child'[k].client = child[k].client
           /\ child'[k].to = child[k].to
           /\ \A j \in Kids : j # k => child'[j] = child[j]
<1>1. child \in [Kids -> Children] /\ child' = [child EXCEPT ![k].stage = stage]
  BY DEF TypeInv, TypeOK, Children, GoTo
<1> QED
  BY <1>1 DEF Children

\* The turn of a child.
LEMMA ChildsTurn ==
    ASSUME TypeInv, InTurn, NEW k \in Kids, child[k].stage \in {"start", "moving", "moved"},
           child[k].client \in Patient
    PROVE  /\ child[k].to = asked[child[k].client]
           /\ ~Waiting(child[k].client)
           /\ ~Working(child[k].client)
           /\ \A j \in Kids : Acting(j, child[k].client) => j = k
           /\ child[k].stage = "start" => Before(replies[child[k].client], child[k].to)
           /\ NoFinal(replies[child[k].client], child[k].to)
           /\ Ordered(replies[child[k].client])
           /\ UpTo(replies[child[k].client], child[k].to)
<1>1. PICK c \in Patient : c = child[k].client
  OBVIOUS
<1>2. Orderly(c) /\ Acting(k, c)
  BY <1>1 DEF InTurn, Acting
<1>3. /\ child[k].to = asked[c]
      /\ ~Waiting(c)
      /\ ~Working(c)
      /\ \A j \in Kids : Acting(j, c) => j = k
      /\ child[k].stage = "start" => Before(replies[c], asked[c])
      /\ NoFinal(replies[c], asked[c])
      /\ Ordered(replies[c])
      /\ UpTo(replies[c], asked[c])
  BY <1>2 DEF Orderly, Turn
<1> QED
  BY <1>1, <1>3

\* Whom a child answers, and which command.
LEMMA ChildKnown ==
    ASSUME TypeInv, NEW k \in Kids, child[k].stage # "none"
    PROVE  child[k].client \in Clients /\ child[k].to \in 1..MaxCommands
  BY DEF TypeInv, ChildReady

\* A child stops acting: whatever it said last, nobody else has a turn.
LEMMA TurnEnds ==
    ASSUME TypeInv, InTurn, NEW k \in Kids, NEW stage,
           stage \notin {"start", "moving", "moved"},
           child[k].stage \in {"start", "moving", "moved"},
           GoTo(k, stage), UNCHANGED <<serverVars, clientVars>>,
           child[k].client \in Patient =>
               /\ Ordered(replies'[child[k].client])
               /\ UpTo(replies'[child[k].client], child[k].to),
           \A d \in Clients : d # child[k].client => replies'[d] = replies[d]
    PROVE  InTurn'
<1>1. PICK c \in Clients : c = child[k].client
  BY ChildKnown
<1>2. /\ child'[k].stage = stage
      /\ \A j \in Kids : j # k => child'[j] = child[j]
  BY Staged
<1>3. UNCHANGED <<pc, job, asked, req>>
  BY DEF serverVars, clientVars
<1> SUFFICES ASSUME NEW d \in Patient
             PROVE  Orderly(d)'
  BY DEF InTurn
<1>4. Orderly(d) /\ d \in Clients
  BY ChannelAssumption DEF InTurn
<1>5. Working(d)' <=> Working(d)
  BY <1>3 DEF Working
<1>6. \A j \in Kids : Acting(j, d)' => j # k /\ Acting(j, d) /\ child'[j] = child[j]
  BY <1>2 DEF Acting
<1>7. CASE d = c
  <2>1. /\ child[k].to = asked[c]
        /\ ~Waiting(c)
        /\ ~Working(c)
        /\ \A j \in Kids : Acting(j, c) => j = k
    BY <1>1, <1>7, ChildsTurn
  <2>2. req'[c] = <<>> /\ ~Working(c)' /\ \A j \in Kids : ~Acting(j, c)'
    BY <1>3, <1>5, <1>6, <1>7, <2>1 DEF Waiting
  <2>3. Ordered(replies'[c]) /\ UpTo(replies'[c], asked'[c])
    BY <1>1, <1>3, <1>7, <2>1
  <2> QED
    BY <1>7, <2>2, <2>3, TurnOver
<1>8. CASE d # c
  <2>1. replies'[d] = replies[d]
    BY <1>1, <1>4, <1>8
  <2> QED
    BY <1>3, <1>4, <1>5, <1>6, <2>1, TurnKept
<1> QED
  BY <1>7, <1>8

\* A child goes on in silence.
LEMMA TurnGoesOn ==
    ASSUME TypeInv, InTurn, NEW k \in Kids, NEW stage, stage # "start", GoTo(k, stage),
           stage = "moved" => child[k].stage = "moving", stage # "moving",
           UNCHANGED <<serverVars, clientVars, replies>>
    PROVE  InTurn'
<1>1. /\ child'[k].stage = stage
      /\ child'[k].client = child[k].client
      /\ child'[k].to = child[k].to
      /\ \A j \in Kids : j # k => child'[j] = child[j]
  BY Staged
<1>2. UNCHANGED <<pc, job, asked, req, replies>>
  BY DEF serverVars, clientVars
<1> SUFFICES ASSUME NEW d \in Patient
             PROVE  Orderly(d)'
  BY DEF InTurn
<1>3. Orderly(d) /\ (Working(d)' => Working(d))
  BY <1>2 DEF InTurn, Working
<1>4. ASSUME NEW j \in Kids, Acting(j, d)'
      PROVE  /\ Acting(j, d)
             /\ child'[j].to = child[j].to
             /\ child'[j].stage = "start" => child[j].stage = "start"
  <2>1. CASE j = k
    BY <1>1, <1>4, <2>1 DEF Acting
  <2>2. CASE j # k
    BY <1>1, <1>4, <2>2 DEF Acting
  <2> QED
    BY <2>1, <2>2
<1> QED
  BY <1>2, <1>3, <1>4, TurnKept

LEMMA BeginInTurn ==
    ASSUME TypeInv, InTurn, NEW k \in Kids, Begin(k)
    PROVE  InTurn'
<1>1. /\ child[k].stage = "start"
      /\ GoTo(k, "moving")
      /\ Say(child[k].client, child[k].to, <<150>>)
      /\ UNCHANGED <<pc, job, asked, req>>
  BY DEF Begin, SayFor, serverVars, clientVars
<1>2. PICK c \in Clients, n \in 1..MaxCommands : c = child[k].client /\ n = child[k].to
  BY <1>1, ChildKnown
<1>3. /\ child'[k].stage = "moving"
      /\ child'[k].client = c
      /\ child'[k].to = n
      /\ \A j \in Kids : j # k => child'[j] = child[j]
  BY <1>1, <1>2, Staged
<1>4. \A d \in Clients : d # c => replies'[d] = replies[d]
  BY <1>1, <1>2, OthersTold
<1> SUFFICES ASSUME NEW d \in Patient
             PROVE  Orderly(d)'
  BY DEF InTurn
<1>5. Orderly(d) /\ d \in Clients
  BY ChannelAssumption DEF InTurn
<1>6. Working(d)' <=> Working(d)
  BY <1>1 DEF Working
<1>7. CASE d = c
  <2>1. /\ n = asked[c]
        /\ ~Waiting(c)
        /\ ~Working(c)
        /\ \A j \in Kids : Acting(j, c) => j = k
        /\ Before(replies[c], n)
        /\ NoFinal(replies[c], n)
        /\ Ordered(replies[c])
        /\ UpTo(replies[c], n)
    BY <1>1, <1>2, <1>7, ChildsTurn
  <2>2. 150 \in Codes
    BY DEF Codes
  <2>3. /\ Ordered(replies'[c])
        /\ UpTo(replies'[c], n)
        /\ NoFinal(replies'[c], n)
    BY <1>1, <1>2, <2>1, <2>2, Answered
  <2>4. ~Waiting(c)' /\ ~Working(c)'
    BY <1>1, <1>6, <1>7, <2>1 DEF Waiting
  <2>5. \A j \in Kids : Acting(j, c)' => j = k
    BY <1>3, <2>1 DEF Acting
  <2>6. Turn(c)'
    BY <1>1, <1>3, <2>1, <2>3, <2>4, <2>5 DEF Turn
  <2> QED
    BY <1>1, <1>7, <2>1, <2>3, <2>6 DEF Orderly
<1>8. CASE d # c
  <2>1. replies'[d] = replies[d]
    BY <1>4, <1>5, <1>8
  <2>2. \A j \in Kids : Acting(j, d)' => Acting(j, d) /\ child'[j] = child[j]
    BY <1>3, <1>8 DEF Acting
  <2> QED
    BY <1>1, <1>5, <1>6, <2>1, <2>2, TurnKept
<1> QED
  BY <1>7, <1>8

\* 150 and 451, one after the other.
LEMMA AnsweredTwice ==
    ASSUME TypeInv, NEW c \in Clients, NEW n \in 1..MaxCommands,
           Say(c, n, <<150, 451>>), Ordered(replies[c]), Before(replies[c], n)
    PROVE  /\ Ordered(replies'[c])
           /\ UpTo(replies'[c], n)
<1>1. /\ TypeOK
      /\ replies \in [Clients -> Seq(Answers)]
      /\ replies[c] \in Seq(Answers)
      /\ 150 \in Codes /\ 451 \in Codes
  BY HeldTyped
<1>2. replies' = [replies EXCEPT ![c] = Append(Append(@, Answer(150, n)), Answer(451, n))]
  BY <1>1, SayTwo
<1>3. PICK q : q = Append(replies[c], Answer(150, n))
  OBVIOUS
<1>4. UpTo(replies[c], n) /\ NoFinal(replies[c], n)
  BY <1>1, Apart
<1>5. q \in Seq(Answers) /\ Ordered(q) /\ UpTo(q, n) /\ NoFinal(q, n)
  BY <1>1, <1>3, <1>4, Continued
<1>6. PICK s : s = Append(q, Answer(451, n))
  OBVIOUS
<1>7. Ordered(s) /\ UpTo(s, n)
  BY <1>1, <1>5, <1>6, Continued
<1>8. replies'[c] = s
  BY <1>1, <1>2, <1>3, <1>6
<1> QED
  BY <1>7, <1>8

LEMMA BeginFailsInTurn ==
    ASSUME TypeInv, InTurn, NEW k \in Kids, BeginFails(k)
    PROVE  InTurn'
<1>1. /\ child[k].stage = "start"
      /\ GoTo(k, "leaving")
      /\ Say(child[k].client, child[k].to,
             IF child[k].kind = "LIST" THEN <<550>> ELSE <<150, 451>>)
      /\ UNCHANGED <<serverVars, clientVars>>
  BY DEF BeginFails, SayFor
<1>2. PICK c \in Clients, n \in 1..MaxCommands : c = child[k].client /\ n = child[k].to
  BY <1>1, ChildKnown
<1>3. \A d \in Clients : d # c => replies'[d] = replies[d]
  BY <1>1, <1>2, OthersTold
<1>4. ASSUME c \in Patient
      PROVE  Ordered(replies'[c]) /\ UpTo(replies'[c], n)
  <2>1. /\ Ordered(replies[c])
        /\ UpTo(replies[c], n)
        /\ Before(replies[c], n)
        /\ NoFinal(replies[c], n)
    BY <1>1, <1>2, <1>4, ChildsTurn
  <2>2. CASE child[k].kind = "LIST"
    BY <1>1, <1>2, <2>1, <2>2, Answered DEF Codes
  <2>3. CASE child[k].kind # "LIST"
    BY <1>1, <1>2, <2>1, <2>3, AnsweredTwice
  <2> QED
    BY <2>2, <2>3
<1> QED
  BY <1>1, <1>2, <1>3, <1>4, TurnEnds

LEMMA FinishInTurn ==
    ASSUME TypeInv, InTurn, NEW k \in Kids, Finish(k)
    PROVE  InTurn'
<1>1. /\ child[k].stage = "moved"
      /\ GoTo(k, "told")
      /\ Say(child[k].client, child[k].to, <<226>>)
      /\ UNCHANGED <<serverVars, clientVars>>
  BY DEF Finish, SayFor
<1>2. PICK c \in Clients, n \in 1..MaxCommands : c = child[k].client /\ n = child[k].to
  BY <1>1, ChildKnown
<1>3. \A d \in Clients : d # c => replies'[d] = replies[d]
  BY <1>1, <1>2, OthersTold
<1>4. ASSUME c \in Patient
      PROVE  Ordered(replies'[c]) /\ UpTo(replies'[c], n)
  <2>1. Ordered(replies[c]) /\ UpTo(replies[c], n) /\ NoFinal(replies[c], n)
    BY <1>1, <1>2, <1>4, ChildsTurn
  <2> QED
    BY <1>1, <1>2, <2>1, Answered DEF Codes
<1> QED
  BY <1>1, <1>2, <1>3, <1>4, TurnEnds

\* A client that waits sends its next command when nobody has a turn.
LEMMA SenderInTurn ==
    ASSUME TypeInv, InTurn, NEW c \in Patient, Send(c)
    PROVE  Orderly(c)'
<1>1. PICK cmd \in Commands : req' = [req EXCEPT ![c] = Append(@, cmd)]
  BY DEF Send
<1>2. /\ asked[c] > 0 => Told(c, asked[c])
      /\ asked' = [asked EXCEPT ![c] = @ + 1]
      /\ UNCHANGED <<pc, job, child, replies>>
  BY DEF Send, serverVars
<1>3. /\ asked \in [Clients -> 0..MaxCommands]
      /\ req \in [Clients -> Seq(Commands)]
      /\ replies[c] \in Seq(Answers)
      /\ MaxCommands \in Nat
      /\ c \in Clients
  BY ChannelAssumption, HeldTyped DEF TypeInv, TypeOK
<1>4. Orderly(c)
  BY DEF InTurn
<1>5. asked[c] > 0 => ~NoFinal(replies[c], asked[c]) /\ ~Before(replies[c], asked[c])
  <2> SUFFICES ASSUME asked[c] > 0
               PROVE  ~NoFinal(replies[c], asked[c]) /\ ~Before(replies[c], asked[c])
    OBVIOUS
  <2>1. PICK i \in DOMAIN replies[c] : replies[c][i].to = asked[c] /\ replies[c][i].code # 150
    BY <1>2 DEF Told, Range
  <2>2. i \in 1..Len(replies[c])
    BY <1>3
  <2> QED
    BY <1>3, <2>1, <2>2 DEF NoFinal, Before
<1>6. ~Waiting(c)
  <2>1. CASE asked[c] > 0
    BY <1>4, <1>5, <2>1 DEF Orderly, Turn
  <2>2. CASE asked[c] = 0
    <3>1. Len(req[c]) = 0
      BY <1>3, <2>2, LenProperties DEF TypeInv, Counted
    <3> QED
      BY <1>3, <3>1, EmptySeq DEF Waiting
  <2> QED
    BY <1>3, <2>1, <2>2
<1>7. ~Working(c)
  <2> SUFFICES ASSUME Working(c)
               PROVE  FALSE
    OBVIOUS
  <2>1. job.to = asked[c] /\ Before(replies[c], asked[c])
    BY <1>4 DEF Orderly, Turn
  <2>2. job.to \in 1..MaxCommands
    BY DEF Working, TypeInv, JobReady, Jobs
  <2> QED
    BY <1>3, <1>5, <2>1, <2>2
<1>8. \A k \in Kids : ~Acting(k, c)
  <2> SUFFICES ASSUME NEW k \in Kids, Acting(k, c)
               PROVE  FALSE
    OBVIOUS
  <2>1. child[k].to = asked[c] /\ NoFinal(replies[c], asked[c])
    BY <1>4 DEF Orderly, Turn
  <2>2. child[k].to \in 1..MaxCommands
    BY DEF Acting, TypeInv, ChildReady
  <2> QED
    BY <1>3, <1>5, <2>1, <2>2
<1>9. UpTo(replies[c], asked[c] + 1) /\ Before(replies[c], asked[c] + 1)
  <2> SUFFICES ASSUME NEW i \in 1..Len(replies[c])
               PROVE  replies[c][i].to < asked[c] + 1 /\ replies[c][i].to =< asked[c] + 1
    BY DEF UpTo, Before
  <2>1. replies[c][i] \in Answers /\ replies[c][i].to =< asked[c]
    BY <1>3, <1>4 DEF Orderly, UpTo
  <2>2. replies[c][i].to \in Int
    BY <1>3, <2>1 DEF Answers
  <2> QED
    BY <1>3, <2>1, <2>2
<1>10. req'[c] = <<cmd>> /\ asked'[c] = asked[c] + 1
  BY <1>1, <1>2, <1>3, <1>6 DEF Waiting
<1>11. (Working(c)' <=> Working(c)) /\ \A k \in Kids : Acting(k, c)' <=> Acting(k, c)
  BY <1>2 DEF Working, Acting
<1>12. ~Working(c)' /\ \A k \in Kids : ~Acting(k, c)'
  BY <1>7, <1>8, <1>11
<1>13. Len(req'[c]) = 1 /\ Before(replies'[c], asked'[c])
  BY <1>2, <1>9, <1>10
<1>14. Turn(c)'
  BY <1>12, <1>13 DEF Turn
<1>15. Ordered(replies'[c]) /\ UpTo(replies'[c], asked'[c])
  BY <1>2, <1>4, <1>9, <1>10 DEF Orderly
<1> QED
  BY <1>14, <1>15 DEF Orderly

LEMMA SendInTurn ==
    ASSUME TypeInv, InTurn, NEW c \in Clients, Send(c)
    PROVE  InTurn'
<1> SUFFICES ASSUME NEW d \in Patient
             PROVE  Orderly(d)'
  BY DEF InTurn
<1>1. CASE d = c
  BY <1>1, SenderInTurn
<1>2. CASE d # c
  <2>1. PICK cmd \in Commands : req' = [req EXCEPT ![c] = Append(@, cmd)]
    BY DEF Send
  <2>2. asked' = [asked EXCEPT ![c] = @ + 1] /\ UNCHANGED <<pc, job, child, replies>>
    BY DEF Send, serverVars
  <2>3. Orderly(d) /\ d \in Clients
    BY ChannelAssumption DEF InTurn
  <2>4. req'[d] = req[d] /\ asked'[d] = asked[d]
    BY <1>2, <2>1, <2>2, <2>3 DEF TypeInv, TypeOK
  <2>5. (Working(d)' <=> Working(d)) /\ \A k \in Kids : Acting(k, d)' <=> Acting(k, d)
    BY <2>2 DEF Working, Acting
  <2> QED
    BY <2>2, <2>3, <2>4, <2>5, TurnKept
<1> QED
  BY <1>1, <1>2

\* Nothing that the turns depend on changes.
LEMMA TurnSame ==
    ASSUME InTurn, UNCHANGED <<child, asked, req, replies, job>>,
           pc' \in {"establish", "fork"} => pc \in {"establish", "fork"}
    PROVE  InTurn'
<1> SUFFICES ASSUME NEW d \in Patient
             PROVE  Orderly(d)'
  BY DEF InTurn
<1>1. /\ Orderly(d)
      /\ Working(d)' => Working(d)
      /\ \A k \in Kids : Acting(k, d)' => Acting(k, d)
  BY DEF InTurn, Working, Acting
<1> QED
  BY <1>1, TurnKept

LEMMA TurnNext ==
    ASSUME TypeInv, InTurn, [Next]_vars
    PROVE  InTurn'
<1>1. CASE UNCHANGED vars
  BY <1>1, TurnSame DEF vars
<1>2. ASSUME NEW c \in Clients, Pasv(c) \/ Port(c) \/ Transfer(c) \/ Quit(c)
      PROVE  InTurn'
  <2>1. CASE Pasv(c)
    BY <2>1, HandlerInTurn DEF Pasv, Unprepared, Codes
  <2>2. CASE Port(c)
    BY <2>2, HandlerInTurn DEF Port, Unprepared, Codes
  <2>3. CASE Transfer(c)
    BY <2>3, TransferInTurn
  <2>4. CASE Quit(c)
    BY <2>4, HandlerInTurn DEF Quit, Codes
  <2> QED
    BY <1>2, <2>1, <2>2, <2>3, <2>4
<1>3. CASE Establish
  BY <1>3, TurnSame DEF Establish, clientVars
<1>4. CASE Fork
  BY <1>4, ForkInTurn
<1>5. CASE ForkFails \/ EstablishFails
  BY <1>5, RefusedInTurn DEF ForkFails, EstablishFails, clientVars, Codes
<1>6. CASE Release \/ ServerKilled
  <2> SUFFICES ASSUME NEW d \in Patient
               PROVE  Orderly(d)'
    BY DEF InTurn
  <2>1. pc' \in {"loop", "down"} /\ UNCHANGED <<child, asked, req, replies>>
    BY <1>6 DEF Release, ServerKilled, clientVars
  <2>2. /\ Orderly(d)
        /\ ~Working(d)'
        /\ \A k \in Kids : Acting(k, d)' => Acting(k, d)
    BY <2>1 DEF InTurn, Working, Acting
  <2> QED
    BY <2>1, <2>2, TurnKept
<1>7. ASSUME NEW k \in Kids, ChildStep(k)
      PROVE  InTurn'
  <2>1. CASE Begin(k) \/ BeginFails(k) \/ Finish(k)
    BY <2>1, BeginInTurn, BeginFailsInTurn, FinishInTurn
  <2>2. CASE Move(k)
    BY <2>2, TurnGoesOn DEF Move
  <2>3. CASE Leave(k) \/ Killed(k)
    BY <2>3, TurnGoesOn DEF Leave, Killed, KilledByData, KilledByReply, End
  <2> QED
    BY <1>7, <2>1, <2>2, <2>3 DEF ChildStep
<1>8. ASSUME NEW c \in Clients, Send(c) \/ Dial(c) \/ Vanish(c)
      PROVE  InTurn'
  BY <1>8, SendInTurn, TurnSame DEF Dial, Vanish, serverVars, clientVars
<1>9. ASSUME NEW p \in Ports, Hangup(p) \/ Abort(p)
      PROVE  InTurn'
  BY <1>9, TurnSame DEF Hangup, Abort, serverVars, clientVars
<1> QED
  BY <1>1, <1>2, <1>3, <1>4, <1>5, <1>6, <1>7, <1>8, <1>9 DEF Next, ServerStep

\* A client that waits for the end of each command reads its replies in the order of
\* its commands, one 150 at most and one final reply to each, although the server
\* process and a child of it write to the same connection without a lock.
THEOREM RepliesKeepOrder == Spec => []RepliesInOrder
<1>1. Init => TypeInv /\ InTurn
  BY TypeInit, TurnInit
<1>2. TypeInv /\ InTurn /\ [Next]_vars => (TypeInv /\ InTurn)'
  BY TypeNext, TurnNext
<1>3. TypeInv /\ InTurn => RepliesInOrder
  <2> SUFFICES ASSUME TypeInv, InTurn, NEW c \in Patient,
                      NEW i \in DOMAIN replies[c], NEW j \in DOMAIN replies[c], i < j
               PROVE  InOrder(replies[c][i], replies[c][j])
    BY DEF RepliesInOrder, InOrder
  <2>1. replies[c] \in Seq(Answers)
    BY ChannelAssumption, HeldTyped
  <2>2. i \in 1..Len(replies[c]) /\ j \in 1..Len(replies[c])
    BY <2>1
  <2>3. Ordered(replies[c])
    BY DEF InTurn, Orderly
  <2> QED
    BY <2>2, <2>3 DEF Ordered
<1> QED
  BY <1>1, <1>2, <1>3, PTL DEF Spec

=============================================================================
