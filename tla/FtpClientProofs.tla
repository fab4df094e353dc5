-------------------------- MODULE FtpClientProofs --------------------------
(* The conversation of the client with the server and its children, for     *)
(* every input, number of commands, size of the buffers and content of the  *)
(* files.                                                                   *)
EXTENDS FtpClient, SequenceTheorems, TLAPS

-----------------------------------------------------------------------------
(* Types, in four parts.                                                    *)

Places == Waits \cup Ended \cup {"signin", "username", "password", "loop", "prompt",
                                 "dial", "upload", "data", "leave"}
Replies == [code : 150..599, to : Verbs \cup {"connect", "stop"}]
Words   == Typing \cup {"", "junk"}
Lines   == [verb : Verbs, arg : Words, cut : BOOLEAN]
Data    == Seq(Blocks \cup {"short"})

\* A data socket that was shut or reset is left behind with the upload.
ClientTyped ==
    /\ at \in Places
    /\ doing \in DOMAIN VerbOf
    /\ said \in {"none", "failed", "listed", "downloaded", "uploaded"}
    /\ typed \in 0..MaxLines
    /\ stop \in BOOLEAN
    /\ eintr \in BOOLEAN
    /\ opened \in BOOLEAN
    /\ lost \in BOOLEAN
    /\ sock \in {"none", "open", "shut", "reset"}
    /\ at = "upload" => doing = "put"
    /\ sock \in {"shut", "reset"} => doing = "put" /\ at \in {"upload", "second", "killed"}

LinkTyped ==
    /\ inbox \in Seq(Replies)
    /\ outbox \in Seq(Lines)
    /\ link \in {"up", "closed", "reset"}

ServerTyped ==
    /\ served \in BOOLEAN
    /\ ready \in BOOLEAN
    /\ session \in {"new", "out", "wrong", "named", "in"}
    /\ child \in {"none", "start", "failing", "moving", "moved", "leaving"}
    /\ task \in Verbs

DataTyped ==
    /\ pipe \in Data
    /\ rest \in Data
    /\ meant \in Data
    /\ got \in Data

TypeInv == ClientTyped /\ LinkTyped /\ ServerTyped /\ DataTyped

LEMMA VerbsAre ==
    /\ Verbs = {"LIST", "RETR", "STOR", "CWD", "PWD", "QUIT", "USER", "PASS", "PASV"}
    /\ DOMAIN VerbOf = {"ls", "get", "put", "none", "cd", "pwd", "quit"}
    /\ VerbOf["ls"] = "LIST" /\ VerbOf["get"] = "RETR" /\ VerbOf["put"] = "STOR"
    /\ VerbOf["cd"] = "CWD" /\ VerbOf["pwd"] = "PWD" /\ VerbOf["quit"] = "QUIT"
  BY DEF Verbs, VerbOf, Range

LEMMA TransfersAre == Transfers = {"LIST", "RETR", "STOR"}
  BY DEF Transfers, VerbOf

LEMMA TypeInit == Init => TypeInv
<1> SUFFICES ASSUME Init
             PROVE  TypeInv
  OBVIOUS
<1>1. ClientTyped
  <2>1. 0 \in 0..MaxLines /\ "none" \in DOMAIN VerbOf /\ "greeting" \in Places
    BY VerbsAre, ClientAssumption DEF Places, Waits
  <2> QED
    BY <2>1 DEF Init, ClientTyped
<1>2. LinkTyped /\ DataTyped
  BY DEF Init, LinkTyped, DataTyped, Data
<1>3. ServerTyped
  BY VerbsAre DEF Init, ServerTyped
<1> QED
  BY <1>1, <1>2, <1>3 DEF TypeInv

\* A reply is read, or there is none.
LEMMA ReadTyped ==
    ASSUME TypeInv, NEW p, Take(p) \/ NoReply(p)
    PROVE  at = p /\ LinkTyped' /\ lost' \in BOOLEAN /\ eintr' \in BOOLEAN
<1>1. CASE Take(p)
  <2>1. inbox' = <<>> /\ outbox' = outbox /\ link' = link /\ eintr' = eintr /\ at = p
    BY <1>1 DEF Take
  <2>2. lost' \in BOOLEAN
    BY <1>1 DEF Take
  <2>3. LinkTyped'
    BY <2>1 DEF TypeInv, LinkTyped
  <2> QED
    BY <2>1, <2>2, <2>3 DEF TypeInv, ClientTyped
<1>2. CASE NoReply(p)
  BY <1>2 DEF NoReply, linkVars, TypeInv, ClientTyped, LinkTyped
<1> QED
  BY <1>1, <1>2

LEMMA Said == "" \in Words /\ "junk" \in Words /\ Typing \subseteq Words
  BY DEF Words

LEMMA SentTyped ==
    ASSUME LinkTyped, NEW line \in Lines
    PROVE  /\ Sent(line) \in Seq(Lines)
           /\ outbox = <<>> => Len(Sent(line)) = 1 /\ Sent(line)[1] = line
<1>1. PICK q \in Seq(Lines) : q = outbox
  BY DEF LinkTyped
<1>2. PICK n \in Nat : n = Len(q)
  OBVIOUS
<1>3. CASE n > 0 /\ q[n].cut
  <2>1. PICK m : m = [q[n] EXCEPT !.arg = "junk", !.cut = line.cut]
    OBVIOUS
  <2>2. n \in 1..Len(q) /\ q[n] \in Lines
    BY <1>2, <1>3
  <2>3. m \in Lines
    BY <2>1, <2>2, Said DEF Lines
  <2>4. [q EXCEPT ![n] = m] \in Seq(Lines)
    BY <2>2, <2>3, ExceptSeq
  <2>5. Sent(line) = [q EXCEPT ![n] = m]
    BY <1>1, <1>2, <1>3, <2>1 DEF Sent
  <2> QED
    BY <1>1, <1>2, <1>3, <2>4, <2>5
<1>4. CASE ~(n > 0 /\ q[n].cut)
  <2>1. Sent(line) = Append(q, line)
    BY <1>1, <1>2, <1>4 DEF Sent
  <2> QED
    BY <1>1, <2>1, AppendProperties
<1> QED
  BY <1>3, <1>4

LEMMA WriteTyped ==
    ASSUME TypeInv, NEW verb \in Verbs, NEW arg \in Words, NEW next,
           Write(verb, arg, next), inbox' = inbox \/ inbox' = <<>>
    PROVE  LinkTyped' /\ at' \in {next, "killed"}
<1>1. PICK line : line = Line(verb, arg)
  OBVIOUS
<1>2. line \in Lines
  BY <1>1 DEF Line, Lines
<1>3. LinkTyped /\ Sent(line) \in Seq(Lines)
  BY <1>2, SentTyped DEF TypeInv
<1>4. outbox' \in Seq(Lines) /\ link' \in {"up", "closed", "reset"} /\ at' \in {next, "killed"}
  BY <1>1, <1>3 DEF Write, LinkTyped
<1>5. inbox' \in Seq(Replies)
  <2>1. <<>> \in Seq(Replies)
    BY EmptySeq
  <2> QED
    BY <1>3, <2>1 DEF LinkTyped
<1> QED
  BY <1>4, <1>5 DEF LinkTyped

LEMMA SaysTyped ==
    ASSUME TypeInv, NEW code \in 150..599, NEW verb \in Verbs \cup {"connect"}, Says(code, verb)
    PROVE  inbox' \in Seq(Replies)
<1>1. PICK r : r = [code |-> code, to |-> verb]
  OBVIOUS
<1>2. r \in Replies
  BY <1>1 DEF Replies
<1>3. inbox' = Append(inbox, r) /\ inbox \in Seq(Replies)
  BY <1>1 DEF Says, TypeInv, LinkTyped
<1> QED
  BY <1>2, <1>3, AppendProperties

\* The client acts on its own variables and the connection.
LEMMA ClientActs ==
    ASSUME TypeInv, ClientTyped', LinkTyped', UNCHANGED <<serverVars, dataVars>>
    PROVE  TypeInv'
  BY DEF TypeInv, ServerTyped, DataTyped, serverVars, dataVars

LEMMA LoginTyped ==
    ASSUME TypeInv, Greeted \/ SignIn \/ GetUsername \/ SendUser \/ GetPassword \/ SendPass
    PROVE  TypeInv'
<1>1. /\ at \in {"greeting", "signin", "username", "user", "password", "pass"}
      /\ at' \in Places \ {"upload"}
      /\ LinkTyped'
      /\ lost' \in BOOLEAN
      /\ eintr' \in BOOLEAN
  <2>1. CASE Greeted
    BY <2>1, ReadTyped DEF Greeted, Places
  <2>2. CASE SignIn
    BY <2>2 DEF SignIn, Places, TypeInv, ClientTyped, LinkTyped, linkVars
  <2>3. CASE GetUsername
    <3>1. CASE NoInput("username")
      BY <3>1 DEF NoInput, Places, TypeInv, ClientTyped, LinkTyped, linkVars
    <3>2. CASE Input("username") /\ \E name \in Typing : Write("USER", name, "user")
      <4>1. at = "username" /\ UNCHANGED <<eintr, lost, inbox>>
        BY <3>2 DEF Input
      <4>2. PICK name \in Typing : Write("USER", name, "user")
        BY <3>2
      <4>3. "USER" \in Verbs /\ name \in Words
        BY VerbsAre DEF Words
      <4>4. LinkTyped' /\ at' \in {"user", "killed"}
        BY <4>1, <4>2, <4>3, WriteTyped
      <4> QED
        BY <4>1, <4>4 DEF Places, Waits, Ended, TypeInv, ClientTyped
    <3> QED
      BY <2>3, <3>1, <3>2 DEF GetUsername
  <2>4. CASE SendUser
    BY <2>4, ReadTyped DEF SendUser, Answer, NoAnswer, Places
  <2>5. CASE GetPassword
    <3>1. CASE NoInput("password")
      BY <3>1 DEF NoInput, Places, TypeInv, ClientTyped, LinkTyped, linkVars
    <3>2. CASE Input("password") /\ \E word \in Typing : Write("PASS", word, "pass")
      <4>1. at = "password" /\ UNCHANGED <<eintr, lost, inbox>>
        BY <3>2 DEF Input
      <4>2. PICK word \in Typing : Write("PASS", word, "pass")
        BY <3>2
      <4>3. "PASS" \in Verbs /\ word \in Words
        BY VerbsAre DEF Words
      <4>4. LinkTyped' /\ at' \in {"pass", "killed"}
        BY <4>1, <4>2, <4>3, WriteTyped
      <4> QED
        BY <4>1, <4>4 DEF Places, Waits, Ended, TypeInv, ClientTyped
    <3> QED
      BY <2>5, <3>1, <3>2 DEF GetPassword
  <2>6. CASE SendPass
    BY <2>6, ReadTyped DEF SendPass, Answer, NoAnswer, Places
  <2> QED
    BY <2>1, <2>2, <2>3, <2>4, <2>5, <2>6
<1>2. UNCHANGED <<doing, said, typed, stop, sock, opened>> /\ UNCHANGED <<serverVars, dataVars>>
  BY DEF Greeted, SignIn, GetUsername, SendUser, GetPassword, SendPass
<1>3. ClientTyped'
  BY <1>1, <1>2 DEF TypeInv, ClientTyped
<1> QED
  BY <1>1, <1>2, <1>3, ClientActs

LEMMA PromptTyped ==
    ASSUME TypeInv, TestStop \/ Leave \/ NotSent \/ Execute \/ DestroyClient
    PROVE  TypeInv'
<1>1. UNCHANGED <<stop, sock, opened>> /\ UNCHANGED <<serverVars, dataVars>>
  BY DEF TestStop, Leave, NotSent, Execute, DestroyClient
<1>2. /\ at \in {"loop", "prompt", "leave"}
      /\ at' \in Places \ {"upload"}
      /\ LinkTyped'
      /\ lost' = lost
      /\ eintr' \in {eintr, FALSE}
      /\ doing' \in DOMAIN VerbOf
      /\ said' \in {said, "none"}
      /\ typed' \in 0..MaxLines
  <2>1. CASE TestStop
    BY <2>1 DEF TestStop, Places, TypeInv, ClientTyped, LinkTyped, linkVars
  <2>2. CASE Leave
    BY <2>2 DEF Leave, NoInput, Places, TypeInv, ClientTyped, LinkTyped, linkVars
  <2>3. CASE NotSent
    BY <2>3 DEF NotSent, Input, Places, Ended, TypeInv, ClientTyped, LinkTyped
  <2>4. CASE Execute
    <3>1. PICK command \in Commands :
             /\ doing' = command
             /\ \/ Write("PASV", "", "pasv")
                \/ Write("CWD", "", "cwd")
                \/ Write("PWD", "", "pwd")
                \/ Write("QUIT", "", "bye")
      BY <2>4 DEF Execute
    <3>2. /\ at = "prompt"
          /\ UNCHANGED <<eintr, lost, inbox>>
          /\ typed < MaxLines
          /\ typed' = typed + 1
          /\ said' = "none"
      BY <2>4 DEF Execute, Input
    <3>3. {"PASV", "CWD", "PWD", "QUIT"} \subseteq Verbs
      BY VerbsAre
    <3>4. LinkTyped' /\ at' \in {"pasv", "cwd", "pwd", "bye", "killed"}
      BY <3>1, <3>2, <3>3, WriteTyped, Said
    <3>5. doing' \in DOMAIN VerbOf
      BY <3>1, VerbsAre, ClientAssumption
    <3>6. typed' \in 0..MaxLines
      BY <3>2, ClientAssumption DEF TypeInv, ClientTyped
    <3> QED
      BY <3>2, <3>4, <3>5, <3>6 DEF Places, Waits, Ended
  <2>5. CASE DestroyClient
    <3>1. "QUIT" \in Verbs
      BY VerbsAre
    <3>2. Write("QUIT", "", "over") /\ UNCHANGED <<doing, said, typed, eintr, lost, inbox>>
      BY <2>5 DEF DestroyClient
    <3>3. LinkTyped' /\ at' \in {"over", "killed"}
      BY <3>1, <3>2, WriteTyped, Said
    <3> QED
      BY <2>5, <3>2, <3>3 DEF DestroyClient, Places, Ended, TypeInv, ClientTyped
  <2> QED
    BY <2>1, <2>2, <2>3, <2>4, <2>5
<1>3. ClientTyped'
  BY <1>1, <1>2 DEF TypeInv, ClientTyped
<1> QED
  BY <1>1, <1>2, <1>3, ClientActs

LEMMA PlainTyped ==
    ASSUME TypeInv, Cd \/ DisplayNewPath \/ Pwd \/ Quit
    PROVE  TypeInv'
<1>1. /\ UNCHANGED <<doing, typed, stop, sock, opened>>
      /\ UNCHANGED <<serverVars, dataVars>>
  BY DEF Cd, DisplayNewPath, Pwd, Quit
<1>2. /\ at \in {"cwd", "path", "pwd", "bye"}
      /\ at' \in Places \ {"upload"}
      /\ LinkTyped'
      /\ lost' \in BOOLEAN
      /\ eintr' \in BOOLEAN
      /\ said' \in {said, "failed"}
  <2>1. CASE Cd
    <3>1. CASE NoAnswer("cwd", 250) /\ Back("failed")
      BY <3>1, ReadTyped DEF NoAnswer, Back, Places
    <3>2. CASE /\ at = "cwd"
               /\ inbox' = <<>>
               /\ lost' = (Len(inbox) > 1)
               /\ Write("PWD", "", "path")
               /\ UNCHANGED <<said, eintr>>
      <4>1. LinkTyped' /\ at' \in {"path", "killed"}
        BY <3>2, WriteTyped, VerbsAre, Said
      <4>2. lost' \in BOOLEAN
        <5>1. lost' = (Len(inbox) > 1)
          BY <3>2
        <5> QED
          BY <5>1
      <4> QED
        BY <3>2, <4>1, <4>2 DEF TypeInv, ClientTyped, Places, Waits, Ended
    <3> QED
      BY <2>1, <3>1, <3>2 DEF Cd
  <2>2. CASE DisplayNewPath
    BY <2>2, ReadTyped DEF DisplayNewPath, Answer, Places, Ended
  <2>3. CASE Pwd
    BY <2>3, ReadTyped DEF Pwd, Answer, NoAnswer, Back, Places
  <2>4. CASE Quit
    BY <2>4, ReadTyped DEF Quit, Answer, NoAnswer, Back, Places
  <2> QED
    BY <2>1, <2>2, <2>3, <2>4
<1>3. ClientTyped'
  BY <1>1, <1>2 DEF TypeInv, ClientTyped
<1> QED
  BY <1>1, <1>2, <1>3, ClientActs

\* Up to the transfer command.
LEMMA OpenTyped ==
    ASSUME TypeInv, SendPasv \/ Dial
    PROVE  TypeInv'
<1>1. UNCHANGED <<doing, typed, stop, opened>> /\ UNCHANGED <<serverVars, dataVars>>
  BY DEF SendPasv, Dial
<1>2. /\ at' \in Places \ {"upload"}
      /\ LinkTyped'
      /\ lost' \in BOOLEAN
      /\ eintr' \in BOOLEAN
      /\ said' \in {said, "failed"}
      /\ sock' \in {"none", "open"} \/ (sock' = sock /\ at = "dial")
  <2>1. CASE SendPasv
    <3>1. Take("pasv") \/ NoReply("pasv")
      BY <2>1 DEF SendPasv, Answer, NoAnswer
    <3>2. LinkTyped' /\ lost' \in BOOLEAN /\ eintr' \in BOOLEAN
      BY <3>1, ReadTyped
    <3>3. at' \in {"dial", "loop"} /\ said' \in {said, "failed"} /\ sock' = "none"
      BY <2>1 DEF SendPasv, Back
    <3>4. at' \in Places \ {"upload"} /\ sock' \in {"none", "open"}
      BY <3>3 DEF Places
    <3>5. sock' \in {"none", "open"} \/ (sock' = sock /\ at = "dial")
      BY <3>3
    <3> QED
      BY <3>2, <3>3, <3>4, <3>5 
  <2>2. CASE Dial
    <3>1. /\ at = "dial"
          /\ UNCHANGED <<eintr, lost, inbox>>
          /\ \/ /\ Back("failed")
                /\ sock' \in {sock, "open"}
                /\ UNCHANGED <<outbox, link>>
             \/ /\ Write(VerbOf[doing], "", "first")
                /\ sock' = "open"
                /\ UNCHANGED said
      BY <2>2 DEF Dial
    <3>2. VerbOf[doing] \in Verbs
      BY DEF TypeInv, ClientTyped, Verbs, Range
    <3>3. CASE Write(VerbOf[doing], "", "first") /\ sock' = "open" /\ UNCHANGED said
      <4>1. LinkTyped' /\ at' \in {"first", "killed"}
        BY <3>1, <3>2, <3>3, WriteTyped, Said
      <4> QED
        BY <3>1, <3>3, <4>1 DEF TypeInv, ClientTyped, Places, Waits, Ended
    <3>4. CASE Back("failed") /\ sock' \in {sock, "open"} /\ UNCHANGED <<outbox, link>>
      BY <3>1, <3>4 DEF Back, TypeInv, ClientTyped, LinkTyped, Places
    <3> QED
      BY <3>1, <3>3, <3>4
  <2> QED
    BY <2>1, <2>2
<1>3. ClientTyped'
  BY <1>1, <1>2 DEF TypeInv, ClientTyped
<1> QED
  BY <1>1, <1>2, <1>3, ClientActs

LEMMA RepliedTyped ==
    ASSUME TypeInv, First \/ Second
    PROVE  TypeInv'
<1>1. UNCHANGED <<doing, typed, stop, serverVars, pipe, got>>
  BY DEF First, Second
<1>2. at \in {"first", "second"} /\ LinkTyped' /\ lost' \in BOOLEAN /\ eintr' \in BOOLEAN
  BY ReadTyped DEF First, FetchBegins, PutBegins, Second, FetchReceives, PutDone, Answer, NoAnswer
<1>3. /\ at' \in {"second", "upload", "data", "loop"}
      /\ at' = "upload" => doing = "put"
      /\ at' = "data" => doing \in Fetches
      /\ said' \in {said, "failed", "downloaded", "uploaded"}
      /\ opened' \in {opened, TRUE, FALSE}
      /\ sock' = "none" \/ (sock' = sock /\ at' # "loop")
  BY DEF First, FetchBegins, PutBegins, Abandon, Second, FetchReceives, PutDone, PutEnds, Back
<1>4. ClientTyped'
  <2>1. sock' \in {"shut", "reset"} => doing' = "put" /\ at' \in {"upload", "second", "killed"}
    BY <1>1, <1>2, <1>3 DEF TypeInv, ClientTyped, Fetches
  <2>2. at' \in Places
    BY <1>3 DEF Places, Waits
  <2> QED
    BY <1>1, <1>2, <1>3, <2>1, <2>2 DEF TypeInv, ClientTyped
<1>5. rest' \in Data /\ meant' \in Data
  <2>1. \A file \in Files : file \in Data
    BY ClientAssumption, SeqMonotonic DEF Data
  <2> QED
    BY <2>1 DEF First, FetchBegins, PutBegins, Abandon, Second, FetchReceives, PutDone, PutEnds,
                TypeInv, DataTyped
<1> QED
  BY <1>1, <1>2, <1>4, <1>5 DEF TypeInv, ServerTyped, DataTyped, serverVars

\* The data that moves.
LEMMA HeadTyped ==
    ASSUME NEW q \in Data, q # <<>>
    PROVE  Head(q) \in Blocks \cup {"short"} /\ Tail(q) \in Data
  BY HeadTailProperties DEF Data

LEMMA AppendTyped ==
    ASSUME NEW q \in Data, NEW b \in Blocks \cup {"short"}
    PROVE  Append(q, b) \in Data
  BY AppendProperties DEF Data

LEMMA DataStepTyped ==
    ASSUME TypeInv, Upload \/ EndUpload \/ Receive
    PROVE  TypeInv'
<1>1. UNCHANGED <<doing, typed, stop, opened, lost, linkVars, serverVars, meant>>
  BY DEF Upload, EndUpload, Receive, dataVars
<1>2. /\ at' \in Places
      /\ said' \in {said, "listed", "downloaded"}
      /\ eintr' \in {eintr, FALSE}
      /\ sock' \in {"none", "open", "shut", "reset"}
      /\ at' = "upload" => doing = "put"
      /\ sock' \in {"shut", "reset"} => doing = "put" /\ at' \in {"upload", "second", "killed"}
  <2>1. CASE Upload
    BY <2>1 DEF Upload, TypeInv, ClientTyped, Places, Ended
  <2>2. CASE EndUpload
    BY <2>2 DEF EndUpload, TypeInv, ClientTyped, Places, Waits
  <2>3. CASE Receive
    BY <2>3 DEF Receive, Back, TypeInv, ClientTyped, Places
  <2> QED
    BY <2>1, <2>2, <2>3
<1>3. ClientTyped'
  BY <1>1, <1>2 DEF TypeInv, ClientTyped
<1>4. DataTyped'
  <2>1. DataTyped
    BY DEF TypeInv
  <2>2. CASE Upload
    <3>1. rest # <<>> /\ got' = got /\ meant' = meant
      BY <2>2 DEF Upload
    <3>2. pipe' \in {pipe, Append(pipe, Head(rest))} /\ rest' \in {rest, Tail(rest)}
      BY <2>2 DEF Upload
    <3>3. Head(rest) \in Blocks \cup {"short"} /\ Tail(rest) \in Data
      BY <2>1, <3>1, HeadTyped DEF DataTyped
    <3>4. Append(pipe, Head(rest)) \in Data
      BY <2>1, <3>3, AppendTyped DEF DataTyped
    <3> QED
      BY <2>1, <3>1, <3>2, <3>3, <3>4 DEF DataTyped
  <2>3. CASE EndUpload
    BY <2>1, <2>3 DEF EndUpload, DataTyped, dataVars
  <2>4. CASE Receive
    <3>1. CASE pipe # <<>> /\ got' = Append(got, Head(pipe)) /\ pipe' = Tail(pipe)
      <4>1. Head(pipe) \in Blocks \cup {"short"} /\ Tail(pipe) \in Data
        BY <2>1, <3>1, HeadTyped DEF DataTyped
      <4>2. Append(got, Head(pipe)) \in Data
        BY <2>1, <4>1, AppendTyped DEF DataTyped
      <4> QED
        BY <2>1, <2>4, <3>1, <4>1, <4>2 DEF Receive, DataTyped
    <3>2. CASE UNCHANGED <<pipe, got>>
      BY <2>1, <2>4, <3>2 DEF Receive, DataTyped
    <3> QED
      BY <2>4, <3>1, <3>2 DEF Receive
  <2> QED
    BY <2>2, <2>3, <2>4
<1> QED
  BY <1>1, <1>3, <1>4 DEF TypeInv, LinkTyped, ServerTyped, linkVars, serverVars

LEMMA SignalTyped ==
    ASSUME TypeInv, Signal
    PROVE  TypeInv'
<1>1. /\ UNCHANGED <<at, doing, said, typed, sock, opened, lost>>
      /\ UNCHANGED <<linkVars, serverVars, dataVars>>
      /\ stop' = TRUE
  BY DEF Signal
<1>2. eintr' \in BOOLEAN
  BY DEF Signal, Blocked
<1> QED
  BY <1>1, <1>2 DEF TypeInv, ClientTyped, LinkTyped, ServerTyped, DataTyped,
                    linkVars, serverVars, dataVars

LEMMA ServedTyped ==
    ASSUME TypeInv, NEW verb \in Verbs, Serve(verb)
    PROVE  /\ outbox # <<>> /\ Head(outbox) \in Lines /\ Head(outbox).verb = verb
           /\ outbox' \in Seq(Lines)
           /\ Len(outbox') = Len(outbox) - 1
           /\ \A i \in 1..Len(outbox') : outbox'[i] = outbox[i + 1]
  BY HeadTailProperties DEF Serve, TypeInv, LinkTyped

\* The server acts on the connection and what it knows of the client.
LEMMA ServerActs ==
    ASSUME TypeInv, LinkTyped', ServerTyped',
           UNCHANGED <<at, doing, said, typed, stop, eintr, sock, opened, lost, dataVars>>
    PROVE  TypeInv'
  BY DEF TypeInv, ClientTyped, DataTyped, dataVars

LEMMA ServerTypes ==
    ASSUME TypeInv,
           Accept \/ UserCommand \/ PassCommand \/ PlainCommand \/ QuitCommand \/ TransferRefused
    PROVE  TypeInv'
<1>1. UNCHANGED <<at, doing, said, typed, stop, eintr, sock, opened, lost, child, task, dataVars>>
  BY DEF Accept, UserCommand, PassCommand, PlainCommand, QuitCommand, TransferRefused, serverVars
<1>2. CASE Accept
  <2>1. inbox' \in Seq(Replies)
    <3>1. 220 \in 150..599 /\ Says(220, "connect")
      BY <1>2 DEF Accept
    <3> QED
      BY <3>1, SaysTyped
  <2>2. session' = "out" /\ served' \in BOOLEAN /\ UNCHANGED <<outbox, link, ready>>
    BY <1>2 DEF Accept
  <2> QED
    BY <1>1, <2>1, <2>2, ServerActs DEF TypeInv, LinkTyped, ServerTyped
<1>3. ASSUME NEW verb \in Verbs, Serve(verb),
             inbox' = inbox \/ \E code \in 150..599 : Says(code, verb)
      PROVE  inbox' \in Seq(Replies) /\ outbox' \in Seq(Lines)
  <2>1. inbox' \in Seq(Replies)
    BY <1>3, SaysTyped DEF TypeInv, LinkTyped
  <2> QED
    BY <1>3, <2>1, ServedTyped
<1>4. CASE UserCommand
  <2>1. "USER" \in Verbs /\ Serve("USER") /\ (inbox' = inbox \/ Says(331, "USER"))
    BY <1>4, VerbsAre DEF UserCommand, ParserCrash
  <2>2. inbox' \in Seq(Replies) /\ outbox' \in Seq(Lines)
    BY <2>1, <1>3
  <2>3. session' \in {"named", "wrong"} \/ session' = session
    BY <1>4 DEF UserCommand, ParserCrash
  <2>4. UNCHANGED <<served, ready>> /\ link' \in {link, "closed"}
    BY <1>4 DEF UserCommand, ParserCrash
  <2> QED
    BY <1>1, <2>2, <2>3, <2>4, ServerActs DEF TypeInv, LinkTyped, ServerTyped
<1>5. CASE PassCommand
  <2>1. /\ "PASS" \in Verbs /\ Serve("PASS")
        /\ inbox' = inbox \/ Says(230, "PASS") \/ Says(530, "PASS")
    BY <1>5, VerbsAre DEF PassCommand, ParserCrash
  <2>2. inbox' \in Seq(Replies) /\ outbox' \in Seq(Lines)
    BY <2>1, <1>3
  <2>3. session' \in {session, "in", "out"} /\ UNCHANGED <<served, ready>> /\ link' \in {link, "closed"}
    BY <1>5 DEF PassCommand, ParserCrash
  <2> QED
    BY <1>1, <2>2, <2>3, ServerActs DEF TypeInv, LinkTyped, ServerTyped
<1>6. CASE PlainCommand
  <2>1. PICK verb \in {"PASV", "CWD", "PWD"}, code \in {227, 451, 250, 550, 257} :
           Serve(verb) /\ Says(code, verb)
    BY <1>6 DEF PlainCommand
  <2>2. verb \in Verbs /\ code \in 150..599
    BY VerbsAre
  <2>3. inbox' \in Seq(Replies) /\ outbox' \in Seq(Lines)
    BY <2>1, <2>2, <1>3
  <2>4. ready' \in BOOLEAN /\ UNCHANGED <<link, served, session>>
    BY <1>6 DEF PlainCommand, TypeInv, ServerTyped
  <2> QED
    BY <1>1, <2>3, <2>4, ServerActs DEF TypeInv, LinkTyped, ServerTyped
<1>7. CASE QuitCommand
  <2>1. "QUIT" \in Verbs /\ Serve("QUIT") /\ Says(221, "QUIT")
    BY <1>7, VerbsAre DEF QuitCommand
  <2>2. inbox' \in Seq(Replies) /\ outbox' \in Seq(Lines)
    BY <2>1, <1>3
  <2>3. link' = "closed" /\ UNCHANGED <<served, session, ready>>
    BY <1>7 DEF QuitCommand, serverVars
  <2> QED
    BY <1>1, <2>2, <2>3, ServerActs DEF TypeInv, LinkTyped, ServerTyped
<1>8. CASE TransferRefused
  <2>1. PICK verb \in Transfers : Serve(verb) /\ Says(550, verb)
    BY <1>8 DEF TransferRefused
  <2>2. verb \in Verbs
    BY TransfersAre, VerbsAre
  <2>3. inbox' \in Seq(Replies) /\ outbox' \in Seq(Lines)
    BY <2>1, <2>2, <1>3
  <2>4. ready' \in {ready, FALSE} /\ UNCHANGED <<link, served, session>>
    BY <1>8 DEF TransferRefused
  <2> QED
    BY <1>1, <2>3, <2>4, ServerActs DEF TypeInv, LinkTyped, ServerTyped
<1> QED
  BY <1>2, <1>4, <1>5, <1>6, <1>7, <1>8

LEMMA ForkTyped ==
    ASSUME TypeInv, Fork
    PROVE  TypeInv'
<1>1. PICK verb \in Transfers : Serve(verb) /\ task' = verb
                                /\ (UNCHANGED <<rest, meant>>
                                    \/ \E file \in Files : rest' = file /\ meant' = file)
  BY DEF Fork
<1>2. verb \in Verbs
  BY TransfersAre, VerbsAre
<1>3. outbox' \in Seq(Lines)
  BY <1>1, <1>2, ServedTyped
<1>4. UNCHANGED <<at, doing, said, typed, stop, eintr, sock, opened, lost, inbox, link, served,
                  session>>
  BY DEF Fork
<1>5. child' = "start" /\ ready' = FALSE /\ pipe' = <<>> /\ got' = <<>>
  BY DEF Fork
<1>6. DataTyped'
  <2>1. \A file \in Files : file \in Data
    BY ClientAssumption, SeqMonotonic DEF Data
  <2>2. <<>> \in Data
    BY EmptySeq DEF Data
  <2> QED
    BY <1>1, <1>5, <2>1, <2>2 DEF TypeInv, DataTyped
<1>7. LinkTyped' /\ ServerTyped'
  BY <1>1, <1>2, <1>3, <1>4, <1>5 DEF TypeInv, LinkTyped, ServerTyped
<1>8. ClientTyped'
  BY <1>4 DEF TypeInv, ClientTyped
<1> QED
  BY <1>6, <1>7, <1>8 DEF TypeInv

LEMMA StopTyped ==
    ASSUME TypeInv, ServerStops
    PROVE  TypeInv'
<1>1. UNCHANGED <<at, doing, said, typed, stop, eintr, sock, opened, lost, served,
                  session, ready, task, pipe, meant, got>>
  BY DEF ServerStops
<1>2. link' \in {"closed", "reset"} /\ outbox' = <<>>
  BY DEF ServerStops
<1>3. inbox' \in Seq(Replies)
  <2>1. PICK replies \in Hurried :
           inbox' = inbox \o replies \o
                    (IF served THEN <<[code |-> 221, to |-> "stop"]>> ELSE <<>>)
    BY DEF ServerStops
  <2>2. replies \in Seq(Replies)
    <3>1. CASE replies = <<>>
      BY <3>1, EmptySeq
    <3>2. CASE replies # <<>>
      <4>1. outbox # <<>> /\ \E code \in {331, 530} : replies = <<[code |-> code, to |-> Head(outbox).verb]>>
        BY <2>1, <3>2 DEF Hurried
      <4>2. Head(outbox) \in Lines
        BY <4>1, HeadTailProperties DEF TypeInv, LinkTyped
      <4>3. Head(outbox).verb \in Verbs
        BY <4>2 DEF Lines
      <4> QED
        BY <4>1, <4>3 DEF Replies
    <3> QED
      BY <3>1, <3>2
  <2>3. PICK last : last = IF served THEN <<[code |-> 221, to |-> "stop"]>> ELSE <<>>
    OBVIOUS
  <2>4. last \in Seq(Replies)
    <3>1. [code |-> 221, to |-> "stop"] \in Replies
      BY DEF Replies
    <3> QED
      BY <2>3, <3>1, EmptySeq
  <2>5. inbox' = (inbox \o replies) \o last
    BY <2>1, <2>3
  <2>6. inbox \o replies \in Seq(Replies)
    BY <2>2, ConcatProperties DEF TypeInv, LinkTyped
  <2> QED
    BY <2>4, <2>5, <2>6, ConcatProperties
<1>4. child' \in {child, "moving", "moved"} /\ rest' \in Data
  <2>1. rest \in Data
    BY DEF TypeInv, DataTyped
  <2>2. rest # <<>> => Tail(rest) \in Data
    BY <2>1, HeadTyped
  <2>3. Interrupt
    BY DEF ServerStops
  <2>4. ChildBlocked /\ task # "STOR" => rest # <<>>
    BY DEF ChildBlocked
  <2> QED
    BY <2>1, <2>2, <2>3, <2>4 DEF Interrupt
<1>5. LinkTyped'
  BY <1>2, <1>3, EmptySeq DEF LinkTyped
<1>6. ClientTyped' /\ ServerTyped' /\ DataTyped'
  BY <1>1, <1>4 DEF TypeInv, ClientTyped, ServerTyped, DataTyped
<1> QED
  BY <1>5, <1>6 DEF TypeInv

LEMMA ChildTyped ==
    ASSUME TypeInv, ChildStep
    PROVE  TypeInv'
<1>1. UNCHANGED childKeeps
  BY DEF ChildStep, Begin, Fail, WriteData, StoreData, Finish, Exit
<1>2. child' \in {"none", "start", "failing", "moving", "moved", "leaving"}
  BY DEF ChildStep, Begin, Fail, WriteData, StoreData, Finish, Exit, Tells, TypeInv, ServerTyped
<1>3. inbox' \in Seq(Replies)
  <2>1. inbox' = inbox \/ \E code \in {150, 550, 451, 226} : Says(code, task)
    BY DEF ChildStep, Begin, Fail, WriteData, StoreData, Finish, Exit, Tells
  <2>2. task \in Verbs /\ \A code \in {150, 550, 451, 226} : code \in 150..599
    BY DEF TypeInv, ServerTyped
  <2> QED
    BY <2>1, <2>2, SaysTyped DEF TypeInv, LinkTyped
<1>4. DataTyped'
  <2>1. DataTyped
    BY DEF TypeInv
  <2>2. CASE UNCHANGED dataVars
    BY <2>1, <2>2 DEF DataTyped, dataVars
  <2>3. CASE WriteData
    <3>1. rest # <<>> /\ UNCHANGED <<meant, got>>
      BY <2>3 DEF WriteData
    <3>2. /\ rest' \in {rest, Tail(rest)}
          /\ pipe' = pipe \/ pipe' = Append(pipe, Printed(Head(rest)))
      BY <2>3 DEF WriteData
    <3>3. Head(rest) \in Blocks \cup {"short"} /\ Tail(rest) \in Data
      BY <2>1, <3>1, HeadTyped DEF DataTyped
    <3>4. Append(pipe, Printed(Head(rest))) \in Data
      BY <2>1, <3>3, AppendTyped DEF DataTyped, Printed
    <3> QED
      BY <2>1, <3>1, <3>2, <3>3, <3>4 DEF DataTyped
  <2>4. CASE StoreData
    <3>1. pipe # <<>> /\ UNCHANGED <<rest, meant>> /\ got' = Append(got, Head(pipe)) /\ pipe' = Tail(pipe)
      BY <2>4 DEF StoreData
    <3>2. Head(pipe) \in Blocks \cup {"short"} /\ Tail(pipe) \in Data
      BY <2>1, <3>1, HeadTyped DEF DataTyped
    <3>3. Append(got, Head(pipe)) \in Data
      BY <2>1, <3>2, AppendTyped DEF DataTyped
    <3> QED
      BY <2>1, <3>1, <3>2, <3>3 DEF DataTyped
  <2> QED
    BY <2>2, <2>3, <2>4 DEF ChildStep, Begin, Fail, Finish, Exit
<1>5. ClientTyped' /\ LinkTyped' /\ ServerTyped'
  BY <1>1, <1>2, <1>3 DEF TypeInv, ClientTyped, LinkTyped, ServerTyped, childKeeps
<1> QED
  BY <1>4, <1>5 DEF TypeInv

LEMMA TypeNext == TypeInv /\ [Next]_vars => TypeInv'
<1>1. ASSUME TypeInv, UNCHANGED vars
      PROVE  TypeInv'
  BY <1>1 DEF TypeInv, ClientTyped, LinkTyped, ServerTyped, DataTyped, vars
<1>2. ASSUME TypeInv, Next
      PROVE  TypeInv'
  <2>1. CASE UserStep
    BY <1>2, <2>1, LoginTyped, PromptTyped DEF UserStep
  <2>2. CASE ClientStep
    BY <1>2, <2>2, LoginTyped, PromptTyped, PlainTyped, OpenTyped, RepliedTyped, DataStepTyped
       DEF ClientStep
  <2>3. CASE ServerStep
    BY <1>2, <2>3, ServerTypes, ForkTyped DEF ServerStep
  <2> QED
    BY <1>2, <2>1, <2>2, <2>3, ChildTyped, SignalTyped, StopTyped DEF Next
<1> QED
  BY <1>1, <1>2

LEMMA TypeAlways == Spec => []TypeInv
<1> QED
  BY TypeInit, TypeNext, PTL DEF Spec

LEMMA TypeMeans == TypeInv => TypeOK
<1> SUFFICES ASSUME TypeInv
             PROVE  TypeOK
  OBVIOUS
<1>1. {stop, eintr, opened, lost, served, ready} \subseteq BOOLEAN
  BY DEF TypeInv, ClientTyped, ServerTyped
<1>2. {pipe, rest, meant, got} \subseteq Data
  BY DEF TypeInv, DataTyped
<1>3. at \in {"loop", "prompt"} => sock \in {"none", "open"}
  BY DEF TypeInv, ClientTyped
<1> QED
  BY <1>1, <1>2, <1>3 DEF TypeInv, ClientTyped, LinkTyped, ServerTyped, TypeOK, Places, Replies,
                          Lines, Words, Data

(* Types: and a data socket that was shut or reset is never kept beyond the *)
(* upload it was made for.                                                   *)
THEOREM ClientTypeCorrect == Spec => []TypeOK
<1> QED
  BY TypeAlways, TypeMeans, PTL

-----------------------------------------------------------------------------
(* The conversation.  While the server goes on, what is on its way between   *)
(* the two is known from where the client is: one line, or the reply to it,  *)
(* or of a transfer what its child has told so far and the client not read.  *)
(* Where the client has given up on a reply - it was told to stop, and is on *)
(* its way out - nothing is known, and nothing is read any more.             *)

Wanted == VerbOf[doing]

Idle   == child \in {"none", "leaving"}
Acts   == child \in {"failing", "moving", "moved"}
Silent == inbox = <<>> /\ outbox = <<>>
Asks(verb)  == inbox = <<>> /\ Len(outbox) = 1 /\ outbox[1].verb = verb
Hears(verb) == outbox = <<>> /\ Len(inbox) = 1 /\ inbox[1].to = verb

\* The child has told n replies, or the one that follows them as well.
Announced(n) ==
    /\ outbox = <<>>
    /\ child # "start"
    /\ Len(inbox) \in n..(n + 1)
    /\ Acts => task = Wanted /\ Len(inbox) = n
    /\ \A i \in 1..Len(inbox) : inbox[i].to = Wanted

Quiet  == {"username", "password", "prompt", "dial", "data"}
Single == {"user", "pass", "pasv", "cwd", "path", "pwd", "bye"}
Inside == {"prompt", "pasv", "dial", "first", "second", "upload", "data",
           "cwd", "path", "pwd", "bye"}

Resting == at \in Quiet \/ (at \in {"signin", "loop"} /\ ~stop)

\* Nothing is known.
Leaving == at \in {"leave"} \cup Ended \/ (at \in {"signin", "loop"} /\ stop)

Doing ==
    /\ at \in {"pasv", "dial", "first", "second", "upload", "data"} => doing \in {"ls", "get", "put"}
    /\ at = "cwd" => doing = "cd"
    /\ at = "pwd" => doing = "pwd"
    /\ at = "bye" => doing = "quit"
    /\ eintr => stop

Greeting ==
    /\ Idle
    /\ outbox = <<>>
    /\ (session = "new" /\ inbox = <<>>) \/ (session # "new" /\ Hears("connect"))

Opening ==
    \/ Asks(Wanted) /\ Idle
    \/ Silent /\ child = "start" /\ task = Wanted
    \/ Hears(Wanted) /\ inbox[1].code # 150 /\ Idle
    \/ Announced(1) /\ inbox[1].code = 150

Conversation ==
    /\ at = "greeting" => Greeting
    /\ at # "greeting" /\ ~Leaving => session # "new"
    /\ at \in Single => Idle /\ (Asks(Awaited) \/ Hears(Awaited))
    /\ Resting => Idle /\ Silent
    /\ at = "first" => Opening
    /\ at \in {"second", "upload"} => Announced(0)

Login ==
    /\ at \in Inside \/ (at = "loop" /\ ~stop) => session = "in"
    /\ at = "pass" /\ Len(inbox) = 1 /\ inbox[1].code = 230 => session = "in"
    /\ at = "pasv" /\ Len(inbox) = 1 /\ inbox[1].code = 227 => ready
    /\ at = "dial" => ready

\* Behind a line that was not answered only the QUIT of destroy_client follows.
Trailing == \A i \in 2..Len(outbox) : outbox[i].verb = "QUIT"

Kept == \A i \in 1..Len(outbox) :
            /\ outbox[i].verb \notin {"USER", "PASS", "QUIT"} => session = "in"
            /\ outbox[i].verb \in Transfers => ready

Matched ==
    /\ Doing
    /\ Trailing
    /\ Kept
    /\ link = "up" => Conversation /\ Login

LEMMA MatchedInit == Init => Matched
  BY DEF Init, Matched, Doing, Trailing, Kept, Conversation, Login, Greeting, Idle, Single,
         Resting, Quiet, Inside

\* What is awaited at each place.
LEMMA AwaitedIs ==
    ASSUME Doing
    PROVE  /\ at = "greeting" => Awaited = "connect"
           /\ at = "user" => Awaited = "USER"
           /\ at = "pass" => Awaited = "PASS"
           /\ at = "pasv" => Awaited = "PASV"
           /\ at = "cwd" => Awaited = "CWD"
           /\ at \in {"path", "pwd"} => Awaited = "PWD"
           /\ at = "bye" => Awaited = "QUIT"
           /\ at \in {"first", "second"} => Awaited = Wanted
           /\ at \in {"dial", "first", "second", "upload"} => Wanted \in {"LIST", "RETR", "STOR"}
  BY VerbsAre DEF Doing, Awaited, Wanted

LEMMA NextAwaited ==
    ASSUME Doing'
    PROVE  /\ at' = "user" => Awaited' = "USER"
           /\ at' = "pass" => Awaited' = "PASS"
           /\ at' = "pasv" => Awaited' = "PASV"
           /\ at' = "cwd" => Awaited' = "CWD"
           /\ at' \in {"path", "pwd"} => Awaited' = "PWD"
           /\ at' = "bye" => Awaited' = "QUIT"
  BY VerbsAre DEF Doing, Awaited

(* The client counts its replies right: a reply it reads is one to the      *)
(* command it waits for, and at the prompt none is left over (RepliesMatched).*)
LEMMA MatchedMeans ==
    ASSUME TypeInv, Matched
    PROVE  RepliesMatched /\ KeepsOrder
<1>1. ASSUME link = "up"
      PROVE  /\ at \in Waits /\ inbox # <<>> => Head(inbox).to = Awaited
             /\ at = "prompt" => inbox = <<>>
  <2>1. Conversation /\ Doing
    BY <1>1 DEF Matched
  <2>2. inbox \in Seq(Replies)
    BY DEF TypeInv, LinkTyped
  <2>3. CASE at \in Single \cup {"greeting"}
    BY <2>1, <2>2, <2>3, AwaitedIs DEF Conversation, Greeting, Asks, Hears, Single
  <2>4. CASE at \in {"first", "second"}
    BY <2>1, <2>2, <2>4, AwaitedIs
       DEF Conversation, Opening, Asks, Hears, Silent, Announced
  <2>5. CASE at = "prompt"
    BY <2>1, <2>5 DEF Conversation, Resting, Quiet, Silent, Waits
  <2> QED
    BY <2>3, <2>4, <2>5 DEF Waits, Single
<1>2. KeepsOrder
  <2>1. \A line \in Range(outbox) : \E i \in 1..Len(outbox) : line = outbox[i]
    BY DEF Range, TypeInv, LinkTyped
  <2> QED
    BY <2>1 DEF Matched, Kept, KeepsOrder
<1> QED
  BY <1>1, <1>2 DEF RepliesMatched

-----------------------------------------------------------------------------
(* Steps of the client.                                                      *)

\* The place decides what has to be shown.
LEMMA LeavingTells ==
    ASSUME Leaving'
    PROVE  Conversation' /\ Login'
  BY DEF Leaving, Conversation, Login, Ended, Single, Resting, Quiet, Inside

LEMMA RestingTells ==
    ASSUME at' \in Quiet \cup {"signin", "loop"}, session' # "new", Idle', Silent',
           at' \in Inside \cup {"loop"} => session' = "in", at' = "dial" => ready'
    PROVE  Conversation' /\ Login'
  BY DEF Quiet, Leaving, Conversation, Login, Ended, Single, Resting, Inside, Silent

LEMMA AsksTells ==
    ASSUME at' \in Single, session' # "new", Idle', Asks(Awaited)',
           at' \in Inside => session' = "in"
    PROVE  Conversation' /\ Login'
  BY DEF Quiet, Leaving, Conversation, Login, Ended, Single, Resting, Inside, Asks

\* A line is appended, or completes the one before it.
LEMMA SentIs ==
    ASSUME LinkTyped, NEW line \in Lines, NEW n \in Nat, n = Len(outbox)
    PROVE  \/ /\ Len(Sent(line)) = n /\ n > 0
              /\ \A i \in 1..n : Sent(line)[i].verb = outbox[i].verb
           \/ /\ Len(Sent(line)) = n + 1
              /\ \A i \in 1..n : Sent(line)[i] = outbox[i]
              /\ Sent(line)[n + 1] = line
<1>1. PICK q \in Seq(Lines) : q = outbox
  BY DEF LinkTyped
<1>2. CASE n > 0 /\ q[n].cut
  <2>1. PICK m : m = [q[n] EXCEPT !.arg = "junk", !.cut = line.cut]
    OBVIOUS
  <2>2. n \in 1..Len(q) /\ q[n] \in Lines
    BY <1>1, <1>2
  <2>3. m.verb = q[n].verb
    BY <2>1, <2>2 DEF Lines
  <2>4. PICK r : r = [q EXCEPT ![n] = m]
    OBVIOUS
  <2>5. Len(r) = n /\ \A i \in 1..n : r[i].verb = q[i].verb
    BY <1>1, <2>2, <2>3, <2>4
  <2>6. Sent(line) = r
    BY <1>1, <1>2, <2>1, <2>4 DEF Sent
  <2> QED
    BY <1>1, <1>2, <2>5, <2>6
<1>3. CASE ~(n > 0 /\ q[n].cut)
  <2>1. Sent(line) = Append(q, line)
    BY <1>1, <1>3 DEF Sent
  <2> QED
    BY <1>1, <2>1, AppendProperties
<1> QED
  BY <1>2, <1>3

\* Lines written.
LEMMA WriteKeeps ==
    ASSUME TypeInv, Trailing, Kept, NEW verb \in Verbs, NEW arg \in Words, NEW next,
           Write(verb, arg, next), UNCHANGED <<session, ready>>,
           link = "up" => \/ verb = "QUIT"
                          \/ /\ outbox = <<>>
                             /\ verb \notin {"USER", "PASS"} => session = "in"
                             /\ verb \in Transfers => ready
    PROVE  /\ Trailing' /\ Kept'
           /\ link = "up" => link' = "up" /\ at' = next
           /\ link # "up" => link' # "up"
           /\ link = "up" /\ outbox = <<>> => Len(outbox') = 1 /\ outbox'[1].verb = verb
<1>1. PICK line : line = Line(verb, arg)
  OBVIOUS
<1>2. line \in Lines /\ line.verb = verb
  BY <1>1 DEF Line, Lines
<1>3. CASE outbox' = outbox /\ link # "up"
  BY <1>3 DEF Write, Trailing, Kept, Eof
<1>4. CASE link = "up"
  <2>1. outbox' = Sent(line) /\ link' = "up" /\ at' = next
    BY <1>1, <1>4 DEF Write, Eof
  <2>2. PICK n \in Nat : n = Len(outbox) /\ (n = 0 <=> outbox = <<>>)
    BY EmptySeq DEF TypeInv, LinkTyped
  <2>3. verb = "QUIT" \/ (n = 0 /\ (verb \notin {"USER", "PASS"} => session = "in")
                          /\ (verb \in Transfers => ready))
    BY <1>4, <2>2
  <2>4. CASE /\ Len(Sent(line)) = n /\ n > 0
             /\ \A i \in 1..n : Sent(line)[i].verb = outbox[i].verb
    <3>1. Len(outbox') = n /\ n > 0 /\ \A i \in 1..n : outbox'[i].verb = outbox[i].verb
      BY <2>1, <2>4
    <3>2. Trailing'
      BY <2>2, <3>1 DEF Trailing
    <3>3. Kept'
      BY <2>2, <3>1 DEF Kept
    <3> QED
      BY <1>4, <2>1, <2>2, <3>1, <3>2, <3>3
  <2>5. CASE /\ Len(Sent(line)) = n + 1
             /\ \A i \in 1..n : Sent(line)[i] = outbox[i]
             /\ Sent(line)[n + 1] = line
    <3>1. /\ Len(outbox') = n + 1
          /\ \A i \in 1..n : outbox'[i].verb = outbox[i].verb
          /\ outbox'[n + 1].verb = verb
      BY <1>2, <2>1, <2>5
    <3>2. Trailing'
      BY <2>2, <2>3, <3>1 DEF Trailing
    <3>3. Kept'
      BY <2>2, <2>3, <3>1, TransfersAre DEF Kept
    <3> QED
      BY <1>4, <2>1, <2>2, <3>1, <3>2, <3>3
  <2> QED
    BY <1>2, <2>2, <2>4, <2>5, SentIs DEF TypeInv
<1> QED
  BY <1>3, <1>4 DEF Write

\* A reply read.
LEMMA TakeKnows ==
    ASSUME TypeInv, Matched, link = "up", NEW p, Take(p), p \in Waits
    PROVE  /\ inbox' = <<>> /\ outbox' = <<>> /\ link' = "up"
           /\ outbox = <<>>
           /\ session # "new"
           /\ p = "first" /\ Head(inbox).code = 150 => child # "start" /\ (Acts => task = Wanted)
           /\ p = "first" /\ Head(inbox).code # 150 => Idle
           /\ p # "first" => Idle
           /\ p \in Inside => session = "in"
           /\ p = "pass" /\ Head(inbox).code = 230 => session = "in"
           /\ p = "pasv" /\ Head(inbox).code = 227 => ready
<1>1. at = p /\ inbox # <<>> /\ inbox' = <<>> /\ outbox' = outbox /\ link' = link
  BY DEF Take
<1>2. inbox \in Seq(Replies)
  BY DEF TypeInv, LinkTyped
<1>3. Conversation /\ Login
  BY DEF Matched
<1>4. session # "new"
  BY <1>1, <1>3 DEF Conversation, Greeting, Leaving, Waits, Ended
<1>5. CASE p \in Single \cup {"greeting"}
  BY <1>1, <1>2, <1>3, <1>4, <1>5 DEF Conversation, Greeting, Login, Single, Asks, Hears, Inside
<1>6. CASE p = "first"
  BY <1>1, <1>2, <1>3, <1>4, <1>6
     DEF Conversation, Opening, Login, Asks, Hears, Silent, Announced, Inside
<1>7. CASE p = "second"
  <2>1. Announced(0)
    BY <1>1, <1>3, <1>7 DEF Conversation
  <2>2. Len(inbox) # 0
    BY <1>1, <1>2
  <2>3. Idle
    BY <2>1, <2>2 DEF Announced, Acts, Idle, TypeInv, ServerTyped
  <2> QED
    BY <1>1, <1>3, <1>4, <1>7, <2>1, <2>3 DEF Announced, Login, Inside
<1> QED
  BY <1>5, <1>6, <1>7 DEF Waits, Single

\* No reply is read while the server goes on: the client was told to stop.
LEMMA NoReplyKnows ==
    ASSUME Matched, link = "up", NEW p, NoReply(p)
    PROVE  stop
  BY DEF NoReply, Eof, Matched, Doing

\* What the lines need is not touched.
LEMMA LinesKept ==
    ASSUME Matched, UNCHANGED <<outbox, session, ready>>
    PROVE  Trailing' /\ Kept'
  BY DEF Matched, Trailing, Kept

LEMMA TakeLines ==
    ASSUME Matched, NEW p, Take(p) \/ NoReply(p), UNCHANGED serverVars
    PROVE  Trailing' /\ Kept'
  BY LinesKept DEF Take, NoReply, linkVars, serverVars

\* A step that reads a reply, or gives up on it, and writes nothing.
LEMMA ReadStep ==
    ASSUME TypeInv, Matched, Doing', UNCHANGED <<stop, serverVars>>, NEW p \in Waits,
           \/ /\ Take(p)
              /\ at' \in Quiet \cup {"signin", "loop", "leave", "crashed"}
              /\ p = "first" => Head(inbox).code # 150
              /\ at' \in Inside \cup {"loop"} =>
                    p \in Inside \/ (p = "pass" /\ Head(inbox).code = 230)
              /\ at' = "dial" => p = "pasv" /\ Head(inbox).code = 227
           \/ /\ NoReply(p)
              /\ at' \in {"signin", "loop", "leave", "crashed"}
    PROVE  Matched'
<1>1. Trailing' /\ Kept'
  BY TakeLines
<1>2. link' = link
  BY DEF Take, NoReply, linkVars
<1>3. UNCHANGED <<stop, session, ready, child>>
  BY DEF serverVars
<1>4. ~(Take(p) /\ NoReply(p))
  BY DEF Take, NoReply
<1>5. ASSUME link = "up"
      PROVE  Conversation' /\ Login'
  <2>1. CASE NoReply(p)
    <3>1. stop'
      BY <1>3, <1>5, <2>1, NoReplyKnows
    <3>2. at' \in {"signin", "loop", "leave", "crashed"}
      BY <1>4, <2>1
    <3> QED
      BY <3>1, <3>2, LeavingTells DEF Leaving, Ended
  <2>2. CASE Take(p) /\ at' \in {"leave", "crashed"}
    BY <2>2, LeavingTells DEF Leaving, Ended
  <2>3. CASE Take(p) /\ at' \notin {"leave", "crashed"}
    <3>1. /\ at' \in Quiet \cup {"signin", "loop"}
          /\ p = "first" => Head(inbox).code # 150
          /\ at' \in Inside \cup {"loop"} =>
                    p \in Inside \/ (p = "pass" /\ Head(inbox).code = 230)
          /\ at' = "dial" => p = "pasv" /\ Head(inbox).code = 227
      BY <1>4, <2>3
    <3> QED
      BY <1>3, <1>5, <2>3, <3>1, TakeKnows, RestingTells DEF Silent, Idle
  <2> QED
    BY <2>1, <2>2, <2>3
<1> QED
  BY <1>1, <1>2, <1>5 DEF Matched

LEMMA LoginReads ==
    ASSUME TypeInv, Matched, Greeted \/ SendUser \/ SendPass
    PROVE  Matched'
<1>1. UNCHANGED <<stop, serverVars>>
  BY DEF Greeted, SendUser, SendPass
<1>2. Doing'
  BY DEF Greeted, SendUser, SendPass, Answer, NoAnswer, Take, NoReply, Matched, Doing
<1>3. CASE Greeted
  BY <1>1, <1>2, <1>3, ReadStep DEF Greeted, Waits, Quiet, Inside
<1>4. CASE SendUser
  BY <1>1, <1>2, <1>4, ReadStep DEF SendUser, Answer, NoAnswer, Waits, Quiet, Inside
<1>5. CASE SendPass
  BY <1>1, <1>2, <1>5, ReadStep DEF SendPass, Answer, NoAnswer, Waits, Quiet, Inside
<1> QED
  BY <1>3, <1>4, <1>5

LEMMA CommandReads ==
    ASSUME TypeInv, Matched, DisplayNewPath \/ Pwd \/ Quit \/ SendPasv
    PROVE  Matched'
<1>1. UNCHANGED <<stop, serverVars>>
  BY DEF DisplayNewPath, Pwd, Quit, SendPasv
<1>2. Doing'
  BY DEF DisplayNewPath, Pwd, Quit, SendPasv, Answer, NoAnswer, Take, NoReply, Matched, Doing, Back
<1>3. CASE DisplayNewPath
  BY <1>1, <1>2, <1>3, ReadStep DEF DisplayNewPath, Answer, Waits, Quiet, Inside
<1>4. CASE Pwd
  BY <1>1, <1>2, <1>4, ReadStep DEF Pwd, Answer, NoAnswer, Waits, Quiet, Inside, Back
<1>5. CASE Quit
  BY <1>1, <1>2, <1>5, ReadStep DEF Quit, Answer, NoAnswer, Waits, Quiet, Inside, Back
<1>6. CASE SendPasv
  BY <1>1, <1>2, <1>6, ReadStep DEF SendPasv, Answer, NoAnswer, Waits, Quiet, Inside, Back
<1> QED
  BY <1>3, <1>4, <1>5, <1>6

LEMMA TransferReads ==
    ASSUME TypeInv, Matched, First \/ Second
    PROVE  Matched'
<1>1. UNCHANGED <<stop, serverVars>>
  BY DEF First, Second
<1>2. Doing'
  BY DEF First, FetchBegins, PutBegins, Abandon, Second, FetchReceives, PutDone, PutEnds,
         Answer, NoAnswer, Take, NoReply, Matched, Doing, Back
<1>3. CASE First /\ NoAnswer("first", 150) /\ Abandon
  BY <1>1, <1>2, <1>3, ReadStep DEF Abandon, NoAnswer, Waits, Quiet, Inside, Back
<1>4. CASE First /\ Answer("first", 150) /\ at' \in {"second", "upload"}
  <2>1. Trailing' /\ Kept'
    BY <1>1, <1>4, TakeLines DEF Answer
  <2>2. link' = link
    BY <1>4 DEF Answer, Take
  <2>3. ASSUME link = "up"
        PROVE  Conversation' /\ Login'
    <3>1. /\ inbox' = <<>> /\ outbox' = <<>>
          /\ child # "start" /\ (Acts => task = Wanted)
          /\ session # "new" /\ session = "in"
      BY <1>4, <2>3, TakeKnows DEF Answer, Waits, Inside
    <3>2. UNCHANGED <<child, task, session, doing>>
      BY <1>1, <1>4 DEF serverVars, First
    <3>3. Announced(0)'
      <4>1. Len(inbox') = 0
        BY <3>1
      <4> QED
        BY <3>1, <3>2, <4>1 DEF Announced, Acts, Wanted
    <3> QED
      BY <1>4, <3>1, <3>2, <3>3
         DEF Conversation, Login, Leaving, Ended, Single, Resting, Quiet, Inside
  <2> QED
    BY <1>2, <2>1, <2>2, <2>3 DEF Matched
<1>5. CASE Second
  <2>1. CASE FetchReceives
    BY <1>1, <1>2, <2>1, ReadStep DEF FetchReceives, Answer, Waits, Quiet, Inside, Back
  <2>2. CASE PutDone
    BY <1>1, <1>2, <2>2, ReadStep DEF PutDone, PutEnds, Answer, Waits, Quiet, Inside, Back
  <2>3. CASE NoAnswer("second", 226) /\ Abandon
    BY <1>1, <1>2, <2>3, ReadStep DEF NoAnswer, Abandon, Waits, Quiet, Inside, Back
  <2> QED
    BY <1>5, <2>1, <2>2, <2>3 DEF Second
<1> QED
  BY <1>3, <1>4, <1>5 DEF First, FetchBegins, PutBegins

(* Steps that neither read nor write.                                        *)
LEMMA SilentSteps ==
    ASSUME TypeInv, Matched,
           SignIn \/ TestStop \/ Leave \/ NotSent \/ Upload \/ EndUpload \/ Receive
           \/ (GetUsername /\ NoInput("username")) \/ (GetPassword /\ NoInput("password"))
    PROVE  Matched'
<1>1. UNCHANGED <<linkVars, serverVars, stop, doing>>
  BY DEF SignIn, TestStop, Leave, NotSent, NoInput, Input, Upload, EndUpload, Receive,
         GetUsername, GetPassword, linkVars
<1>2. Doing'
  BY DEF SignIn, TestStop, Leave, NotSent, NoInput, Input, Upload, EndUpload, Receive, Back,
         GetUsername, GetPassword, Matched, Doing, Ended
<1>3. Trailing' /\ Kept'
  BY <1>1, LinesKept DEF linkVars, serverVars
<1>4. UNCHANGED <<inbox, outbox, link, session, ready, child, task>>
  BY <1>1 DEF linkVars, serverVars
<1>5. ASSUME link = "up"
      PROVE  Conversation' /\ Login'
  <2>1. Conversation /\ Login
    BY <1>5 DEF Matched
  <2>2. CASE at' \in {"leave", "crashed", "killed"}
    BY <2>2, LeavingTells DEF Leaving, Ended
  <2>3. CASE /\ at \in Quiet \cup {"signin", "loop"} /\ (at \in {"signin", "loop"} => ~stop)
             /\ at' \in {"username", "prompt", "loop", "data"}
             /\ at' \in {"prompt", "loop", "data"} => at \in Inside \cup {"loop"}
    <3>1. session # "new" /\ Idle /\ Silent /\ (at \in Inside \cup {"loop"} => session = "in")
      BY <2>1, <2>3 DEF Conversation, Login, Resting, Leaving, Ended, Quiet
    <3>2. Silent' /\ Idle'
      BY <1>4, <3>1 DEF Silent, Idle
    <3> QED
      BY <1>4, <2>3, <3>1, <3>2, RestingTells DEF Quiet, Inside
  <2>4. CASE at = "upload" /\ at' \in {"upload", "second"}
    <3>1. Announced(0) /\ session = "in"
      BY <2>1, <2>4 DEF Conversation, Login, Inside
    <3>2. Announced(0)'
      BY <1>1, <1>4, <3>1 DEF Announced, Acts, Wanted
    <3> QED
      BY <1>4, <2>4, <3>1, <3>2
         DEF Conversation, Login, Leaving, Ended, Single, Resting, Quiet, Inside
  <2> QED
    BY <2>2, <2>3, <2>4 DEF SignIn, TestStop, Leave, NotSent, NoInput, Input, Upload, EndUpload,
       Receive, Back, GetUsername, GetPassword, Quiet, Inside
<1> QED
  BY <1>2, <1>3, <1>4, <1>5 DEF Matched

\* A line to which an answer will come.
LEMMA AskStep ==
    ASSUME TypeInv, Matched, Doing', UNCHANGED <<stop, serverVars>>,
           NEW verb \in Verbs, NEW next \in Single, Write(verb, "", next) \/
                  \E arg \in Typing : Write(verb, arg, next),
           link = "up" => /\ outbox = <<>> /\ inbox' = <<>> /\ Idle /\ session # "new"
                          /\ next \in Inside => session = "in"
                          /\ verb \notin {"USER", "PASS"} => session = "in"
                          /\ verb \notin Transfers,
           link = "up" /\ at' = next => Awaited' = verb
    PROVE  Matched'
<1>1. PICK arg \in Words : Write(verb, arg, next)
  BY Said
<1>2. UNCHANGED <<session, ready, child>>
  BY DEF serverVars
<1>3. /\ Trailing' /\ Kept'
      /\ link = "up" => link' = "up" /\ at' = next
      /\ link # "up" => link' # "up"
      /\ link = "up" /\ outbox = <<>> => Len(outbox') = 1 /\ outbox'[1].verb = verb
  BY <1>1, <1>2, WriteKeeps DEF Matched
<1>4. ASSUME link = "up"
      PROVE  Conversation' /\ Login'
  <2>1. at' = next /\ Asks(Awaited)'
    BY <1>3, <1>4 DEF Asks
  <2>2. session' # "new" /\ Idle' /\ (at' \in Inside => session' = "in")
    BY <1>2, <1>4, <2>1 DEF Idle
  <2> QED
    BY <2>1, <2>2, AsksTells
<1> QED
  BY <1>3, <1>4 DEF Matched

LEMMA LoginWrites ==
    ASSUME TypeInv, Matched,
           \/ GetUsername /\ ~NoInput("username")
           \/ GetPassword /\ ~NoInput("password")
    PROVE  Matched'
<1>1. UNCHANGED <<stop, doing, inbox, eintr>> /\ UNCHANGED <<stop, serverVars>>
  BY DEF GetUsername, GetPassword, Input
<1>2. \/ /\ at = "username" /\ at' \in {"user", "killed"}
         /\ \E arg \in Typing : Write("USER", arg, "user")
      \/ /\ at = "password" /\ at' \in {"pass", "killed"}
         /\ \E arg \in Typing : Write("PASS", arg, "pass")
  BY DEF GetUsername, GetPassword, Input, Write
<1>3. Doing'
  BY <1>1, <1>2 DEF Matched, Doing
<1>4. link = "up" => Conversation
  BY DEF Matched
<1>5. link = "up" => /\ outbox = <<>> /\ inbox' = <<>> /\ Idle /\ session # "new"
  BY <1>1, <1>2, <1>4 DEF Conversation, Resting, Leaving, Silent, Quiet, Ended
<1>6. CASE at = "username"
  BY <1>1, <1>2, <1>3, <1>5, <1>6, AskStep, NextAwaited, VerbsAre, TransfersAre DEF Single, Inside
<1>7. CASE at = "password"
  BY <1>1, <1>2, <1>3, <1>5, <1>7, AskStep, NextAwaited, VerbsAre, TransfersAre DEF Single, Inside
<1> QED
  BY <1>2, <1>6, <1>7

LEMMA CommandWrites ==
    ASSUME TypeInv, Matched, Execute
    PROVE  Matched'
<1>1. at = "prompt" /\ UNCHANGED <<stop, eintr, inbox>> /\ UNCHANGED <<stop, serverVars>>
  BY DEF Execute, Input
<1>2. link = "up" => Conversation /\ Login
  BY DEF Matched
<1>3. link = "up" => /\ outbox = <<>> /\ inbox' = <<>> /\ Idle /\ session # "new"
                     /\ session = "in"
  BY <1>1, <1>2 DEF Conversation, Login, Resting, Leaving, Silent, Quiet, Ended, Inside
<1>4. PICK verb, next :
         /\ Write(verb, "", next)
         /\ \/ verb = "PASV" /\ next = "pasv" /\ doing' \in {"ls", "get", "put"}
            \/ verb = "CWD" /\ next = "cwd" /\ doing' = "cd"
            \/ verb = "PWD" /\ next = "pwd" /\ doing' = "pwd"
            \/ verb = "QUIT" /\ next = "bye" /\ doing' = "quit"
  BY DEF Execute
<1>5. at' \in {next, "killed"}
  BY <1>4 DEF Write
<1>6. Doing'
  <2>1. \/ at' = "killed"
        \/ at' = "pasv" /\ doing' \in {"ls", "get", "put"}
        \/ at' = "cwd" /\ doing' = "cd"
        \/ at' = "pwd" /\ doing' = "pwd"
        \/ at' = "bye" /\ doing' = "quit"
    BY <1>4, <1>5
  <2>2. eintr' => stop'
    BY <1>1 DEF Matched, Doing
  <2> QED
    BY <2>1, <2>2 DEF Doing
<1>7. verb \in Verbs /\ next \in Single /\ verb \notin Transfers
  BY <1>4, VerbsAre, TransfersAre DEF Single
<1>8. at' = next => Awaited' = verb
  BY <1>4, <1>6, NextAwaited
<1> QED
  BY <1>1, <1>3, <1>4, <1>6, <1>7, <1>8, AskStep

LEMMA CdMatched ==
    ASSUME TypeInv, Matched, Cd
    PROVE  Matched'
<1>1. UNCHANGED <<doing, stop, serverVars>> /\ UNCHANGED <<stop, serverVars>>
  BY DEF Cd
<1>2. CASE NoAnswer("cwd", 250) /\ Back("failed")
  <2>1. Doing'
    BY <1>1, <1>2 DEF NoAnswer, Take, NoReply, Matched, Doing, Back
  <2> QED
    BY <1>1, <1>2, <2>1, ReadStep DEF NoAnswer, Waits, Quiet, Inside, Back
<1>3. CASE /\ at = "cwd" /\ ~eintr /\ inbox # <<>>
           /\ inbox' = <<>>
           /\ Write("PWD", "", "path")
           /\ UNCHANGED eintr
  <2>1. at' \in {"path", "killed"}
    BY <1>3 DEF Write
  <2>2. Doing'
    BY <1>1, <1>3, <2>1 DEF Matched, Doing
  <2>3. link = "up" => /\ outbox = <<>> /\ Idle /\ session # "new" /\ session = "in"
    BY <1>3 DEF Matched, Conversation, Login, Leaving, Ended, Single, Inside, Asks, Hears
  <2> QED
    BY <1>1, <1>3, <2>1, <2>2, <2>3, AskStep, NextAwaited, VerbsAre, TransfersAre DEF Single
<1> QED
  BY <1>2, <1>3 DEF Cd

LEMMA DialMatched ==
    ASSUME TypeInv, Matched, Dial
    PROVE  Matched'
<1>1. at = "dial" /\ UNCHANGED <<doing, stop, eintr, inbox>> /\ UNCHANGED <<stop, serverVars>>
  BY DEF Dial
<1>2. UNCHANGED <<session, ready, child, task>>
  BY <1>1 DEF serverVars
<1>3. at' \in {"loop", "first", "killed"}
  BY DEF Dial, Back, Write
<1>4. Doing'
  BY <1>1, <1>3 DEF Matched, Doing
<1>5. ASSUME link = "up"
      PROVE  Silent /\ Idle /\ session # "new" /\ session = "in" /\ ready
  BY <1>1, <1>5 DEF Matched, Conversation, Login, Resting, Quiet, Inside, Leaving, Ended
<1>6. CASE at' = "loop" /\ UNCHANGED <<outbox, link>>
  <2>1. Trailing' /\ Kept'
    BY <1>2, <1>6, LinesKept
  <2>2. ASSUME link = "up"
        PROVE  Conversation' /\ Login'
    <3>1. Silent' /\ Idle'
      BY <1>1, <1>2, <1>5, <1>6, <2>2 DEF Silent, Idle
    <3> QED
      BY <1>2, <1>5, <1>6, <2>2, <3>1, RestingTells DEF Quiet
  <2> QED
    BY <1>4, <1>6, <2>1, <2>2 DEF Matched
<1>7. CASE Write(Wanted, "", "first") /\ link = "up"
  <2>1. Wanted \in Verbs
    BY DEF Wanted, Verbs, Range, TypeInv, ClientTyped
  <2>2. outbox = <<>> /\ inbox' = <<>>
    BY <1>1, <1>5, <1>7 DEF Silent
  <2>3. /\ Trailing' /\ Kept'
        /\ at' = "first"
        /\ Len(outbox') = 1 /\ outbox'[1].verb = Wanted
    BY <1>2, <1>5, <1>7, <2>1, <2>2, Said, WriteKeeps DEF Matched
  <2>4. Opening'
    BY <1>1, <1>2, <1>5, <1>7, <2>2, <2>3 DEF Opening, Asks, Idle, Wanted
  <2>5. Conversation' /\ Login'
    BY <1>2, <1>5, <1>7, <2>3, <2>4
       DEF Conversation, Login, Leaving, Ended, Single, Resting, Quiet, Inside
  <2> QED
    BY <1>4, <2>3, <2>5 DEF Matched
<1> QED
  BY <1>6, <1>7 DEF Dial, Back, Wanted

LEMMA ByeMatched ==
    ASSUME TypeInv, Matched, DestroyClient
    PROVE  Matched'
<1>1. at' \in {"over", "killed"} /\ UNCHANGED <<doing, stop, eintr, session, ready>>
  BY DEF DestroyClient, Write, serverVars
<1>2. Trailing' /\ Kept'
  BY <1>1, WriteKeeps, VerbsAre, Said DEF DestroyClient, Matched
<1>3. Doing'
  BY <1>1 DEF Matched, Doing
<1>4. Conversation' /\ Login'
  BY <1>1, LeavingTells DEF Leaving, Ended
<1> QED
  BY <1>2, <1>3, <1>4 DEF Matched

LEMMA SignalMatched ==
    ASSUME TypeInv, Matched, Signal
    PROVE  Matched'
<1>1. UNCHANGED <<at, doing, inbox, outbox, link, session, ready, child, task>> /\ stop'
  BY DEF Signal, linkVars, serverVars
<1>2. Trailing' /\ Kept'
  BY <1>1, LinesKept
<1>3. Doing'
  BY <1>1 DEF Matched, Doing
<1>4. ASSUME link = "up"
      PROVE  Conversation' /\ Login'
  <2>1. Conversation /\ Login
    BY <1>4 DEF Matched
  <2>2. Awaited' = Awaited /\ Wanted' = Wanted
    BY <1>1 DEF Awaited, Wanted
  <2>3. Login'
    BY <1>1, <2>1 DEF Login
  <2>4. Conversation'
    <3>1. /\ Greeting => Greeting'
          /\ Opening => Opening'
          /\ Announced(0) => Announced(0)'
          /\ Idle /\ (Asks(Awaited) \/ Hears(Awaited)) => Idle' /\ (Asks(Awaited) \/ Hears(Awaited))'
          /\ Idle /\ Silent => Idle' /\ Silent'
      BY <1>1, <2>2 DEF Greeting, Opening, Announced, Idle, Asks, Hears, Silent, Acts
    <3>2. ~Leaving' => ~Leaving
      BY <1>1 DEF Leaving
    <3>3. Resting' => Resting
      BY <1>1 DEF Resting
    <3> QED
      BY <1>1, <2>1, <3>1, <3>2, <3>3 DEF Conversation
  <2> QED
    BY <2>3, <2>4
<1> QED
  BY <1>1, <1>2, <1>3, <1>4 DEF Matched

-----------------------------------------------------------------------------
(* Steps of the server and of its child.                                     *)

\* The client is not touched.
LEMMA DoingKept ==
    ASSUME Matched, UNCHANGED <<at, doing, stop, eintr>>
    PROVE  Doing' /\ Awaited' = Awaited /\ Wanted' = Wanted
  BY DEF Matched, Doing, Awaited, Wanted

\* A line the server takes is the one the client waits for the answer to, unless
\* the client is leaving; then only a QUIT can be behind it.
LEMMA ServeKnows ==
    ASSUME TypeInv, Matched, NEW verb \in Verbs, Serve(verb)
    PROVE  /\ link = "up"
           /\ \/ Leaving
              \/ at \in Single /\ verb = Awaited
              \/ at = "first" /\ verb = Wanted
           /\ ~Leaving => /\ outbox' = <<>> /\ inbox = <<>> /\ Idle /\ session # "new"
                          /\ session = "in" \/ at \notin Inside
           /\ \A i \in 1..Len(outbox') : outbox'[i].verb = "QUIT"
           /\ verb \notin {"USER", "PASS", "QUIT"} => session = "in"
           /\ verb \in Transfers => ready
<1>1. /\ outbox # <<>> /\ outbox[1].verb = verb /\ link = "up" /\ ~Gone
      /\ Len(outbox) \in Nat /\ Len(outbox) # 0
      /\ outbox' \in Seq(Lines)
      /\ Len(outbox') = Len(outbox) - 1
      /\ \A i \in 1..Len(outbox') : outbox'[i] = outbox[i + 1]
  <2>1. outbox \in Seq(Lines)
    BY DEF TypeInv, LinkTyped
  <2>2. link = "up" /\ ~Gone
    BY DEF Serve
  <2> QED
    BY <2>1, <2>2, ServedTyped
<1>2. Conversation /\ Login
  BY <1>1 DEF Matched
<1>3. \/ Leaving
      \/ at \in Single /\ verb = Awaited /\ Len(outbox) = 1 /\ inbox = <<>> /\ Idle
      \/ at = "first" /\ verb = Wanted /\ Len(outbox) = 1 /\ inbox = <<>> /\ Idle
  <2>1. CASE at \in Single
    BY <1>1, <1>2, <2>1 DEF Conversation, Asks, Hears
  <2>2. CASE at = "first"
    BY <1>1, <1>2, <2>2 DEF Conversation, Opening, Announced, Asks, Hears, Silent
  <2>3. CASE at \in {"second", "upload", "greeting"} \/ Resting
    BY <1>1, <1>2, <2>3 DEF Conversation, Announced, Greeting, Silent
  <2> QED
    BY <1>1, <2>1, <2>2, <2>3
       DEF TypeInv, ClientTyped, Places, Waits, Single, Resting, Quiet, Leaving, Gone
<1>4. ~Leaving => outbox' = <<>>
  <2>1. ~Leaving => Len(outbox') = 0
    BY <1>1, <1>3
  <2> QED
    BY <1>1, <2>1, EmptySeq
<1>5. \A i \in 1..Len(outbox') : outbox'[i].verb = "QUIT"
  <2>1. SUFFICES ASSUME NEW i \in 1..Len(outbox')
                 PROVE  outbox'[i].verb = "QUIT"
    OBVIOUS
  <2>2. i + 1 \in 2..Len(outbox)
    BY <1>1
  <2> QED
    BY <1>1, <2>2 DEF Matched, Trailing
<1>6. /\ verb \notin {"USER", "PASS", "QUIT"} => session = "in"
      /\ verb \in Transfers => ready
  BY <1>1 DEF Matched, Kept
<1>7. ~Leaving => session # "new" /\ (session = "in" \/ at \notin Inside)
  BY <1>2, <1>3 DEF Conversation, Login, Single
<1> QED
  BY <1>1, <1>3, <1>4, <1>5, <1>6, <1>7

\* Behind it only a QUIT: whatever the login and the data socket become.
LEMMA ServeLines ==
    ASSUME TypeInv, Matched, NEW verb \in Verbs, Serve(verb)
    PROVE  Trailing' /\ Kept'
<1>1. \A i \in 1..Len(outbox') : outbox'[i].verb = "QUIT"
  BY ServeKnows
<1>2. outbox' \in Seq(Lines)
  BY ServedTyped
<1>3. Len(outbox') \in Nat
  BY <1>2
<1> QED
  BY <1>1, <1>3, TransfersAre DEF Trailing, Kept

\* An answer.
LEMMA ReplyStep ==
    ASSUME TypeInv, Matched, UNCHANGED <<at, doing, stop, eintr, child>>,
           NEW verb \in Verbs, NEW code \in 150..599, Serve(verb), Says(code, verb),
           session' # "new", code # 150,
           session' = session \/ verb \in {"USER", "PASS"},
           code = 230 => session' = "in",
           code = 227 => ready'
    PROVE  Matched'
<1>1. Doing' /\ Awaited' = Awaited /\ Wanted' = Wanted
  BY DoingKept
<1>2. Trailing' /\ Kept'
  BY ServeLines
<1>3. CASE Leaving
  <2>1. Leaving'
    BY <1>3 DEF Leaving
  <2> QED
    BY <1>1, <1>2, <2>1, LeavingTells DEF Matched
<1>4. CASE ~Leaving
  <2>1. /\ (at \in Single /\ verb = Awaited) \/ (at = "first" /\ verb = Wanted)
        /\ outbox' = <<>> /\ inbox = <<>> /\ Idle /\ session # "new"
        /\ session = "in" \/ at \notin Inside
    BY <1>4, ServeKnows
  <2>2. inbox' = <<[code |-> code, to |-> verb]>>
    BY <2>1 DEF Says
  <2>3. Hears(verb)' /\ inbox'[1].code = code
    BY <2>1, <2>2 DEF Hears
  <2>4. verb \in {"USER", "PASS"} => at \notin Inside
    BY <1>1, <2>1, AwaitedIs DEF Matched, Single, Inside
  <2>5. CASE at \in Single
    <3>1. Conversation'
      BY <1>1, <2>1, <2>3, <2>5 DEF Conversation, Idle, Single, Resting, Quiet, Leaving, Ended
    <3>2. Login'
      BY <2>1, <2>3, <2>4, <2>5 DEF Login, Single, Inside
    <3> QED
      BY <1>1, <1>2, <3>1, <3>2 DEF Matched
  <2>6. CASE at = "first"
    <3>1. Conversation'
      BY <1>1, <2>1, <2>3, <2>6
         DEF Conversation, Opening, Idle, Single, Resting, Quiet, Leaving, Ended
    <3>2. Login'
      BY <2>1, <2>3, <2>4, <2>6 DEF Login, Inside
    <3> QED
      BY <1>1, <1>2, <3>1, <3>2 DEF Matched
  <2> QED
    BY <2>1, <2>5, <2>6
<1> QED
  BY <1>3, <1>4

\* The connection ends with the line.
LEMMA CloseStep ==
    ASSUME TypeInv, Matched, UNCHANGED <<at, doing, stop, eintr>>,
           NEW verb \in Verbs, Serve(verb), link' = "closed"
    PROVE  Matched'
  BY DoingKept, ServeLines DEF Matched

LEMMA AcceptMatched ==
    ASSUME TypeInv, Matched, Accept
    PROVE  Matched'
<1>1. /\ UNCHANGED <<at, doing, stop, eintr, outbox, ready, child>>
      /\ session = "new" /\ session' = "out" /\ link = "up" /\ ~Gone
      /\ Says(220, "connect")
  BY DEF Accept
<1>2. Doing' /\ Awaited' = Awaited
  BY <1>1, DoingKept
<1>3. Trailing' /\ Kept'
  BY <1>1 DEF Matched, Trailing, Kept
<1>4. Conversation /\ Login
  BY <1>1 DEF Matched
<1>5. CASE Leaving
  <2>1. Leaving'
    BY <1>1, <1>5 DEF Leaving
  <2> QED
    BY <1>2, <1>3, <2>1, LeavingTells DEF Matched
<1>6. CASE at = "greeting"
  <2>1. outbox = <<>> /\ inbox = <<>> /\ Idle
    BY <1>1, <1>4, <1>6 DEF Conversation, Greeting
  <2>2. inbox' = <<[code |-> 220, to |-> "connect"]>>
    BY <1>1, <2>1 DEF Says
  <2>3. Hears("connect")'
    BY <1>1, <2>1, <2>2 DEF Hears
  <2>4. Conversation'
    BY <1>1, <1>6, <2>1, <2>3 DEF Conversation, Greeting, Idle, Single, Resting, Quiet
  <2>5. Login'
    BY <1>1, <1>6 DEF Login, Inside
  <2> QED
    BY <1>2, <1>3, <2>4, <2>5 DEF Matched
<1> QED
  BY <1>1, <1>4, <1>5, <1>6 DEF Conversation

LEMMA ServerMatched ==
    ASSUME TypeInv, Matched,
           UserCommand \/ PassCommand \/ PlainCommand \/ QuitCommand \/ TransferRefused
    PROVE  Matched'
<1>1. UNCHANGED <<at, doing, stop, eintr, child>>
  BY DEF UserCommand, PassCommand, PlainCommand, QuitCommand, TransferRefused, serverVars
<1>2. ASSUME NEW verb \in Verbs, ParserCrash(verb)
      PROVE  Matched'
  BY <1>1, <1>2, CloseStep DEF ParserCrash
<1>3. CASE UserCommand /\ ~ParserCrash("USER")
  <2>1. Serve("USER") /\ Says(331, "USER") /\ session' \in {"named", "wrong"}
    BY <1>3 DEF UserCommand
  <2>2. session' # "new"
    BY <2>1
  <2>3. "USER" \in Verbs /\ 331 \in 150..599 /\ 331 # 150 /\ 331 # 230 /\ 331 # 227
    BY VerbsAre
  <2> QED
    BY <1>1, <2>1, <2>2, <2>3, ReplyStep
<1>4. CASE PassCommand /\ ~ParserCrash("PASS")
  <2>1. /\ Serve("PASS")
        /\ \/ Says(230, "PASS") /\ session' = "in"
           \/ Says(530, "PASS") /\ session' = "out"
    BY <1>4 DEF PassCommand
  <2>2. "PASS" \in Verbs /\ 230 \in 150..599 /\ 530 \in 150..599
    BY VerbsAre
  <2>3. CASE Says(230, "PASS") /\ session' = "in"
    <3>1. session' # "new" /\ 230 # 150 /\ 230 # 227
      BY <2>3
    <3> QED
      BY <1>1, <2>1, <2>2, <2>3, <3>1, ReplyStep
  <2>4. CASE Says(530, "PASS") /\ session' = "out"
    <3>1. session' # "new" /\ 530 # 150 /\ 530 # 227 /\ 530 # 230
      BY <2>4
    <3> QED
      BY <1>1, <2>1, <2>2, <2>4, <3>1, ReplyStep
  <2> QED
    BY <2>1, <2>3, <2>4
<1>5. CASE PlainCommand
  <2>1. PICK verb \in {"PASV", "CWD", "PWD"}, code \in {227, 451, 250, 550, 257} :
           Serve(verb) /\ Says(code, verb) /\ (code = 227 => ready') /\ session' = session
    BY <1>5 DEF PlainCommand
  <2>2. verb \in Verbs /\ verb \notin {"USER", "PASS", "QUIT"}
    BY VerbsAre
  <2>3. session = "in"
    BY <2>1, <2>2, ServeKnows
  <2> QED
    BY <1>1, <2>1, <2>2, <2>3, ReplyStep
<1>6. CASE QuitCommand
  BY <1>1, <1>6, CloseStep, VerbsAre DEF QuitCommand
<1>7. CASE TransferRefused
  <2>1. PICK verb \in Transfers : Serve(verb) /\ Says(550, verb)
    BY <1>7 DEF TransferRefused
  <2>2. verb \in Verbs /\ verb \notin {"USER", "PASS", "QUIT"}
    BY VerbsAre, TransfersAre
  <2>3. session = "in" /\ session' = session
    BY <1>7, <2>1, <2>2, ServeKnows DEF TransferRefused
  <2> QED
    BY <1>1, <2>1, <2>2, <2>3, ReplyStep
<1> QED
  BY <1>2, <1>3, <1>4, <1>5, <1>6, <1>7, VerbsAre

LEMMA ForkMatched ==
    ASSUME TypeInv, Matched, Fork
    PROVE  Matched'
<1>1. PICK verb \in Transfers : Serve(verb) /\ task' = verb
  BY DEF Fork
<1>2. verb \in Verbs
  BY VerbsAre, TransfersAre
<1>3. UNCHANGED <<at, doing, stop, eintr, inbox, session>> /\ child' = "start"
  BY DEF Fork
<1>4. Doing' /\ Wanted' = Wanted
  BY <1>3, DoingKept
<1>5. Trailing' /\ Kept'
  BY <1>1, <1>2, ServeLines
<1>6. CASE Leaving
  <2>1. Leaving'
    BY <1>3, <1>6 DEF Leaving
  <2> QED
    BY <1>4, <1>5, <2>1, LeavingTells DEF Matched
<1>7. CASE ~Leaving
  <2>1. /\ (at \in Single /\ verb = Awaited) \/ (at = "first" /\ verb = Wanted)
        /\ outbox' = <<>> /\ inbox = <<>> /\ session # "new"
        /\ session = "in" \/ at \notin Inside
    BY <1>1, <1>2, <1>7, ServeKnows
  <2>2. at = "first" /\ verb = Wanted
    BY <2>1, AwaitedIs, TransfersAre DEF Matched, Single
  <2>3. Opening'
    BY <1>1, <1>3, <1>4, <2>1, <2>2 DEF Opening, Silent
  <2>4. Conversation' /\ Login'
    BY <1>3, <2>1, <2>2, <2>3
       DEF Conversation, Login, Single, Resting, Quiet, Inside
  <2> QED
    BY <1>4, <1>5, <2>4 DEF Matched
<1> QED
  BY <1>6, <1>7

LEMMA StopMatched ==
    ASSUME TypeInv, Matched, ServerStops
    PROVE  Matched'
<1>1. UNCHANGED <<at, doing, stop, eintr>> /\ link' # "up" /\ outbox' = <<>>
  BY DEF ServerStops
<1>2. Trailing' /\ Kept'
  BY <1>1 DEF Trailing, Kept
<1> QED
  BY <1>1, <1>2, DoingKept DEF Matched

\* The first reply of the child, and the second one.
LEMMA FirstTold ==
    ASSUME TypeInv, Matched, Begin, link = "up"
    PROVE  at = "first" => Opening'
<1> SUFFICES ASSUME at = "first"
             PROVE  Opening'
  OBVIOUS
<1>1. UNCHANGED <<doing, task, outbox>> /\ child = "start"
  BY DEF Begin, childKeeps
<1>2. Silent /\ task = Wanted
  BY <1>1 DEF Matched, Conversation, Opening, Announced, Idle
<1>3. PICK code \in {150, 550} : /\ Says(code, task)
                                 /\ code = 150 => child' \in {"moving", "failing"}
                                 /\ code = 550 => child' = "leaving"
  BY DEF Begin, Tells
<1>4. inbox' = <<[code |-> code, to |-> task]>>
  BY <1>2, <1>3 DEF Says, Silent
<1>5. Len(inbox') = 1 /\ inbox'[1].code = code /\ inbox'[1].to = Wanted
  BY <1>2, <1>4
<1>6. outbox' = <<>> /\ task' = Wanted' /\ Wanted' = Wanted
  BY <1>1, <1>2 DEF Silent, Wanted
<1>7. CASE code = 150
  BY <1>3, <1>5, <1>6, <1>7 DEF Opening, Announced, Acts
<1>8. CASE code = 550
  BY <1>3, <1>5, <1>6, <1>8 DEF Opening, Hears, Idle
<1> QED
  BY <1>7, <1>8

LEMMA SecondTold ==
    ASSUME TypeInv, NEW n \in {0, 1}, Announced(n), Acts, NEW code \in 150..599, Tells(code, "leaving"),
           UNCHANGED <<doing, task, outbox>>
    PROVE  Announced(n)' /\ (n = 1 => inbox'[1] = inbox[1])
<1>1. Len(inbox) = n /\ outbox = <<>> /\ task = Wanted
  BY DEF Announced
<1>2. PICK r : r = [code |-> code, to |-> task]
  OBVIOUS
<1>3. inbox' = Append(inbox, r) /\ inbox \in Seq(Replies) /\ r \in Replies
  BY <1>2 DEF Tells, Says, TypeInv, LinkTyped, ServerTyped, Replies
<1>4. Len(inbox') = n + 1 /\ inbox'[n + 1] = r /\ \A i \in 1..n : inbox'[i] = inbox[i]
  BY <1>1, <1>3, AppendProperties
<1>5. \A i \in 1..Len(inbox') : inbox'[i].to = Wanted
  BY <1>1, <1>2, <1>4 DEF Announced
<1>6. child' = "leaving" /\ Wanted' = Wanted
  BY DEF Tells, Wanted
<1> QED
  BY <1>1, <1>4, <1>5, <1>6 DEF Announced, Acts

LEMMA ChildMatched ==
    ASSUME TypeInv, Matched, ChildStep
    PROVE  Matched'
<1>1. UNCHANGED <<at, doing, stop, eintr, outbox, link, session, ready, task>>
  BY DEF ChildStep, Begin, Fail, WriteData, StoreData, Finish, Exit, childKeeps
<1>2. Doing' /\ Awaited' = Awaited /\ Wanted' = Wanted
  BY <1>1, DoingKept
<1>3. Trailing' /\ Kept'
  BY <1>1, LinesKept
<1>4. CASE link = "up" /\ ~Leaving
  <2>1. Conversation /\ Login
    BY <1>4 DEF Matched
  <2>2. ~Leaving' /\ (Resting' => Resting)
    BY <1>1, <1>4 DEF Leaving, Resting
  <2>3. \/ Begin /\ child = "start"
        \/ Acts /\ \E code \in {451, 226} : Tells(code, "leaving")
        \/ Acts /\ inbox' = inbox /\ child' \in {child, "none"}
        \/ child = "leaving" /\ child' = "none" /\ inbox' = inbox
    BY DEF ChildStep, Begin, Fail, WriteData, StoreData, Finish, Exit, Acts
  <2>4. CASE Idle
    <3>1. child = "leaving" /\ child' = "none" /\ inbox' = inbox
      BY <2>3, <2>4 DEF Acts, Idle
    <3>2. /\ Greeting => Greeting'
          /\ Idle /\ (Asks(Awaited) \/ Hears(Awaited)) => Idle' /\ (Asks(Awaited) \/ Hears(Awaited))'
          /\ Idle /\ Silent => Idle' /\ Silent'
      BY <1>1, <1>2, <3>1 DEF Greeting, Asks, Hears, Silent, Idle
    <3>3. (Opening => Opening') /\ (Announced(0) => Announced(0)')
      BY <1>1, <1>2, <3>1 DEF Opening, Announced, Asks, Hears, Silent, Idle, Acts
    <3>4. at' = at /\ session' = session
      BY <1>1
    <3>5. Conversation'
      <4>1. at' = "greeting" => Greeting'
        BY <2>1, <3>2, <3>4 DEF Conversation
      <4>2. session' # "new" \/ at' = "greeting"
        BY <1>4, <2>1, <3>4 DEF Conversation
      <4>3. at' \in Single => Idle' /\ (Asks(Awaited) \/ Hears(Awaited))'
        BY <2>1, <3>2, <3>4 DEF Conversation
      <4>4. Resting' => Idle' /\ Silent'
        BY <2>1, <2>2, <3>2 DEF Conversation
      <4>5. (at' = "first" => Opening') /\ (at' \in {"second", "upload"} => Announced(0)')
        BY <2>1, <3>3, <3>4 DEF Conversation
      <4> QED
        BY <4>1, <4>2, <4>3, <4>4, <4>5 DEF Conversation, Single
    <3>6. Login'
      BY <1>1, <2>1, <3>1 DEF Login
    <3> QED
      BY <1>2, <1>3, <3>5, <3>6 DEF Matched
  <2>5. CASE ~Idle
    <3>1. at \in {"first", "second", "upload"}
      BY <1>4, <2>1, <2>5 DEF Conversation, Greeting, Leaving, Resting, Quiet, Single, Ended,
                              TypeInv, ClientTyped, Places, Waits
    <3>2. at = "first" => Opening'
      <4>1. CASE Begin
        BY <1>4, <4>1, FirstTold
      <4>2. CASE ~Begin /\ at = "first"
        <5>1. Acts
          BY <2>3, <2>5, <4>2 DEF Idle
        <5>2. Announced(1) /\ inbox[1].code = 150
          BY <2>1, <2>5, <4>2, <5>1 DEF Conversation, Opening, Acts
        <5>3. CASE inbox' = inbox /\ child' \in {child, "none"}
          BY <1>1, <1>2, <5>1, <5>2, <5>3 DEF Opening, Announced, Acts
        <5>4. CASE \E code \in {451, 226} : Tells(code, "leaving")
          <6>1. PICK code \in 150..599 : Tells(code, "leaving")
            BY <5>4
          <6> QED
            BY <1>1, <5>1, <5>2, <6>1, SecondTold DEF Opening
        <5> QED
          BY <2>3, <4>2, <5>1, <5>3, <5>4 DEF Acts
      <4> QED
        BY <4>1, <4>2
    <3>3. at \in {"second", "upload"} => Announced(0)'
      <4> SUFFICES ASSUME at \in {"second", "upload"}
                   PROVE  Announced(0)'
        OBVIOUS
      <4>1. Announced(0) /\ Acts
        BY <2>1, <2>3, <2>5 DEF Conversation, Announced, Idle
      <4>2. CASE inbox' = inbox /\ child' \in {child, "none"}
        BY <1>1, <1>2, <4>1, <4>2 DEF Announced, Acts
      <4>3. CASE \E code \in {451, 226} : Tells(code, "leaving")
        <5>1. PICK code \in 150..599 : Tells(code, "leaving")
          BY <4>3
        <5> QED
          BY <1>1, <4>1, <5>1, SecondTold
      <4> QED
        BY <2>3, <4>1, <4>2, <4>3 DEF Acts
    <3>4. Conversation' /\ Login'
      BY <1>1, <2>1, <2>2, <3>1, <3>2, <3>3
         DEF Conversation, Login, Leaving, Ended, Single, Resting, Quiet, Inside
    <3> QED
      BY <1>2, <1>3, <3>4 DEF Matched
  <2> QED
    BY <2>4, <2>5
<1>5. CASE link # "up"
  BY <1>1, <1>2, <1>3, <1>5 DEF Matched
<1>6. CASE Leaving
  <2>1. Leaving'
    BY <1>1, <1>6 DEF Leaving
  <2> QED
    BY <1>2, <1>3, <2>1, LeavingTells DEF Matched
<1> QED
  BY <1>4, <1>5, <1>6

-----------------------------------------------------------------------------
LEMMA MatchedNext == TypeInv /\ Matched /\ [Next]_vars => Matched'
<1>1. ASSUME TypeInv, Matched, UNCHANGED vars
      PROVE  Matched'
  <2>1. UNCHANGED <<at, doing, stop, eintr, inbox, outbox, link, session, ready, child, task>>
    BY <1>1 DEF vars
  <2>2. Doing' /\ Awaited' = Awaited /\ Wanted' = Wanted
    BY <1>1, <2>1, DoingKept
  <2>3. Trailing' /\ Kept'
    BY <1>1, <2>1, LinesKept
  <2>4. Login => Login'
    BY <2>1 DEF Login
  <2>5. Conversation => Conversation'
    BY <2>1, <2>2 DEF Conversation, Greeting, Opening, Announced, Asks, Hears, Silent, Idle, Acts,
                      Leaving, Resting
  <2> QED
    BY <1>1, <2>1, <2>2, <2>3, <2>4, <2>5 DEF Matched
<1>2. ASSUME TypeInv, Matched, Next
      PROVE  Matched'
  <2>1. CASE UserStep
    BY <1>2, <2>1, LoginWrites, CommandWrites, SilentSteps DEF UserStep
  <2>2. CASE ClientStep
    BY <1>2, <2>2, LoginReads, CommandReads, TransferReads, SilentSteps, CdMatched, DialMatched,
       ByeMatched DEF ClientStep
  <2>3. CASE ServerStep
    BY <1>2, <2>3, AcceptMatched, ServerMatched, ForkMatched DEF ServerStep
  <2> QED
    BY <1>2, <2>1, <2>2, <2>3, ChildMatched, SignalMatched, StopMatched DEF Next
<1> QED
  BY <1>1, <1>2

LEMMA MatchedAlways == Spec => [](TypeInv /\ Matched)
<1> QED
  BY TypeInit, TypeNext, MatchedInit, MatchedNext, PTL DEF Spec

LEMMA MatchedShows == TypeInv /\ Matched => RepliesMatched /\ KeepsOrder
  BY MatchedMeans

(* A client that only counts its replies reads the one to its command, and  *)
(* leaves none behind for the next: for any length of session, although a   *)
(* reply that comes with another one is lost with the FILE it went into.    *)
THEOREM RepliesAnswerTheirCommand == Spec => []RepliesMatched
<1> QED
  BY MatchedAlways, MatchedShows, PTL

(* No line reaches the server before the login it needs, and no transfer    *)
(* command without a data socket: client and server agree on both.          *)
THEOREM LinesComeInOrder == Spec => []KeepsOrder
<1> QED
  BY MatchedAlways, MatchedShows, PTL

-----------------------------------------------------------------------------
(* The data.                                                                 *)

\* What can stand for block j of what was meant.
Part(j, block) ==
    \/ block = meant[j]
    \/ doing \in Fetches /\ meant[j] = "null" /\ block = "short"

\* Nothing is missing: what was kept, what is on its way and what is still to be
\* written make up what was meant.
Conserved ==
    /\ Len(got) + Len(pipe) + Len(rest) = Len(meant)
    /\ \A i \in 1..Len(got) : Part(i, got[i])
    /\ \A i \in 1..Len(pipe) : Part(Len(got) + i, pipe[i])
    /\ \A i \in 1..Len(rest) : rest[i] = meant[Len(got) + Len(pipe) + i]

Has(code) == \E i \in 1..Len(inbox) : inbox[i].code = code

Fetching ==
    /\ at = "first" => /\ sock = "open"
                       /\ Acts \/ child = "start" \/ Has(150) => Conserved
                       /\ Has(226) => rest = <<>>
    /\ at = "second" => /\ sock = "open"
                        /\ Conserved
                        /\ Has(226) => rest = <<>>
    /\ at = "data" => /\ Conserved
                      /\ rest = <<>>
                      /\ eintr => pipe = <<>>

Storing ==
    /\ at # "data"
    /\ at = "first" => /\ sock = "open"
                       /\ Acts \/ child = "start" => got = <<>> /\ pipe = <<>>
                       /\ ~Has(226)
    /\ at = "upload" => /\ sock = "open" \/ (sock = "reset" /\ child = "none")
                        /\ ~Has(226)
                        /\ Acts /\ ~stop => Conserved
    /\ (at = "second" /\ opened /\ ~stop) => /\ rest = <<>>
                                             /\ Acts => Conserved
                                             /\ Has(226) => Conserved /\ pipe = <<>>

Over == at \in {"loop", "prompt", "leave"} \cup Ended

\* The property speaks of this report.
Counts == Told /\ opened /\ (doing = "put" => ~stop)

Reported ==
    /\ Told => Over
    /\ Counts => /\ Idle
                 /\ outbox = <<>> \/ at \in Ended
                 /\ Conserved
                 /\ pipe = <<>>
                 /\ rest = <<>>

Carried ==
    link = "up" => /\ child # "moved"
                   /\ doing \in Fetches => Fetching
                   /\ doing = "put" => Storing
                   /\ Reported

Transferring == at \in {"first", "second", "upload", "data"}

LEMMA CarriedInit == Init => Carried
  BY DEF Init, Carried, Fetching, Storing, Reported, Told, Counts, Fetches

LEMMA CarriedMeans ==
    ASSUME TypeInv, Carried
    PROVE  SuccessMeansWhole
<1> SUFFICES ASSUME Counts, link = "up"
             PROVE  /\ DOMAIN got = DOMAIN meant
                    /\ \A i \in DOMAIN got :
                          \/ got[i] = meant[i]
                          \/ doing \in Fetches /\ meant[i] = "null" /\ got[i] = "short"
  BY DEF SuccessMeansWhole, Counts
<1>1. Conserved /\ pipe = <<>> /\ rest = <<>>
  BY DEF Carried, Reported
<1>2. got \in Data /\ meant \in Data
  BY DEF TypeInv, DataTyped
<1>3. Len(got) \in Nat /\ Len(got) = Len(meant)
  BY <1>1, <1>2, EmptySeq DEF Conserved, Data
<1>4. DOMAIN got = 1..Len(got) /\ DOMAIN meant = 1..Len(meant)
  BY <1>2 DEF Data
<1> QED
  BY <1>1, <1>3, <1>4 DEF Conserved, Part

-----------------------------------------------------------------------------
(* How data moves.                                                           *)

LEMMA ConservedKept ==
    ASSUME Conserved, UNCHANGED <<doing, dataVars>>
    PROVE  Conserved'
  BY DEF Conserved, Part, dataVars

LEMMA MoveIn ==
    ASSUME DataTyped, Conserved, rest # <<>>, NEW block \in Blocks \cup {"short"},
           \/ block = Head(rest)
           \/ doing \in Fetches /\ Head(rest) = "null" /\ block = "short",
           pipe' = Append(pipe, block), rest' = Tail(rest), UNCHANGED <<got, meant, doing>>
    PROVE  Conserved'
<1>1. PICK g \in Nat, n \in Nat, r \in Nat : g = Len(got) /\ n = Len(pipe) /\ r = Len(rest)
  BY DEF DataTyped, Data
<1>2. r > 0 /\ Head(rest) = rest[1] /\ Len(rest') = r - 1
      /\ \A i \in 1..(r - 1) : rest'[i] = rest[i + 1]
  BY <1>1, HeadTailProperties, EmptySeq DEF DataTyped, Data
<1>3. Len(pipe') = n + 1 /\ pipe'[n + 1] = block /\ \A i \in 1..n : pipe'[i] = pipe[i]
  BY <1>1, AppendProperties DEF DataTyped, Data
<1>4. g + (n + 1) + (r - 1) = Len(meant)
  <2>1. g + n + r = Len(meant)
    BY <1>1 DEF Conserved
  <2>2. g + (n + 1) + (r - 1) = g + n + r
    OBVIOUS
  <2> QED
    BY <2>1, <2>2
<1>5. rest[1] = meant[g + n + 1]
  BY <1>1, <1>2 DEF Conserved
<1>6. Part(g + (n + 1), block)
  <2>1. g + (n + 1) = g + n + 1
    OBVIOUS
  <2> QED
    BY <1>2, <1>5, <2>1 DEF Part
<1>7. \A i \in 1..(n + 1) : Part(g + i, pipe'[i])
  <2>1. SUFFICES ASSUME NEW i \in 1..(n + 1)
                 PROVE  Part(g + i, pipe'[i])
    OBVIOUS
  <2>2. CASE i \in 1..n
    BY <1>1, <1>3, <2>2 DEF Conserved
  <2>3. CASE i = n + 1
    BY <1>3, <1>6, <2>3
  <2>4. i \in 1..n \/ i = n + 1
    OBVIOUS
  <2> QED
    BY <2>2, <2>3, <2>4
<1>8. \A i \in 1..(r - 1) : rest'[i] = meant[g + (n + 1) + i]
  <2>1. SUFFICES ASSUME NEW i \in 1..(r - 1)
                 PROVE  rest'[i] = meant[g + (n + 1) + i]
    OBVIOUS
  <2>2. i + 1 \in 1..r /\ g + n + (i + 1) = g + (n + 1) + i
    OBVIOUS
  <2> QED
    BY <1>1, <1>2, <2>2 DEF Conserved
<1> QED
  BY <1>1, <1>2, <1>3, <1>4, <1>7, <1>8 DEF Conserved, Part

LEMMA MoveOut ==
    ASSUME DataTyped, Conserved, pipe # <<>>,
           got' = Append(got, Head(pipe)), pipe' = Tail(pipe), UNCHANGED <<rest, meant, doing>>
    PROVE  Conserved'
<1>1. PICK g \in Nat, n \in Nat, r \in Nat : g = Len(got) /\ n = Len(pipe) /\ r = Len(rest)
  BY DEF DataTyped, Data
<1>2. n > 0 /\ Head(pipe) = pipe[1] /\ Len(pipe') = n - 1
      /\ \A i \in 1..(n - 1) : pipe'[i] = pipe[i + 1]
  BY <1>1, HeadTailProperties, EmptySeq DEF DataTyped, Data
<1>3. Len(got') = g + 1 /\ got'[g + 1] = pipe[1] /\ \A i \in 1..g : got'[i] = got[i]
  BY <1>1, <1>2, HeadTailProperties, AppendProperties DEF DataTyped, Data
<1>4. (g + 1) + (n - 1) + r = Len(meant)
  <2>1. g + n + r = Len(meant)
    BY <1>1 DEF Conserved
  <2>2. (g + 1) + (n - 1) + r = g + n + r
    OBVIOUS
  <2> QED
    BY <2>1, <2>2
<1>5. Part(g + 1, pipe[1])
  BY <1>1, <1>2 DEF Conserved
<1>6. \A i \in 1..(g + 1) : Part(i, got'[i])
  BY <1>1, <1>3, <1>5 DEF Conserved
<1>7. \A i \in 1..(n - 1) : Part((g + 1) + i, pipe'[i])
  <2>1. SUFFICES ASSUME NEW i \in 1..(n - 1)
                 PROVE  Part((g + 1) + i, pipe'[i])
    OBVIOUS
  <2>2. i + 1 \in 1..n /\ g + (i + 1) = (g + 1) + i
    OBVIOUS
  <2>3. Part(g + (i + 1), pipe[i + 1])
    BY <1>1, <2>2 DEF Conserved
  <2> QED
    BY <1>2, <2>2, <2>3
<1>8. \A i \in 1..r : rest'[i] = meant[(g + 1) + (n - 1) + i]
  <2>1. SUFFICES ASSUME NEW i \in 1..r
                 PROVE  rest'[i] = meant[(g + 1) + (n - 1) + i]
    OBVIOUS
  <2>2. (g + 1) + (n - 1) + i = g + n + i
    OBVIOUS
  <2> QED
    BY <1>1, <2>2 DEF Conserved
<1> QED
  BY <1>1, <1>2, <1>3, <1>4, <1>6, <1>7, <1>8 DEF Conserved, Part

\* A file about to be sent.
LEMMA Begun ==
    ASSUME NEW file \in Seq(Blocks), got' = <<>>, pipe' = <<>>, rest' = file, meant' = file
    PROVE  Conserved'
<1>1. Len(got') = 0 /\ Len(pipe') = 0 /\ Len(rest') = Len(meant') /\ Len(meant') \in Nat
  OBVIOUS
<1>2. \A i \in 1..Len(rest') : rest'[i] = meant'[Len(got') + Len(pipe') + i]
  <2>1. SUFFICES ASSUME NEW i \in 1..Len(rest')
                 PROVE  rest'[i] = meant'[Len(got') + Len(pipe') + i]
    OBVIOUS
  <2>2. Len(got') + Len(pipe') + i = i
    BY <1>1
  <2> QED
    BY <2>2
<1> QED
  BY <1>1, <1>2 DEF Conserved

\* A reply added.
LEMMA SaysHas ==
    ASSUME TypeInv, NEW code \in 150..599, NEW verb \in Verbs \cup {"connect"}, Says(code, verb)
    PROVE  \A c : Has(c)' => Has(c) \/ c = code
<1>1. PICK n \in Nat : n = Len(inbox)
  BY DEF TypeInv, LinkTyped
<1>2. PICK r : r = [code |-> code, to |-> verb]
  OBVIOUS
<1>3. inbox' = Append(inbox, r) /\ inbox \in Seq(Replies) /\ r \in Replies /\ r.code = code
  BY <1>2 DEF Says, TypeInv, LinkTyped, Replies
<1>4. Len(inbox') = n + 1 /\ inbox'[n + 1] = r /\ \A i \in 1..n : inbox'[i] = inbox[i]
  BY <1>1, <1>3, AppendProperties
<1>5. SUFFICES ASSUME NEW c, NEW i \in 1..Len(inbox'), inbox'[i].code = c
               PROVE  Has(c) \/ c = code
  BY DEF Has
<1>6. CASE i \in 1..n
  BY <1>1, <1>4, <1>5, <1>6 DEF Has
<1>7. CASE i = n + 1
  BY <1>3, <1>4, <1>5, <1>7
<1> QED
  BY <1>4, <1>6, <1>7

LEMMA NothingHas ==
    ASSUME inbox' = <<>>
    PROVE  \A c : ~Has(c)'
  BY DEF Has

LEMMA HeadHas ==
    ASSUME TypeInv, inbox # <<>>
    PROVE  Has(Head(inbox).code)
<1>1. Len(inbox) \in Nat /\ Len(inbox) # 0 /\ Head(inbox) = inbox[1]
  BY EmptySeq DEF TypeInv, LinkTyped
<1> QED
  BY <1>1 DEF Has

-----------------------------------------------------------------------------
(* Steps outside of transfers.                                               *)

\* Nothing is reported, or it is not claimed.
LEMMA Elsewhere ==
    ASSUME Carried, ~Transferring', ~Told' \/ (Over' /\ ~opened'), link' = "up" => link = "up",
           child' \in {child, "none", "start"}
    PROVE  Carried'
<1>1. ~Counts' /\ (Told' => Over')
  BY DEF Counts
<1>2. link' = "up" => child' # "moved"
  BY DEF Carried
<1>3. Fetching' /\ Storing'
  BY DEF Fetching, Storing, Transferring
<1> QED
  BY <1>1, <1>2, <1>3 DEF Carried, Reported

\* What was reported stays as it is.
LEMMA Aside ==
    ASSUME Carried, Over, Over', UNCHANGED <<said, doing, opened, child, dataVars>>, stop => stop',
           outbox' = outbox \/ at' \in Ended, at \in Ended => at' \in Ended,
           link' = "up" => link = "up"
    PROVE  Carried'
<1>1. ~Transferring'
  BY DEF Over, Transferring, Ended
<1>2. Fetching' /\ Storing'
  BY <1>1 DEF Fetching, Storing, Transferring
<1>3. Counts' => Counts
  BY DEF Counts, Told
<1>4. ASSUME link' = "up"
      PROVE  child' # "moved" /\ Reported'
  <2>1. child # "moved" /\ Reported
    BY <1>4 DEF Carried
  <2>2. CASE Counts'
    <3>1. Idle /\ (outbox = <<>> \/ at \in Ended) /\ Conserved /\ pipe = <<>> /\ rest = <<>>
      BY <1>3, <2>1, <2>2 DEF Reported
    <3>2. Conserved'
      BY <3>1, ConservedKept
    <3>3. Idle' /\ pipe' = <<>> /\ rest' = <<>> /\ (outbox' = <<>> \/ at' \in Ended)
      BY <3>1 DEF Idle, dataVars
    <3> QED
      BY <2>1, <3>2, <3>3 DEF Reported
  <2>3. CASE ~Counts'
    BY <2>1, <2>3 DEF Reported
  <2> QED
    BY <2>2, <2>3
<1> QED
  BY <1>2, <1>4 DEF Carried

\* A report stays out of the way of what the client does next.
LEMMA NotToldYet ==
    ASSUME Carried, link = "up", ~Over
    PROVE  ~Told
  BY DEF Carried, Reported

LEMMA LinkStays ==
    ASSUME TypeInv, Next, link' = "up"
    PROVE  link = "up"
<1>1. CASE UserStep \/ ClientStep
  <2>1. (\E verb, arg, next : Write(verb, arg, next)) \/ link' = link
    BY <1>1 DEF UserStep, ClientStep, GetUsername, GetPassword, Leave, NotSent, Execute, Input,
       NoInput, Greeted, SignIn, SendUser, SendPass, TestStop, DestroyClient, Cd, DisplayNewPath,
       Pwd, Quit, SendPasv, Dial, First, FetchBegins, PutBegins, Upload, EndUpload, Second,
       FetchReceives, PutDone, Receive, Answer, NoAnswer, Take, NoReply, linkVars
  <2> QED
    BY <2>1 DEF Write
<1>2. CASE ServerStep \/ ChildStep \/ Signal \/ ServerStops
  BY <1>2 DEF ServerStep, Accept, UserCommand, PassCommand, PlainCommand, QuitCommand,
     TransferRefused, Fork, ParserCrash, ChildStep, Begin, Fail, WriteData, StoreData, Finish, Exit,
     childKeeps, Signal, linkVars, ServerStops
<1> QED
  BY <1>1, <1>2 DEF Next

LEMMA EntryCarried ==
    ASSUME TypeInv, Matched, Carried, Next,
           \/ Greeted \/ SignIn \/ GetUsername \/ SendUser \/ GetPassword \/ SendPass
           \/ Execute \/ Cd \/ DisplayNewPath \/ Pwd \/ Quit \/ SendPasv
    PROVE  Carried'
<1>1. link' = "up" => link = "up"
  BY LinkStays
<1>2. child' = child
  BY DEF Greeted, SignIn, GetUsername, SendUser, GetPassword, SendPass, Execute, Cd, DisplayNewPath,
         Pwd, Quit, SendPasv, serverVars
<1>3. ~Transferring' /\ (~Over \/ said' = "none")
  <2>1. CASE Greeted \/ SignIn
    BY <2>1 DEF Greeted, SignIn, Take, NoReply, Transferring, Over, Ended
  <2>2. CASE GetUsername
    <3>1. at = "username" /\ (at' = "leave" \/ \E name : Write("USER", name, "user"))
      BY <2>2 DEF GetUsername, NoInput, Input
    <3>2. at' \in {"leave", "user", "killed"}
      BY <3>1 DEF Write
    <3> QED
      BY <3>1, <3>2 DEF Transferring, Over, Ended
  <2>3. CASE GetPassword
    <3>1. at = "password" /\ (at' = "leave" \/ \E word : Write("PASS", word, "pass"))
      BY <2>3 DEF GetPassword, NoInput, Input
    <3>2. at' \in {"leave", "pass", "killed"}
      BY <3>1 DEF Write
    <3> QED
      BY <3>1, <3>2 DEF Transferring, Over, Ended
  <2>4. CASE SendUser \/ SendPass
    BY <2>4 DEF SendUser, SendPass, Answer, NoAnswer, Take, NoReply, Transferring, Over, Ended
  <2>5. CASE Execute
    <3>1. /\ said' = "none"
          /\ \/ Write("PASV", "", "pasv")
             \/ Write("CWD", "", "cwd")
             \/ Write("PWD", "", "pwd")
             \/ Write("QUIT", "", "bye")
      BY <2>5 DEF Execute
    <3>2. at' \in {"pasv", "cwd", "pwd", "bye", "killed"}
      BY <3>1 DEF Write
    <3> QED
      BY <3>1, <3>2 DEF Transferring
  <2>6. CASE Cd
    <3>1. at = "cwd" /\ (at' = "loop" \/ Write("PWD", "", "path"))
      BY <2>6 DEF Cd, NoAnswer, Take, NoReply, Back
    <3>2. at' \in {"loop", "path", "killed"}
      BY <3>1 DEF Write
    <3> QED
      BY <3>1, <3>2 DEF Transferring, Over, Ended
  <2>7. CASE DisplayNewPath
    BY <2>7 DEF DisplayNewPath, Answer, Take, NoReply, Transferring, Over, Ended
  <2>8. CASE Pwd
    BY <2>8 DEF Pwd, Answer, NoAnswer, Take, NoReply, Back, Transferring, Over, Ended
  <2>9. CASE Quit
    BY <2>9 DEF Quit, Answer, NoAnswer, Take, NoReply, Back, Transferring, Over, Ended
  <2>10. CASE SendPasv
    BY <2>10 DEF SendPasv, Answer, NoAnswer, Take, NoReply, Back, Transferring, Over, Ended
  <2> QED
    BY <2>1, <2>2, <2>3, <2>4, <2>5, <2>6, <2>7, <2>8, <2>9, <2>10
<1>4. said' = said \/ said' \in {"none", "failed"}
  BY DEF Greeted, SignIn, GetUsername, SendUser, GetPassword, SendPass, Execute, Cd, DisplayNewPath,
         Pwd, Quit, SendPasv, Back
<1>6. link = "up" => ~Told'
  BY <1>3, <1>4, NotToldYet DEF Told
<1> QED
  <2>1. CASE link' = "up"
    BY <1>1, <1>2, <1>3, <1>6, <2>1, Elsewhere
  <2>2. CASE link' # "up"
    BY <2>2 DEF Carried
  <2> QED
    BY <2>1, <2>2

LEMMA AsideCarried ==
    ASSUME TypeInv, Matched, Carried, Next, TestStop \/ Leave \/ NotSent \/ DestroyClient
    PROVE  Carried'
<1>1. link' = "up" => link = "up"
  BY LinkStays
<1>2. UNCHANGED <<said, doing, opened, child, dataVars, stop>>
  BY DEF TestStop, Leave, NotSent, DestroyClient, serverVars
<1>3. Over /\ at \notin Ended /\ (outbox' = outbox \/ at' \in Ended)
  BY DEF TestStop, Leave, NotSent, DestroyClient, NoInput, Input, Write, linkVars, Over, Ended
<1>4. Over'
  BY DEF TestStop, Leave, NotSent, DestroyClient, NoInput, Input, Write, Over, Ended
<1> QED
  BY <1>1, <1>2, <1>3, <1>4, Aside

LEMMA DialCarried ==
    ASSUME TypeInv, Matched, Carried, Dial, Next
    PROVE  Carried'
<1>1. link' = "up" => link = "up"
  BY LinkStays
<1>2. child' = child /\ at = "dial" /\ UNCHANGED <<doing, inbox>>
  BY DEF Dial, serverVars
<1>3. CASE Back("failed")
  <2>1. ~Transferring' /\ ~Told'
    BY <1>3 DEF Back, Transferring, Told
  <2> QED
    BY <1>1, <1>2, <2>1, Elsewhere
<1>4. CASE Write(VerbOf[doing], "", "first") /\ sock' = "open" /\ UNCHANGED said /\ link = "up"
  <2>1. at' \in {"first", "killed"}
    BY <1>4 DEF Write
  <2>2. ~Told /\ inbox = <<>> /\ Idle
    BY <1>2, <1>4, NotToldYet
       DEF Over, Ended, Matched, Conversation, Resting, Quiet, Silent
  <2>3. ~Told' /\ inbox' = <<>> /\ Idle' /\ child' # "moved"
    BY <1>2, <1>4, <2>2 DEF Told, Idle
  <2>4. ~Has(150)' /\ ~Has(226)'
    BY <2>3, NothingHas
  <2>5. Fetching' /\ Storing'
    BY <1>4, <2>1, <2>3, <2>4 DEF Fetching, Storing, Idle, Acts
  <2> QED
    BY <2>3, <2>5 DEF Carried, Reported, Counts
<1> QED
  BY <1>3, <1>4 DEF Dial

LEMMA SignalCarried ==
    ASSUME TypeInv, Matched, Carried, Signal
    PROVE  Carried'
<1>1. /\ UNCHANGED <<at, doing, said, sock, opened, inbox, outbox, link, child>>
      /\ UNCHANGED dataVars /\ stop' = TRUE /\ eintr' = Blocked
  BY DEF Signal, linkVars, serverVars
<1>2. CASE link # "up"
  BY <1>1, <1>2 DEF Carried
<1>3. CASE link = "up"
  <2>1. child # "moved" /\ (doing \in Fetches => Fetching) /\ (doing = "put" => Storing) /\ Reported
    BY <1>3 DEF Carried
  <2>2. Conserved => Conserved'
    BY <1>1, ConservedKept
  <2>3. (Has(150)' => Has(150)) /\ (Has(226)' => Has(226)) /\ (Acts' => Acts) /\ (Idle => Idle')
    BY <1>1 DEF Has, Acts, Idle
  <2>4. at = "data" /\ eintr' => pipe = <<>>
    BY <1>1 DEF Blocked, Waits
  <2>5. pipe' = pipe /\ rest' = rest /\ got' = got
    BY <1>1 DEF dataVars
  <2>6. Fetching => Fetching'
    BY <1>1, <2>2, <2>3, <2>4, <2>5 DEF Fetching
  <2>7. Storing => Storing'
    BY <1>1, <2>2, <2>3, <2>5 DEF Storing
  <2>8. Reported'
    <3>1. (Counts' => Counts) /\ (Told' => Told) /\ (Over => Over')
      BY <1>1 DEF Counts, Told, Over
    <3> QED
      BY <1>1, <2>1, <2>2, <2>3, <2>5, <3>1 DEF Reported
  <2> QED
    BY <1>1, <2>1, <2>6, <2>7, <2>8 DEF Carried
<1> QED
  BY <1>2, <1>3

-----------------------------------------------------------------------------
(* Transfers, at the client.                                                 *)

LEMMA FirstCarried ==
    ASSUME TypeInv, Matched, Carried, First
    PROVE  Carried'
<1>1. at = "first" /\ link' = link /\ UNCHANGED <<doing, stop, child, pipe, got>>
  BY DEF First, FetchBegins, PutBegins, Answer, NoAnswer, Take, NoReply, linkVars, serverVars
<1>2. CASE link # "up"
  BY <1>1, <1>2 DEF Carried
<1>3. CASE link = "up"
  <2>1. /\ child' # "moved" /\ (doing \in Fetches => Fetching) /\ (doing = "put" => Storing)
        /\ ~Told
    BY <1>1, <1>3, NotToldYet DEF Carried, Over, Ended
  <2>2. CASE FetchBegins
    <3>1. /\ at' = "second" /\ Take("first") /\ Head(inbox).code = 150
          /\ doing \in Fetches /\ UNCHANGED <<said, sock, rest, meant>>
      BY <2>2 DEF FetchBegins, Answer
    <3>2. inbox # <<>> /\ inbox' = <<>>
      BY <3>1 DEF Take
    <3>3. Has(150)
      BY <3>1, <3>2, HeadHas
    <3>4. Conserved /\ sock = "open"
      BY <1>1, <2>1, <3>1, <3>3 DEF Fetching
    <3>5. Conserved'
      BY <1>1, <3>1, <3>4, ConservedKept DEF dataVars
    <3>6. ~Has(226)'
      BY <3>2, NothingHas
    <3>7. Fetching' /\ doing' # "put" /\ ~Told'
      BY <1>1, <2>1, <3>1, <3>4, <3>5, <3>6 DEF Fetching, Fetches, Told
    <3> QED
      BY <2>1, <3>7 DEF Carried, Reported, Counts
  <2>3. CASE PutBegins
    <3>1. Take("first") /\ doing = "put" /\ UNCHANGED <<said, sock>>
      BY <2>3 DEF PutBegins, Answer
    <3>2. ~Has(226)'
      BY <3>1, NothingHas DEF Take
    <3>3. ASSUME at' = "second", opened' = FALSE
          PROVE  Storing'
      BY <3>3 DEF Storing
    <3>4. ASSUME at' = "upload", \E file \in Files : rest' = file /\ meant' = file
          PROVE  Storing'
      <4>1. PICK file \in Seq(Blocks) : rest' = file /\ meant' = file
        BY <3>4, ClientAssumption
      <4>2. Acts' => Conserved'
        <5>1. SUFFICES ASSUME Acts'
                       PROVE  Conserved'
          OBVIOUS
        <5>2. Acts
          BY <1>1, <5>1 DEF Acts
        <5>3. got' = <<>> /\ pipe' = <<>>
          BY <1>1, <2>1, <3>1, <5>2 DEF Storing
        <5> QED
          BY <4>1, <5>3, Begun
      <4>3. sock' = "open"
        BY <1>1, <2>1, <3>1 DEF Storing
      <4> QED
        BY <3>2, <3>4, <4>2, <4>3 DEF Storing
    <3>5. Storing'
      BY <2>3, <3>3, <3>4 DEF PutBegins
    <3>6. doing' \notin Fetches /\ ~Told'
      BY <1>1, <2>1, <3>1 DEF Fetches, Told
    <3> QED
      BY <2>1, <3>5, <3>6 DEF Carried, Reported, Counts
  <2>4. CASE Abandon
    <3>1. ~Transferring' /\ ~Told'
      BY <2>4 DEF Abandon, Back, Transferring, Told
    <3> QED
      BY <1>1, <3>1, Elsewhere
  <2> QED
    BY <2>2, <2>3, <2>4 DEF First
<1> QED
  BY <1>2, <1>3

LEMMA SecondCarried ==
    ASSUME TypeInv, Matched, Carried, Second
    PROVE  Carried'
<1>1. at = "second" /\ link' = link /\ UNCHANGED <<doing, stop, child, pipe, got>>
  BY DEF Second, FetchReceives, PutDone, Answer, NoAnswer, Take, NoReply, linkVars, serverVars
<1>2. CASE link # "up"
  BY <1>1, <1>2 DEF Carried
<1>3. CASE link = "up"
  <2>1. /\ child' # "moved" /\ (doing \in Fetches => Fetching) /\ (doing = "put" => Storing)
        /\ ~Told
    BY <1>1, <1>3, NotToldYet DEF Carried, Over, Ended
  <2>2. CASE FetchReceives
    <3>1. Take("second") /\ Head(inbox).code = 226 /\ doing \in Fetches /\ UNCHANGED <<rest, meant>>
      BY <2>2 DEF FetchReceives, Answer
    <3>2. inbox # <<>> /\ eintr' = FALSE
      BY <3>1 DEF Take, TypeInv, ClientTyped
    <3>3. Has(226)
      BY <3>1, <3>2, HeadHas
    <3>4. Conserved /\ rest' = <<>>
      BY <1>1, <2>1, <3>1, <3>3 DEF Fetching
    <3>5. Conserved'
      BY <1>1, <3>1, <3>4, ConservedKept DEF dataVars
    <3>6. CASE at' = "data" /\ said' = said
      <4>1. Fetching' /\ doing' # "put" /\ ~Told'
        BY <1>1, <2>1, <3>1, <3>2, <3>4, <3>5, <3>6 DEF Fetching, Fetches, Told
      <4> QED
        BY <2>1, <4>1 DEF Carried, Reported, Counts
    <3>7. CASE Back("downloaded") /\ opened' = FALSE
      <4>1. ~Transferring' /\ Over' /\ ~opened'
        BY <3>7 DEF Back, Transferring, Over
      <4> QED
        BY <1>1, <4>1, Elsewhere
    <3> QED
      BY <2>2, <3>6, <3>7 DEF FetchReceives
  <2>3. CASE PutDone
    <3>1. /\ Take("second") /\ Head(inbox).code = 226 /\ doing = "put"
          /\ at' = "loop" /\ UNCHANGED <<opened, rest, meant>>
      BY <2>3 DEF PutDone, PutEnds, Answer, Back
    <3>2. inbox # <<>>
      BY <3>1 DEF Take
    <3>3. Has(226)
      BY <3>1, <3>2, HeadHas
    <3>4. Idle /\ outbox' = <<>>
      BY <1>3, <3>1, TakeKnows DEF Waits
    <3>5. Counts' => Conserved' /\ pipe' = <<>> /\ rest' = <<>>
      <4>1. SUFFICES ASSUME Counts'
                     PROVE  Conserved' /\ pipe' = <<>> /\ rest' = <<>>
        OBVIOUS
      <4>2. opened /\ ~stop
        BY <1>1, <3>1, <4>1 DEF Counts
      <4>3. Conserved /\ pipe = <<>> /\ rest = <<>>
        BY <1>1, <2>1, <3>1, <3>3, <4>2 DEF Storing
      <4> QED
        BY <1>1, <3>1, <4>3, ConservedKept DEF dataVars
    <3>6. Idle' /\ Over'
      BY <1>1, <3>1, <3>4 DEF Idle, Over
    <3>7. Storing' /\ Fetching'
      BY <3>1 DEF Storing, Fetching
    <3> QED
      BY <2>1, <3>4, <3>5, <3>6, <3>7 DEF Carried, Reported
  <2>4. CASE Abandon
    <3>1. ~Transferring' /\ ~Told'
      BY <2>4 DEF Abandon, Back, Transferring, Told
    <3> QED
      BY <1>1, <3>1, Elsewhere
  <2> QED
    BY <2>2, <2>3, <2>4 DEF Second
<1> QED
  BY <1>2, <1>3

LEMMA UploadCarried ==
    ASSUME TypeInv, Matched, Carried, Upload \/ EndUpload
    PROVE  Carried'
<1>1. at = "upload" /\ link' = link /\ UNCHANGED <<doing, said, stop, opened, inbox, child, meant, got>>
  BY DEF Upload, EndUpload, linkVars, serverVars, dataVars
<1>2. doing = "put"
  BY <1>1 DEF TypeInv, ClientTyped
<1>3. CASE link # "up"
  BY <1>1, <1>3 DEF Carried
<1>4. CASE link = "up"
  <2>1. child' # "moved" /\ Storing /\ ~Told
    BY <1>1, <1>2, <1>4, NotToldYet DEF Carried, Over, Ended
  <2>2. /\ sock = "open" \/ (sock = "reset" /\ child = "none")
        /\ ~Has(226)
        /\ Acts /\ ~stop => Conserved
    BY <1>1, <2>1 DEF Storing
  <2>3. ~Has(226)' /\ Acts' = Acts
    BY <1>1, <2>2 DEF Has, Acts
  <2>4. ASSUME EndUpload
        PROVE  Storing'
    <3>1. at' = "second" /\ rest' = <<>>
      BY <2>4 DEF EndUpload, dataVars
    <3>2. Conserved => Conserved'
      BY <1>1, <2>4, ConservedKept DEF EndUpload
    <3> QED
      BY <1>1, <2>2, <2>3, <3>1, <3>2 DEF Storing
  <2>5. ASSUME Upload
        PROVE  Storing'
    <3>1. CASE /\ child # "none"
               /\ rest # <<>>
               /\ pipe' = Append(pipe, Head(rest))
               /\ rest' = Tail(rest)
               /\ UNCHANGED <<at, eintr, sock>>
      <4>1. Head(rest) \in Blocks \cup {"short"}
        BY <3>1, HeadTyped DEF TypeInv, DataTyped
      <4>2. Conserved => Conserved'
        BY <1>1, <3>1, <4>1, MoveIn DEF TypeInv
      <4> QED
        BY <1>1, <2>2, <2>3, <3>1, <4>2 DEF Storing
    <3>2. CASE eintr /\ UNCHANGED <<at, sock>>
      <4>1. stop'
        BY <1>1, <3>2 DEF Matched, Doing
      <4> QED
        BY <1>1, <2>2, <2>3, <3>2, <4>1 DEF Storing
    <3>3. CASE child = "none" /\ sock' = "reset" /\ at' = at
      <4>1. ~Acts
        BY <3>3 DEF Acts
      <4> QED
        BY <1>1, <2>3, <3>3, <4>1 DEF Storing
    <3>4. CASE at' = "killed"
      BY <3>4 DEF Storing
    <3> QED
      BY <2>5, <3>1, <3>2, <3>3, <3>4 DEF Upload
  <2>6. Storing' /\ doing' \notin Fetches /\ ~Told'
    BY <1>1, <1>2, <2>1, <2>4, <2>5 DEF Fetches, Told
  <2> QED
    BY <2>1, <2>6 DEF Carried, Reported, Counts
<1> QED
  BY <1>3, <1>4

LEMMA ReceiveCarried ==
    ASSUME TypeInv, Matched, Carried, Receive
    PROVE  Carried'
<1>1. at = "data" /\ link' = link /\ UNCHANGED <<doing, stop, outbox, child, rest, meant>>
  BY DEF Receive, linkVars, serverVars
<1>2. CASE link # "up"
  BY <1>1, <1>2 DEF Carried
<1>3. CASE link = "up"
  <2>1. doing \in Fetches
    BY <1>1, <1>3 DEF Matched, Doing, Carried, Storing, Fetches
  <2>2. child' # "moved" /\ Fetching /\ ~Told
    BY <1>1, <1>3, <2>1, NotToldYet DEF Carried, Over, Ended
  <2>3. Conserved /\ rest = <<>> /\ (eintr => pipe = <<>>)
    BY <1>1, <2>2 DEF Fetching
  <2>4. Idle /\ outbox = <<>>
    BY <1>1, <1>3 DEF Matched, Conversation, Resting, Quiet, Silent
  <2>5. ASSUME at' = at, said' = said, ~eintr', Conserved'
        PROVE  Carried'
    <3>1. Fetching' /\ doing' # "put" /\ ~Told'
      BY <1>1, <2>1, <2>2, <2>3, <2>5 DEF Fetching, Fetches, Told
    <3> QED
      BY <2>2, <3>1 DEF Carried, Reported, Counts
  <2>6. CASE /\ pipe # <<>> /\ ~eintr
             /\ got' = Append(got, Head(pipe))
             /\ pipe' = Tail(pipe)
             /\ UNCHANGED <<at, said, eintr, sock>>
    <3>1. Conserved'
      BY <1>1, <2>3, <2>6, MoveOut DEF TypeInv
    <3> QED
      BY <2>5, <2>6, <3>1
  <2>7. CASE eintr' = FALSE /\ UNCHANGED <<at, said, sock, pipe, got>>
    <3>1. Conserved'
      BY <1>1, <2>3, <2>7, ConservedKept DEF dataVars
    <3> QED
      BY <2>5, <2>7, <3>1
  <2>8. CASE /\ eintr \/ pipe = <<>>
             /\ at' = "loop"
             /\ UNCHANGED <<pipe, got>>
    <3>1. Conserved' /\ pipe' = <<>> /\ rest' = <<>>
      BY <1>1, <2>3, <2>8, ConservedKept DEF dataVars
    <3>2. Idle' /\ outbox' = <<>> /\ Over'
      BY <1>1, <2>4, <2>8 DEF Idle, Over
    <3>3. Fetching' /\ Storing'
      BY <2>8 DEF Fetching, Storing
    <3> QED
      BY <2>2, <3>1, <3>2, <3>3 DEF Carried, Reported
  <2> QED
    BY <2>6, <2>7, <2>8 DEF Receive, Back
<1> QED
  BY <1>2, <1>3

-----------------------------------------------------------------------------
(* Transfers, at the server and its child.                                   *)

\* A step that leaves the transfer alone, or ends a child that has told all.
LEMMA StayCarried ==
    ASSUME Carried, UNCHANGED <<at, doing, said, stop, eintr, sock, opened>>, UNCHANGED dataVars,
           child' = child \/ (child = "leaving" /\ child' = "none"),
           link' = "up" => link = "up", Has(150)' => Has(150), Has(226)' => Has(226),
           outbox' = outbox \/ (outbox # <<>> /\ ~Gone)
    PROVE  Carried'
<1>1. CASE link' # "up"
  BY <1>1 DEF Carried
<1>2. CASE link' = "up"
  <2>1. child # "moved" /\ (doing \in Fetches => Fetching) /\ (doing = "put" => Storing) /\ Reported
    BY <1>2 DEF Carried
  <2>2. Conserved => Conserved'
    BY ConservedKept
  <2>3. (Acts' => Acts) /\ (child' = "start" => child = "start") /\ (Idle => Idle')
    BY DEF Acts, Idle
  <2>4. pipe' = pipe /\ rest' = rest /\ got' = got
    BY DEF dataVars
  <2>5. Fetching => Fetching'
    BY <2>2, <2>3, <2>4 DEF Fetching
  <2>6. Storing => Storing'
    BY <2>2, <2>3, <2>4 DEF Storing
  <2>7. (Counts' => Counts) /\ (Told' => Told) /\ (Over => Over')
    BY DEF Counts, Told, Over
  <2>8. Counts => outbox' = <<>> \/ at' \in Ended
    BY <2>1 DEF Reported, Gone
  <2>9. Reported'
    BY <2>1, <2>2, <2>3, <2>4, <2>7, <2>8 DEF Reported
  <2>10. child' # "moved"
    BY <2>1
  <2> QED
    BY <2>1, <2>5, <2>6, <2>9, <2>10 DEF Carried
<1> QED
  BY <1>1, <1>2

LEMMA ServerCarried ==
    ASSUME TypeInv, Matched, Carried,
           Accept \/ UserCommand \/ PassCommand \/ PlainCommand \/ QuitCommand \/ TransferRefused
    PROVE  Carried'
<1>1. UNCHANGED <<at, doing, said, stop, eintr, sock, opened, child>> /\ UNCHANGED dataVars
  BY DEF Accept, UserCommand, PassCommand, PlainCommand, QuitCommand, TransferRefused, serverVars
<1>2. ASSUME NEW verb \in Verbs \cup {"connect"}, NEW code \in 150..599 \ {150, 226}, Says(code, verb),
             outbox' = outbox \/ (outbox # <<>> /\ ~Gone), link' = link
      PROVE  Carried'
  <2>1. \A c : Has(c)' => Has(c) \/ c = code
    BY <1>2, SaysHas
  <2> QED
    BY <1>1, <1>2, <2>1, StayCarried
<1>3. CASE Accept
  <2>1. 220 \in 150..599 \ {150, 226} /\ Says(220, "connect") /\ outbox' = outbox /\ link' = link
    BY <1>3 DEF Accept
  <2> QED
    BY <1>2, <2>1
<1>4. ASSUME NEW verb \in Verbs, NEW code \in 150..599 \ {150, 226}, Serve(verb), Says(code, verb),
             link' = link
      PROVE  Carried'
  BY <1>2, <1>4 DEF Serve
<1>5. CASE link' # "up"
  BY <1>5 DEF Carried
<1>6. CASE UserCommand /\ link' = "up"
  <2>1. Serve("USER") /\ Says(331, "USER") /\ link' = link
    BY <1>6 DEF UserCommand, ParserCrash
  <2> QED
    BY <1>4, <2>1, VerbsAre
<1>7. CASE PassCommand /\ link' = "up"
  <2>1. PICK code \in {230, 530} : Serve("PASS") /\ Says(code, "PASS") /\ link' = link
    BY <1>7 DEF PassCommand, ParserCrash
  <2> QED
    BY <1>4, <2>1, VerbsAre
<1>8. CASE PlainCommand
  <2>1. PICK verb \in {"PASV", "CWD", "PWD"}, code \in {227, 451, 250, 550, 257} :
           Serve(verb) /\ Says(code, verb) /\ link' = link
    BY <1>8 DEF PlainCommand
  <2>2. verb \in Verbs /\ code \in 150..599 \ {150, 226}
    BY VerbsAre
  <2> QED
    BY <1>4, <2>1, <2>2
<1>9. CASE QuitCommand
  BY <1>5, <1>9 DEF QuitCommand
<1>10. CASE TransferRefused
  <2>1. PICK verb \in Transfers : Serve(verb) /\ Says(550, verb) /\ link' = link
    BY <1>10 DEF TransferRefused
  <2>2. verb \in Verbs
    BY VerbsAre, TransfersAre
  <2> QED
    BY <1>4, <2>1, <2>2
<1> QED
  BY <1>3, <1>5, <1>6, <1>7, <1>8, <1>9, <1>10

LEMMA ForkCarried ==
    ASSUME TypeInv, Matched, Carried, Fork
    PROVE  Carried'
<1>1. PICK verb \in Transfers :
         /\ Serve(verb)
         /\ verb # "STOR" => \E file \in Files : rest' = file /\ meant' = file
  BY DEF Fork
<1>2. verb \in Verbs
  BY VerbsAre, TransfersAre
<1>3. /\ UNCHANGED <<at, doing, said, stop, sock, opened, inbox, link>>
      /\ child' = "start" /\ pipe' = <<>> /\ got' = <<>>
  BY DEF Fork
<1>4. link = "up" /\ outbox # <<>> /\ ~Gone
  BY <1>1 DEF Serve
<1>5. Reported'
  <2>1. Reported /\ ~Counts
    BY <1>4 DEF Carried, Reported, Gone
  <2> QED
    BY <1>3, <2>1 DEF Reported, Counts, Told, Over
<1>6. CASE at # "first"
  <2>1. Leaving \/ at \in Single
    BY <1>1, <1>2, <1>6, ServeKnows
  <2>2. Fetching' /\ Storing'
    BY <1>3, <1>6, <2>1 DEF Leaving, Single, Ended, Fetching, Storing
  <2> QED
    BY <1>3, <1>5, <2>2 DEF Carried
<1>7. CASE at = "first"
  <2>1. verb = Wanted /\ inbox = <<>>
    BY <1>1, <1>2, <1>7, ServeKnows DEF Leaving, Single, Ended
  <2>2. ~Has(226)'
    BY <1>3, <2>1, NothingHas
  <2>3. ASSUME doing \in Fetches
        PROVE  Fetching'
    <3>1. verb # "STOR"
      BY <2>1, <2>3, VerbsAre DEF Wanted, Fetches
    <3>2. PICK file \in Seq(Blocks) : rest' = file /\ meant' = file
      BY <1>1, <3>1, ClientAssumption
    <3>3. Conserved'
      BY <1>3, <3>2, Begun
    <3>4. sock' = "open"
      BY <1>3, <1>4, <1>7, <2>3 DEF Carried, Fetching
    <3> QED
      BY <1>3, <1>7, <2>2, <3>3, <3>4 DEF Fetching
  <2>4. ASSUME doing = "put"
        PROVE  Storing'
    <3>1. sock' = "open"
      BY <1>3, <1>4, <1>7, <2>4 DEF Carried, Storing
    <3> QED
      BY <1>3, <1>7, <2>2, <3>1 DEF Storing
  <2> QED
    BY <1>3, <1>5, <2>3, <2>4 DEF Carried
<1> QED
  BY <1>6, <1>7

\* What a child has told while the client waits for its data.
LEMMA ActsKnows ==
    ASSUME TypeInv, Matched, link = "up", Transferring, ~Idle
    PROVE  /\ at \in {"first", "second", "upload"}
           /\ task = Wanted
           /\ child = "start" => at = "first"
           /\ ~Has(226)
<1>1. Conversation
  BY DEF Matched
<1>2. at \in {"first", "second", "upload"}
  BY <1>1 DEF Transferring, Conversation, Resting, Quiet
<1>3. child = "start" \/ Acts
  BY DEF TypeInv, ServerTyped, Idle, Acts
<1>4. CASE at = "first"
  <2>1. Opening
    BY <1>1, <1>4 DEF Conversation
  <2>2. CASE Silent /\ task = Wanted
    <3>1. ~Has(226)
      BY <2>2 DEF Silent, Has
    <3> QED
      BY <1>4, <2>2, <3>1
  <2>3. CASE Announced(1) /\ inbox[1].code = 150
    <3>1. Acts /\ Len(inbox) = 1 /\ task = Wanted
      BY <1>3, <2>3 DEF Announced
    <3>2. ~Has(226)
      BY <2>3, <3>1 DEF Has
    <3> QED
      BY <1>4, <3>1, <3>2
  <2> QED
    BY <2>1, <2>2, <2>3 DEF Opening
<1>5. CASE at \in {"second", "upload"}
  <2>1. Announced(0)
    BY <1>1, <1>5 DEF Conversation
  <2>2. Acts /\ Len(inbox) = 0 /\ task = Wanted /\ child # "start"
    BY <1>3, <2>1 DEF Announced
  <2>3. ~Has(226)
    BY <2>2 DEF Has
  <2> QED
    BY <1>2, <2>2, <2>3
<1> QED
  BY <1>2, <1>4, <1>5

\* Where no data is awaited, a child moves what nobody counts.
LEMMA ApartCarried ==
    ASSUME Carried, link = "up", ~Idle, ~Transferring, child' # "moved",
           UNCHANGED <<at, doing, said, stop, opened>>
    PROVE  Carried'
<1>1. Reported /\ ~Counts
  BY DEF Carried, Reported
<1>2. Reported'
  BY <1>1 DEF Reported, Counts, Told, Over
<1>3. Fetching' /\ Storing'
  BY DEF Fetching, Storing, Transferring
<1> QED
  BY <1>2, <1>3 DEF Carried

LEMMA ChildCarried ==
    ASSUME TypeInv, Matched, Carried, ChildStep
    PROVE  Carried'
<1>1. UNCHANGED <<at, doing, said, stop, eintr, sock, opened, outbox, link>> /\ meant' = meant
  BY DEF ChildStep, Begin, Fail, WriteData, StoreData, Finish, Exit, childKeeps, dataVars
<1>2. CASE link # "up"
  BY <1>1, <1>2 DEF Carried
<1>3. CASE Exit
  <2>1. UNCHANGED dataVars /\ child = "leaving" /\ child' = "none" /\ inbox' = inbox
    BY <1>3 DEF Exit
  <2>2. (Has(150)' => Has(150)) /\ (Has(226)' => Has(226))
    BY <2>1 DEF Has
  <2> QED
    BY <1>1, <2>1, <2>2, StayCarried
<1>4. CASE link = "up" /\ ~Exit
  <2>1. ~Idle /\ child' # "moved"
    BY <1>4 DEF ChildStep, Begin, Fail, WriteData, StoreData, Finish, Tells, Idle, Carried
  <2>2. CASE ~Transferring
    BY <1>1, <1>4, <2>1, <2>2, ApartCarried
  <2>3. CASE Transferring
    <3>1. /\ at \in {"first", "second", "upload"}
          /\ task = Wanted
          /\ child = "start" => at = "first"
          /\ ~Has(226)
      BY <1>4, <2>1, <2>3, ActsKnows
    <3>2. /\ doing \in {"ls", "get", "put"} /\ (at = "upload" => doing = "put")
          /\ (doing = "put") = (task = "STOR")
      BY <3>1, VerbsAre DEF Matched, Doing, TypeInv, ClientTyped, Wanted
    <3>3. child # "moved" /\ (doing \in Fetches => Fetching) /\ (doing = "put" => Storing) /\ Reported
      BY <1>4 DEF Carried
    <3>4. ~Told' /\ ~Gone
      BY <1>1, <3>1, <3>3 DEF Reported, Over, Ended, Told, Gone
    <3>5. ASSUME doing \in Fetches => Fetching', doing = "put" => Storing'
          PROVE  Carried'
      BY <1>1, <2>1, <3>4, <3>5 DEF Carried, Reported, Counts
    <3>6. ASSUME Tells(150, "moving") \/ Tells(550, "leaving") \/ Tells(150, "failing"),
                 child = "start", UNCHANGED dataVars
          PROVE  Carried'
      <4>1. at = "first"
        BY <3>1, <3>6
      <4>2. ~Has(226)'
        <5>1. PICK code \in {150, 550} : Says(code, task)
          BY <3>6 DEF Tells
        <5> QED
          BY <3>1, <5>1, SaysHas DEF TypeInv, ServerTyped
      <4>3. doing \in Fetches => Fetching'
        <5>1. SUFFICES ASSUME doing \in Fetches
                       PROVE  Fetching'
          OBVIOUS
        <5>2. Conserved /\ sock = "open"
          BY <3>3, <3>6, <4>1, <5>1 DEF Fetching
        <5> QED
          BY <1>1, <3>6, <4>1, <4>2, <5>2, ConservedKept DEF Fetching
      <4>4. doing = "put" => Storing'
        BY <1>1, <3>3, <3>6, <4>1, <4>2 DEF Storing, dataVars
      <4> QED
        BY <3>5, <4>3, <4>4
    <3>7. CASE Fail
      <4>1. child' = "leaving" /\ Says(451, task) /\ UNCHANGED dataVars
        BY <3>7 DEF Fail, Tells
      <4>2. ~Has(226)'
        BY <3>1, <4>1, SaysHas DEF TypeInv, ServerTyped
      <4>3. Acts
        BY <3>7 DEF Fail, Acts
      <4>4. doing \in Fetches => Fetching'
        <5>1. SUFFICES ASSUME doing \in Fetches
                       PROVE  Fetching'
          OBVIOUS
        <5>2. Conserved /\ sock = "open"
          BY <3>1, <3>2, <3>3, <4>3, <5>1 DEF Fetching, Fetches
        <5> QED
          BY <1>1, <3>1, <4>1, <4>2, <5>2, ConservedKept DEF Fetching
      <4>5. doing = "put" => Storing'
        BY <1>1, <3>3, <4>1, <4>2, <4>3 DEF Storing, Acts, dataVars
      <4> QED
        BY <3>5, <4>4, <4>5
    <3>8. CASE WriteData
      <4>1. /\ child = "moving" /\ task # "STOR" /\ rest # <<>>
            /\ UNCHANGED <<inbox, meant, got>>
        BY <3>8 DEF WriteData
      <4>2. doing \in Fetches /\ doing # "put" /\ Acts /\ at \in {"first", "second"}
        BY <3>1, <3>2, <4>1 DEF Fetches, Acts
      <4>3. Conserved /\ sock = "open"
        BY <3>3, <4>2 DEF Fetching
      <4>4. There
        BY <3>4, <4>3 DEF There
      <4>5. pipe' = Append(pipe, Printed(Head(rest))) /\ rest' = Tail(rest) /\ child' = child
        BY <3>8, <4>4 DEF WriteData
      <4>6. Conserved'
        <5>1. PICK block : block = Printed(Head(rest))
          OBVIOUS
        <5>2. Head(rest) \in Blocks \cup {"short"}
          BY <4>1, HeadTyped DEF TypeInv, DataTyped
        <5>3. /\ block \in Blocks \cup {"short"}
              /\ block = Head(rest) \/ (Head(rest) = "null" /\ block = "short")
          BY <5>1, <5>2 DEF Printed
        <5> QED
          BY <1>1, <4>1, <4>2, <4>3, <4>5, <5>1, <5>3, MoveIn DEF TypeInv
      <4>7. ~Has(226)'
        BY <3>1, <4>1 DEF Has
      <4>8. Fetching'
        BY <1>1, <4>2, <4>3, <4>6, <4>7 DEF Fetching
      <4> QED
        BY <3>5, <4>2, <4>8
    <3>9. CASE StoreData
      <4>1. /\ child = "moving" /\ task = "STOR" /\ pipe # <<>>
            /\ got' = Append(got, Head(pipe)) /\ pipe' = Tail(pipe)
            /\ UNCHANGED <<child, inbox, rest, meant>>
        BY <3>9 DEF StoreData
      <4>2. doing = "put" /\ doing \notin Fetches /\ Acts /\ Storing
        BY <3>2, <3>3, <4>1 DEF Fetches, Acts
      <4>3. at # "first"
        BY <4>1, <4>2 DEF Storing
      <4>4. Conserved => Conserved'
        BY <1>1, <4>1, MoveOut DEF TypeInv
      <4>5. ~Has(226)'
        BY <3>1, <4>1 DEF Has
      <4>6. Storing'
        BY <1>1, <4>1, <4>2, <4>3, <4>4, <4>5 DEF Storing
      <4> QED
        BY <3>5, <4>2, <4>6
    <3>10. CASE Finish
      <4>1. child = "moving" /\ child' = "leaving" /\ UNCHANGED dataVars /\ Acts
        BY <3>3, <3>10 DEF Finish, Tells, Acts
      <4>2. Conserved => Conserved'
        BY <1>1, <4>1, ConservedKept
      <4>3. CASE task # "STOR" /\ rest = <<>>
        <5>1. doing \in Fetches /\ doing # "put" /\ at \in {"first", "second"}
          BY <3>1, <3>2, <4>3 DEF Fetches
        <5>2. Conserved /\ sock = "open"
          BY <3>3, <4>1, <5>1 DEF Fetching
        <5>3. Fetching'
          BY <1>1, <4>1, <4>2, <4>3, <5>1, <5>2 DEF Fetching, dataVars
        <5> QED
          BY <3>5, <5>1, <5>3
      <4>4. CASE task = "STOR" /\ pipe = <<>> /\ ~There
        <5>1. doing = "put" /\ doing \notin Fetches /\ Storing
          BY <3>2, <3>3, <4>4 DEF Fetches
        <5>2. at = "second"
          BY <3>1, <3>4, <4>1, <4>4, <5>1 DEF Storing, There
        <5>3. opened /\ ~stop => Conserved' /\ pipe' = <<>> /\ rest' = <<>>
          BY <4>1, <4>2, <4>4, <5>1, <5>2 DEF Storing, dataVars
        <5>4. Storing'
          BY <1>1, <5>2, <5>3 DEF Storing
        <5> QED
          BY <3>5, <5>1, <5>4
      <4> QED
        BY <3>3, <3>10, <4>3, <4>4 DEF Finish
    <3> QED
      BY <1>4, <3>6, <3>7, <3>8, <3>9, <3>10 DEF ChildStep, Begin
  <2> QED
    BY <2>2, <2>3
<1> QED
  BY <1>2, <1>3, <1>4

-----------------------------------------------------------------------------
LEMMA CarriedNext == TypeInv /\ Matched /\ Carried /\ [Next]_vars => Carried'
<1>1. ASSUME Carried, UNCHANGED vars
      PROVE  Carried'
  <2>1. /\ UNCHANGED <<at, doing, said, stop, eintr, sock, opened, inbox, outbox, link, child>>
        /\ UNCHANGED dataVars
    BY <1>1 DEF vars, dataVars
  <2>2. (Has(150)' => Has(150)) /\ (Has(226)' => Has(226))
    BY <2>1 DEF Has
  <2> QED
    BY <1>1, <2>1, <2>2, StayCarried
<1>2. ASSUME TypeInv, Matched, Carried, Next
      PROVE  Carried'
  <2>1. CASE UserStep
    BY <1>2, <2>1, EntryCarried, AsideCarried DEF UserStep
  <2>2. CASE ClientStep
    BY <1>2, <2>2, EntryCarried, AsideCarried, DialCarried, FirstCarried, SecondCarried,
       UploadCarried, ReceiveCarried DEF ClientStep
  <2>3. CASE ServerStep
    BY <1>2, <2>3, ServerCarried, ForkCarried DEF ServerStep
  <2>4. CASE ServerStops
    <3>1. link' # "up"
      BY <2>4 DEF ServerStops
    <3> QED
      BY <3>1 DEF Carried
  <2> QED
    BY <1>2, <2>1, <2>2, <2>3, <2>4, ChildCarried, SignalCarried DEF Next
<1> QED
  BY <1>1, <1>2

(* What the client reports as listed, downloaded or uploaded has arrived     *)
(* whole, up to the lines of a download that are cut at a NUL: for files of  *)
(* any length, buffers of any size and every order in which the client, the  *)
(* server and its child move the data (list_result, get_result, put_result). *)
THEOREM ReportedTransfersAreWhole == Spec => []SuccessMeansWhole
<1> QED
  BY TypeInit, TypeNext, MatchedInit, MatchedNext, CarriedInit, CarriedNext, CarriedMeans, PTL
     DEF Spec

=============================================================================
