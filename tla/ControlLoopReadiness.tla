------------------------ MODULE ControlLoopReadiness ------------------------
(* What the loop knows of its clients when it acts: that revents is never    *)
(* stale, that getline() blocks only in the middle of a line, and how many   *)
(* lines the stdio buffers can hide; and what the process may end for.        *)
EXTENDS ControlLoopProofs

\* The slots marked ready that the walk has not reached.
Unreached(i) ==
    /\ pc \in {"accept", "scan", "read", "wait"}
    /\ i \in ready
    /\ i >= cur
    /\ pc \in {"read", "wait"} => i # cur

ReadyFresh == \A i \in Slots : Unreached(i) => fds[i] # NoClient /\ Readable(fds[i])

ReadyInv == ReadyFresh /\ BlocksOnlyOnPartialLine

LEMMA DownReadyInv ==
  ASSUME pc' = "down"
  PROVE  ReadyInv'
  BY DEF ReadyInv, ReadyFresh, Unreached, BlocksOnlyOnPartialLine

LEMMA KilledReadyInv ==
  ASSUME NEW c, NEW kind, Killed(c, kind)
  PROVE  ReadyInv'
  BY DownReadyInv DEF Killed, CloseAll

\* A slot that is still to be visited belongs to another client than the slot
\* that is being served.
LEMMA UnreachedIsOther ==
  ASSUME TypeInv, SlotInv, pc \in {"read", "wait"},
         NEW i \in Slots, i # cur, fds[i] # NoClient
  PROVE  fds[i] \in Clients /\ fds[i] # fds[cur]
  BY CurClient DEF SlotInv, HoldersDistinct, TypeInv, TypeOK

\* The server moves on from slot cur, or waits there, having touched no other
\* client's bytes.
LEMMA ServedReadyInv ==
  ASSUME TypeInv, SlotInv, ReadyInv, pc \in {"read", "wait"},
         NextSlot \/ (pc' = "wait" /\ cur' = cur),
         UNCHANGED ready,
         \A i \in Slots : i # cur => fds'[i] = fds[i],
         \A d \in Clients : d # fds[cur] => (Readable(d) => Readable(d)')
  PROVE  ReadyInv'
<1>1. cur \in Nat
  BY CurClient DEF Slots
<1>2. ASSUME NEW i \in Slots, Unreached(i)'
      PROVE  fds'[i] # NoClient /\ Readable(fds[i])' /\ fds'[i] = fds[i]
  <2>1. Unreached(i) /\ i # cur
    BY <1>1, <1>2 DEF Unreached, NextSlot, Slots
  <2>2. fds[i] # NoClient /\ Readable(fds[i])
    BY <2>1 DEF ReadyInv, ReadyFresh
  <2> QED
    BY <2>1, <2>2, UnreachedIsOther
<1>3. ReadyFresh'
  BY <1>2 DEF ReadyFresh, Readable
<1> QED
  BY <1>3 DEF ReadyInv, BlocksOnlyOnPartialLine, NextSlot

\* A write changes nothing about what can be read.
LEMMA AfterWriteReadable ==
  ASSUME TypeInv, NEW c, AfterWrite(c), UNCHANGED <<sent, pulled, part>>
  PROVE  \A d \in Clients : Readable(d) => Readable(d)'
  BY DEF AfterWrite, Readable, TypeInv, TypeOK

\* The client of slot cur is answered, or is kept waiting for its data.
LEMMA ExecuteReadyInv ==
  ASSUME TypeInv, SlotInv, ReadyInv, pc = "read", NEW kind,
         Execute(fds[cur], kind),
         \A d \in Clients : d # fds[cur] =>
             sent'[d] = sent[d] /\ pulled'[d] = pulled[d] /\ part'[d] = part[d]
  PROVE  ReadyInv'
<1> DEFINE c == fds[cur]
<1>1. c \in Clients
  BY CurClient
<1>2. \A d \in Clients : d # c => peer'[d] = peer[d]
  BY <1>1 DEF Execute, Reply, Farewell, AwaitData, AfterWrite, netVars, TypeInv, TypeOK
<1>3. \A d \in Clients : d # c => (Readable(d) => Readable(d)')
  BY <1>2 DEF Readable
<1>4. \A i \in Slots : i # cur => fds'[i] = fds[i]
  BY DEF Execute, Reply, Farewell, AwaitData, TypeInv, TypeOK
<1>5. NextSlot \/ (pc' = "wait" /\ cur' = cur)
  BY DEF Execute, Reply, Farewell, AwaitData
<1>6. UNCHANGED ready
  BY DEF Execute, Reply, Farewell, AwaitData
<1> QED
  BY <1>3, <1>4, <1>5, <1>6, ServedReadyInv

LEMMA TakeLineReadyInv ==
  ASSUME TypeInv, SlotInv, ReadyInv, TakeLine
  PROVE  ReadyInv'
  BY KilledReadyInv, ExecuteReadyInv DEF TakeLine

LEMMA ReadNothingReadyInv ==
  ASSUME TypeInv, SlotInv, ReadyInv, pc = "read", ReadNothing(fds[cur])
  PROVE  ReadyInv'
<1>1. \A d \in Clients : Readable(d) => Readable(d)'
  BY DEF ReadNothing, netVars, streamVars, Readable
<1> QED
  BY <1>1, ServedReadyInv DEF ReadNothing

LEMMA TakeFragmentReadyInv ==
  ASSUME TypeInv, SlotInv, ReadyInv, pc = "read", TakeFragment(fds[cur])
  PROVE  ReadyInv'
<1>1. ASSUME NEW kind \in Kinds, ExecuteFragment(fds[cur], kind)
      PROVE  ReadyInv'
  <2>1. \A d \in Clients : d # fds[cur] =>
           sent'[d] = sent[d] /\ pulled'[d] = pulled[d] /\ part'[d] = part[d]
    BY <1>1 DEF ExecuteFragment, TypeInv, TypeOK
  <2> QED
    BY <1>1, <2>1, ExecuteReadyInv DEF ExecuteFragment
<1> QED
  BY <1>1, KilledReadyInv DEF TakeFragment

LEMMA FillBufferReadyInv ==
  ASSUME TypeInv, SlotInv, ReadyInv, FillBuffer
  PROVE  ReadyInv'
<1> DEFINE c == fds[cur]
<1>1. pc = "read" /\ cur \in Slots /\ c \in Clients
  BY CurClient DEF FillBuffer
<1>2. UNCHANGED <<pc, cur, ready, fds, peer, sent, taken>>
  BY DEF FillBuffer, loopVars, netVars
<1>3. \A d \in Clients : d # c => (Readable(d) => Readable(d)')
  BY <1>1, <1>2 DEF FillBuffer, Readable, TypeInv, TypeOK
<1>4. ReadyFresh'
  <2> SUFFICES ASSUME NEW i \in Slots, Unreached(i)'
               PROVE  fds'[i] # NoClient /\ Readable(fds[i])'
    BY <1>2 DEF ReadyFresh, Readable
  <2>1. Unreached(i) /\ i # cur
    BY <1>1, <1>2 DEF Unreached
  <2>2. fds[i] # NoClient /\ Readable(fds[i])
    BY <2>1 DEF ReadyInv, ReadyFresh
  <2> QED
    BY <1>1, <1>2, <1>3, <2>1, <2>2, UnreachedIsOther
<1>5. taken'[c] < pulled'[c] \/ Readable(c)' \/ part'[c] = "stdio"
  BY <1>1, <1>2 DEF FillBuffer, Drained, Readable, TypeInv, TypeOK
<1> QED
  BY <1>2, <1>4, <1>5 DEF ReadyInv, BlocksOnlyOnPartialLine, Readable

\* The slot a new client is given was free, so poll() did not report it.
LEMMA AcceptReadyInv ==
  ASSUME TypeInv, ReadyInv, Accept
  PROVE  ReadyInv'
<1> DEFINE c == Head(backlog)
<1>1. CASE Killed(c, "none")
  BY <1>1, KilledReadyInv
<1>2. CASE ~Killed(c, "none")
  <2>1. /\ pc = "accept" /\ pc' = "scan"
        /\ AfterWrite(c)
        /\ UNCHANGED <<cur, ready, sent, pulled, part>>
        /\ \/ \E i \in Slots : fds[i] = NoClient /\ fds' = [fds EXCEPT ![i] = c]
           \/ UNCHANGED fds
    BY <1>2 DEF Accept, IsFirstFree, streamVars
  <2>2. \A d \in Clients : Readable(d) => Readable(d)'
    BY <2>1, AfterWriteReadable
  <2> SUFFICES ASSUME NEW i \in Slots, Unreached(i)'
               PROVE  fds'[i] # NoClient /\ Readable(fds[i])'
    BY <2>1 DEF ReadyInv, ReadyFresh, BlocksOnlyOnPartialLine, Readable
  <2>3. Unreached(i)
    BY <2>1 DEF Unreached
  <2>4. fds[i] # NoClient /\ Readable(fds[i]) /\ fds[i] \in Clients
    BY <2>3 DEF ReadyInv, ReadyFresh, TypeInv, TypeOK
  <2>5. fds'[i] = fds[i]
    BY <2>1, <2>4 DEF TypeInv, TypeOK
  <2> QED
    BY <2>2, <2>4, <2>5 DEF Readable
<1> QED
  BY <1>1, <1>2

\* Nothing a client does takes bytes away from the server.
LEMMA ClientReadable ==
  ASSUME TypeInv, NEW c \in Clients, ClientStep(c), NEW d \in Clients
  PROVE  /\ Readable(d) => Readable(d)'
         /\ part[d] = "stdio" => part'[d] = "stdio" \/ Readable(d)'
         /\ UNCHANGED <<pulled, taken>>
<1> USE DEF TypeInv, TypeOK, loopVars, netVars, streamVars, Readable
<1>1. CASE CompleteLine(c)
  <2> PICK kind \in Kinds : sent' = [sent EXCEPT ![c] = Append(@, kind)]
    BY <1>1 DEF CompleteLine
  <2>1. Len(Append(sent[c], kind)) = Len(sent[c]) + 1
    OBVIOUS
  <2>2. /\ UNCHANGED <<pulled, taken, peer>>
        /\ part' = [part EXCEPT ![c] = "none"]
    BY <1>1 DEF CompleteLine
  <2>3. sent'[c] = Append(sent[c], kind) /\ (d # c => sent'[d] = sent[d])
    OBVIOUS
  <2>4. pulled[c] <= Len(sent[c]) /\ pulled[c] \in Nat
    OBVIOUS
  <2> QED
    BY <2>1, <2>2, <2>3, <2>4
<1>2. CASE Connect(c) \/ BeginLine(c)
  BY <1>2 DEF Connect, BeginLine
<1>3. CASE Shut(c) \/ Vanish(c) \/ Dial(c)
  BY <1>3 DEF Shut, Vanish, Dial
<1> QED
  BY <1>1, <1>2, <1>3 DEF ClientStep, SendLine, FinishLine

LEMMA ClientStepReadyInv ==
  ASSUME TypeInv, ReadyInv, NEW c \in Clients, ClientStep(c)
  PROVE  ReadyInv'
<1>1. UNCHANGED <<pc, cur, ready, fds>>
  BY DEF ClientStep, Connect, BeginLine, SendLine, FinishLine, CompleteLine, Shut,
         Vanish, Dial, loopVars
<1>2. ReadyFresh'
  <2> SUFFICES ASSUME NEW i \in Slots, Unreached(i)'
               PROVE  fds'[i] # NoClient /\ Readable(fds[i])'
    BY <1>1 DEF ReadyFresh, Readable
  <2>1. fds[i] # NoClient /\ Readable(fds[i]) /\ fds[i] \in Clients
    BY <1>1 DEF Unreached, ReadyInv, ReadyFresh, TypeInv, TypeOK
  <2> QED
    BY <1>1, <2>1, ClientReadable DEF Readable
<1>3. BlocksOnlyOnPartialLine'
  <2> SUFFICES ASSUME pc = "read"
               PROVE  \/ taken'[fds[cur]] < pulled'[fds[cur]]
                      \/ Readable(fds[cur])'
                      \/ part'[fds[cur]] = "stdio"
    BY <1>1 DEF BlocksOnlyOnPartialLine, Readable
  <2>1. fds[cur] \in Clients
    BY CurClient
  <2> QED
    BY <1>1, <2>1, ClientReadable DEF ReadyInv, BlocksOnlyOnPartialLine, Readable
<1> QED
  BY <1>2, <1>3 DEF ReadyInv

\* A step of the walk that reads nothing.
LEMMA WalkReadyInv ==
  ASSUME TypeInv, ReadyInv,
         NoAccept \/ AcceptFails \/ SkipSlot \/ VisitSlot \/ EndScan \/ Signal
  PROVE  ReadyInv'
<1> USE DEF netVars, streamVars, Readable
<1>1. CASE NoAccept \/ AcceptFails \/ EndScan
  BY <1>1 DEF NoAccept, AcceptFails, EndScan, ReadyInv, ReadyFresh, Unreached, BlocksOnlyOnPartialLine
<1>2. CASE SkipSlot
  <2>1. cur \in Nat
    BY <1>2 DEF SkipSlot, Slots
  <2> QED
    BY <1>2, <2>1
    DEF SkipSlot, Slots, ReadyInv, ReadyFresh, Unreached, BlocksOnlyOnPartialLine
<1>3. CASE VisitSlot
  <2>1. Readable(fds[cur])
    BY <1>3 DEF VisitSlot, ReadyInv, ReadyFresh, Unreached, Slots
  <2> QED
    BY <1>3, <2>1
    DEF VisitSlot, ReadyInv, ReadyFresh, Unreached, BlocksOnlyOnPartialLine
<1>4. CASE Signal
  BY <1>4 DEF Signal, ReadyInv, ReadyFresh, Unreached, BlocksOnlyOnPartialLine
<1> QED
  BY <1>1, <1>2, <1>3, <1>4

LEMMA PollReadyInv ==
  ASSUME PollReady \/ PollTimeout
  PROVE  ReadyInv'
<1>1. pc' = "accept" /\ UNCHANGED <<fds, peer, sent, pulled, part>>
  BY DEF PollReady, PollTimeout, netVars, streamVars
<1>2. \A i \in Slots : i \in ready' => fds[i] # NoClient /\ Readable(fds[i])
  BY LoopAssumption DEF PollReady, PollTimeout, Pollable, ReadySlots, Slots
<1> QED
  BY <1>1, <1>2 DEF ReadyInv, ReadyFresh, Unreached, BlocksOnlyOnPartialLine, Readable

LEMMA WaitReadyInv ==
  ASSUME TypeInv, SlotInv, ReadyInv, DataReady \/ DataRefused
  PROVE  ReadyInv'
<1>1. pc = "wait"
  BY DEF DataReady, DataRefused
<1>2. CASE DataReady
  <2>1. \A d \in Clients : Readable(d) => Readable(d)'
    BY <1>2 DEF DataReady, streamVars, Readable
  <2> QED
    BY <1>1, <1>2, <2>1, ServedReadyInv DEF DataReady
<1>3. CASE Closes /\ Reply(fds[cur]) /\ UNCHANGED streamVars
  <2>1. \A d \in Clients : Readable(d) => Readable(d)'
    BY <1>3, AfterWriteReadable DEF Reply, streamVars
  <2> QED
    BY <1>1, <1>3, <2>1, ServedReadyInv DEF Reply
<1> QED
  BY <1>2, <1>3, KilledReadyInv DEF DataRefused

LEMMA NextReadyInv ==
  ASSUME TypeInv, SlotInv, ReadyInv, [Next]_vars
  PROVE  ReadyInv'
<1>1. CASE TestStop \/ PollInterrupted
  <2>1. CASE pc' = "down"
    BY <2>1, DownReadyInv
  <2>2. CASE pc' = "poll"
    BY <2>2 DEF ReadyInv, ReadyFresh, Unreached, BlocksOnlyOnPartialLine
  <2> QED
    BY <1>1, <2>1, <2>2 DEF TestStop, PollInterrupted, Shutdown, CloseAll
<1>2. CASE PollReady \/ PollTimeout
  BY <1>2, PollReadyInv
<1>3. CASE NoAccept \/ AcceptFails \/ SkipSlot \/ VisitSlot \/ EndScan \/ Signal
  BY <1>3, WalkReadyInv
<1>4. CASE Accept
  BY <1>4, AcceptReadyInv
<1>5. CASE TakeLine
  BY <1>5, TakeLineReadyInv
<1>6. CASE FillBuffer
  BY <1>6, FillBufferReadyInv
<1>7. CASE ReadEnd \/ ReadInterrupted
  BY <1>7, ReadNothingReadyInv, TakeFragmentReadyInv DEF ReadEnd, ReadInterrupted
<1>8. CASE DataReady \/ DataRefused
  BY <1>8, WaitReadyInv
<1>9. CASE \E c \in Clients : ClientStep(c)
  BY <1>9, ClientStepReadyInv
<1>10. CASE UNCHANGED vars
  BY <1>10
  DEF vars, ReadyInv, ReadyFresh, Unreached, BlocksOnlyOnPartialLine, Readable
<1> QED
  BY <1>1, <1>2, <1>3, <1>4, <1>5, <1>6, <1>7, <1>8, <1>9, <1>10
  DEF Next, ServerStep, Terminated

LEMMA InitReadyInv == Init => ReadyInv
  BY DEF Init, ReadyInv, ReadyFresh, Unreached, BlocksOnlyOnPartialLine

THEOREM ReadinessInvariant == Spec => []ReadyInv
  BY InitReadyInv, NextReadyInv, TypeInvariant, SlotInvariant, PTL DEF Spec

\* A slot poll() marked ready and the walk has not reached still belongs to a
\* client whose read() returns at once, whatever was accepted, served or lost
\* since.
THEOREM ReadinessNeverStale == Spec => []NoStaleReadiness
<1>1. ReadyInv => NoStaleReadiness
  BY DEF ReadyInv, ReadyFresh, Unreached, NoStaleReadiness
<1> QED
  BY <1>1, ReadinessInvariant, PTL

\* The server is never inside getline() on a client that has nothing to say: it
\* blocks there only in the middle of a line.
THEOREM BlocksOnlyInALine == Spec => []BlocksOnlyOnPartialLine
<1>1. ReadyInv => BlocksOnlyOnPartialLine
  BY DEF ReadyInv
<1> QED
  BY <1>1, ReadinessInvariant, PTL

-----------------------------------------------------------------------------
(* The lines hidden from poll().  A client that keeps to its window is never *)
(* owed more than Window answers, a line it has begun included; getline()    *)
(* returns one of the lines read() pulled, so fewer than Window stay behind.  *)

Asked(c) == Len(sent[c]) + (IF part[c] = "none" THEN 0 ELSE 1)

WindowKept == \A c \in Clients : pc # "down" => Asked(c) <= Answered(c) + Window

StrandInv == WindowKept /\ StrandBound

LEMMA DownStrandInv ==
  ASSUME pc' = "down"
  PROVE  StrandInv'
  BY DEF StrandInv, WindowKept, StrandBound

LEMMA KilledStrandInv ==
  ASSUME NEW c, NEW kind, Killed(c, kind)
  PROVE  StrandInv'
  BY DownStrandInv DEF Killed, CloseAll

\* A step that touches no line, away from getline() and the data connection.
LEMMA QuietStrandInv ==
  ASSUME TypeInv, StrandInv, pc \notin {"read", "wait", "down"}, pc' # "wait",
         UNCHANGED streamVars
  PROVE  StrandInv'
  BY DEF StrandInv, WindowKept, StrandBound, Asked, Answered, WaitingFor, streamVars

\* The lines of the client that has just been served; the others are as before.
LEMMA ServedStrandInv ==
  ASSUME TypeInv, TypeInv', StrandInv, pc \in {"read", "wait"}, pc' \in {"scan", "wait"},
         pc' = "wait" => UNCHANGED <<cur, fds>>,
         NEW c \in Clients, c = fds[cur],
         \A d \in Clients : d # c =>
             /\ sent'[d] = sent[d] /\ pulled'[d] = pulled[d]
             /\ taken'[d] = taken[d] /\ part'[d] = part[d],
         Asked(c)' <= Answered(c)' + Window,
         pulled'[c] - taken'[c] < Window
  PROVE  StrandInv'
<1>1. ASSUME NEW d \in Clients, d # c
      PROVE  Asked(d)' <= Answered(d)' + Window /\ pulled'[d] - taken'[d] < Window
  <2>1. ~WaitingFor(d) /\ ~WaitingFor(d)'
    BY <1>1 DEF WaitingFor
  <2>2. Asked(d) <= Answered(d) + Window /\ pulled[d] - taken[d] < Window
    BY <1>1 DEF StrandInv, WindowKept, StrandBound
  <2> QED
    BY <1>1, <2>1, <2>2 DEF Asked, Answered
<1> QED
  BY <1>1 DEF StrandInv, WindowKept, StrandBound

\* getline() returned the n-th line of the client, the buffer holding few enough.
LEMMA ExecuteStrandInv ==
  ASSUME TypeInv, TypeInv', StrandInv, pc = "read", NEW kind, Execute(fds[cur], kind),
         NEW c \in Clients, c = fds[cur],
         \A d \in Clients : d # c =>
             /\ sent'[d] = sent[d] /\ pulled'[d] = pulled[d]
             /\ taken'[d] = taken[d] /\ part'[d] = part[d],
         taken'[c] = taken[c] + 1,
         Asked(c)' <= taken[c] + Window,
         pulled'[c] - taken'[c] < Window
  PROVE  StrandInv'
<1>1. pc' \in {"scan", "wait"} /\ (pc' = "wait" => UNCHANGED <<cur, fds>>)
  BY DEF Execute, Reply, Farewell, AwaitData, NextSlot
<1>2. taken[c] \in Nat /\ Asked(c)' \in Int
  BY DEF TypeInv, TypeOK, Asked
<1>3. Answered(c)' >= taken[c]
  BY <1>2 DEF Answered
<1>4. Answered(c)' \in Int
  BY <1>2 DEF Answered
<1>5. Asked(c)' <= Answered(c)' + Window
  BY <1>2, <1>3, <1>4, LoopAssumption
<1> QED
  BY <1>1, <1>5, ServedStrandInv

\* The client being read from has at most Window lines without an answer.
LEMMA CurWindow ==
  ASSUME TypeInv, StrandInv, pc = "read"
  PROVE  Asked(fds[cur]) <= taken[fds[cur]] + Window
<1>1. fds[cur] \in Clients /\ taken[fds[cur]] \in Nat
  BY CurClient DEF TypeInv, TypeOK
<1> QED
  BY <1>1 DEF StrandInv, WindowKept, Answered, WaitingFor

\* The numbers the window compares.
LEMMA WindowTypes ==
  ASSUME TypeInv, NEW c \in Clients
  PROVE  /\ Len(sent[c]) \in Nat /\ pulled[c] \in Nat /\ taken[c] \in Nat
         /\ Window \in Nat \ {0} /\ Asked(c) \in Nat
         /\ Len(sent[c]) <= Asked(c)
         /\ taken[c] <= pulled[c] /\ pulled[c] <= Len(sent[c])
  BY LoopAssumption DEF TypeInv, TypeOK, Asked

\* A step that moves on and touches no line counts the answer of a line waited for.
LEMMA AnsweredMovingOn ==
  ASSUME TypeInv, NEW c \in Clients, pc' = "scan", UNCHANGED streamVars
  PROVE  Asked(c)' = Asked(c) /\ Answered(c)' = taken[c]
<1>1. ~WaitingFor(c)'
  BY DEF WaitingFor
<1>2. taken'[c] = taken[c] /\ taken[c] \in Nat
  BY WindowTypes DEF streamVars
<1>3. Answered(c)' = taken[c]
  BY <1>1, <1>2 DEF Answered
<1>4. Asked(c)' = Asked(c)
  BY DEF Asked, streamVars
<1> QED
  BY <1>3, <1>4

LEMMA TakeLineStrandInv ==
  ASSUME TypeInv, TypeInv', StrandInv, TakeLine
  PROVE  StrandInv'
<1>0. pc = "read" /\ fds[cur] \in Clients
  BY CurClient DEF TakeLine
<1> PICK c \in Clients : c = fds[cur]
  BY <1>0
<1>1. pc = "read" /\ c \in Clients
  BY <1>0
<1> DEFINE kind == sent[c][taken[c] + 1]
<1>2. CASE Killed(c, kind)
  BY <1>2, KilledStrandInv
<1>3. CASE /\ taken' = [taken EXCEPT ![c] = @ + 1]
           /\ UNCHANGED <<sent, pulled, part>>
           /\ Execute(c, kind)
  <2>1. taken'[c] = taken[c] + 1 /\ \A d \in Clients : d # c => taken'[d] = taken[d]
    BY <1>1, <1>3 DEF TypeInv, TypeOK
  <2>2. Asked(c)' <= taken[c] + Window
    BY <1>1, <1>3, CurWindow DEF Asked
  <2>3. pulled'[c] - taken'[c] < Window
    <3>1. Asked(c) <= taken[c] + Window
      BY <1>1, CurWindow
    <3>2. pulled'[c] = pulled[c]
      BY <1>3
    <3> QED
      BY <1>1, <2>1, <3>1, <3>2, WindowTypes
  <2>4. \A d \in Clients : d # c =>
             /\ sent'[d] = sent[d] /\ pulled'[d] = pulled[d]
             /\ taken'[d] = taken[d] /\ part'[d] = part[d]
    BY <1>3, <2>1
  <2> QED
    BY <1>1, <1>3, <2>1, <2>2, <2>3, <2>4, ExecuteStrandInv
<1> QED
  BY <1>2, <1>3 DEF TakeLine

LEMMA TakeFragmentStrandInv ==
  ASSUME TypeInv, TypeInv', StrandInv, pc = "read", Drained(fds[cur]),
         TakeFragment(fds[cur])
  PROVE  StrandInv'
<1> PICK c \in Clients : c = fds[cur]
  BY CurClient
<1>1. c \in Clients
  OBVIOUS
<1>2. ASSUME NEW kind \in Kinds, ExecuteFragment(c, kind)
      PROVE  StrandInv'
  <2>1. /\ sent[c] \in Seq(Kinds)
        /\ Len(Append(sent[c], kind)) = Len(sent[c]) + 1
    BY <1>1 DEF TypeInv, TypeOK
  <2>2. /\ sent'[c] = Append(sent[c], kind)
        /\ pulled'[c] = pulled[c] + 1
        /\ taken'[c] = taken[c] + 1
        /\ part'[c] = "none"
    BY <1>1, <1>2 DEF ExecuteFragment, TypeInv, TypeOK
  <2>3. \A d \in Clients : d # c =>
             /\ sent'[d] = sent[d] /\ pulled'[d] = pulled[d]
             /\ taken'[d] = taken[d] /\ part'[d] = part[d]
    BY <1>1, <1>2 DEF ExecuteFragment, TypeInv, TypeOK
  <2>4. Asked(c)' <= taken[c] + Window
    <3>1. Asked(c) <= taken[c] + Window
      BY CurWindow
    <3>2. Asked(c) = Len(sent[c]) + 1
      BY DEF Asked, TakeFragment
    <3>3. Asked(c)' = Len(sent[c]) + 1
      BY <1>1, <2>1, <2>2, WindowTypes DEF Asked
    <3> QED
      BY <3>1, <3>2, <3>3
  <2>5. pulled'[c] - taken'[c] < Window
    BY <1>1, <2>2, WindowTypes DEF Drained
  <2>6. Execute(c, kind)
    BY <1>2 DEF ExecuteFragment
  <2> QED
    BY <1>1, <2>2, <2>3, <2>4, <2>5, <2>6, ExecuteStrandInv
<1> QED
  BY <1>2, KilledStrandInv DEF TakeFragment

LEMMA ReadNothingStrandInv ==
  ASSUME TypeInv, TypeInv', StrandInv, pc = "read", Drained(fds[cur]),
         ReadNothing(fds[cur])
  PROVE  StrandInv'
<1> PICK c \in Clients : c = fds[cur]
  BY CurClient
<1>1. c \in Clients
  OBVIOUS
<1>2. UNCHANGED streamVars /\ pc' = "scan"
  BY DEF ReadNothing, NextSlot
<1>3. Asked(c)' <= Answered(c)' + Window
  BY <1>1, <1>2, AnsweredMovingOn, CurWindow
<1>4. pulled'[c] - taken'[c] < Window
  BY <1>1, <1>2, WindowTypes DEF Drained, streamVars
<1> QED
  BY <1>1, <1>2, <1>3, <1>4, ServedStrandInv DEF streamVars

LEMMA FillBufferStrandInv ==
  ASSUME TypeInv, StrandInv, FillBuffer
  PROVE  StrandInv'
<1> DEFINE c == fds[cur]
<1>1. pc = "read" /\ c \in Clients
  BY CurClient DEF FillBuffer
<1>2. UNCHANGED <<pc, cur, fds, sent, taken>>
  BY DEF FillBuffer, loopVars
<1>3. \A d \in Clients : d # c => pulled'[d] = pulled[d]
  BY <1>1 DEF FillBuffer, TypeInv, TypeOK
<1>4. \A d \in Clients : part'[d] = "none" <=> part[d] = "none"
  BY <1>1 DEF FillBuffer, TypeInv, TypeOK
<1> QED
  BY <1>1, <1>2, <1>3, <1>4
  DEF StrandInv, WindowKept, StrandBound, Asked, Answered, WaitingFor

\* The data connection is there, or is given up: the line counts as answered.
LEMMA WaitStrandInv ==
  ASSUME TypeInv, TypeInv', StrandInv, DataReady \/ DataRefused
  PROVE  StrandInv'
<1>0. pc = "wait" /\ fds[cur] \in Clients
  BY CurClient DEF DataReady, DataRefused
<1> PICK c \in Clients : c = fds[cur]
  BY <1>0
<1>1. pc = "wait" /\ c \in Clients
  BY <1>0
<1>2. CASE pc' = "scan" /\ UNCHANGED streamVars
  <2>1. Asked(c) <= Answered(c) + Window /\ pulled[c] - taken[c] < Window
    BY <1>1 DEF StrandInv, WindowKept, StrandBound
  <2>2. Asked(c)' <= Answered(c)' + Window
    <3>1. Asked(c)' = Asked(c) /\ Answered(c)' = taken[c]
      BY <1>1, <1>2, AnsweredMovingOn
    <3>2. Answered(c) \in Int /\ Answered(c) <= taken[c]
      BY <1>1, WindowTypes DEF Answered
    <3> QED
      BY <1>1, <2>1, <3>1, <3>2, WindowTypes
  <2> QED
    BY <1>1, <1>2, <2>1, <2>2, ServedStrandInv DEF streamVars
<1> QED
  BY <1>2, KilledStrandInv DEF DataReady, DataRefused, Reply, NextSlot

\* A client that begins or sends a line had room for it in its window.
LEMMA ClientStepStrandInv ==
  ASSUME TypeInv, StrandInv, NEW c \in Clients, ClientStep(c)
  PROVE  StrandInv'
<1>1. UNCHANGED <<pc, cur, fds, pulled, taken>>
  BY DEF ClientStep, Connect, BeginLine, SendLine, FinishLine, CompleteLine, Shut,
         Vanish, Dial, loopVars, streamVars
<1>2. StrandBound'
  BY <1>1 DEF StrandInv, StrandBound
<1>3. \A d \in Clients : Answered(d)' = Answered(d) /\ Answered(d) \in Int
  BY <1>1, WindowTypes DEF Answered, WaitingFor
<1>4. ASSUME NEW d \in Clients, pc # "down"
      PROVE  Asked(d)' <= Answered(d) + Window
  <2>1. Asked(d) <= Answered(d) + Window
    BY <1>4 DEF StrandInv, WindowKept
  <2>2. CASE Asked(d)' = Asked(d)
    BY <2>1, <2>2
  <2>3. CASE d = c /\ MaySend(c) /\ part[c] = "none" /\ Asked(c)' = Len(sent[c]) + 1
    BY <1>3, <2>3, WindowTypes DEF MaySend
  <2>4. CASE BeginLine(c)
    <3>1. d = c => Asked(c)' = Len(sent[c]) + 1
      BY <2>4 DEF BeginLine, Asked, TypeInv, TypeOK
    <3>2. d # c => Asked(d)' = Asked(d)
      BY <2>4 DEF BeginLine, Asked, TypeInv, TypeOK
    <3> QED
      BY <2>2, <2>3, <2>4, <3>1, <3>2 DEF BeginLine
  <2>5. CASE CompleteLine(c) /\ (SendLine(c) \/ FinishLine(c))
    <3> PICK kind \in Kinds : sent' = [sent EXCEPT ![c] = Append(@, kind)]
      BY <2>5 DEF CompleteLine
    <3>1. sent'[c] = Append(sent[c], kind) /\ (d # c => sent'[d] = sent[d])
      BY DEF TypeInv, TypeOK
    <3>2. Len(Append(sent[c], kind)) = Len(sent[c]) + 1
      BY DEF TypeInv, TypeOK
    <3>3. part'[c] = "none" /\ (d # c => part'[d] = part[d])
      BY <2>5 DEF CompleteLine, TypeInv, TypeOK
    <3>4. Asked(c)' = Len(sent[c]) + 1
      BY <3>1, <3>2, <3>3, WindowTypes DEF Asked
    <3>5. d # c => Asked(d)' = Asked(d)
      BY <3>1, <3>3 DEF Asked
    <3>6. part[c] # "none" => Asked(c) = Len(sent[c]) + 1
      BY DEF Asked
    <3> QED
      BY <2>2, <2>3, <2>5, <3>4, <3>5, <3>6 DEF SendLine, FinishLine
  <2>6. CASE Connect(c) \/ Shut(c) \/ Vanish(c) \/ Dial(c)
    <3>1. UNCHANGED <<sent, part>>
      BY <2>6 DEF Connect, Shut, Vanish, Dial, streamVars
    <3> QED
      BY <2>2, <3>1 DEF Asked
  <2> QED
    BY <2>4, <2>5, <2>6 DEF ClientStep, SendLine, FinishLine
<1> QED
  BY <1>1, <1>2, <1>3, <1>4 DEF StrandInv, WindowKept

LEMMA NextStrandInv ==
  ASSUME TypeInv, StrandInv, [Next]_vars
  PROVE  StrandInv'
<1>1. TypeInv'
  BY NextTypeInv
<1>2. CASE TestStop \/ PollInterrupted
  <2>1. CASE pc' = "down"
    BY <2>1, DownStrandInv
  <2>2. CASE pc' = "poll" /\ pc = "test" /\ UNCHANGED streamVars
    BY <2>2, QuietStrandInv
  <2> QED
    BY <1>2, <2>1, <2>2 DEF TestStop, PollInterrupted, Shutdown, CloseAll
<1>3. CASE \/ PollReady \/ PollTimeout \/ NoAccept \/ AcceptFails \/ SkipSlot
           \/ VisitSlot \/ EndScan
  BY <1>3, QuietStrandInv
  DEF PollReady, PollTimeout, NoAccept, AcceptFails, SkipSlot, VisitSlot, EndScan
<1>4. CASE Accept
  BY <1>4, QuietStrandInv, KilledStrandInv DEF Accept
<1>5. CASE TakeLine
  BY <1>1, <1>5, TakeLineStrandInv
<1>6. CASE FillBuffer
  BY <1>6, FillBufferStrandInv
<1>7. CASE ReadEnd \/ ReadInterrupted
  BY <1>1, <1>7, ReadNothingStrandInv, TakeFragmentStrandInv
  DEF ReadEnd, ReadInterrupted
<1>8. CASE DataReady \/ DataRefused
  BY <1>1, <1>8, WaitStrandInv
<1>9. CASE UNCHANGED <<pc, cur, fds, streamVars>>
  BY <1>9
  DEF StrandInv, WindowKept, StrandBound, Asked, Answered, WaitingFor, streamVars
<1>10. CASE \E c \in Clients : ClientStep(c)
  BY <1>10, ClientStepStrandInv
<1> QED
  BY <1>2, <1>3, <1>4, <1>5, <1>6, <1>7, <1>8, <1>9, <1>10
  DEF Next, ServerStep, Signal, Terminated, vars, streamVars

LEMMA InitStrandInv == Init => StrandInv
<1> SUFFICES ASSUME Init, NEW c \in Clients
             PROVE  Asked(c) <= Answered(c) + Window /\ pulled[c] - taken[c] < Window
  BY DEF StrandInv, WindowKept, StrandBound
<1>1. Asked(c) = 0 /\ Answered(c) = 0 /\ pulled[c] = 0 /\ taken[c] = 0
  BY DEF Init, Asked, Answered, WaitingFor
<1> QED
  BY <1>1, LoopAssumption

\* A client that waits for its answers, Window lines at a time, never has Window
\* lines hidden in the server's FILE buffer once the server has left getline().
THEOREM FewLinesStranded == Spec => []StrandBound
<1>1. StrandInv => StrandBound
  BY DEF StrandInv
<1> QED
  BY <1>1, InitStrandInv, NextStrandInv, TypeInvariant, PTL DEF Spec

-----------------------------------------------------------------------------
(* How the process ends: told to by a signal, or killed over one client.     *)

\* A reason for the process to end in this step.
Reason == \/ stop
          \/ \E c \in Clients :
                AtWorkFor(c) /\ (peer[c] \in {"gone", "reset"} \/ OnOddLine(c))

LEMMA AcceptHead ==
  ASSUME TypeInv, Accept
  PROVE  backlog # <<>> /\ Head(backlog) \in Clients
<1>1. backlog # <<>> /\ backlog \in Seq(Clients)
  BY DEF Accept, TypeInv, TypeOK, AcceptReady
<1> QED
  BY <1>1

\* Whatever carries out a line moves on or waits.
LEMMA ExecuteGoesOn ==
  ASSUME NEW c, NEW kind, Execute(c, kind)
  PROVE  pc' # "down"
  BY DEF Execute, Reply, Farewell, AwaitData, NextSlot

LEMMA EndHasReason ==
  ASSUME TypeInv, [Next]_vars, pc # "down", pc' = "down"
  PROVE  Reason
<1>1. CASE TestStop \/ PollInterrupted
  BY <1>1 DEF TestStop, PollInterrupted, Reason
<1>2. CASE Accept
  <2>1. Killed(Head(backlog), "none")
    BY <1>2 DEF Accept
  <2>2. peer[Head(backlog)] = "reset"
    BY <2>1 DEF Killed
  <2>3. AtWorkFor(Head(backlog))
    BY <1>2, AcceptHead DEF Accept, AtWorkFor
  <2> QED
    BY <1>2, <2>2, <2>3, AcceptHead DEF Reason
<1>3. CASE TakeLine
  <2>0. pc = "read" /\ fds[cur] \in Clients
    BY <1>3, CurClient DEF TakeLine
  <2> PICK c \in Clients : c = fds[cur]
    BY <2>0
  <2> PICK kind : kind = sent[c][taken[c] + 1]
    OBVIOUS
  <2>1. taken[c] < pulled[c] /\ Killed(c, kind)
    BY <1>3, ExecuteGoesOn DEF TakeLine
  <2>2. peer[c] \in {"gone", "reset"} \/ OnOddLine(c)
    BY <2>0, <2>1 DEF Killed, OnOddLine
  <2>3. AtWorkFor(c)
    BY <2>0 DEF AtWorkFor
  <2> QED
    BY <2>2, <2>3 DEF Reason
<1>4. CASE ReadEnd \/ ReadInterrupted
  <2>0. pc = "read" /\ fds[cur] \in Clients
    BY <1>4, CurClient DEF ReadEnd, ReadInterrupted
  <2> PICK c \in Clients : c = fds[cur]
    BY <2>0
  <2>1. Drained(c) /\ TakeFragment(c)
    BY <1>4 DEF ReadEnd, ReadInterrupted, ReadNothing, NextSlot
  <2>2. OnOddLine(c)
    BY <2>0, <2>1 DEF OnOddLine, Drained, TakeFragment
  <2>3. AtWorkFor(c)
    BY <2>0 DEF AtWorkFor
  <2> QED
    BY <2>2, <2>3 DEF Reason
<1>5. CASE DataRefused
  <2>0. pc = "wait" /\ fds[cur] \in Clients
    BY <1>5, CurClient DEF DataRefused
  <2>1. Killed(fds[cur], "xfer")
    BY <1>5 DEF DataRefused, Reply, NextSlot
  <2>2. peer[fds[cur]] = "reset"
    BY <2>1 DEF Killed
  <2>3. AtWorkFor(fds[cur])
    BY <2>0 DEF AtWorkFor
  <2> QED
    BY <2>0, <2>2, <2>3 DEF Reason
<1>6. CASE \/ PollReady \/ PollTimeout \/ AcceptFails \/ NoAccept \/ SkipSlot \/ VisitSlot
           \/ EndScan \/ FillBuffer \/ DataReady \/ Signal
  BY <1>6
  DEF PollReady, PollTimeout, AcceptFails, NoAccept, SkipSlot, VisitSlot, EndScan,
      FillBuffer, DataReady, NextSlot, Signal, loopVars
<1>7. ASSUME NEW c \in Clients, ClientStep(c)
      PROVE  FALSE
  BY <1>7
  DEF ClientStep, Connect, BeginLine, SendLine, FinishLine, CompleteLine, Shut, Vanish,
      Dial, loopVars
<1>8. CASE UNCHANGED vars
  BY <1>8 DEF vars
<1> QED
  BY <1>1, <1>2, <1>3, <1>4, <1>5, <1>6, <1>7, <1>8 DEF Next, ServerStep, Terminated

\* The process ends for a signal, or over the client it is answering, which has
\* disappeared or whose line it does not survive; and for nothing else, however many
\* clients, slots, lines and descriptors there are.
THEOREM EndsOnlyForAReason == Spec => EndsForAReason
<1>1. TypeInv /\ [Next]_vars => [pc # "down" /\ pc' = "down" => Reason]_vars
  BY EndHasReason
<1> QED
  BY <1>1, TypeInvariant, PTL DEF Spec, EndsForAReason, Reason

-----------------------------------------------------------------------------
(* Whom the end finds without a 221.                                         *)

\* A client with a slot that is not told in this step is excused.
Excused(i) ==
    \/ fds[i] \in bye'
    \/ \E j \in 1..i : fds[j] # NoClient /\ peer[fds[j]] = "reset"
    \/ pc \in {"accept", "read", "wait"} /\ pc' = "down"

\* destroy_server stops before slot i only at a client that was reset.
LEMMA ShutdownTells ==
  ASSUME TypeInv, Shutdown, NEW i \in Slots, fds[i] # NoClient
  PROVE  Excused(i)
<1> PICK n \in 0..MaxClients :
        /\ n < MaxClients => fds[n + 1] # NoClient /\ peer[fds[n + 1]] = "reset"
        /\ CloseAll({c \in Clients : \E j \in 1..n : fds[j] = c})
  BY DEF Shutdown
<1>1. MaxClients \in Nat /\ n \in Nat /\ i \in 1..MaxClients /\ i \in Nat
  BY LoopAssumption DEF Slots
<1>2. CASE i <= n
  <2>1. i \in 1..n
    BY <1>1, <1>2
  <2>2. fds[i] \in Clients
    BY DEF TypeInv, TypeOK
  <2> QED
    BY <2>1, <2>2 DEF CloseAll, Excused
<1>3. CASE n < i
  <2>1. n < MaxClients /\ n + 1 \in 1..i
    BY <1>1, <1>3
  <2> QED
    BY <2>1 DEF Excused
<1> QED
  BY <1>1, <1>2, <1>3

\* What the other steps close: nothing, the connection of a client that quits, or all
\* because the process dies.
LEMMA OthersTell ==
  ASSUME TypeInv, SlotInv, [Next]_vars, ~Shutdown,
         NEW i \in Slots, fds[i] # NoClient, conn'[fds[i]] = "closed"
  PROVE  Excused(i)
<1>0. fds[i] \in Clients /\ conn[fds[i]] = "open"
  BY DEF SlotInv, HoldersOpen, TypeInv, TypeOK
<1>1. UNCHANGED conn => FALSE
  BY <1>0
<1>2. ASSUME NEW kind, pc = "read", Execute(fds[cur], kind)
      PROVE  Excused(i)
  <2>1. Farewell(fds[cur])
    BY <1>1, <1>2 DEF Execute, Reply, AwaitData, netVars
  <2>2. bye' = bye \cup {fds[cur]} /\ conn' = [conn EXCEPT ![fds[cur]] = "closed"]
    BY <2>1 DEF Farewell
  <2>3. fds[i] = fds[cur]
    BY <1>0, <2>2 DEF TypeInv, TypeOK
  <2> QED
    BY <2>2, <2>3 DEF Excused
<1>3. ASSUME NEW c, NEW kind, pc \in {"accept", "read", "wait"}, Killed(c, kind)
      PROVE  Excused(i)
  BY <1>3 DEF Killed, CloseAll, Excused
<1>4. CASE Accept
  <2>1. ~(conn' = [conn EXCEPT ![Head(backlog)] = "open"])
    BY <1>0, <1>4, AcceptHead DEF TypeInv, TypeOK
  <2>2. pc = "accept" /\ Killed(Head(backlog), "none")
    BY <1>4, <2>1 DEF Accept
  <2> QED
    BY <1>3, <2>2
<1>5. CASE TakeLine
  BY <1>2, <1>3, <1>5 DEF TakeLine
<1>6. CASE ReadEnd \/ ReadInterrupted
  <2>1. pc = "read" /\ (TakeFragment(fds[cur]) \/ ReadNothing(fds[cur]))
    BY <1>6 DEF ReadEnd, ReadInterrupted
  <2> QED
    BY <1>1, <1>2, <1>3, <2>1 DEF TakeFragment, ExecuteFragment, ReadNothing, netVars
<1>7. CASE DataRefused
  BY <1>1, <1>3, <1>7 DEF DataRefused, Reply
<1>8. CASE \/ PollReady \/ PollTimeout \/ AcceptFails \/ NoAccept \/ SkipSlot \/ VisitSlot
           \/ EndScan \/ FillBuffer \/ DataReady \/ Signal \/ TestStop \/ PollInterrupted
  BY <1>1, <1>8
  DEF PollReady, PollTimeout, AcceptFails, NoAccept, SkipSlot, VisitSlot, EndScan,
      FillBuffer, DataReady, Signal, TestStop, PollInterrupted, netVars
<1>9. ASSUME NEW c \in Clients, ClientStep(c)
      PROVE  FALSE
  <2>1. CASE Connect(c)
    BY <1>0, <2>1 DEF Connect, TypeInv, TypeOK
  <2> QED
    BY <1>1, <1>9, <2>1
    DEF ClientStep, BeginLine, SendLine, FinishLine, CompleteLine, Shut, Vanish, Dial,
        netVars
<1>10. CASE UNCHANGED vars
  BY <1>1, <1>10 DEF vars
<1> QED
  BY <1>4, <1>5, <1>6, <1>7, <1>8, <1>9, <1>10 DEF Next, ServerStep, Terminated

\* A client that has a slot is told before its connection is closed, by its own QUIT or
\* when the server stops, unless a client in a slot before it, or itself, was reset, or
\* the process was killed over a greeting or a command.
THEOREM ServedClientsAreTold == Spec => NoSilentClose
<1> DEFINE Told == \A i \in Slots :
                      fds[i] # NoClient /\ conn'[fds[i]] = "closed" => Excused(i)
<1>1. TypeInv /\ SlotInv /\ [Next]_vars => [Told]_vars
  BY ShutdownTells, OthersTell
<1> QED
  BY <1>1, TypeInvariant, SlotInvariant, PTL DEF Spec, NoSilentClose, Excused

=============================================================================
