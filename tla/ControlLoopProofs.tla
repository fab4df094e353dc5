-------------------------- MODULE ControlLoopProofs --------------------------
(* Theorems about ControlLoop, for every set of clients, number of slots,    *)
(* window and bound.                                                         *)
EXTENDS ControlLoop, SequenceTheorems, TLAPS

-----------------------------------------------------------------------------
(* Type correctness.  It rests on two facts about where the process is: the *)
(* slot it reads from or waits on is an occupied one, and it calls accept()  *)
(* only when a connection is waiting.                                        *)

CurOccupied == pc \in {"read", "wait"} => cur \in Slots /\ fds[cur] # NoClient

AcceptReady == pc = "accept" /\ 0 \in ready => backlog # <<>>

TypeInv == TypeOK /\ CurOccupied /\ AcceptReady

LEMMA InitTypeInv == Init => TypeInv
<1> SUFFICES ASSUME Init PROVE TypeInv
  OBVIOUS
<1>1. /\ sent \in [Clients -> Seq(Kinds)]
      /\ \A c \in Clients : taken[c] <= pulled[c] /\ pulled[c] <= Len(sent[c])
  BY DEF Init
<1>2. cur \in 1..(MaxClients + 1) /\ fds \in [Slots -> Clients \cup {NoClient}]
  BY LoopAssumption DEF Init
<1>3. /\ conn \in [Clients -> {"away", "queued", "open", "closed"}]
      /\ peer \in [Clients -> {"up", "shut", "gone", "reset"}]
      /\ part \in [Clients -> {"none", "kernel", "stdio"}]
  BY DEF Init
<1>4. pulled \in [Clients -> Nat] /\ taken \in [Clients -> Nat]
  BY DEF Init
<1>5. backlog \in Seq(Clients) /\ ready \subseteq 0..MaxClients
  BY DEF Init
<1> QED
  BY <1>1, <1>2, <1>3, <1>4, <1>5
  DEF Init, TypeInv, TypeOK, CurOccupied, AcceptReady, PCs

LEMMA CloseAllTypeInv ==
  ASSUME TypeInv, NEW told \in SUBSET Clients, CloseAll(told), stop' \in BOOLEAN
  PROVE  TypeInv'
  BY LoopAssumption
  DEF TypeInv, TypeOK, CurOccupied, AcceptReady, CloseAll, PCs, Slots

LEMMA ShutdownTypeInv ==
  ASSUME TypeInv, Shutdown, stop' \in BOOLEAN
  PROVE  TypeInv'
  BY CloseAllTypeInv DEF Shutdown

\* The conjuncts of TypeOK about the lines of the clients.
StreamOK ==
    /\ sent \in [Clients -> Seq(Kinds)]
    /\ pulled \in [Clients -> Nat]
    /\ taken \in [Clients -> Nat]
    /\ \A c \in Clients : taken[c] <= pulled[c] /\ pulled[c] <= Len(sent[c])
    /\ part \in [Clients -> {"none", "kernel", "stdio"}]

\* However many descriptors the data sockets keep, it is a number.
LEMMA HeldTyped ==
  ASSUME TypeInv, Opens \/ Closes \/ UNCHANGED held
  PROVE  held' \in Nat
  BY DEF TypeInv, TypeOK, Opens, Closes

\* A reply that leaves the lines well typed leaves everything well typed.
LEMMA ReplyTypeInv ==
  ASSUME TypeInv, pc \in {"read", "wait"}, NEW c \in Clients, Reply(c), StreamOK',
         held' \in Nat
  PROVE  TypeInv'
<1>1. peer' \in [Clients -> {"up", "shut", "gone", "reset"}]
  BY DEF Reply, AfterWrite, TypeInv, TypeOK
<1>2. cur' \in 1..(MaxClients + 1)
  BY LoopAssumption DEF Reply, NextSlot, TypeInv, CurOccupied, Slots
<1> QED
  BY <1>1, <1>2
  DEF TypeInv, TypeOK, StreamOK, CurOccupied, AcceptReady, Reply, NextSlot, PCs

LEMMA FarewellTypeInv ==
  ASSUME TypeInv, pc = "read", NEW c \in Clients, Farewell(c), StreamOK'
  PROVE  TypeInv'
<1>1. peer' \in [Clients -> {"up", "shut", "gone", "reset"}]
  BY DEF Farewell, AfterWrite, TypeInv, TypeOK
<1>2. cur' \in 1..(MaxClients + 1)
  BY LoopAssumption DEF Farewell, NextSlot, TypeInv, CurOccupied, Slots
<1>3. fds' \in [Slots -> Clients \cup {NoClient}]
  BY DEF Farewell, TypeInv, TypeOK
<1>4. conn' \in [Clients -> {"away", "queued", "open", "closed"}]
  BY DEF Farewell, TypeInv, TypeOK
<1>5. held' \in Nat
  BY HeldTyped DEF Farewell
<1> QED
  BY <1>1, <1>2, <1>3, <1>4, <1>5
  DEF TypeInv, TypeOK, StreamOK, CurOccupied, AcceptReady, Farewell, NextSlot, PCs

LEMMA ExecuteTypeInv ==
  ASSUME TypeInv, pc = "read", NEW c \in Clients, NEW kind, Execute(c, kind),
         StreamOK'
  PROVE  TypeInv'
<1>1. CASE AwaitData
  BY <1>1
  DEF AwaitData, netVars, TypeInv, TypeOK, StreamOK, CurOccupied, AcceptReady, PCs
<1> QED
  BY <1>1, HeldTyped, ReplyTypeInv, FarewellTypeInv DEF Execute

LEMMA KilledTypeInv ==
  ASSUME TypeInv, NEW c, NEW kind, Killed(c, kind)
  PROVE  TypeInv'
  BY CloseAllTypeInv DEF Killed, TypeInv, TypeOK

\* The client of the slot under way, where there is one.
LEMMA CurClient ==
  ASSUME TypeInv, pc \in {"read", "wait"}
  PROVE  cur \in Slots /\ fds[cur] \in Clients
  BY DEF TypeInv, TypeOK, CurOccupied

LEMMA TakeFragmentTypeInv ==
  ASSUME TypeInv, pc = "read", NEW c \in Clients, Drained(c), TakeFragment(c)
  PROVE  TypeInv'
<1>1. ASSUME NEW kind \in Kinds, Killed(c, kind)
      PROVE  TypeInv'
  BY <1>1, KilledTypeInv
<1>2. ASSUME NEW kind \in Kinds, ExecuteFragment(c, kind)
      PROVE  TypeInv'
  <2>1. /\ sent[c] \in Seq(Kinds)
        /\ Append(sent[c], kind) \in Seq(Kinds)
        /\ Len(Append(sent[c], kind)) = Len(sent[c]) + 1
    BY DEF TypeInv, TypeOK
  <2>2. sent' \in [Clients -> Seq(Kinds)]
    BY <1>2, <2>1 DEF ExecuteFragment, TypeInv, TypeOK
  <2>3. /\ pulled' \in [Clients -> Nat]
        /\ taken' \in [Clients -> Nat]
        /\ part' \in [Clients -> {"none", "kernel", "stdio"}]
    BY <1>2 DEF ExecuteFragment, TypeInv, TypeOK
  <2>4. \A d \in Clients : taken'[d] <= pulled'[d] /\ pulled'[d] <= Len(sent'[d])
    BY <1>2, <2>1 DEF ExecuteFragment, TypeInv, TypeOK, Drained
  <2> QED
    BY <1>2, <2>2, <2>3, <2>4, ExecuteTypeInv DEF StreamOK, ExecuteFragment
<1> QED
  BY <1>1, <1>2 DEF TakeFragment

LEMMA ReadNothingTypeInv ==
  ASSUME TypeInv, pc = "read", NEW c \in Clients, ReadNothing(c)
  PROVE  TypeInv'
<1>1. cur' \in 1..(MaxClients + 1)
  BY LoopAssumption DEF ReadNothing, NextSlot, TypeInv, CurOccupied, Slots
<1> QED
  BY <1>1
  DEF ReadNothing, NextSlot, netVars, streamVars, TypeInv, TypeOK, CurOccupied,
      AcceptReady, PCs

LEMMA AcceptTypeInv ==
  ASSUME TypeInv, Accept
  PROVE  TypeInv'
<1> DEFINE c == Head(backlog)
<1>1. backlog # <<>> /\ pc = "accept"
  BY DEF Accept, TypeInv, AcceptReady
<1>2. c \in Clients /\ Tail(backlog) \in Seq(Clients)
  BY <1>1 DEF TypeInv, TypeOK
<1>3. CASE Killed(c, "none")
  BY <1>3, KilledTypeInv
<1>4. CASE ~Killed(c, "none")
  <2>1. /\ pc' = "scan"
        /\ backlog' = Tail(backlog)
        /\ conn' = [conn EXCEPT ![c] = "open"]
        /\ AfterWrite(c)
        /\ UNCHANGED <<cur, stop, ready, held, streamVars, dialed, bye>>
        /\ \/ \E i \in Slots : fds' = [fds EXCEPT ![i] = c]
           \/ UNCHANGED fds
    BY <1>4 DEF Accept
  <2>2. fds' \in [Slots -> Clients \cup {NoClient}]
    BY <1>2, <2>1 DEF TypeInv, TypeOK
  <2>3. /\ conn' \in [Clients -> {"away", "queued", "open", "closed"}]
        /\ peer' \in [Clients -> {"up", "shut", "gone", "reset"}]
    BY <2>1 DEF AfterWrite, TypeInv, TypeOK
  <2> QED
    BY <1>2, <2>1, <2>2, <2>3
    DEF TypeInv, TypeOK, CurOccupied, AcceptReady, streamVars, PCs
<1> QED
  BY <1>3, <1>4

LEMMA TakeLineTypeInv ==
  ASSUME TypeInv, TakeLine
  PROVE  TypeInv'
<1> DEFINE c == fds[cur]
           kind == sent[c][taken[c] + 1]
<1>1. pc = "read" /\ c \in Clients
  BY CurClient DEF TakeLine
<1>2. CASE Killed(c, kind)
  BY <1>2, KilledTypeInv
<1>3. CASE /\ taken' = [taken EXCEPT ![c] = @ + 1]
           /\ UNCHANGED <<sent, pulled, part>>
           /\ Execute(c, kind)
  <2>1. taken' \in [Clients -> Nat]
    BY <1>1, <1>3 DEF TypeInv, TypeOK
  <2>2. \A d \in Clients : taken'[d] <= pulled'[d] /\ pulled'[d] <= Len(sent'[d])
    BY <1>1, <1>3 DEF TakeLine, TypeInv, TypeOK
  <2> QED
    BY <1>1, <1>3, <2>1, <2>2, ExecuteTypeInv DEF StreamOK, TypeInv, TypeOK
<1> QED
  BY <1>2, <1>3 DEF TakeLine

LEMMA FillBufferTypeInv ==
  ASSUME TypeInv, FillBuffer
  PROVE  TypeInv'
<1> DEFINE c == fds[cur]
<1>1. pc = "read" /\ c \in Clients
  BY CurClient DEF FillBuffer
<1>2. /\ pulled' \in [Clients -> Nat]
      /\ part' \in [Clients -> {"none", "kernel", "stdio"}]
  BY <1>1 DEF FillBuffer, TypeInv, TypeOK
<1>3. \A d \in Clients : taken[d] <= pulled'[d] /\ pulled'[d] <= Len(sent[d])
  BY <1>1 DEF FillBuffer, TypeInv, TypeOK
<1> QED
  BY <1>2, <1>3
  DEF FillBuffer, loopVars, netVars, TypeInv, TypeOK, CurOccupied, AcceptReady

LEMMA ClientStepTypeInv ==
  ASSUME TypeInv, NEW c \in Clients, ClientStep(c)
  PROVE  TypeInv'
<1> USE DEF TypeInv, TypeOK, CurOccupied, AcceptReady, loopVars, netVars, streamVars
<1>1. CASE Connect(c)
  <2>1. /\ Append(backlog, c) \in Seq(Clients)
        /\ Append(backlog, c) # <<>>
    <3>1. backlog \in Seq(Clients)
      OBVIOUS
    <3> QED
      BY ONLY <3>1, c \in Clients, AppendProperties
  <2> QED
    BY <1>1, <2>1 DEF Connect
<1>2. CASE BeginLine(c)
  BY <1>2 DEF BeginLine
<1>3. CASE CompleteLine(c)
  <2> PICK kind \in Kinds : sent' = [sent EXCEPT ![c] = Append(@, kind)]
    BY <1>3 DEF CompleteLine
  <2>1. /\ Append(sent[c], kind) \in Seq(Kinds)
        /\ Len(Append(sent[c], kind)) = Len(sent[c]) + 1
    OBVIOUS
  <2>2. /\ sent' \in [Clients -> Seq(Kinds)]
        /\ \A d \in Clients : taken[d] <= pulled[d] /\ pulled[d] <= Len(sent'[d])
    BY <2>1
  <2>3. part' \in [Clients -> {"none", "kernel", "stdio"}]
    BY <1>3 DEF CompleteLine
  <2> QED
    BY <1>3, <2>2, <2>3 DEF CompleteLine
<1>4. CASE Shut(c)
  BY <1>4 DEF Shut
<1>5. CASE Vanish(c)
  BY <1>5 DEF Vanish
<1>6. CASE Dial(c)
  BY <1>6 DEF Dial
<1> QED
  BY <1>1, <1>2, <1>3, <1>4, <1>5, <1>6 DEF ClientStep, SendLine, FinishLine

LEMMA NextTypeInv ==
  ASSUME TypeInv, [Next]_vars
  PROVE  TypeInv'
<1>1. CASE TestStop
  BY <1>1, ShutdownTypeInv
  DEF TestStop, netVars, streamVars, TypeInv, TypeOK, CurOccupied, AcceptReady, PCs
<1>2. CASE PollReady
  <2>1. /\ ready' \subseteq 0..MaxClients
        /\ 0 \in ready' => backlog # <<>>
    BY <1>2, LoopAssumption DEF PollReady, Pollable, ReadySlots, Slots
  <2> QED
    BY <1>2, <2>1
    DEF PollReady, netVars, streamVars, TypeInv, TypeOK, CurOccupied, AcceptReady, PCs
<1>3. CASE PollTimeout
  BY <1>3
  DEF PollTimeout, netVars, streamVars, TypeInv, TypeOK, CurOccupied, AcceptReady, PCs
<1>4. CASE Accept
  BY <1>4, AcceptTypeInv
<1>5. CASE NoAccept \/ AcceptFails
  BY <1>5
  DEF NoAccept, AcceptFails, netVars, streamVars, TypeInv, TypeOK, CurOccupied, AcceptReady, PCs
<1>6. CASE SkipSlot
  BY <1>6, LoopAssumption
  DEF SkipSlot, netVars, streamVars, TypeInv, TypeOK, CurOccupied, AcceptReady, Slots
<1>7. CASE VisitSlot
  BY <1>7
  DEF VisitSlot, netVars, streamVars, TypeInv, TypeOK, CurOccupied, AcceptReady, PCs
<1>8. CASE EndScan
  BY <1>8, LoopAssumption
  DEF EndScan, netVars, streamVars, TypeInv, TypeOK, CurOccupied, AcceptReady, PCs
<1>9. CASE TakeLine
  BY <1>9, TakeLineTypeInv
<1>10. CASE FillBuffer
  BY <1>10, FillBufferTypeInv
<1>11. CASE ReadEnd \/ ReadInterrupted
  BY <1>11, CurClient, TakeFragmentTypeInv, ReadNothingTypeInv
  DEF ReadEnd, ReadInterrupted
<1>12. CASE DataReady
  <2>1. cur' \in 1..(MaxClients + 1)
    BY <1>12, LoopAssumption DEF DataReady, NextSlot, TypeInv, CurOccupied, Slots
  <2>2. held' \in Nat
    BY <1>12, HeldTyped DEF DataReady
  <2> QED
    BY <1>12, <2>1, <2>2
    DEF DataReady, NextSlot, streamVars, TypeInv, TypeOK, CurOccupied,
        AcceptReady, PCs
<1>13. CASE DataRefused
  <2>1. pc = "wait" /\ fds[cur] \in Clients
    BY <1>13, CurClient DEF DataRefused
  <2>2. CASE Closes /\ Reply(fds[cur]) /\ UNCHANGED streamVars
    <3>1. held' \in Nat
      BY <2>2, HeldTyped
    <3> QED
      BY <2>1, <2>2, <3>1, ReplyTypeInv DEF streamVars, StreamOK, TypeInv, TypeOK
  <2> QED
    BY <1>13, <2>2, KilledTypeInv DEF DataRefused
<1>14. CASE Signal
  BY <1>14
  DEF Signal, netVars, streamVars, TypeInv, TypeOK, CurOccupied, AcceptReady
<1>15. CASE PollInterrupted
  BY <1>15, ShutdownTypeInv DEF PollInterrupted, TypeInv, TypeOK
<1>16. CASE \E c \in Clients : ClientStep(c)
  BY <1>16, ClientStepTypeInv
<1>17. CASE UNCHANGED vars
  BY <1>17 DEF vars, TypeInv, TypeOK, CurOccupied, AcceptReady
<1> QED
  BY <1>1, <1>2, <1>3, <1>4, <1>5, <1>6, <1>7, <1>8, <1>9, <1>10, <1>11, <1>12,
     <1>13, <1>14, <1>15, <1>16, <1>17
  DEF Next, ServerStep, Terminated

THEOREM TypeInvariant == Spec => []TypeInv
  BY InitTypeInv, NextTypeInv, PTL DEF Spec

\* Every variable stays in its type: in particular the loop index never leaves
\* the table, accept() is never called on an empty queue, and the read index
\* into a client's lines never passes what was received.
THEOREM TypeCorrect == Spec => []TypeOK
  BY TypeInvariant, PTL DEF TypeInv

-----------------------------------------------------------------------------
(* The slot table.  A connection that is still in the kernel's queue has no  *)
(* slot, and is there once: so accept() cannot give a client a second slot.  *)

HoldersOpen == \A i \in Slots : fds[i] # NoClient => conn[fds[i]] = "open"

HoldersDistinct ==
    \A i, j \in Slots : fds[i] = fds[j] /\ fds[i] # NoClient => i = j

QueueSound ==
    /\ \A k \in 1..Len(backlog) : conn[backlog[k]] = "queued"
    /\ \A k, l \in 1..Len(backlog) : backlog[k] = backlog[l] => k = l

SlotInv == HoldersOpen /\ HoldersDistinct /\ QueueSound

LEMMA CloseAllSlotInv ==
  ASSUME TypeInv, NEW told, CloseAll(told)
  PROVE  SlotInv'
  BY DEF CloseAll, SlotInv, HoldersOpen, HoldersDistinct, QueueSound, TypeInv, TypeOK

LEMMA KilledSlotInv ==
  ASSUME TypeInv, NEW c, NEW kind, Killed(c, kind)
  PROVE  SlotInv'
  BY CloseAllSlotInv DEF Killed

LEMMA SameSlotInv ==
  ASSUME SlotInv, UNCHANGED <<fds, backlog, conn>>
  PROVE  SlotInv'
  BY DEF SlotInv, HoldersOpen, HoldersDistinct, QueueSound

LEMMA AcceptSlotInv ==
  ASSUME TypeInv, SlotInv, Accept
  PROVE  SlotInv'
<1> DEFINE c == Head(backlog)
<1>1. backlog # <<>> /\ backlog \in Seq(Clients)
  BY DEF Accept, TypeInv, TypeOK, AcceptReady
<1>2. /\ c = backlog[1]
      /\ Len(backlog) \in Nat \ {0}
      /\ Len(Tail(backlog)) = Len(backlog) - 1
      /\ \A k \in 1..Len(Tail(backlog)) : Tail(backlog)[k] = backlog[k + 1]
      /\ c \in Clients
  BY <1>1
<1>3. CASE Killed(c, "none")
  BY <1>3, KilledSlotInv
<1>4. CASE ~Killed(c, "none")
  <2>1. /\ backlog' = Tail(backlog)
        /\ conn' = [conn EXCEPT ![c] = "open"]
        /\ \/ \E i \in Slots : IsFirstFree(i) /\ fds' = [fds EXCEPT ![i] = c]
           \/ UNCHANGED fds
    BY <1>4 DEF Accept
  <2>2. \A k \in 1..Len(backlog) : k # 1 => backlog[k] # c
    BY <1>2 DEF SlotInv, QueueSound
  <2>3. QueueSound'
    <3>1. \A k \in 1..Len(backlog') :
             /\ k + 1 \in 1..Len(backlog)
             /\ backlog'[k] = backlog[k + 1]
             /\ backlog[k + 1] \in Clients
      BY <1>1, <1>2, <2>1
    <3>2. \A k \in 1..Len(backlog') : conn'[backlog'[k]] = "queued"
      BY <2>1, <2>2, <3>1 DEF SlotInv, QueueSound, TypeInv, TypeOK
    <3>3. \A k, l \in 1..Len(backlog') : backlog'[k] = backlog'[l] => k = l
      <4> SUFFICES ASSUME NEW k \in 1..Len(backlog'), NEW l \in 1..Len(backlog'),
                          backlog'[k] = backlog'[l]
                   PROVE  k = l
        OBVIOUS
      <4>1. k + 1 = l + 1
        BY <3>1 DEF SlotInv, QueueSound
      <4> QED
        BY <4>1
    <3> QED
      BY <3>2, <3>3 DEF QueueSound
  <2>4. \A i \in Slots : fds[i] # c
    <3>1. conn[c] = "queued" /\ c # NoClient
      BY <1>2, LoopAssumption DEF SlotInv, QueueSound
    <3> QED
      BY <3>1 DEF SlotInv, HoldersOpen
  <2>5. \A i \in Slots : fds'[i] = fds[i] \/ fds'[i] = c
    BY <2>1 DEF TypeInv, TypeOK
  <2>6. HoldersOpen'
    BY <1>2, <2>1, <2>5 DEF SlotInv, HoldersOpen, TypeInv, TypeOK
  <2>7. HoldersDistinct'
    <3>1. CASE UNCHANGED fds
      BY <3>1 DEF SlotInv, HoldersDistinct
    <3>2. ASSUME NEW i \in Slots, fds' = [fds EXCEPT ![i] = c]
          PROVE  HoldersDistinct'
      <4>1. fds'[i] = c /\ \A j \in Slots : j # i => fds'[j] = fds[j]
        BY <3>2 DEF TypeInv, TypeOK
      <4>2. \A j, k \in Slots : j # i /\ k # i /\ fds'[j] = fds'[k]
                                  /\ fds'[j] # NoClient => j = k
        BY <4>1 DEF SlotInv, HoldersDistinct
      <4>3. \A j \in Slots : j # i => fds'[j] # fds'[i]
        BY <4>1, <2>4
      <4> QED
        BY <4>2, <4>3 DEF HoldersDistinct
    <3> QED
      BY <2>1, <3>1, <3>2
  <2> QED
    BY <2>3, <2>6, <2>7 DEF SlotInv
<1> QED
  BY <1>3, <1>4

LEMMA ExecuteSlotInv ==
  ASSUME TypeInv, SlotInv, pc = "read", NEW kind, Execute(fds[cur], kind)
  PROVE  SlotInv'
<1> DEFINE c == fds[cur]
<1>1. cur \in Slots /\ c \in Clients
  BY CurClient
<1>2. CASE Reply(c)
  BY <1>2, SameSlotInv DEF Reply
<1>3. CASE AwaitData
  BY <1>3, SameSlotInv DEF AwaitData, netVars
<1>4. CASE Farewell(c)
  <2>1. /\ conn' = [conn EXCEPT ![c] = "closed"]
        /\ fds' = [fds EXCEPT ![cur] = NoClient]
        /\ UNCHANGED backlog
    BY <1>4 DEF Farewell
  <2>2. \A i \in Slots : fds'[i] # NoClient => fds'[i] = fds[i] /\ fds[i] # c
    BY <1>1, <2>1 DEF SlotInv, HoldersDistinct, TypeInv, TypeOK
  <2>3. HoldersOpen' /\ HoldersDistinct'
    BY <2>1, <2>2 DEF SlotInv, HoldersOpen, HoldersDistinct, TypeInv, TypeOK
  <2>4. \A k \in 1..Len(backlog) : backlog[k] # c
    BY <1>1, LoopAssumption DEF SlotInv, HoldersOpen, QueueSound
  <2> QED
    BY <2>1, <2>3, <2>4 DEF SlotInv, QueueSound, TypeInv, TypeOK
<1> QED
  BY <1>2, <1>3, <1>4 DEF Execute

LEMMA ConnectSlotInv ==
  ASSUME TypeInv, SlotInv, NEW c \in Clients, Connect(c)
  PROVE  SlotInv'
<1>1. /\ conn[c] = "away"
      /\ conn' = [conn EXCEPT ![c] = "queued"]
      /\ backlog' = Append(backlog, c)
      /\ UNCHANGED fds
      /\ backlog \in Seq(Clients)
  BY DEF Connect, loopVars, TypeInv, TypeOK
<1>2. /\ Len(backlog) \in Nat
      /\ Len(backlog') = Len(backlog) + 1
      /\ \A k \in 1..Len(backlog) : backlog'[k] = backlog[k] /\ backlog[k] \in Clients
      /\ backlog'[Len(backlog) + 1] = c
  BY <1>1, AppendProperties
<1>3. \A k \in 1..Len(backlog) : backlog[k] # c
  BY <1>1 DEF SlotInv, QueueSound
<1>4. QueueSound'
  <2>1. \A k \in 1..Len(backlog') : conn'[backlog'[k]] = "queued"
    BY <1>1, <1>2, <1>3 DEF SlotInv, QueueSound, TypeInv, TypeOK
  <2>2. \A k, l \in 1..Len(backlog') : backlog'[k] = backlog'[l] => k = l
    BY <1>2, <1>3 DEF SlotInv, QueueSound
  <2> QED
    BY <2>1, <2>2 DEF QueueSound
<1>5. HoldersOpen' /\ HoldersDistinct'
  BY <1>1 DEF SlotInv, HoldersOpen, HoldersDistinct, TypeInv, TypeOK
<1> QED
  BY <1>4, <1>5 DEF SlotInv

LEMMA NextSlotInv ==
  ASSUME TypeInv, SlotInv, [Next]_vars
  PROVE  SlotInv'
<1>1. CASE TestStop \/ PollInterrupted
  BY <1>1, CloseAllSlotInv, SameSlotInv
  DEF TestStop, PollInterrupted, Shutdown, netVars
<1>2. CASE \/ PollReady \/ PollTimeout \/ NoAccept \/ AcceptFails \/ SkipSlot
           \/ VisitSlot \/ EndScan
  BY <1>2, SameSlotInv
  DEF PollReady, PollTimeout, NoAccept, AcceptFails, SkipSlot, VisitSlot, EndScan, netVars
<1>3. CASE Accept
  BY <1>3, AcceptSlotInv
<1>4. CASE TakeLine
  <2> DEFINE kind == sent[fds[cur]][taken[fds[cur]] + 1]
  <2>1. pc = "read" /\ (Killed(fds[cur], kind) \/ Execute(fds[cur], kind))
    BY <1>4 DEF TakeLine
  <2> QED
    BY <2>1, KilledSlotInv, ExecuteSlotInv
<1>5. CASE FillBuffer
  BY <1>5, SameSlotInv DEF FillBuffer, loopVars, netVars
<1>6. CASE ReadEnd \/ ReadInterrupted
  <2>1. CASE ReadNothing(fds[cur])
    BY <2>1, SameSlotInv DEF ReadNothing, netVars
  <2>2. CASE TakeFragment(fds[cur])
    BY <1>6, <2>2, KilledSlotInv, ExecuteSlotInv
    DEF ReadEnd, ReadInterrupted, TakeFragment, ExecuteFragment
  <2> QED
    BY <1>6, <2>1, <2>2 DEF ReadEnd, ReadInterrupted
<1>7. CASE DataReady
  BY <1>7, SameSlotInv DEF DataReady
<1>8. CASE DataRefused
  BY <1>8, SameSlotInv, KilledSlotInv DEF DataRefused, Reply
<1>9. CASE Signal
  BY <1>9, SameSlotInv DEF Signal, netVars
<1>10. ASSUME NEW c \in Clients, ClientStep(c)
       PROVE  SlotInv'
  <2>1. CASE Connect(c)
    BY <2>1, ConnectSlotInv
  <2>2. CASE UNCHANGED <<fds, backlog, conn>>
    BY <2>2, SameSlotInv
  <2> QED
    BY <1>10, <2>1, <2>2
    DEF ClientStep, BeginLine, SendLine, FinishLine, CompleteLine, Shut, Vanish,
        Dial, loopVars, netVars
<1>11. CASE UNCHANGED vars
  BY <1>11, SameSlotInv DEF vars
<1> QED
  BY <1>1, <1>2, <1>3, <1>4, <1>5, <1>6, <1>7, <1>8, <1>9, <1>10, <1>11
  DEF Next, ServerStep, Terminated

LEMMA InitSlotInv == Init => SlotInv
  BY DEF Init, SlotInv, HoldersOpen, HoldersDistinct, QueueSound

THEOREM SlotInvariant == Spec => []SlotInv
  BY InitSlotInv, NextSlotInv, TypeInvariant, PTL DEF Spec

\* Whatever the clients do and in whatever order they connect and quit, every
\* slot holds an open connection that no other slot holds, and the server reads
\* and waits only on behalf of an occupied slot.
THEOREM SlotsAlwaysSound == Spec => []SlotsSound
<1>1. TypeInv /\ SlotInv => SlotsSound
  BY DEF TypeInv, CurOccupied, SlotInv, HoldersOpen, HoldersDistinct, SlotsSound
<1> QED
  BY <1>1, TypeInvariant, SlotInvariant, PTL

=============================================================================
