------------------------- MODULE ControlLoopPromise -------------------------
(* ControlLoop implements ControlService, for every set of clients, number  *)
(* of slots, window and bound: each step of the process, of a client or of  *)
(* the network is a step of the service or none.                            *)
EXTENDS ControlLoopProofs, FiniteSetTheorems

PromiseStep == [Promise!ServiceNext]_(Promise!svcVars)

PhaseOf    == [c \in Clients |-> Phase(c)]
AskedOf    == [c \in Clients |-> Len(sent[c])]
AnsweredOf == [c \in Clients |-> Answered(c)]

-----------------------------------------------------------------------------
(* The house: the clients served are those that have a slot.               *)

LEMMA ServedHasSlot ==
  ASSUME TypeInv, SlotInv, NEW c \in Clients
  PROVE  Phase(c) = "served" <=> Serving(c)
<1>1. Serving(c) => conn[c] = "open"
  BY LoopAssumption DEF Serving, SlotInv, HoldersOpen
<1>2. conn[c] # "served"
  BY DEF TypeInv, TypeOK
<1> QED
  BY <1>1, <1>2 DEF Phase

LEMMA SameCardinality ==
  ASSUME NEW S
  PROVE  Promise!Cardinality(S) = Cardinality(S)
BY DEF Promise!Cardinality, Cardinality

\* There is room exactly when a slot is free.
LEMMA RoomIsFreeSlot ==
  ASSUME TypeInv, SlotInv
  PROVE  Cardinality({c \in Clients : Phase(c) = "served"}) < MaxClients
            <=> \E i \in Slots : fds[i] = NoClient
<1> DEFINE S == {c \in Clients : Phase(c) = "served"}
           slot == [c \in S |-> CHOOSE i \in Slots : fds[i] = c]
<1>1. \A c \in S : slot[c] \in Slots /\ fds[slot[c]] = c
  BY ServedHasSlot DEF Serving
<1>2. slot \in Injection(S, Slots)
  <2>1. slot \in [S -> Slots]
    BY <1>1
  <2>2. \A c, d \in S : slot[c] = slot[d] => c = d
    BY <1>1
  <2> HIDE DEF slot
  <2> QED
    BY <2>1, <2>2 DEF Injection, IsInjective
<1>3. IsFiniteSet(Slots) /\ Cardinality(Slots) = MaxClients
  BY FS_Interval, LoopAssumption DEF Slots
<1>4. /\ IsFiniteSet(S)
      /\ Cardinality(S) <= MaxClients
      /\ Cardinality(S) = MaxClients <=> slot \in Surjection(S, Slots)
  BY <1>2, <1>3, FS_Injection
<1>5. Cardinality(S) \in Nat
  BY <1>4, FS_CardinalityType
<1>6. slot \in Surjection(S, Slots) <=> \A i \in Slots : fds[i] # NoClient
  <2>1. ASSUME slot \in Surjection(S, Slots), NEW i \in Slots
        PROVE  fds[i] # NoClient
    <3>1. PICK c \in S : slot[c] = i
      BY <2>1 DEF Surjection
    <3> QED
      BY <1>1, <3>1, LoopAssumption
  <2>2. ASSUME \A i \in Slots : fds[i] # NoClient, NEW i \in Slots
        PROVE  \E c \in S : slot[c] = i
    <3>1. fds[i] \in Clients
      BY <2>2 DEF TypeInv, TypeOK
    <3>2. fds[i] \in S
      BY <3>1, ServedHasSlot DEF Serving
    <3>3. slot[fds[i]] = i
      BY <1>1, <2>2, <3>2 DEF SlotInv, HoldersDistinct
    <3> QED
      BY <3>2, <3>3
  <2>3. slot \in [S -> Slots]
    BY <1>1
  <2> QED
    BY <2>1, <2>2, <2>3 DEF Surjection
<1> QED
  BY <1>4, <1>5, <1>6, LoopAssumption

-----------------------------------------------------------------------------
(* What the service sees of a step.                                        *)

LEMMA SamePhase ==
  ASSUME UNCHANGED <<conn, fds>>
  PROVE  PhaseOf' = PhaseOf
BY DEF PhaseOf, Phase, Serving

LEMMA SameAsked ==
  ASSUME UNCHANGED sent
  PROVE  AskedOf' = AskedOf
BY DEF AskedOf

\* Answered changes with getline() and at the end of a wait only.
LEMMA SameAnswered ==
  ASSUME UNCHANGED taken, pc = "wait" <=> pc' = "wait",
         pc = "wait" => UNCHANGED <<cur, fds>>
  PROVE  AnsweredOf' = AnsweredOf
BY DEF AnsweredOf, Answered, WaitingFor

LEMMA QuietIsPromise ==
  ASSUME UNCHANGED <<conn, fds, backlog, sent, taken>>,
         pc = "wait" <=> pc' = "wait", pc = "wait" => UNCHANGED cur,
         pc = "down" <=> pc' = "down"
  PROVE  PromiseStep
<1>1. UNCHANGED <<PhaseOf, AskedOf, AnsweredOf, backlog, (pc = "down")>>
  BY SamePhase, SameAsked, SameAnswered
<1> QED
  BY <1>1 DEF PromiseStep, Promise!svcVars, PhaseOf, AskedOf, AnsweredOf

-----------------------------------------------------------------------------
(* The end of the process, perhaps while it waits for a data connection.   *)

LEMMA CloseAllIsPromise ==
  ASSUME TypeInv, SlotInv, pc # "down", NEW told, CloseAll(told)
  PROVE  PromiseStep
<1>1. /\ pc' = "down"
      /\ conn' = [c \in Clients |-> IF conn[c] = "away" THEN "away" ELSE "closed"]
      /\ backlog' = <<>>
      /\ UNCHANGED <<sent, taken>>
  BY DEF CloseAll
<1>2. PhaseOf' = [c \in Clients |-> IF Phase(c) = "away" THEN "away" ELSE "closed"]
  <2>1. \A c \in Clients : Phase(c)' = conn'[c]
    BY <1>1 DEF Phase
  <2>2. \A c \in Clients : Phase(c) = "away" <=> conn[c] = "away"
    BY DEF Phase
  <2> QED
    BY <1>1, <2>1, <2>2 DEF PhaseOf
<1>3. AskedOf' = AskedOf
  BY <1>1, SameAsked
<1>4. \/ AnsweredOf' = AnsweredOf
      \/ \E c \in Clients :
            /\ Phase(c) = "served"
            /\ Answered(c) < Len(sent[c])
            /\ AnsweredOf' = [AnsweredOf EXCEPT ![c] = @ + 1]
  <2>1. CASE pc # "wait"
    BY <1>1, <2>1, SameAnswered
  <2>2. CASE pc = "wait"
    <3>1. PICK c \in Clients : c = fds[cur]
      BY <2>2, CurClient
    <3>2. Phase(c) = "served"
      BY <2>2, <3>1, CurClient, ServedHasSlot DEF Serving
    <3>3. /\ taken[c] \in Nat /\ Len(sent[c]) \in Nat
          /\ taken[c] <= Len(sent[c])
      BY DEF TypeInv, TypeOK
    <3>4. \A d \in Clients : Answered(d) = IF d = c THEN taken[d] - 1 ELSE taken[d]
      BY <2>2, <3>1 DEF Answered, WaitingFor, TypeInv, TypeOK
    <3>5. \A d \in Clients : Answered(d)' = taken[d]
      BY <1>1 DEF Answered, WaitingFor, TypeInv, TypeOK
    <3>6. AnsweredOf' = [AnsweredOf EXCEPT ![c] = @ + 1]
      <4>1. AnsweredOf' = [d \in Clients |-> taken[d]]
        BY <3>5 DEF AnsweredOf
      <4>2. AnsweredOf = [d \in Clients |-> IF d = c THEN taken[d] - 1 ELSE taken[d]]
        BY <3>4 DEF AnsweredOf
      <4>3. taken[c] - 1 + 1 = taken[c]
        BY <3>3
      <4> QED
        BY <4>1, <4>2, <4>3
    <3>7. Answered(c) < Len(sent[c])
      BY <3>3, <3>4
    <3> QED
      BY <3>2, <3>6, <3>7
  <2> QED
    BY <2>1, <2>2
<1>5. Promise!Halt
  BY <1>1, <1>2, <1>3, <1>4
  DEF Promise!Halt, Promise!Served, PhaseOf, AskedOf, AnsweredOf
<1> QED
  BY <1>5 DEF PromiseStep, Promise!ServiceNext

LEMMA KilledIsPromise ==
  ASSUME TypeInv, SlotInv, pc # "down", NEW c, NEW kind, Killed(c, kind)
  PROVE  PromiseStep
BY CloseAllIsPromise DEF Killed

-----------------------------------------------------------------------------
(* A connection is accepted.                                               *)

LEMMA AcceptIsPromise ==
  ASSUME TypeInv, SlotInv, Accept
  PROVE  PromiseStep
<1>0. PICK c : c = Head(backlog)
  OBVIOUS
<1>1. backlog # <<>> /\ backlog \in Seq(Clients) /\ pc = "accept"
  BY DEF Accept, TypeInv, TypeOK, AcceptReady
<1>2. c \in Clients /\ c = backlog[1] /\ 1 \in 1..Len(backlog)
  BY <1>0, <1>1
<1>3. CASE Killed(c, "none")
  BY <1>1, <1>3, KilledIsPromise
<1>4. CASE ~Killed(c, "none")
  <2>1. /\ pc' = "scan"
        /\ backlog' = Tail(backlog)
        /\ conn' = [conn EXCEPT ![c] = "open"]
        /\ UNCHANGED <<cur, sent, taken>>
        /\ \/ \E i \in Slots : IsFirstFree(i) /\ fds' = [fds EXCEPT ![i] = c]
           \/ (\A i \in Slots : fds[i] # NoClient) /\ UNCHANGED fds
    BY <1>0, <1>4 DEF Accept, streamVars
  <2>2. conn[c] = "queued" /\ ~Serving(c)
    <3>1. conn[c] = "queued"
      BY <1>2 DEF SlotInv, QueueSound
    <3> QED
      BY <1>2, <3>1, LoopAssumption DEF Serving, SlotInv, HoldersOpen
  <2>3. \A d \in Clients \ {c} : Phase(d)' = Phase(d)
    <3>1. \A d \in Clients \ {c} : conn'[d] = conn[d]
      BY <2>1 DEF TypeInv, TypeOK
    <3>2. \A d \in Clients \ {c} : Serving(d)' <=> Serving(d)
      <4>1. CASE UNCHANGED fds
        BY <4>1 DEF Serving
      <4>2. ASSUME NEW i \in Slots, IsFirstFree(i), fds' = [fds EXCEPT ![i] = c]
            PROVE  \A d \in Clients \ {c} : Serving(d)' <=> Serving(d)
        BY <4>2, LoopAssumption DEF Serving, IsFirstFree, TypeInv, TypeOK
      <4> QED
        BY <2>1, <4>1, <4>2
    <3> QED
      BY <3>1, <3>2 DEF Phase
  <2>4. Phase(c)' = IF \E i \in Slots : fds[i] = NoClient THEN "served" ELSE "ignored"
    <3>1. conn'[c] = "open"
      BY <1>2, <2>1 DEF TypeInv, TypeOK
    <3>2. CASE \E i \in Slots : fds[i] = NoClient
      <4>1. Serving(c)'
        BY <2>1, <3>2 DEF Serving, TypeInv, TypeOK
      <4> QED
        BY <3>1, <3>2, <4>1 DEF Phase
    <3>3. CASE \A i \in Slots : fds[i] # NoClient
      <4>1. ~Serving(c)'
        BY <2>1, <2>2, <3>3 DEF Serving, IsFirstFree
      <4> QED
        BY <3>1, <3>3, <4>1 DEF Phase
    <3> QED
      BY <3>2, <3>3
  <2>5. PhaseOf' = [PhaseOf EXCEPT ![c] =
                      IF Cardinality({d \in Clients : Phase(d) = "served"}) < MaxClients
                      THEN "served" ELSE "ignored"]
    BY <1>2, <2>3, <2>4, RoomIsFreeSlot DEF PhaseOf
  <2>6. UNCHANGED <<AskedOf, AnsweredOf>>
    BY <1>1, <2>1, SameAsked, SameAnswered
  <2>7. Promise!Served = {d \in Clients : Phase(d) = "served"}
    BY DEF Promise!Served
  <2>8. PhaseOf' = [PhaseOf EXCEPT ![Head(backlog)] =
                      IF Promise!Cardinality(Promise!Served) < MaxClients
                      THEN "served" ELSE "ignored"]
    BY <1>0, <2>5, <2>7, SameCardinality
  <2>9. pc # "down" /\ pc' # "down"
    BY <1>1, <2>1
  <2>10. Promise!Admit
    BY <1>1, <2>1, <2>6, <2>8, <2>9
    DEF Promise!Admit, PhaseOf, AskedOf, AnsweredOf
  <2> QED
    BY <2>10 DEF PromiseStep, Promise!ServiceNext
<1> QED
  BY <1>3, <1>4

-----------------------------------------------------------------------------
(* A line is carried out.                                                  *)

\* n is 1 when the line is a piece of one, counted as sent only now.
LEMMA AnsweringIsPromise ==
  ASSUME TypeInv, SlotInv, pc \in {"read", "wait"}, pc' # "down",
         NEW c \in Clients, c = fds[cur], NEW n \in {0, 1},
         AskedOf' = [AskedOf EXCEPT ![c] = @ + n],
         AnsweredOf' = [AnsweredOf EXCEPT ![c] = @ + 1],
         Answered(c) < Len(sent[c]) + n,
         UNCHANGED backlog,
         PhaseOf' = PhaseOf \/ PhaseOf' = [PhaseOf EXCEPT ![c] = "closed"]
  PROVE  PromiseStep
<1>1. PhaseOf[c] = "served"
  BY CurClient, ServedHasSlot DEF Serving, PhaseOf
<1>2. AnsweredOf[c] < AskedOf[c] + n
  BY DEF AnsweredOf, AskedOf
<1>3. pc # "down"
  OBVIOUS
<1>4. Promise!Answer(c)
  BY <1>1, <1>2, <1>3 DEF Promise!Answer, PhaseOf, AskedOf, AnsweredOf
<1> QED
  BY <1>4 DEF PromiseStep, Promise!ServiceNext

LEMMA ExecuteIsPromise ==
  ASSUME TypeInv, SlotInv, pc = "read", NEW c \in Clients, c = fds[cur],
         NEW kind, Execute(c, kind), NEW n \in {0, 1},
         AskedOf' = [AskedOf EXCEPT ![c] = @ + n],
         taken' = [taken EXCEPT ![c] = @ + 1],
         taken[c] < Len(sent[c]) + n
  PROVE  PromiseStep
<1>1. AnsweredOf = taken
  BY DEF AnsweredOf, Answered, WaitingFor, TypeInv, TypeOK
<1>2. taken[c] \in Nat
  BY DEF TypeInv, TypeOK
<1>3. Answered(c) < Len(sent[c]) + n
  BY <1>2 DEF Answered, WaitingFor
<1>4. ASSUME pc' = "scan"
      PROVE  AnsweredOf' = [AnsweredOf EXCEPT ![c] = @ + 1]
  <2>1. AnsweredOf' = [d \in Clients |-> taken'[d]]
    BY <1>4, <1>2 DEF AnsweredOf, Answered, WaitingFor, TypeInv, TypeOK
  <2> QED
    BY <1>1, <2>1 DEF TypeInv, TypeOK
<1>5. CASE Reply(c)
  <2>1. pc' = "scan" /\ UNCHANGED <<conn, fds, backlog>>
    BY <1>5 DEF Reply, NextSlot
  <2>2. PhaseOf' = PhaseOf
    BY <2>1, SamePhase
  <2> QED
    BY <1>3, <1>4, <2>1, <2>2, AnsweringIsPromise
<1>6. CASE Farewell(c)
  <2>1. /\ pc' = "scan"
        /\ conn' = [conn EXCEPT ![c] = "closed"]
        /\ fds' = [fds EXCEPT ![cur] = NoClient]
        /\ UNCHANGED backlog
    BY <1>6 DEF Farewell, NextSlot
  <2>2. Phase(c)' = "closed"
    <3>1. conn'[c] = "closed"
      BY <2>1 DEF TypeInv, TypeOK
    <3>2. Phase(c)' = conn'[c]
      BY <3>1, c' = c DEF Phase
    <3> QED
      BY <3>1, <3>2
  <2>3. \A d \in Clients \ {c} : Phase(d)' = Phase(d)
    <3>1. \A d \in Clients \ {c} : conn'[d] = conn[d]
      BY <2>1 DEF TypeInv, TypeOK
    <3>2. \A d \in Clients \ {c} : Serving(d)' <=> Serving(d)
      BY <2>1, LoopAssumption DEF Serving, TypeInv, TypeOK
    <3> QED
      BY <3>1, <3>2 DEF Phase
  <2>4. PhaseOf' = [PhaseOf EXCEPT ![c] = "closed"]
    BY <2>2, <2>3 DEF PhaseOf
  <2> QED
    BY <1>3, <1>4, <2>1, <2>4, AnsweringIsPromise
<1>7. CASE AwaitData
  <2>1. pc' = "wait" /\ UNCHANGED <<cur, fds, conn, backlog>>
    BY <1>7 DEF AwaitData, netVars
  <2>2. AnsweredOf' = AnsweredOf
    <3>1. AnsweredOf' = [d \in Clients |-> taken'[d] - (IF d = c THEN 1 ELSE 0)]
      BY <2>1 DEF AnsweredOf, Answered, WaitingFor
    <3>2. \A d \in Clients : taken'[d] - (IF d = c THEN 1 ELSE 0) = taken[d]
      BY <1>2 DEF TypeInv, TypeOK
    <3> QED
      BY <1>1, <3>1, <3>2 DEF TypeInv, TypeOK
  <2>3. PhaseOf' = PhaseOf
    BY <2>1, SamePhase
  <2>4. AskedOf[c] \in Nat
    BY DEF AskedOf, TypeInv, TypeOK
  <2>5. CASE n = 0
    <3>1. AskedOf' = AskedOf
      BY <2>4, <2>5 DEF AskedOf
    <3>2. UNCHANGED (pc = "down")
      BY <2>1
    <3> QED
      BY <2>1, <2>2, <2>3, <3>1, <3>2
      DEF PromiseStep, Promise!svcVars, PhaseOf, AskedOf, AnsweredOf
  <2>6. CASE n = 1
    <3>1. PhaseOf[c] = "served"
      BY CurClient, ServedHasSlot DEF Serving, PhaseOf
    <3>2. Promise!Ask(c)
      BY <2>1, <2>2, <2>3, <2>6, <3>1
      DEF Promise!Ask, PhaseOf, AskedOf, AnsweredOf
    <3> QED
      BY <3>2 DEF PromiseStep, Promise!ServiceNext
  <2> QED
    BY <2>5, <2>6
<1> QED
  BY <1>5, <1>6, <1>7 DEF Execute

LEMMA TakeLineIsPromise ==
  ASSUME TypeInv, SlotInv, TakeLine
  PROVE  PromiseStep
<1>1. PICK c \in Clients : c = fds[cur] /\ pc = "read"
  BY CurClient DEF TakeLine
<1>2. PICK kind : kind = sent[c][taken[c] + 1]
  OBVIOUS
<1>3. CASE Killed(c, kind)
  BY <1>1, <1>3, KilledIsPromise
<1>4. CASE ~Killed(c, kind)
  <2>1. /\ Execute(c, kind)
        /\ taken' = [taken EXCEPT ![c] = @ + 1]
        /\ UNCHANGED sent
        /\ taken[c] < pulled[c]
    BY <1>1, <1>2, <1>4 DEF TakeLine
  <2>2. AskedOf[c] \in Nat /\ taken[c] < Len(sent[c]) + 0
    BY <2>1 DEF AskedOf, TypeInv, TypeOK
  <2>3. AskedOf' = [AskedOf EXCEPT ![c] = @ + 0]
    BY <2>1, <2>2 DEF AskedOf
  <2> QED
    BY <1>1, <2>1, <2>2, <2>3, ExecuteIsPromise
<1> QED
  BY <1>3, <1>4

LEMMA TakeFragmentIsPromise ==
  ASSUME TypeInv, SlotInv, pc = "read", NEW c \in Clients, c = fds[cur], Drained(c),
         TakeFragment(c)
  PROVE  PromiseStep
<1>1. ASSUME NEW kind \in Kinds, Killed(c, kind)
      PROVE  PromiseStep
  BY <1>1, KilledIsPromise
<1>2. ASSUME NEW kind \in Kinds, ExecuteFragment(c, kind)
      PROVE  PromiseStep
  <2>1. /\ sent' = [sent EXCEPT ![c] = Append(@, kind)]
        /\ taken' = [taken EXCEPT ![c] = @ + 1]
        /\ Execute(c, kind)
    BY <1>2 DEF ExecuteFragment
  <2>2. Len(Append(sent[c], kind)) = Len(sent[c]) + 1
    BY <1>2 DEF TypeInv, TypeOK
  <2>3. AskedOf' = [AskedOf EXCEPT ![c] = @ + 1]
    BY <2>1, <2>2 DEF AskedOf, TypeInv, TypeOK
  <2>4. taken[c] < Len(sent[c]) + 1
    BY DEF Drained, TypeInv, TypeOK
  <2> QED
    BY <2>1, <2>3, <2>4, ExecuteIsPromise
<1> QED
  BY <1>1, <1>2 DEF TakeFragment

\* The data connection is there, or is given up.
LEMMA WaitIsPromise ==
  ASSUME TypeInv, SlotInv, DataReady \/ DataRefused
  PROVE  PromiseStep
<1>1. PICK c \in Clients : c = fds[cur] /\ pc = "wait"
  BY CurClient DEF DataReady, DataRefused
<1>2. CASE Killed(c, "xfer")
  BY <1>1, <1>2, KilledIsPromise
<1>3. CASE ~Killed(c, "xfer")
  <2>1. pc' = "scan" /\ UNCHANGED <<conn, fds, backlog, sent, taken>>
    BY <1>1, <1>3 DEF DataReady, DataRefused, Reply, NextSlot, netVars, streamVars
  <2>2. PhaseOf' = PhaseOf
    BY <2>1, SamePhase
  <2>3. taken[c] \in Nat /\ Len(sent[c]) \in Nat /\ taken[c] <= Len(sent[c])
    BY DEF TypeInv, TypeOK
  <2>4. AnsweredOf' = [AnsweredOf EXCEPT ![c] = @ + 1]
    <3>1. AnsweredOf' = [d \in Clients |-> taken[d]]
      BY <2>1 DEF AnsweredOf, Answered, WaitingFor, TypeInv, TypeOK
    <3>2. AnsweredOf = [d \in Clients |-> IF d = c THEN taken[d] - 1 ELSE taken[d]]
      BY <1>1 DEF AnsweredOf, Answered, WaitingFor, TypeInv, TypeOK
    <3>3. taken[c] - 1 + 1 = taken[c]
      BY <2>3
    <3> QED
      BY <3>1, <3>2, <3>3
  <2>5. AskedOf' = [AskedOf EXCEPT ![c] = @ + 0]
    BY <2>1, <2>3 DEF AskedOf
  <2>6. Answered(c) < Len(sent[c]) + 0
    BY <1>1, <2>3 DEF Answered, WaitingFor
  <2> QED
    BY <1>1, <2>1, <2>2, <2>4, <2>5, <2>6, AnsweringIsPromise
<1> QED
  BY <1>2, <1>3

-----------------------------------------------------------------------------
(* Clients, and all steps.                                                 *)

LEMMA ClientStepIsPromise ==
  ASSUME TypeInv, SlotInv, NEW c \in Clients, ClientStep(c)
  PROVE  PromiseStep
<1>1. CASE Connect(c)
  <2>1. /\ pc # "down" /\ conn[c] = "away"
        /\ conn' = [conn EXCEPT ![c] = "queued"]
        /\ backlog' = Append(backlog, c)
        /\ UNCHANGED <<pc, cur, fds, sent, taken>>
    BY <1>1 DEF Connect, loopVars, streamVars
  <2>2. PhaseOf' = [PhaseOf EXCEPT ![c] = "queued"]
    <3>1. \A d \in Clients : Phase(d)' = IF d = c THEN "queued" ELSE Phase(d)
      BY <2>1 DEF Phase, Serving, TypeInv, TypeOK
    <3> QED
      BY <3>1 DEF PhaseOf
  <2>3. PhaseOf[c] = "away"
    BY <2>1 DEF PhaseOf, Phase
  <2>4. UNCHANGED <<AskedOf, AnsweredOf>>
    BY <2>1, SameAsked, SameAnswered
  <2>5. Promise!Arrive(c)
    BY <2>1, <2>2, <2>3, <2>4 DEF Promise!Arrive, PhaseOf, AskedOf, AnsweredOf
  <2> QED
    BY <2>5 DEF PromiseStep, Promise!ServiceNext
<1>2. CASE SendLine(c) \/ FinishLine(c)
  <2>1. /\ pc # "down" /\ conn[c] \in {"queued", "open"}
        /\ UNCHANGED <<pc, cur, fds, conn, backlog, taken>>
    BY <1>2 DEF SendLine, FinishLine, MaySend, Connected, CompleteLine, loopVars, netVars
  <2>2. PICK kind \in Kinds : sent' = [sent EXCEPT ![c] = Append(@, kind)]
    BY <1>2 DEF SendLine, FinishLine, CompleteLine
  <2>3. AskedOf' = [AskedOf EXCEPT ![c] = @ + 1]
    <3>1. Len(Append(sent[c], kind)) = Len(sent[c]) + 1
      BY <2>2 DEF TypeInv, TypeOK
    <3> QED
      BY <2>2, <3>1 DEF AskedOf, TypeInv, TypeOK
  <2>4. UNCHANGED <<PhaseOf, AnsweredOf>>
    BY <2>1, SamePhase, SameAnswered
  <2>5. PhaseOf[c] \in {"queued", "served", "ignored"}
    BY <2>1 DEF PhaseOf, Phase
  <2>6. Promise!Ask(c)
    BY <2>1, <2>3, <2>4, <2>5 DEF Promise!Ask, PhaseOf, AskedOf, AnsweredOf
  <2> QED
    BY <2>6 DEF PromiseStep, Promise!ServiceNext
<1>3. CASE BeginLine(c) \/ Shut(c) \/ Vanish(c) \/ Dial(c)
  <2>1. UNCHANGED <<pc, cur, fds, conn, backlog, sent, taken>>
    BY <1>3 DEF BeginLine, Shut, Vanish, Dial, loopVars, netVars, streamVars
  <2> QED
    BY <2>1, QuietIsPromise
<1> QED
  BY <1>1, <1>2, <1>3 DEF ClientStep

LEMMA NextIsPromise ==
  ASSUME TypeInv, SlotInv, [Next]_vars
  PROVE  PromiseStep
<1>1. CASE TestStop \/ PollInterrupted
  <2>1. pc \in {"test", "poll"}
    BY <1>1 DEF TestStop, PollInterrupted
  <2>2. CASE Shutdown
    BY <2>1, <2>2, CloseAllIsPromise DEF Shutdown
  <2>3. CASE ~Shutdown
    <3>1. pc' = "poll" /\ UNCHANGED <<conn, fds, backlog, sent, taken>>
      BY <1>1, <2>3 DEF TestStop, PollInterrupted, netVars, streamVars
    <3> QED
      BY <2>1, <3>1, QuietIsPromise
  <2> QED
    BY <2>2, <2>3
<1>2. CASE \/ PollReady \/ PollTimeout \/ NoAccept \/ AcceptFails \/ SkipSlot
           \/ VisitSlot \/ EndScan
  <2>1. /\ pc \in {"poll", "accept", "scan"} /\ pc' \in {"accept", "scan", "read", "test"}
        /\ UNCHANGED <<conn, fds, backlog, sent, taken>>
    BY <1>2
    DEF PollReady, PollTimeout, NoAccept, AcceptFails, SkipSlot, VisitSlot, EndScan,
        netVars, streamVars
  <2> QED
    BY <2>1, QuietIsPromise
<1>3. CASE Accept
  BY <1>3, AcceptIsPromise
<1>4. CASE TakeLine
  BY <1>4, TakeLineIsPromise
<1>5. CASE FillBuffer
  <2>1. pc = "read" /\ pc' = "read" /\ UNCHANGED <<conn, fds, backlog, sent, taken>>
    BY <1>5 DEF FillBuffer, loopVars, netVars
  <2> QED
    BY <2>1, QuietIsPromise
<1>6. CASE ReadEnd \/ ReadInterrupted
  <2>1. PICK c \in Clients : c = fds[cur] /\ pc = "read"
    BY <1>6, CurClient DEF ReadEnd, ReadInterrupted
  <2>2. Drained(c) /\ (TakeFragment(c) \/ ReadNothing(c))
    BY <1>6, <2>1 DEF ReadEnd, ReadInterrupted
  <2>3. CASE TakeFragment(c)
    BY <2>1, <2>2, <2>3, TakeFragmentIsPromise
  <2>4. CASE ReadNothing(c)
    <3>1. pc' = "scan" /\ UNCHANGED <<conn, fds, backlog, sent, taken>>
      BY <2>4 DEF ReadNothing, NextSlot, netVars, streamVars
    <3> QED
      BY <2>1, <3>1, QuietIsPromise
  <2> QED
    BY <2>2, <2>3, <2>4
<1>7. CASE DataReady \/ DataRefused
  BY <1>7, WaitIsPromise
<1>8. CASE Signal
  <2>1. UNCHANGED <<pc, cur, fds, conn, backlog, sent, taken>>
    BY <1>8 DEF Signal, netVars, streamVars
  <2> QED
    BY <2>1, QuietIsPromise
<1>9. ASSUME NEW c \in Clients, ClientStep(c)
      PROVE  PromiseStep
  BY <1>9, ClientStepIsPromise
<1>10. CASE UNCHANGED vars
  <2>1. UNCHANGED <<pc, cur, fds, conn, backlog, sent, taken>>
    BY <1>10 DEF vars
  <2> QED
    BY <2>1, QuietIsPromise
<1> QED
  BY <1>1, <1>2, <1>3, <1>4, <1>5, <1>6, <1>7, <1>8, <1>9, <1>10
  DEF Next, ServerStep, Terminated

\* The loop, with its table of slots, stdio buffers, polls and signals, keeps what
\* ControlService promises: first come first served, ignored only when every slot is
\* taken, at most one answer to a line, none after the end.
THEOREM PromiseKept == Spec => KeepsPromise
<1>1. Init => Promise!ServiceInit
  <2>1. ASSUME Init, NEW c \in Clients
        PROVE  Phase(c) = "away" /\ Answered(c) = 0 /\ Len(sent[c]) = 0
    <3>1. pc = "test" /\ conn[c] = "away" /\ taken[c] = 0 /\ sent[c] = <<>>
      BY <2>1 DEF Init
    <3>2. Len(<<>>) = 0
      OBVIOUS
    <3> QED
      BY <3>1, <3>2 DEF Phase, Answered, WaitingFor
  <2> QED
    BY <2>1 DEF Init, Promise!ServiceInit
<1>2. TypeInv /\ SlotInv /\ [Next]_vars => [Promise!ServiceNext]_(Promise!svcVars)
  BY NextIsPromise DEF PromiseStep
<1> QED
  BY <1>1, <1>2, TypeInvariant, SlotInvariant, PTL DEF Spec, KeepsPromise, Promise!Service

=============================================================================
