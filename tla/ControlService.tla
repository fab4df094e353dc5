--------------------------- MODULE ControlService ---------------------------
(***************************************************************************)
(* What the control plane of the server promises to its clients, without   *)
(* descriptors, buffers, polls or slots: at most Capacity clients are      *)
(* served at a time, they are admitted in the order in which they          *)
(* connected, a client is left unserved only when the house is full, a     *)
(* client is answered at most once for each line it has sent and never     *)
(* after its connection is closed, and one client's QUIT changes nothing   *)
(* for the others.  ControlLoop implements it.                             *)
(***************************************************************************)
EXTENDS Integers, Sequences, FiniteSets

CONSTANTS Clients,   \* who may connect
          Capacity   \* how many are served at a time

VARIABLES phase,     \* how far each client has got
          arrivals,  \* the clients not admitted yet, first come first
          asked,     \* lines each client has sent
          answered,  \* lines carried out
          halted     \* the service has ended

svcVars == <<phase, arrivals, asked, answered, halted>>

Served == {c \in Clients : phase[c] = "served"}

ServiceInit ==
    /\ phase = [c \in Clients |-> "away"]
    /\ arrivals = <<>>
    /\ asked = [c \in Clients |-> 0]
    /\ answered = [c \in Clients |-> 0]
    /\ halted = FALSE

Arrive(c) ==
    /\ ~halted
    /\ phase[c] = "away"
    /\ phase' = [phase EXCEPT ![c] = "queued"]
    /\ arrivals' = Append(arrivals, c)
    /\ UNCHANGED <<asked, answered, halted>>

\* The first to have arrived is served if there is room and ignored, for good,
\* if there is none.
Admit ==
    /\ ~halted
    /\ arrivals # <<>>
    /\ arrivals' = Tail(arrivals)
    /\ phase' = [phase EXCEPT ![Head(arrivals)] =
                    IF Cardinality(Served) < Capacity THEN "served" ELSE "ignored"]
    /\ UNCHANGED <<asked, answered, halted>>

Ask(c) ==
    /\ ~halted
    /\ phase[c] \in {"queued", "served", "ignored"}
    /\ asked' = [asked EXCEPT ![c] = @ + 1]
    /\ UNCHANGED <<phase, arrivals, answered, halted>>

\* One line is carried out, and it may be the one that ends the dialogue.  A
\* line that was broken off may be taken for a line of its own (n = 1).
Answer(c) ==
    /\ ~halted
    /\ phase[c] = "served"
    /\ \E n \in {0, 1} : /\ asked' = [asked EXCEPT ![c] = @ + n]
                         /\ answered[c] < asked[c] + n
    /\ answered' = [answered EXCEPT ![c] = @ + 1]
    /\ \/ UNCHANGED phase
       \/ phase' = [phase EXCEPT ![c] = "closed"]
    /\ UNCHANGED <<arrivals, halted>>

\* The service ends, perhaps in the middle of carrying out a line.
Halt ==
    /\ ~halted
    /\ halted' = TRUE
    /\ phase' = [c \in Clients |-> IF phase[c] = "away" THEN "away" ELSE "closed"]
    /\ arrivals' = <<>>
    /\ UNCHANGED asked
    /\ \/ UNCHANGED answered
       \/ \E c \in Served : /\ answered[c] < asked[c]
                            /\ answered' = [answered EXCEPT ![c] = @ + 1]

ServiceNext ==
    \/ Admit \/ Halt
    \/ \E c \in Clients : Arrive(c) \/ Ask(c) \/ Answer(c)

Service == ServiceInit /\ [][ServiceNext]_svcVars
=============================================================================
