---------------------------- MODULE SessionAccess ----------------------------
(***************************************************************************)
(* What a client may expect of a login, whoever else uses the server and   *)
(* whoever has used it before: a connection begins logged out; a right     *)
(* name followed by the right password logs it in, and nothing else does;  *)
(* a wrong password takes the name back; until then every command is       *)
(* denied and without effect; a command has effect on the session that     *)
(* gives it only.                                                          *)
(***************************************************************************)
EXTENDS Naturals

CONSTANTS Clients,
          Names, Words, Verbs,   \* what clients say: after USER, after PASS, else
          Right,      \* names that may log in
          Password,   \* with this password
          Default,    \* what a session begins with
          Settings    \* what it may become

VARIABLES stage,     \* how far each client has got
          settings,  \* transfer type, data socket and directory of each session
          answer     \* the latest answer: to whom, to what, and which it was

accessVars == <<stage, settings, answer>>

\* The answer to what c says is one of codes.
Answers(c, verb, arg, codes) ==
    answer' \in [client : {c}, verb : {verb}, arg : {arg}, code : codes]

AccessInit ==
    /\ stage = [c \in Clients |-> "away"]
    /\ settings = [c \in Clients |-> Default]
    /\ \E c \in Clients : answer = [client |-> c, verb |-> "none", arg |-> "", code |-> 0]

\* Some are ignored: there is no room for them.
Enter(c) ==
    /\ Answers(c, "connect", "", {220})
    /\ stage[c] = "away"
    /\ \E s \in {"out", "ignored"} : stage' = [stage EXCEPT ![c] = s]
    /\ UNCHANGED settings

Present(c) == stage[c] \in {"out", "named", "in"}

GiveName(c, name) ==
    /\ \/ /\ Answers(c, "USER", name, {530})
          /\ stage[c] = "in"
          /\ UNCHANGED stage
       \/ /\ Answers(c, "USER", name, {331})
          /\ Present(c) /\ stage[c] # "in"
          /\ stage' = [stage EXCEPT ![c] = IF name \in Right THEN "named" ELSE "out"]
    /\ UNCHANGED settings

GivePassword(c, word) ==
    /\ \/ /\ Answers(c, "PASS", word, {230})
          /\ stage[c] = "in" \/ (stage[c] = "named" /\ word = Password)
          /\ stage' = [stage EXCEPT ![c] = "in"]
       \/ /\ Answers(c, "PASS", word, {503, 530})
          /\ stage[c] = "out" \/ (stage[c] = "named" /\ word # Password)
          /\ stage' = [stage EXCEPT ![c] = "out"]
    /\ UNCHANGED settings

\* The answers to somebody that is in.
Granted == 150..599 \ {530}

\* Any other command: denied, or carried out, well or not.
Use(c, verb) ==
    /\ \/ /\ Answers(c, verb, "", {530})
          /\ Present(c) /\ stage[c] # "in"
          /\ UNCHANGED settings
       \/ /\ Answers(c, verb, "", Granted)
          /\ stage[c] = "in"
          /\ settings' \in [Clients -> Settings]
          /\ \A d \in Clients \ {c} : settings'[d] = settings[d]
    /\ UNCHANGED stage

\* The next connection of c begins anew.
Leave(c) ==
    /\ Answers(c, "QUIT", "", {221})
    /\ Present(c)
    /\ stage' = [stage EXCEPT ![c] = "away"]
    /\ settings' = [settings EXCEPT ![c] = Default]

AccessNext ==
    \E c \in Clients :
        \/ Enter(c) \/ Leave(c)
        \/ \E name \in Names : GiveName(c, name)
        \/ \E word \in Words : GivePassword(c, word)
        \/ \E verb \in Verbs : Use(c, verb)

Access == AccessInit /\ [][AccessNext]_accessVars

=============================================================================
