---------------------------- MODULE MCClientText ----------------------------
(* What shares nothing, in one state space: a behaviour is one of the client  *)
(* and its server, or a line, an argument of PORT or a PASV, and the rest is   *)
(* as it was at the start.                                                    *)
EXTENDS MCFtpClient, CommandLine, PortCodec

textVars == <<line, portVars>>
allVars  == <<vars, textVars>>

NoText == line = <<>> /\ argument = <<>> /\ listening = NoPort

AllInit == Init /\ LineInit /\ PortInit

AllNext ==
    \/ Next /\ NoText /\ UNCHANGED textVars
    \/ Init /\ argument = <<>> /\ listening = NoPort /\ Arrive /\ UNCHANGED <<vars, portVars>>
    \/ Init /\ line = <<>> /\ PortNext /\ UNCHANGED <<vars, line>>

AllSpec == AllInit /\ [][AllNext]_allVars /\ Fairness

=============================================================================
