----------------------------- MODULE PortCodec -----------------------------
(***************************************************************************)
(* Six numbers for an address and a port: the argument of PORT, by which   *)
(* the server connects, and the reply 227 to PASV, by which the client     *)
(* does.  Arithmetic is that of the code: int, then the 16 and 32 bits of  *)
(* a sockaddr_in.  The reply is read back by sscanf() as the six numbers   *)
(* it was printed from.                                                    *)
(*                                                                         *)
(* Definitions ending in _Faulty are mistakes the property named in their  *)
(* comment excludes; they are not part of the model.                       *)
(***************************************************************************)
EXTENDS Integers, Sequences, SequencesExt, Ascending

CONSTANTS
    Numbers,     \* the numbers a client gives to PORT
    MaxFields    \* bound: how many fields it gives

ASSUME NumbersAssumption == Numbers \subseteq Nat /\ MaxFields \in Nat

VARIABLES
    argument,    \* of PORT: its fields so far
    listening,   \* the port a passive data socket listens on
    reply        \* the numbers in the 227 that follows

portVars == <<argument, listening, reply>>

Ports == 0..(256 * 256 - 1)
NoPort == -1
Loopback == <<127, 0, 0, 1>>

-----------------------------------------------------------------------------
MergePort(high, low) ==
    IF high \in 0..255 /\ low \in 0..255 THEN high * 256 + low ELSE -1

\* The halves change places (PassiveRoundTrip).
SplitPort_Faulty(port) == <<port % 256, port \div 256>>

SplitPort(port) == <<port \div 256, port % 256>>

\* What is left of an int in sin_port: 65535 of the -1 of merge_port, which
\* nobody tests.
Htons(port) == port % (256 * 256)

\* (address[0] << 24) + (address[1] << 16) + (address[2] << 8) + address[3] in 32
\* bits, byte by byte: what does not fit into one is carried to the one before.
HostAddress(address) ==
    LET carry4 == address[4] \div 256
        carry3 == (address[3] + carry4) \div 256
        carry2 == (address[2] + carry3) \div 256
    IN  <<(address[1] + carry2) % 256, (address[2] + carry3) % 256,
          (address[3] + carry4) % 256, address[4] % 256>>

\* setup_active_data_socket of the server, setup_data_socket of the client.
SockAddr(hostPort) ==
    [host |-> HostAddress(hostPort), port |-> Htons(MergePort(hostPort[5], hostPort[6]))]

\* create_passive_data_socket.
PasvReply(port) ==
    LET ports == SplitPort(port) IN
    <<Loopback[1], Loopback[2], Loopback[3], Loopback[4], ports[1], ports[2]>>

\* A field of the argument of PORT: what atoi() makes of it, unless there is nothing
\* between the commas.
Field(number) == [empty |-> FALSE, number |-> number]
NoField == [empty |-> TRUE, number |-> 0]

\* strtok() passes over an empty field.
Pass(numbers, field) == IF field.empty THEN numbers ELSE Append(numbers, field.number)

\* An empty field counts (PortAims).
GetHostPort_Faulty(fields) ==
    IF Len(fields) < 6 THEN <<>> ELSE [i \in 1..6 |-> fields[i].number]

\* Fewer than six numbers are refused; those after the sixth are not read.
GetHostPort(fields) ==
    LET numbers == FoldLeft(Pass, <<>>, fields) IN
    IF Len(numbers) < 6 THEN <<>> ELSE SubSeq(numbers, 1, 6)

-----------------------------------------------------------------------------
PortInit ==
    /\ argument = <<>>
    /\ listening = NoPort
    /\ reply = <<>>

\* One more field of a PORT.
Give ==
    /\ listening = NoPort
    /\ Len(argument) < MaxFields
    /\ \E field \in {NoField} \cup {Field(n) : n \in Numbers} :
          argument' = Append(argument, field)
    /\ UNCHANGED <<listening, reply>>

\* A PASV: setup_passive_data_socket learns from getsockname() which port the kernel
\* has chosen.
Listen ==
    /\ argument = <<>>
    /\ listening = NoPort
    /\ listening' \in Ports
    /\ reply' = PasvReply(listening')
    /\ UNCHANGED argument

PortNext == Give \/ Listen

PortSpec == PortInit /\ [][PortNext]_portVars

-----------------------------------------------------------------------------
\* The numbers a client has given: those of the fields that are not empty, in order.
Given ==
    LET there == Ascending({i \in DOMAIN argument : ~argument[i].empty}) IN
    [n \in DOMAIN there |-> argument[there[n]].number]

\* A PORT is refused when it has fewer than six numbers; of six octets it makes the
\* server connect to the address and the port they name and to no other, whatever
\* comes after them and wherever a field is empty (get_host_port to
\* setup_active_data_socket).
PortAims ==
    /\ GetHostPort(argument) = <<>> <=> Len(Given) < 6
    /\ (Len(Given) >= 6 /\ \A i \in 1..6 : Given[i] \in 0..255) =>
          SockAddr(GetHostPort(argument)) =
              [host |-> <<Given[1], Given[2], Given[3], Given[4]>>,
               port |-> Given[5] * 256 + Given[6]]

\* The client connects to the port the server listens on, whichever the kernel
\* has chosen (set_final_port to connect_data_socket).
PassiveRoundTrip ==
    listening # NoPort => SockAddr(reply) = [host |-> Loopback, port |-> listening]

=============================================================================
