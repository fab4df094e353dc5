---------------------------- MODULE MCDataChannel ----------------------------
(* DataChannel on small instances: clients and sockets are interchangeable.  *)
EXTENDS DataChannel, TLC

ChannelSymmetry == Permutations(Clients) \cup Permutations(Ports)

=============================================================================
