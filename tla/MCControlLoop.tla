--------------------------- MODULE MCControlLoop ---------------------------
(* Instances of ControlLoop small enough for TLC. *)
EXTENDS ControlLoop, TLC

\* Clients that send nothing are interchangeable; sound where no liveness property is
\* checked.
ClientSymmetry == Permutations(Clients \ Talkers)
=============================================================================
