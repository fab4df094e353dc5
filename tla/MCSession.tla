----------------------------- MODULE MCSession -----------------------------
EXTENDS Session, TLC

SessionSymmetry == Permutations(Clients)

=============================================================================
