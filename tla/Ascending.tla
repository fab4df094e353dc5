----------------------------- MODULE Ascending -----------------------------
(* The numbers of a finite set, the smallest first.                          *)
EXTENDS Naturals, FiniteSets

Ascending(S) ==
    [n \in 1..Cardinality(S) |->
        CHOOSE i \in S : Cardinality({k \in S : k < i}) = n - 1]

=============================================================================
