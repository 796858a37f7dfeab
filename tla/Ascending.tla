----------------------------- MODULE Ascending -----------------------------
(* The order in which a loop that counts up comes to some numbers. *)
EXTENDS Naturals, FiniteSets

(* The numbers of a finite set, the lowest first. *)
Ascending(S) ==
    [n \in 1 .. Cardinality(S) |->
        CHOOSE i \in S : Cardinality({j \in S : j < i}) = n - 1]

=============================================================================
