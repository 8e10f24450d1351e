----------------------------- MODULE Selection -----------------------------
(* What `iter().filter(..).collect()' does: the elements of a sequence at    *)
(* some of its positions, in their order.                                    *)
EXTENDS Naturals, Sequences, FiniteSets

\* The k-th of a set of positions.
Nth(I, k) == CHOOSE i \in I : Cardinality({j \in I : j < i}) = k - 1

Picked(s, I) == [k \in 1 .. Cardinality(I) |-> s[Nth(I, k)]]

=============================================================================
