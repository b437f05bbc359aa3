---------------------------- MODULE Subsequences ----------------------------
(***************************************************************************)
(* The part of a sequence at chosen positions, which is how the code filters *)
(* its queues.  SelectSeq says the same, but the provers know nothing of it.*)
(***************************************************************************)
EXTENDS Integers, Sequences, FiniteSetsExt

\* How many members of a set of numbers are at most i, and the member with k of
\* them.
Rank(D, i) == Cardinality({j \in D : j <= i})
Nth(D, k) == CHOOSE i \in D : Rank(D, i) = k

\* The elements of seq at the positions in D, in their order.
Pick(seq, D) == [k \in 1..Cardinality(D) |-> seq[Nth(D, k)]]

\* The sequences that list a finite set, in every order.
Orders(S) == Injection(1..Cardinality(S), S)
=============================================================================
