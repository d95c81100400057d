---------------------------- MODULE Subsequences ----------------------------
(***************************************************************************)
(* The elements of a sequence that a loop over it keeps, in their order.   *)
(***************************************************************************)
EXTENDS Integers, Sequences, FiniteSets

\* How many of the indices in kept are not after i.
Rank(kept, i) == Cardinality({j \in kept : j <= i})

\* What is left of s when only the indices in kept are.
Subsequence(s, kept) ==
    [k \in 1 .. Cardinality(kept) |-> s[CHOOSE i \in kept : Rank(kept, i) = k]]
=============================================================================
