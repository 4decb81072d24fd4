----------------------------- MODULE Subsequence ----------------------------
(***************************************************************************)
(* Array.prototype.filter: what is left of a sequence at some of its       *)
(* positions, in their order.  A position is found by its rank among them, *)
(* not by a recursion, so that proofs can follow it.                       *)
(***************************************************************************)
EXTENDS Integers, Sequences, FiniteSets

(* How many of I come before i, and which of I comes k-th. *)
Rank(I, i) == Cardinality({j \in I : j < i})
Nth(I, k) == CHOOSE i \in I : Rank(I, i) = k - 1

Filtered(s, I) == [k \in 1..Cardinality(I) |-> s[Nth(I, k)]]
=============================================================================
