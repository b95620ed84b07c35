---------------------------- MODULE Subsequences ----------------------------
(***************************************************************************)
(* The elements of a sequence at some of its positions, in their order: what *)
(* a loop that passes over a list and keeps some of it returns.  The          *)
(* definition does not recur, so that it can be reasoned about.              *)
(***************************************************************************)
EXTENDS Integers, Sequences, FiniteSets

Pick(S) == CHOOSE x \in S : TRUE

\* How many positions of P come up to i; the one up to which there are k.
Rank(P, i) == Cardinality({j \in P : j <= i})
WithRank(P, k) == {i \in P : Rank(P, i) = k}
Nth(P, k) == Pick(WithRank(P, k))

\* s is a sequence.
IsTuple(s) == Len(s) \in Nat /\ s = [i \in 1..Len(s) |-> s[i]]

ElementsAt(s, P) == [k \in 1..Cardinality(P) |-> s[Nth(P, k)]]
=============================================================================
