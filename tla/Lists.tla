------------------------------- MODULE Lists --------------------------------
(***************************************************************************)
(* List comprehensions, without recursion.                                 *)
(***************************************************************************)
EXTENDS Integers, Sequences, FiniteSets

\* The i-th smallest member of a set of integers.
Nth(J, i) == CHOOSE j \in J : Cardinality({k \in J : k <= j}) = i

\* The members of s outside X, in their order.
Without(s, X) ==
  LET keep == {i \in 1..Len(s) : s[i] \notin X}
  IN  [i \in 1..Cardinality(keep) |-> s[Nth(keep, i)]]
=============================================================================
