---------------------------------- MODULE Lists ----------------------------------
(***************************************************************************)
(* The order in which the library goes through what it has collected: the  *)
(* index of an array, or the key of a std::map.                            *)
(***************************************************************************)
EXTENDS Integers, FiniteSets

\* The members of the finite set S one after the other; before, a set of pairs,
\* says which of two comes first.
Arranged(S, before) ==
    [k \in 1..Cardinality(S) |-> CHOOSE x \in S : Cardinality({y \in S : <<y, x>> \in before}) = k - 1]

\* A set of numbers from the least to the greatest.
Ascending(S) == Arranged(S, {p \in S \X S : p[1] < p[2]})
=============================================================================
