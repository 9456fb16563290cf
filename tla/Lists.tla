--------------------------------- MODULE Lists ---------------------------------
(***************************************************************************)
(* What is left of a list when elements are taken out of it: list.remove   *)
(* and del and popitem of an ordered dictionary.  Defined by positions     *)
(* rather than by recursion, so that ListProofs can reason about it.       *)
(***************************************************************************)
EXTENDS Integers, Sequences, FiniteSets

(* The n-th element is the n-th of those that are kept.                     *)
Without(list, gone) ==
  LET kept == {i \in 1 .. Len(list) : list[i] \notin gone}
      Rank(i) == Cardinality({m \in kept : m <= i})
  IN [n \in 1 .. Cardinality(kept) |-> list[CHOOSE i \in kept : Rank(i) = n]]
=============================================================================
