----------------------------- MODULE MCRunSockets -----------------------------
(* Instances of RunSockets for TLC.                                         *)
EXTENDS RunSockets, TLC

CONSTANTS p1, p2, s1, s2, h1, h2

AllOnFirst == [s \in Sockets |-> p1]
OneEach    == [h \in Requests |-> IF h = h2 THEN p2 ELSE p1]
TwoAndOne  == [h \in Requests |-> IF h = h2 THEN 1 ELSE 2]

Symmetry == Permutations(Sockets)
=============================================================================
