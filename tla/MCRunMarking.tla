----------------------------- MODULE MCRunMarking -----------------------------
(* Instances of RunMarking for TLC.                                         *)
EXTENDS RunMarking, TLC

CONSTANTS c1, c2, c3, h1, h2, h3

OneProcess == [h \in Requests |-> "p1"]
EachItsOwn == [h \in Requests |-> h]
TwoOnOne   == [h \in Requests |-> IF h = h3 THEN "p2" ELSE "p1"]

Symmetry == Permutations(Cases) \cup Permutations(Requests)
=============================================================================
