------------------------------ MODULE MCCIQueue ------------------------------
(* Instances of CIQueue for TLC.                                           *)
EXTENDS CIQueue

CONSTANTS w1, w2

MixedKinds == [j \in Jobs |-> IF j = 1 THEN "github" ELSE "sync"]
GitLabOnly == [j \in Jobs |-> "gitlab"]
=============================================================================
