--------------------------------- MODULE MCCLI ---------------------------------
(* An instance of CLI for TLC: pushes of a working tree of two files, which  *)
(* are moved and given other ids in between.                                 *)
EXTENDS CLI

TwoPaths  == <<"a", "b">>
Pushes    == {[cmd |-> "sync", bad |-> FALSE, force |-> FALSE, dry |-> FALSE, wait |-> FALSE]}
Generated == <<"g1", "g2", "g3", "g4", "g5">>
OnlyEnv   == {[s \in ToSet(Sources) |-> IF s = "env" THEN "good" ELSE "unset"]}
=============================================================================
