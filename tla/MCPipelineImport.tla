--------------------------- MODULE MCPipelineImport ---------------------------
(* Instances of PipelineImport for TLC.                                      *)
EXTENDS PipelineImport, TLC

CONSTANTS w1, w2, q1, q2

TwoGitLab == 1 :> "gitlab" @@ 2 :> "gitlab"
TwoGitHub == 1 :> "github" @@ 2 :> "github"
OneOfEach == 1 :> "gitlab" @@ 2 :> "github"

Symmetry == Permutations({w1, w2}) \cup Permutations({q1, q2})

(* Bound: one of the two dispatches is made, the faults strike the GitLab    *)
(* one, after which reconcile requests do not overlap, and its client is the *)
(* one that waits (only ExitCodesTell reads the client, and speaks of GitLab).*)
OneDispatch ==
  /\ stage[1] = "idle" \/ stage[2] = "idle"
  /\ stage[2] = "idle" \/ faults = 0
  /\ faults = 0 \/ Cardinality({q \in Reconcilers : recon[q].pc # "idle"}) <= 1
  /\ client[2] = "waiting"
=============================================================================
