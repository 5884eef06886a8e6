--------------------------- MODULE MCPolicyServer ---------------------------
(***************************************************************************)
(* Instances of PolicyServer for TLC.  Version 1 is the baseline as        *)
(* configured, whose stability threshold (0.5) is under the guardrail      *)
(* (0.6); 2 is the same after clamping; 3 is a perturbation; 4 is one      *)
(* whose weights left their band when they were normalised.                *)
(***************************************************************************)
EXTENDS PolicyServer, TLC

CONSTANTS A, B

Guardrail(v) == v \in {2, 3}

\* Policy 3 moves the choice on trace 1.
ByWeights(t, basis) == IF t = 1 /\ basis["weights"] = 3 THEN B ELSE A

Grid == 1 :> {2, 3, 4} @@ 2 :> {2, 3, 4} @@ 3 :> {2, 3} @@ 4 :> {}

NewFile == {Empty}
=============================================================================
