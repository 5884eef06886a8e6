------------------------------- MODULE MCMesh -------------------------------
(***************************************************************************)
(* Instances of Mesh for TLC.  The read limits are the code's own; the     *)
(* pools of actors and suppliers are small.                                *)
(***************************************************************************)
EXTENDS MeshInv, TLC

CONSTANTS s1, s2

\* Every run has a correlation id of its own (Corrs = Runs), or all share one:
\* a client that submits its requirement again.
OwnCorr == [r \in Runs |-> r]
SameCorr == [r \in Runs |-> CHOOSE c \in Corrs : TRUE]

OneSupplier == <<s1>>
TwoSuppliers == <<s1, s2>>

\* The policy accepts every supplier, or only s2.
AcceptAll(s, sized) == TRUE
AcceptSecond(s, sized) == s = s2

\* s1 scores higher; or all tie.
FirstBetter(s, sized) == IF s = s1 THEN 2 ELSE 1
Tied(s, sized) == 1
SameInitial(s) == 65

\* Runs that only differ by their name; those of them that are well formed.
RunSymmetry == Permutations(Runs)
SoundSymmetry == Permutations({r \in Runs : ~Malformed(CorrOf[r])})
=============================================================================
