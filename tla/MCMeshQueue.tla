---------------------------- MODULE MCMeshQueue -----------------------------
(* Instances of MeshQueue for TLC. *)
EXTENDS MeshQueue, TLC

CONSTANTS p1, p2, a, b

\* Both phones may name task a; p2 also names b.
SharedIds == p1 :> {a} @@ p2 :> {a, b}

=============================================================================
