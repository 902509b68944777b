--------------------------- MODULE MCResolveChain ---------------------------
(* Instances of ResolveChain for TLC. *)
EXTENDS ResolveChain, TLC

Symmetry == Permutations(Session)

=============================================================================
