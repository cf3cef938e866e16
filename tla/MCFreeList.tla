----------------------------- MODULE MCFreeList -----------------------------
(* Model of FencedResourceFreeList for TLC: three resource objects, two slots. *)
EXTENDS FencedResourceFreeListProofs, TLC

CONSTANTS r1, r2, r3

MCResource == {r1, r2, r3}
Symmetry == Permutations(MCResource)

=============================================================================
