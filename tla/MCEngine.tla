------------------------------ MODULE MCEngine ------------------------------
(* Model of CommandEngine for TLC: buffers and allocators are interchangeable. *)
EXTENDS ResourceStates, TLC

CONSTANTS b1, b2, b3, b4, a1, a2

Symmetry == Permutations(Buffer) \cup Permutations(Allocator)

=============================================================================
