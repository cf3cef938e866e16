----------------------------- MODULE MCDescriptors -----------------------------
(* Model of DescriptorManager for TLC: up to three descriptors, two views.       *)
EXTENDS DescriptorManager, TLC

CONSTANTS u, v

Symmetry == Permutations(View)

=============================================================================
