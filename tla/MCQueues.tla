------------------------------ MODULE MCQueues ------------------------------
(* Model of CommandQueues for TLC: queues and jobs are interchangeable. *)
EXTENDS CommandQueues, TLC

CONSTANTS a, b, c, j1, j2, j3

Symmetry == Permutations(Queue) \cup Permutations(Job)

=============================================================================
