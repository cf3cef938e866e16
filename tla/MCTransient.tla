------------------------------ MODULE MCTransient ------------------------------
(***************************************************************************)
(* Containers and allocators for TLC: a RingBuffer by itself, the pool of     *)
(* fenced resources over one, the allocators on a heap, or a FreeList. They   *)
(* share nothing, so a behaviour exercises one of them.                      *)
(***************************************************************************)
EXTENDS FencedResourcePool, DescriptorAllocators, FreeList, TLC

CONSTANTS r1, r2, r3, h1, h2, h3

VARIABLE exercised

allVars == <<exercised, poolVars, allocatorVars, freeListVars>>

\* What the ring buffer by itself holds.
Few == [Resource : Resource, FencePoint : {1}]

SmallInit ==
  /\ exercised \in {"ring", "pool", "heap", "slots"}
  /\ IF exercised = "ring" THEN Init ELSE Init /\ cells = 1
  /\ PoolInit
  /\ AllocatorsInit
  /\ FreeListInit

SmallNext ==
  /\ UNCHANGED exercised
  /\ \/ /\ exercised = "ring"
        /\ (\E v \in Few : push_back(v)) \/ pop_front \/ front \/ \E n \in 0..MaxCells - 1 : resize(n)
        /\ UNCHANGED <<holders, queue, allocatorVars, freeListVars>>
     \/ exercised = "pool" /\ PoolNext /\ UNCHANGED <<allocatorVars, freeListVars>>
     \/ exercised = "heap" /\ AllocatorsNext /\ UNCHANGED <<poolVars, freeListVars>>
     \/ exercised = "slots" /\ FreeListNext /\ UNCHANGED <<poolVars, allocatorVars>>

SmallSpec == SmallInit /\ [][SmallNext]_allVars

Symmetry == Permutations(Holder) \cup Permutations(Resource)
=============================================================================
