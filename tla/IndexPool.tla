------------------------------- MODULE IndexPool -------------------------------
(* What BindlessFreeListAllocator promises: a pool of the indices below its       *)
(* size, each with at most one owner; a request is refused only when every index  *)
(* is taken, and only an index that is taken can be given back.                   *)
EXTENDS Integers

CONSTANT Refusal  \* the answer of a call that is refused

VARIABLES
  taken,  \* indices that have an owner
  limit,  \* the number of indices
  given   \* the last call and its answer

Indices == 0..limit - 1

Take(i) == i \in Indices \ taken /\ taken' = taken \cup {i} /\ given' = <<"allocate", i>>

TakeRefused == Indices \subseteq taken /\ taken' = taken /\ given' = <<"allocate", Refusal>>

GiveBack(i) == i \in taken /\ taken' = taken \ {i} /\ given' = <<"release", i>>

GiveBackRefused == taken' = taken /\ given' = <<"release", Refusal>>

Widen == limit' \in Nat /\ limit' >= limit /\ taken' = taken /\ given' = <<"resize", limit'>>

WidenRefused == taken' = taken /\ limit' = limit /\ given' = <<"resize", Refusal>>

PoolInit == taken = {} /\ limit \in Nat /\ given = <<"none", Refusal>>

PoolNext ==
  \/ /\ TakeRefused \/ GiveBackRefused \/ \E i \in Indices : Take(i) \/ GiveBack(i)
     /\ limit' = limit
  \/ Widen
  \/ WidenRefused

PoolSpec == PoolInit /\ [][PoolNext]_<<taken, limit, given>>

================================================================================
