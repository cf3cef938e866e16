---------------------- MODULE BindlessFreeListAllocator ----------------------
(***************************************************************************)
(* BindlessFreeListAllocator: hands out descriptor indices. The free indices *)
(* wait in a queue, a flag per index says whether it is there. Resizing adds *)
(* indices behind the ones that are free. Single-threaded.                   *)
(***************************************************************************)
EXTENDS Integers, Sequences

CONSTANTS
  MaxDescriptors,  \* bound on the number of indices
  Refused          \* the answer of a call that is refused

ASSUME BindlessAssumption == MaxDescriptors \in Nat /\ Refused \notin Int

VARIABLES
  m_FreeList,        \* the free indices, oldest first
  room,              \* m_FreeList.capacity()
  m_FreeSet,         \* per index, whether it is free
  m_NumDescriptors,
  answer             \* the last call and its answer

allocatorVars == <<m_FreeList, room, m_FreeSet, m_NumDescriptors, answer>>

-----------------------------------------------------------------------------
\* from, from + 1, ..., to - 1 in order.
Counting(from, to) == [k \in 1..to - from |-> from + k - 1]

\* The room of a ring buffer with room for r elements after it took its n-th.
RoomFor(r, n) == IF n <= r THEN r ELSE 2 * (r + 1)

\* The allocator made for n indices.
Created(n) ==
  /\ m_FreeList = Counting(0, n)
  /\ room = n
  /\ m_FreeSet = [i \in 0..n - 1 |-> TRUE]
  /\ m_NumDescriptors = n
  /\ answer = <<"none", Refused>>

Init == \E n \in 0..MaxDescriptors : Created(n)

\* Allocate.
AllocateRefused ==
  /\ m_FreeList = <<>>
  /\ answer' = <<"allocate", Refused>>
  /\ UNCHANGED <<m_FreeList, room, m_FreeSet, m_NumDescriptors>>

AllocateIndex(i) ==
  /\ m_FreeList # <<>>
  /\ i = Head(m_FreeList)
  /\ m_FreeList' = Tail(m_FreeList)
  /\ m_FreeSet' = [m_FreeSet EXCEPT ![i] = FALSE]
  /\ answer' = <<"allocate", i>>
  /\ UNCHANGED <<room, m_NumDescriptors>>

\* Release of any index, which may be out of range or free already. (Variant:
\* the flag is not asked.)
AcceptsTwice(i) == i < m_NumDescriptors
Accepts(i) == i < m_NumDescriptors /\ ~m_FreeSet[i]

ReleaseRefused(i) ==
  /\ ~Accepts(i)
  /\ answer' = <<"release", Refused>>
  /\ UNCHANGED <<m_FreeList, room, m_FreeSet, m_NumDescriptors>>

ReleaseIndex(i) ==
  /\ Accepts(i)
  /\ m_FreeList' = Append(m_FreeList, i)
  /\ room' = RoomFor(room, Len(m_FreeList) + 1)
  /\ m_FreeSet' = [m_FreeSet EXCEPT ![i] = TRUE]
  /\ answer' = <<"release", i>>
  /\ UNCHANGED m_NumDescriptors

Release(i) == ReleaseRefused(i) \/ ReleaseIndex(i)

\* Resize(n): smaller is refused, also by the ring buffer if it has more room by
\* then; the same size changes nothing.
ResizeSame(n) ==
  /\ n = m_NumDescriptors
  /\ answer' = <<"resize", n>>
  /\ UNCHANGED <<m_FreeList, room, m_FreeSet, m_NumDescriptors>>

ResizeRefused(n) ==
  /\ n < m_NumDescriptors \/ (n > m_NumDescriptors /\ n < room)
  /\ answer' = <<"resize", Refused>>
  /\ UNCHANGED <<m_FreeList, room, m_FreeSet, m_NumDescriptors>>

\* The indices a resize to n adds.
Added(n) == Counting(m_NumDescriptors, n)

ResizeUp(n) ==
  /\ n > m_NumDescriptors /\ n >= room
  /\ m_FreeList' = m_FreeList \o Added(n)
  /\ room' = RoomFor(n, Len(m_FreeList) + n - m_NumDescriptors)
  /\ m_FreeSet' = [i \in 0..n - 1 |-> IF i < m_NumDescriptors THEN m_FreeSet[i] ELSE TRUE]
  /\ m_NumDescriptors' = n
  /\ answer' = <<"resize", n>>

Resize(n) == ResizeSame(n) \/ ResizeRefused(n) \/ ResizeUp(n)

AllocatorNext ==
  \/ AllocateRefused
  \/ \E i \in 0..MaxDescriptors - 1 : AllocateIndex(i)
  \/ \E i \in 0..MaxDescriptors : Release(i)
  \/ \E n \in 0..MaxDescriptors : Resize(n)

AllocatorSpec == Init /\ [][AllocatorNext]_allocatorVars

-----------------------------------------------------------------------------
(* Properties *)

\* The shape of the state.
AllocatorTypeOK ==
  /\ m_NumDescriptors \in 0..MaxDescriptors
  /\ room \in Nat
  /\ m_FreeList \in Seq(0..m_NumDescriptors - 1)
  /\ m_FreeSet \in [0..m_NumDescriptors - 1 -> BOOLEAN]
  /\ answer \in {"none", "allocate", "release", "resize"} \X (0..MaxDescriptors \cup {Refused})

\* Queue and flags agree: an index is in the queue exactly once if it is flagged
\* free, and not at all otherwise.
QueueMatchesFlags ==
  /\ \A j, k \in DOMAIN m_FreeList : m_FreeList[j] = m_FreeList[k] => j = k
  /\ \A i \in 0..m_NumDescriptors - 1 :
       m_FreeSet[i] <=> \E k \in DOMAIN m_FreeList : m_FreeList[k] = i

\* The ring buffer under the queue always has room for exactly all the indices: it
\* never grows by itself, and so never refuses the resize that the allocator's own
\* check let through.
RoomForAll == room = m_NumDescriptors /\ Len(m_FreeList) <= room

\* The allocator is a pool of indices: no index has two owners, a request is refused
\* only when all are taken, a double release is refused, and resizing disturbs no
\* owner.
Taken == {i \in 0..m_NumDescriptors - 1 : ~m_FreeSet[i]}

Pool == INSTANCE IndexPool WITH
  Refusal <- Refused, taken <- Taken, limit <- m_NumDescriptors, given <- answer

ImplementsPool == Pool!PoolSpec

=============================================================================
