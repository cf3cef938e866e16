-------------------------- MODULE DescriptorAllocators --------------------------
(***************************************************************************)
(* DescriptorRingAllocator and DescriptorFreeListAllocator on two parts of    *)
(* one heap. Nothing in the library uses them yet: their client makes any     *)
(* legal calls, and some that must be refused.                               *)
(***************************************************************************)
EXTENDS DescriptorHeap, Sequences, SequencesExt, FiniteSets

CONSTANTS
  RingSize  \* how many of the descriptors the ring allocator has

VARIABLES
  m_Size, m_AllocateIndex, m_ReleaseIndex,  \* of the ring allocator
  taken,        \* history: descriptors of the ring the client has, oldest first, each
                \* with its cost: the gap before it counts
  m_FreeList, m_FreeSet,                    \* of the free-list allocator
  owned,        \* history: handles of the free list the client has
  refusal       \* what the last call returned

\* No sum wraps: heaps have far fewer than 2^32 / 3 descriptors. And an address one byte
\* after a descriptor's is no descriptor's.
ASSUME AllocatorsAssumption ==
  /\ RingSize \in 0..NumDescriptors
  /\ 3 * NumDescriptors + 1 < Width
  /\ Increment > 1

ringVars == <<m_Size, m_AllocateIndex, m_ReleaseIndex, taken>>
listVars == <<m_FreeList, m_FreeSet, owned>>
allocatorVars == <<ringVars, listVars, refusal>>

RingRange == IF RingSize = 0 THEN NoRange ELSE Subrange(GetHeapRange, 0, RingSize).value
ListRange == IF RingSize = NumDescriptors THEN NoRange
             ELSE Subrange(GetHeapRange, RingSize, NumDescriptors - RingSize).value

-----------------------------------------------------------------------------
AllocatorsInit ==
  /\ m_Size = 0 /\ m_AllocateIndex = 0 /\ m_ReleaseIndex = 0 /\ taken = <<>>
  /\ m_FreeList = [k \in 1..ListRange.m_Size |-> k - 1]
  /\ m_FreeSet = [i \in 0..ListRange.m_Size - 1 |-> TRUE]
  /\ owned = {}
  /\ refusal = "Success"

\* CalculateAllocationIndexAndSize: a block that does not fit before the end starts
\* over and pays for the gap it leaves. (Variant: the gap costs nothing.)
AllocationWithoutGap(num) ==
  IF Plus(m_AllocateIndex, num) > RingRange.m_Size THEN <<0, num>> ELSE <<m_AllocateIndex, num>>

Allocation(num) ==
  IF Plus(m_AllocateIndex, num) > RingRange.m_Size
  THEN <<0, Plus(num, RingRange.m_Size - m_AllocateIndex)>>
  ELSE <<m_AllocateIndex, num>>

CanAllocate(num) == Plus(Allocation(num)[2], m_Size) <= RingRange.m_Size

\* The descriptors of a block as the client keeps them.
Block(range, cost) ==
  [k \in 1..range.m_Size |->
     [handle |-> At(range, k - 1).value, cost |-> IF k = 1 THEN cost - range.m_Size + 1 ELSE 1]]

\* Allocate. For no descriptors at the end of the ring the error of Subrange is
\* dereferenced.
AllocateBlock(num) ==
  IF ~CanAllocate(num)
  THEN refusal' = "AllocationError" /\ UNCHANGED ringVars
  ELSE LET block == Subrange(RingRange, Allocation(num)[1], num)
       IN  /\ m_Size' = Plus(m_Size, Allocation(num)[2])
           /\ m_AllocateIndex' = Plus(Allocation(num)[1], num)
           /\ taken' = IF block.error = "Success" THEN taken \o Block(block.value, Allocation(num)[2])
                       ELSE taken
           /\ refusal' = IF block.error = "Success" THEN "Success" ELSE "undefined"
           /\ UNCHANGED m_ReleaseIndex

\* Release of num descriptors. An allocator without any divides by zero.
ReleaseNumber(num) ==
  IF num > m_Size
  THEN refusal' = "ReleaseError" /\ UNCHANGED <<m_Size, m_ReleaseIndex>>
  ELSE IF RingRange.m_Size = 0
  THEN refusal' = "undefined" /\ UNCHANGED <<m_Size, m_ReleaseIndex>>
  ELSE /\ m_ReleaseIndex' = Plus(m_ReleaseIndex, num) % RingRange.m_Size
       /\ m_Size' = m_Size - num
       /\ refusal' = "Success"

\* The client gives up its k oldest descriptors, and the gaps before them if it kept
\* account of them.
Costs(k) == FoldLeft(LAMBDA sum, d : sum + d.cost, 0, SubSeq(taken, 1, k))

ReleaseOldest(k) ==
  /\ \E num \in {k, Costs(k)} : ReleaseNumber(num)
  /\ taken' = SubSeq(taken, k + 1, Len(taken))
  /\ UNCHANGED m_AllocateIndex

ReleaseTooMany ==
  /\ ReleaseNumber(m_Size + 1)
  /\ UNCHANGED <<m_AllocateIndex, taken>>

-----------------------------------------------------------------------------
AllocateDescriptor ==
  IF m_FreeList = <<>>
  THEN refusal' = "EmptyError" /\ UNCHANGED listVars
  ELSE /\ m_FreeList' = Tail(m_FreeList)
       /\ m_FreeSet' = [m_FreeSet EXCEPT ![Head(m_FreeList)] = FALSE]
       /\ owned' = owned \cup {At(ListRange, Head(m_FreeList)).value}
       /\ refusal' = "Success"

\* Release of any handle. The client no longer has it then.
ReleaseDescriptor(handle) ==
  LET index == GetIndex(ListRange, handle)
  IN  IF index.error # "Success" \/ m_FreeSet[index.value]
      THEN refusal' = "InvalidDescriptor" /\ UNCHANGED listVars
      ELSE /\ m_FreeList' = Append(m_FreeList, index.value)
           /\ m_FreeSet' = [m_FreeSet EXCEPT ![index.value] = TRUE]
           /\ owned' = owned \ {handle}
           /\ refusal' = "Success"

\* Handles a client may present: of the heap, and beside it.
Handles ==
  { CreateDescriptorHandle(i).value : i \in 0..NumDescriptors - 1 }
    \cup { DescriptorHandle(CPUStart + a, 0, 0) : a \in {1, NumDescriptors * Increment} }

AllocatorsNext ==
  \/ \E num \in 0..RingSize + 1 : AllocateBlock(num) /\ UNCHANGED listVars
  \/ \E k \in 0..Len(taken) : ReleaseOldest(k) /\ UNCHANGED listVars
  \/ ReleaseTooMany /\ UNCHANGED listVars
  \/ AllocateDescriptor /\ UNCHANGED ringVars
  \/ \E handle \in Handles : ReleaseDescriptor(handle) /\ UNCHANGED ringVars

AllocatorsSpec == AllocatorsInit /\ [][AllocatorsNext]_allocatorVars

-----------------------------------------------------------------------------
\* No descriptor of the heap has two owners: blocks of the ring do not overlap and stay
\* in its part whatever gaps they left and whichever gaps were paid back, and the free
\* list holds nothing it has given out, whatever handles it was offered.
\* DescriptorRingAllocator.cpp:19, DescriptorFreeListAllocator.cpp:32.
DescriptorsApart ==
  /\ \A j, k \in DOMAIN taken : taken[j].handle = taken[k].handle => j = k
  /\ \A k \in DOMAIN taken : taken[k].handle.m_HeapIndex < RingSize
  /\ \A h \in owned : h.m_HeapIndex \in RingSize..NumDescriptors - 1
  /\ \A h \in owned : \A k \in DOMAIN m_FreeList : At(ListRange, m_FreeList[k]).value # h
  /\ Len(m_FreeList) + Cardinality(owned) = ListRange.m_Size
=============================================================================
