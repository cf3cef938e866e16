--------------------------- MODULE DescriptorManager ---------------------------
(***************************************************************************)
(* DescriptorManager: descriptors that keep their index while the heaps they *)
(* live in are replaced by larger ones. Views are written into the CPU heap; *)
(* SetDescriptorHeap copies it into the shader-visible one.                  *)
(***************************************************************************)
EXTENDS BindlessFreeListAllocator

CONSTANTS
  View,   \* views that can be written
  Blank   \* a heap entry or a descriptor nothing has been written to

ASSUME ManagerAssumption == Blank \notin View

VARIABLES
  m_CPUHeap,  \* its entries
  m_GPUHeap,  \* its entries
  written,    \* history: what the owner of each index wrote through its descriptor
  settled     \* history: nothing has happened since the last SetDescriptorHeap

vars == <<allocatorVars, m_CPUHeap, m_GPUHeap, written, settled>>

heapVars == <<m_CPUHeap, m_GPUHeap, written>>

-----------------------------------------------------------------------------
Blanks(n) == [i \in 0..n - 1 |-> Blank]

ManagerInit ==
  /\ Init
  /\ m_CPUHeap = Blanks(m_NumDescriptors)
  /\ m_GPUHeap = Blanks(m_NumDescriptors)
  /\ written = Blanks(m_NumDescriptors)
  /\ settled = FALSE

\* CopyDescriptors into a new heap of n entries.
CopiedTo(n, heap) == [i \in 0..n - 1 |-> IF i \in DOMAIN heap THEN heap[i] ELSE Blank]

Acquire ==
  \/ AllocateRefused /\ UNCHANGED heapVars
  \/ \E i \in DOMAIN m_CPUHeap :
       /\ AllocateIndex(i)
       /\ written' = [written EXCEPT ![i] = Blank]
       /\ UNCHANGED <<m_CPUHeap, m_GPUHeap>>

\* A release, which the allocator may refuse.
ReleaseDescriptor(i) ==
  /\ Release(i)
  /\ UNCHANGED heapVars

\* Resize: not even the same size is accepted. Both heaps are replaced before the
\* allocator is resized, the GPU heap filled from the new CPU heap. (Variant: the
\* CPU heap is filled from the GPU heap.)
ManagerResizeRefused(n) ==
  /\ m_NumDescriptors >= n
  /\ answer' = <<"resize", Refused>>
  /\ UNCHANGED <<m_FreeList, room, m_FreeSet, m_NumDescriptors, heapVars>>

ReplaceHeapsFromGPU(n) ==
  /\ m_NumDescriptors < n
  /\ m_CPUHeap' = CopiedTo(n, m_GPUHeap)
  /\ m_GPUHeap' = CopiedTo(n, m_CPUHeap')
  /\ Resize(n)
  /\ written' = CopiedTo(n, written)

ReplaceHeaps(n) ==
  /\ m_NumDescriptors < n
  /\ m_CPUHeap' = CopiedTo(n, m_CPUHeap)
  /\ m_GPUHeap' = CopiedTo(n, m_CPUHeap')
  /\ Resize(n)
  /\ written' = CopiedTo(n, written)

ManagerResize(n) == ManagerResizeRefused(n) \/ ReplaceHeaps(n)

\* Resolve, of any index: whether it names an entry, and the view its owner writes
\* there.
Resolves(i) == i < m_NumDescriptors /\ ~m_FreeSet[i] /\ i \in DOMAIN m_CPUHeap

WriteView(i, v) ==
  /\ Resolves(i)
  /\ m_CPUHeap' = [m_CPUHeap EXCEPT ![i] = v]
  /\ written' = [written EXCEPT ![i] = v]
  /\ UNCHANGED <<allocatorVars, m_GPUHeap>>

ResolveRefused(i) ==
  /\ ~Resolves(i)
  /\ UNCHANGED <<allocatorVars, heapVars>>

\* SetDescriptorHeap. (Variant: only what was never copied is copied.)
SetDescriptorHeapNewOnly ==
  /\ m_GPUHeap' = [i \in DOMAIN m_GPUHeap |->
                     IF m_GPUHeap[i] = Blank THEN m_CPUHeap[i] ELSE m_GPUHeap[i]]
  /\ UNCHANGED <<allocatorVars, m_CPUHeap, written>>

SetDescriptorHeap ==
  /\ m_GPUHeap' = [i \in DOMAIN m_GPUHeap |->
                     IF i \in DOMAIN m_CPUHeap THEN m_CPUHeap[i] ELSE m_GPUHeap[i]]
  /\ UNCHANGED <<allocatorVars, m_CPUHeap, written>>

Next ==
  \/ /\ \/ Acquire
        \/ \E i \in 0..MaxDescriptors :
             ReleaseDescriptor(i) \/ ResolveRefused(i) \/ \E v \in View : WriteView(i, v)
        \/ \E n \in 0..MaxDescriptors : ManagerResize(n)
     /\ settled' = FALSE
  \/ SetDescriptorHeap /\ settled' = TRUE

Spec == ManagerInit /\ [][Next]_vars

-----------------------------------------------------------------------------
(* Properties *)

\* The shape of the state.
TypeOK ==
  /\ m_NumDescriptors \in 0..MaxDescriptors
  /\ m_CPUHeap \in [0..m_NumDescriptors - 1 -> View \cup {Blank}]
  /\ m_GPUHeap \in [0..m_NumDescriptors - 1 -> View \cup {Blank}]
  /\ written \in [0..m_NumDescriptors - 1 -> View \cup {Blank}]

\* A descriptor that has not been released resolves into the current heap and finds
\* there the view its owner wrote, however often the heaps were replaced since and
\* whatever other descriptors were released, acquired and written in between.
OwnersFindTheirViews ==
  \A i \in 0..m_NumDescriptors - 1 :
    ~m_FreeSet[i] => Resolves(i) /\ (written[i] # Blank => m_CPUHeap[i] = written[i])

\* A list that has just been given the heap sees through every index what its owner
\* wrote there, not a view of a former owner that had been copied before.
ShadersSeeOwnersViews ==
  settled =>
    \A i \in 0..m_NumDescriptors - 1 :
      ~m_FreeSet[i] /\ written[i] # Blank => m_GPUHeap[i] = written[i]

=============================================================================
