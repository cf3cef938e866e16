----------------------------- MODULE DescriptorHeap -----------------------------
(***************************************************************************)
(* DescriptorHeap, DescriptorRange and DescriptorHandle: the addresses of the *)
(* descriptors of a heap, and ranges of them. Numbers are 32 bits wide in the *)
(* code; Width stands for 2^32.                                              *)
(***************************************************************************)
EXTENDS Naturals

CONSTANTS
  Width,           \* of an unsigned number
  NumDescriptors,  \* of the heap
  Increment,       \* m_DescriptorSize
  CPUStart,        \* address of the first descriptor for the CPU
  GPUStart,        \* and for the GPU; 0 when shaders do not see the heap
  None             \* stands in for a value that is not there

ASSUME HeapAssumption ==
  /\ {Width, NumDescriptors, CPUStart, GPUStart} \subseteq Nat
  /\ Increment \in Nat \ {0}
  /\ Width > NumDescriptors * Increment + CPUStart

Plus(a, b) == (a + b) % Width

\* An expected value: there is one, or an error.
Value(v) == [value |-> v, error |-> "Success"]
Unexpected(e) == [value |-> None, error |-> e]

DescriptorHandle(cpu, gpu, index) == [m_CPUAddress |-> cpu, m_GPUAddress |-> gpu, m_HeapIndex |-> index]

\* DescriptorRange. The empty one has no increment.
NoRange == [m_Start |-> DescriptorHandle(0, 0, 0), m_Size |-> 0, m_Increment |-> 0]

IsValidRange(range) == range.m_Size # 0 /\ range.m_Increment # 0

First(range) == IF IsValidRange(range) THEN Value(range.m_Start) ELSE Unexpected("InvalidRange")

At(range, index) ==
  IF ~IsValidRange(range) THEN Unexpected("InvalidRange")
  ELSE IF index >= range.m_Size THEN Unexpected("InvalidIndex")
  ELSE Value(DescriptorHandle(range.m_Start.m_CPUAddress + range.m_Increment * index,
                              range.m_Start.m_GPUAddress + range.m_Increment * index,
                              Plus(range.m_Start.m_HeapIndex, index)))

\* A subrange of nothing at the end dereferences the error of At.
Subrange(range, start, size) ==
  IF ~IsValidRange(range) THEN Unexpected("InvalidRange")
  ELSE IF Plus(start, size) > range.m_Size THEN Unexpected("InvalidSubrange")
  ELSE IF At(range, start).error # "Success" THEN Unexpected("undefined")
  ELSE Value([m_Start |-> At(range, start).value, m_Size |-> size, m_Increment |-> range.m_Increment])

\* GetIndex: of a handle that lies in the range, on one of its descriptors.
GetIndex(range, handle) ==
  IF ~IsValidRange(range) THEN Unexpected("InvalidRange")
  ELSE IF range.m_Start.m_CPUAddress > handle.m_CPUAddress THEN Unexpected("InvalidHandle")
  ELSE LET diff == handle.m_CPUAddress - range.m_Start.m_CPUAddress
       IN  IF diff \div range.m_Increment >= range.m_Size \/ diff % range.m_Increment # 0
           THEN Unexpected("InvalidHandle")
           ELSE Value(diff \div range.m_Increment)

-----------------------------------------------------------------------------
\* DescriptorHeap.
CreateDescriptorRange(begin, num) ==
  IF Plus(begin, num) > NumDescriptors THEN Unexpected("AllocationError")
  ELSE Value([m_Start |-> DescriptorHandle(CPUStart + begin * Increment, GPUStart + begin * Increment, begin),
              m_Size |-> num, m_Increment |-> Increment])

CreateDescriptorHandle(index) ==
  LET range == CreateDescriptorRange(index, 1)
  IN  IF range.error = "Success" THEN At(range.value, 0) ELSE range

GetHeapRange == CreateDescriptorRange(0, NumDescriptors).value
=============================================================================
