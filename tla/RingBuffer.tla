------------------------------ MODULE RingBuffer ------------------------------
(***************************************************************************)
(* RingBuffer<T>: the circular buffer behind every queue of the library. One *)
(* cell more than the capacity is allocated, so that head and tail only meet *)
(* when it is empty. A push into a full buffer first moves the elements to   *)
(* the front of a larger one. Single-threaded.                               *)
(***************************************************************************)
EXTENDS Integers, Sequences

CONSTANTS
  Item,     \* values that can be stored
  Vacant,   \* a cell that was never written (an optional without a value)
  Moved,    \* a cell whose value has been moved out
  Refused,  \* the answer of a call that is refused
  MaxCells  \* bound on the cells of the buffer

ASSUME RingAssumption ==
  /\ MaxCells \in Nat \ {0}
  /\ Vacant \notin Item /\ Moved \notin Item /\ Refused \notin Item

VARIABLES
  cells,    \* m_Data.size()
  data,     \* m_Data
  head,     \* m_HeadIndex
  tail,     \* m_TailIndex
  size,     \* m_Size
  answer    \* what the last call returned, or <<>>

vars == <<cells, data, head, tail, size, answer>>

Cell == Item \cup {Vacant, Moved}

-----------------------------------------------------------------------------
AdvanceIndex(i, offset) == (i + offset) % cells

capacity == cells - 1

Init ==
  /\ cells \in 1..MaxCells
  /\ data = [i \in 0..cells - 1 |-> Vacant]
  /\ head = 0 /\ tail = 0 /\ size = 0
  /\ answer = <<>>

\* The elements in the order of the queue, at the front of n cells. (Variant: the
\* old cells are copied as they lie.)
RelocatedFlat(n) == [i \in 0..n - 1 |-> IF i < size THEN data[i] ELSE Vacant]
Relocated(n) == [i \in 0..n - 1 |-> IF i < size THEN data[AdvanceIndex(head, i)] ELSE Vacant]

\* Whether a push must grow the buffer first.
Full == size = capacity

\* push_back: resize(2 * m_Data.size()), which makes one cell more than asked for.
PushGrow(v) ==
  /\ Full
  /\ 2 * cells + 1 <= MaxCells
  /\ cells' = 2 * cells + 1
  /\ data' = [Relocated(2 * cells + 1) EXCEPT ![size] = v]
  /\ head' = 0
  /\ tail' = size + 1
  /\ size' = size + 1
  /\ answer' = <<>>

PushInPlace(v) ==
  /\ ~Full
  /\ data' = [data EXCEPT ![tail] = v]
  /\ tail' = AdvanceIndex(tail, 1)
  /\ size' = size + 1
  /\ answer' = <<>>
  /\ UNCHANGED <<cells, head>>

push_back(v) == PushGrow(v) \/ PushInPlace(v)

PopRefused ==
  /\ size = 0
  /\ answer' = <<Refused>>
  /\ UNCHANGED <<cells, data, head, tail, size>>

PopTaken ==
  /\ size # 0
  /\ answer' = <<data[head]>>
  /\ data' = [data EXCEPT ![head] = Moved]
  /\ head' = AdvanceIndex(head, 1)
  /\ size' = size - 1
  /\ UNCHANGED <<cells, tail>>

pop_front == PopRefused \/ PopTaken

\* front() is only called when the buffer is not empty: it does not look itself.
front ==
  /\ size # 0
  /\ answer' = <<data[head]>>
  /\ UNCHANGED <<cells, data, head, tail, size>>

\* resize(n): a smaller buffer is refused, the same size changes nothing.
resize(n) ==
  \/ /\ n + 1 < cells
     /\ answer' = <<Refused>>
     /\ UNCHANGED <<cells, data, head, tail, size>>
  \/ /\ n + 1 = cells
     /\ answer' = <<>>
     /\ UNCHANGED <<cells, data, head, tail, size>>
  \/ /\ n + 1 > cells /\ n + 1 <= MaxCells
     /\ cells' = n + 1
     /\ data' = Relocated(n + 1)
     /\ head' = 0
     /\ tail' = size
     /\ answer' = <<>>
     /\ size' = size

Next ==
  \/ \E v \in Item : push_back(v)
  \/ pop_front
  \/ front
  \/ \E n \in 0..MaxCells - 1 : resize(n)

Spec == Init /\ [][Next]_vars

-----------------------------------------------------------------------------
(* Properties *)

\* The shape of the state.
TypeOK ==
  /\ cells \in 1..MaxCells
  /\ data \in [0..cells - 1 -> Cell]
  /\ head \in 0..cells - 1
  /\ tail \in 0..cells - 1
  /\ size \in 0..cells - 1
  /\ answer \in {<<>>} \cup {<<a>> : a \in Cell \cup {Refused}}

\* Exactly the cells from head to tail hold live values: no value is overwritten or
\* moved from while it is in the queue, and head and tail agree with the size.
LiveCells ==
  /\ tail = AdvanceIndex(head, size)
  /\ \A k \in 0..size - 1 : data[AdvanceIndex(head, k)] \in Item

\* The inductive invariant.
IInv == TypeOK /\ LiveCells

Content == [k \in 1..size |-> data[AdvanceIndex(head, k - 1)]]

\* The buffer implements a first-in first-out queue, over any pattern of growth and
\* wrap-around.
Queue == INSTANCE Fifo WITH
  FifoItem <- Item, FifoRefuse <- Refused, content <- Content, response <- answer

ImplementsFifo == Queue!FifoSpec

=============================================================================
