--------------------------- MODULE ContainerProofs ---------------------------
(* Proofs about the containers. RingBuffer, for any values and any number of      *)
(* cells: its invariant, and that it implements the first-in first-out queue.     *)
(* FreeList, for any number of slots and versions: what a handle names.          *)
(* FencedResourcePool over the ring buffer: who gets a resource, and when.       *)
(* DescriptorAllocators, for any heap and any division of it: no descriptor has   *)
(* two owners.                                                                    *)
EXTENDS FencedResourcePool, FreeList, DescriptorAllocators, CommonFacts, FiniteSetTheorems

\* The k-th cell after index i, with the wrap-around written out.
CellAt(i, k, n) == IF i + k < n THEN i + k ELSE i + k - n

LEMMA AdvanceIsAt ==
  ASSUME NEW n \in Nat \ {0}, NEW i \in 0..n - 1, NEW k \in 0..n
  PROVE  (i + k) % n = CellAt(i, k, n) /\ CellAt(i, k, n) \in 0..n - 1
<1> DEFINE a == i + k
<1>1. a \in 0..2 * n - 1
  OBVIOUS
<1> HIDE DEF a
<1>2. a % n = IF a < n THEN a ELSE a - n
  BY <1>1, WrapsOnce
<1> QED BY <1>2 DEF CellAt, a

\* The cells of a buffer, walked from any index, are met once each.
LEMMA AtInjective ==
  ASSUME NEW n \in Nat \ {0}, NEW i \in 0..n - 1, NEW j \in 0..n - 1, NEW k \in 0..n - 1,
         CellAt(i, j, n) = CellAt(i, k, n)
  PROVE  j = k
BY DEF CellAt

\* Walking on from where a walk ended.
LEMMA AtAdds ==
  ASSUME NEW n \in Nat \ {0}, NEW i \in 0..n - 1, NEW k \in 0..n - 1
  PROVE  /\ CellAt(CellAt(i, k, n), 1, n) = CellAt(i, k + 1, n)
         /\ CellAt(CellAt(i, 1, n), k, n) = CellAt(i, k + 1, n)
BY DEF CellAt

\* What the invariant says, without the remainder.
LEMMA InvariantAt ==
  ASSUME IInv
  PROVE  /\ cells \in Nat \ {0} /\ head \in 0..cells - 1 /\ size \in 0..cells - 1
         /\ tail = CellAt(head, size, cells)
         /\ \A k \in 0..size : AdvanceIndex(head, k) = CellAt(head, k, cells)
         /\ \A k \in 0..size : CellAt(head, k, cells) \in 0..cells - 1
         /\ \A k \in 0..size - 1 : data[CellAt(head, k, cells)] \in Item
<1>1. /\ cells \in Nat \ {0} /\ head \in 0..cells - 1 /\ size \in 0..cells - 1
  BY RingAssumption DEF IInv, TypeOK
<1>2. \A k \in 0..size : /\ AdvanceIndex(head, k) = CellAt(head, k, cells)
                         /\ CellAt(head, k, cells) \in 0..cells - 1
  BY <1>1, AdvanceIsAt DEF AdvanceIndex
<1> QED BY <1>1, <1>2 DEF IInv, LiveCells

\* A walk over the live cells.
LEMMA WalkAt ==
  ASSUME NEW c \in Nat \ {0}, NEW h \in 0..c - 1, NEW s \in 0..c - 1
  PROVE  \A k \in 0..s : (h + k) % c = CellAt(h, k, c)
<1> TAKE k \in 0..s
<1>1. k \in 0..c
  OBVIOUS
<1> QED BY <1>1, AdvanceIsAt

\* How a step that keeps the invariant is shown to: by the walk over the new cells.
LiveAt == /\ tail = CellAt(head, size, cells)
          /\ \A k \in 0..size - 1 : data[CellAt(head, k, cells)] \in Item

LEMMA InvariantFromAt == TypeOK' /\ LiveAt' => IInv'
<1> SUFFICES ASSUME TypeOK', LiveAt' PROVE IInv'
  OBVIOUS
<1>1. /\ cells' \in Nat \ {0} /\ head' \in 0..cells' - 1 /\ size' \in 0..cells' - 1
  <2>1. cells' \in 1..MaxCells /\ head' \in 0..cells' - 1 /\ size' \in 0..cells' - 1
    BY Zenon DEF TypeOK
  <2>2. MaxCells \in Nat
    BY RingAssumption
  <2>3. \A c \in 1..MaxCells : c \in Nat \ {0}
    BY <2>2
  <2> QED BY <2>1, <2>3, Zenon
<1>2. \A k \in 0..size' : AdvanceIndex(head, k)' = CellAt(head', k, cells')
  BY <1>1, WalkAt, Zenon DEF AdvanceIndex
<1>3. size' \in 0..size' /\ \A k \in 0..size' - 1 : k \in 0..size'
  <2>1. \A n \in Nat : n \in 0..n /\ \A k \in 0..n - 1 : k \in 0..n
    OBVIOUS
  <2>2. size' \in Nat
    BY <1>1
  <2> QED BY <2>1, <2>2, Zenon
<1>4. tail' = AdvanceIndex(head, size)'
  BY <1>2, <1>3, Zenon DEF LiveAt
<1>5. \A k \in 0..size' - 1 : data'[AdvanceIndex(head, k)'] \in Item
  BY <1>2, <1>3, Zenon DEF LiveAt
<1> QED BY <1>4, <1>5 DEF IInv, LiveCells, AdvanceIndex

-----------------------------------------------------------------------------
(* The invariant. *)

LEMMA InitKeeps == Init => IInv
<1> SUFFICES ASSUME Init PROVE IInv
  OBVIOUS
<1>1. cells \in Nat \ {0}
  BY RingAssumption DEF Init
<1>2. TypeOK
  BY <1>1 DEF Init, TypeOK, Cell
<1>3. (0 + 0) % cells = 0
  BY <1>1, AdvanceIsAt DEF CellAt
<1> QED BY <1>2, <1>3 DEF Init, IInv, LiveCells, AdvanceIndex

\* Moving the elements to the front of n cells.
LEMMA RelocatedCells ==
  ASSUME IInv, NEW n \in Nat, n > size
  PROVE  /\ Relocated(n) \in [0..n - 1 -> Cell]
         /\ \A k \in 0..size - 1 :
              Relocated(n)[k] = data[CellAt(head, k, cells)] /\ Relocated(n)[k] \in Item
<1>1. \A k \in 0..size - 1 : /\ AdvanceIndex(head, k) = CellAt(head, k, cells)
                             /\ data[CellAt(head, k, cells)] \in Item
  BY InvariantAt
<1>2. \A k \in 0..n - 1 : k < size => k \in 0..size - 1
  BY InvariantAt
<1> QED BY <1>1, <1>2, InvariantAt DEF Relocated, Cell

LEMMA GrowKeeps ==
  ASSUME IInv, NEW v \in Item, PushGrow(v)
  PROVE  IInv'
<1> DEFINE n == 2 * cells + 1
<1>1. /\ n \in Nat /\ n > size + 1 /\ size \in Nat /\ n \in 1..MaxCells
      /\ cells' = n /\ head' = 0 /\ tail' = size + 1 /\ size' = size + 1 /\ answer' = <<>>
      /\ data' = [Relocated(n) EXCEPT ![size] = v]
  BY InvariantAt, RingAssumption, SMTT(30) DEF PushGrow
<1> HIDE DEF n
<1>2. /\ Relocated(n) \in [0..n - 1 -> Cell]
      /\ \A k \in 0..size - 1 : Relocated(n)[k] \in Item
  BY <1>1, RelocatedCells
<1>3. TypeOK'
  BY <1>1, <1>2 DEF TypeOK, Cell
<1>4. \A k \in 0..size : CellAt(0, k, n) = k /\ data'[k] \in Item
  BY <1>1, <1>2 DEF CellAt
<1> QED BY <1>1, <1>3, <1>4, InvariantFromAt DEF LiveAt, CellAt

LEMMA PushKeeps ==
  ASSUME IInv, NEW v \in Item, PushInPlace(v)
  PROVE  IInv'
<1>1. /\ size + 1 \in 0..cells - 1 /\ size \in 0..cells - 1
      /\ tail = CellAt(head, size, cells) /\ cells \in Nat \ {0} /\ head \in 0..cells - 1
  BY InvariantAt DEF PushInPlace, Full, capacity
<1>2. tail' = CellAt(tail, 1, cells) /\ tail' \in 0..cells - 1
  BY <1>1, AdvanceIsAt DEF PushInPlace, AdvanceIndex, IInv, TypeOK
<1>3. tail' = CellAt(head', size', cells')
  BY <1>1, <1>2, AtAdds DEF PushInPlace
<1>4. TypeOK'
  BY <1>1, <1>2 DEF PushInPlace, IInv, TypeOK, Cell
<1>5. \A k \in 0..size - 1 : CellAt(head, k, cells) # tail
  BY <1>1, AtInjective
<1>6. \A k \in 0..size : data'[CellAt(head, k, cells)] \in Item
  <2>1. ASSUME NEW k \in 0..size - 1 PROVE data'[CellAt(head, k, cells)] \in Item
    BY <1>5, InvariantAt DEF PushInPlace, IInv, TypeOK
  <2>2. data'[CellAt(head, size, cells)] = v
    BY <1>1 DEF PushInPlace, IInv, TypeOK
  <2> QED BY <1>1, <2>1, <2>2
<1> QED BY <1>1, <1>3, <1>4, <1>6, InvariantFromAt DEF LiveAt, PushInPlace

LEMMA PopKeeps ==
  ASSUME IInv, PopTaken
  PROVE  IInv'
<1>1. /\ size \in 1..cells - 1 /\ size - 1 \in 0..cells - 1 /\ cells \in Nat \ {0}
      /\ head \in 0..cells - 1 /\ tail = CellAt(head, size, cells)
  BY InvariantAt DEF PopTaken
<1>2. head' = CellAt(head, 1, cells) /\ head' \in 0..cells - 1
  <2>1. 1 \in 0..cells
    BY <1>1
  <2> QED BY <1>1, <2>1, AdvanceIsAt DEF PopTaken, AdvanceIndex
<1>3. \A k \in 0..size - 1 : CellAt(head', k, cells) = CellAt(head, k + 1, cells)
  BY <1>1, <1>2, AtAdds
<1>4. tail' = CellAt(head', size', cells')
  BY <1>1, <1>3 DEF PopTaken
<1>5. CellAt(head, 0, cells) = head
  BY <1>1 DEF CellAt
<1>6. data[head] \in Item
  BY <1>1, <1>5, InvariantAt
<1>7. TypeOK'
  BY <1>1, <1>2, <1>6 DEF PopTaken, IInv, TypeOK, Cell
<1>8. \A k \in 1..size - 1 : CellAt(head, k, cells) # head
  BY <1>1, <1>5, AtInjective
<1>9. ASSUME NEW k \in 0..size - 2 PROVE data'[CellAt(head', k, cells)] \in Item
  <2>1. k + 1 \in 1..size - 1 /\ k + 1 \in 0..size - 1
    BY <1>1
  <2>2. data[CellAt(head, k + 1, cells)] \in Item /\ CellAt(head, k + 1, cells) \in 0..cells - 1
    BY <2>1, InvariantAt
  <2> QED BY <2>1, <2>2, <1>1, <1>3, <1>8 DEF PopTaken, IInv, TypeOK
<1> QED BY <1>1, <1>4, <1>7, <1>9, InvariantFromAt DEF LiveAt, PopTaken

LEMMA ResizeKeeps ==
  ASSUME IInv, NEW m \in 0..MaxCells - 1, resize(m)
  PROVE  IInv'
<1>1. CASE UNCHANGED <<cells, data, head, tail, size>>
  <2>1. TypeOK'
    BY <1>1 DEF resize, IInv, TypeOK
  <2> QED BY <1>1, <2>1 DEF IInv, LiveCells, AdvanceIndex
<1>2. CASE m + 1 > cells
  <2> DEFINE n == m + 1
  <2>1. /\ n \in Nat /\ n > size /\ size \in Nat /\ n \in 1..MaxCells
        /\ cells' = n /\ head' = 0 /\ tail' = size /\ size' = size /\ answer' = <<>>
        /\ data' = Relocated(n)
    BY <1>2, InvariantAt, RingAssumption DEF resize
  <2> HIDE DEF n
  <2>2. /\ Relocated(n) \in [0..n - 1 -> Cell]
        /\ \A k \in 0..size - 1 : Relocated(n)[k] \in Item
    BY <2>1, RelocatedCells
  <2>3. TypeOK'
    BY <2>1, <2>2 DEF TypeOK
  <2>4. \A k \in 0..size : CellAt(0, k, n) = k
    BY <2>1 DEF CellAt
  <2> QED BY <2>1, <2>2, <2>3, <2>4, InvariantFromAt DEF LiveAt
<1> QED BY <1>1, <1>2, InvariantAt DEF resize

\* Calls that only answer.
LEMMA AnswerKeeps ==
  ASSUME IInv, PopRefused \/ front \/ UNCHANGED vars
  PROVE  IInv'
<1>1. size # 0 => data[head] \in Item
  <2>1. CellAt(head, 0, cells) = head
    BY InvariantAt DEF CellAt
  <2> QED BY <2>1, InvariantAt
<1>2. TypeOK'
  BY <1>1 DEF PopRefused, front, vars, IInv, TypeOK, Cell
<1>3. LiveCells'
  BY DEF PopRefused, front, vars, IInv, LiveCells, AdvanceIndex
<1> QED BY <1>2, <1>3 DEF IInv

LEMMA StepKeeps == IInv /\ [Next]_vars => IInv'
<1> SUFFICES ASSUME IInv, [Next]_vars PROVE IInv'
  OBVIOUS
<1>1. ASSUME NEW v \in Item, push_back(v) PROVE IInv'
  BY <1>1, GrowKeeps, PushKeeps DEF push_back
<1>2. CASE pop_front
  BY <1>2, PopKeeps, AnswerKeeps DEF pop_front
<1>3. CASE front
  BY <1>3, AnswerKeeps
<1>4. ASSUME NEW n \in 0..MaxCells - 1, resize(n) PROVE IInv'
  BY <1>4, ResizeKeeps
<1>5. CASE UNCHANGED vars
  BY <1>5, AnswerKeeps
<1> QED BY <1>1, <1>2, <1>3, <1>4, <1>5 DEF Next

\* The buffer's indices stay in range and its live cells are exactly those between
\* head and tail (push_back, pop_front, resize), whatever its size and growth.
THEOREM Invariance == Spec => []IInv
<1>1. Init => IInv
  BY InitKeeps
<1>2. IInv /\ [Next]_vars => IInv'
  BY StepKeeps
<1> QED BY <1>1, <1>2, PTL DEF Spec

-----------------------------------------------------------------------------
(* The queue. *)

\* The content as a sequence of values, without the remainder.
ContentAt ==
  /\ size \in Nat
  /\ Content \in Seq(Item)
  /\ Len(Content) = size
  /\ \A k \in 1..size : Content[k] = data[CellAt(head, k - 1, cells)]

LEMMA ContentIsAt == IInv => ContentAt
<1> SUFFICES ASSUME IInv PROVE ContentAt
  OBVIOUS
<1>1. size \in Nat
  BY InvariantAt
<1>2. ASSUME NEW k \in 1..size
      PROVE  /\ data[AdvanceIndex(head, k - 1)] = data[CellAt(head, k - 1, cells)]
             /\ data[AdvanceIndex(head, k - 1)] \in Item
  <2>1. k - 1 \in 0..size /\ k - 1 \in 0..size - 1
    BY <1>1
  <2> QED BY <2>1, InvariantAt
<1>3. Content \in [1..size -> Item]
  BY <1>2 DEF Content
<1>4. Content \in Seq(Item) /\ Len(Content) = size
  BY <1>1, <1>3, FunctionIsSeq
<1> QED BY <1>1, <1>2, <1>4 DEF ContentAt, Content

LEMMA ContentIsAtNext == IInv' => ContentAt'
BY ContentIsAt, PTL

\* Moving the elements to the front of another buffer does not change the content.
LEMMA RelocatedContent ==
  /\ IInv /\ IInv' /\ size' = size /\ head' = 0
  /\ \A k \in 0..size - 1 : data'[k] = data[CellAt(head, k, cells)]
  => Content' = Content
<1> SUFFICES ASSUME IInv, IInv', size' = size, head' = 0,
                    \A k \in 0..size - 1 : data'[k] = data[CellAt(head, k, cells)]
             PROVE  Content' = Content
  OBVIOUS
<1>1. ContentAt /\ ContentAt'
  BY ContentIsAt, ContentIsAtNext
<1>2. \A c \in 1..MaxCells : \A s \in 0..c - 1 : c \in Nat /\ s \in Nat /\ s < c
  BY RingAssumption
<1>3. ASSUME NEW k \in 1..size PROVE Content'[k] = Content[k]
  <2>1. cells' \in Nat /\ size \in Nat /\ size < cells'
    BY <1>2, Zenon DEF IInv, TypeOK
  <2>2. k - 1 \in 0..size - 1 /\ k - 1 < cells'
    BY <1>2, <2>1
  <2>3. CellAt(0, k - 1, cells') = k - 1
    BY <2>2 DEF CellAt
  <2> QED BY <1>1, <2>2, <2>3 DEF ContentAt
<1> QED BY <1>1, <1>3, SameElements DEF ContentAt

\* A push adds its value at the end, whether the buffer grew or not.
LEMMA GrowAppends ==
  ASSUME IInv, NEW v \in Item, PushGrow(v)
  PROVE  Queue!FifoPush(v)
<1>1. IInv' /\ ContentAt /\ ContentAt'
  BY GrowKeeps, ContentIsAt, ContentIsAtNext
<1>2. /\ size' = size + 1 /\ head' = 0 /\ cells' = 2 * cells + 1 /\ answer' = <<>>
      /\ data' = [Relocated(cells') EXCEPT ![size] = v]
      /\ cells' > size + 1 /\ cells' \in Nat
  BY InvariantAt DEF PushGrow
<1>3. /\ Relocated(cells') \in [0..cells' - 1 -> Cell]
      /\ \A k \in 0..size - 1 : Relocated(cells')[k] = data[CellAt(head, k, cells)]
  BY <1>1, <1>2, RelocatedCells, SMTT(30) DEF ContentAt
<1>4. ASSUME NEW k \in 1..size PROVE Content'[k] = Content[k]
  <2>1. k - 1 \in 0..size - 1 /\ CellAt(0, k - 1, cells') = k - 1 /\ k \in 1..size'
    BY <1>1, <1>2 DEF CellAt, ContentAt
  <2>2. data'[k - 1] = data[CellAt(head, k - 1, cells)]
    BY <1>1, <1>2, <1>3, <2>1, SMTT(30) DEF ContentAt
  <2> QED BY <1>1, <1>2, <2>1, <2>2 DEF ContentAt
<1>5. Content'[size + 1] = v
  <2>1. CellAt(0, size, cells') = size /\ size + 1 \in 1..size' /\ (size + 1) - 1 = size
    BY <1>1, <1>2 DEF CellAt, ContentAt
  <2>2. data'[size] = v
    BY <1>1, <1>2, <1>3 DEF ContentAt
  <2> QED BY <1>1, <1>2, <2>1, <2>2 DEF ContentAt
<1>6. Content' = Append(Content, v)
  <2>1. ASSUME NEW k \in 1..size + 1 PROVE Content'[k] = Append(Content, v)[k]
    <3>1. CASE k \in 1..size
      BY <1>1, <1>4, <3>1, AppendElements DEF ContentAt
    <3>2. CASE k = size + 1
      BY <1>1, <1>5, <3>2, AppendElements DEF ContentAt
    <3> QED BY <1>1, <3>1, <3>2 DEF ContentAt
  <2> QED BY <1>1, <1>2, <2>1, SameElements, AppendElements DEF ContentAt
<1> QED BY <1>2, <1>6 DEF Queue!FifoPush

LEMMA PushAppends ==
  ASSUME IInv, NEW v \in Item, PushInPlace(v)
  PROVE  Queue!FifoPush(v)
<1>1. IInv' /\ ContentAt /\ ContentAt'
  BY PushKeeps, ContentIsAt, ContentIsAtNext
<1>2. /\ size' = size + 1 /\ head' = head /\ cells' = cells /\ answer' = <<>>
      /\ data' = [data EXCEPT ![tail] = v]
      /\ size \in 0..cells - 1 /\ cells \in Nat \ {0} /\ head \in 0..cells - 1
      /\ tail = CellAt(head, size, cells) /\ tail \in 0..cells - 1
      /\ data \in [0..cells - 1 -> Cell]
  BY InvariantAt DEF PushInPlace, IInv, TypeOK
<1>3. ASSUME NEW k \in 1..size PROVE Content'[k] = Content[k]
  <2>1. k - 1 \in 0..size /\ k - 1 \in 0..cells - 1 /\ k - 1 # size /\ k \in 1..size'
    BY <1>2
  <2>2. CellAt(head, k - 1, cells) # tail /\ CellAt(head, k - 1, cells) \in 0..cells - 1
    BY <1>2, <2>1, AtInjective, InvariantAt
  <2> QED BY <1>1, <1>2, <2>1, <2>2 DEF ContentAt
<1>4. Content'[size + 1] = v
  <2>1. size + 1 \in 1..size' /\ (size + 1) - 1 = size
    BY <1>2
  <2> QED BY <1>1, <1>2, <2>1 DEF ContentAt
<1>5. Content' = Append(Content, v)
  <2>1. ASSUME NEW k \in 1..size + 1 PROVE Content'[k] = Append(Content, v)[k]
    <3>1. CASE k \in 1..size
      BY <1>1, <1>3, <3>1, AppendElements DEF ContentAt
    <3>2. CASE k = size + 1
      BY <1>1, <1>4, <3>2, AppendElements DEF ContentAt
    <3> QED BY <1>1, <3>1, <3>2 DEF ContentAt
  <2> QED BY <1>1, <1>2, <2>1, SameElements, AppendElements DEF ContentAt
<1> QED BY <1>2, <1>5 DEF Queue!FifoPush

\* The first element is the one at the head.
LEMMA HeadIsFirst ==
  ASSUME IInv, size # 0
  PROVE  Content # <<>> /\ Head(Content) = data[head]
<1>1. ContentAt /\ size \in 0..cells - 1 /\ cells \in Nat \ {0} /\ head \in 0..cells - 1
  BY ContentIsAt, InvariantAt
<1>2. 1 \in 1..size /\ 1 - 1 = 0 /\ CellAt(head, 0, cells) = head
  BY <1>1 DEF CellAt
<1>3. Len(Content) # 0 /\ Content[1] = data[head]
  BY <1>1, <1>2 DEF ContentAt
<1> QED BY <1>1, <1>3 DEF ContentAt

LEMMA NoElements == IInv /\ size = 0 => Content = <<>>
BY ContentIsAt DEF ContentAt

\* A pop takes the first element off.
LEMMA PopTakes ==
  ASSUME IInv, PopTaken
  PROVE  Queue!FifoPop
<1>1. IInv' /\ ContentAt /\ ContentAt'
  BY PopKeeps, ContentIsAt, ContentIsAtNext
<1>2. /\ size' = size - 1 /\ cells' = cells /\ answer' = <<data[head]>> /\ size # 0
      /\ data' = [data EXCEPT ![head] = Moved]
      /\ size \in 1..cells - 1 /\ cells \in Nat \ {0} /\ head \in 0..cells - 1
      /\ data \in [0..cells - 1 -> Cell]
  BY InvariantAt DEF PopTaken, IInv, TypeOK
<1>3. head' = CellAt(head, 1, cells)
  <2>1. 1 \in 0..cells
    BY <1>2
  <2> QED BY <1>2, <2>1, AdvanceIsAt DEF PopTaken, AdvanceIndex
<1>4. Content # <<>> /\ Head(Content) = data[head]
  BY <1>2, HeadIsFirst
<1>5. ASSUME NEW k \in 1..size - 1 PROVE Content'[k] = Content[k + 1]
  <2>1. /\ k \in 1..size' /\ k + 1 \in 1..size /\ (k + 1) - 1 = k /\ (k - 1) + 1 = k
        /\ k - 1 \in 0..cells - 1 /\ k \in 0..size - 1 /\ k \in 0..cells - 1 /\ k # 0
    BY <1>2
  <2>2. CellAt(head', k - 1, cells) = CellAt(head, k, cells)
    BY <1>2, <1>3, <2>1, AtAdds
  <2>3. CellAt(head, k, cells) # head /\ CellAt(head, k, cells) \in 0..cells - 1
    BY <1>2, <2>1 DEF CellAt
  <2> QED BY <1>1, <1>2, <2>1, <2>2, <2>3 DEF ContentAt
<1>6. Content' = Tail(Content)
  <2>1. \A k \in 1..size - 1 : Content'[k] = Tail(Content)[k]
    BY <1>1, <1>4, <1>5, TailElements DEF ContentAt
  <2> QED BY <1>1, <1>2, <1>4, <2>1, SameElements, TailElements DEF ContentAt
<1> QED BY <1>2, <1>4, <1>6 DEF Queue!FifoPop

LEMMA ResizeKeepsContent ==
  ASSUME IInv, NEW m \in 0..MaxCells - 1, resize(m)
  PROVE  Queue!FifoResize
<1>1. CASE UNCHANGED <<cells, data, head, tail, size>>
  BY <1>1, InvariantAt DEF resize, Queue!FifoResize, Content, AdvanceIndex
<1>2. CASE m + 1 > cells
  <2>1. /\ size' = size /\ head' = 0 /\ answer' = <<>>
        /\ data' = Relocated(m + 1) /\ m + 1 \in Nat /\ m + 1 > size
    BY <1>2, InvariantAt, RingAssumption DEF resize
  <2>2. \A k \in 0..size - 1 : data'[k] = data[CellAt(head, k, cells)]
    BY <2>1, RelocatedCells
  <2> QED BY <2>1, <2>2, ResizeKeeps, RelocatedContent DEF Queue!FifoResize
<1> QED BY <1>1, <1>2, InvariantAt DEF resize

LEMMA StepsQueue ==
  ASSUME IInv, [Next]_vars
  PROVE  [Queue!FifoNext]_<<Content, answer>>
<1>1. ASSUME NEW v \in Item, push_back(v) PROVE Queue!FifoNext
  BY <1>1, GrowAppends, PushAppends DEF push_back, Queue!FifoNext
<1>2. ASSUME UNCHANGED <<cells, data, head, tail, size>> PROVE Content' = Content
  BY <1>2 DEF Content, AdvanceIndex
<1>3. CASE pop_front
  <2>1. CASE PopRefused
    BY <2>1, <1>2, NoElements DEF PopRefused, Queue!FifoPop, Queue!FifoNext
  <2> QED BY <1>3, <2>1, PopTakes DEF pop_front, Queue!FifoNext
<1>4. CASE front
  BY <1>4, <1>2, HeadIsFirst DEF front, Queue!FifoFront, Queue!FifoNext
<1>5. ASSUME NEW n \in 0..MaxCells - 1, resize(n) PROVE Queue!FifoNext
  BY <1>5, ResizeKeepsContent DEF Queue!FifoNext
<1>6. CASE UNCHANGED vars
  BY <1>6, <1>2 DEF vars
<1> QED BY <1>1, <1>3, <1>4, <1>5, <1>6 DEF Next

\* The ring buffer is a first-in first-out queue: what pop_front and front answer is
\* what was pushed first, over any pattern of growth, resizing and wrap-around.
THEOREM IsQueue == Spec => ImplementsFifo
<1>1. Init => Queue!FifoInit
  <2> SUFFICES ASSUME Init PROVE Queue!FifoInit
    OBVIOUS
  <2> QED BY InitKeeps, NoElements DEF Init, Queue!FifoInit
<1>2. IInv /\ [Next]_vars => [Queue!FifoNext]_<<Content, answer>>
  BY StepsQueue
<1> QED BY <1>1, <1>2, Invariance, PTL DEF Spec, ImplementsFifo, Queue!FifoSpec

-----------------------------------------------------------------------------
(* FreeList. *)

\* Slot k was made by the k-th Manage, with version 0; its version is 1 once it is
\* released, and it is released once.
Slots ==
  /\ m_Resources \in Seq([Resource : Stored, Version : Nat])
  /\ given \in Seq([handle : [index : Nat, version : Nat], value : Stored, live : BOOLEAN])
  /\ Len(given) = Len(m_Resources)

SlotIsValue(k) ==
  /\ given[k].handle = [index |-> k - 1, version |-> 0]
  /\ m_Resources[k].Resource = given[k].value
  /\ m_Resources[k].Version = IF given[k].live THEN 0 ELSE 1

SlotsInv == Slots /\ \A k \in DOMAIN given : SlotIsValue(k)

\* The versions in use are apart, however many bits a version has (but at least one).
LEMMA VersionsApart == 0 % VersionLimit = 0 /\ 1 % VersionLimit = 1
<1>1. VersionLimit \in Nat /\ VersionLimit > 1
  BY FreeListAssumption
<1> QED BY <1>1

LEMMA InitSlots == FreeListInit => SlotsInv
BY DEF FreeListInit, SlotsInv, Slots

Slot == [Resource : Stored, Version : Nat]
Entry == [handle : [index : Nat, version : Nat], value : Stored, live : BOOLEAN]

LEMMA SlotShape ==
  ASSUME SlotsInv, NEW k \in DOMAIN given
  PROVE  /\ k \in Nat /\ k \in 1..Len(m_Resources) /\ k \in DOMAIN m_Resources
         /\ given[k] \in Entry /\ m_Resources[k] \in Slot
         /\ given[k].live \in BOOLEAN
         /\ given[k].handle.index = k - 1 /\ given[k].handle.version = 0
         /\ given[k].handle.index + 1 = k
         /\ SlotIsValue(k)
<1>1. given \in Seq(Entry) /\ m_Resources \in Seq(Slot)
      /\ Len(given) = Len(m_Resources)
  BY DEF SlotsInv, Slots, Entry, Slot
<1>2. k \in Nat /\ k \in 1..Len(m_Resources) /\ k \in DOMAIN m_Resources
  BY <1>1
<1>3. given[k] \in Entry /\ m_Resources[k] \in Slot
  <2>1. given[k] \in Entry
    BY <1>1, <1>2
  <2>2. m_Resources[k] \in Slot
    BY <1>1, <1>2
  <2> QED BY <2>1, <2>2
<1>4. SlotIsValue(k)
  BY DEF SlotsInv
<1>5. given[k].handle.index = k - 1 /\ given[k].handle.version = 0
  BY <1>4 DEF SlotIsValue
<1>6. given[k].live \in BOOLEAN
  BY <1>3 DEF Entry
<1>7. given[k].handle.index + 1 = k
  BY <1>5, <1>2
<1> QED BY <1>2, <1>3, <1>4, <1>5, <1>6, <1>7

\* A handle of a slot is valid as long as the slot was not released.
LEMMA ValidWhenLive ==
  ASSUME SlotsInv, NEW k \in DOMAIN given
  PROVE  IsValidHandle(given[k].handle) <=> given[k].live
<1>1. m_Resources[k].Version = IF given[k].live THEN 0 ELSE 1
  BY SlotShape DEF SlotIsValue
<1>2. k - 1 < Len(m_Resources)
  BY SlotShape
<1> QED BY <1>1, <1>2, SlotShape DEF IsValidHandle

LEMMA ManageKeepsSlots ==
  ASSUME SlotsInv, NEW v \in Stored, Manage(v)
  PROVE  SlotsInv'
<1>1. CASE UNCHANGED <<m_Resources, given>>
  BY <1>1 DEF SlotsInv, Slots, SlotIsValue
<1>2. CASE ~UNCHANGED <<m_Resources, given>>
  <2>1. PICK n : n = Len(m_Resources)
    OBVIOUS
  <2>2. n \in Nat /\ n = Len(given) /\ DOMAIN given = 1..n /\ DOMAIN m_Resources = 1..n
    BY <2>1 DEF SlotsInv, Slots
  <2>3. PICK slot, entry :
          /\ slot = [Resource |-> v, Version |-> 0]
          /\ entry = [handle |-> [index |-> n, version |-> 0], value |-> v, live |-> TRUE]
    OBVIOUS
  <2>4. m_Resources' = Append(m_Resources, slot) /\ given' = Append(given, entry)
    BY <1>2, <2>1, <2>3, VersionsApart DEF Manage, VersionedIndex
  <2>5. slot \in Slot /\ entry \in Entry
    BY <2>2, <2>3 DEF Slot, Entry
  <2>6. m_Resources' \in Seq(Slot) /\ given' \in Seq(Entry) /\ Len(given') = Len(m_Resources')
        /\ DOMAIN given' = 1..n + 1
    BY <2>2, <2>4, <2>5 DEF SlotsInv, Slots, Slot, Entry
  <2>7. ASSUME NEW k \in 1..n PROVE SlotIsValue(k)'
    <3>1. given'[k] = given[k] /\ m_Resources'[k] = m_Resources[k]
      BY <2>2, <2>4 DEF SlotsInv, Slots
    <3>2. SlotIsValue(k)
      BY <2>2 DEF SlotsInv
    <3> QED BY <3>1, <3>2 DEF SlotIsValue
  <2>8. ASSUME NEW k, k = n + 1 PROVE SlotIsValue(k)'
    <3>1. given'[k] = entry /\ m_Resources'[k] = slot
      BY <2>2, <2>4, <2>8 DEF SlotsInv, Slots
    <3>2. k - 1 = n
      BY <2>2, <2>8
    <3> QED BY <3>1, <3>2, <2>3 DEF SlotIsValue
  <2>9. ASSUME NEW k \in DOMAIN given' PROVE SlotIsValue(k)'
    <3>1. k \in 1..n \/ k = n + 1
      BY <2>2, <2>6
    <3> QED BY <3>1, <2>7, <2>8
  <2> QED BY <2>6, <2>9 DEF SlotsInv, Slots, Slot, Entry
<1> QED BY <1>1, <1>2

LEMMA ReleaseKeepsSlots ==
  ASSUME SlotsInv, NEW k \in DOMAIN given, ReleaseSlot(k)
  PROVE  SlotsInv'
<1> DEFINE h == given[k].handle
<1>1. CASE ~IsValidHandle(h)
  BY <1>1 DEF ReleaseSlot, SlotsInv, Slots, SlotIsValue
<1>2. CASE IsValidHandle(h)
  <2>1. h.index + 1 = k /\ ReleasedVersion(h) = 1
    BY SlotShape, VersionsApart DEF ReleasedVersion, NextIndex, VersionedIndex
  <2>2. m_Resources' = [m_Resources EXCEPT ![k].Version = 1]
        /\ given' = [given EXCEPT ![k].live = FALSE]
    BY <1>2, <2>1 DEF ReleaseSlot
  <2>3. k \in DOMAIN m_Resources /\ k \in DOMAIN given
        /\ given[k] \in Entry /\ m_Resources[k] \in Slot
    BY SlotShape
  <2>4. [m_Resources[k] EXCEPT !.Version = 1] \in Slot
        /\ [given[k] EXCEPT !.live = FALSE] \in Entry
    BY <2>3 DEF Slot, Entry
  <2>5. m_Resources' = [m_Resources EXCEPT ![k] = [m_Resources[k] EXCEPT !.Version = 1]]
        /\ given' = [given EXCEPT ![k] = [given[k] EXCEPT !.live = FALSE]]
    BY <2>2
  <2>6. Slots'
    <3> DEFINE slot == [m_Resources[k] EXCEPT !.Version = 1]
               entry == [given[k] EXCEPT !.live = FALSE]
    <3>1. slot \in Slot /\ entry \in Entry
      BY <2>4
    <3>2. m_Resources' = [m_Resources EXCEPT ![k] = slot] /\ given' = [given EXCEPT ![k] = entry]
      BY <2>5
    <3> HIDE DEF slot, entry
    <3>3. m_Resources' \in Seq(Slot) /\ Len(m_Resources') = Len(m_Resources)
      BY <2>3, <3>1, <3>2 DEF SlotsInv, Slots, Slot
    <3>4. given' \in Seq(Entry) /\ Len(given') = Len(given)
      BY <2>3, <3>1, <3>2 DEF SlotsInv, Slots, Slot, Entry
    <3> QED BY <3>3, <3>4 DEF SlotsInv, Slots, Slot, Entry
  <2>7. ASSUME NEW j \in DOMAIN given' PROVE SlotIsValue(j)'
    <3>1. j \in DOMAIN given
      BY <2>5
    <3>2. SlotIsValue(j) /\ j \in DOMAIN m_Resources
      BY <3>1, SlotShape
    <3>3. CASE j = k
      <4>1. m_Resources'[k] = [m_Resources[k] EXCEPT !.Version = 1]
            /\ given'[k] = [given[k] EXCEPT !.live = FALSE]
        BY <2>3, <2>5
      <4>2. m_Resources'[k].Version = 1 /\ m_Resources'[k].Resource = m_Resources[k].Resource
        BY <4>1, <2>3 DEF Slot
      <4>3. given'[k].live = FALSE /\ given'[k].handle = given[k].handle /\ given'[k].value = given[k].value
        BY <4>1, <2>3 DEF Slot, Entry
      <4> QED BY <3>2, <3>3, <4>2, <4>3 DEF SlotIsValue
    <3>4. CASE j # k
      <4>1. m_Resources'[j] = m_Resources[j] /\ given'[j] = given[j]
        BY <3>1, <3>2, <3>4, <2>5
      <4> QED BY <4>1, <3>2 DEF SlotIsValue
    <3> QED BY <3>3, <3>4
  <2> QED BY <2>6, <2>7 DEF SlotsInv
<1> QED BY <1>1, <1>2

LEMMA NextKeepsSlots == SlotsInv /\ [FreeListNext]_freeListVars => SlotsInv'
<1> SUFFICES ASSUME SlotsInv, [FreeListNext]_freeListVars PROVE SlotsInv'
  OBVIOUS
<1>1. ASSUME NEW v \in Stored, Manage(v) PROVE SlotsInv'
  BY <1>1, ManageKeepsSlots
<1>2. ASSUME NEW k \in DOMAIN given, ReleaseSlot(k) PROVE SlotsInv'
  BY <1>2, ReleaseKeepsSlots
<1>3. CASE UNCHANGED <<m_Resources, given>>
  BY <1>3 DEF SlotsInv, Slots, SlotIsValue
<1> QED BY <1>1, <1>2, <1>3 DEF FreeListNext, GetSlot, GetOutOfRange, freeListVars

\* Every handle a FreeList ever returned names its value until it is released, and
\* nothing afterwards, whatever else is kept and released: Manage, Release and Get of
\* FreeList.h.
THEOREM HandlesAlwaysName == FreeListSpec => []HandlesNameTheirValue
<1>1. SlotsInv => HandlesNameTheirValue
  <2> SUFFICES ASSUME SlotsInv, NEW k \in DOMAIN given
               PROVE  /\ IsValidHandle(given[k].handle) <=> given[k].live
                      /\ given[k].live =>
                           m_Resources[given[k].handle.index + 1].Resource = given[k].value
    BY DEF HandlesNameTheirValue
  <2>1. IsValidHandle(given[k].handle) <=> given[k].live
    BY ValidWhenLive
  <2>2. given[k].handle.index + 1 = k /\ m_Resources[k].Resource = given[k].value
    BY SlotShape DEF SlotIsValue
  <2> QED BY <2>1, <2>2
<1> QED BY <1>1, InitSlots, NextKeepsSlots, PTL DEF FreeListSpec

-----------------------------------------------------------------------------
(* FencedResourcePool. *)

\* A resource has at most one holder, or is in the pool, once.
HeldOnce ==
  \A g, h \in Holder : holders[g] = holders[h] /\ holders[g] # Nothing => g = h

PooledOnce ==
  \A j \in 1..size :
    /\ Content[j].Resource \notin Held
    /\ \A k \in 1..size : Content[j].Resource = Content[k].Resource => j = k

\* What the GPU still uses is held, or waits for a point behind the work.
UsesCovered ==
  \A w \in queue.work :
    \/ w.job \in Held
    \/ \E k \in 1..size : Content[k].Resource = w.job /\ Content[k].FencePoint >= w.mark

\* The inductive invariant, over that of the ring buffer.
PoolInv ==
  /\ IInv
  /\ queue \in QueueType(Resource) /\ QueueOrdered(queue)
  /\ holders \in [Holder -> Resource \cup {Nothing}]
  /\ HeldOnce /\ PooledOnce /\ UsesCovered

LEMMA PoolStarts == Init /\ PoolInit => PoolInv
<1> SUFFICES ASSUME Init, PoolInit PROVE PoolInv
  OBVIOUS
<1>1. IInv /\ size = 0
  BY InitKeeps DEF Init
<1>2. queue \in QueueType(Resource) /\ QueueOrdered(queue) /\ queue.work = {}
  BY NewQueueProperties DEF PoolInit
<1>3. holders \in [Holder -> Resource \cup {Nothing}] /\ HeldOnce
  BY DEF PoolInit, HeldOnce
<1>4. PooledOnce
  BY <1>1 DEF PooledOnce
<1> QED BY <1>1, <1>2, <1>3, <1>4 DEF PoolInv, UsesCovered

LEMMA ContentShape ==
  ASSUME PoolInv
  PROVE  /\ Content \in Seq(FencedResource) /\ Len(Content) = size /\ size \in Nat
         /\ \A k \in 1..size : Content[k] \in FencedResource
<1>1. Content \in Seq(FencedResource) /\ Len(Content) = size /\ size \in Nat
  BY ContentIsAt, PoolAssumption DEF PoolInv, ContentAt
<1> HIDE DEF FencedResource
<1> QED BY <1>1

\* Release of what nobody holds afterwards.
LEMMA ReleasePuts ==
  ASSUME PoolInv, NEW r \in Resource, Release(r)
  PROVE  /\ IInv'
         /\ queue' = Signal(queue)
         /\ size' = size + 1
         /\ \A k \in 1..size : Content'[k] = Content[k]
         /\ Content'[size + 1].Resource = r
         /\ \A w \in queue.work : Content'[size + 1].FencePoint >= w.mark
<1>1. PICK v : v = [Resource |-> r, FencePoint |-> NextSignal(queue)]
  OBVIOUS
<1>2. queue.next \in Nat /\ queue.next >= 1 /\ queue.next <= MaxSignals
      /\ \A w \in queue.work : w.mark <= queue.next
  BY PoolAssumption DEF Release, PoolInv, QueueType, QueueOrdered
<1>3. push_back(v) /\ queue' = Signal(queue)
  BY <1>1, PoolAssumption DEF Release
<1>4. v \in Item /\ v.Resource = r /\ v.FencePoint = queue.next
  BY <1>1, <1>2, PoolAssumption DEF FencedResource, NextSignal
<1>5. IInv' /\ Queue!FifoPush(v)
  BY <1>3, <1>4, GrowAppends, PushAppends, GrowKeeps, PushKeeps DEF push_back, PoolInv
<1>6. Content' = Append(Content, v) /\ Content \in Seq(Item) /\ Len(Content) = size /\ size \in Nat
  BY <1>5, ContentIsAt DEF Queue!FifoPush, PoolInv, ContentAt
<1>7. size' = size + 1
  BY <1>3 DEF push_back, PushGrow, PushInPlace
<1>8. (\A k \in 1..size : Content'[k] = Content[k]) /\ Content'[size + 1] = v
  BY <1>4, <1>6, AppendElements
<1> QED BY <1>2, <1>3, <1>4, <1>5, <1>7, <1>8

\* A resource that goes back to the pool, while the others change hands.
LEMMA ReturnKeeps ==
  ASSUME PoolInv, NEW r \in Resource, Release(r), r \in Held, Held' = Held \ {r},
         holders' \in [Holder -> Resource \cup {Nothing}], HeldOnce'
  PROVE  PoolInv'
<1>1. /\ IInv' /\ queue' = Signal(queue) /\ size' = size + 1 /\ size \in Nat
      /\ \A k \in 1..size : Content'[k] = Content[k]
      /\ Content'[size + 1].Resource = r
      /\ \A w \in queue.work : Content'[size + 1].FencePoint >= w.mark
  BY ReleasePuts, ContentShape
<1>2. /\ queue' \in QueueType(Resource) /\ QueueOrdered(queue')
      /\ queue'.work = queue.work
  BY <1>1, SignalProperties DEF PoolInv
<1>3. ASSUME NEW j \in 1..size'
      PROVE  IF j \in 1..size THEN Content'[j] = Content[j] ELSE j = size + 1
  BY <1>1
<1>4. PooledOnce'
  <2>1. ASSUME NEW j \in 1..size
        PROVE  Content[j].Resource \notin Held' /\ Content[j].Resource # r
    BY DEF PoolInv, PooledOnce
  <2>2. r \notin Held'
    OBVIOUS
  <2>3. ASSUME NEW j \in 1..size' PROVE Content'[j].Resource \notin Held'
    BY <1>1, <1>3, <2>1, <2>2
  <2>4. ASSUME NEW j \in 1..size', NEW k \in 1..size', Content'[j].Resource = Content'[k].Resource
        PROVE  j = k
    BY <1>1, <1>3, <2>1, <2>4 DEF PoolInv, PooledOnce
  <2> QED BY <2>3, <2>4 DEF PooledOnce
<1>5. UsesCovered'
  <2> SUFFICES ASSUME NEW w \in queue.work, w.job \notin Held'
               PROVE  \E k \in 1..size' : Content'[k].Resource = w.job /\ Content'[k].FencePoint >= w.mark
    BY <1>2 DEF UsesCovered
  <2>1. CASE w.job = r
    <3>1. size + 1 \in 1..size'
      BY <1>1
    <3> QED BY <1>1, <2>1, <3>1
  <2>2. CASE w.job # r
    <3>1. PICK k \in 1..size : Content[k].Resource = w.job /\ Content[k].FencePoint >= w.mark
      BY <2>2 DEF PoolInv, UsesCovered
    <3>2. k \in 1..size'
      BY <1>1
    <3> QED BY <1>1, <3>1, <3>2
  <2> QED BY <2>1, <2>2
<1> QED BY <1>1, <1>2, <1>4, <1>5 DEF PoolInv

\* A step that leaves the pool alone and only hands held resources around.
LEMMA HandingKeeps ==
  ASSUME PoolInv, UNCHANGED <<vars, queue>>, Held' = Held,
         holders' \in [Holder -> Resource \cup {Nothing}], HeldOnce'
  PROVE  PoolInv'
<1>1. UNCHANGED <<cells, data, head, tail, size, answer, queue>>
  BY DEF vars
<1>2. Content' = Content
  BY <1>1 DEF Content, AdvanceIndex
<1>3. IInv'
  BY <1>1 DEF PoolInv, IInv, TypeOK, LiveCells, AdvanceIndex
<1>4. PooledOnce' /\ UsesCovered'
  BY <1>1, <1>2 DEF PoolInv, PooledOnce, UsesCovered
<1> QED BY <1>1, <1>3, <1>4 DEF PoolInv

\* A new resource was not seen anywhere.
LEMMA CreateKeeps ==
  ASSUME PoolInv, NEW h \in Holder, holders[h] = Nothing, RequestCreates(h)
  PROVE  /\ PoolInv'
         /\ holders'[h] \notin Held /\ ~InFlight(queue, {holders'[h]})
         /\ \A g \in Holder \ {h} : holders'[g] = holders[g]
<1>1. PICK r \in Resource \ Created : holders' = [holders EXCEPT ![h] = r]
  BY DEF RequestCreates
<1>2. /\ r \notin Held /\ r # Nothing /\ UNCHANGED <<vars, queue>>
      /\ \A k \in 1..size : Content[k].Resource # r
      /\ \A w \in queue.work : w.job # r
  BY <1>1, PoolAssumption DEF RequestCreates, Created, Pooled
<1>3. holders \in [Holder -> Resource \cup {Nothing}]
  BY DEF PoolInv
<1>4. /\ holders' \in [Holder -> Resource \cup {Nothing}]
      /\ holders'[h] = r /\ \A g \in Holder \ {h} : holders'[g] = holders[g]
  BY <1>1, <1>3
<1>5. Held' = Held \cup {r}
  BY <1>2, <1>4 DEF Held
<1>6. HeldOnce'
  <2>1. \A g \in Holder : holders[g] # r
    BY <1>2 DEF Held
  <2> QED BY <1>4, <2>1 DEF PoolInv, HeldOnce
<1>7. UNCHANGED <<cells, data, head, tail, size, answer, queue>>
  BY <1>2 DEF vars
<1>8. Content' = Content
  BY <1>7 DEF Content, AdvanceIndex
<1>9. IInv'
  BY <1>7 DEF PoolInv, IInv, TypeOK, LiveCells, AdvanceIndex
<1>10. PooledOnce' /\ UsesCovered'
  BY <1>2, <1>5, <1>7, <1>8 DEF PoolInv, PooledOnce, UsesCovered
<1> QED BY <1>2, <1>4, <1>6, <1>7, <1>9, <1>10 DEF PoolInv, InFlight

\* The oldest resource of the pool: the GPU is past its point, so past all its work.
LEMMA ReuseKeeps ==
  ASSUME PoolInv, NEW h \in Holder, holders[h] = Nothing, RequestReuses(h)
  PROVE  /\ PoolInv'
         /\ holders'[h] \notin Held /\ ~InFlight(queue, {holders'[h]})
         /\ \A g \in Holder \ {h} : holders'[g] = holders[g]
<1>1. /\ size # 0 /\ HasCompleted(queue, data[head].FencePoint) /\ PopTaken
      /\ holders' = [holders EXCEPT ![h] = data[head].Resource] /\ queue' = queue
  BY DEF RequestReuses, Creates
<1>2. /\ Content \in Seq(FencedResource) /\ Len(Content) = size /\ size \in Nat
      /\ \A k \in 1..size : Content[k] \in FencedResource
  BY ContentShape
<1>3. Content # <<>> /\ Head(Content) = data[head]
  BY <1>1, HeadIsFirst DEF PoolInv
<1>4. 1 \in 1..size /\ Content[1] = data[head]
  <2> HIDE DEF FencedResource
  <2> QED BY <1>1, <1>2, <1>3
<1>5. PICK r \in Resource : r = data[head].Resource
  BY <1>2, <1>4 DEF FencedResource
<1>6. r \notin Held /\ r # Nothing
  BY <1>4, <1>5, PoolAssumption DEF PoolInv, PooledOnce
<1>7. IInv' /\ Queue!FifoPop
  BY <1>1, PopKeeps, PopTakes DEF PoolInv
<1>8. Content' = Tail(Content) /\ size' = size - 1
  BY <1>1, <1>3, <1>7 DEF Queue!FifoPop, PopTaken
<1>9. \A k \in 1..size' : Content'[k] = Content[k + 1] /\ k + 1 \in 1..size
  <2> HIDE DEF FencedResource
  <2> QED BY <1>2, <1>3, <1>8, TailElements
<1>10. holders \in [Holder -> Resource \cup {Nothing}]
  BY DEF PoolInv
<1>11. /\ holders' \in [Holder -> Resource \cup {Nothing}]
       /\ holders'[h] = r /\ \A g \in Holder \ {h} : holders'[g] = holders[g]
  BY <1>1, <1>5, <1>10
<1>12. Held' = Held \cup {r}
  BY <1>6, <1>11 DEF Held
<1>13. HeldOnce'
  <2>1. \A g \in Holder : holders[g] # r
    BY <1>6 DEF Held
  <2> QED BY <1>11, <2>1 DEF PoolInv, HeldOnce
<1>14. \A k \in 1..size' : Content'[k].Resource # r
  <2> TAKE k \in 1..size'
  <2>1. k + 1 # 1
    BY <1>2, <1>8
  <2> QED BY <1>4, <1>5, <1>9, <2>1 DEF PoolInv, PooledOnce
<1>15. PooledOnce'
  <2>1. ASSUME NEW j \in 1..size' PROVE Content'[j].Resource \notin Held'
    BY <1>9, <1>12, <1>14 DEF PoolInv, PooledOnce
  <2>2. ASSUME NEW j \in 1..size', NEW k \in 1..size', Content'[j].Resource = Content'[k].Resource
        PROVE  j = k
    <3>1. j + 1 = k + 1
      BY <1>9, <2>2 DEF PoolInv, PooledOnce
    <3> QED BY <3>1
  <2> QED BY <2>1, <2>2 DEF PooledOnce
<1>16. ASSUME NEW w \in queue.work PROVE w.job # r
  <2> SUFFICES ASSUME w.job = r PROVE FALSE
    OBVIOUS
  <2>1. PICK k \in 1..size : Content[k].Resource = w.job /\ Content[k].FencePoint >= w.mark
    BY <1>6 DEF PoolInv, UsesCovered
  <2>2. k = 1
    BY <1>4, <1>5, <2>1 DEF PoolInv, PooledOnce
  <2>3. Content[1].FencePoint \in 1..MaxSignals
    BY <1>2, <1>4 DEF FencedResource
  <2>4. queue.completed < w.mark /\ queue.completed \in Nat /\ w.mark \in Nat
    BY DEF PoolInv, QueueType, QueueOrdered
  <2> QED BY <1>1, <1>4, <2>1, <2>2, <2>3, <2>4, PoolAssumption DEF HasCompleted
<1>17. UsesCovered'
  <2> SUFFICES ASSUME NEW w \in queue.work, w.job \notin Held'
               PROVE  \E k \in 1..size' : Content'[k].Resource = w.job /\ Content'[k].FencePoint >= w.mark
    BY <1>1 DEF UsesCovered
  <2>1. PICK k \in 1..size : Content[k].Resource = w.job /\ Content[k].FencePoint >= w.mark
    BY <1>12 DEF PoolInv, UsesCovered
  <2>2. k # 1
    BY <1>4, <1>5, <1>16, <2>1
  <2>3. k - 1 \in 1..size' /\ (k - 1) + 1 = k
    BY <1>2, <1>8, <2>2
  <2> QED BY <1>9, <2>1, <2>3
<1> QED BY <1>1, <1>6, <1>7, <1>11, <1>13, <1>15, <1>16, <1>17 DEF PoolInv, InFlight

LEMMA DestroyKeeps ==
  ASSUME PoolInv, NEW h \in Holder, Destroy(h)
  PROVE  PoolInv' /\ \A g \in Holder : holders'[g] \in {holders[g], Nothing}
<1>1. PICK r : r = holders[h]
  OBVIOUS
<1>2. holders \in [Holder -> Resource \cup {Nothing}]
  BY DEF PoolInv
<1>3. r \in Resource /\ r # Nothing /\ Release(r) /\ holders' = [holders EXCEPT ![h] = Nothing]
  BY <1>1, <1>2 DEF Destroy
<1>4. /\ holders' \in [Holder -> Resource \cup {Nothing}]
      /\ holders'[h] = Nothing /\ \A g \in Holder \ {h} : holders'[g] = holders[g]
  BY <1>2, <1>3
<1>5. r \in Held /\ \A g \in Holder \ {h} : holders[g] # r
  BY <1>1, <1>3 DEF Held, PoolInv, HeldOnce
<1>6. Held' = Held \ {r}
  BY <1>1, <1>4, <1>5 DEF Held
<1>7. HeldOnce'
  BY <1>4 DEF PoolInv, HeldOnce
<1> QED BY <1>3, <1>4, <1>5, <1>6, <1>7, ReturnKeeps

\* A ScopedResource that is moved takes its resource along; what the other one held goes
\* back first.
LEMMA MoveKeeps ==
  ASSUME PoolInv, NEW h \in Holder, NEW g \in Holder, MoveAssign(h, g)
  PROVE  PoolInv' /\ \A x \in Holder : holders'[x] \in Held \cup {Nothing}
<1>1. PICK r : r = holders[h]
  OBVIOUS
<1>2. holders \in [Holder -> Resource \cup {Nothing}]
  BY DEF PoolInv
<1>3. /\ holders' \in [Holder -> Resource \cup {Nothing}] /\ holders'[g] = Nothing
      /\ h # g => holders'[h] = holders[g]
      /\ \A x \in Holder \ {h, g} : holders'[x] = holders[x]
  BY <1>2 DEF MoveAssign
<1>4. HeldOnce'
  BY <1>3 DEF PoolInv, HeldOnce
<1>5. \A x \in Holder : holders'[x] \in Held \cup {Nothing}
  <2> TAKE x \in Holder
  <2>1. holders'[x] \in {Nothing, holders[x], holders[g]}
    BY <1>3
  <2>2. holders[x] \in Held \cup {Nothing} /\ holders[g] \in Held \cup {Nothing}
    BY DEF Held
  <2> QED BY <2>1, <2>2
<1>6. CASE r = Nothing
  <2>1. UNCHANGED <<vars, queue>>
    BY <1>1, <1>6 DEF MoveAssign, Release
  <2>2. Held' = Held
    BY <1>1, <1>3, <1>6 DEF Held
  <2>3. PoolInv'
    BY <1>3, <1>4, <2>1, <2>2, HandingKeeps
  <2> QED BY <1>5, <2>3
<1>7. CASE r # Nothing
  <2>1. r \in Resource /\ Release(r) /\ r \in Held /\ \A x \in Holder \ {h} : holders[x] # r
    BY <1>1, <1>2, <1>7 DEF MoveAssign, Held, PoolInv, HeldOnce
  <2>2. Held' = Held \ {r}
    BY <1>1, <1>3, <1>7, <2>1 DEF Held
  <2>3. PoolInv'
    BY <1>3, <1>4, <2>1, <2>2, ReturnKeeps
  <2> QED BY <1>5, <2>3
<1> QED BY <1>6, <1>7

LEMMA QueueKeeps ==
  ASSUME PoolInv, (\E h \in Holder : Use(h)) \/ GpuFinish \/ GpuAdvance
  PROVE  PoolInv' /\ holders' = holders
<1>1. UNCHANGED <<vars, holders>>
  BY DEF Use, GpuFinish, GpuAdvance
<1>2. UNCHANGED <<cells, data, head, tail, size, answer>>
  BY <1>1 DEF vars
<1>3. Content' = Content /\ Held' = Held
  BY <1>1, <1>2 DEF Content, AdvanceIndex, Held
<1>4. IInv'
  BY <1>2 DEF PoolInv, IInv, TypeOK, LiveCells, AdvanceIndex
<1>5. HeldOnce' /\ PooledOnce' /\ holders' \in [Holder -> Resource \cup {Nothing}]
  BY <1>1, <1>2, <1>3 DEF PoolInv, HeldOnce, PooledOnce
<1>6. queue \in QueueType(Resource) /\ QueueOrdered(queue)
  BY DEF PoolInv
<1>7. /\ queue' \in QueueType(Resource) /\ QueueOrdered(queue')
      /\ \A w \in queue'.work : w \in queue.work \/ w.job \in Held
  <2>1. CASE \E h \in Holder : Use(h)
    <3>1. PICK h \in Holder : holders[h] # Nothing /\ queue' = Execute(queue, holders[h])
      BY <2>1 DEF Use
    <3>2. holders[h] \in Resource /\ holders[h] \in Held
      BY <3>1 DEF PoolInv, Held
    <3>3. PICK w : w = [job |-> holders[h], mark |-> queue.next]
      OBVIOUS
    <3>4. /\ queue' \in QueueType(Resource) /\ QueueOrdered(queue')
          /\ queue'.work = queue.work \cup {w}
      BY <1>6, <3>1, <3>2, <3>3, ExecuteProperties
    <3> QED BY <3>2, <3>3, <3>4
  <2>2. CASE GpuFinish
    BY <1>6, <2>2, FinishProperties DEF GpuFinish
  <2>3. CASE GpuAdvance
    BY <1>6, <2>3, AdvanceProperties DEF GpuAdvance
  <2> QED BY <2>1, <2>2, <2>3
<1>8. UsesCovered'
  BY <1>2, <1>3, <1>7 DEF PoolInv, UsesCovered
<1> QED BY <1>1, <1>4, <1>5, <1>7, <1>8 DEF PoolInv

LEMMA PoolSteps == PoolInv /\ [PoolNext]_poolVars => PoolInv'
<1> SUFFICES ASSUME PoolInv, [PoolNext]_poolVars PROVE PoolInv'
  OBVIOUS
<1>1. CASE UNCHANGED poolVars
  <2>1. UNCHANGED <<vars, queue>> /\ holders' = holders
    BY <1>1 DEF poolVars
  <2>2. Held' = Held /\ HeldOnce' /\ holders' \in [Holder -> Resource \cup {Nothing}]
    BY <2>1 DEF PoolInv, Held, HeldOnce
  <2> QED BY <2>1, <2>2, HandingKeeps
<1> QED
  BY <1>1, CreateKeeps, ReuseKeeps, DestroyKeeps, MoveKeeps, QueueKeeps DEF PoolNext, Request

\* A resource has one holder, and none gets it while the GPU still works for an earlier
\* one: LentAlone, for any number of resources and holders and any pattern of moves.
THEOREM AlwaysLentAlone == PoolSpec => LentAlone
<1>1. ASSUME PoolInv, PoolNext, NEW h \in Holder, holders'[h] \notin {holders[h], Nothing}
      PROVE  /\ \A g \in Holder \ {h} : holders'[g] # holders'[h]
             /\ holders'[h] \notin Held => ~InFlight(queue, {holders'[h]})
  <2>1. PoolInv' /\ HeldOnce'
    BY <1>1, PoolSteps DEF PoolInv
  <2>2. \A g \in Holder \ {h} : holders'[g] # holders'[h]
    BY <1>1, <2>1 DEF HeldOnce
  <2>3. holders'[h] \notin Held => ~InFlight(queue, {holders'[h]})
    <3>1. ASSUME NEW x \in Holder, Request(x)
          PROVE  ~InFlight(queue, {holders'[h]})
      BY <1>1, <3>1, CreateKeeps, ReuseKeeps DEF Request
    <3>2. ASSUME NEW x \in Holder, Destroy(x)
          PROVE  FALSE
      BY <1>1, <3>2, DestroyKeeps
    <3>3. ASSUME NEW x \in Holder, NEW g \in Holder, MoveAssign(x, g)
          PROVE  holders'[h] \in Held
      BY <1>1, <3>3, MoveKeeps
    <3>4. ASSUME (\E x \in Holder : Use(x)) \/ GpuFinish \/ GpuAdvance
          PROVE  FALSE
      BY <1>1, <3>4, QueueKeeps
    <3> QED BY <1>1, <3>1, <3>2, <3>3, <3>4 DEF PoolNext
  <2> QED BY <2>2, <2>3
<1>2. PoolInv /\ [PoolNext]_poolVars =>
        [\A h \in Holder : holders'[h] \notin {holders[h], Nothing} =>
           /\ \A g \in Holder \ {h} : holders'[g] # holders'[h]
           /\ holders'[h] \notin Held => ~InFlight(queue, {holders'[h]})]_poolVars
  BY <1>1
<1> QED BY <1>2, PoolStarts, PoolSteps, PTL DEF PoolSpec, LentAlone

-----------------------------------------------------------------------------
(* The allocators on a heap. First the running sum of the costs, which the model  *)
(* takes with a fold.                                                              *)

\* sum is the running sum of the costs of s.
Sums(sum, s) ==
  /\ sum \in [0..Len(s) -> Nat]
  /\ sum[0] = 0
  /\ \A k \in 1..Len(s) : s[k].cost \in Nat /\ sum[k] = sum[k - 1] + s[k].cost

CostOf(s) == FoldLeft(LAMBDA total, d : total + d.cost, 0, s)

LEMMA WholeCost ==
  ASSUME NEW D, NEW s \in Seq(D), NEW sum, Sums(sum, s)
  PROVE  CostOf(s) = sum[Len(s)]
<1> DEFINE n == Len(s)
           G == [p \in Nat \X (1..n) |-> p[1] + s[p[2]].cost]
           Rule(iter) == iter = [t \in SUBSET (1..n) |->
              IF t = {} THEN 0 ELSE iter[t \ {Largest(t)}] + s[Largest(t)].cost]
<1>0. n \in Nat /\ DOMAIN s = 1..n
  OBVIOUS
<1>1. CostOf(s) = (CHOOSE iter : Rule(iter))[1..n]
  BY <1>0 DEF CostOf, FoldLeft, MapThenFoldSet, Max, Largest
<1>2. \A v \in Nat : \A k \in 1..n : G[<<v, k>>] = v + s[k].cost /\ G[<<v, k>>] \in Nat
  BY DEF Sums
<1> HIDE DEF G
<1>3. PICK fold \in [SUBSET (1..n) -> Nat] : IsFold(fold, n, 0, G)
  <2> HIDE DEF n
  <2> QED BY <1>0, <1>2, FoldExists
<1>4. Rule(fold)
  <2>1. ASSUME NEW t \in SUBSET (1..n), t # {}
        PROVE  G[<<fold[t \ {Largest(t)}], Largest(t)>>] = fold[t \ {Largest(t)}] + s[Largest(t)].cost
    <3>1. Largest(t) \in 1..n /\ t \ {Largest(t)} \in SUBSET (1..n)
      BY <1>0, <2>1, LargestIn
    <3> QED BY <3>1, <1>2
  <2> QED BY <1>3, <2>1 DEF IsFold
<1> DEFINE iter == CHOOSE it : Rule(it)
<1>5. Rule(iter)
  BY <1>4
<1> HIDE DEF iter
<1> DEFINE W == {iter[t] : t \in SUBSET (1..n)}
           H == [p \in W \X (1..n) |-> p[1] + s[p[2]].cost]
<1>6. \A t \in SUBSET (1..n) : \A k \in 1..n : H[<<iter[t], k>>] = iter[t] + s[k].cost
  OBVIOUS
<1> HIDE DEF H
<1>7. IsFold(iter, n, 0, H)
  <2>1. ASSUME NEW t \in SUBSET (1..n), t # {}
        PROVE  H[<<iter[t \ {Largest(t)}], Largest(t)>>] = iter[t \ {Largest(t)}] + s[Largest(t)].cost
    <3>1. Largest(t) \in 1..n /\ t \ {Largest(t)} \in SUBSET (1..n)
      BY <1>0, <2>1, LargestIn
    <3> QED BY <3>1, <1>6
  <2> QED BY <1>5, <2>1 DEF IsFold
<1>8. /\ iter[1..0] = 0
      /\ \A k \in 0..n - 1 : iter[1..k + 1] = H[<<iter[1..k], k + 1>>]
  <2> HIDE DEF n
  <2>1. n \in Nat
    BY <1>0
  <2> HIDE DEF W, Rule
  <2>2. iter[1..0] = 0
    BY <1>7, <2>1, FoldSteps
  <2>3. \A k \in 0..n - 1 : iter[1..k + 1] = H[<<iter[1..k], k + 1>>]
    BY <1>7, <2>1, FoldSteps
  <2> QED BY <2>2, <2>3
<1> DEFINE T == {k \in 0..n : iter[1..k] = sum[k]}
<1>9. 0 \in T
  BY <1>0, <1>8 DEF Sums
<1>10. ASSUME NEW k \in 0..n - 1, k \in T PROVE k + 1 \in T
  <2>1. 1..k \in SUBSET (1..n) /\ k + 1 \in 1..n /\ (k + 1) - 1 = k /\ k + 1 \in 0..n
    BY <1>0
  <2>2. iter[1..k + 1] = iter[1..k] + s[k + 1].cost
    BY <1>6, <1>8, <2>1
  <2>3. sum[k + 1] = sum[k] + s[k + 1].cost
    BY <2>1 DEF Sums
  <2>4. iter[1..k] = sum[k]
    BY <1>10
  <2> QED BY <2>1, <2>2, <2>3, <2>4
<1>11. n \in T
  <2>1. \A k \in 0..n : k \in T
    <3> HIDE DEF T, n
    <3> QED BY <1>0, <1>9, <1>10, EveryNumberTo
  <2> QED BY <1>0, <2>1
<1> QED BY <1>1, <1>11 DEF iter

LEMMA CostsAreSums ==
  ASSUME NEW D, taken \in Seq(D), NEW sum, Sums(sum, taken), NEW k \in 0..Len(taken)
  PROVE  Costs(k) = sum[k]
<1> DEFINE s == SubSeq(taken, 1, k)
           part == [j \in 0..k |-> sum[j]]
<1>1. s \in Seq(D) /\ Len(s) = k /\ \A j \in 1..k : s[j] = taken[j]
  <2>1. 1 \in 1..Len(taken) + 1 /\ k \in 1 - 1..Len(taken) /\ k - 1 + 1 = k /\ \A j \in 1..k : (1 - 1) + j = j
    OBVIOUS
  <2> QED BY <2>1, SubSeqElements
<1> HIDE DEF s
<1>2. Sums(part, s)
  <2>1. k \in 0..Len(taken) /\ Len(taken) \in Nat
    OBVIOUS
  <2>2. part \in [0..k -> Nat] /\ part[0] = 0
    BY <2>1 DEF Sums
  <2>3. ASSUME NEW j \in 1..k PROVE s[j].cost \in Nat /\ part[j] = part[j - 1] + s[j].cost
    <3>1. j \in 1..Len(taken) /\ j \in 0..k /\ j - 1 \in 0..k
      BY <2>1
    <3>2. part[j] = sum[j] /\ part[j - 1] = sum[j - 1]
      BY <3>1
    <3> QED BY <3>1, <3>2, <1>1 DEF Sums
  <2> HIDE DEF part
  <2> QED BY <1>1, <2>2, <2>3 DEF Sums
<1>3. Costs(k) = CostOf(s)
  BY DEF Costs, CostOf, s
<1>4. CostOf(s) = part[Len(s)]
  <2> HIDE DEF part
  <2> QED BY <1>1, <1>2, WholeCost
<1> QED BY <1>1, <1>3, <1>4

-----------------------------------------------------------------------------
(* The ring. *)

\* How far behind the next allocation the k-th of the taken descriptors lies.
Behind(sum, k) == sum[Len(taken)] - sum[k] + 1

\* The taken descriptors lie behind the next allocation, one cost after the other, and
\* all the costs are accounted for.
Laid(sum) ==
  /\ Sums(sum, taken)
  /\ \A k \in 0..Len(taken) : \A j \in 0..k : k - j <= sum[k] - sum[j]
  /\ sum[Len(taken)] <= m_Size
  /\ \A k \in 1..Len(taken) :
       /\ taken[k].handle.m_HeapIndex \in 0..RingSize - 1
       /\ \/ taken[k].handle.m_HeapIndex = m_AllocateIndex - Behind(sum, k)
          \/ taken[k].handle.m_HeapIndex = m_AllocateIndex - Behind(sum, k) + RingSize

Handle == [m_CPUAddress : Nat, m_GPUAddress : Nat, m_HeapIndex : Nat]
Taken == [handle : Handle, cost : Nat]

RingInv ==
  /\ m_Size \in 0..RingSize
  /\ m_AllocateIndex \in 0..RingSize
  /\ taken \in Seq(Taken)
  /\ \E sum : Laid(sum)

LEMMA PlusIsSum ==
  ASSUME NEW a \in Nat, NEW b \in Nat, a + b < Width
  PROVE  Plus(a, b) = a + b
<1>1. PICK c \in Nat : c = a + b
  OBVIOUS
<1>2. Width \in Nat /\ c < Width
  BY <1>1, HeapAssumption
<1>3. c % Width = c
  BY <1>2
<1> QED BY <1>1, <1>3 DEF Plus

LEMMA Sizes ==
  /\ RingSize \in Nat /\ NumDescriptors \in Nat /\ RingSize <= NumDescriptors
  /\ Width \in Nat /\ 3 * NumDescriptors + 1 < Width /\ Increment \in Nat /\ Increment > 1
  /\ CPUStart \in Nat /\ GPUStart \in Nat
BY HeapAssumption, AllocatorsAssumption

LEMMA Product ==
  ASSUME NEW a \in Nat, NEW b \in Nat
  PROVE  a * b \in Nat
OBVIOUS

\* A descriptor of a range that is there.
LEMMA AtIs ==
  ASSUME NEW range, range.m_Start \in Handle, range.m_Increment = Increment, range.m_Size \in Nat,
         NEW i \in 0..range.m_Size - 1, range.m_Start.m_HeapIndex + i < Width
  PROVE  /\ IsValidRange(range)
         /\ At(range, i).error = "Success"
         /\ At(range, i).value \in Handle
         /\ At(range, i).value.m_HeapIndex = range.m_Start.m_HeapIndex + i
         /\ At(range, i).value.m_CPUAddress = range.m_Start.m_CPUAddress + Increment * i
         /\ At(range, i).value.m_GPUAddress = range.m_Start.m_GPUAddress + Increment * i
<1>1. i \in Nat /\ i < range.m_Size /\ range.m_Size # 0
  OBVIOUS
<1>2. PICK d : d = Increment * i
  OBVIOUS
<1>3. d \in Nat
  BY <1>1, <1>2, Product, Sizes
<1>4. PICK h : h = range.m_Start
  OBVIOUS
<1>5. h.m_CPUAddress \in Nat /\ h.m_GPUAddress \in Nat /\ h.m_HeapIndex \in Nat
  BY <1>4 DEF Handle
<1>6. Plus(h.m_HeapIndex, i) = h.m_HeapIndex + i
  BY <1>1, <1>4, <1>5, PlusIsSum
<1>7. IsValidRange(range)
  BY <1>1, Sizes DEF IsValidRange
<1>8. At(range, i) = Value(DescriptorHandle(h.m_CPUAddress + d, h.m_GPUAddress + d, h.m_HeapIndex + i))
  <2>1. ~(i >= range.m_Size)
    BY <1>1
  <2> QED BY <1>2, <1>4, <1>6, <1>7, <2>1 DEF At
<1>9. DescriptorHandle(h.m_CPUAddress + d, h.m_GPUAddress + d, h.m_HeapIndex + i) \in Handle
  BY <1>1, <1>3, <1>5 DEF DescriptorHandle, Handle
<1> QED BY <1>2, <1>4, <1>7, <1>8, <1>9 DEF Value, DescriptorHandle

\* A part of the heap, which has descriptors.
LEMMA PartIs ==
  ASSUME NEW start \in Nat, NEW count \in Nat \ {0}, start + count <= NumDescriptors,
         NEW part, part = Subrange(GetHeapRange, start, count).value
  PROVE  /\ part.m_Start \in Handle /\ part.m_Increment = Increment /\ part.m_Size = count
         /\ part.m_Start.m_HeapIndex = start
         /\ part.m_Start.m_CPUAddress = CPUStart + Increment * start
         /\ part.m_Start.m_GPUAddress = GPUStart + Increment * start
<1>1. Plus(0, NumDescriptors) = NumDescriptors /\ Plus(start, count) = start + count
  BY Sizes, PlusIsSum
<1> DEFINE heap == [m_Start |-> DescriptorHandle(CPUStart + 0 * Increment, GPUStart + 0 * Increment, 0),
              m_Size |-> NumDescriptors, m_Increment |-> Increment]
<1>2. GetHeapRange = heap
  BY <1>1, Sizes DEF GetHeapRange, CreateDescriptorRange, Value
<1>3. 0 * Increment = 0
  BY Sizes
<1>4. /\ heap.m_Start \in Handle /\ heap.m_Increment = Increment /\ heap.m_Size = NumDescriptors
      /\ heap.m_Start.m_HeapIndex = 0
      /\ heap.m_Start.m_CPUAddress = CPUStart /\ heap.m_Start.m_GPUAddress = GPUStart
  BY <1>3, Sizes DEF DescriptorHandle, Handle
<1> HIDE DEF heap
<1>5. start \in 0..heap.m_Size - 1 /\ heap.m_Start.m_HeapIndex + start < Width /\ heap.m_Size \in Nat
  BY <1>4, Sizes
<1>6. PICK r : r = At(heap, start)
  OBVIOUS
<1>7. /\ IsValidRange(heap) /\ r.error = "Success" /\ r.value \in Handle
      /\ r.value.m_HeapIndex = 0 + start
      /\ r.value.m_CPUAddress = CPUStart + Increment * start
      /\ r.value.m_GPUAddress = GPUStart + Increment * start
  BY <1>4, <1>5, <1>6, AtIs
<1>8. Subrange(heap, start, count) = Value([m_Start |-> r.value, m_Size |-> count, m_Increment |-> Increment])
  <2>1. ~(Plus(start, count) > heap.m_Size)
    BY <1>1, <1>4, Sizes
  <2> QED BY <1>4, <1>6, <1>7, <2>1 DEF Subrange
<1>9. part = [m_Start |-> r.value, m_Size |-> count, m_Increment |-> Increment]
  BY <1>2, <1>8 DEF Value
<1> QED BY <1>7, <1>9

LEMMA RingIs ==
  /\ RingRange.m_Size = RingSize
  /\ RingSize = 0 => ~IsValidRange(RingRange)
  /\ RingSize # 0 => /\ RingRange.m_Start \in Handle
                     /\ RingRange.m_Start.m_HeapIndex = 0
                     /\ RingRange.m_Increment = Increment
<1>1. CASE RingSize = 0
  BY <1>1 DEF RingRange, NoRange, IsValidRange
<1>2. CASE RingSize # 0
  <2>1. RingSize \in Nat \ {0} /\ 0 + RingSize <= NumDescriptors /\ 0 \in Nat
    BY <1>2, Sizes
  <2>2. PICK part : part = Subrange(GetHeapRange, 0, RingSize).value
    OBVIOUS
  <2>3. RingRange = part
    BY <1>2, <2>2 DEF RingRange
  <2> QED BY <1>2, <2>1, <2>2, <2>3, PartIs
<1> QED BY <1>1, <1>2

\* What Allocate does when it grants a block.
LEMMA Granted ==
  ASSUME NEW num \in 0..RingSize + 1, m_Size \in 0..RingSize, m_AllocateIndex \in 0..RingSize
  PROVE  /\ Allocation(num) = IF m_AllocateIndex + num > RingSize
                              THEN <<0, num + (RingSize - m_AllocateIndex)>> ELSE <<m_AllocateIndex, num>>
         /\ CanAllocate(num) <=> Allocation(num)[2] + m_Size <= RingSize
         /\ CanAllocate(num) => /\ Plus(m_Size, Allocation(num)[2]) = m_Size + Allocation(num)[2]
                                /\ Plus(Allocation(num)[1], num) = Allocation(num)[1] + num
<1>1. Plus(m_AllocateIndex, num) = m_AllocateIndex + num
  BY Sizes, PlusIsSum
<1>2. Plus(num, RingSize - m_AllocateIndex) = num + (RingSize - m_AllocateIndex)
  BY Sizes, PlusIsSum
<1>3. Allocation(num) = IF m_AllocateIndex + num > RingSize
                        THEN <<0, num + (RingSize - m_AllocateIndex)>> ELSE <<m_AllocateIndex, num>>
  BY <1>1, <1>2, RingIs DEF Allocation
<1>4. PICK s, c : Allocation(num) = <<s, c>> /\ s \in 0..RingSize /\ c \in 0..2 * RingSize + 1
  BY <1>3, Sizes
<1>5. Allocation(num)[1] = s /\ Allocation(num)[2] = c
  BY <1>4
<1>6. Plus(c, m_Size) = c + m_Size /\ Plus(m_Size, c) = m_Size + c /\ Plus(s, num) = s + num
  BY <1>4, Sizes, PlusIsSum
<1> QED BY <1>3, <1>5, <1>6, RingIs DEF CanAllocate

IsBlock(put, start, num, cost) ==
  /\ put \in Seq(Taken)
  /\ Len(put) = num
  /\ \A k \in 1..num : /\ put[k].handle.m_HeapIndex = start + (k - 1)
                       /\ put[k].cost = IF k = 1 THEN cost - num + 1 ELSE 1

LEMMA BlockIs ==
  ASSUME RingSize # 0, NEW start \in 0..RingSize - 1, NEW num \in 1..RingSize, start + num <= RingSize,
         NEW cost \in Nat, num <= cost,
         NEW block, block = Subrange(RingRange, start, num)
  PROVE  block.error = "Success" /\ IsBlock(Block(block.value, cost), start, num, cost)
<1>1. PICK ring : ring = RingRange
  OBVIOUS
<1>2. /\ ring.m_Start \in Handle /\ ring.m_Start.m_HeapIndex = 0 /\ ring.m_Increment = Increment
      /\ ring.m_Size = RingSize
  BY <1>1, RingIs
<1>3. PICK r : r = At(ring, start)
  OBVIOUS
<1>4. IsValidRange(ring) /\ r.error = "Success" /\ r.value \in Handle /\ r.value.m_HeapIndex = start
  <2>1. ring.m_Size \in Nat /\ start \in 0..ring.m_Size - 1 /\ ring.m_Start.m_HeapIndex + start < Width
        /\ ring.m_Start.m_HeapIndex + start = start
    BY <1>2, Sizes
  <2> QED BY <1>2, <1>3, <2>1, AtIs
<1>5. PICK b : b = [m_Start |-> r.value, m_Size |-> num, m_Increment |-> Increment]
  OBVIOUS
<1>6. block = Value(b)
  <2>1. Plus(start, num) = start + num
    BY Sizes, PlusIsSum
  <2>2. ~(Plus(start, num) > ring.m_Size)
    BY <1>2, <2>1, Sizes
  <2> QED BY <1>1, <1>2, <1>3, <1>4, <1>5, <2>2 DEF Subrange
<1>7. block.error = "Success" /\ block.value = b
  BY <1>6 DEF Value
<1>8. b.m_Start = r.value /\ b.m_Size = num /\ b.m_Increment = Increment
  BY <1>5
<1>9. ASSUME NEW k \in 1..num
      PROVE  At(b, k - 1).value \in Handle /\ At(b, k - 1).value.m_HeapIndex = start + (k - 1)
  <2>1. k - 1 \in 0..b.m_Size - 1 /\ b.m_Size \in Nat /\ b.m_Start.m_HeapIndex + (k - 1) < Width
    BY <1>4, <1>8, Sizes
  <2> QED BY <1>4, <1>8, <2>1, AtIs
<1> DEFINE f == [k \in 1..num |->
     [handle |-> At(b, k - 1).value, cost |-> IF k = 1 THEN cost - num + 1 ELSE 1]]
<1>10. Block(b, cost) = f
  BY <1>8 DEF Block
<1>11. \A k \in 1..num : /\ f[k].handle.m_HeapIndex = start + (k - 1)
                         /\ f[k].cost = IF k = 1 THEN cost - num + 1 ELSE 1
                         /\ f[k] \in Taken
  <2>1. cost - num + 1 \in Nat
    OBVIOUS
  <2>2. ASSUME NEW k \in 1..num
        PROVE  /\ f[k].handle.m_HeapIndex = start + (k - 1)
               /\ f[k].cost = IF k = 1 THEN cost - num + 1 ELSE 1
               /\ f[k] \in Taken
    <3>1. PICK h : h = At(b, k - 1).value
      OBVIOUS
    <3>2. PICK c \in Nat : c = IF k = 1 THEN cost - num + 1 ELSE 1
      BY <2>1
    <3>3. f[k] = [handle |-> h, cost |-> c]
      BY <3>1, <3>2
    <3>4. h \in Handle /\ h.m_HeapIndex = start + (k - 1)
      BY <1>9, <3>1
    <3> HIDE DEF f
    <3>5. f[k].handle = h /\ f[k].cost = c /\ f[k] \in Taken
      BY <3>3, <3>4 DEF Taken
    <3> QED BY <3>2, <3>4, <3>5
  <2> HIDE DEF f
  <2> QED BY <2>2
<1>12. f \in Seq(Taken) /\ Len(f) = num
  <2>1. f \in [1..num -> Taken] /\ num \in Nat
    BY <1>11
  <2> HIDE DEF f
  <2> QED BY <2>1, FunctionIsSeq
<1> HIDE DEF f
<1> QED BY <1>7, <1>10, <1>11, <1>12 DEF IsBlock

\* A block is taken: the sums go on, and what was taken is as far behind as it was, or
\* the ring's size further.
LEMMA AllocateKeeps ==
  ASSUME RingInv, NEW num \in 0..RingSize + 1, AllocateBlock(num)
  PROVE  RingInv'
<1>1. /\ m_Size \in 0..RingSize /\ m_AllocateIndex \in 0..RingSize /\ taken \in Seq(Taken)
      /\ RingSize \in Nat /\ Len(taken) \in Nat
  BY Sizes DEF RingInv
<1>2. PICK sum : Laid(sum)
  BY DEF RingInv
<1>3. CASE ~CanAllocate(num)
  <2>1. UNCHANGED ringVars
    BY <1>3 DEF AllocateBlock
  <2> QED BY <2>1, <1>1, <1>2 DEF RingInv, Laid, ringVars, Sums, Behind
<1>4. CASE CanAllocate(num)
  <2>1. PICK start, cost : Allocation(num) = <<start, cost>>
    BY <1>1, Granted
  <2>2. /\ Allocation(num)[1] = start /\ Allocation(num)[2] = cost
        /\ \/ m_AllocateIndex + num > RingSize /\ start = 0 /\ cost = num + (RingSize - m_AllocateIndex)
           \/ m_AllocateIndex + num <= RingSize /\ start = m_AllocateIndex /\ cost = num
    BY <1>1, <2>1, Granted
  <2>3. cost + m_Size <= RingSize /\ m_Size' = m_Size + cost /\ m_AllocateIndex' = start + num
    BY <1>1, <1>4, <2>2, Granted DEF AllocateBlock
  <2> DEFINE block == Subrange(RingRange, start, num)
             new == Block(block.value, cost)
  <2>4. taken' = IF block.error = "Success" THEN taken \o new ELSE taken
    BY <1>4, <2>2 DEF AllocateBlock
  <2>5. cost \in 0..RingSize /\ num \in 0..RingSize /\ num <= cost
    BY <1>1, <2>2, <2>3
  <2>6. m_Size' \in 0..RingSize /\ m_AllocateIndex' \in 0..RingSize
    BY <1>1, <2>2, <2>3, <2>5
  <2>7. CASE taken' = taken /\ num = 0
    <3>1. m_Size' = m_Size /\ m_AllocateIndex' = m_AllocateIndex
      BY <1>1, <2>2, <2>3, <2>7
    <3> QED BY <3>1, <2>7, <1>1, <1>2 DEF RingInv, Laid, Sums, Behind
  <2>8. CASE num # 0
    <3>1. RingSize # 0 /\ start \in 0..RingSize - 1 /\ start + num <= RingSize /\ num \in 1..RingSize
      BY <1>1, <2>2, <2>3, <2>5, <2>8
    <3>2. PICK L \in Nat : L = Len(taken)
      BY <1>1
    <3>3. PICK put : put = new
      OBVIOUS
    <3>4. /\ block.error = "Success" /\ put \in Seq(Taken) /\ Len(put) = num
          /\ \A k \in 1..num : /\ put[k].handle.m_HeapIndex = start + (k - 1)
                               /\ put[k].cost = IF k = 1 THEN cost - num + 1 ELSE 1
      <4>1. cost \in Nat /\ num <= cost
        BY <2>5
      <4>2. PICK b : b = Subrange(RingRange, start, num)
        OBVIOUS
      <4>3. block = b /\ put = Block(b.value, cost)
        BY <3>3, <4>2
      <4>4. b.error = "Success" /\ IsBlock(Block(b.value, cost), start, num, cost)
        <5> HIDE DEF block, new
        <5> QED BY <3>1, <4>1, <4>2, BlockIs
      <4> HIDE DEF block, new
      <4> QED BY <4>3, <4>4 DEF IsBlock
    <3>5. taken' = taken \o put
      BY <2>4, <3>3, <3>4
    <3> HIDE DEF block, new
    <3>6. /\ taken' \in Seq(Taken) /\ Len(taken') = L + num
          /\ \A k \in 1..L : taken'[k] = taken[k]
          /\ \A k \in 1..num : taken'[L + k] = put[k]
      <4>1. PICK all : all = taken \o put
        OBVIOUS
      <4>2. /\ all \in Seq(Taken) /\ Len(all) = Len(taken) + Len(put)
            /\ \A k \in 1..Len(taken) : all[k] = taken[k]
            /\ \A k \in 1..Len(put) : all[Len(taken) + k] = put[k]
        <5>1. PICK D : D = Taken
          OBVIOUS
        <5>2. taken \in Seq(D) /\ put \in Seq(D)
          BY <1>1, <3>4, <5>1
        <5>3. /\ taken \o put \in Seq(D) /\ Len(taken \o put) = Len(taken) + Len(put)
              /\ \A k \in 1..Len(taken) : (taken \o put)[k] = taken[k]
              /\ \A k \in 1..Len(put) : (taken \o put)[Len(taken) + k] = put[k]
          <6>1. taken \o put \in Seq(D)
            BY <5>2, ConcatElements
          <6>2. Len(taken \o put) = Len(taken) + Len(put)
            BY <5>2, ConcatElements
          <6>3. \A k \in 1..Len(taken) : (taken \o put)[k] = taken[k]
            BY <5>2, ConcatElements
          <6>4. \A k \in 1..Len(put) : (taken \o put)[Len(taken) + k] = put[k]
            BY <5>2, ConcatElements
          <6> QED BY <6>1, <6>2, <6>3, <6>4
        <5> QED BY <5>1, <5>3, <4>1
      <4> QED BY <3>2, <3>4, <3>5, <4>1, <4>2
    <3>7. PICK sum2 : sum2 = [k \in 0..L + num |-> IF k <= L THEN sum[k] ELSE sum[L] + (cost - num) + (k - L)]
      OBVIOUS
    <3>8. /\ \A k \in 0..L : sum2[k] = sum[k]
          /\ \A k \in 1..num : sum2[L + k] = sum[L] + (cost - num) + k
      <4>1. \A k \in 0..L : k \in 0..L + num /\ k <= L
        BY <3>2, <2>5
      <4>2. \A k \in 1..num : L + k \in 0..L + num /\ ~(L + k <= L) /\ (L + k) - L = k
        BY <3>2, <2>5
      <4> QED BY <3>7, <4>1, <4>2
    <3>9. \A k \in 0..L : sum[k] \in Nat
      BY <1>2, <3>2 DEF Laid, Sums
    <3>10. \A k \in 1..L + num : k \in 1..L \/ \E i \in 1..num : k = L + i
      <4>1. ASSUME NEW k \in 1..L + num, k \notin 1..L PROVE \E i \in 1..num : k = L + i
        <5>1. k - L \in 1..num /\ k = L + (k - L)
          BY <4>1, <3>2, <2>5
        <5> QED BY <5>1
      <4> QED BY <4>1
    <3>11. Sums(sum2, taken')
      <4>1. sum2 \in [0..L + num -> Nat]
        <5>1. \A k \in 0..L + num : k <= L => k \in 0..L
          BY <3>2, <2>5
        <5>2. sum[L] \in Nat
          BY <3>2, <3>9
        <5>3. \A k \in 0..L + num : ~(k <= L) => sum[L] + (cost - num) + (k - L) \in Nat
          BY <5>2, <3>2, <2>5
        <5> QED BY <3>7, <3>9, <5>1, <5>3
      <4>2. sum2[0] = 0
        BY <1>2, <3>2, <3>8 DEF Laid, Sums
      <4>3. ASSUME NEW k \in 1..L
            PROVE  taken'[k].cost \in Nat /\ sum2[k] = sum2[k - 1] + taken'[k].cost
        <5>1. k \in 0..L /\ k - 1 \in 0..L
          BY <3>2
        <5>2. sum2[k] = sum[k] /\ sum2[k - 1] = sum[k - 1] /\ taken'[k] = taken[k]
          BY <3>6, <3>8, <5>1
        <5> QED BY <1>2, <3>2, <5>2 DEF Laid, Sums
      <4>4. ASSUME NEW i \in 1..num
            PROVE  taken'[L + i].cost \in Nat /\ sum2[L + i] = sum2[L + i - 1] + taken'[L + i].cost
        <5>1. taken'[L + i].cost = IF i = 1 THEN cost - num + 1 ELSE 1
          BY <3>4, <3>6
        <5>2. sum2[L + i] = sum[L] + (cost - num) + i /\ sum[L] \in Nat
          BY <3>2, <3>8, <3>9
        <5>3. CASE i = 1
          <6>1. sum2[L + i - 1] = sum[L]
            <7>1. L + i - 1 = L /\ L \in 0..L
              BY <3>2, <5>3
            <7> QED BY <3>8, <7>1
          <6> QED BY <2>5, <5>1, <5>2, <5>3, <6>1
        <5>4. CASE i # 1
          <6>1. sum2[L + i - 1] = sum[L] + (cost - num) + (i - 1)
            <7>1. L + i - 1 = L + (i - 1) /\ i - 1 \in 1..num
              BY <3>2, <5>4
            <7> QED BY <3>8, <7>1
          <6> QED BY <2>5, <5>1, <5>2, <5>4, <6>1
        <5> QED BY <5>3, <5>4
      <4>5. ASSUME NEW k \in 1..L + num
            PROVE  taken'[k].cost \in Nat /\ sum2[k] = sum2[k - 1] + taken'[k].cost
        BY <3>10, <4>3, <4>4
      <4> QED BY <3>6, <4>1, <4>2, <4>5 DEF Sums
    <3>12. \A k \in 0..L + num : \A j \in 0..k : k - j <= sum2[k] - sum2[j]
      <4>1. ASSUME NEW k \in 0..L + num, NEW j \in 0..k PROVE k - j <= sum2[k] - sum2[j]
        <5>1. k \in Nat /\ j \in Nat /\ L \in Nat /\ cost \in Nat /\ num \in Nat /\ num <= cost /\ sum[L] \in Nat
          BY <3>2, <2>5, <3>9
        <5>2. CASE k <= L
          <6>1. k \in 0..L /\ j \in 0..L /\ k \in 0..Len(taken)
            BY <5>1, <5>2, <3>2
          <6>2. k - j <= sum[k] - sum[j]
            BY <1>2, <6>1 DEF Laid
          <6> QED BY <3>8, <6>1, <6>2
        <5>3. CASE k > L
          <6>1. k - L \in 1..num /\ k = L + (k - L)
            BY <5>1, <5>3
          <6>2. sum2[k] = sum[L] + (cost - num) + (k - L)
            BY <3>8, <6>1
          <6>3. CASE j <= L
            <7>1. j \in 0..L /\ L \in 0..Len(taken)
              BY <5>1, <6>3, <3>2
            <7>2. L - j <= sum[L] - sum[j] /\ sum2[j] = sum[j] /\ sum[j] \in Nat
              BY <1>2, <3>8, <3>9, <7>1 DEF Laid
            <7> QED BY <5>1, <6>2, <7>2
          <6>4. CASE j > L
            <7>1. j - L \in 1..num /\ j = L + (j - L)
              BY <5>1, <6>4
            <7>2. sum2[j] = sum[L] + (cost - num) + (j - L)
              BY <3>8, <7>1
            <7> QED BY <5>1, <6>2, <7>2
          <6> QED BY <5>1, <6>3, <6>4
        <5> QED BY <5>1, <5>2, <5>3
      <4> QED BY <4>1
    <3>13. sum2[L + num] = sum[L] + cost /\ sum2[L + num] <= m_Size' /\ sum[L] <= m_Size /\ sum[L] \in Nat
      <4>1. num \in 1..num
        BY <3>1
      <4>2. sum2[L + num] = sum[L] + (cost - num) + num /\ sum[L] \in Nat
        BY <3>2, <3>8, <3>9, <4>1
      <4>3. sum[L] <= m_Size
        BY <1>2, <3>2 DEF Laid
      <4> QED BY <1>1, <2>3, <2>5, <4>2, <4>3
    <3>14. ASSUME NEW k \in 1..L + num
           PROVE  /\ taken'[k].handle.m_HeapIndex \in 0..RingSize - 1
                  /\ \/ taken'[k].handle.m_HeapIndex = m_AllocateIndex' - (sum2[L + num] - sum2[k] + 1)
                     \/ taken'[k].handle.m_HeapIndex = m_AllocateIndex' - (sum2[L + num] - sum2[k] + 1) + RingSize
      <4>1. CASE k \in 1..L
        <5>1. PICK p : p = taken[k].handle.m_HeapIndex
          OBVIOUS
        <5>2. k \in 1..Len(taken) /\ k \in 0..L /\ 0 \in 0..k /\ k \in 0..Len(taken) /\ L \in 0..L
          BY <3>2, <4>1
        <5>3. /\ p \in 0..RingSize - 1
              /\ p = m_AllocateIndex - (sum[L] - sum[k] + 1) \/ p = m_AllocateIndex - (sum[L] - sum[k] + 1) + RingSize
          BY <1>2, <3>2, <5>1, <5>2 DEF Laid, Behind
        <5>4. k - 0 <= sum[k] - sum[0] /\ sum[0] = 0 /\ sum[k] \in Nat /\ sum[L] \in Nat
          BY <1>2, <3>9, <5>2 DEF Laid, Sums
        <5>5. sum2[k] = sum[k] /\ taken'[k] = taken[k]
          BY <3>6, <3>8, <4>1, <5>2
        <5>6. sum[k] >= 1
          BY <4>1, <3>2, <5>4
        <5>7. p = m_AllocateIndex' - (sum2[L + num] - sum[k] + 1) \/ p = m_AllocateIndex' - (sum2[L + num] - sum[k] + 1) + RingSize
          <6>1. PICK total, mine, new2, next, next2 :
                  total = sum[L] /\ mine = sum[k] /\ new2 = sum2[L + num] /\ next = m_AllocateIndex /\ next2 = m_AllocateIndex'
            OBVIOUS
          <6>2. /\ total \in Nat /\ mine \in Nat /\ mine >= 1 /\ new2 = total + cost /\ next \in 0..RingSize
                /\ next2 = start + num /\ new2 <= RingSize /\ p \in 0..RingSize - 1 /\ cost \in Nat
                /\ p = next - (total - mine + 1) \/ p = next - (total - mine + 1) + RingSize
            BY <1>1, <2>3, <2>5, <2>6, <3>13, <5>3, <5>4, <5>6, <6>1
          <6>3. CASE next + num > RingSize /\ start = 0 /\ cost = num + (RingSize - next)
            <7>1. p = next - (total - mine + 1)
              BY <1>1, <2>5, <6>2, <6>3
            <7>2. p = next2 - (new2 - mine + 1) + RingSize
              BY <1>1, <2>5, <6>2, <6>3, <7>1
            <7> QED BY <6>1, <7>2
          <6>4. CASE start = next /\ cost = num
            <7>1. p = next2 - (new2 - mine + 1) \/ p = next2 - (new2 - mine + 1) + RingSize
              BY <1>1, <2>5, <6>2, <6>4
            <7> QED BY <6>1, <7>1
          <6> QED BY <2>2, <6>1, <6>3, <6>4
        <5> QED BY <5>1, <5>3, <5>5, <5>7
      <4>2. CASE \E i \in 1..num : k = L + i
        <5>1. PICK i \in 1..num : k = L + i
          BY <4>2
        <5>2. taken'[k].handle.m_HeapIndex = start + (i - 1)
          BY <3>4, <3>6, <5>1
        <5>3. sum2[k] = sum[L] + (cost - num) + i
          BY <3>8, <5>1
        <5>4. start + (i - 1) \in 0..RingSize - 1
          BY <3>1, <1>1
        <5>5. start + (i - 1) = m_AllocateIndex' - (sum2[L + num] - sum2[k] + 1)
          BY <1>1, <2>3, <2>5, <3>1, <3>13, <5>3
        <5> QED BY <5>2, <5>4, <5>5
      <4> QED BY <3>10, <4>1, <4>2
    <3>15. Laid(sum2)'
      BY <3>6, <3>11, <3>12, <3>13, <3>14 DEF Laid, Behind
    <3> QED BY <2>6, <3>6, <3>15 DEF RingInv
  <2>9. CASE num = 0
    <3>1. taken' = taken
      <4>1. CASE block.error # "Success"
        BY <2>4, <4>1
      <4>2. CASE block.error = "Success"
        <5>1. block.value.m_Size = num
          BY <4>2 DEF Subrange, Value, Unexpected
        <5>2. new = <<>>
          BY <5>1, <2>9 DEF Block
        <5> QED BY <1>1, <2>4, <4>2, <5>2
      <4> QED BY <4>1, <4>2
    <3> QED BY <2>7, <2>9, <3>1
  <2> QED BY <2>8, <2>9
<1> QED BY <1>3, <1>4

\* The oldest are given up, with or without the gaps before them.
LEMMA ReleaseKeeps ==
  ASSUME RingInv, NEW k \in 0..Len(taken), ReleaseOldest(k)
  PROVE  RingInv'
<1>1. /\ m_Size \in 0..RingSize /\ m_AllocateIndex \in 0..RingSize /\ taken \in Seq(Taken)
      /\ RingSize \in Nat
  BY Sizes DEF RingInv
<1>2. PICK L \in Nat : L = Len(taken)
  BY <1>1
<1>3. PICK sum : Laid(sum)
  BY DEF RingInv
<1>4. \A j \in 0..L : sum[j] \in Nat
  BY <1>2, <1>3 DEF Laid, Sums
<1>5. k \in 0..L /\ k \in Nat /\ L \in 0..L /\ 0 \in 0..k
  BY <1>2
<1>6. k <= sum[k] /\ k - 0 <= sum[k] - sum[0] /\ sum[0] = 0 /\ sum[k] \in Nat /\ sum[L] \in Nat
      /\ sum[k] <= sum[L] /\ sum[L] <= m_Size
  <2>1. k - 0 <= sum[k] - sum[0] /\ sum[0] = 0 /\ sum[L] <= m_Size /\ L - k <= sum[L] - sum[k]
    <3>1. k \in 0..L /\ L \in 0..L
      BY <1>5
    <3> QED BY <1>2, <1>3, <1>5, <3>1 DEF Laid, Sums
  <2> QED BY <1>4, <1>5, <2>1
<1>7. PICK num : num \in {k, sum[k]} /\ ReleaseNumber(num) /\ m_AllocateIndex' = m_AllocateIndex
  <2>1. Costs(k) = sum[k]
    BY <1>1, <1>3, CostsAreSums DEF Laid
  <2> QED BY <2>1 DEF ReleaseOldest
<1>8. m_Size' \in 0..RingSize /\ sum[L] - sum[k] <= m_Size'
  <2>1. num \in Nat /\ num <= sum[k]
    BY <1>6, <1>7, <1>5
  <2>2. m_Size' = m_Size \/ (m_Size' = m_Size - num /\ ~(num > m_Size))
    BY <1>7 DEF ReleaseNumber
  <2> QED BY <1>1, <1>6, <2>1, <2>2
<1>9. /\ taken' \in Seq(Taken) /\ Len(taken') = L - k
      /\ \A j \in 1..L - k : taken'[j] = taken[k + j]
  <2>1. taken' = SubSeq(taken, k + 1, Len(taken))
    BY DEF ReleaseOldest
  <2>2. k + 1 \in 1..Len(taken) + 1 /\ Len(taken) \in (k + 1) - 1..Len(taken) /\ (k + 1) - 1 = k
        /\ Len(taken) - (k + 1) + 1 = L - k
    BY <1>2, <1>5
  <2> QED BY <1>1, <2>1, <2>2, SubSeqElements
<1>10. PICK sum2 : sum2 = [j \in 0..L - k |-> sum[k + j] - sum[k]]
  OBVIOUS
<1>11. \A j \in 0..L - k : /\ j \in Nat /\ k + j \in 0..L /\ sum2[j] = sum[k + j] - sum[k] /\ sum2[j] \in Nat
  <2>1. ASSUME NEW j \in 0..L - k
        PROVE  j \in Nat /\ k + j \in 0..L /\ sum2[j] = sum[k + j] - sum[k] /\ sum2[j] \in Nat
    <3>1. j \in Nat /\ k + j \in 0..L /\ k \in 0..k + j /\ (k + j) - k = j
      BY <1>5
    <3>2. (k + j) - k <= sum[k + j] - sum[k]
      BY <1>2, <1>3, <3>1 DEF Laid
    <3>3. sum[k + j] \in Nat /\ sum[k] \in Nat /\ j <= sum[k + j] - sum[k]
      BY <1>4, <1>5, <3>1, <3>2
    <3>4. sum[k + j] - sum[k] \in Nat
      BY <3>1, <3>3
    <3> QED BY <1>10, <3>1, <3>4
  <2> QED BY <2>1
<1>12. Sums(sum2, taken')
  <2>1. sum2 \in [0..L - k -> Nat]
    BY <1>10, <1>11
  <2>2. sum2[0] = 0
    <3>1. 0 \in 0..L - k /\ k + 0 = k /\ sum[k] - sum[k] = 0
      BY <1>5, <1>6
    <3> QED BY <1>11, <3>1
  <2>3. ASSUME NEW j \in 1..L - k
        PROVE  taken'[j].cost \in Nat /\ sum2[j] = sum2[j - 1] + taken'[j].cost
    <3>1. j \in 0..L - k /\ j - 1 \in 0..L - k /\ k + j \in 1..L /\ k + (j - 1) = k + j - 1 /\ k + (j - 1) \in 0..L /\ k + j \in 0..L
      BY <1>5
    <3>2. taken[k + j].cost \in Nat /\ sum[k + j] = sum[k + j - 1] + taken[k + j].cost
      BY <1>2, <1>3, <3>1 DEF Laid, Sums
    <3>3. sum2[j] = sum[k + j] - sum[k] /\ sum2[j - 1] = sum[k + j - 1] - sum[k] /\ sum[k + j - 1] \in Nat
      BY <1>4, <1>11, <3>1
    <3>4. taken'[j].cost = taken[k + j].cost
      BY <1>9
    <3>5. PICK c \in Nat, x \in Nat, y \in Int, z \in Nat :
            c = taken[k + j].cost /\ x = sum[k + j - 1] /\ y = sum[k + j] /\ z = sum[k]
      BY <1>6, <3>2, <3>3
    <3>6. y = x + c
      BY <3>2, <3>5
    <3>7. y - z = (x - z) + c
      BY <3>6
    <3> QED BY <3>2, <3>3, <3>4, <3>5, <3>7
  <2> QED BY <1>9, <2>1, <2>2, <2>3 DEF Sums
<1>13. ASSUME NEW i \in 0..L - k, NEW j \in 0..i PROVE i - j <= sum2[i] - sum2[j]
  <2>1. j \in 0..L - k /\ k + j \in 0..k + i /\ k + i \in 0..L /\ (k + i) - (k + j) = i - j /\ k + j \in 0..L
    BY <1>5
  <2>2. (k + i) - (k + j) <= sum[k + i] - sum[k + j]
    BY <1>2, <1>3, <2>1 DEF Laid
  <2>3. sum2[i] = sum[k + i] - sum[k] /\ sum2[j] = sum[k + j] - sum[k] /\ sum[k + i] \in Nat /\ sum[k + j] \in Nat
    BY <1>4, <1>11, <2>1
  <2> QED BY <1>6, <2>1, <2>2, <2>3
<1>14. ASSUME NEW j \in 1..L - k
       PROVE  /\ taken'[j].handle.m_HeapIndex \in 0..RingSize - 1
              /\ \/ taken'[j].handle.m_HeapIndex = m_AllocateIndex' - (sum2[L - k] - sum2[j] + 1)
                 \/ taken'[j].handle.m_HeapIndex = m_AllocateIndex' - (sum2[L - k] - sum2[j] + 1) + RingSize
  <2>1. j \in 0..L - k /\ L - k \in 0..L - k /\ k + j \in 1..L /\ k + (L - k) = L /\ k + j \in 0..L
    BY <1>5
  <2>2. sum2[L - k] = sum[L] - sum[k] /\ sum2[j] = sum[k + j] - sum[k] /\ sum[k + j] \in Nat
    BY <1>4, <1>11, <2>1
  <2>3. sum2[L - k] - sum2[j] + 1 = sum[L] - sum[k + j] + 1
    BY <1>6, <2>2
  <2>4. taken'[j] = taken[k + j]
    BY <1>9
  <2>5. /\ taken[k + j].handle.m_HeapIndex \in 0..RingSize - 1
        /\ \/ taken[k + j].handle.m_HeapIndex = m_AllocateIndex - (sum[L] - sum[k + j] + 1)
           \/ taken[k + j].handle.m_HeapIndex = m_AllocateIndex - (sum[L] - sum[k + j] + 1) + RingSize
    BY <1>2, <1>3, <2>1 DEF Laid, Behind
  <2> QED BY <1>7, <2>3, <2>4, <2>5
<1>15. sum2[L - k] <= m_Size'
  <2>1. L - k \in 0..L - k /\ k + (L - k) = L
    BY <1>5
  <2> QED BY <1>8, <1>11, <2>1
<1>16. Laid(sum2)'
  BY <1>9, <1>12, <1>13, <1>14, <1>15 DEF Laid, Behind
<1> QED BY <1>1, <1>7, <1>8, <1>9, <1>16 DEF RingInv

LEMMA RingUnchanged ==
  ASSUME RingInv, m_Size' = m_Size, m_AllocateIndex' = m_AllocateIndex, taken' = taken
  PROVE  RingInv'
BY DEF RingInv, Laid, Sums, Behind

LEMMA TooManyKeeps ==
  ASSUME RingInv, ReleaseTooMany
  PROVE  RingInv'
<1>1. m_Size \in Nat
  BY Sizes DEF RingInv
<1>2. m_Size + 1 > m_Size
  BY <1>1
<1>3. m_Size' = m_Size /\ m_AllocateIndex' = m_AllocateIndex /\ taken' = taken
  BY <1>2 DEF ReleaseTooMany, ReleaseNumber
<1> QED BY <1>3, RingUnchanged

LEMMA RingStarts == AllocatorsInit => RingInv
<1> SUFFICES ASSUME AllocatorsInit PROVE RingInv
  OBVIOUS
<1>1. m_Size = 0 /\ m_AllocateIndex = 0 /\ taken = <<>>
  BY DEF AllocatorsInit
<1>2. PICK sum : sum = [k \in 0..0 |-> 0]
  OBVIOUS
<1>3. Sums(sum, taken)
  BY <1>1, <1>2 DEF Sums
<1>4. Laid(sum)
  BY <1>1, <1>2, <1>3 DEF Laid
<1> QED BY <1>1, <1>4, Sizes DEF RingInv

\* What is taken of the ring lies apart.
LEMMA RingApart ==
  ASSUME RingInv
  PROVE  /\ \A j, k \in DOMAIN taken : taken[j].handle = taken[k].handle => j = k
         /\ \A k \in DOMAIN taken : taken[k].handle.m_HeapIndex < RingSize
<1>1. PICK L \in Nat : L = Len(taken) /\ DOMAIN taken = 1..L
  BY DEF RingInv
<1>2. PICK sum : Laid(sum)
  BY DEF RingInv
<1>3. RingSize \in Nat /\ m_Size \in 0..RingSize /\ m_AllocateIndex \in 0..RingSize
  BY Sizes DEF RingInv
<1>4. ASSUME NEW j \in 1..L, NEW k \in 1..L, j < k,
             taken[j].handle.m_HeapIndex = taken[k].handle.m_HeapIndex
      PROVE  FALSE
  <2>1. j \in 0..L /\ k \in 0..L /\ L \in 0..L /\ j \in 0..k /\ k \in 0..L /\ 0 \in 0..j /\ k \in 0..Len(taken)
    BY <1>1, <1>4
  <2>2. /\ k - j <= sum[k] - sum[j] /\ j - 0 <= sum[j] - sum[0] /\ L - k <= sum[L] - sum[k]
        /\ sum[0] = 0 /\ sum[L] <= m_Size
        /\ sum[j] \in Nat /\ sum[k] \in Nat /\ sum[L] \in Nat
    <3>1. j \in 0..Len(taken) /\ L \in 0..Len(taken) /\ k \in 0..L
      BY <1>1, <2>1
    <3> QED BY <1>1, <1>2, <2>1, <3>1 DEF Laid, Sums
  <2>3. PICK p, q : p = taken[j].handle.m_HeapIndex /\ q = taken[k].handle.m_HeapIndex
    OBVIOUS
  <2>4. /\ p \in 0..RingSize - 1 /\ q \in 0..RingSize - 1
        /\ \/ p = m_AllocateIndex - (sum[L] - sum[j] + 1)
           \/ p = m_AllocateIndex - (sum[L] - sum[j] + 1) + RingSize
        /\ \/ q = m_AllocateIndex - (sum[L] - sum[k] + 1)
           \/ q = m_AllocateIndex - (sum[L] - sum[k] + 1) + RingSize
    BY <1>1, <1>2, <2>3 DEF Laid, Behind
  <2>5. p = q
    BY <1>4, <2>3
  <2> QED BY <1>3, <1>4, <2>2, <2>4, <2>5
<1>5. \A j, k \in 1..L : taken[j].handle = taken[k].handle => j = k
  <2>1. ASSUME NEW j \in 1..L, NEW k \in 1..L, taken[j].handle = taken[k].handle, j # k PROVE FALSE
    <3>1. j < k \/ k < j
      BY <2>1
    <3> QED BY <1>4, <2>1, <3>1
  <2> QED BY <2>1
<1>6. \A k \in 1..L : taken[k].handle.m_HeapIndex < RingSize
  BY <1>1, <1>2, <1>3 DEF Laid
<1> QED BY <1>1, <1>5, <1>6

-----------------------------------------------------------------------------
(* The free list. *)

Count == NumDescriptors - RingSize
Indices == 0..Count - 1

\* The handle of the i-th descriptor of the list.
Named(i) == At(ListRange, i).value

\* The list and the flags say the same, and the client has the others.
ListInv ==
  /\ m_FreeList \in Seq(Indices)
  /\ \A j, k \in 1..Len(m_FreeList) : m_FreeList[j] = m_FreeList[k] => j = k
  /\ m_FreeSet \in [Indices -> BOOLEAN]
  /\ \A i \in Indices : m_FreeSet[i] <=> \E k \in 1..Len(m_FreeList) : m_FreeList[k] = i
  /\ owned = {Named(i) : i \in {j \in Indices : ~m_FreeSet[j]}}
  /\ IsFiniteSet(owned)
  /\ Len(m_FreeList) + Cardinality(owned) = Count

LEMMA ListIs ==
  /\ Count \in Nat
  /\ ListRange.m_Size = Count
  /\ Count = 0 => ~IsValidRange(ListRange)
  /\ Count # 0 => /\ ListRange.m_Start \in Handle
                  /\ ListRange.m_Start.m_HeapIndex = RingSize
                  /\ ListRange.m_Start.m_CPUAddress = CPUStart + Increment * RingSize
                  /\ ListRange.m_Start.m_GPUAddress = GPUStart + Increment * RingSize
                  /\ ListRange.m_Increment = Increment
<1>1. CASE RingSize = NumDescriptors
  BY <1>1, Sizes DEF ListRange, NoRange, IsValidRange, Count
<1>2. CASE RingSize # NumDescriptors
  <2>1. Count \in Nat \ {0} /\ RingSize + Count <= NumDescriptors /\ RingSize \in Nat
    BY <1>2, Sizes DEF Count
  <2>2. PICK part : part = Subrange(GetHeapRange, RingSize, Count).value
    OBVIOUS
  <2>3. ListRange = part
    BY <1>2, <2>2 DEF ListRange, Count
  <2> QED BY <2>1, <2>2, <2>3, PartIs
<1> QED BY <1>1, <1>2

LEMMA NamedIs ==
  ASSUME NEW i \in Indices
  PROVE  /\ Named(i) \in Handle
         /\ Named(i).m_HeapIndex = RingSize + i
         /\ Named(i).m_CPUAddress = (CPUStart + Increment * RingSize) + Increment * i
         /\ Named(i).m_GPUAddress = (GPUStart + Increment * RingSize) + Increment * i
<1>1. Count \in Nat /\ Count # 0 /\ i \in 0..Count - 1 /\ i \in Nat
  BY ListIs DEF Indices
<1>2. PICK range : range = ListRange
  OBVIOUS
<1>3. range.m_Size = Count /\ i \in 0..range.m_Size - 1 /\ range.m_Size \in Nat
  BY <1>1, <1>2, ListIs
<1>4. range.m_Start.m_HeapIndex = RingSize
  BY <1>1, <1>2, ListIs
<1>5. RingSize + i < Width
  BY <1>1, Sizes DEF Count
<1>6. range.m_Start \in Handle /\ range.m_Increment = Increment
  BY <1>1, <1>2, ListIs
<1>7. /\ At(range, i).value \in Handle
      /\ At(range, i).value.m_HeapIndex = range.m_Start.m_HeapIndex + i
      /\ At(range, i).value.m_CPUAddress = range.m_Start.m_CPUAddress + Increment * i
      /\ At(range, i).value.m_GPUAddress = range.m_Start.m_GPUAddress + Increment * i
  BY <1>3, <1>4, <1>5, <1>6, AtIs
<1>8. /\ range.m_Start.m_CPUAddress = CPUStart + Increment * RingSize
      /\ range.m_Start.m_GPUAddress = GPUStart + Increment * RingSize
  BY <1>1, <1>2, ListIs
<1> QED BY <1>2, <1>4, <1>7, <1>8 DEF Named

\* Two descriptors have two handles.
LEMMA NamedApart ==
  ASSUME NEW i \in Indices, NEW j \in Indices, Named(i) = Named(j)
  PROVE  i = j
<1>1. RingSize + i = RingSize + j
  BY NamedIs
<1> QED BY <1>1, Sizes DEF Indices

LEMMA Division ==
  ASSUME NEW m \in Nat, NEW c \in Nat \ {0}
  PROVE  (c * m) \div c = m /\ (c * m) % c = 0
OBVIOUS

LEMMA Distributes ==
  ASSUME NEW c \in Nat, NEW a \in Nat, NEW b \in Nat
  PROVE  c * (a + b) = c * a + c * b
OBVIOUS

LEMMA Grows ==
  ASSUME NEW c \in Nat \ {0}, NEW a \in Nat, NEW b \in Nat, c * a <= c * b
  PROVE  a <= b
<1> SUFFICES ASSUME b < a PROVE FALSE
  OBVIOUS
<1>1. PICK d \in Nat \ {0} : a = b + d
  <2>1. a - b \in Nat \ {0} /\ a = b + (a - b)
    OBVIOUS
  <2> QED BY <2>1
<1>2. c * a = c * b + c * d
  BY <1>1, Distributes
<1>3. c * d \in Nat /\ c * d # 0 /\ c * b \in Nat
  BY <1>1
<1> QED BY <1>2, <1>3

\* The address of a descriptor of the heap.
LEMMA CreatedIs ==
  ASSUME NEW i \in 0..NumDescriptors - 1, NEW h, h = CreateDescriptorHandle(i).value
  PROVE  /\ h \in Handle
         /\ h.m_HeapIndex = i
         /\ h.m_CPUAddress = CPUStart + Increment * i
         /\ h.m_GPUAddress = GPUStart + Increment * i
<1>1. Plus(i, 1) = i + 1 /\ i + 1 <= NumDescriptors /\ i \in Nat
  BY Sizes, PlusIsSum
<1>2. i * Increment = Increment * i /\ Increment * i \in Nat
  BY <1>1, Sizes
<1>3. PICK start : start = DescriptorHandle(CPUStart + i * Increment, GPUStart + i * Increment, i)
  OBVIOUS
<1>4. PICK range : range = [m_Start |-> start, m_Size |-> 1, m_Increment |-> Increment]
  OBVIOUS
<1>5. CreateDescriptorRange(i, 1) = Value(range)
  <2>1. ~(Plus(i, 1) > NumDescriptors)
    BY <1>1, Sizes
  <2> QED BY <1>3, <1>4, <2>1 DEF CreateDescriptorRange
<1>6. start \in Handle /\ start.m_HeapIndex = i /\ start.m_CPUAddress = CPUStart + Increment * i
      /\ start.m_GPUAddress = GPUStart + Increment * i
  BY <1>1, <1>2, <1>3, Sizes DEF DescriptorHandle, Handle
<1>7. /\ range.m_Start = start /\ range.m_Size = 1 /\ range.m_Increment = Increment
      /\ range.m_Size \in Nat /\ 0 \in 0..range.m_Size - 1
  BY <1>4
<1>8. range.m_Start.m_HeapIndex + 0 < Width
  BY <1>1, <1>6, <1>7, Sizes
<1>9. PICK r : r = At(range, 0)
  OBVIOUS
<1>10. h = r.value
  BY <1>5, <1>9 DEF CreateDescriptorHandle, Value
<1>11. /\ r.value \in Handle
       /\ r.value.m_HeapIndex = start.m_HeapIndex + 0
       /\ r.value.m_CPUAddress = start.m_CPUAddress + Increment * 0
       /\ r.value.m_GPUAddress = start.m_GPUAddress + Increment * 0
  BY <1>6, <1>7, <1>8, <1>9, AtIs
<1>12. PICK c \in Nat, g \in Nat : c = start.m_CPUAddress /\ g = start.m_GPUAddress
  BY <1>6 DEF Handle
<1>13. Increment * 0 = 0 /\ c + 0 = c /\ g + 0 = g /\ i + 0 = i
  BY <1>1, <1>12, Sizes
<1> QED BY <1>6, <1>10, <1>11, <1>12, <1>13

\* The handles of one descriptor are one.
LEMMA FieldsMake ==
  ASSUME NEW g \in Handle, NEW h \in Handle, g.m_HeapIndex = h.m_HeapIndex,
         g.m_CPUAddress = h.m_CPUAddress, g.m_GPUAddress = h.m_GPUAddress
  PROVE  g = h
BY DEF Handle

\* GetIndex accepts the handles of the list and no others a client may present.
LEMMA GetIndexIs ==
  ASSUME NEW h \in Handles, NEW index, index = GetIndex(ListRange, h), index.error = "Success"
  PROVE  index.value \in Indices /\ h = Named(index.value)
<1> DEFINE first == CPUStart + Increment * RingSize
           diff == h.m_CPUAddress - first
<1>1. /\ Count # 0 /\ Count \in Nat
      /\ ~(first > h.m_CPUAddress)
      /\ ~(diff \div Increment >= Count) /\ diff % Increment = 0
      /\ index.value = diff \div Increment
  <2>1. IsValidRange(ListRange)
    BY DEF GetIndex, Unexpected
  <2>2. /\ Count # 0 /\ Count \in Nat /\ ListRange.m_Start.m_CPUAddress = first
        /\ ListRange.m_Increment = Increment /\ ListRange.m_Size = Count
    BY <2>1, ListIs
  <2> HIDE DEF first
  <2> QED BY <2>1, <2>2 DEF GetIndex, Unexpected, Value
<1>2. Increment * RingSize \in Nat /\ first \in Nat /\ Increment \in Nat \ {0}
  BY Sizes, Product
<1>3. CASE \E i \in 0..NumDescriptors - 1 : h = CreateDescriptorHandle(i).value
  <2>1. PICK i \in 0..NumDescriptors - 1 : h = CreateDescriptorHandle(i).value
    BY <1>3
  <2>2. /\ h \in Handle /\ h.m_HeapIndex = i /\ h.m_CPUAddress = CPUStart + Increment * i
        /\ h.m_GPUAddress = GPUStart + Increment * i
    BY <2>1, CreatedIs
  <2>3. Increment * i \in Nat /\ i \in Nat
    BY Sizes, Product
  <2>4. Increment * RingSize <= Increment * i
    <3>1. PICK x \in Nat, y \in Nat : x = Increment * RingSize /\ y = Increment * i
      BY <1>2, <2>3
    <3>2. first = CPUStart + x /\ h.m_CPUAddress = CPUStart + y /\ ~(first > h.m_CPUAddress)
      BY <1>1, <2>2, <3>1
    <3>3. x <= y
      BY <3>2, Sizes
    <3> QED BY <3>1, <3>3
  <2>5. RingSize <= i
    BY <2>3, <2>4, <1>2, Sizes, Grows
  <2>6. PICK m \in Nat : i = RingSize + m
    <3>1. i - RingSize \in Nat /\ i = RingSize + (i - RingSize)
      BY <2>3, <2>5, Sizes
    <3> QED BY <3>1
  <2>7. Increment * i = Increment * RingSize + Increment * m /\ Increment * m \in Nat
        /\ GPUStart \in Nat /\ CPUStart \in Nat
    BY <2>6, Sizes, Distributes, Product
  <2>8. diff = Increment * m
    BY <1>2, <2>2, <2>7, Sizes
  <2>9. index.value = m
    BY <1>1, <1>2, <2>6, <2>8, Division
  <2>10. m \in Indices
    BY <1>1, <2>6, <2>9 DEF Indices
  <2>11. /\ Named(m) \in Handle /\ Named(m).m_HeapIndex = i
         /\ Named(m).m_CPUAddress = CPUStart + Increment * i
         /\ Named(m).m_GPUAddress = GPUStart + Increment * i
    <3>0. PICK x \in Nat, y \in Nat : x = Increment * RingSize /\ y = Increment * m
      BY <1>2, <2>7
    <3>1. (CPUStart + x) + y = CPUStart + (x + y) /\ (GPUStart + x) + y = GPUStart + (x + y)
      BY <2>7
    <3>2. /\ (CPUStart + Increment * RingSize) + Increment * m = CPUStart + Increment * i
          /\ (GPUStart + Increment * RingSize) + Increment * m = GPUStart + Increment * i
      BY <2>7, <3>0, <3>1, Zenon
    <3> QED BY <2>6, <2>10, <3>1, <3>2, NamedIs
  <2>12. h = Named(m)
    BY <2>2, <2>11, FieldsMake
  <2> QED BY <2>9, <2>10, <2>12
<1>4. CASE h = DescriptorHandle(CPUStart + 1, 0, 0)
  <2>1. h.m_CPUAddress = CPUStart + 1
    BY <1>4 DEF DescriptorHandle
  <2>2. CASE RingSize = 0
    <3>1. diff = 1
      BY <2>1, <2>2, Sizes
    <3>2. 1 % Increment = 1
      BY Sizes
    <3> QED BY <1>1, <3>1, <3>2
  <2>3. CASE RingSize # 0
    <3>1. Increment * 1 <= Increment * RingSize
      <4>1. PICK d \in Nat : RingSize = 1 + d
        <5>1. RingSize - 1 \in Nat /\ RingSize = 1 + (RingSize - 1)
          BY <2>3, Sizes
        <5> QED BY <5>1
      <4>2. Increment * RingSize = Increment * 1 + Increment * d /\ Increment * d \in Nat /\ Increment * 1 \in Nat
        BY <4>1, Sizes, Distributes, Product
      <4> QED BY <4>2
    <3>2. PICK x \in Nat : x = Increment * RingSize
      BY <1>2
    <3>3. x > 1
      BY <3>1, <3>2, Sizes
    <3>4. first > h.m_CPUAddress
      BY <2>1, <3>2, <3>3, Sizes
    <3> QED BY <1>1, <3>4
  <2> QED BY <2>2, <2>3
<1>5. CASE h = DescriptorHandle(CPUStart + NumDescriptors * Increment, 0, 0)
  <2>1. h.m_CPUAddress = CPUStart + NumDescriptors * Increment
    BY <1>5 DEF DescriptorHandle
  <2>2. NumDescriptors = RingSize + Count
    BY Sizes DEF Count
  <2>3. /\ NumDescriptors * Increment = Increment * NumDescriptors
        /\ Increment * NumDescriptors = Increment * RingSize + Increment * Count /\ Increment * Count \in Nat
    BY <1>1, <2>2, Sizes, Distributes, Product
  <2>4. diff = Increment * Count
    BY <1>2, <2>1, <2>3, Sizes
  <2>5. diff \div Increment = Count
    BY <1>1, <1>2, <2>4, Division
  <2>6. Count >= Count
    BY <1>1
  <2> QED BY <1>1, <2>5, <2>6
<1> QED BY <1>3, <1>4, <1>5 DEF Handles

LEMMA ListStarts == AllocatorsInit => ListInv
<1> SUFFICES ASSUME AllocatorsInit PROVE ListInv
  OBVIOUS
<1>1. Count \in Nat /\ ListRange.m_Size = Count
  BY ListIs
<1>2. m_FreeList = [k \in 1..Count |-> k - 1] /\ m_FreeSet = [i \in Indices |-> TRUE] /\ owned = {}
  BY <1>1 DEF AllocatorsInit, Indices
<1>3. \A k \in 1..Count : k - 1 \in Indices
  BY <1>1 DEF Indices
<1>4. m_FreeList \in [1..Count -> Indices]
  BY <1>2, <1>3
<1>5. m_FreeList \in Seq(Indices) /\ Len(m_FreeList) = Count
  BY <1>1, <1>4, FunctionIsSeq
<1>6. \A i \in Indices : \E k \in 1..Len(m_FreeList) : m_FreeList[k] = i
  <2>1. ASSUME NEW i \in Indices PROVE \E k \in 1..Count : m_FreeList[k] = i
    <3>1. i + 1 \in 1..Count /\ (i + 1) - 1 = i
      BY <1>1 DEF Indices
    <3> QED BY <1>2, <3>1
  <2> QED BY <1>5, <2>1
<1>7. owned = {Named(i) : i \in {j \in Indices : ~m_FreeSet[j]}}
  BY <1>2
<1>8. IsFiniteSet(owned) /\ Cardinality(owned) = 0
  BY <1>2, FS_EmptySet
<1>9. Len(m_FreeList) + Cardinality(owned) = Count
  BY <1>1, <1>5, <1>8
<1>10. \A j, k \in 1..Len(m_FreeList) : m_FreeList[j] = m_FreeList[k] => j = k
  BY <1>1, <1>2, <1>5
<1>11. m_FreeSet \in [Indices -> BOOLEAN]
  BY <1>2
<1> QED BY <1>2, <1>5, <1>6, <1>7, <1>8, <1>9, <1>10, <1>11 DEF ListInv

LEMMA ListUnchanged ==
  ASSUME ListInv, UNCHANGED listVars
  PROVE  ListInv'
BY DEF ListInv, listVars

\* The client has what is not in the list.
LEMMA OwnedAre ==
  ASSUME ListInv
  PROVE  \A i \in Indices : Named(i) \in owned <=> ~m_FreeSet[i]
<1> SUFFICES ASSUME NEW i \in Indices PROVE Named(i) \in owned <=> ~m_FreeSet[i]
  OBVIOUS
<1>1. owned = {Named(k) : k \in {j \in Indices : ~m_FreeSet[j]}}
  BY DEF ListInv
<1>2. ASSUME Named(i) \in owned PROVE ~m_FreeSet[i]
  <2>1. PICK k \in Indices : ~m_FreeSet[k] /\ Named(i) = Named(k)
    BY <1>1, <1>2
  <2>2. i = k
    BY <2>1, NamedApart
  <2> QED BY <2>1, <2>2
<1> QED BY <1>1, <1>2

LEMMA AllocateKeepsList ==
  ASSUME ListInv, AllocateDescriptor
  PROVE  ListInv'
<1>1. CASE m_FreeList = <<>>
  BY <1>1, ListUnchanged DEF AllocateDescriptor
<1>2. CASE m_FreeList # <<>>
  <2>1. PICK n : n = Len(m_FreeList)
    OBVIOUS
  <2>2. n \in Nat \ {0} /\ m_FreeList \in Seq(Indices) /\ Count \in Nat
    BY <1>2, <2>1, ListIs DEF ListInv
  <2>3. PICK h \in Indices : h = Head(m_FreeList) /\ h = m_FreeList[1]
    BY <1>2, <2>1, <2>2
  <2>4. /\ m_FreeList' = Tail(m_FreeList)
        /\ m_FreeSet' = [m_FreeSet EXCEPT ![h] = FALSE]
        /\ owned' = owned \cup {Named(h)}
    BY <1>2, <2>3 DEF AllocateDescriptor, Named
  <2>5. /\ m_FreeList' \in Seq(Indices) /\ Len(m_FreeList') = n - 1
        /\ \A k \in 1..n - 1 : m_FreeList'[k] = m_FreeList[k + 1]
    BY <1>2, <2>1, <2>2, <2>4, TailElements
  <2>6. \A j, k \in 1..n : m_FreeList[j] = m_FreeList[k] => j = k
    BY <2>1 DEF ListInv
  <2>7. \A j, k \in 1..n - 1 : m_FreeList'[j] = m_FreeList'[k] => j = k
    <3>1. ASSUME NEW j \in 1..n - 1, NEW k \in 1..n - 1, m_FreeList'[j] = m_FreeList'[k] PROVE j = k
      <4>1. j + 1 \in 1..n /\ k + 1 \in 1..n
        BY <2>2
      <4>2. j + 1 = k + 1
        BY <2>5, <2>6, <3>1, <4>1
      <4> QED BY <4>2
    <3> QED BY <3>1
  <2>8. m_FreeSet \in [Indices -> BOOLEAN] /\ m_FreeSet' \in [Indices -> BOOLEAN]
    BY <2>4 DEF ListInv
  <2>9. m_FreeSet[h]
    <3>1. 1 \in 1..n
      BY <2>2
    <3> QED BY <2>1, <2>3, <3>1 DEF ListInv
  <2>10. \A i \in Indices : m_FreeSet'[i] <=> m_FreeSet[i] /\ i # h
    BY <2>4, <2>8
  <2>11. \A i \in Indices : m_FreeSet'[i] <=> \E k \in 1..n - 1 : m_FreeList'[k] = i
    <3>1. ASSUME NEW i \in Indices, m_FreeSet[i], i # h PROVE \E k \in 1..n - 1 : m_FreeList'[k] = i
      <4>1. PICK k \in 1..n : m_FreeList[k] = i
        BY <2>1, <3>1 DEF ListInv
      <4>2. k # 1
        BY <2>3, <3>1, <4>1
      <4>3. k - 1 \in 1..n - 1 /\ (k - 1) + 1 = k
        BY <2>2, <4>2
      <4>4. m_FreeList'[k - 1] = i
        BY <2>5, <4>1, <4>3
      <4> QED BY <4>3, <4>4
    <3>2. ASSUME NEW i \in Indices, NEW k \in 1..n - 1, m_FreeList'[k] = i PROVE m_FreeSet[i] /\ i # h
      <4>1. k + 1 \in 1..n /\ 1 \in 1..n /\ k + 1 # 1
        BY <2>2
      <4>2. m_FreeList[k + 1] = i
        BY <2>5, <3>2
      <4>3. m_FreeSet[i]
        BY <2>1, <4>1, <4>2 DEF ListInv
      <4>4. i # h
        BY <2>3, <2>6, <4>1, <4>2
      <4> QED BY <4>3, <4>4
    <3> QED BY <2>10, <3>1, <3>2
  <2>12. owned' = {Named(i) : i \in {j \in Indices : ~m_FreeSet'[j]}}
    <3>1. owned = {Named(i) : i \in {j \in Indices : ~m_FreeSet[j]}}
      BY DEF ListInv
    <3>2. {j \in Indices : ~m_FreeSet'[j]} = {j \in Indices : ~m_FreeSet[j]} \cup {h}
      BY <2>10, Zenon
    <3> QED BY <2>4, <3>1, <3>2, Zenon
  <2>13. Named(h) \notin owned /\ IsFiniteSet(owned)
    BY <2>9, OwnedAre DEF ListInv
  <2>14. IsFiniteSet(owned') /\ Cardinality(owned') = Cardinality(owned) + 1 /\ Cardinality(owned) \in Nat
    BY <2>4, <2>13, FS_AddElement, FS_CardinalityType
  <2>15. n + Cardinality(owned) = Count
    BY <2>1 DEF ListInv
  <2>16. Len(m_FreeList') + Cardinality(owned') = Count
    BY <2>2, <2>5, <2>14, <2>15
  <2> QED BY <2>5, <2>7, <2>8, <2>11, <2>12, <2>14, <2>16 DEF ListInv
<1> QED BY <1>1, <1>2

LEMMA ReleaseKeepsList ==
  ASSUME ListInv, NEW handle \in Handles, ReleaseDescriptor(handle)
  PROVE  ListInv'
<1>1. PICK index : index = GetIndex(ListRange, handle)
  OBVIOUS
<1>2. CASE index.error # "Success" \/ m_FreeSet[index.value]
  BY <1>1, <1>2, ListUnchanged DEF ReleaseDescriptor
<1>3. CASE index.error = "Success" /\ ~m_FreeSet[index.value]
  <2>1. PICK h \in Indices : h = index.value /\ handle = Named(h)
    BY <1>1, <1>3, GetIndexIs
  <2>2. /\ m_FreeList' = Append(m_FreeList, h)
        /\ m_FreeSet' = [m_FreeSet EXCEPT ![h] = TRUE]
        /\ owned' = owned \ {Named(h)}
    BY <1>1, <1>3, <2>1 DEF ReleaseDescriptor
  <2>3. PICK n \in Nat : n = Len(m_FreeList)
    BY DEF ListInv
  <2>4. m_FreeList \in Seq(Indices) /\ Count \in Nat
    BY ListIs DEF ListInv
  <2>5. /\ m_FreeList' \in Seq(Indices) /\ Len(m_FreeList') = n + 1
        /\ \A k \in 1..n : m_FreeList'[k] = m_FreeList[k]
        /\ m_FreeList'[n + 1] = h
    BY <2>2, <2>3, <2>4, AppendElements
  <2>6. ~m_FreeSet[h]
    BY <1>3, <2>1
  <2>7. \A k \in 1..n : m_FreeList[k] # h
    BY <2>3, <2>6 DEF ListInv
  <2>8. \A k \in 1..n + 1 : k \in 1..n \/ k = n + 1
    OBVIOUS
  <2>9. \A j, k \in 1..n + 1 : m_FreeList'[j] = m_FreeList'[k] => j = k
    <3>1. \A j, k \in 1..n : m_FreeList[j] = m_FreeList[k] => j = k
      BY <2>3 DEF ListInv
    <3> QED BY <2>5, <2>7, <2>8, <3>1
  <2>10. m_FreeSet \in [Indices -> BOOLEAN] /\ m_FreeSet' \in [Indices -> BOOLEAN]
    BY <2>2 DEF ListInv
  <2>11. \A i \in Indices : m_FreeSet'[i] <=> m_FreeSet[i] \/ i = h
    BY <2>2, <2>10
  <2>12. \A i \in Indices : m_FreeSet'[i] <=> \E k \in 1..n + 1 : m_FreeList'[k] = i
    <3>1. \A i \in Indices : m_FreeSet[i] <=> \E k \in 1..n : m_FreeList[k] = i
      BY <2>3 DEF ListInv
    <3>2. n + 1 \in 1..n + 1 /\ 1..n \subseteq 1..n + 1
      OBVIOUS
    <3> QED BY <2>5, <2>8, <2>11, <3>1, <3>2
  <2>13. owned' = {Named(i) : i \in {j \in Indices : ~m_FreeSet'[j]}}
    <3>1. owned = {Named(i) : i \in {j \in Indices : ~m_FreeSet[j]}}
      BY DEF ListInv
    <3>2. {j \in Indices : ~m_FreeSet'[j]} = {j \in Indices : ~m_FreeSet[j]} \ {h}
      BY <2>11, Zenon
    <3>3. \A i \in Indices : Named(i) = Named(h) => i = h
      BY NamedApart
    <3>4. ASSUME NEW x
          PROVE  x \in owned' <=> x \in {Named(i) : i \in {j \in Indices : ~m_FreeSet[j]} \ {h}}
      <4>1. ASSUME NEW i \in Indices, ~m_FreeSet[i], x = Named(i), x # Named(h)
            PROVE  x \in {Named(k) : k \in {j \in Indices : ~m_FreeSet[j]} \ {h}}
        BY <4>1
      <4>2. ASSUME NEW i \in {j \in Indices : ~m_FreeSet[j]} \ {h}, x = Named(i)
            PROVE  x \in owned'
        BY <2>2, <3>1, <3>3, <4>2
      <4> QED BY <2>2, <3>1, <4>1, <4>2
    <3>5. owned' = {Named(i) : i \in {j \in Indices : ~m_FreeSet[j]} \ {h}}
      BY <3>4
    <3> QED BY <3>2, <3>5, Zenon
  <2>14. Named(h) \in owned /\ IsFiniteSet(owned)
    BY <2>6, OwnedAre DEF ListInv
  <2>15. IsFiniteSet(owned') /\ Cardinality(owned') = Cardinality(owned) - 1 /\ Cardinality(owned) \in Nat
    BY <2>2, <2>14, FS_RemoveElement, FS_CardinalityType
  <2>16. n + Cardinality(owned) = Count
    BY <2>3 DEF ListInv
  <2>17. Len(m_FreeList') + Cardinality(owned') = Count
    BY <2>4, <2>5, <2>15, <2>16
  <2> QED BY <2>5, <2>9, <2>10, <2>12, <2>13, <2>15, <2>17 DEF ListInv
<1> QED BY <1>2, <1>3

LEMMA ListApart ==
  ASSUME ListInv
  PROVE  /\ \A h \in owned : h.m_HeapIndex \in RingSize..NumDescriptors - 1
         /\ \A h \in owned : \A k \in DOMAIN m_FreeList : At(ListRange, m_FreeList[k]).value # h
         /\ Len(m_FreeList) + Cardinality(owned) = ListRange.m_Size
<1>1. ASSUME NEW h \in owned PROVE \E i \in Indices : h = Named(i) /\ ~m_FreeSet[i]
  BY DEF ListInv
<1>2. ASSUME NEW i \in Indices PROVE RingSize + i \in RingSize..NumDescriptors - 1
  BY Sizes DEF Indices, Count
<1>3. \A h \in owned : h.m_HeapIndex \in RingSize..NumDescriptors - 1
  <2>1. ASSUME NEW h \in owned PROVE h.m_HeapIndex \in RingSize..NumDescriptors - 1
    <3>1. PICK i \in Indices : h = Named(i)
      BY <1>1
    <3> QED BY <1>2, <3>1, NamedIs
  <2> QED BY <2>1
<1>4. ASSUME NEW h \in owned, NEW k \in DOMAIN m_FreeList PROVE At(ListRange, m_FreeList[k]).value # h
  <2>1. k \in 1..Len(m_FreeList) /\ m_FreeList[k] \in Indices
    BY DEF ListInv
  <2>2. m_FreeSet[m_FreeList[k]]
    BY <2>1 DEF ListInv
  <2>3. Named(m_FreeList[k]) \notin owned
    BY <2>1, <2>2, OwnedAre
  <2> QED BY <2>3 DEF Named
<1>5. Len(m_FreeList) + Cardinality(owned) = ListRange.m_Size
  BY ListIs DEF ListInv
<1> QED BY <1>3, <1>4, <1>5

LEMMA AllocatorsStep == RingInv /\ ListInv /\ [AllocatorsNext]_allocatorVars => RingInv' /\ ListInv'
<1> SUFFICES ASSUME RingInv, ListInv, [AllocatorsNext]_allocatorVars PROVE RingInv' /\ ListInv'
  OBVIOUS
<1>1. UNCHANGED ringVars => RingInv'
  BY RingUnchanged DEF ringVars
<1>2. CASE \E num \in 0..RingSize + 1 : AllocateBlock(num) /\ UNCHANGED listVars
  BY <1>2, AllocateKeeps, ListUnchanged
<1>3. CASE \E k \in 0..Len(taken) : ReleaseOldest(k) /\ UNCHANGED listVars
  BY <1>3, ReleaseKeeps, ListUnchanged
<1>4. CASE ReleaseTooMany /\ UNCHANGED listVars
  BY <1>4, TooManyKeeps, ListUnchanged
<1>5. CASE AllocateDescriptor /\ UNCHANGED ringVars
  BY <1>1, <1>5, AllocateKeepsList
<1>6. CASE \E handle \in Handles : ReleaseDescriptor(handle) /\ UNCHANGED ringVars
  BY <1>1, <1>6, ReleaseKeepsList
<1>7. CASE UNCHANGED allocatorVars
  BY <1>1, <1>7, ListUnchanged DEF allocatorVars, ringVars, listVars
<1> QED BY <1>2, <1>3, <1>4, <1>5, <1>6, <1>7 DEF AllocatorsNext

\* No descriptor of the heap ever has two owners, whatever the sizes of the heap and of
\* the ring's part, whatever blocks the ring's client takes and whichever gaps it pays
\* back, and whatever handles the free list is offered.
THEOREM AlwaysApart == AllocatorsSpec => []DescriptorsApart
<1>1. AllocatorsInit => RingInv /\ ListInv
  BY RingStarts, ListStarts
<1>2. RingInv /\ ListInv => DescriptorsApart
  BY RingApart, ListApart DEF DescriptorsApart
<1> QED BY <1>1, <1>2, AllocatorsStep, PTL DEF AllocatorsSpec

=============================================================================
