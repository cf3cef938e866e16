--------------------------- MODULE DescriptorProofs ---------------------------
(* Proofs about BindlessFreeListAllocator and DescriptorManager, for any number   *)
(* of indices and views: queue and flags agree, the ring buffer under the queue   *)
(* never grows by itself, the allocator is a pool of indices, alone and as the    *)
(* manager uses it, and owners and shaders find their views. And about             *)
(* BufferViews: heaps outlive the work that uses them.                            *)
EXTENDS DescriptorManager, BufferViews, CommonFacts, FiniteSetTheorems

\* The inductive invariant: that the ring buffer has room needs the agreement of queue
\* and flags, by counting.
IInv == AllocatorTypeOK /\ QueueMatchesFlags /\ RoomForAll

\* No two places of s hold the same.
Distinct(s) == \A j, k \in DOMAIN s : s[j] = s[k] => j = k

-----------------------------------------------------------------------------
(* Counting. *)

\* Distinct members of a finite set are no more than the set has.
LEMMA DistinctFit ==
  ASSUME NEW S, IsFiniteSet(S), NEW s \in Seq(S), Distinct(s)
  PROVE  Len(s) <= Cardinality(S)
<1> DEFINE D == 1..Len(s)
<1>1. Len(s) \in Nat /\ s \in [D -> S] /\ DOMAIN s = D
  OBVIOUS
<1>2. IsFiniteSet(D) /\ Cardinality(D) = Len(s)
  <2>1. PICK n : n = Len(s)
    OBVIOUS
  <2>2. n \in Nat
    BY <1>1, <2>1
  <2>3. IsFiniteSet(1..n) /\ Cardinality(1..n) = IF 1 > n THEN 0 ELSE n - 1 + 1
    BY <2>2, FS_Interval
  <2>4. IsFiniteSet(1..n) /\ Cardinality(1..n) = n
    BY <2>2, <2>3
  <2> QED BY <2>1, <2>4
<1>3. Cardinality(S) \in Nat
  BY FS_CardinalityType
<1>4. CASE Cardinality(D) > Cardinality(S)
  <2>1. \E j, k \in D : j # k /\ s[j] = s[k]
    BY <1>1, <1>2, <1>4, FS_PigeonHole
  <2> QED BY <1>1, <2>1 DEF Distinct
<1> QED BY <1>1, <1>2, <1>3, <1>4

\* The indices below n are n.
LEMMA IndexCount ==
  ASSUME NEW n \in Nat
  PROVE  IsFiniteSet(0..n - 1) /\ Cardinality(0..n - 1) = n
<1>1. IsFiniteSet(0..n - 1)
  BY FS_Interval
<1>2. n >= 1 => Cardinality(0..n - 1) = n
  BY FS_Interval
<1>3. n = 0 => 0..n - 1 = {}
  OBVIOUS
<1> QED BY <1>1, <1>2, <1>3, FS_EmptySet

\* A queue of distinct indices that lacks one is shorter than their number.
LEMMA MissingLeavesRoom ==
  ASSUME NEW n \in Nat, NEW s \in Seq(0..n - 1), Distinct(s),
         NEW i \in 0..n - 1, \A k \in DOMAIN s : s[k] # i
  PROVE  Len(s) + 1 <= n
<1> DEFINE S == (0..n - 1) \ {i}
<1>1. IsFiniteSet(S) /\ Cardinality(S) = n - 1
  BY IndexCount, FS_RemoveElement
<1>2. s \in Seq(S)
  <2>1. Len(s) \in Nat /\ DOMAIN s = 1..Len(s)
    OBVIOUS
  <2>2. \A k \in 1..Len(s) : s[k] \in S
    BY <2>1
  <2>3. s \in [1..Len(s) -> S]
    BY <2>1, <2>2
  <2> QED BY <2>1, <2>3
<1> QED BY <1>1, <1>2, DistinctFit

-----------------------------------------------------------------------------
(* The queue and the flags, under each operation. *)

\* Queue q and flags f agree on the indices below n.
Agree(q, f, n) ==
  /\ q \in Seq(0..n - 1) /\ f \in [0..n - 1 -> BOOLEAN]
  /\ Distinct(q)
  /\ \A i \in 0..n - 1 : f[i] <=> \E k \in DOMAIN q : q[k] = i

LEMMA IInvAgrees == IInv => Agree(m_FreeList, m_FreeSet, m_NumDescriptors)
BY DEF IInv, AllocatorTypeOK, QueueMatchesFlags, Agree, Distinct

\* Taking the first of the queue.
LEMMA TakenAgrees ==
  ASSUME NEW n \in Nat, NEW q, NEW f, Agree(q, f, n), q # <<>>
  PROVE  /\ Head(q) \in 0..n - 1 /\ f[Head(q)] = TRUE
         /\ Agree(Tail(q), [f EXCEPT ![Head(q)] = FALSE], n)
<1>1. /\ q \in Seq(0..n - 1) /\ DOMAIN q = 1..Len(q) /\ Len(q) \in Nat
      /\ f \in [0..n - 1 -> BOOLEAN]
  BY DEF Agree
<1>2. /\ Tail(q) \in Seq(0..n - 1) /\ Len(q) >= 1 /\ DOMAIN Tail(q) = 1..Len(q) - 1
      /\ \A k \in 1..Len(q) - 1 : Tail(q)[k] = q[k + 1]
  BY <1>1, TailElements
<1>3. Head(q) = q[1] /\ 1 \in DOMAIN q /\ q[1] \in 0..n - 1
  BY <1>1, <1>2
<1>4. f[q[1]] = TRUE
  BY <1>1, <1>3 DEF Agree
<1>5. Distinct(Tail(q))
  <2> SUFFICES ASSUME NEW j \in 1..Len(q) - 1, NEW k \in 1..Len(q) - 1, q[j + 1] = q[k + 1]
               PROVE  j = k
    BY <1>2 DEF Distinct
  <2>1. j + 1 \in DOMAIN q /\ k + 1 \in DOMAIN q
    BY <1>1
  <2>2. j + 1 = k + 1
    BY <2>1 DEF Agree, Distinct
  <2> QED BY <2>2, <1>1
<1>6. ASSUME NEW i \in 0..n - 1
      PROVE  [f EXCEPT ![q[1]] = FALSE][i] <=> \E k \in DOMAIN Tail(q) : Tail(q)[k] = i
  <2>1. CASE i = q[1]
    <3>1. \A k \in 1..Len(q) - 1 : k + 1 \in DOMAIN q /\ k + 1 # 1
      BY <1>1
    <3>2. \A k \in 1..Len(q) - 1 : q[k + 1] # i
      BY <2>1, <3>1, <1>3 DEF Agree, Distinct
    <3> QED BY <2>1, <3>2, <1>1, <1>2
  <2>2. CASE i # q[1]
    <3>1. f[i] <=> \E k \in 1..Len(q) : q[k] = i
      BY <1>1 DEF Agree
    <3>2. \A k \in 1..Len(q) : k # 1 => k - 1 \in 1..Len(q) - 1 /\ (k - 1) + 1 = k
      BY <1>1
    <3>3. \A k \in 1..Len(q) - 1 : k + 1 \in 1..Len(q)
      BY <1>1
    <3>4. (\E k \in 1..Len(q) : q[k] = i) <=> \E k \in 1..Len(q) - 1 : q[k + 1] = i
      BY <2>2, <3>2, <3>3
    <3>5. [f EXCEPT ![q[1]] = FALSE][i] = f[i]
      BY <2>2, <1>1
    <3> QED BY <3>1, <3>4, <3>5, <1>2
  <2> QED BY <2>1, <2>2
<1> QED BY <1>1, <1>2, <1>3, <1>4, <1>5, <1>6 DEF Agree

\* Giving an index back.
LEMMA GivenBackAgrees ==
  ASSUME NEW n \in Nat, NEW q, NEW f, Agree(q, f, n), NEW i \in 0..n - 1, ~f[i]
  PROVE  Agree(Append(q, i), [f EXCEPT ![i] = TRUE], n) /\ Len(q) + 1 <= n
<1>1. /\ q \in Seq(0..n - 1) /\ DOMAIN q = 1..Len(q) /\ Len(q) \in Nat
      /\ f \in [0..n - 1 -> BOOLEAN]
  BY DEF Agree
<1>2. \A k \in 1..Len(q) : q[k] # i
  BY <1>1 DEF Agree
<1>3. /\ Append(q, i) \in Seq(0..n - 1) /\ DOMAIN Append(q, i) = 1..Len(q) + 1
      /\ \A k \in 1..Len(q) : Append(q, i)[k] = q[k]
      /\ Append(q, i)[Len(q) + 1] = i
  BY <1>1, AppendElements
<1>4. \A k \in 1..Len(q) + 1 : k \in 1..Len(q) \/ k = Len(q) + 1
  BY <1>1
<1>5. Distinct(Append(q, i))
  BY <1>1, <1>2, <1>3, <1>4 DEF Agree, Distinct
<1>6. ASSUME NEW x \in 0..n - 1
      PROVE  [f EXCEPT ![i] = TRUE][x] <=> \E k \in 1..Len(q) + 1 : Append(q, i)[k] = x
  <2>1. f[x] <=> \E k \in 1..Len(q) : q[k] = x
    BY <1>1 DEF Agree
  <2>2. Len(q) + 1 \in 1..Len(q) + 1 /\ \A k \in 1..Len(q) : k \in 1..Len(q) + 1
    BY <1>1
  <2> QED BY <1>1, <1>3, <1>4, <2>1, <2>2
<1>7. Len(q) + 1 <= n
  BY <1>1, <1>2, MissingLeavesRoom DEF Agree
<1> QED BY <1>1, <1>3, <1>5, <1>6, <1>7 DEF Agree

\* A sequence s that goes on after the L places of q with n, n + 1, ..., n + d - 1,
\* when q holds indices below n.
Continues(s, q, L, n, d) ==
  /\ \A k \in 1..L : s[k] = q[k] /\ q[k] \in 0..n - 1
  /\ \A k \in 1..d : s[L + k] = n + k - 1

LEMMA ContinuesPlaces ==
  ASSUME NEW L \in Nat, NEW n \in Nat, NEW d \in Nat, NEW q, NEW s, Continues(s, q, L, n, d)
  PROVE  /\ \A k \in 1..L : s[k] = q[k] /\ s[k] \in 0..n - 1
         /\ \A k \in L + 1..L + d : s[k] = n + (k - L) - 1 /\ s[k] \in n..n + d - 1
<1>1. ASSUME NEW k \in L + 1..L + d PROVE s[k] = n + (k - L) - 1 /\ s[k] \in n..n + d - 1
  <2>1. k - L \in 1..d /\ L + (k - L) = k
    BY <1>1
  <2>2. s[L + (k - L)] = n + (k - L) - 1
    BY <2>1 DEF Continues
  <2>3. s[k] = n + (k - L) - 1
    BY <2>1, <2>2
  <2> QED BY <2>1, <2>3
<1> QED BY <1>1 DEF Continues

\* A queue that goes on so, with flags that go on with TRUE, agrees with them again.
LEMMA ContinuedAgrees ==
  ASSUME NEW L \in Nat, NEW n \in Nat, NEW d \in Nat, NEW q, NEW f, NEW s, NEW g,
         s \in Seq(0..n + d - 1), Len(s) = L + d, Continues(s, q, L, n, d),
         \A j, k \in 1..L : q[j] = q[k] => j = k,
         \A i \in 0..n - 1 : f[i] <=> \E k \in 1..L : q[k] = i,
         g \in [0..n + d - 1 -> BOOLEAN],
         \A i \in 0..n - 1 : g[i] = f[i],
         \A i \in n..n + d - 1 : g[i] = TRUE
  PROVE  Agree(s, g, n + d)
<1>1. /\ DOMAIN s = 1..L + d
      /\ \A k \in 1..L : s[k] = q[k] /\ s[k] \in 0..n - 1
      /\ \A k \in L + 1..L + d : s[k] = n + (k - L) - 1 /\ s[k] \in n..n + d - 1
  <2>1. DOMAIN s = 1..L + d
    OBVIOUS
  <2>2. /\ \A k \in 1..L : s[k] = q[k] /\ s[k] \in 0..n - 1
        /\ \A k \in L + 1..L + d : s[k] = n + (k - L) - 1 /\ s[k] \in n..n + d - 1
    BY ContinuesPlaces, Zenon
  <2> QED BY <2>1, <2>2, Zenon
<1>2. ASSUME NEW j \in 1..L + d, NEW k \in 1..L + d, s[j] = s[k] PROVE j = k
  <2>1. /\ j \in 1..L \/ j \in L + 1..L + d
        /\ k \in 1..L \/ k \in L + 1..L + d
    OBVIOUS
  <2>2. CASE j \in 1..L /\ k \in 1..L
    BY <1>1, <1>2, <2>2
  <2>3. CASE j \in L + 1..L + d /\ k \in L + 1..L + d
    <3>1. n + (j - L) - 1 = n + (k - L) - 1
      BY <1>1, <1>2, <2>3
    <3> QED BY <3>1
  <2>4. CASE j \in 1..L /\ k \in L + 1..L + d
    <3>1. s[j] \in 0..n - 1 /\ s[k] \in n..n + d - 1
      BY <1>1, <2>4
    <3> QED BY <1>2, <3>1
  <2>5. CASE k \in 1..L /\ j \in L + 1..L + d
    <3>1. s[k] \in 0..n - 1 /\ s[j] \in n..n + d - 1
      BY <1>1, <2>5
    <3> QED BY <1>2, <3>1
  <2> QED BY <2>1, <2>2, <2>3, <2>4, <2>5
<1>3. ASSUME NEW i \in 0..n - 1
      PROVE  g[i] <=> \E k \in 1..L + d : s[k] = i
  <2>1. \A k \in 1..L : k \in 1..L + d /\ s[k] = q[k]
    BY <1>1
  <2>2. \A k \in 1..L + d : s[k] = i => k \in 1..L
    BY <1>1
  <2>3. (\E k \in 1..L + d : s[k] = i) <=> \E k \in 1..L : q[k] = i
    BY <2>1, <2>2
  <2> QED BY <2>3
<1>4. ASSUME NEW i \in n..n + d - 1 PROVE g[i] <=> \E k \in 1..L + d : s[k] = i
  <2>1. /\ i - n + 1 \in 1..d /\ L + (i - n + 1) \in 1..L + d
        /\ n + (i - n + 1) - 1 = i
    OBVIOUS
  <2>2. s[L + (i - n + 1)] = i
    BY <2>1 DEF Continues
  <2> QED BY <2>1, <2>2
<1>5. \A i \in 0..n + d - 1 : i \in 0..n - 1 \/ i \in n..n + d - 1
  OBVIOUS
<1>6. Distinct(s) /\ \A i \in 0..n + d - 1 : g[i] <=> \E k \in DOMAIN s : s[k] = i
  BY <1>1, <1>2, <1>3, <1>4, <1>5, Zenon DEF Distinct
<1> QED BY <1>6 DEF Agree

\* What Counting gives.
LEMMA CountingElements ==
  ASSUME NEW n \in Nat, NEW d \in Nat
  PROVE  /\ Counting(n, n + d) \in Seq(0..n + d - 1)
         /\ Len(Counting(n, n + d)) = d
         /\ \A k \in 1..d : Counting(n, n + d)[k] = n + k - 1
<1> DEFINE c == Counting(n, n + d)
<1>1. n + d - n = d
  OBVIOUS
<1>2. c \in [1..d -> 0..n + d - 1] /\ \A k \in 1..d : c[k] = n + k - 1
  BY <1>1 DEF Counting
<1> QED BY <1>2, FunctionIsSeq

\* Adding the indices from n to n + d - 1.
LEMMA WidenedAgrees ==
  ASSUME NEW n \in Nat, NEW d \in Nat, NEW q, NEW f, Agree(q, f, n)
  PROVE  /\ Agree(q \o Counting(n, n + d),
                  [i \in 0..n + d - 1 |-> IF i < n THEN f[i] ELSE TRUE], n + d)
         /\ Len(q \o Counting(n, n + d)) = Len(q) + d
         /\ Len(q) <= n
<1>1. /\ q \in Seq(0..n - 1) /\ DOMAIN q = 1..Len(q) /\ Len(q) \in Nat
      /\ f \in [0..n - 1 -> BOOLEAN]
  BY DEF Agree
<1>2. \A k \in 1..Len(q) : q[k] \in 0..n - 1 /\ q[k] \in 0..n + d - 1
  BY <1>1
<1>3. q \in Seq(0..n + d - 1)
  <2>1. q \in [1..Len(q) -> 0..n + d - 1]
    BY <1>1, <1>2
  <2> QED BY <1>1, <2>1
<1>4. PICK c : c = Counting(n, n + d)
  OBVIOUS
<1>5. c \in Seq(0..n + d - 1) /\ Len(c) = d /\ \A k \in 1..d : c[k] = n + k - 1
  BY <1>4, CountingElements
<1>6. PICK s : s = q \o c
  OBVIOUS
<1>7. /\ s \in Seq(0..n + d - 1) /\ Len(s) = Len(q) + d
      /\ \A k \in 1..Len(q) : s[k] = q[k]
      /\ \A k \in 1..d : s[Len(q) + k] = c[k]
  <2>1. PICK S : S = 0..n + d - 1
    OBVIOUS
  <2>2. q \in Seq(S) /\ c \in Seq(S)
    BY <1>3, <1>5, <2>1, Zenon
  <2>3. /\ q \o c \in Seq(S)
        /\ Len(q \o c) = Len(q) + Len(c)
        /\ \A k \in 1..Len(q) : (q \o c)[k] = q[k]
        /\ \A k \in 1..Len(c) : (q \o c)[Len(q) + k] = c[k]
    BY <2>2, ConcatElements
  <2> QED BY <1>5, <1>6, <2>1, <2>3, Zenon
<1>8. Continues(s, q, Len(q), n, d)
  BY <1>2, <1>5, <1>7 DEF Continues
<1>9. PICK g : g = [i \in 0..n + d - 1 |-> IF i < n THEN f[i] ELSE TRUE]
  OBVIOUS
<1>10. /\ g \in [0..n + d - 1 -> BOOLEAN]
       /\ \A i \in 0..n - 1 : g[i] = f[i]
       /\ \A i \in n..n + d - 1 : g[i] = TRUE
  <2>1. \A i \in 0..n + d - 1 : i < n => i \in 0..n - 1
    OBVIOUS
  <2>2. \A i \in 0..n - 1 : i \in 0..n + d - 1 /\ i < n
    OBVIOUS
  <2>3. \A i \in n..n + d - 1 : i \in 0..n + d - 1 /\ ~(i < n)
    OBVIOUS
  <2>4. ASSUME NEW i \in 0..n + d - 1
        PROVE  (IF i < n THEN f[i] ELSE TRUE) \in BOOLEAN
    BY <2>1, <1>1
  <2>5. g \in [0..n + d - 1 -> BOOLEAN]
    BY <2>4, <1>9, Zenon
  <2> QED BY <2>2, <2>3, <2>5, <1>9, Zenon
<1>11. \A j, k \in 1..Len(q) : q[j] = q[k] => j = k
  BY <1>1 DEF Agree, Distinct
<1>12. \A i \in 0..n - 1 : f[i] <=> \E k \in 1..Len(q) : q[k] = i
  BY <1>1 DEF Agree
<1>13. Agree(s, g, n + d)
  BY <1>1, <1>7, <1>8, <1>10, <1>11, <1>12, ContinuedAgrees
<1>14. Len(q) <= n
  BY <1>1, DistinctFit, IndexCount DEF Agree
<1> QED BY <1>4, <1>6, <1>7, <1>9, <1>13, <1>14

-----------------------------------------------------------------------------
(* The invariant. *)

\* What the three parts of the invariant say, in terms of agreement.
LEMMA AgreementIsEnough ==
  ASSUME NEW n \in 0..MaxDescriptors, NEW q, NEW f, Agree(q, f, n), Len(q) <= n,
         m_FreeList = q, m_FreeSet = f, m_NumDescriptors = n, room = n,
         answer \in {"none", "allocate", "release", "resize"}
                    \X (0..MaxDescriptors \cup {Refused})
  PROVE  IInv
<1>1. n \in Nat
  BY BindlessAssumption
<1>2. AllocatorTypeOK
  BY <1>1 DEF AllocatorTypeOK, Agree
<1>3. QueueMatchesFlags
  BY Zenon DEF QueueMatchesFlags, Agree, Distinct
<1>4. RoomForAll
  BY DEF RoomForAll
<1> QED BY <1>2, <1>3, <1>4 DEF IInv

\* An allocator made for n indices: all of them free.
LEMMA CreatedAgrees ==
  ASSUME NEW n \in Nat
  PROVE  /\ Agree(Counting(0, n), [i \in 0..n - 1 |-> TRUE], n)
         /\ Len(Counting(0, n)) = n
<1> DEFINE c == Counting(0, n)
<1>1. c \in Seq(0..n - 1) /\ Len(c) = n /\ \A k \in 1..n : c[k] = k - 1
  <2>1. n - 0 = n
    OBVIOUS
  <2>2. c \in [1..n -> 0..n - 1] /\ \A k \in 1..n : c[k] = k - 1
    BY <2>1 DEF Counting
  <2> QED BY <2>2, FunctionIsSeq
<1> HIDE DEF c
<1>2. DOMAIN c = 1..n
  BY <1>1
<1>3. Distinct(c)
  BY <1>1, <1>2 DEF Distinct
<1>4. \A i \in 0..n - 1 : \E k \in 1..n : c[k] = i
  <2>1. \A i \in 0..n - 1 : i + 1 \in 1..n /\ c[i + 1] = i
    BY <1>1
  <2> QED BY <2>1
<1> QED BY <1>1, <1>2, <1>3, <1>4 DEF Agree, c

LEMMA InitHolds == Init => IInv
<1> SUFFICES ASSUME NEW n \in 0..MaxDescriptors, Created(n) PROVE IInv
  BY DEF Init
<1>1. n \in Nat
  BY BindlessAssumption
<1>2. /\ m_FreeList = Counting(0, n) /\ m_FreeSet = [i \in 0..n - 1 |-> TRUE]
      /\ m_NumDescriptors = n /\ room = n /\ answer = <<"none", Refused>>
  BY DEF Created
<1>3. Agree(m_FreeList, m_FreeSet, n) /\ Len(m_FreeList) <= n
  BY <1>1, <1>2, CreatedAgrees
<1> QED BY <1>2, <1>3, AgreementIsEnough

\* The same of the next state.
LEMMA AgreementIsEnoughNext ==
  ASSUME NEW n \in 0..MaxDescriptors, NEW q, NEW f, Agree(q, f, n), Len(q) <= n,
         m_FreeList' = q, m_FreeSet' = f, m_NumDescriptors' = n, room' = n,
         answer' \in {"none", "allocate", "release", "resize"}
                     \X (0..MaxDescriptors \cup {Refused})
  PROVE  IInv'
<1>1. n \in Nat
  BY BindlessAssumption
<1>2. AllocatorTypeOK'
  BY <1>1 DEF AllocatorTypeOK, Agree
<1>3. QueueMatchesFlags'
  BY Zenon DEF QueueMatchesFlags, Agree, Distinct
<1>4. RoomForAll'
  BY DEF RoomForAll
<1> QED BY <1>2, <1>3, <1>4 DEF IInv

\* Every step keeps the invariant.
LEMMA NextKeeps == IInv /\ [AllocatorNext]_allocatorVars => IInv'
<1> SUFFICES ASSUME IInv, [AllocatorNext]_allocatorVars PROVE IInv'
  OBVIOUS
<1>n. PICK n \in 0..MaxDescriptors : n = m_NumDescriptors
  BY DEF IInv, AllocatorTypeOK
<1>q. PICK q : q = m_FreeList
  OBVIOUS
<1>f. PICK f : f = m_FreeSet
  OBVIOUS
<1>1. n \in Nat /\ room = n /\ Len(q) <= n /\ Len(q) \in Nat
  BY <1>n, <1>q, BindlessAssumption DEF IInv, RoomForAll, AllocatorTypeOK
<1>2. Agree(q, f, n)
  BY <1>n, <1>q, <1>f, IInvAgrees
<1> DEFINE Answers == {"none", "allocate", "release", "resize"}
                      \X (0..MaxDescriptors \cup {Refused})
<1>3. ASSUME UNCHANGED <<m_FreeList, room, m_FreeSet, m_NumDescriptors>>, answer' \in Answers
      PROVE  IInv'
  BY <1>n, <1>q, <1>f, <1>1, <1>2, <1>3, AgreementIsEnoughNext
<1>4. CASE AllocateRefused
  BY <1>4, <1>3 DEF AllocateRefused
<1>5. ASSUME NEW i \in 0..MaxDescriptors - 1, AllocateIndex(i) PROVE IInv'
  <2>1. q # <<>> /\ i = Head(q) /\ Agree(Tail(q), [f EXCEPT ![Head(q)] = FALSE], n)
    BY <1>q, <1>1, <1>2, <1>5, TakenAgrees DEF AllocateIndex
  <2>2. Len(Tail(q)) <= n
    BY <1>1, <1>2, <2>1, TailElements DEF Agree
  <2>3. answer' \in Answers
    BY <1>5, BindlessAssumption DEF AllocateIndex
  <2> QED BY <1>n, <1>q, <1>f, <1>1, <1>5, <2>1, <2>2, <2>3, AgreementIsEnoughNext
          DEF AllocateIndex
<1>6. ASSUME NEW i \in 0..MaxDescriptors, ReleaseRefused(i) PROVE IInv'
  BY <1>6, <1>3 DEF ReleaseRefused
<1>7. ASSUME NEW i \in 0..MaxDescriptors, ReleaseIndex(i) PROVE IInv'
  <2>1. i \in 0..n - 1 /\ ~f[i]
    BY <1>n, <1>f, <1>7, BindlessAssumption DEF ReleaseIndex, Accepts
  <2>2. Agree(Append(q, i), [f EXCEPT ![i] = TRUE], n) /\ Len(q) + 1 <= n
    BY <1>1, <1>2, <2>1, GivenBackAgrees
  <2>3. Len(Append(q, i)) = Len(q) + 1
    BY <1>2, <2>1, AppendElements DEF Agree
  <2>4. room' = n
    BY <1>q, <1>1, <1>7, <2>2 DEF ReleaseIndex, RoomFor
  <2>5. answer' \in Answers
    BY <1>7 DEF ReleaseIndex
  <2> QED BY <1>n, <1>q, <1>f, <1>7, <2>2, <2>3, <2>4, <2>5, AgreementIsEnoughNext
          DEF ReleaseIndex
<1>8. ASSUME NEW m \in 0..MaxDescriptors, ResizeSame(m) PROVE IInv'
  BY <1>8, <1>3 DEF ResizeSame
<1>9. ASSUME NEW m \in 0..MaxDescriptors, ResizeRefused(m) PROVE IInv'
  BY <1>9, <1>3 DEF ResizeRefused
<1>10. ASSUME NEW m \in 0..MaxDescriptors, ResizeUp(m) PROVE IInv'
  <2>1. m \in Nat /\ m > n
    BY <1>n, <1>10, BindlessAssumption DEF ResizeUp
  <2>2. PICK d \in Nat : d = m - n /\ n + d = m
    BY <1>1, <2>1
  <2>3. /\ Agree(q \o Counting(n, n + d),
                 [i \in 0..n + d - 1 |-> IF i < n THEN f[i] ELSE TRUE], n + d)
        /\ Len(q \o Counting(n, n + d)) = Len(q) + d
    BY <1>1, <1>2, WidenedAgrees, Zenon
  <2>4. /\ m_FreeList' = q \o Counting(n, m)
        /\ m_FreeSet' = [i \in 0..m - 1 |-> IF i < n THEN f[i] ELSE TRUE]
        /\ m_NumDescriptors' = m
        /\ answer' = <<"resize", m>>
        /\ room' = RoomFor(m, Len(q) + m - n)
    BY <1>n, <1>q, <1>f, <1>10, Zenon DEF ResizeUp, Added
  <2>5. Len(q) + m - n = Len(q) + d /\ Len(q) + d <= m
    BY <1>1, <2>1, <2>2
  <2>6. room' = m
    BY <2>4, <2>5 DEF RoomFor
  <2>7. answer' \in Answers
    BY <2>4
  <2>8. /\ Agree(q \o Counting(n, m), [i \in 0..m - 1 |-> IF i < n THEN f[i] ELSE TRUE], m)
        /\ Len(q \o Counting(n, m)) <= m
    BY <2>2, <2>3, <2>5
  <2> QED BY <2>4, <2>6, <2>7, <2>8, AgreementIsEnoughNext
<1>11. CASE UNCHANGED allocatorVars
  BY <1>11, <1>3 DEF allocatorVars, IInv, AllocatorTypeOK
<1> QED BY <1>4, <1>5, <1>6, <1>7, <1>8, <1>9, <1>10, <1>11
        DEF AllocatorNext, Release, Resize

\* Queue, flags and room agree at all times, for any number of indices.
THEOREM Invariance == AllocatorSpec => []IInv
<1> QED BY InitHolds, NextKeeps, PTL DEF AllocatorSpec

\* BindlessFreeListAllocator's state keeps its shape.
THEOREM AlwaysTyped == AllocatorSpec => []AllocatorTypeOK
<1>1. IInv => AllocatorTypeOK
  BY DEF IInv
<1> QED BY <1>1, Invariance, PTL

\* An index is in the free queue exactly once if it is flagged free, and not at all
\* otherwise: so Allocate never gives an index away twice, and loses none.
THEOREM AlwaysAgrees == AllocatorSpec => []QueueMatchesFlags
<1>1. IInv => QueueMatchesFlags
  BY DEF IInv
<1> QED BY <1>1, Invariance, PTL

\* The ring buffer under the free queue has room for exactly all the indices, so that
\* Release never makes it grow and Resize is never refused by it.
THEOREM AlwaysRoom == AllocatorSpec => []RoomForAll
<1>1. IInv => RoomForAll
  BY DEF IInv
<1> QED BY <1>1, Invariance, PTL

-----------------------------------------------------------------------------
(* The allocator is a pool of indices. *)

\* What flags f say is taken of the indices below n.
TakenOf(f, n) == {i \in 0..n - 1 : ~f[i]}

LEMMA TakenAfterTaking ==
  ASSUME NEW n \in Nat, NEW f \in [0..n - 1 -> BOOLEAN], NEW i \in 0..n - 1
  PROVE  /\ TakenOf([f EXCEPT ![i] = FALSE], n) = TakenOf(f, n) \cup {i}
         /\ TakenOf([f EXCEPT ![i] = TRUE], n) = TakenOf(f, n) \ {i}
BY DEF TakenOf

LEMMA TakenAfterWidening ==
  ASSUME NEW n \in Nat, NEW m \in Nat, m >= n, NEW f
  PROVE  TakenOf([i \in 0..m - 1 |-> IF i < n THEN f[i] ELSE TRUE], m) = TakenOf(f, n)
<1> DEFINE g == [i \in 0..m - 1 |-> IF i < n THEN f[i] ELSE TRUE]
<1>1. ASSUME NEW i \in 0..m - 1, ~g[i] PROVE i \in 0..n - 1 /\ ~f[i]
  BY <1>1
<1>2. ASSUME NEW i \in 0..n - 1, ~f[i] PROVE i \in 0..m - 1 /\ ~g[i]
  BY <1>2
<1> HIDE DEF g
<1> QED BY <1>1, <1>2 DEF TakenOf, g

LEMMA PoolStarts == Init => Pool!PoolInit
<1> SUFFICES ASSUME NEW n \in 0..MaxDescriptors, Created(n) PROVE Pool!PoolInit
  BY DEF Init
<1>1. n \in Nat
  BY BindlessAssumption
<1>2. Taken = {}
  BY <1>1 DEF Created, Taken
<1> QED BY <1>1, <1>2 DEF Created, Pool!PoolInit

LEMMA PoolSteps ==
  IInv /\ [AllocatorNext]_allocatorVars
    => [Pool!PoolNext]_<<Taken, m_NumDescriptors, answer>>
<1> SUFFICES ASSUME IInv, [AllocatorNext]_allocatorVars
             PROVE  [Pool!PoolNext]_<<Taken, m_NumDescriptors, answer>>
  OBVIOUS
<1>n. PICK n \in Nat : n = m_NumDescriptors
  BY BindlessAssumption DEF IInv, AllocatorTypeOK
<1>f. PICK f : f = m_FreeSet
  OBVIOUS
<1>1. Taken = TakenOf(f, n) /\ Pool!Indices = 0..n - 1 /\ f \in [0..n - 1 -> BOOLEAN]
  BY <1>n, <1>f DEF Taken, TakenOf, Pool!Indices, IInv, AllocatorTypeOK
<1>2. Agree(m_FreeList, f, n)
  BY <1>n, <1>f, IInvAgrees
<1>3. Taken' = TakenOf(m_FreeSet', m_NumDescriptors')
  BY DEF Taken, TakenOf
<1>4. UNCHANGED <<m_FreeSet, m_NumDescriptors>> => Taken' = Taken
  BY DEF Taken
<1>5. CASE AllocateRefused
  <2>1. \A i \in 0..n - 1 : ~f[i]
    BY <1>2, <1>5 DEF Agree, AllocateRefused
  <2>2. 0..n - 1 \subseteq Taken
    BY <1>1, <2>1 DEF TakenOf
  <2>3. Taken' = Taken /\ answer' = <<"allocate", Refused>> /\ m_NumDescriptors' = m_NumDescriptors
    BY <1>4, <1>5 DEF AllocateRefused
  <2> QED BY <1>1, <2>2, <2>3 DEF Pool!PoolNext, Pool!TakeRefused
<1>6. ASSUME NEW i \in 0..MaxDescriptors - 1, AllocateIndex(i)
      PROVE  Pool!PoolNext
  <2>1. i \in 0..n - 1 /\ f[i] = TRUE
    BY <1>2, <1>6, TakenAgrees DEF AllocateIndex
  <2>2. Taken' = Taken \cup {i}
    <3>1. m_FreeSet' = [f EXCEPT ![i] = FALSE] /\ m_NumDescriptors' = n
      BY <1>n, <1>f, <1>6 DEF AllocateIndex
    <3>2. TakenOf([f EXCEPT ![i] = FALSE], n) = TakenOf(f, n) \cup {i}
      BY <1>1, <2>1, TakenAfterTaking
    <3> QED BY <1>1, <1>3, <3>1, <3>2, Zenon
  <2>3. i \notin Taken
    BY <1>1, <2>1 DEF TakenOf
  <2>4. answer' = <<"allocate", i>> /\ m_NumDescriptors' = m_NumDescriptors
    BY <1>6 DEF AllocateIndex
  <2> QED BY <1>1, <2>1, <2>2, <2>3, <2>4 DEF Pool!PoolNext, Pool!Take
<1>7. ASSUME NEW i \in 0..MaxDescriptors, ReleaseRefused(i) PROVE Pool!PoolNext
  BY <1>4, <1>7 DEF ReleaseRefused, Pool!PoolNext, Pool!GiveBackRefused
<1>8. ASSUME NEW i \in 0..MaxDescriptors, ReleaseIndex(i) PROVE Pool!PoolNext
  <2>1. i \in 0..n - 1 /\ ~f[i]
    BY <1>n, <1>f, <1>8, BindlessAssumption DEF ReleaseIndex, Accepts
  <2>2. Taken' = Taken \ {i}
    <3>1. m_FreeSet' = [f EXCEPT ![i] = TRUE] /\ m_NumDescriptors' = n
      BY <1>n, <1>f, <1>8 DEF ReleaseIndex
    <3>2. TakenOf([f EXCEPT ![i] = TRUE], n) = TakenOf(f, n) \ {i}
      BY <1>1, <2>1, TakenAfterTaking
    <3> QED BY <1>1, <1>3, <3>1, <3>2, Zenon
  <2>3. i \in Taken
    BY <1>1, <2>1 DEF TakenOf
  <2>4. answer' = <<"release", i>> /\ m_NumDescriptors' = m_NumDescriptors
    BY <1>8 DEF ReleaseIndex
  <2> QED BY <1>1, <2>1, <2>2, <2>3, <2>4 DEF Pool!PoolNext, Pool!GiveBack
<1>9. ASSUME NEW m \in 0..MaxDescriptors, ResizeSame(m) PROVE Pool!PoolNext
  BY <1>n, <1>4, <1>9 DEF ResizeSame, Pool!PoolNext, Pool!Widen
<1>10. ASSUME NEW m \in 0..MaxDescriptors, ResizeRefused(m) PROVE Pool!PoolNext
  BY <1>4, <1>10 DEF ResizeRefused, Pool!PoolNext, Pool!WidenRefused
<1>11. ASSUME NEW m \in 0..MaxDescriptors, ResizeUp(m) PROVE Pool!PoolNext
  <2>1. m \in Nat /\ m >= n
    BY <1>n, <1>11, BindlessAssumption DEF ResizeUp
  <2>2. /\ m_FreeSet' = [i \in 0..m - 1 |-> IF i < n THEN f[i] ELSE TRUE]
        /\ m_NumDescriptors' = m
        /\ answer' = <<"resize", m>>
    BY <1>n, <1>f, <1>11 DEF ResizeUp
  <2>3. Taken' = Taken
    BY <1>1, <1>3, <2>1, <2>2, TakenAfterWidening
  <2> QED BY <1>n, <2>1, <2>2, <2>3 DEF Pool!PoolNext, Pool!Widen
<1>12. CASE UNCHANGED allocatorVars
  BY <1>4, <1>12 DEF allocatorVars
<1> QED BY <1>5, <1>6, <1>7, <1>8, <1>9, <1>10, <1>11, <1>12
        DEF AllocatorNext, Release, Resize

\* BindlessFreeListAllocator is a pool of indices: no index has two owners, Allocate
\* fails only when all are taken, a double Release is refused, and Resize disturbs no
\* owner.
THEOREM IsPool == AllocatorSpec => ImplementsPool
<1> QED BY Invariance, PoolStarts, PoolSteps, PTL
        DEF AllocatorSpec, ImplementsPool, Pool!PoolSpec

-----------------------------------------------------------------------------
(* DescriptorManager. It takes indices from the allocator as its callers would,  *)
(* but for a resize to the size it has, which it refuses itself.                 *)

\* What a step of the manager does to the allocator.
OnAllocator ==
  \/ [AllocatorNext]_allocatorVars
  \/ /\ answer' = <<"resize", Refused>>
     /\ UNCHANGED <<m_FreeList, room, m_FreeSet, m_NumDescriptors>>

\* The CPU heap holds what was last written through each index since it was acquired,
\* and the GPU heap the same when it has just been copied.
HeapsHoldViews ==
  /\ \A i \in 0..m_NumDescriptors - 1 : written[i] # Blank => m_CPUHeap[i] = written[i]
  /\ settled => m_GPUHeap = m_CPUHeap

ManagerInv == IInv /\ TypeOK /\ HeapsHoldViews

\* The heaps a resize makes.
LEMMA CopiedHeaps ==
  ASSUME NEW n \in Nat, NEW m \in Nat, m <= n, NEW heap \in [0..m - 1 -> View \cup {Blank}]
  PROVE  /\ CopiedTo(n, heap) \in [0..n - 1 -> View \cup {Blank}]
         /\ \A i \in 0..n - 1 :
              CopiedTo(n, heap)[i] = IF i \in 0..m - 1 THEN heap[i] ELSE Blank
BY DEF CopiedTo

LEMMA ManagerStarts == ManagerInit => ManagerInv
<1> SUFFICES ASSUME ManagerInit PROVE ManagerInv
  OBVIOUS
<1>1. IInv
  BY InitHolds DEF ManagerInit
<1>2. m_NumDescriptors \in 0..MaxDescriptors
  BY <1>1 DEF IInv, AllocatorTypeOK
<1>3. TypeOK
  BY <1>2 DEF ManagerInit, TypeOK, Blanks
<1>4. HeapsHoldViews
  BY DEF ManagerInit, HeapsHoldViews, Blanks
<1> QED BY <1>1, <1>3, <1>4 DEF ManagerInv

\* A step that the manager takes on its allocator alone.
LEMMA RefusalKeeps ==
  ASSUME IInv, answer' = <<"resize", Refused>>,
         UNCHANGED <<m_FreeList, room, m_FreeSet, m_NumDescriptors>>
  PROVE  IInv'
<1>1. /\ m_NumDescriptors \in 0..MaxDescriptors /\ room = m_NumDescriptors
      /\ Len(m_FreeList) <= m_NumDescriptors
  BY DEF IInv, AllocatorTypeOK, RoomForAll
<1>2. Agree(m_FreeList, m_FreeSet, m_NumDescriptors)
  BY IInvAgrees
<1> QED BY <1>1, <1>2, AgreementIsEnoughNext

LEMMA ManagerStep ==
  ManagerInv /\ [Next]_vars => ManagerInv' /\ OnAllocator
<1> SUFFICES ASSUME ManagerInv, [Next]_vars PROVE ManagerInv' /\ OnAllocator
  OBVIOUS
<1> DEFINE N == m_NumDescriptors
           Entries == View \cup {Blank}
<1>1. /\ IInv /\ TypeOK /\ HeapsHoldViews
      /\ N \in Nat /\ N \in 0..MaxDescriptors /\ MaxDescriptors \in Nat
      /\ m_CPUHeap \in [0..N - 1 -> Entries] /\ m_GPUHeap \in [0..N - 1 -> Entries]
      /\ written \in [0..N - 1 -> Entries]
  BY BindlessAssumption DEF ManagerInv, TypeOK
<1>2. ASSUME UNCHANGED heapVars, m_NumDescriptors' = N, settled' = FALSE
      PROVE  TypeOK' /\ HeapsHoldViews'
  BY <1>1, <1>2 DEF TypeOK, HeapsHoldViews, heapVars
<1>3. CASE Acquire /\ settled' = FALSE
  <2>1. CASE AllocateRefused /\ UNCHANGED heapVars
    <3>1. AllocatorNext
      BY <2>1 DEF AllocatorNext
    <3>2. IInv'
      BY <1>1, <3>1, NextKeeps
    <3>3. m_NumDescriptors' = N
      BY <2>1 DEF AllocateRefused
    <3> QED BY <1>2, <1>3, <2>1, <3>1, <3>2, <3>3 DEF ManagerInv, OnAllocator
  <2>2. ASSUME NEW i \in DOMAIN m_CPUHeap, AllocateIndex(i),
               written' = [written EXCEPT ![i] = Blank],
               UNCHANGED <<m_CPUHeap, m_GPUHeap>>
        PROVE  ManagerInv' /\ OnAllocator
    <3>1. i \in 0..N - 1 /\ i \in 0..MaxDescriptors - 1
      BY <1>1, <2>2
    <3>2. AllocatorNext
      BY <2>2, <3>1 DEF AllocatorNext
    <3>3. IInv'
      BY <1>1, <3>2, NextKeeps
    <3>4. m_NumDescriptors' = N
      BY <2>2 DEF AllocateIndex
    <3>5. written' \in [0..N - 1 -> Entries]
      BY <1>1, <2>2, <3>1
    <3>6. \A j \in 0..N - 1 : written'[j] # Blank => m_CPUHeap'[j] = written'[j]
      BY <1>1, <2>2, <3>1 DEF HeapsHoldViews
    <3>7. TypeOK' /\ HeapsHoldViews'
      BY <1>1, <1>3, <2>2, <3>4, <3>5, <3>6 DEF TypeOK, HeapsHoldViews
    <3> QED BY <3>2, <3>3, <3>7 DEF ManagerInv, OnAllocator
  <2> QED BY <1>3, <2>1, <2>2 DEF Acquire
<1>4. ASSUME NEW i \in 0..MaxDescriptors, ReleaseDescriptor(i), settled' = FALSE
      PROVE  ManagerInv' /\ OnAllocator
  <2>1. AllocatorNext
    BY <1>4 DEF AllocatorNext, ReleaseDescriptor
  <2>2. IInv'
    BY <1>1, <2>1, NextKeeps
  <2>3. m_NumDescriptors' = N
    BY <1>4 DEF ReleaseDescriptor, Release, ReleaseRefused, ReleaseIndex
  <2>4. UNCHANGED heapVars
    BY <1>4 DEF ReleaseDescriptor
  <2> QED BY <1>2, <1>4, <2>1, <2>2, <2>3, <2>4 DEF ManagerInv, OnAllocator
<1>5. ASSUME UNCHANGED allocatorVars PROVE IInv' /\ OnAllocator /\ m_NumDescriptors' = N
  <2>1. IInv' /\ OnAllocator
    BY <1>1, <1>5, NextKeeps DEF OnAllocator
  <2> QED BY <2>1, <1>5 DEF allocatorVars
<1>6. ASSUME NEW i, ResolveRefused(i), settled' = FALSE PROVE ManagerInv' /\ OnAllocator
  <2>1. UNCHANGED allocatorVars /\ UNCHANGED heapVars
    BY <1>6 DEF ResolveRefused
  <2> QED BY <1>2, <1>5, <1>6, <2>1 DEF ManagerInv
<1>7. ASSUME NEW i, NEW v \in View, WriteView(i, v), settled' = FALSE
      PROVE  ManagerInv' /\ OnAllocator
  <2>1. /\ i \in 0..N - 1
        /\ m_CPUHeap' = [m_CPUHeap EXCEPT ![i] = v]
        /\ written' = [written EXCEPT ![i] = v]
        /\ UNCHANGED allocatorVars /\ m_GPUHeap' = m_GPUHeap
    BY <1>1, <1>7 DEF WriteView, Resolves
  <2>2. IInv' /\ OnAllocator /\ m_NumDescriptors' = N
    BY <1>5, <2>1
  <2>3. m_CPUHeap' \in [0..N - 1 -> Entries] /\ written' \in [0..N - 1 -> Entries]
    BY <1>1, <2>1
  <2>4. \A j \in 0..N - 1 : written'[j] # Blank => m_CPUHeap'[j] = written'[j]
    BY <1>1, <2>1 DEF HeapsHoldViews
  <2>5. TypeOK' /\ HeapsHoldViews'
    BY <1>1, <1>7, <2>1, <2>2, <2>3, <2>4 DEF TypeOK, HeapsHoldViews
  <2> QED BY <2>2, <2>5 DEF ManagerInv
<1>8. ASSUME NEW n \in 0..MaxDescriptors, ManagerResizeRefused(n), settled' = FALSE
      PROVE  ManagerInv' /\ OnAllocator
  <2>1. /\ answer' = <<"resize", Refused>>
        /\ UNCHANGED <<m_FreeList, room, m_FreeSet, m_NumDescriptors>>
        /\ UNCHANGED heapVars
    BY <1>8 DEF ManagerResizeRefused
  <2>2. IInv' /\ OnAllocator
    BY <1>1, <2>1, RefusalKeeps DEF OnAllocator
  <2> QED BY <1>2, <1>8, <2>1, <2>2 DEF ManagerInv
<1>9. ASSUME NEW n \in 0..MaxDescriptors, ReplaceHeaps(n), settled' = FALSE
      PROVE  ManagerInv' /\ OnAllocator
  <2>1. /\ n \in Nat /\ N <= n /\ N < n
        /\ m_CPUHeap' = CopiedTo(n, m_CPUHeap)
        /\ m_GPUHeap' = CopiedTo(n, m_CPUHeap')
        /\ written' = CopiedTo(n, written)
        /\ Resize(n)
    BY <1>1, <1>9 DEF ReplaceHeaps
  <2>2. AllocatorNext
    BY <2>1 DEF AllocatorNext
  <2>3. IInv'
    BY <1>1, <2>2, NextKeeps
  <2>4. m_NumDescriptors' = n
    <3>1. room = N
      BY <1>1 DEF IInv, RoomForAll
    <3>2. N < n /\ ~(n < N) /\ ~(n < room) /\ n # N
      BY <1>1, <2>1, <3>1
    <3>3. ResizeUp(n)
      BY <2>1, <3>2 DEF Resize, ResizeSame, ResizeRefused
    <3> QED BY <3>3 DEF ResizeUp
  <2>5. /\ m_CPUHeap' \in [0..n - 1 -> Entries] /\ written' \in [0..n - 1 -> Entries]
        /\ \A i \in 0..n - 1 : m_CPUHeap'[i] = IF i \in 0..N - 1 THEN m_CPUHeap[i] ELSE Blank
        /\ \A i \in 0..n - 1 : written'[i] = IF i \in 0..N - 1 THEN written[i] ELSE Blank
    BY <1>1, <2>1, CopiedHeaps
  <2>6. m_GPUHeap' \in [0..n - 1 -> Entries]
    BY <2>1, <2>5, CopiedHeaps
  <2>7. \A i \in 0..n - 1 : written'[i] # Blank => m_CPUHeap'[i] = written'[i]
    BY <1>1, <2>5 DEF HeapsHoldViews
  <2>8. TypeOK' /\ HeapsHoldViews'
    BY <1>9, <2>4, <2>5, <2>6, <2>7 DEF TypeOK, HeapsHoldViews
  <2> QED BY <2>2, <2>3, <2>8 DEF ManagerInv, OnAllocator
<1>10. CASE SetDescriptorHeap
  <2>1. /\ UNCHANGED allocatorVars /\ m_CPUHeap' = m_CPUHeap /\ written' = written
        /\ m_GPUHeap' = [i \in DOMAIN m_GPUHeap |->
                           IF i \in DOMAIN m_CPUHeap THEN m_CPUHeap[i] ELSE m_GPUHeap[i]]
    BY <1>10 DEF SetDescriptorHeap
  <2>2. m_GPUHeap' = m_CPUHeap
    BY <1>1, <2>1
  <2>3. IInv' /\ OnAllocator /\ m_NumDescriptors' = N
    BY <1>5, <2>1
  <2>4. TypeOK' /\ HeapsHoldViews'
    BY <1>1, <2>1, <2>2, <2>3 DEF TypeOK, HeapsHoldViews
  <2> QED BY <2>3, <2>4 DEF ManagerInv
<1>11. CASE UNCHANGED vars
  <2>1. UNCHANGED allocatorVars /\ UNCHANGED heapVars /\ settled' = settled
    BY <1>11 DEF vars, heapVars
  <2>2. IInv' /\ OnAllocator /\ m_NumDescriptors' = N
    BY <1>5, <2>1
  <2>3. TypeOK' /\ HeapsHoldViews'
    BY <1>1, <2>1, <2>2 DEF TypeOK, HeapsHoldViews, heapVars
  <2> QED BY <2>2, <2>3 DEF ManagerInv
<1> QED BY <1>3, <1>4, <1>6, <1>7, <1>8, <1>9, <1>10, <1>11 DEF Next, ManagerResize

\* The manager's inductive invariant holds in every state it can reach.
THEOREM ManagerInvariance == Spec => []ManagerInv
<1>1. ManagerInv /\ [Next]_vars => ManagerInv'
  BY ManagerStep
<1> QED BY <1>1, ManagerStarts, PTL DEF Spec

\* A descriptor that is owned resolves to the current heap and its owner's view.
THEOREM OwnersFindViews == Spec => []OwnersFindTheirViews
<1>1. ManagerInv => OwnersFindTheirViews
  <2> SUFFICES ASSUME ManagerInv, NEW i \in 0..m_NumDescriptors - 1, ~m_FreeSet[i]
               PROVE  Resolves(i) /\ (written[i] # Blank => m_CPUHeap[i] = written[i])
    BY DEF OwnersFindTheirViews
  <2>1. i \in DOMAIN m_CPUHeap /\ i < m_NumDescriptors
    BY BindlessAssumption DEF ManagerInv, TypeOK
  <2> QED BY <2>1 DEF ManagerInv, HeapsHoldViews, Resolves
<1> QED BY <1>1, ManagerInvariance, PTL

\* What SetDescriptorHeap leaves to the shaders is what the owners wrote.
THEOREM ShadersSeeViews == Spec => []ShadersSeeOwnersViews
<1>1. ManagerInv => ShadersSeeOwnersViews
  BY DEF ManagerInv, HeapsHoldViews, ShadersSeeOwnersViews
<1> QED BY <1>1, ManagerInvariance, PTL

\* As the manager uses it the allocator is still a pool of indices: replacing the heaps
\* disturbs no owner, and a refused resize leaves the pool as it was.
THEOREM ManagerIsPool == Spec => ImplementsPool
<1>1. ManagerInit => Pool!PoolInit
  BY PoolStarts DEF ManagerInit
<1>2. ManagerInv /\ [Next]_vars => [Pool!PoolNext]_<<Taken, m_NumDescriptors, answer>>
  <2> SUFFICES ASSUME ManagerInv, OnAllocator
               PROVE  [Pool!PoolNext]_<<Taken, m_NumDescriptors, answer>>
    BY ManagerStep
  <2>1. CASE [AllocatorNext]_allocatorVars
    BY <2>1, PoolSteps DEF ManagerInv
  <2>2. CASE /\ answer' = <<"resize", Refused>>
             /\ UNCHANGED <<m_FreeList, room, m_FreeSet, m_NumDescriptors>>
    <3>1. Taken' = Taken
      BY <2>2 DEF Taken
    <3> QED BY <2>2, <3>1 DEF Pool!PoolNext, Pool!WidenRefused
  <2> QED BY <2>1, <2>2 DEF OnAllocator
<1> QED BY <1>1, <1>2, ManagerInvariance, PTL DEF Spec, ImplementsPool, Pool!PoolSpec

-----------------------------------------------------------------------------
(* BufferViews, for any number of descriptors, views and signals: the inductive *)
(* invariant. HeapsOutliveWork says nothing of the heap that       *)
(* waits for the GPU, nor of how much room the new one leaves; WorkSeesItsViews  *)
(* nothing of the list before it is submitted. The parts below add it.           *)

ListType == [heap : Nat \cup {NoHeap}, uses : SUBSET [heap : Nat, index : Nat]]

Stages == {Outside, Recording, Binding} \cup {Flushing(p) : p \in Nat}

Retired == [heap : 0..gpuHeap, point : Nat]

\* The state has its shape, and a heap is retired only after it was replaced.
Shaped ==
  /\ ViewsTypeOK
  /\ queue \in QueueType(ListType) /\ QueueOrdered(queue)
  /\ list \in ListType
  /\ InitialSize <= capacity
  /\ stage \in Stages
  /\ \A k \in DOMAIN retired : retired[k].heap < gpuHeap

\* The GPU works only while the client flushes, on the list it submitted, and the
\* point it waits for is behind that work.
OneListAtATime ==
  \A w \in queue.work :
    /\ stage.at = "flushing" /\ w.mark <= stage.point
    /\ w.job = list /\ list.heap # NoHeap

\* The list's heap exists. While constant buffers are made it may be replaced, but
\* only once: the new heap has room for all that may follow.
HeapKept ==
  /\ list.heap # NoHeap => list.heap \in alive
  /\ stage = Binding =>
       /\ list.heap # NoHeap
       /\ list.heap = gpuHeap \/ used + (MaxCBVs - cbvs) <= capacity

\* The views a dispatch uses, or may still use, have been copied to the list's heap.
ViewsCopied ==
  /\ list.heap = NoHeap => list.uses = {}
  /\ list.heap # NoHeap => \A i \in scoped : i < copied[list.heap]
  /\ \A d \in list.uses : d.heap = list.heap /\ d.index < copied[list.heap]

ViewsInv == Shaped /\ OneListAtATime /\ HeapKept /\ ViewsCopied

\* The client starts with one heap and nothing to do.
LEMMA InitSuits == ViewsInit => ViewsInv
<1> SUFFICES ASSUME ViewsInit PROVE ViewsInv
  OBVIOUS
<1> USE DEF ViewsInit
<1>1. /\ queue \in QueueType(ListType) /\ QueueOrdered(queue) /\ queue.work = {}
  BY NewQueueProperties
<1>2. list.heap = NoHeap /\ list.uses = {} /\ list \in ListType
  BY DEF EmptyList, ListType
<1>3. stage # Binding /\ stage \in Stages
  BY DEF Outside, Binding, Stages
<1>4. retired \in Seq(Retired) /\ DOMAIN retired = {}
  BY EmptySeq
<1>5. ViewsTypeOK
  <2>1. copied \in [0..gpuHeap -> 0..used] /\ gpuHeap \in alive /\ alive \subseteq 0..gpuHeap
    OBVIOUS
  <2>2. scoped \subseteq 0..used - 1 /\ cbvs \in 0..MaxCBVs
    BY ViewsAssumption
  <2>3. capacity \in Nat /\ used \in 0..capacity
    BY ViewsAssumption
  <2> HIDE DEF ViewsInit
  <2> QED BY <2>1, <2>2, <2>3, <1>2, <1>4 DEF ViewsTypeOK, Retired
<1>6. Shaped
  BY <1>1, <1>2, <1>3, <1>4, <1>5, ViewsAssumption DEF Shaped
<1>7. OneListAtATime /\ HeapKept /\ ViewsCopied
  BY <1>1, <1>2, <1>3 DEF OneListAtATime, HeapKept, ViewsCopied
<1> QED BY <1>6, <1>7 DEF ViewsInv

\* Adding a view while nothing is submitted: a free descriptor, or a heap twice as
\* large whose predecessor is kept, in place of the oldest the GPU is done with.
LEMMA RetiringKeeps ==
  ASSUME Shaped, gpuHeap' = gpuHeap + 1, RetireHeap
  PROVE  /\ queue' \in QueueType(ListType) /\ QueueOrdered(queue')
         /\ queue'.work = queue.work
         /\ gpuHeap' \in alive' /\ alive' \subseteq 0..gpuHeap' /\ gpuHeap \in alive'
         /\ retired' \in Seq(Retired')
         /\ \A k \in DOMAIN retired' : retired'[k].heap < gpuHeap'
<1> DEFINE kept == IF OldestReached THEN Tail(retired) ELSE retired
           e == [heap |-> gpuHeap, point |-> queue.next]
           Wider == [heap : 0..gpuHeap + 1, point : Nat]
<1>1. /\ queue \in QueueType(ListType) /\ QueueOrdered(queue)
      /\ gpuHeap \in alive /\ alive \subseteq 0..gpuHeap
      /\ retired \in Seq([heap : 0..gpuHeap, point : Nat])
      /\ gpuHeap \in Nat /\ queue.next \in Nat
  BY DEF Shaped, ViewsTypeOK, QueueType
<1>2. retired \in Seq(Wider) /\ e \in Wider
  <2>1. [heap : 0..gpuHeap, point : Nat] \subseteq Wider
    BY <1>1
  <2>2. e \in Wider
    BY <1>1
  <2> HIDE DEF Wider, e
  <2> QED BY <2>1, <2>2, <1>1, SeqOverMore
<1>3. ASSUME OldestReached
      PROVE  Head(retired).heap \in Nat /\ Head(retired).heap < gpuHeap
  <2>1. retired # <<>>
    BY <1>3 DEF OldestReached
  <2> DEFINE R == [heap : 0..gpuHeap, point : Nat]
  <2>2. retired \in Seq(R)
    BY <1>1
  <2>3. \A x \in R : x.heap \in Nat
    BY <1>1
  <2> HIDE DEF R
  <2>4. 1 \in DOMAIN retired /\ Head(retired) = retired[1] /\ retired[1] \in R
    BY <2>1, <2>2
  <2> QED BY <2>3, <2>4 DEF Shaped
<1>4. /\ kept \in Seq(Wider)
      /\ \A k \in DOMAIN kept : kept[k].heap < gpuHeap
  <2>1. CASE OldestReached
    <3>1. retired # <<>>
      BY <2>1 DEF OldestReached
    <3> HIDE DEF Wider
    <3>2. /\ Tail(retired) \in Seq(Wider)
          /\ \A k \in 1..Len(retired) - 1 : Tail(retired)[k] = retired[k + 1]
          /\ Len(Tail(retired)) = Len(retired) - 1
      BY <3>1, <1>2, TailElements
    <3>3. ASSUME NEW k \in DOMAIN Tail(retired) PROVE Tail(retired)[k].heap < gpuHeap
      <4>1. /\ k \in 1..Len(retired) - 1 /\ k + 1 \in DOMAIN retired
        BY <3>2, <1>2
      <4> QED BY <4>1, <3>2 DEF Shaped
    <3> QED BY <2>1, <3>2, <3>3
  <2>2. CASE ~OldestReached
    BY <2>2, <1>2 DEF Shaped
  <2> QED BY <2>1, <2>2
<1>5. retired' = Append(kept, e)
  BY DEF RetireHeap, NextSignal
<1>6. e.heap = gpuHeap
  OBVIOUS
<1> HIDE DEF kept, e
<1>7. /\ retired' \in Seq(Wider) /\ Len(retired') = Len(kept) + 1
      /\ \A k \in 1..Len(kept) : retired'[k] = kept[k]
      /\ retired'[Len(kept) + 1] = e
  <2> HIDE DEF Wider
  <2> QED BY <1>2, <1>4, <1>5, AppendElements
<1>8. ASSUME NEW k \in DOMAIN retired' PROVE retired'[k].heap < gpuHeap + 1
  <2>1. k \in 1..Len(kept) \/ k = Len(kept) + 1
    BY <1>4, <1>7
  <2>2. CASE k \in 1..Len(kept)
    <3>1. retired'[k] = kept[k] /\ kept[k] \in Wider /\ k \in DOMAIN kept
      <4> HIDE DEF Wider
      <4> QED BY <2>2, <1>4, <1>7
    <3>2. kept[k].heap \in Nat /\ kept[k].heap < gpuHeap
      BY <3>1, <1>4
    <3> QED BY <3>1, <3>2, <1>1
  <2> QED BY <2>1, <2>2, <1>1, <1>6, <1>7
<1>9. /\ queue' = Signal(queue)
      /\ alive' = (alive \ IF OldestReached THEN {Head(retired).heap} ELSE {}) \cup {gpuHeap'}
  BY DEF RetireHeap
<1>10. queue' \in QueueType(ListType) /\ QueueOrdered(queue') /\ queue'.work = queue.work
  BY <1>1, <1>9, SignalProperties
<1>11. gpuHeap' \in alive' /\ alive' \subseteq 0..gpuHeap' /\ gpuHeap \in alive'
  <2>1. alive' \subseteq alive \cup {gpuHeap'} /\ gpuHeap' \in alive'
    BY <1>9
  <2>2. gpuHeap \in alive'
    BY <1>1, <1>3, <1>9
  <2>3. 0..gpuHeap \subseteq 0..gpuHeap + 1 /\ gpuHeap + 1 \in 0..gpuHeap + 1
    BY <1>1
  <2> QED BY <2>1, <2>2, <2>3, <1>1
<1> QED BY <1>7, <1>8, <1>10, <1>11 DEF Retired

\* What making a view does, besides giving its descriptor to whoever asked: nothing
\* copied is lost, and only the oldest retired heap can go.
LEMMA CreateViewKeeps ==
  ASSUME ViewsInv, CreateView
  PROVE  /\ queue' \in QueueType(ListType) /\ QueueOrdered(queue')
         /\ queue'.work = queue.work
         /\ capacity' \in Nat /\ InitialSize <= capacity'
         /\ used' = used + 1 /\ used' \in 0..capacity'
         /\ gpuHeap \in Nat /\ gpuHeap' \in {gpuHeap, gpuHeap + 1}
         /\ gpuHeap' \in alive' /\ alive' \subseteq 0..gpuHeap' /\ gpuHeap \in alive'
         /\ copied' \in [0..gpuHeap' -> 0..used']
         /\ \A h \in 0..gpuHeap : copied'[h] = copied[h]
         /\ retired' \in Seq(Retired')
         /\ \A k \in DOMAIN retired' : retired'[k].heap < gpuHeap'
         /\ ~Full => alive' = alive /\ capacity' = capacity /\ gpuHeap' = gpuHeap
         /\ Full => capacity' = 2 * capacity
<1>1. /\ Shaped /\ ViewsTypeOK
      /\ InitialSize \in Nat \ {0} /\ InitialSize <= capacity
      /\ capacity \in Nat /\ used \in 0..capacity
      /\ gpuHeap \in alive /\ alive \subseteq 0..gpuHeap /\ gpuHeap \in Nat
      /\ copied \in [0..gpuHeap -> 0..used]
      /\ retired \in Seq(Retired)
  BY ViewsAssumption DEF ViewsInv, Shaped, ViewsTypeOK, Retired
<1>2. used' = used + 1
  BY DEF CreateView
<1>3. CASE ~Full
  <2>1. /\ UNCHANGED <<queue, capacity, gpuHeap, copied, alive, retired>>
    BY <1>3 DEF CreateView
  <2>2. used' \in 0..capacity'
    BY <1>1, <1>2, <1>3, <2>1 DEF Full
  <2>3. 0..used \subseteq 0..used'
    BY <1>1, <1>2
  <2>4. copied' \in [0..gpuHeap' -> 0..used']
    BY <1>1, <2>1, <2>3
  <2>5. retired' \in Seq(Retired') /\ \A k \in DOMAIN retired' : retired'[k].heap < gpuHeap'
    BY <1>1, <2>1 DEF Retired, Shaped
  <2>6. queue \in QueueType(ListType) /\ QueueOrdered(queue)
    BY <1>1 DEF Shaped
  <2> QED BY <1>1, <1>2, <1>3, <2>1, <2>2, <2>4, <2>5, <2>6
<1>4. CASE Full
  <2>1. /\ capacity' = 2 * capacity /\ gpuHeap' = gpuHeap + 1 /\ RetireHeap
        /\ copied' = [h \in 0..gpuHeap + 1 |-> IF h <= gpuHeap THEN copied[h] ELSE used]
    BY <1>4 DEF CreateView
  <2>2. /\ capacity' \in Nat /\ InitialSize <= capacity' /\ used' \in 0..capacity'
    BY <1>1, <1>2, <1>4, <2>1 DEF Full
  <2>3. \A h \in 0..gpuHeap : copied'[h] = copied[h] /\ copied[h] \in 0..used
    BY <1>1, <2>1
  <2>4. copied' \in [0..gpuHeap' -> 0..used']
    <3>1. ASSUME NEW h \in 0..gpuHeap + 1
          PROVE  (IF h <= gpuHeap THEN copied[h] ELSE used) \in 0..used + 1
      <4>1. CASE h <= gpuHeap
        <5>1. copied[h] \in 0..used
          BY <1>1, <4>1
        <5> QED BY <1>1, <4>1, <5>1
      <4>2. CASE ~(h <= gpuHeap)
        BY <1>1, <4>2
      <4> QED BY <4>1, <4>2
    <3> QED BY <1>2, <2>1, <3>1
  <2>5. /\ queue' \in QueueType(ListType) /\ QueueOrdered(queue')
        /\ queue'.work = queue.work
        /\ gpuHeap' \in alive' /\ alive' \subseteq 0..gpuHeap' /\ gpuHeap \in alive'
        /\ retired' \in Seq(Retired')
        /\ \A k \in DOMAIN retired' : retired'[k].heap < gpuHeap'
    BY <1>1, <2>1, RetiringKeeps
  <2> QED BY <1>1, <1>2, <1>4, <2>1, <2>2, <2>3, <2>4, <2>5
<1> QED BY <1>3, <1>4

\* While the client is recording, the GPU has nothing to do.
LEMMA NothingSubmitted ==
  ASSUME ViewsInv, stage \in {Outside, Recording, Binding}
  PROVE  queue.work = {}
BY DEF ViewsInv, OneListAtATime, Outside, Recording, Binding

LEMMA StagesDiffer ==
  /\ Recording # Binding /\ Recording # Outside /\ Binding # Outside
  /\ \A p : Flushing(p) # Recording /\ Flushing(p) # Binding /\ Flushing(p) # Outside
  /\ \A p : Flushing(p).at = "flushing" /\ Flushing(p).point = p
<1>1. /\ Recording.at = "recording" /\ Binding.at = "binding" /\ Outside.at = "outside"
      /\ \A p : Flushing(p).at = "flushing" /\ Flushing(p).point = p
  BY DEF Recording, Binding, Outside, Flushing
<1>2. "recording" # "binding" /\ "recording" # "outside" /\ "binding" # "outside"
      /\ "flushing" # "recording" /\ "flushing" # "binding" /\ "flushing" # "outside"
  OBVIOUS
<1> QED BY <1>1, <1>2

\* A view made for a UAV: nothing is bound yet.
LEMMA CreateUAVKeeps == ViewsInv /\ CreateUAV => ViewsInv'
<1> SUFFICES ASSUME ViewsInv, CreateUAV PROVE ViewsInv'
  OBVIOUS
<1>1. /\ stage = Recording /\ list.heap = NoHeap /\ CreateView
      /\ scoped' = scoped \cup {used}
      /\ UNCHANGED <<list, cbvs, stage>>
  BY DEF CreateUAV
<1>2. /\ queue' \in QueueType(ListType) /\ QueueOrdered(queue')
      /\ queue'.work = {}
      /\ capacity' \in Nat /\ InitialSize <= capacity'
      /\ used' = used + 1 /\ used' \in 0..capacity'
      /\ gpuHeap \in Nat /\ gpuHeap' \in {gpuHeap, gpuHeap + 1}
      /\ gpuHeap' \in alive' /\ alive' \subseteq 0..gpuHeap'
      /\ copied' \in [0..gpuHeap' -> 0..used']
      /\ retired' \in Seq(Retired')
      /\ \A k \in DOMAIN retired' : retired'[k].heap < gpuHeap'
  BY <1>1, CreateViewKeeps, NothingSubmitted
<1>3. /\ Shaped /\ ViewsTypeOK /\ ViewsCopied /\ used \in Nat
  BY DEF ViewsInv, Shaped, ViewsTypeOK
<1>4. scoped' \subseteq 0..used' - 1
  BY <1>1, <1>2, <1>3 DEF ViewsTypeOK
<1>5. ViewsTypeOK'
  BY <1>1, <1>2, <1>3, <1>4 DEF ViewsTypeOK, Retired
<1>6. Shaped'
  BY <1>1, <1>2, <1>3, <1>5 DEF Shaped
<1>7. OneListAtATime'
  BY <1>2 DEF OneListAtATime
<1>8. HeapKept'
  BY <1>1, StagesDiffer DEF HeapKept
<1>9. ViewsCopied'
  BY <1>1, <1>3 DEF ViewsCopied
<1> QED BY <1>6, <1>7, <1>8, <1>9 DEF ViewsInv

\* A view made for a constant buffer: should the heap be replaced, the list keeps the
\* old one, and the new one will not fill before the dispatch.
LEMMA CreateCBVKeeps == ViewsInv /\ CreateCBV => ViewsInv'
<1> SUFFICES ASSUME ViewsInv, CreateCBV PROVE ViewsInv'
  OBVIOUS
<1>1. /\ stage = Binding /\ cbvs < MaxCBVs /\ CreateView /\ cbvs' = cbvs + 1
      /\ UNCHANGED <<list, scoped, stage>>
  BY DEF CreateCBV
<1>2. /\ queue' \in QueueType(ListType) /\ QueueOrdered(queue')
      /\ queue'.work = {}
      /\ capacity' \in Nat /\ InitialSize <= capacity'
      /\ used' = used + 1 /\ used' \in 0..capacity'
      /\ gpuHeap \in Nat /\ gpuHeap' \in {gpuHeap, gpuHeap + 1}
      /\ gpuHeap' \in alive' /\ alive' \subseteq 0..gpuHeap' /\ gpuHeap \in alive'
      /\ copied' \in [0..gpuHeap' -> 0..used']
      /\ \A h \in 0..gpuHeap : copied'[h] = copied[h]
      /\ retired' \in Seq(Retired')
      /\ \A k \in DOMAIN retired' : retired'[k].heap < gpuHeap'
      /\ ~Full => alive' = alive /\ capacity' = capacity /\ gpuHeap' = gpuHeap
      /\ Full => capacity' = 2 * capacity
  BY <1>1, CreateViewKeeps, NothingSubmitted
<1>3. /\ Shaped /\ ViewsTypeOK /\ ViewsCopied /\ HeapKept
      /\ used \in Nat /\ capacity \in Nat /\ InitialSize <= capacity
      /\ cbvs \in 0..MaxCBVs /\ MaxCBVs \in 0..InitialSize /\ InitialSize \in Nat
      /\ list.heap \in 0..gpuHeap /\ list.heap # NoHeap
  BY <1>1, ViewsAssumption DEF ViewsInv, Shaped, ViewsTypeOK, HeapKept
<1>4. ViewsTypeOK'
  <2>1. cbvs' \in 0..MaxCBVs
    BY <1>1, <1>3
  <2>2. scoped' \subseteq 0..used' - 1
    BY <1>1, <1>2, <1>3 DEF ViewsTypeOK
  <2>3. list'.heap \in 0..gpuHeap'
    BY <1>1, <1>2, <1>3
  <2> QED BY <1>2, <2>1, <2>2, <2>3 DEF ViewsTypeOK, Retired
<1>5. Shaped'
  BY <1>1, <1>2, <1>3, <1>4 DEF Shaped
<1>6. OneListAtATime'
  BY <1>2 DEF OneListAtATime
<1>7. HeapKept'
  <2>1. list.heap \in alive /\ (list.heap = gpuHeap \/ used + (MaxCBVs - cbvs) <= capacity)
    BY <1>1, <1>3 DEF HeapKept
  <2>2. CASE ~Full
    <3>1. used' + (MaxCBVs - cbvs') = used + (MaxCBVs - cbvs)
      <4>1. used' = used + 1 /\ cbvs' = cbvs + 1
        BY <1>1, <1>2
      <4>2. used \in Nat /\ cbvs \in Nat /\ MaxCBVs \in Nat
        BY <1>3
      <4> QED BY <4>1, <4>2
    <3> QED BY <1>1, <1>2, <1>3, <2>1, <2>2, <3>1 DEF HeapKept
  <2>3. CASE Full
    <3>1. list.heap = gpuHeap
      BY <1>1, <1>3, <2>1, <2>3 DEF Full
    <3>2. used' + (MaxCBVs - cbvs') <= capacity'
      BY <1>1, <1>2, <1>3, <2>3 DEF Full
    <3> QED BY <1>1, <1>2, <1>3, <3>1, <3>2 DEF HeapKept
  <2> QED BY <2>2, <2>3
<1>8. ViewsCopied'
  <2>1. copied'[list.heap] = copied[list.heap]
    BY <1>2, <1>3
  <2> QED BY <1>1, <1>3, <2>1 DEF ViewsCopied
<1> QED BY <1>5, <1>6, <1>7, <1>8 DEF ViewsInv

\* Binding gives the list the heap that all views have just been copied to.
LEMMA PreBindShaderKeeps == ViewsInv /\ PreBindShader => ViewsInv'
<1> SUFFICES ASSUME ViewsInv, PreBindShader PROVE ViewsInv'
  OBVIOUS
<1>1. /\ stage = Recording /\ list.heap = NoHeap
      /\ copied' = [copied EXCEPT ![gpuHeap] = used]
      /\ list' = [list EXCEPT !.heap = gpuHeap]
      /\ cbvs' = 0 /\ stage' = Binding
      /\ UNCHANGED <<queue, capacity, used, gpuHeap, alive, retired, scoped>>
  BY DEF PreBindShader
<1>2. /\ Shaped /\ ViewsTypeOK /\ ViewsCopied /\ queue.work = {}
      /\ gpuHeap \in Nat /\ gpuHeap \in alive /\ gpuHeap # NoHeap /\ gpuHeap \in 0..gpuHeap
      /\ list \in ListType /\ list.uses = {}
      /\ copied \in [0..gpuHeap -> 0..used] /\ used \in Nat /\ scoped \subseteq 0..used - 1
  <2>1. Shaped /\ ViewsTypeOK /\ ViewsCopied /\ queue.work = {}
    BY <1>1, NothingSubmitted DEF ViewsInv, Shaped
  <2>2. gpuHeap \in alive /\ alive \subseteq 0..gpuHeap
    BY <2>1 DEF ViewsTypeOK
  <2>3. gpuHeap \in Nat /\ gpuHeap \in 0..gpuHeap /\ gpuHeap # NoHeap
    BY <2>2, ViewsAssumption
  <2>4. list \in ListType /\ list.uses = {}
    BY <1>1, <2>1 DEF Shaped, ViewsCopied
  <2>5. copied \in [0..gpuHeap -> 0..used] /\ used \in Nat /\ scoped \subseteq 0..used - 1
    BY <2>1 DEF ViewsTypeOK
  <2> QED BY <2>1, <2>2, <2>3, <2>4, <2>5
<1>3. list' \in ListType /\ list'.heap = gpuHeap /\ list'.uses = {}
  BY <1>1, <1>2 DEF ListType
<1>4. copied' \in [0..gpuHeap -> 0..used] /\ copied'[gpuHeap] = used
  BY <1>1, <1>2
<1>5. ViewsTypeOK'
  BY <1>1, <1>2, <1>3, <1>4, ViewsAssumption DEF ViewsTypeOK
<1>6. Shaped'
  BY <1>1, <1>2, <1>3, <1>5 DEF Shaped, Stages
<1>7. OneListAtATime'
  BY <1>1, <1>2 DEF OneListAtATime
<1>8. HeapKept'
  BY <1>1, <1>2, <1>3 DEF HeapKept
<1>9. ViewsCopied'
  BY <1>1, <1>2, <1>3, <1>4 DEF ViewsCopied
<1> QED BY <1>6, <1>7, <1>8, <1>9 DEF ViewsInv

\* The dispatch uses only views that were there when the list was bound.
LEMMA DispatchKeeps == ViewsInv /\ Dispatch => ViewsInv'
<1> SUFFICES ASSUME ViewsInv, Dispatch PROVE ViewsInv'
  OBVIOUS
<1> DEFINE added == {[heap |-> list.heap, index |-> i] : i \in scoped}
<1>1. /\ stage = Binding
      /\ list' = [list EXCEPT !.uses = @ \cup added]
      /\ stage' = Recording
      /\ UNCHANGED <<queue, managerVars, scoped, cbvs>>
  BY DEF Dispatch
<1>2. /\ Shaped /\ ViewsTypeOK /\ ViewsCopied /\ HeapKept /\ queue.work = {}
      /\ list \in ListType /\ list.heap # NoHeap /\ list.heap \in Nat
      /\ scoped \subseteq Nat
      /\ \A i \in scoped : i < copied[list.heap]
  <2>1. Shaped /\ ViewsTypeOK /\ ViewsCopied /\ HeapKept /\ queue.work = {}
    BY <1>1, NothingSubmitted DEF ViewsInv, Shaped
  <2>2. list.heap # NoHeap /\ list \in ListType
    BY <1>1, <2>1 DEF HeapKept, Shaped
  <2>3. list.heap \in Nat
    BY <2>2 DEF ListType
  <2>4. scoped \subseteq Nat
    BY <2>1 DEF ViewsTypeOK
  <2> QED BY <2>1, <2>2, <2>3, <2>4 DEF ViewsCopied
<1>3. /\ added \subseteq [heap : Nat, index : Nat]
      /\ \A d \in added : d.heap = list.heap /\ d.index < copied[list.heap]
  BY <1>2
<1> HIDE DEF added
<1>4. list' \in ListType /\ list'.heap = list.heap /\ list'.uses = list.uses \cup added
  BY <1>1, <1>2, <1>3 DEF ListType
<1>5. ViewsTypeOK'
  BY <1>1, <1>2, <1>4 DEF ViewsTypeOK, managerVars
<1>6. Shaped'
  BY <1>1, <1>2, <1>4, <1>5 DEF Shaped, Stages, managerVars
<1>7. OneListAtATime'
  BY <1>1, <1>2 DEF OneListAtATime
<1>8. HeapKept'
  BY <1>1, <1>2, <1>4, StagesDiffer DEF HeapKept, managerVars
<1>9. ViewsCopied'
  BY <1>1, <1>2, <1>3, <1>4 DEF ViewsCopied, managerVars
<1> QED BY <1>6, <1>7, <1>8, <1>9 DEF ViewsInv

\* A step that leaves the manager, the list and what is recorded for it alone keeps
\* what concerns them.
LEMMA OnlyQueueAndStageMove ==
  ASSUME ViewsInv, UNCHANGED <<managerVars, list, scoped, cbvs>>,
         queue' \in QueueType(ListType), QueueOrdered(queue'),
         stage' \in Stages, stage' = Binding => stage = Binding,
         \A w \in queue'.work :
           /\ stage'.at = "flushing" /\ w.mark <= stage'.point
           /\ w.job = list /\ list.heap # NoHeap
  PROVE  ViewsInv'
<1>1. Shaped /\ ViewsTypeOK /\ HeapKept /\ ViewsCopied
  BY DEF ViewsInv, Shaped
<1>2. Shaped'
  BY <1>1 DEF Shaped, ViewsTypeOK, managerVars
<1>3. OneListAtATime' /\ HeapKept' /\ ViewsCopied'
  BY <1>1 DEF OneListAtATime, HeapKept, ViewsCopied, managerVars
<1> QED BY <1>2, <1>3 DEF ViewsInv

LEMMA BeginExecuteKeeps == ViewsInv /\ BeginExecute => ViewsInv'
<1> SUFFICES ASSUME ViewsInv, BeginExecute PROVE ViewsInv'
  OBVIOUS
<1>1. /\ stage = Outside /\ stage' = Recording
      /\ list' = EmptyList /\ scoped' = {} /\ cbvs' = 0
      /\ UNCHANGED <<queue, managerVars>>
  BY DEF BeginExecute
<1>2. Shaped /\ ViewsTypeOK /\ queue.work = {}
  BY <1>1, NothingSubmitted DEF ViewsInv, Shaped
<1>3. list' \in ListType /\ list'.heap = NoHeap /\ list'.uses = {}
  BY <1>1 DEF EmptyList, ListType
<1>4. cbvs' \in 0..MaxCBVs
  BY <1>1, ViewsAssumption
<1>5. Shaped'
  BY <1>1, <1>2, <1>3, <1>4 DEF Shaped, ViewsTypeOK, Stages, managerVars
<1>6. OneListAtATime' /\ HeapKept' /\ ViewsCopied'
  BY <1>1, <1>2, <1>3, StagesDiffer DEF OneListAtATime, HeapKept, ViewsCopied
<1> QED BY <1>5, <1>6 DEF ViewsInv

\* The list is submitted alone, and the client waits for a later signal.
LEMMA SubmitKeeps == ViewsInv /\ Submit => ViewsInv'
<1> SUFFICES ASSUME ViewsInv, Submit PROVE ViewsInv'
  OBVIOUS
<1> DEFINE q1 == Signal(queue)
           q2 == Execute(q1, list)
           q3 == Signal(q2)
           p == NextSignal(Signal(q1))
<1>1. /\ stage = Recording /\ list.heap # NoHeap
      /\ queue' = Signal(q3) /\ stage' = Flushing(p)
      /\ UNCHANGED <<managerVars, list, scoped, cbvs>>
  BY DEF Submit
<1>2. /\ queue \in QueueType(ListType) /\ QueueOrdered(queue) /\ queue.work = {}
      /\ queue.next \in Nat /\ list \in ListType
  BY <1>1, NothingSubmitted DEF ViewsInv, Shaped, QueueType
<1>3. /\ q1 \in QueueType(ListType) /\ QueueOrdered(q1) /\ q1.work = {}
      /\ q1.next = queue.next + 1
  BY <1>2, SignalProperties
<1>4. p = queue.next + 2
  BY <1>2, <1>3, SignalProperties DEF NextSignal
<1> HIDE DEF q1, p
<1>5. /\ q2 \in QueueType(ListType) /\ QueueOrdered(q2)
      /\ q2.work = {[job |-> list, mark |-> queue.next + 1]}
  BY <1>2, <1>3, ExecuteProperties
<1> HIDE DEF q2
<1>6. /\ q3 \in QueueType(ListType) /\ QueueOrdered(q3) /\ q3.work = q2.work
  BY <1>5, SignalProperties
<1> HIDE DEF q3
<1>7. /\ queue' \in QueueType(ListType) /\ QueueOrdered(queue') /\ queue'.work = q2.work
  BY <1>1, <1>6, SignalProperties
<1>8. stage'.at = "flushing" /\ stage'.point = queue.next + 2 /\ stage' \in Stages
      /\ stage' # Binding
  BY <1>1, <1>2, <1>4, StagesDiffer DEF Stages
<1>9. ASSUME NEW w \in queue'.work
      PROVE  w.job = list /\ w.mark = queue.next + 1
  BY <1>5, <1>7
<1>10. \A w \in queue'.work : w.mark <= stage'.point
  BY <1>2, <1>8, <1>9
<1> QED BY <1>1, <1>7, <1>8, <1>9, <1>10, OnlyQueueAndStageMove

LEMMA FailKeeps == ViewsInv /\ Fail => ViewsInv'
<1> SUFFICES ASSUME ViewsInv, Fail PROVE ViewsInv'
  OBVIOUS
<1> DEFINE q1 == Signal(queue)
<1>1. /\ stage \in {Recording, Binding} /\ stage' = Outside /\ queue' = Signal(q1)
      /\ UNCHANGED <<managerVars, list, scoped, cbvs>>
  BY DEF Fail
<1>2. /\ queue \in QueueType(ListType) /\ QueueOrdered(queue) /\ queue.work = {}
  BY <1>1, NothingSubmitted DEF ViewsInv, Shaped
<1>3. q1 \in QueueType(ListType) /\ QueueOrdered(q1) /\ q1.work = {}
  BY <1>2, SignalProperties
<1> HIDE DEF q1
<1>4. queue' \in QueueType(ListType) /\ QueueOrdered(queue') /\ queue'.work = {}
  BY <1>1, <1>3, SignalProperties
<1>5. stage' \in Stages /\ stage' # Binding
  BY <1>1, StagesDiffer DEF Stages
<1> QED BY <1>1, <1>4, <1>5, OnlyQueueAndStageMove

\* The flush returns when the point is reached, so no work is left before it.
LEMMA FlushReturnsKeeps == ViewsInv /\ FlushReturns => ViewsInv'
<1> SUFFICES ASSUME ViewsInv, FlushReturns PROVE ViewsInv'
  OBVIOUS
<1>1. /\ stage.at = "flushing" /\ queue.completed >= stage.point
      /\ stage' = Outside /\ UNCHANGED <<queue, managerVars, list, scoped, cbvs>>
  BY DEF FlushReturns, HasCompleted
<1>2. /\ queue \in QueueType(ListType) /\ QueueOrdered(queue) /\ OneListAtATime
      /\ stage \in Stages
  BY DEF ViewsInv, Shaped
<1>3. stage.point \in Nat
  BY <1>2 DEF Stages, Outside, Recording, Binding, Flushing
<1>4. ASSUME NEW w \in queue.work PROVE FALSE
  <2>1. w.mark \in Nat /\ queue.completed \in Nat
    BY <1>2 DEF QueueType
  <2>2. w.mark <= stage.point /\ queue.completed < w.mark
    BY <1>2 DEF OneListAtATime, QueueOrdered
  <2> QED BY <1>1, <1>3, <2>1, <2>2
<1>5. stage' \in Stages /\ stage' # Binding /\ queue' = queue
  BY <1>1, StagesDiffer DEF Stages
<1> QED BY <1>1, <1>2, <1>4, <1>5, OnlyQueueAndStageMove

LEMMA GpuKeeps == ViewsInv /\ (GpuFinish \/ GpuAdvance) => ViewsInv'
<1> SUFFICES ASSUME ViewsInv, GpuFinish \/ GpuAdvance PROVE ViewsInv'
  OBVIOUS
<1>1. /\ queue \in QueueType(ListType) /\ QueueOrdered(queue) /\ OneListAtATime
      /\ stage \in Stages
  BY DEF ViewsInv, Shaped
<1>2. UNCHANGED <<managerVars, list, scoped, cbvs, stage>>
  BY DEF GpuFinish, GpuAdvance
<1>3. /\ queue' \in QueueType(ListType) /\ QueueOrdered(queue')
      /\ queue'.work \subseteq queue.work
  <2>1. CASE GpuFinish
    <3>1. PICK w \in queue.work : queue' = Finish(queue, w)
      BY <2>1 DEF GpuFinish
    <3> QED BY <1>1, <3>1, FinishProperties
  <2>2. CASE GpuAdvance
    BY <1>1, <2>2, AdvanceProperties DEF GpuAdvance
  <2> QED BY <2>1, <2>2
<1>4. \A w \in queue'.work :
        /\ stage'.at = "flushing" /\ w.mark <= stage'.point
        /\ w.job = list /\ list.heap # NoHeap
  BY <1>1, <1>2, <1>3 DEF OneListAtATime
<1>5. stage' \in Stages /\ (stage' = Binding => stage = Binding)
  BY <1>1, <1>2
<1> QED BY <1>2, <1>3, <1>4, <1>5, OnlyQueueAndStageMove

LEMMA ViewsStep == ViewsInv /\ [ViewsNext]_viewsVars => ViewsInv'
<1> SUFFICES ASSUME ViewsInv, [ViewsNext]_viewsVars PROVE ViewsInv'
  OBVIOUS
<1>1. CASE UNCHANGED viewsVars
  <2>1. UNCHANGED <<queue, managerVars, list, scoped, cbvs, stage>>
    BY <1>1 DEF viewsVars, managerVars
  <2>2. /\ queue \in QueueType(ListType) /\ QueueOrdered(queue) /\ OneListAtATime
        /\ stage \in Stages
    BY DEF ViewsInv, Shaped
  <2>3. /\ queue' \in QueueType(ListType) /\ QueueOrdered(queue') /\ stage' \in Stages
        /\ \A w \in queue'.work :
             /\ stage'.at = "flushing" /\ w.mark <= stage'.point
             /\ w.job = list /\ list.heap # NoHeap
    BY <2>1, <2>2 DEF OneListAtATime
  <2> QED BY <2>1, <2>3, OnlyQueueAndStageMove
<1> QED
  BY <1>1, BeginExecuteKeeps, CreateUAVKeeps, PreBindShaderKeeps, CreateCBVKeeps,
     DispatchKeeps, SubmitKeeps, FailKeeps, FlushReturnsKeeps, GpuKeeps DEF ViewsNext

-----------------------------------------------------------------------------
(* Theorems *)

\* The strengthened invariant holds in every state the client can reach.
THEOREM ViewsInvariance == ViewsSpec => []ViewsInv
<1>1. ViewsInit => ViewsInv
  BY InitSuits
<1>2. ViewsInv /\ [ViewsNext]_viewsVars => ViewsInv'
  BY ViewsStep
<1> QED BY <1>1, <1>2, PTL DEF ViewsSpec

\* The state has its shape: no descriptor beyond the heap is ever written.
THEOREM ViewsTypeCorrect == ViewsSpec => []ViewsTypeOK
<1>1. ViewsInv => ViewsTypeOK
  BY DEF ViewsInv, Shaped
<1> QED BY <1>1, ViewsInvariance, PTL

\* No heap is destroyed while a list that was given it is recorded, submitted or run:
\* one dispatch replaces the heap at most once, and the flush comes before the next.
THEOREM HeapsOutlive == ViewsSpec => []HeapsOutliveWork
<1>1. ViewsInv => HeapsOutliveWork
  <2> SUFFICES ASSUME ViewsInv PROVE HeapsOutliveWork
    OBVIOUS
  <2> QED BY DEF ViewsInv, OneListAtATime, HeapKept, HeapsOutliveWork
<1> QED BY <1>1, ViewsInvariance, PTL

\* The GPU finds every view a submitted list uses in the heap the list was given.
THEOREM WorkSeesViews == ViewsSpec => []WorkSeesItsViews
<1>1. ViewsInv => WorkSeesItsViews
  <2> SUFFICES ASSUME ViewsInv PROVE WorkSeesItsViews
    OBVIOUS
  <2> QED BY DEF ViewsInv, OneListAtATime, ViewsCopied, WorkSeesItsViews
<1> QED BY <1>1, ViewsInvariance, PTL

=============================================================================
