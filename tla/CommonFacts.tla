----------------------------- MODULE CommonFacts -----------------------------
(* The facts the proofs of the other modules share: induction, folds, sequences  *)
(* element by element, wrap-around, and what each operation of GpuTimeline does to a queue  *)
(* and keeps of its order.                                                       *)
EXTENDS Integers, Sequences, SequenceTheorems, WellFoundedInduction, GpuTimeline, TLAPS

(* Induction, over sets of numbers: what is to be proved of a number is that it is in *)
(* the set of those it holds of.                                                       *)

\* A set of natural numbers has a least one.
LEMMA LeastNumber ==
  ASSUME NEW T, T \subseteq Nat, T # {}
  PROVE  \E x \in T : \A y \in T : x <= y
<1> DEFINE R == OpToRel(<, Nat)
<1>1. IsWellFoundedOn(R, Nat)
  BY NatLessThanWellFounded
<1>2. \A x, y \in Nat : <<x, y>> \in R <=> x < y
  BY DEF OpToRel
<1> HIDE DEF R
<1>3. PICK x \in T : \A y \in T : ~ (<<y, x>> \in R)
  BY <1>1, WFMin
<1>4. ASSUME NEW y \in T PROVE x <= y
  <2>1. x \in Nat /\ y \in Nat
    OBVIOUS
  <2>2. ~(y < x)
    BY <2>1, <1>2, <1>3
  <2> QED BY <2>1, <2>2
<1> QED BY <1>3, <1>4

LEMMA EveryNumber ==
  ASSUME NEW T, 0 \in T, \A k \in Nat : k \in T => k + 1 \in T
  PROVE  \A k \in Nat : k \in T
<1> SUFFICES ASSUME Nat \ T # {} PROVE FALSE
  OBVIOUS
<1>1. PICK x \in Nat \ T : \A y \in Nat \ T : x <= y
  BY LeastNumber
<1>2. x # 0
  OBVIOUS
<1>3. x - 1 \in Nat /\ ~(x <= x - 1) /\ (x - 1) + 1 = x
  BY <1>2
<1> QED BY <1>1, <1>3

\* The same up to a bound.
LEMMA EveryNumberTo ==
  ASSUME NEW n \in Nat, NEW T, 0 \in T, \A k \in 0..n - 1 : k \in T => k + 1 \in T
  PROVE  \A k \in 0..n : k \in T
<1> DEFINE U == {k \in Nat : k <= n => k \in T}
<1>1. 0 \in U
  OBVIOUS
<1>2. ASSUME NEW k \in Nat, k \in U PROVE k + 1 \in U
  <2>1. CASE k + 1 <= n
    <3>1. k \in 0..n - 1 /\ k \in T
      BY <1>2, <2>1
    <3> QED BY <3>1
  <2>2. CASE ~(k + 1 <= n)
    BY <2>2
  <2> QED BY <2>1, <2>2
<1> HIDE DEF U
<1>3. \A k \in Nat : k \in U
  BY <1>1, <1>2, EveryNumber
<1> QED BY <1>3 DEF U

\* The same with all smaller numbers to rely on.
LEMMA EveryNumberFromBelow ==
  ASSUME NEW T, \A k \in Nat : (\A j \in 0..k - 1 : j \in T) => k \in T
  PROVE  \A k \in Nat : k \in T
<1> SUFFICES ASSUME Nat \ T # {} PROVE FALSE
  OBVIOUS
<1>1. PICK x \in Nat \ T : \A y \in Nat \ T : x <= y
  BY LeastNumber
<1>2. \A j \in 0..x - 1 : j \in Nat /\ ~(x <= j)
  OBVIOUS
<1> QED BY <1>1, <1>2

-----------------------------------------------------------------------------
(* Folds: the function on sets of indices that defines one, and its values step by  *)
(* step. G is the operation of the fold on what it has and the next index.           *)

Largest(t) == CHOOSE x \in t : \A y \in t : x >= y

LEMMA LargestTo ==
  ASSUME NEW n \in Nat, NEW t, t \subseteq 1..n + 1, n + 1 \in t
  PROVE  Largest(t) = n + 1 /\ t \ {n + 1} \subseteq 1..n
<1>1. \A y \in t : n + 1 >= y
  OBVIOUS
<1>2. Largest(t) \in t /\ \A y \in t : Largest(t) >= y
  BY <1>1 DEF Largest
<1>3. Largest(t) \in 1..n + 1 /\ Largest(t) >= n + 1
  BY <1>2
<1>4. \A y \in t : y # n + 1 => y \in 1..n
  OBVIOUS
<1> QED BY <1>3, <1>4

LEMMA LargestIn ==
  ASSUME NEW n \in Nat, NEW t, t \subseteq 1..n, t # {}
  PROVE  Largest(t) \in t
<1> DEFINE U == {k \in Nat : n - k \in t}
<1>1. PICK x \in t : TRUE
  OBVIOUS
<1>2. x \in 1..n /\ n - x \in Nat /\ n - (n - x) = x
  OBVIOUS
<1>3. U \subseteq Nat /\ U # {}
  BY <1>2
<1>4. PICK k \in U : \A j \in U : k <= j
  BY <1>3, LeastNumber
<1>5. ASSUME NEW y \in t PROVE n - k >= y
  <2>1. y \in 1..n /\ n - y \in Nat /\ n - (n - y) = y
    OBVIOUS
  <2>2. k <= n - y
    BY <1>4, <2>1
  <2> QED BY <1>4, <2>1, <2>2
<1>6. n - k \in t
  BY <1>4
<1> HIDE DEF U
<1> QED BY <1>5, <1>6 DEF Largest

IsFold(iter, n, base, G) ==
  iter = [t \in SUBSET (1..n) |->
            IF t = {} THEN base ELSE G[<<iter[t \ {Largest(t)}], Largest(t)>>]]

LEMMA FoldExists ==
  ASSUME NEW n \in Nat, NEW V, NEW base \in V, NEW G,
         \A v \in V : \A k \in 1..n : G[<<v, k>>] \in V
  PROVE  \E iter \in [SUBSET (1..n) -> V] : IsFold(iter, n, base, G)
<1> DEFINE T == {m \in 0..n : \E iter \in [SUBSET (1..m) -> V] : IsFold(iter, m, base, G)}
<1>1. 0 \in T
  <2> DEFINE iter == [t \in SUBSET (1..0) |-> base]
  <2>1. iter \in [SUBSET (1..0) -> V]
    OBVIOUS
  <2>2. \A t \in SUBSET (1..0) : t = {}
    OBVIOUS
  <2>3. IsFold(iter, 0, base, G)
    BY <2>2 DEF IsFold
  <2> QED BY <2>1, <2>3
<1>2. ASSUME NEW m \in 0..n - 1, m \in T PROVE m + 1 \in T
  <2>1. PICK old \in [SUBSET (1..m) -> V] : IsFold(old, m, base, G)
    BY <1>2
  <2>2. m + 1 \in 1..n /\ m \in Nat
    OBVIOUS
  <2> DEFINE iter == [t \in SUBSET (1..m + 1) |->
                        IF m + 1 \in t THEN G[<<old[t \ {m + 1}], m + 1>>] ELSE old[t]]
  <2>3. \A t \in SUBSET (1..m + 1) : m + 1 \notin t => t \in SUBSET (1..m)
    <3> SUFFICES ASSUME NEW t \in SUBSET (1..m + 1), m + 1 \notin t, NEW x \in t PROVE x \in 1..m
      OBVIOUS
    <3>1. x \in 1..m + 1 /\ x # m + 1
      OBVIOUS
    <3> QED BY <3>1
  <2>4. \A t \in SUBSET (1..m + 1) : m + 1 \in t => t \ {m + 1} \in SUBSET (1..m) /\ Largest(t) = m + 1
    BY <2>2, LargestTo
  <2>5. iter \in [SUBSET (1..m + 1) -> V]
    BY <2>2, <2>3, <2>4
  <2>6. SUBSET (1..m) \subseteq SUBSET (1..m + 1) /\ \A t \in SUBSET (1..m) : m + 1 \notin t
    OBVIOUS
  <2>7. \A t \in SUBSET (1..m) : iter[t] = old[t]
    BY <2>6
  <2>8. ASSUME NEW t \in SUBSET (1..m + 1)
        PROVE  iter[t] = IF t = {} THEN base ELSE G[<<iter[t \ {Largest(t)}], Largest(t)>>]
    <3>1. CASE m + 1 \in t
      <4>1. iter[t] = G[<<old[t \ {m + 1}], m + 1>>]
        BY <3>1
      <4>2. iter[t \ {m + 1}] = old[t \ {m + 1}]
        BY <2>4, <2>7, <3>1
      <4> HIDE DEF iter
      <4> QED BY <2>4, <3>1, <4>1, <4>2
    <3>2. CASE m + 1 \notin t /\ t # {}
      <4>1. t \in SUBSET (1..m) /\ Largest(t) \in t /\ t \ {Largest(t)} \in SUBSET (1..m)
        BY <2>2, <2>3, <3>2, LargestIn
      <4>2. iter[t] = old[t] /\ iter[t \ {Largest(t)}] = old[t \ {Largest(t)}]
        BY <2>7, <4>1
      <4>3. old[t] = G[<<old[t \ {Largest(t)}], Largest(t)>>]
        BY <2>1, <3>2, <4>1 DEF IsFold
      <4> HIDE DEF iter
      <4> QED BY <3>2, <4>2, <4>3
    <3>3. CASE t = {}
      <4>1. t \in SUBSET (1..m) /\ iter[t] = old[t]
        BY <2>7, <3>3
      <4>2. old[t] = base
        BY <2>1, <3>3, <4>1 DEF IsFold
      <4> HIDE DEF iter
      <4> QED BY <3>3, <4>1, <4>2
    <3> QED BY <3>1, <3>2, <3>3
  <2>9. iter = [t \in SUBSET (1..m + 1) |-> iter[t]]
    OBVIOUS
  <2> HIDE DEF iter
  <2>10. IsFold(iter, m + 1, base, G)
    BY <2>8, <2>9, Zenon DEF IsFold
  <2>11. m + 1 \in 0..n
    OBVIOUS
  <2> QED BY <2>5, <2>10, <2>11
<1> HIDE DEF T
<1>3. \A m \in 0..n : m \in T
  BY <1>1, <1>2, EveryNumberTo
<1>4. n \in 0..n
  OBVIOUS
<1> QED BY <1>3, <1>4 DEF T

\* The values of a fold on the indices up to k, one after the other.
LEMMA FoldSteps ==
  ASSUME NEW n \in Nat, NEW base, NEW G, NEW iter, IsFold(iter, n, base, G)
  PROVE  /\ iter[1..0] = base
         /\ \A k \in 0..n - 1 : iter[1..k + 1] = G[<<iter[1..k], k + 1>>]
<1>1. 1..0 = {} /\ {} \in SUBSET (1..n)
  OBVIOUS
<1>2. iter[1..0] = base
  BY <1>1 DEF IsFold
<1>3. ASSUME NEW k \in 0..n - 1 PROVE iter[1..k + 1] = G[<<iter[1..k], k + 1>>]
  <2>1. k \in Nat /\ k + 1 \in 1..k + 1 /\ 1..k + 1 \in SUBSET (1..n) /\ 1..k + 1 # {}
    OBVIOUS
  <2>2. Largest(1..k + 1) = k + 1
    BY <2>1, LargestTo
  <2>3. (1..k + 1) \ {k + 1} = 1..k
    OBVIOUS
  <2>4. iter[1..k + 1] = G[<<iter[(1..k + 1) \ {Largest(1..k + 1)}], Largest(1..k + 1)>>]
    BY <2>1, Zenon DEF IsFold
  <2> QED BY <2>2, <2>3, <2>4
<1> QED BY <1>2, <1>3

\* What is computed step by step from the indices 1 to n: a function on 0..n, which exists.
IsRun(run, n, base, G) ==
  run = [k \in 0..n |-> IF k = 0 THEN base ELSE G[<<run[k - 1], k>>]]

LEMMA RunExists ==
  ASSUME NEW n \in Nat, NEW V, NEW base \in V, NEW G,
         \A v \in V : \A k \in 1..n : G[<<v, k>>] \in V
  PROVE  \E run \in [0..n -> V] : IsRun(run, n, base, G)
<1>1. PICK iter \in [SUBSET (1..n) -> V] : IsFold(iter, n, base, G)
  BY FoldExists
<1>2. /\ iter[1..0] = base
      /\ \A k \in 0..n - 1 : iter[1..k + 1] = G[<<iter[1..k], k + 1>>]
  BY <1>1, FoldSteps
<1> DEFINE run == [k \in 0..n |-> iter[1..k]]
<1>3. run \in [0..n -> V]
  <2>1. \A k \in 0..n : 1..k \in SUBSET (1..n)
    OBVIOUS
  <2> QED BY <1>1, <2>1
<1>4. ASSUME NEW k \in 0..n PROVE run[k] = IF k = 0 THEN base ELSE G[<<run[k - 1], k>>]
  <2>1. CASE k = 0
    BY <1>2, <2>1
  <2>2. CASE k # 0
    <3>1. k - 1 \in 0..n - 1 /\ k - 1 \in 0..n /\ (k - 1) + 1 = k
      BY <2>2
    <3>2. iter[1..k] = G[<<iter[1..k - 1], k>>]
      BY <1>2, <3>1
    <3> QED BY <2>2, <3>1, <3>2
  <2> QED BY <2>1, <2>2
<1>5. run = [k \in 0..n |-> run[k]]
  OBVIOUS
<1> HIDE DEF run
<1>6. IsRun(run, n, base, G)
  BY <1>4, <1>5, Zenon DEF IsRun
<1> QED BY <1>3, <1>6

-----------------------------------------------------------------------------
\* A function on 1..n is a sequence of length n.
LEMMA FunctionIsSeq ==
  ASSUME NEW S, NEW n \in Nat, NEW f \in [1..n -> S]
  PROVE  f \in Seq(S) /\ Len(f) = n
OBVIOUS

\* A sequence over a set is one over every larger set.
LEMMA SeqOverMore ==
  ASSUME NEW S, NEW T, S \subseteq T, NEW s \in Seq(S)
  PROVE  s \in Seq(T)
<1>1. Len(s) \in Nat /\ s \in [1..Len(s) -> T]
  OBVIOUS
<1> QED BY <1>1, FunctionIsSeq

\* The concatenation of two sequences, element by element.
LEMMA ConcatElements ==
  ASSUME NEW S, NEW s \in Seq(S), NEW t \in Seq(S)
  PROVE  /\ s \o t \in Seq(S)
         /\ Len(s \o t) = Len(s) + Len(t)
         /\ \A k \in 1..Len(s) : (s \o t)[k] = s[k]
         /\ \A k \in 1..Len(t) : (s \o t)[Len(s) + k] = t[k]
<1>1. /\ s \o t \in Seq(S)
      /\ Len(s \o t) = Len(s) + Len(t)
  BY ConcatProperties, Zenon
<1>2. \A k \in 1..Len(s) + Len(t) :
        (s \o t)[k] = IF k <= Len(s) THEN s[k] ELSE t[k - Len(s)]
  BY ConcatProperties, Zenon
<1>3. Len(s) \in Nat /\ Len(t) \in Nat
  OBVIOUS
<1>4. ASSUME NEW k \in 1..Len(t) PROVE (s \o t)[Len(s) + k] = t[k]
  <2>1. /\ Len(s) + k \in 1..Len(s) + Len(t)
        /\ ~(Len(s) + k <= Len(s))
        /\ (Len(s) + k) - Len(s) = k
    BY <1>3
  <2> QED BY <1>2, <2>1
<1>5. ASSUME NEW k \in 1..Len(s) PROVE (s \o t)[k] = s[k]
  <2>1. k \in 1..Len(s) + Len(t) /\ k <= Len(s)
    BY <1>3
  <2> QED BY <1>2, <2>1
<1> QED BY <1>1, <1>4, <1>5

\* A stretch of a sequence, element by element.
LEMMA SubSeqElements ==
  ASSUME NEW S, NEW s \in Seq(S), NEW m \in 1..Len(s) + 1, NEW n \in m - 1..Len(s)
  PROVE  /\ SubSeq(s, m, n) \in Seq(S)
         /\ Len(SubSeq(s, m, n)) = n - m + 1
         /\ \A k \in 1..n - m + 1 : SubSeq(s, m, n)[k] = s[(m - 1) + k]
<1> QED BY SubSeqProperties

\* Sequences with the same elements are the same.
LEMMA SameElements ==
  ASSUME NEW S, NEW s \in Seq(S), NEW t \in Seq(S),
         Len(s) = Len(t),
         \A k \in 1..Len(s) : s[k] = t[k]
  PROVE  s = t
OBVIOUS

\* What Append and Tail do.
LEMMA AppendElements ==
  ASSUME NEW S, NEW s \in Seq(S), NEW e \in S
  PROVE  /\ Append(s, e) \in Seq(S)
         /\ Len(Append(s, e)) = Len(s) + 1
         /\ \A k \in 1..Len(s) : Append(s, e)[k] = s[k]
         /\ Append(s, e)[Len(s) + 1] = e
OBVIOUS

LEMMA TailElements ==
  ASSUME NEW S, NEW s \in Seq(S), s # <<>>
  PROVE  /\ Tail(s) \in Seq(S)
         /\ Len(s) >= 1
         /\ Len(Tail(s)) = Len(s) - 1
         /\ \A k \in 1..Len(s) - 1 : Tail(s)[k] = s[k + 1]
OBVIOUS

\* An index less than twice the modulus wraps at most once.
LEMMA WrapsOnce ==
  ASSUME NEW n \in Nat \ {0}, NEW a \in 0..2 * n - 1
  PROVE  a % n = IF a < n THEN a ELSE a - n
OBVIOUS

-----------------------------------------------------------------------------
\* A new queue is in order.
LEMMA NewQueueProperties ==
  ASSUME NEW Job
  PROVE  /\ NewQueue \in QueueType(Job) /\ QueueOrdered(NewQueue)
         /\ NewQueue.next = 1 /\ NewQueue.completed = 0 /\ NewQueue.work = {}
BY DEF NewQueue, QueueType, QueueOrdered

\* Signal takes the next value and disturbs nothing before it.
LEMMA SignalProperties ==
  ASSUME NEW Job, NEW q \in QueueType(Job), QueueOrdered(q)
  PROVE  /\ Signal(q) \in QueueType(Job) /\ QueueOrdered(Signal(q))
         /\ Signal(q).next = q.next + 1
         /\ Signal(q).completed = q.completed
         /\ Signal(q).work = q.work
<1>1. /\ Signal(q) \in QueueType(Job)
      /\ Signal(q).next = q.next + 1
      /\ Signal(q).completed = q.completed
      /\ Signal(q).work = q.work
      /\ q.next \in Nat /\ q.completed \in Nat
      /\ \A w \in q.work : w.mark \in Nat
  BY DEF Signal, QueueType
<1> QED BY <1>1 DEF QueueOrdered

\* Execute adds one job, behind every signal sent so far.
LEMMA ExecuteProperties ==
  ASSUME NEW Job, NEW q \in QueueType(Job), QueueOrdered(q), NEW job \in Job
  PROVE  /\ Execute(q, job) \in QueueType(Job) /\ QueueOrdered(Execute(q, job))
         /\ Execute(q, job).next = q.next
         /\ Execute(q, job).completed = q.completed
         /\ Execute(q, job).work = q.work \cup {[job |-> job, mark |-> q.next]}
<1>1. /\ Execute(q, job) \in QueueType(Job)
      /\ Execute(q, job).next = q.next
      /\ Execute(q, job).completed = q.completed
      /\ Execute(q, job).work = q.work \cup {[job |-> job, mark |-> q.next]}
      /\ q.next \in Nat /\ q.completed \in Nat
  BY DEF Execute, QueueType
<1> QED BY <1>1 DEF QueueOrdered

\* Finish removes one job.
LEMMA FinishProperties ==
  ASSUME NEW Job, NEW q \in QueueType(Job), QueueOrdered(q), NEW w \in q.work
  PROVE  /\ Finish(q, w) \in QueueType(Job) /\ QueueOrdered(Finish(q, w))
         /\ Finish(q, w).next = q.next
         /\ Finish(q, w).completed = q.completed
         /\ Finish(q, w).work = q.work \ {w}
<1>1. /\ Finish(q, w) \in QueueType(Job)
      /\ Finish(q, w).next = q.next
      /\ Finish(q, w).completed = q.completed
      /\ Finish(q, w).work = q.work \ {w}
  BY DEF Finish, QueueType
<1> QED BY <1>1 DEF QueueOrdered

\* The fence moves one value on, and never past work submitted before it.
LEMMA AdvanceProperties ==
  ASSUME NEW Job, NEW q \in QueueType(Job), QueueOrdered(q), CanAdvance(q)
  PROVE  /\ Advance(q) \in QueueType(Job) /\ QueueOrdered(Advance(q))
         /\ Advance(q).next = q.next
         /\ Advance(q).completed = q.completed + 1
         /\ Advance(q).work = q.work
<1>1. /\ Advance(q) \in QueueType(Job)
      /\ Advance(q).next = q.next
      /\ Advance(q).completed = q.completed + 1
      /\ Advance(q).work = q.work
      /\ q.next \in Nat /\ q.completed \in Nat
  BY DEF Advance, QueueType
<1> QED BY <1>1 DEF QueueOrdered, CanAdvance

=============================================================================
