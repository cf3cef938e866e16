----------------------------- MODULE EngineProofs -----------------------------
(***************************************************************************)
(* Proofs about CommandEngine under its two clients: ResourceStates, which    *)
(* may do anything the engine allows, and ShaderTestDriver, which does what   *)
(* RunShaderTest does; for any number of buffers, allocators and signals.     *)
(***************************************************************************)
EXTENDS ResourceStates, ShaderTestDriver, CommonFacts

Elements(s) == {s[k] : k \in DOMAIN s}
IsSequence(s) == s \in Seq(Elements(s))

ReadbackBuffers == {readbacks[k].buffer : k \in DOMAIN readbacks}

\* Every owned buffer belongs to the scope, to a readback, or to nobody any more.
OwnedAccounted == owned \subseteq Elements(scoped) \cup ReadbackBuffers \cup leaked

Sequences == IsSequence(scoped) /\ IsSequence(readbacks) /\ constants \in 0..Len(scoped)

\* The list starts with the access of b that its GPUResource has.
Agrees(b) == m_CurrentBarrier[b] = recorded[b]

UnownedAgree == \A b \in Buffer : b \in owned \/ Agrees(b)

\* The inductive invariant: the scope is what makes BarriersContinue hold, since it is
\* empty when no list is recorded and what it had is gone.
StatesInv ==
  /\ Sequences
  /\ owned \subseteq Buffer
  /\ OwnedAccounted
  /\ stage # Recording => scoped = <<>>
  /\ UnownedAgree
  /\ BarriersContinue

\* Sequences: what appending, inserting and removing an element leaves of the others.
LEMMA InSmallerSet ==
  ASSUME NEW T, NEW s \in Seq(T)
  PROVE  IsSequence(s)
<1>1. \A k \in 1..Len(s) : s[k] \in Elements(s)
  BY DEF Elements
<1>2. s \in [1..Len(s) -> Elements(s)] /\ Len(s) \in Nat
  BY <1>1
<1> QED BY <1>2 DEF IsSequence

LEMMA Appending ==
  ASSUME NEW s, IsSequence(s), NEW e
  PROVE  /\ IsSequence(Append(s, e))
         /\ Elements(Append(s, e)) = Elements(s) \cup {e}
         /\ Len(Append(s, e)) = Len(s) + 1 /\ Len(s) \in Nat
<1> DEFINE T == Elements(s) \cup {e}
<1>1. s \in Seq(T)
  <2>1. s \in Seq(Elements(s))
    BY DEF IsSequence
  <2>2. \A k \in 1..Len(s) : s[k] \in T
    BY <2>1
  <2>3. s \in [1..Len(s) -> T] /\ Len(s) \in Nat
    BY <2>1, <2>2
  <2> QED BY <2>3
<1>2. e \in T
  OBVIOUS
<1> HIDE DEF T
<1>3. /\ Append(s, e) \in Seq(T) /\ Len(s) \in Nat
      /\ Len(Append(s, e)) = Len(s) + 1
      /\ DOMAIN s = 1..Len(s)
      /\ DOMAIN Append(s, e) = 1..Len(s) + 1
      /\ Append(s, e)[Len(s) + 1] = e
      /\ \A k \in 1..Len(s) : Append(s, e)[k] = s[k]
  BY <1>1, <1>2
<1>4. Elements(Append(s, e)) = Elements(s) \cup {e}
  BY <1>3 DEF Elements
<1>5. IsSequence(Append(s, e))
  BY <1>3, InSmallerSet
<1> QED BY <1>3, <1>4, <1>5

LEMMA Concatenating ==
  ASSUME NEW T, NEW a \in Seq(T), NEW z \in Seq(T)
  PROVE  /\ a \o z \in Seq(T) /\ Len(a \o z) = Len(a) + Len(z)
         /\ DOMAIN (a \o z) = 1..Len(a) + Len(z)
         /\ \A i \in 1..Len(a) : (a \o z)[i] = a[i]
         /\ \A i \in 1..Len(z) : (a \o z)[Len(a) + i] = z[i]
OBVIOUS

LEMMA Inserting ==
  ASSUME NEW s, IsSequence(s), NEW e, NEW n \in 0..Len(s)
  PROVE  LET t == SubSeq(s, 1, n) \o <<e>> \o SubSeq(s, n + 1, Len(s))
         IN  /\ IsSequence(t) /\ Elements(t) = Elements(s) \cup {e}
             /\ n + 1 \in 0..Len(t)
<1> DEFINE T == Elements(s) \cup {e}
<1>1. s \in Seq(T)
  <2>1. s \in Seq(Elements(s))
    BY DEF IsSequence
  <2>2. \A k \in 1..Len(s) : s[k] \in T
    BY <2>1
  <2>3. s \in [1..Len(s) -> T] /\ Len(s) \in Nat
    BY <2>1, <2>2
  <2> QED BY <2>3
<1>2. e \in T
  OBVIOUS
<1> HIDE DEF T
<1>3. PICK a : a = SubSeq(s, 1, n)
  OBVIOUS
<1>4. PICK z : z = SubSeq(s, n + 1, Len(s))
  OBVIOUS
<1>5. PICK t : t = a \o <<e>> \o z
  OBVIOUS
<1>6. /\ a \in Seq(T) /\ Len(a) = n /\ Len(s) \in Nat /\ n \in Nat
      /\ \A k \in 1..n : a[k] = s[k]
  BY <1>1, <1>3
<1>7. /\ z \in Seq(T) /\ Len(z) = Len(s) - n
      /\ \A k \in 1..Len(s) - n : z[k] = s[n + k]
  BY <1>1, <1>4, <1>6
<1>8. /\ t \in Seq(T) /\ Len(t) = Len(s) + 1 /\ DOMAIN t = 1..Len(s) + 1
      /\ \A k \in 1..n : t[k] = s[k]
      /\ t[n + 1] = e
      /\ \A k \in 1..Len(s) - n : t[n + 1 + k] = s[n + k]
  <2>1. <<e>> \in Seq(T) /\ Len(<<e>>) = 1 /\ <<e>>[1] = e
    BY <1>2
  <2>2. PICK b : b = a \o <<e>>
    OBVIOUS
  <2>3. /\ b \in Seq(T) /\ Len(b) = n + 1
        /\ \A k \in 1..n : b[k] = s[k]
        /\ b[n + 1] = e
    <3>1. b \in Seq(T) /\ Len(b) = n + 1
      BY <2>1, <2>2, <1>6, Concatenating
    <3>2. \A k \in 1..n : b[k] = s[k]
      BY <2>1, <2>2, <1>6, Concatenating
    <3>3. b[n + 1] = e
      <4>1. 1 \in 1..Len(<<e>>)
        BY <2>1
      <4> QED BY <4>1, <2>1, <2>2, <1>6, Concatenating
    <3> QED BY <3>1, <3>2, <3>3
  <2>4. t = b \o z
    BY <1>5, <2>2
  <2>5. /\ t \in Seq(T) /\ Len(t) = (n + 1) + (Len(s) - n) /\ DOMAIN t = 1..(n + 1) + (Len(s) - n)
        /\ \A k \in 1..n + 1 : t[k] = b[k]
        /\ \A k \in 1..Len(s) - n : t[n + 1 + k] = z[k]
    <3>1. b \in Seq(T) /\ z \in Seq(T)
      BY <2>3, <1>7
    <3>2. /\ b \o z \in Seq(T) /\ Len(b \o z) = Len(b) + Len(z)
          /\ DOMAIN (b \o z) = 1..Len(b) + Len(z)
          /\ \A i \in 1..Len(b) : (b \o z)[i] = b[i]
          /\ \A i \in 1..Len(z) : (b \o z)[Len(b) + i] = z[i]
      BY <3>1, Concatenating
    <3> QED BY <3>2, <2>3, <2>4, <1>7, Zenon
  <2>6. (n + 1) + (Len(s) - n) = Len(s) + 1 /\ n + 1 \in 1..n + 1 /\ \A k \in 1..n : k \in 1..n + 1
    BY <1>6
  <2> QED BY <2>3, <2>5, <2>6, <1>7
<1>9. IsSequence(t)
  BY <1>8, InSmallerSet
<1>10. e \in Elements(t)
  BY <1>8, <1>6 DEF Elements
<1>11. ASSUME NEW k \in DOMAIN s
       PROVE  s[k] \in Elements(t)
  <2>1. k \in 1..Len(s)
    BY <1>1
  <2>2. CASE k <= n
    <3>1. k \in DOMAIN t /\ t[k] = s[k]
      BY <2>1, <2>2, <1>6, <1>8
    <3> QED BY <3>1 DEF Elements
  <2>3. CASE k > n
    <3>1. k - n \in 1..Len(s) - n /\ n + (k - n) = k /\ n + 1 + (k - n) = k + 1
      BY <2>1, <2>3, <1>6
    <3>2. t[k + 1] = s[k] /\ k + 1 \in DOMAIN t
      BY <3>1, <2>1, <1>6, <1>8
    <3> QED BY <3>2 DEF Elements
  <2> QED BY <2>1, <2>2, <2>3, <1>6
<1>12. Elements(s) \subseteq Elements(t)
  BY <1>11 DEF Elements
<1>13. n + 1 \in 0..Len(t)
  BY <1>6, <1>8
<1>14. t = SubSeq(s, 1, n) \o <<e>> \o SubSeq(s, n + 1, Len(s))
  BY <1>3, <1>4, <1>5
<1>15. Elements(t) \subseteq Elements(s) \cup {e}
  <2>1. Elements(t) \subseteq T
    BY <1>8 DEF Elements
  <2> QED BY <2>1 DEF T
<1> QED BY <1>9, <1>10, <1>12, <1>13, <1>14, <1>15

LEMMA Removing ==
  ASSUME NEW s, IsSequence(s), NEW k \in DOMAIN s
  PROVE  /\ IsSequence(Without(s, k))
         /\ \A i \in DOMAIN s : i = k \/ s[i] \in Elements(Without(s, k))
         /\ Len(s) \in Nat /\ DOMAIN s = 1..Len(s) /\ DOMAIN Without(s, k) = 1..Len(s) - 1
         /\ \A i \in 1..Len(s) - 1 : Without(s, k)[i] = s[IF i < k THEN i ELSE i + 1]
<1> DEFINE T == Elements(s)
<1>1. s \in Seq(T)
  BY DEF IsSequence
<1> HIDE DEF T
<1>2. k \in 1..Len(s) /\ Len(s) \in Nat /\ k \in Nat /\ DOMAIN s = 1..Len(s)
  BY <1>1
<1>3. PICK a : a = SubSeq(s, 1, k - 1)
  OBVIOUS
<1>4. PICK z : z = SubSeq(s, k + 1, Len(s))
  OBVIOUS
<1>5. PICK t : t = a \o z
  OBVIOUS
<1>6. /\ a \in Seq(T) /\ Len(a) = k - 1
      /\ \A i \in 1..k - 1 : a[i] = s[i]
  BY <1>1, <1>2, <1>3
<1>7. /\ z \in Seq(T) /\ Len(z) = Len(s) - k
      /\ \A i \in 1..Len(s) - k : z[i] = s[k + i]
  BY <1>1, <1>2, <1>4
<1>8. /\ t \in Seq(T) /\ DOMAIN t = 1..Len(s) - 1
      /\ \A i \in 1..k - 1 : t[i] = s[i]
      /\ \A i \in 1..Len(s) - k : t[k - 1 + i] = s[k + i]
  <2>1. /\ t \in Seq(T) /\ DOMAIN t = 1..(k - 1) + (Len(s) - k)
        /\ \A i \in 1..k - 1 : t[i] = a[i]
        /\ \A i \in 1..Len(s) - k : t[k - 1 + i] = z[i]
    <3>1. a \in Seq(T) /\ z \in Seq(T)
      BY <1>6, <1>7
    <3>2. /\ a \o z \in Seq(T)
          /\ DOMAIN (a \o z) = 1..Len(a) + Len(z)
          /\ \A i \in 1..Len(a) : (a \o z)[i] = a[i]
          /\ \A i \in 1..Len(z) : (a \o z)[Len(a) + i] = z[i]
      BY <3>1, Concatenating
    <3> QED BY <3>2, <1>5, <1>6, <1>7, Zenon
  <2>2. (k - 1) + (Len(s) - k) = Len(s) - 1
    BY <1>2
  <2> QED BY <2>1, <2>2, <1>6, <1>7
<1>9. ASSUME NEW i \in DOMAIN s, i # k
      PROVE  s[i] \in Elements(t)
  <2>1. CASE i < k
    <3>1. i \in DOMAIN t /\ t[i] = s[i]
      BY <2>1, <1>2, <1>8
    <3> QED BY <3>1 DEF Elements
  <2>2. CASE i > k
    <3>1. i - k \in 1..Len(s) - k /\ k + (i - k) = i /\ k - 1 + (i - k) = i - 1
      BY <2>2, <1>2
    <3>2. i - 1 \in DOMAIN t /\ t[i - 1] = s[i]
      BY <3>1, <2>2, <1>2, <1>8
    <3> QED BY <3>2 DEF Elements
  <2> QED BY <1>9, <1>2, <2>1, <2>2
<1>10. IsSequence(t)
  BY <1>8, InSmallerSet
<1>11. t = Without(s, k)
  BY <1>3, <1>4, <1>5 DEF Without
<1>12. ASSUME NEW i \in 1..Len(s) - 1
       PROVE  t[i] = s[IF i < k THEN i ELSE i + 1]
  <2>1. CASE i < k
    BY <2>1, <1>2, <1>8
  <2>2. CASE ~(i < k)
    <3>1. i - k + 1 \in 1..Len(s) - k /\ k - 1 + (i - k + 1) = i /\ k + (i - k + 1) = i + 1
      BY <2>2, <1>2
    <3>2. t[k - 1 + (i - k + 1)] = s[k + (i - k + 1)]
      BY <3>1, <1>8
    <3> QED BY <2>2, <3>1, <3>2
  <2> QED BY <2>1, <2>2
<1> QED BY <1>2, <1>8, <1>9, <1>10, <1>11, <1>12

-----------------------------------------------------------------------------
\* The three things a step may do to the buffers.

\* Nothing new is owned and the accesses stay: only the scope has to be looked at.
LEMMA AccessesKept ==
  ASSUME StatesInv, UNCHANGED <<m_CurrentBarrier, recorded, leaked, owned, readbacks>>,
         stage = Recording \/ stage' # Recording \/ scoped = <<>>
  PROVE  UnownedAgree' /\ BarriersContinue'
<1>1. owned' = owned /\ readbacks' = readbacks /\ leaked' = leaked
      /\ m_CurrentBarrier' = m_CurrentBarrier /\ recorded' = recorded
  OBVIOUS
<1>2. UnownedAgree'
  BY <1>1 DEF StatesInv, UnownedAgree, Agrees
<1>3. CASE stage' # Recording
  BY <1>2, <1>3 DEF BarriersContinue
<1>4. CASE stage = Recording
  <2>1. \A b \in Handles : m_CurrentBarrier[b] = recorded[b]
    BY <1>4 DEF StatesInv, BarriersContinue
  <2>2. Handles' = Handles
    BY <1>1 DEF Handles
  <2> QED BY <1>1, <1>2, <2>1, <2>2 DEF BarriersContinue
<1>5. CASE scoped = <<>>
  <2>1. Handles = {}
    BY <1>5 DEF StatesInv, OwnedAccounted, Handles, Elements, ReadbackBuffers
  <2>2. Handles' = Handles
    BY <1>1 DEF Handles
  <2> QED BY <1>2, <2>1, <2>2 DEF BarriersContinue
<1> QED BY <1>3, <1>4, <1>5

\* A buffer is acquired: it agrees, since it did not exist.
LEMMA AcquiredAgrees ==
  ASSUME StatesInv, NEW b \in Buffer, Acquire(b), stage = Recording,
         readbacks' = readbacks, leaked \subseteq leaked',
         UNCHANGED <<m_CurrentBarrier, recorded>>
  PROVE  UnownedAgree' /\ BarriersContinue' /\ owned' \subseteq Buffer
<1>1. b \notin owned /\ owned' = owned \cup {b}
  BY DEF Acquire, FreshBuffers, Alive
<1>2. m_CurrentBarrier' = m_CurrentBarrier /\ recorded' = recorded
  OBVIOUS
<1>3. \A x \in Buffer : x \in owned \/ m_CurrentBarrier[x] = recorded[x]
  BY DEF StatesInv, UnownedAgree, Agrees
<1>4. UnownedAgree'
  BY <1>1, <1>2, <1>3 DEF UnownedAgree, Agrees
<1>5. owned' \subseteq Buffer
  BY <1>1 DEF StatesInv
<1>6. Handles' \subseteq Handles \cup {b}
  BY <1>1 DEF Handles
<1>7. \A x \in Handles : m_CurrentBarrier[x] = recorded[x]
  BY DEF StatesInv, BarriersContinue
<1>8. \A x \in Handles' : m_CurrentBarrier'[x] = recorded'[x]
  BY <1>1, <1>2, <1>3, <1>6, <1>7
<1> QED BY <1>4, <1>5, <1>8 DEF BarriersContinue

\* A barrier changes both accesses alike.
LEMMA BarrierAgrees ==
  ASSUME NEW change, Barrier(change), NEW b \in Buffer,
         b \in DOMAIN change \/ Agrees(b)
  PROVE  Agrees(b)'
BY DEF Barrier, Agrees

\* At the end of an Execute, what is not owned any more has no access.
LEMMA EndAgrees ==
  ASSUME NEW last, ScopeEnds(last)
  PROVE  UnownedAgree'
BY DEF ScopeEnds, Kept, UnownedAgree, Agrees

-----------------------------------------------------------------------------
LEMMA InitStates == StatesInit => StatesInv
<1> SUFFICES ASSUME StatesInit PROVE StatesInv
  OBVIOUS
<1>1. /\ scoped = <<>> /\ readbacks = <<>> /\ owned = {} /\ leaked = {} /\ constants = 0
      /\ stage = Outside /\ m_CurrentBarrier = Created /\ recorded = Created
  BY DEF StatesInit, Init
<1>2. Sequences
  <2>1. <<>> \in Seq({}) /\ Len(<<>>) = 0
    OBVIOUS
  <2>2. IsSequence(<<>>)
    BY <2>1, InSmallerSet
  <2>3. IsSequence(scoped) /\ IsSequence(readbacks)
    BY <1>1, <2>2
  <2>4. constants \in 0..Len(scoped)
    BY <1>1, <2>1
  <2> QED BY <2>3, <2>4 DEF Sequences
<1>3. UnownedAgree
  BY <1>1 DEF UnownedAgree, Agrees
<1>4. BarriersContinue
  BY <1>1 DEF BarriersContinue
<1> QED BY <1>1, <1>2, <1>3, <1>4 DEF StatesInv, OwnedAccounted

\* What an Execute begins with: no buffer can be named yet.
LEMMA BeginStates ==
  ASSUME StatesInv, NEW a \in Allocator, BeginExecute(a), UNCHANGED stateVars
  PROVE  StatesInv'
<1>1. /\ stage = Outside /\ stage # Recording /\ scoped = <<>>
      /\ UNCHANGED <<scoped, readbacks, owned, leaked, constants, m_CurrentBarrier, recorded>>
  BY DEF BeginExecute, StatesInv, stateVars, Outside, Recording
<1>2. UnownedAgree' /\ BarriersContinue'
  BY <1>1, AccessesKept
<1> QED BY <1>1, <1>2 DEF StatesInv, Sequences, OwnedAccounted, IsSequence, Elements, ReadbackBuffers

LEMMA CreateStates ==
  ASSUME StatesInv, NEW b \in Buffer, CreateBuffer(b), UNCHANGED stateVars
  PROVE  StatesInv'
<1>1. /\ stage = Recording /\ stage' = stage /\ Acquire(b)
      /\ scoped' = Append(scoped, b) /\ readbacks' = readbacks /\ leaked' = leaked
      /\ constants' = constants
      /\ UNCHANGED <<m_CurrentBarrier, recorded>>
      /\ owned' = owned \cup {b}
  BY DEF CreateBuffer, stateVars, Acquire
<1>2. UnownedAgree' /\ BarriersContinue' /\ owned' \subseteq Buffer
  BY <1>1, AcquiredAgrees
<1>3. /\ IsSequence(scoped) /\ IsSequence(readbacks) /\ constants \in 0..Len(scoped)
      /\ owned \subseteq Elements(scoped) \cup ReadbackBuffers \cup leaked
  BY DEF StatesInv, Sequences, OwnedAccounted
<1>4. /\ IsSequence(scoped') /\ Elements(scoped') = Elements(scoped) \cup {b}
      /\ Len(scoped') = Len(scoped) + 1 /\ Len(scoped) \in Nat
  BY <1>1, <1>3, Appending
<1>5. Sequences'
  BY <1>1, <1>3, <1>4 DEF Sequences
<1>6. OwnedAccounted'
  BY <1>1, <1>3, <1>4 DEF OwnedAccounted, ReadbackBuffers
<1> QED BY <1>1, <1>2, <1>5, <1>6 DEF StatesInv

LEMMA CreateCBVStates ==
  ASSUME StatesInv, NEW b \in Buffer, CreateCBV(b)
  PROVE  StatesInv'
<1>1. /\ stage = Recording /\ stage' = stage /\ Acquire(b)
      /\ scoped' = SubSeq(scoped, 1, constants) \o <<b>> \o SubSeq(scoped, constants + 1, Len(scoped))
      /\ readbacks' = readbacks /\ leaked' = leaked
      /\ constants' = constants + 1
      /\ UNCHANGED <<m_CurrentBarrier, recorded>>
      /\ owned' = owned \cup {b}
  BY DEF CreateCBV, Acquire
<1>2. UnownedAgree' /\ BarriersContinue' /\ owned' \subseteq Buffer
  BY <1>1, AcquiredAgrees
<1>3. /\ IsSequence(scoped) /\ IsSequence(readbacks) /\ constants \in 0..Len(scoped)
      /\ owned \subseteq Elements(scoped) \cup ReadbackBuffers \cup leaked
  BY DEF StatesInv, Sequences, OwnedAccounted
<1>4. /\ IsSequence(scoped') /\ Elements(scoped') = Elements(scoped) \cup {b}
      /\ constants + 1 \in 0..Len(scoped')
  BY <1>1, <1>3, Inserting
<1>5. Sequences'
  BY <1>1, <1>3, <1>4 DEF Sequences
<1>6. OwnedAccounted'
  BY <1>1, <1>3, <1>4 DEF OwnedAccounted, ReadbackBuffers
<1> QED BY <1>1, <1>2, <1>5, <1>6 DEF StatesInv

LEMMA CreateCBVThrowsStates ==
  ASSUME StatesInv, NEW b \in Buffer, CreateCBVThrows(b)
  PROVE  StatesInv'
<1>1. /\ stage = Recording /\ stage' = stage /\ Acquire(b)
      /\ scoped' = scoped /\ readbacks' = readbacks /\ leaked' = leaked \cup {b}
      /\ constants' = constants
      /\ UNCHANGED <<m_CurrentBarrier, recorded>>
      /\ owned' = owned \cup {b}
  BY DEF CreateCBVThrows, Acquire
<1>2. UnownedAgree' /\ BarriersContinue' /\ owned' \subseteq Buffer
  BY <1>1, AcquiredAgrees
<1>3. Sequences' /\ OwnedAccounted'
  BY <1>1 DEF StatesInv, Sequences, OwnedAccounted, ReadbackBuffers
<1> QED BY <1>1, <1>2, <1>3 DEF StatesInv

\* A barrier of one buffer: SetUAV and SetRootDescriptor.
LEMMA BarrierStates ==
  ASSUME StatesInv, NEW b \in Buffer, NEW access,
         Uses(b), Barrier([x \in {b} |-> access]), constants' = constants
  PROVE  StatesInv'
<1>1. UNCHANGED <<scoped, readbacks, owned, leaked, constants, stage>>
  BY DEF Uses, Barrier
<1>2. ASSUME NEW x \in Buffer, Agrees(x) PROVE Agrees(x)'
  BY <1>2, BarrierAgrees
<1>3. UnownedAgree'
  BY <1>1, <1>2 DEF StatesInv, UnownedAgree
<1>4. Handles' = Handles /\ Handles \subseteq Buffer
  BY <1>1 DEF Handles, StatesInv
<1>5. stage = Recording => \A x \in Handles : Agrees(x)
  BY DEF StatesInv, BarriersContinue, Agrees
<1>6. BarriersContinue'
  BY <1>1, <1>2, <1>4, <1>5 DEF BarriersContinue, Agrees
<1> QED BY <1>1, <1>3, <1>6 DEF StatesInv, Sequences, OwnedAccounted, ReadbackBuffers

LEMMA CopyStates ==
  ASSUME StatesInv, NEW b \in Buffer, NEW source \in Buffer, CopyBufferResource(source, b)
  PROVE  StatesInv'
<1> DEFINE change == [x \in {source, b} |-> IF x = source THEN "COPY_SOURCE" ELSE "COPY_DEST"]
<1>1. /\ stage = Recording /\ stage' = stage /\ Acquire(b)
      /\ scoped' = scoped /\ constants' = constants
      /\ readbacks' = Append(readbacks, [buffer |-> b, point |-> NextSignal(queue)])
      /\ Barrier(change) /\ leaked' = leaked
      /\ owned' = owned \cup {b}
  BY DEF CopyBufferResource, QueueReadback, Acquire, Barrier
<1>2. ASSUME NEW x \in Buffer, x = b \/ Agrees(x) PROVE Agrees(x)'
  BY <1>1, <1>2, BarrierAgrees
<1>3. owned \subseteq Buffer /\ owned' \subseteq Buffer
  BY <1>1 DEF StatesInv
<1>4. UnownedAgree'
  BY <1>1, <1>2 DEF StatesInv, UnownedAgree
<1>5. /\ IsSequence(readbacks) /\ owned \subseteq Elements(scoped) \cup ReadbackBuffers \cup leaked
  BY DEF StatesInv, Sequences, OwnedAccounted
<1>6. /\ IsSequence(readbacks')
      /\ Elements(readbacks') = Elements(readbacks) \cup {[buffer |-> b, point |-> NextSignal(queue)]}
  BY <1>1, <1>5, Appending
<1>7. ReadbackBuffers' = ReadbackBuffers \cup {b}
  <2>1. ReadbackBuffers = {r.buffer : r \in Elements(readbacks)}
        /\ ReadbackBuffers' = {r.buffer : r \in Elements(readbacks')}
    BY DEF ReadbackBuffers, Elements
  <2>2. [buffer |-> b, point |-> NextSignal(queue)].buffer = b
    OBVIOUS
  <2>3. PICK e : e = [buffer |-> b, point |-> NextSignal(queue)]
    OBVIOUS
  <2>4. Elements(readbacks') = Elements(readbacks) \cup {e} /\ e.buffer = b
    BY <1>6, <2>2, <2>3
  <2> QED BY <2>1, <2>4
<1>8. OwnedAccounted' /\ Sequences'
  BY <1>1, <1>5, <1>6, <1>7 DEF OwnedAccounted, Sequences, StatesInv
<1>9. Handles' \subseteq Handles \cup {b} /\ Handles \subseteq Buffer
  <2>1. Handles = owned \ (ReadbackBuffers \cup leaked) /\ Handles' = owned' \ (ReadbackBuffers' \cup leaked')
    BY DEF Handles, ReadbackBuffers
  <2> QED BY <2>1, <1>1, <1>3, <1>7
<1>10. \A x \in Handles : Agrees(x)
  BY <1>1 DEF StatesInv, BarriersContinue, Agrees
<1>11. BarriersContinue'
  BY <1>1, <1>2, <1>9, <1>10 DEF BarriersContinue, Agrees
<1> QED BY <1>1, <1>3, <1>4, <1>8, <1>11 DEF StatesInv

\* Whichever way an Execute ends, the scope takes its buffers along.
LEMMA EndStates ==
  ASSUME StatesInv, NEW last, ScopeEnds(last), stage' = Outside, readbacks' = readbacks,
         scoped' = <<>>, owned' = owned \ {scoped[k] : k \in DOMAIN scoped}
  PROVE  StatesInv'
<1>1. constants' = 0 /\ leaked' = leaked
  BY DEF ScopeEnds
<1>2. UnownedAgree'
  BY EndAgrees
<1>3. stage' # Recording
  BY DEF Outside, Recording
<1>4. Sequences'
  <2>1. <<>> \in Seq({}) /\ Len(<<>>) = 0
    OBVIOUS
  <2>2. IsSequence(scoped')
    BY <2>1, InSmallerSet
  <2> QED BY <1>1, <2>1, <2>2 DEF StatesInv, Sequences
<1>5. OwnedAccounted'
  BY <1>1 DEF StatesInv, OwnedAccounted, Elements, ReadbackBuffers
<1> QED BY <1>2, <1>3, <1>4, <1>5 DEF StatesInv, BarriersContinue

LEMMA ReadbackStates ==
  ASSUME StatesInv, NEW k \in DOMAIN readbacks, StatesReadback(k)
  PROVE  StatesInv'
<1>1. /\ stage = Outside /\ stage' = stage /\ stage # Recording
      /\ owned' = owned \ {readbacks[k].buffer}
      /\ readbacks' = Without(readbacks, k)
      /\ UNCHANGED <<scoped, constants, leaked>>
      /\ m_CurrentBarrier' = Kept(m_CurrentBarrier) /\ recorded' = Kept(recorded)
  BY DEF StatesReadback, ExecuteReadback, Outside, Recording
<1>2. UnownedAgree'
  BY <1>1 DEF Kept, UnownedAgree, Agrees
<1>3. /\ IsSequence(readbacks) /\ owned \subseteq Elements(scoped) \cup ReadbackBuffers \cup leaked
  BY DEF StatesInv, Sequences, OwnedAccounted
<1>4. /\ IsSequence(readbacks')
      /\ \A i \in DOMAIN readbacks : i = k \/ readbacks[i] \in Elements(readbacks')
  BY <1>1, <1>3, Removing
<1>5. ASSUME NEW b \in owned', b \in ReadbackBuffers PROVE b \in ReadbackBuffers'
  <2>1. PICK i \in DOMAIN readbacks : b = readbacks[i].buffer
    BY <1>5 DEF ReadbackBuffers
  <2>2. i # k
    BY <1>1, <2>1
  <2>3. readbacks[i] \in Elements(readbacks')
    BY <1>4, <2>2
  <2> QED BY <2>1, <2>3 DEF Elements, ReadbackBuffers
<1>6. OwnedAccounted'
  BY <1>1, <1>3, <1>5 DEF OwnedAccounted
<1>7. Sequences'
  BY <1>1, <1>4 DEF StatesInv, Sequences
<1> QED BY <1>1, <1>2, <1>6, <1>7 DEF StatesInv, BarriersContinue

\* The steps that touch no buffer.
LEMMA IdleStates ==
  ASSUME StatesInv, UNCHANGED <<scoped, owned, readbacks, stateVars>>,
         stage = Recording \/ stage' # Recording, stage' # Recording => scoped = <<>>
  PROVE  StatesInv'
<1>1. UNCHANGED <<m_CurrentBarrier, recorded, leaked, constants>>
  BY DEF stateVars
<1>2. UnownedAgree' /\ BarriersContinue'
  BY <1>1, AccessesKept
<1> QED BY <1>1, <1>2 DEF StatesInv, Sequences, OwnedAccounted, ReadbackBuffers

LEMMA StepStates == StatesInv /\ [StatesNext]_allVars => StatesInv'
<1> SUFFICES ASSUME StatesInv, [StatesNext]_allVars PROVE StatesInv'
  OBVIOUS
<1>1. CASE \E a \in Allocator : BeginExecute(a) /\ UNCHANGED stateVars
  BY <1>1, BeginStates
<1>2. CASE \E b \in Buffer : CreateBuffer(b) /\ UNCHANGED stateVars
  BY <1>2, CreateStates
<1>3. ASSUME NEW b \in Buffer, SetUAV(b) PROVE StatesInv'
  <2>1. Uses(b) /\ Barrier([x \in {b} |-> "UNORDERED_ACCESS"]) /\ constants' = constants
    BY <1>3 DEF SetUAV
  <2> QED BY <2>1, BarrierStates
<1>4. ASSUME NEW b \in Buffer, SetRootDescriptor(b) PROVE StatesInv'
  <2>1. Uses(b) /\ Barrier([x \in {b} |-> "CONSTANT_BUFFER"]) /\ constants' = constants
    BY <1>4 DEF SetRootDescriptor
  <2> QED BY <2>1, BarrierStates
<1>5. CASE \E b \in Buffer : CreateCBV(b) \/ CreateCBVThrows(b)
  BY <1>5, CreateCBVStates, CreateCBVThrowsStates
<1>6. CASE \E b \in Buffer : \E source \in Buffer : CopyBufferResource(source, b)
  BY <1>6, CopyStates
<1>7. CASE Dispatch /\ UNCHANGED stateVars
  <2>1. UNCHANGED <<scoped, owned, readbacks>> /\ stage = Recording /\ stage' = Recording
    BY <1>7 DEF Dispatch
  <2> QED BY <1>7, <2>1, IdleStates
<1>8. CASE StatesSubmit \/ StatesDrop
  <2>1. /\ stage' = Outside /\ readbacks' = readbacks /\ scoped' = <<>>
        /\ owned' = owned \ {scoped[k] : k \in DOMAIN scoped}
    BY <1>8 DEF StatesSubmit, StatesDrop, Submit, Fail, Throw, ReleaseScoped
  <2>2. ScopeEnds(recorded) \/ ScopeEnds(submitted)
    BY <1>8 DEF StatesSubmit, StatesDrop
  <2> QED BY <2>1, <2>2, EndStates
<1>9. CASE \E k \in DOMAIN readbacks : StatesReadback(k)
  BY <1>9, ReadbackStates
<1>10. CASE (StartFlush \/ FlushReturns) /\ UNCHANGED stateVars
  <2>1. UNCHANGED <<scoped, owned, readbacks>> /\ stage # Recording /\ stage' # Recording
    BY <1>10 DEF StartFlush, FlushReturns, Flushing, Outside, Recording
  <2>2. scoped = <<>>
    BY <2>1 DEF StatesInv
  <2> QED BY <1>10, <2>1, <2>2, IdleStates
<1>11. CASE (GpuFinish \/ GpuAdvance) /\ UNCHANGED stateVars
  <2>1. UNCHANGED <<scoped, owned, readbacks, stage>>
    BY <1>11 DEF GpuFinish, GpuAdvance
  <2> QED BY <1>11, <2>1, IdleStates DEF StatesInv
<1>12. CASE UNCHANGED allVars
  <2>1. UNCHANGED <<scoped, owned, readbacks, stage, stateVars>>
    BY <1>12 DEF allVars, vars
  <2> QED BY <2>1, IdleStates DEF StatesInv
<1> QED
  BY <1>1, <1>2, <1>3, <1>4, <1>5, <1>6, <1>7, <1>8, <1>9, <1>10, <1>11, <1>12 DEF StatesNext

\* Whatever is recorded, dropped, submitted and read back, a barrier starts from the
\* access the GPU will find: BarriersContinue for any number of buffers.
THEOREM BarriersAlwaysContinue == StatesSpec => []BarriersContinue
<1>1. StatesInv => BarriersContinue
  BY DEF StatesInv
<1> QED
  BY <1>1, InitStates, StepStates, PTL DEF StatesSpec


-----------------------------------------------------------------------------
(* The life of buffers under the GPU.                                         *)

Released == [buffer : Buffer, point : Nat]
Listed == [open : BOOLEAN, allocator : Allocator \cup {None},
           uses : SUBSET Buffer, copies : SUBSET Buffer]

Shapes ==
  /\ queue \in QueueType(Job) /\ QueueOrdered(queue)
  /\ retired \in Seq(Released)
  /\ list \in Listed

\* A released buffer outlives the signal that follows the work of this mark.
Waits(b, mark) == \E k \in DOMAIN retired : retired[k].buffer = b /\ retired[k].point >= mark

\* Every buffer of unfinished work is owned, or was released after the work.
WorkCovered == \A w \in queue.work : \A b \in w.job.uses : b \in owned \/ Waits(b, w.mark)

\* So are the buffers of the list under way, which is submitted before the scope ends.
ListCovered == stage = Recording => list.allocator \in Allocator /\ list.uses \subseteq owned

\* The inductive invariant, on top of StatesInv: what the scope has is owned, and so is
\* what the readbacks have.
LifeInv ==
  /\ Shapes
  /\ ReadbacksKeepBuffers
  /\ Elements(scoped) \subseteq owned
  /\ WorkCovered
  /\ ListCovered


LEMMA SignalsProperties ==
  ASSUME NEW S, NEW q \in QueueType(S), QueueOrdered(q), NEW n \in Nat
  PROVE  /\ Signals(q, n) \in QueueType(S) /\ QueueOrdered(Signals(q, n))
         /\ Signals(q, n).next = q.next + n
         /\ Signals(q, n).completed = q.completed
         /\ Signals(q, n).work = q.work
<1>1. /\ Signals(q, n) \in QueueType(S)
      /\ Signals(q, n).next = q.next + n
      /\ Signals(q, n).completed = q.completed
      /\ Signals(q, n).work = q.work
      /\ q.next \in Nat /\ q.completed \in Nat
      /\ \A w \in q.work : w.mark \in Nat
  BY DEF Signals, QueueType
<1> QED BY <1>1 DEF QueueOrdered

\* Work stays covered when what was released stays so, and what is no longer owned is
\* released after all the work there is.
LEMMA CoveredByRelease ==
  ASSUME LifeInv,
         \A k \in DOMAIN retired : k \in DOMAIN retired' /\ retired'[k] = retired[k],
         \A b \in owned : b \in owned' \/ \A w \in queue'.work : Waits(b, w.mark)',
         \A w \in queue'.work : w \in queue.work \/ w.job.uses \subseteq owned
  PROVE  WorkCovered'
<1> SUFFICES ASSUME NEW w \in queue'.work, NEW b \in w.job.uses
             PROVE  b \in owned' \/ Waits(b, w.mark)'
  BY DEF WorkCovered
<1>1. CASE b \in owned
  BY <1>1
<1>2. CASE b \notin owned
  <2>1. w \in queue.work /\ Waits(b, w.mark)
    BY <1>2 DEF LifeInv, WorkCovered
  <2>2. PICK k \in DOMAIN retired : retired[k].buffer = b /\ retired[k].point >= w.mark
    BY <2>1 DEF Waits
  <2> QED BY <2>2 DEF Waits
<1> QED BY <1>1, <1>2

\* A step that changes neither buffers nor work.
LEMMA CoveredStill ==
  ASSUME LifeInv, UNCHANGED <<retired, owned>>, queue'.work \subseteq queue.work
  PROVE  WorkCovered'
<1>1. retired' = retired /\ owned' = owned
  OBVIOUS
<1> QED BY <1>1 DEF LifeInv, WorkCovered, Waits

\* Readbacks keep what nobody takes from them.
LEMMA ReadbacksStill ==
  ASSUME ReadbacksKeepBuffers, readbacks' = readbacks,
         \A b \in ReadbackBuffers : b \in owned' /\ b \notin Elements(scoped')
  PROVE  ReadbacksKeepBuffers'
<1> SUFFICES ASSUME NEW k \in DOMAIN readbacks
             PROVE  /\ readbacks[k].buffer \in owned'
                    /\ \A i \in DOMAIN readbacks : readbacks[i].buffer = readbacks[k].buffer => i = k
                    /\ \A i \in DOMAIN scoped' : scoped'[i] # readbacks[k].buffer
  BY DEF ReadbacksKeepBuffers
<1>1. readbacks[k].buffer \in ReadbackBuffers
  BY DEF ReadbackBuffers
<1> QED BY <1>1 DEF ReadbacksKeepBuffers, Elements

LEMMA ReadbacksOwned ==
  ASSUME ReadbacksKeepBuffers
  PROVE  \A b \in ReadbackBuffers : b \in owned /\ b \notin Elements(scoped)
BY DEF ReadbacksKeepBuffers, ReadbackBuffers, Elements

\* Acquire drops a released buffer only when the GPU is past its point, so past all
\* work that uses it.
LEMMA AcquireCovered ==
  ASSUME StatesInv, LifeInv, NEW b \in Buffer, Acquire(b), queue'.work = queue.work
  PROVE  WorkCovered' /\ retired' \in Seq(Released)
<1>1. owned \subseteq owned' /\ retired \in Seq(Released)
  BY DEF Acquire, LifeInv, Shapes
<1>2. CASE retired' = retired
  BY <1>1, <1>2 DEF LifeInv, WorkCovered, Waits
<1>3. CASE retired' # retired
  <2>1. /\ retired # <<>> /\ HasCompleted(queue, Head(retired).point)
        /\ retired' = Tail(retired)
    BY <1>3 DEF Acquire
  <2>2. /\ retired' \in Seq(Released) /\ Len(retired) \in Nat /\ Len(retired) >= 1
        /\ DOMAIN retired = 1..Len(retired) /\ DOMAIN retired' = 1..Len(retired) - 1
        /\ Head(retired) = retired[1]
        /\ \A k \in 1..Len(retired) - 1 : retired'[k] = retired[k + 1]
    <3>1. /\ Tail(retired) \in Seq(Released) /\ Len(retired) >= 1
          /\ Len(Tail(retired)) = Len(retired) - 1
          /\ \A k \in 1..Len(retired) - 1 : Tail(retired)[k] = retired[k + 1]
      BY <1>1, <2>1, TailElements
    <3> QED BY <3>1, <1>1, <2>1
  <2>3. ASSUME NEW w \in queue.work, NEW x \in w.job.uses
        PROVE  x \in owned' \/ Waits(x, w.mark)'
    <3>1. CASE x \in owned
      BY <3>1, <1>1
    <3>2. CASE x \notin owned
      <4>1. PICK k \in DOMAIN retired : retired[k].buffer = x /\ retired[k].point >= w.mark
        BY <3>2 DEF LifeInv, WorkCovered, Waits
      <4>2. k # 1
        <5>1. queue.completed < w.mark /\ queue.completed \in Nat /\ w.mark \in Nat
          BY DEF LifeInv, Shapes, QueueOrdered, QueueType
        <5>2. retired[1] \in Released
          BY <1>1, <2>2
        <5>3. retired[1].point \in Nat /\ queue.completed >= retired[1].point
          BY <5>2, <2>1, <2>2 DEF Released, HasCompleted
        <5> QED BY <4>1, <5>1, <5>3
      <4>3. k - 1 \in DOMAIN retired' /\ retired'[k - 1] = retired[k]
        BY <2>2, <4>1, <4>2
      <4> QED BY <4>1, <4>3 DEF Waits
    <3> QED BY <3>1, <3>2
  <2> QED BY <2>2, <2>3 DEF WorkCovered
<1> QED BY <1>1, <1>2, <1>3

-----------------------------------------------------------------------------
LEMMA InitLife == StatesInit => LifeInv
<1> SUFFICES ASSUME StatesInit PROVE LifeInv
  OBVIOUS
<1>1. /\ queue = NewQueue /\ list = Closed /\ scoped = <<>> /\ retired = <<>> /\ stage = Outside
  BY DEF StatesInit, Init
<1>2. queue \in QueueType(Job) /\ QueueOrdered(queue) /\ queue.work = {}
  BY <1>1, NewQueueProperties
<1>3. list \in Listed /\ retired \in Seq(Released)
  BY <1>1 DEF Closed, Listed
<1>4. Elements(scoped) \subseteq owned
  BY <1>1 DEF Elements
<1>5. ListCovered
  BY <1>1 DEF ListCovered, Outside, Recording
<1>6. ReadbacksKeepBuffers
  BY DEF StatesInit, Init, ReadbacksKeepBuffers
<1> QED BY <1>2, <1>3, <1>4, <1>5, <1>6 DEF LifeInv, Shapes, WorkCovered

LEMMA BeginLife ==
  ASSUME LifeInv, NEW a \in Allocator, BeginExecute(a)
  PROVE  LifeInv'
<1>1. UNCHANGED <<queue, scoped, owned, retired, readbacks>>
  BY DEF BeginExecute
<1>2. WorkCovered'
  BY <1>1, CoveredStill
<1>3. \/ list' = list /\ stage' = stage /\ stage = Outside
      \/ list' = Opened(a)
  BY DEF BeginExecute
<1>4. list' \in Listed
  <2>1. list \in Listed
    BY DEF LifeInv, Shapes
  <2>2. Opened(a) \in Listed
    BY DEF Opened, Listed
  <2> QED BY <1>3, <2>1, <2>2
<1>5. ListCovered'
  BY <1>3 DEF Opened, ListCovered, Outside, Recording
<1> QED BY <1>1, <1>2, <1>4, <1>5 DEF LifeInv, Shapes, Elements, ReadbacksKeepBuffers

\* A buffer for the scope, or for nobody.
LEMMA CreateLife ==
  ASSUME StatesInv, LifeInv, NEW b \in Buffer, Acquire(b), stage = Recording,
         UNCHANGED <<queue, list, stage, readbacks>>,
         Elements(scoped') \subseteq Elements(scoped) \cup {b}
  PROVE  LifeInv'
<1>1. WorkCovered' /\ retired' \in Seq(Released)
  BY AcquireCovered
<1>2. owned' = owned \cup {b} /\ b \notin owned
  BY DEF Acquire, FreshBuffers, Alive
<1>3. ListCovered'
  BY <1>2 DEF LifeInv, ListCovered
<1>4. Shapes'
  BY <1>1 DEF LifeInv, Shapes
<1>5. ReadbacksKeepBuffers'
  BY <1>2, ReadbacksOwned, ReadbacksStill DEF LifeInv
<1> QED BY <1>1, <1>2, <1>3, <1>4, <1>5 DEF LifeInv

\* A list that uses more of the owned buffers.
LEMMA UseLife ==
  ASSUME LifeInv, NEW more, more \subseteq owned, owned \subseteq Buffer, stage = Recording,
         list' = [list EXCEPT !.uses = @ \cup more],
         UNCHANGED <<queue, scoped, owned, retired, readbacks, stage>>
  PROVE  LifeInv'
<1>1. WorkCovered'
  BY CoveredStill
<1>2. list \in Listed
  BY DEF LifeInv, Shapes
<1>3. list' \in Listed /\ list'.allocator = list.allocator /\ list'.uses = list.uses \cup more
  BY <1>2 DEF Listed
<1>4. ListCovered'
  BY <1>3 DEF LifeInv, ListCovered
<1> QED BY <1>1, <1>3, <1>4 DEF LifeInv, Shapes, Elements, ReadbacksKeepBuffers

\* Signal in a step that does nothing else to the queue.
LEMMA SignalShape ==
  ASSUME LifeInv, queue' = Signal(queue)
  PROVE  /\ queue' \in QueueType(Job) /\ QueueOrdered(queue')
         /\ queue'.work = queue.work
BY SignalProperties DEF LifeInv, Shapes

LEMMA CopyLife ==
  ASSUME StatesInv, LifeInv, NEW b \in Buffer, NEW source \in Buffer, CopyBufferResource(source, b)
  PROVE  LifeInv'
<1>1. /\ stage = Recording /\ stage' = stage /\ scoped' = scoped
      /\ Acquire(b) /\ source \in owned /\ owned' = owned \cup {b} /\ b \notin owned
      /\ readbacks' = Append(readbacks, [buffer |-> b, point |-> NextSignal(queue)])
      /\ list' = [list EXCEPT !.uses = @ \cup {source, b}, !.copies = @ \cup {b}]
      /\ queue' = Signal(queue)
  BY DEF CopyBufferResource, QueueReadback, Acquire, FreshBuffers, Alive, Buffers, Handles
<1>2. /\ queue' \in QueueType(Job) /\ QueueOrdered(queue') /\ queue'.work = queue.work
  BY <1>1, SignalShape
<1>3. WorkCovered' /\ retired' \in Seq(Released)
  BY <1>1, <1>2, AcquireCovered
<1>4. list \in Listed
  BY DEF LifeInv, Shapes
<1>5. list' \in Listed /\ list'.allocator = list.allocator /\ list'.uses = list.uses \cup {source, b}
  BY <1>1, <1>4 DEF Listed
<1>6. ListCovered'
  BY <1>1, <1>5 DEF LifeInv, ListCovered
<1>7. Elements(scoped') \subseteq owned'
  BY <1>1 DEF LifeInv, Elements
<1>8. ReadbacksKeepBuffers'
  <2>1. PICK r : r = [buffer |-> b, point |-> NextSignal(queue)]
    OBVIOUS
  <2>2. r.buffer = b /\ readbacks' = Append(readbacks, r) /\ IsSequence(readbacks)
    BY <1>1, <2>1 DEF StatesInv, Sequences
  <2>3. /\ Len(readbacks) \in Nat
        /\ DOMAIN readbacks = 1..Len(readbacks) /\ DOMAIN readbacks' = 1..Len(readbacks) + 1
        /\ \A i \in 1..Len(readbacks) : readbacks'[i] = readbacks[i]
        /\ readbacks'[Len(readbacks) + 1] = r
    BY <2>2 DEF IsSequence
  <2>4. ASSUME NEW i \in DOMAIN readbacks'
        PROVE  IF i \in DOMAIN readbacks THEN readbacks'[i] = readbacks[i]
               ELSE i = Len(readbacks) + 1 /\ readbacks'[i].buffer = b
    BY <2>2, <2>3, <2>4
  <2>5. ASSUME NEW i \in DOMAIN readbacks PROVE readbacks[i].buffer \in owned /\ readbacks[i].buffer # b
    BY <1>1 DEF LifeInv, ReadbacksKeepBuffers
  <2>6. ASSUME NEW i \in DOMAIN scoped PROVE scoped[i] \in owned /\ scoped[i] # b
    BY <1>1 DEF LifeInv, Elements
  <2>7. ASSUME NEW k \in DOMAIN readbacks' PROVE readbacks'[k].buffer \in owned'
    BY <1>1, <2>4, <2>5
  <2>8. ASSUME NEW k \in DOMAIN readbacks', NEW i \in DOMAIN readbacks',
               readbacks'[i].buffer = readbacks'[k].buffer
        PROVE  i = k
    BY <2>4, <2>5, <2>8 DEF LifeInv, ReadbacksKeepBuffers
  <2>9. ASSUME NEW k \in DOMAIN readbacks', NEW i \in DOMAIN scoped
        PROVE  scoped[i] # readbacks'[k].buffer
    BY <2>4, <2>6 DEF LifeInv, ReadbacksKeepBuffers
  <2> QED BY <1>1, <2>7, <2>8, <2>9 DEF ReadbacksKeepBuffers
<1> QED BY <1>2, <1>3, <1>5, <1>6, <1>7, <1>8 DEF LifeInv, Shapes

\* The buffers of the scope are released one after the other, the first with the next
\* point of q.
LEMMA ReleaseLife ==
  ASSUME StatesInv, LifeInv, NEW q, q.next \in Nat, ReleaseScoped(q),
         \A w \in queue'.work : w.mark \in Nat /\ w.mark <= q.next,
         \A w \in queue'.work : w \in queue.work \/ w.job.uses \subseteq owned
  PROVE  WorkCovered' /\ retired' \in Seq(Released)
<1> DEFINE z == RetiredFrom(scoped, q.next)
           n == Len(scoped)
<1>1. /\ retired' = retired \o z
      /\ owned' = owned \ {scoped[k] : k \in DOMAIN scoped}
  BY DEF ReleaseScoped, NextSignal
<1>2. n \in Nat /\ DOMAIN scoped = 1..n /\ \A k \in 1..n : scoped[k] \in Buffer
  <2>1. scoped \in Seq(Elements(scoped)) /\ Elements(scoped) \subseteq owned /\ owned \subseteq Buffer
    BY DEF StatesInv, LifeInv, Sequences, IsSequence
  <2>2. n \in Nat /\ DOMAIN scoped = 1..n /\ \A k \in 1..n : scoped[k] \in Elements(scoped)
    BY <2>1
  <2> QED BY <2>1, <2>2
<1>3. /\ z \in [1..n -> Released]
      /\ \A k \in 1..n : z[k].buffer = scoped[k] /\ z[k].point = q.next + k - 1
  BY <1>2 DEF RetiredFrom, Released
<1>4. z \in Seq(Released) /\ Len(z) = n
  BY <1>2, <1>3, FunctionIsSeq
<1> HIDE DEF z
<1>5. retired \in Seq(Released)
  BY DEF LifeInv, Shapes
<1>6. /\ retired' \in Seq(Released) /\ DOMAIN retired' = 1..Len(retired) + n
      /\ Len(retired) \in Nat /\ DOMAIN retired = 1..Len(retired)
      /\ \A k \in 1..Len(retired) : retired'[k] = retired[k]
      /\ \A k \in 1..n : retired'[Len(retired) + k] = z[k]
  <2>1. /\ retired \o z \in Seq(Released) /\ DOMAIN (retired \o z) = 1..Len(retired) + Len(z)
        /\ \A k \in 1..Len(retired) : (retired \o z)[k] = retired[k]
        /\ \A k \in 1..Len(z) : (retired \o z)[Len(retired) + k] = z[k]
    <3>1. /\ retired \o z \in Seq(Released) /\ Len(retired \o z) = Len(retired) + Len(z)
          /\ \A k \in 1..Len(retired) : (retired \o z)[k] = retired[k]
          /\ \A k \in 1..Len(z) : (retired \o z)[Len(retired) + k] = z[k]
      <4>1. z \in Seq(Released) /\ retired \in Seq(Released)
        BY <1>4, <1>5
      <4> QED BY <4>1, ConcatElements
    <3>2. PICK u : u = retired \o z
      OBVIOUS
    <3>3. u \in Seq(Released) /\ Len(u) = Len(retired) + Len(z)
      BY <3>1, <3>2
    <3>4. DOMAIN u = 1..Len(retired) + Len(z)
      BY <3>3
    <3> QED BY <3>1, <3>2, <3>4
  <2>2. Len(retired) \in Nat /\ DOMAIN retired = 1..Len(retired)
    BY <1>5
  <2> QED BY <1>1, <1>4, <2>1, <2>2
<1>7. ASSUME NEW b \in owned, b \notin owned', NEW w \in queue'.work
      PROVE  Waits(b, w.mark)'
  <2>1. PICK k \in 1..n : b = scoped[k]
    BY <1>1, <1>2, <1>7
  <2>2. Len(retired) + k \in DOMAIN retired' /\ retired'[Len(retired) + k] = z[k]
    BY <1>2, <1>6, <2>1
  <2>3. z[k].buffer = b /\ z[k].point = q.next + k - 1
    BY <1>3, <2>1
  <2>4. z[k].point >= w.mark
    BY <2>1, <2>3, <1>2
  <2> QED BY <2>2, <2>3, <2>4 DEF Waits
<1>8. \A k \in DOMAIN retired : k \in DOMAIN retired' /\ retired'[k] = retired[k]
  BY <1>2, <1>6
<1>9. WorkCovered'
  BY <1>7, <1>8, CoveredByRelease
<1> QED BY <1>6, <1>9

\* After an Execute there is no scope and no list under way.
LEMMA EndLife ==
  ASSUME StatesInv, LifeInv, WorkCovered', retired' \in Seq(Released),
         queue' \in QueueType(Job), QueueOrdered(queue'), list' \in Listed,
         scoped' = <<>>, stage' = Outside, readbacks' = readbacks,
         owned' = owned \ Elements(scoped)
  PROVE  LifeInv'
<1>1. ListCovered'
  BY DEF ListCovered, Outside, Recording
<1>2. Elements(scoped') = {}
  BY DEF Elements
<1>3. ReadbacksKeepBuffers'
  BY <1>2, ReadbacksOwned, ReadbacksStill DEF LifeInv
<1> QED BY <1>1, <1>2, <1>3 DEF LifeInv, Shapes

LEMMA SubmitLife ==
  ASSUME StatesInv, LifeInv, Submit
  PROVE  LifeInv'
<1> DEFINE q == Signal(queue)
           e == Execute(q, JobOf(list))
<1>1. /\ stage = Recording /\ ReleaseScoped(q) /\ queue' = Signals(e, Len(scoped))
      /\ list' = Closed /\ stage' = Outside /\ scoped' = <<>> /\ readbacks' = readbacks
      /\ owned' = owned \ Elements(scoped)
  BY DEF Submit, ReleaseScoped, Elements
<1>2. /\ list.allocator \in Allocator /\ list.uses \subseteq owned
      /\ list \in Listed /\ Len(scoped) \in Nat
  BY <1>1 DEF LifeInv, ListCovered, Shapes, StatesInv, Sequences, IsSequence
<1>3. JobOf(list) \in Job /\ JobOf(list).uses = list.uses
  BY <1>2 DEF JobOf, Job, Listed
<1>4. /\ q \in QueueType(Job) /\ QueueOrdered(q) /\ q.work = queue.work /\ q.next \in Nat
  <2>1. q \in QueueType(Job) /\ QueueOrdered(q) /\ q.work = queue.work
    BY SignalProperties DEF LifeInv, Shapes
  <2> QED BY <2>1 DEF QueueType
<1>5. /\ e \in QueueType(Job) /\ QueueOrdered(e)
      /\ e.work = q.work \cup {[job |-> JobOf(list), mark |-> q.next]}
  BY <1>3, <1>4, ExecuteProperties
<1> HIDE DEF q, e
<1>6. /\ queue' \in QueueType(Job) /\ QueueOrdered(queue') /\ queue'.work = e.work
  BY <1>1, <1>2, <1>5, SignalsProperties
<1>7. \A w \in queue'.work : w.mark \in Nat /\ w.mark <= q.next
  BY <1>4, <1>5, <1>6 DEF QueueOrdered, QueueType
<1>8. \A w \in queue'.work : w \in queue.work \/ w.job.uses \subseteq owned
  BY <1>2, <1>3, <1>4, <1>5, <1>6
<1>9. WorkCovered' /\ retired' \in Seq(Released)
  BY <1>1, <1>4, <1>7, <1>8, ReleaseLife
<1>10. list' \in Listed
  BY <1>1 DEF Closed, Listed
<1> QED BY <1>1, <1>6, <1>9, <1>10, EndLife

LEMMA DropLife ==
  ASSUME StatesInv, LifeInv, Fail \/ Throw
  PROVE  LifeInv'
<1>1. Len(scoped) \in Nat /\ Len(scoped) + 1 \in Nat
  BY DEF StatesInv, Sequences, IsSequence
<1>2. /\ queue \in QueueType(Job) /\ QueueOrdered(queue) /\ queue.next \in Nat
      /\ \A w \in queue.work : w.mark \in Nat
  BY DEF LifeInv, Shapes, QueueType
<1>3. PICK n \in Nat : queue' = Signals(queue, n)
  BY <1>1 DEF Fail, Throw
<1>4. /\ queue' \in QueueType(Job) /\ QueueOrdered(queue') /\ queue'.work = queue.work
  BY <1>2, <1>3, SignalsProperties
<1>5. PICK q : ReleaseScoped(q) /\ (q = queue \/ q = Signal(queue))
  BY DEF Fail, Throw
<1>6. q.next \in Nat /\ q.next >= queue.next
  <2>1. Signal(queue).next = queue.next + 1
    BY <1>2, SignalProperties
  <2> QED BY <2>1, <1>2, <1>5
<1>7. \A w \in queue'.work : w.mark \in Nat /\ w.mark <= q.next
  BY <1>2, <1>4, <1>6 DEF QueueOrdered
<1>8. WorkCovered' /\ retired' \in Seq(Released)
  BY <1>4, <1>5, <1>6, <1>7, ReleaseLife
<1>9. /\ scoped' = <<>> /\ stage' = Outside /\ readbacks' = readbacks
      /\ owned' = owned \ Elements(scoped)
      /\ list' = Closed \/ list' = list
  BY DEF Fail, Throw, ReleaseScoped, Elements
<1>10. list \in Listed /\ Closed \in Listed
  BY DEF Closed, Listed, LifeInv, Shapes
<1>11. list' \in Listed
  BY <1>9, <1>10
<1> QED BY <1>4, <1>8, <1>9, <1>11, EndLife

LEMMA ReadbackLife ==
  ASSUME StatesInv, LifeInv, NEW k \in DOMAIN readbacks, ExecuteReadback(k)
  PROVE  LifeInv'
<1>0. PICK b, r : b = readbacks[k].buffer /\ r = [buffer |-> b, point |-> NextSignal(queue)]
  OBVIOUS
<1>1. /\ stage = Outside /\ scoped = <<>>
      /\ owned' = owned \ {b} /\ retired' = Append(retired, r)
      /\ queue' = Signal(queue) /\ UNCHANGED <<list, scoped, stage>>
      /\ readbacks' = Without(readbacks, k)
  BY <1>0 DEF ExecuteReadback, StatesInv, Outside, Recording
<1>2. /\ queue' \in QueueType(Job) /\ QueueOrdered(queue') /\ queue'.work = queue.work
  BY <1>1, SignalShape
<1>3. r.buffer = b /\ r.point = queue.next /\ \A w \in queue.work : r.point >= w.mark
  BY <1>0 DEF NextSignal, LifeInv, Shapes, QueueOrdered, QueueType
<1>4. retired \in Seq(Released) /\ r \in Released
  <2>1. b \in Buffer
    BY <1>0 DEF LifeInv, ReadbacksKeepBuffers, StatesInv
  <2>2. queue.next \in Nat
    BY DEF LifeInv, Shapes, QueueType
  <2> QED BY <1>0, <2>1, <2>2 DEF LifeInv, Shapes, Released, NextSignal
<1>5. /\ DOMAIN retired = 1..Len(retired) /\ Len(retired) \in Nat
      /\ DOMAIN retired' = 1..Len(retired) + 1 /\ retired' \in Seq(Released)
      /\ \A j \in 1..Len(retired) : retired'[j] = retired[j]
      /\ retired'[Len(retired) + 1] = r
  BY <1>1, <1>4
<1>6. ASSUME NEW w \in queue'.work PROVE Waits(b, w.mark)'
  <2>1. Len(retired) + 1 \in DOMAIN retired'
    BY <1>5
  <2>2. r.buffer = b /\ r.point >= w.mark
    BY <1>2, <1>3
  <2> QED BY <1>5, <2>1, <2>2 DEF Waits
<1>7. WorkCovered'
  <2>1. \A j \in DOMAIN retired : j \in DOMAIN retired' /\ retired'[j] = retired[j]
    BY <1>5
  <2>2. \A x \in owned : x \in owned' \/ \A w \in queue'.work : Waits(x, w.mark)'
    <3>1. ASSUME NEW x \in owned, x \notin owned' PROVE x = b
      BY <1>1, <3>1
    <3> QED BY <1>6, <3>1
  <2> QED BY <1>2, <2>1, <2>2, CoveredByRelease
<1>8. ReadbacksKeepBuffers'
  <2>1. /\ Len(readbacks) \in Nat /\ DOMAIN readbacks = 1..Len(readbacks)
        /\ DOMAIN readbacks' = 1..Len(readbacks) - 1
        /\ \A i \in 1..Len(readbacks) - 1 : readbacks'[i] = readbacks[IF i < k THEN i ELSE i + 1]
    BY <1>1, Removing DEF StatesInv, Sequences
  <2> DEFINE old(i) == IF i < k THEN i ELSE i + 1
  <2>2. ASSUME NEW i \in DOMAIN readbacks'
        PROVE  /\ old(i) \in DOMAIN readbacks /\ old(i) # k /\ readbacks'[i] = readbacks[old(i)]
               /\ \A j \in DOMAIN readbacks' : old(i) = old(j) => i = j
    BY <2>1
  <2> HIDE DEF old
  <2>3. ASSUME NEW i \in DOMAIN readbacks' PROVE readbacks'[i].buffer \in owned'
    <3>1. readbacks[old(i)].buffer \in owned /\ readbacks[old(i)].buffer # b
      BY <1>0, <2>2 DEF LifeInv, ReadbacksKeepBuffers
    <3> QED BY <1>1, <2>2, <3>1
  <2>4. ASSUME NEW i \in DOMAIN readbacks', NEW j \in DOMAIN readbacks',
               readbacks'[j].buffer = readbacks'[i].buffer
        PROVE  j = i
    BY <2>2, <2>4 DEF LifeInv, ReadbacksKeepBuffers
  <2>5. DOMAIN scoped' = {}
    BY <1>1
  <2> QED BY <2>3, <2>4, <2>5 DEF ReadbacksKeepBuffers
<1>9. Elements(scoped') = {}
  BY <1>1 DEF Elements
<1>10. Shapes' /\ ListCovered'
  BY <1>1, <1>2, <1>5 DEF LifeInv, Shapes, ListCovered, Outside, Recording
<1> QED BY <1>7, <1>8, <1>9, <1>10 DEF LifeInv

\* The steps of StatesNext, one after the other.
LEMMA CreateCBVLife ==
  ASSUME StatesInv, LifeInv, NEW b \in Buffer, CreateBuffer(b) \/ CreateCBV(b) \/ CreateCBVThrows(b)
  PROVE  LifeInv'
<1>1. IsSequence(scoped) /\ constants \in 0..Len(scoped)
  BY DEF StatesInv, Sequences
<1>2. Elements(scoped') \subseteq Elements(scoped) \cup {b}
  <2>1. CASE CreateBuffer(b)
    <3>1. scoped' = Append(scoped, b)
      BY <2>1 DEF CreateBuffer
    <3> QED BY <1>1, <3>1, Appending
  <2>2. CASE CreateCBV(b)
    <3>1. scoped' = SubSeq(scoped, 1, constants) \o <<b>> \o SubSeq(scoped, constants + 1, Len(scoped))
      BY <2>2 DEF CreateCBV
    <3>2. Elements(scoped') = Elements(scoped) \cup {b}
      BY <1>1, <3>1, Inserting
    <3> QED BY <3>2
  <2>3. CASE CreateCBVThrows(b)
    <3>1. scoped' = scoped
      BY <2>3 DEF CreateCBVThrows
    <3> QED BY <3>1 DEF Elements
  <2> QED BY <2>1, <2>2, <2>3
<1>3. /\ Acquire(b) /\ stage = Recording
      /\ UNCHANGED <<queue, list, stage, readbacks>>
  BY DEF CreateBuffer, CreateCBV, CreateCBVThrows
<1> QED BY <1>2, <1>3, CreateLife

LEMMA BindLife ==
  ASSUME StatesInv, LifeInv, NEW b \in Buffer, SetUAV(b) \/ SetRootDescriptor(b)
  PROVE  LifeInv'
<1>1. b \in owned
  <2>1. CASE SetUAV(b)
    BY <2>1 DEF SetUAV, Buffers, Handles
  <2>2. CASE SetRootDescriptor(b)
    <3>1. PICK k \in 1..constants : b = scoped[k]
      BY <2>2 DEF SetRootDescriptor, ConstantBuffers
    <3>2. Len(scoped) \in Nat /\ DOMAIN scoped = 1..Len(scoped) /\ constants \in 0..Len(scoped)
      BY DEF StatesInv, Sequences, IsSequence
    <3>3. k \in DOMAIN scoped
      BY <3>1, <3>2
    <3> QED BY <3>1, <3>3 DEF LifeInv, Elements
  <2> QED BY <2>1, <2>2
<1>2. stage = Recording /\ Uses(b)
  BY DEF SetUAV, SetRootDescriptor
<1>3. PICK more : more = {b}
  OBVIOUS
<1>4. list' = [list EXCEPT !.uses = @ \cup more]
  BY <1>2, <1>3 DEF Uses
<1>5. more \subseteq owned /\ owned \subseteq Buffer
  BY <1>1, <1>3 DEF StatesInv
<1>6. UNCHANGED <<queue, scoped, owned, retired, readbacks, stage>>
  BY <1>2 DEF Uses
<1> QED BY <1>2, <1>4, <1>5, <1>6, UseLife

LEMMA DispatchLife ==
  ASSUME StatesInv, LifeInv, Dispatch
  PROVE  LifeInv'
<1>1. PICK more : more = Elements(scoped)
  OBVIOUS
<1>2. /\ stage = Recording /\ list' = [list EXCEPT !.uses = @ \cup more]
      /\ UNCHANGED <<queue, scoped, owned, retired, readbacks, stage>>
  BY <1>1 DEF Dispatch, Elements
<1>3. more \subseteq owned /\ owned \subseteq Buffer
  BY <1>1 DEF LifeInv, StatesInv
<1> QED BY <1>2, <1>3, UseLife

\* The steps that record nothing and release nothing.
LEMMA QueueLife ==
  ASSUME StatesInv, LifeInv, UNCHANGED <<scoped, owned, retired, readbacks, list>>,
         stage' = stage \/ stage' # Recording,
         queue' \in QueueType(Job), QueueOrdered(queue'), queue'.work \subseteq queue.work
  PROVE  LifeInv'
<1>1. WorkCovered'
  BY CoveredStill
<1>2. ListCovered'
  BY DEF LifeInv, ListCovered
<1> QED BY <1>1, <1>2 DEF LifeInv, Shapes, Elements, ReadbacksKeepBuffers

LEMMA FlushLife ==
  ASSUME StatesInv, LifeInv, StartFlush \/ FlushReturns
  PROVE  LifeInv'
<1>1. UNCHANGED <<scoped, owned, retired, readbacks, list>> /\ stage' # Recording
  BY DEF StartFlush, FlushReturns, Flushing, Outside, Recording
<1>2. queue' = queue \/ queue' = Signal(queue)
  BY DEF StartFlush, FlushReturns
<1>3. queue' \in QueueType(Job) /\ QueueOrdered(queue') /\ queue'.work = queue.work
  BY <1>2, SignalShape DEF LifeInv, Shapes
<1> QED BY <1>1, <1>3, QueueLife

LEMMA GpuLife ==
  ASSUME StatesInv, LifeInv, GpuFinish \/ GpuAdvance
  PROVE  LifeInv'
<1>1. UNCHANGED <<scoped, owned, retired, readbacks, list, stage>>
  BY DEF GpuFinish, GpuAdvance
<1>2. queue \in QueueType(Job) /\ QueueOrdered(queue)
  BY DEF LifeInv, Shapes
<1>3. queue' \in QueueType(Job) /\ QueueOrdered(queue') /\ queue'.work \subseteq queue.work
  <2>1. CASE GpuFinish
    <3>1. PICK w \in queue.work : CanFinish(queue, w) /\ queue' = Finish(queue, w)
      BY <2>1 DEF GpuFinish
    <3> QED BY <1>2, <3>1, FinishProperties
  <2>2. CASE GpuAdvance
    BY <1>2, <2>2, AdvanceProperties DEF GpuAdvance
  <2> QED BY <2>1, <2>2
<1> QED BY <1>1, <1>3, QueueLife

LEMMA StepLife == StatesInv /\ LifeInv /\ [StatesNext]_allVars => LifeInv'
<1> SUFFICES ASSUME StatesInv, LifeInv, [StatesNext]_allVars PROVE LifeInv'
  OBVIOUS
<1>1. CASE \E a \in Allocator : BeginExecute(a) /\ UNCHANGED stateVars
  BY <1>1, BeginLife
<1>2. CASE \E b \in Buffer : CreateBuffer(b) \/ CreateCBV(b) \/ CreateCBVThrows(b)
  BY <1>2, CreateCBVLife
<1>3. CASE \E b \in Buffer : SetUAV(b) \/ SetRootDescriptor(b)
  BY <1>3, BindLife
<1>4. CASE \E b \in Buffer : \E source \in Buffer : CopyBufferResource(source, b)
  BY <1>4, CopyLife
<1>5. CASE Dispatch /\ UNCHANGED stateVars
  BY <1>5, DispatchLife
<1>6. CASE StatesSubmit \/ StatesDrop
  BY <1>6, SubmitLife, DropLife DEF StatesSubmit, StatesDrop
<1>7. CASE \E k \in DOMAIN readbacks : StatesReadback(k)
  BY <1>7, ReadbackLife DEF StatesReadback
<1>8. CASE (StartFlush \/ FlushReturns \/ GpuFinish \/ GpuAdvance) /\ UNCHANGED stateVars
  BY <1>8, FlushLife, GpuLife
<1>9. CASE UNCHANGED allVars
  <2>1. UNCHANGED <<scoped, owned, retired, readbacks, list, stage, queue>>
    BY <1>9 DEF allVars, vars
  <2>2. queue' \in QueueType(Job) /\ QueueOrdered(queue') /\ queue'.work \subseteq queue.work
    BY <2>1 DEF LifeInv, Shapes
  <2> QED BY <2>1, <2>2, QueueLife
<1> QED
  BY <1>1, <1>2, <1>3, <1>4, <1>5, <1>6, <1>7, <1>8, <1>9 DEF StatesNext

LEMMA LifeHolds == StatesSpec => [](StatesInv /\ LifeInv)
<1> QED BY InitStates, StepStates, InitLife, StepLife, PTL DEF StatesSpec

\* Whatever a client's function records and however it ends, no buffer that submitted
\* work uses is destroyed before the work is done: SubmittedBuffersAlive, for any number
\* of buffers, constant buffers included.
THEOREM BuffersOutliveWork == StatesSpec => []SubmittedBuffersAlive
<1>1. LifeInv => SubmittedBuffersAlive
  <2> SUFFICES ASSUME LifeInv, NEW w \in queue.work, NEW b \in w.job.uses
               PROVE  b \in Alive
    BY DEF SubmittedBuffersAlive
  <2>1. b \in owned \/ \E k \in DOMAIN retired : retired[k].buffer = b
    BY DEF LifeInv, WorkCovered, Waits
  <2> QED BY <2>1 DEF Alive
<1> QED BY <1>1, LifeHolds, PTL

\* A queued readback keeps its buffer to itself until it is executed, for any number of
\* readbacks: ReadbacksKeepBuffers.
THEOREM ReadbacksKeepTheirs == StatesSpec => []ReadbacksKeepBuffers
<1>1. LifeInv => ReadbacksKeepBuffers
  BY DEF LifeInv
<1> QED BY <1>1, LifeHolds, PTL

-----------------------------------------------------------------------------
(* CommandEngine keeps its shape, whatever its client does.                   *)

Pooled == [allocator : Allocator, point : Nat]
Stage == [at : {"outside", "recording", "flushing"}, point : Nat]

EngineTyped ==
  /\ queue \in QueueType(Job) /\ QueueOrdered(queue)
  /\ list \in Listed /\ (stage = Recording => list.allocator \in Allocator)
  /\ scoped \in Seq(Buffer) /\ pool \in Seq(Pooled)
  /\ retired \in Seq(Released) /\ readbacks \in Seq(Released)
  /\ owned \subseteq Buffer /\ filled \subseteq Buffer
  /\ stage \in Stage

LEMMA TypedShape == EngineTyped => TypeOK
BY DEF EngineTyped, TypeOK, Listed, Pooled, Released, Stage

LEMMA StagesTyped ==
  ASSUME NEW p \in Nat
  PROVE  Outside \in Stage /\ Recording \in Stage /\ Flushing(p) \in Stage
BY DEF Outside, Recording, Flushing, Stage

LEMMA InitTyped == Init => EngineTyped
<1> SUFFICES ASSUME Init PROVE EngineTyped
  OBVIOUS
<1>1. queue \in QueueType(Job) /\ QueueOrdered(queue)
  BY NewQueueProperties DEF Init
<1>2. list \in Listed
  BY DEF Init, Closed, Listed
<1>3. stage = Outside /\ stage \in Stage /\ stage # Recording
  BY StagesTyped DEF Init, Outside, Recording
<1> HIDE DEF Pooled, Released, Stage
<1>4. <<>> \in Seq(Buffer) /\ <<>> \in Seq(Pooled) /\ <<>> \in Seq(Released)
  OBVIOUS
<1> QED BY <1>1, <1>2, <1>3, <1>4 DEF Init, EngineTyped

LEMMA AcquireTyped ==
  ASSUME EngineTyped, NEW b, Acquire(b)
  PROVE  /\ b \in Buffer /\ b \notin owned
         /\ owned' = owned \cup {b} /\ owned' \subseteq Buffer
         /\ filled' \subseteq Buffer /\ retired' \in Seq(Released)
<1> HIDE DEF Released
<1>1. b \in Buffer /\ b \notin owned
  BY DEF Acquire, FreshBuffers, Alive
<1>2. retired' = retired \/ (retired # <<>> /\ retired' = Tail(retired))
  BY DEF Acquire
<1>3. retired' \in Seq(Released)
  BY <1>2, TailElements DEF EngineTyped
<1> QED BY <1>1, <1>3 DEF Acquire, EngineTyped

LEMMA BeginTyped ==
  ASSUME EngineTyped, NEW a \in Allocator, BeginExecute(a)
  PROVE  EngineTyped'
<1> HIDE DEF Released, Pooled, Stage, Listed
<1>1. UNCHANGED <<queue, scoped, owned, retired, readbacks, filled>>
  BY DEF BeginExecute
<1>2. Opened(a) \in Listed /\ Opened(a).allocator \in Allocator
  BY DEF Opened, Listed
<1>3. /\ list' \in Listed /\ stage' \in Stage
      /\ stage' = Recording => list'.allocator \in Allocator
  BY <1>2, StagesTyped DEF BeginExecute, EngineTyped
<1>4. pool' = pool \/ (pool # <<>> /\ pool' = Tail(pool))
  BY DEF BeginExecute, Reusable
<1>5. pool' \in Seq(Pooled)
  BY <1>4, TailElements DEF EngineTyped
<1> QED BY <1>1, <1>3, <1>5 DEF EngineTyped

LEMMA CreateTyped ==
  ASSUME EngineTyped, NEW b, CreateBuffer(b)
  PROVE  EngineTyped'
<1> HIDE DEF Released, Pooled, Stage, Listed
<1>1. /\ UNCHANGED <<queue, list, pool, readbacks, stage>>
      /\ Acquire(b) /\ scoped' = Append(scoped, b)
  BY DEF CreateBuffer
<1>2. /\ b \in Buffer /\ owned' \subseteq Buffer /\ filled' \subseteq Buffer
      /\ retired' \in Seq(Released)
  BY <1>1, AcquireTyped
<1>3. scoped' \in Seq(Buffer)
  BY <1>1, <1>2, AppendElements DEF EngineTyped
<1> QED BY <1>1, <1>2, <1>3 DEF EngineTyped

LEMMA DispatchTyped ==
  ASSUME EngineTyped, Dispatch
  PROVE  EngineTyped' /\ list'.copies = list.copies /\ list'.allocator = list.allocator
<1>1. PICK more : more = {scoped[k] : k \in DOMAIN scoped}
  OBVIOUS
<1>2. more \subseteq Buffer
  <2>1. scoped \in Seq(Buffer)
    BY DEF EngineTyped
  <2> QED BY <1>1, <2>1
<1>3. list' = [list EXCEPT !.uses = @ \cup more] /\ list \in Listed
  BY <1>1 DEF Dispatch, EngineTyped
<1>4. list' \in Listed /\ list'.allocator = list.allocator /\ list'.copies = list.copies
  BY <1>2, <1>3 DEF Listed
<1>5. UNCHANGED <<queue, scoped, pool, owned, retired, readbacks, stage, filled>>
  BY DEF Dispatch
<1> HIDE DEF Released, Pooled, Stage, Listed
<1> QED BY <1>4, <1>5 DEF EngineTyped

LEMMA ReadTyped ==
  ASSUME EngineTyped, NEW source \in Buffer, NEW b, QueueReadback(source, b)
  PROVE  EngineTyped' /\ list'.copies = list.copies \cup {b} /\ list'.allocator = list.allocator
<1>0. PICK r : r = [buffer |-> b, point |-> NextSignal(queue)]
  OBVIOUS
<1>1. /\ UNCHANGED <<scoped, pool, stage>>
      /\ Acquire(b) /\ readbacks' = Append(readbacks, r) /\ queue' = Signal(queue)
      /\ list' = [list EXCEPT !.uses = @ \cup {source, b}, !.copies = @ \cup {b}]
  BY <1>0 DEF QueueReadback
<1>2. /\ b \in Buffer /\ owned' \subseteq Buffer /\ filled' \subseteq Buffer
      /\ retired' \in Seq(Released)
  BY <1>1, AcquireTyped
<1>3. list \in Listed
  BY DEF EngineTyped
<1>4. list' \in Listed /\ list'.allocator = list.allocator /\ list'.copies = list.copies \cup {b}
  BY <1>1, <1>2, <1>3 DEF Listed
<1>5. queue' \in QueueType(Job) /\ QueueOrdered(queue')
  BY <1>1, SignalProperties DEF EngineTyped
<1>6. r \in Released
  <2>1. queue.next \in Nat
    BY DEF EngineTyped, QueueType
  <2> QED BY <1>0, <1>2, <2>1 DEF Released, NextSignal
<1> HIDE DEF Released, Pooled, Stage, Listed
<1>7. readbacks' \in Seq(Released)
  BY <1>1, <1>6, AppendElements DEF EngineTyped
<1> QED BY <1>1, <1>2, <1>4, <1>5, <1>7 DEF EngineTyped

\* What the end of a scope does to the released buffers.
LEMMA ReleaseTyped ==
  ASSUME EngineTyped, NEW q, q.next \in Nat, ReleaseScoped(q)
  PROVE  /\ retired' \in Seq(Released)
         /\ owned' = owned \ Elements(scoped) /\ scoped' = <<>>
<1> DEFINE z == RetiredFrom(scoped, q.next)
           n == Len(scoped)
<1>1. /\ retired' = retired \o z
      /\ owned' = owned \ Elements(scoped) /\ scoped' = <<>>
  BY DEF ReleaseScoped, NextSignal, Elements
<1>2. n \in Nat /\ DOMAIN scoped = 1..n /\ \A k \in 1..n : scoped[k] \in Buffer
  <2>1. scoped \in Seq(Buffer)
    BY DEF EngineTyped
  <2> QED BY <2>1
<1>3. z \in [1..n -> Released]
  BY <1>2 DEF RetiredFrom, Released
<1>4. z \in Seq(Released)
  BY <1>2, <1>3, FunctionIsSeq
<1> HIDE DEF z, Released
<1>5. retired' \in Seq(Released)
  BY <1>1, <1>4, ConcatElements DEF EngineTyped
<1> QED BY <1>1, <1>5

\* The three ways an Execute ends.
LEMMA EndTyped ==
  ASSUME EngineTyped, Submit \/ Fail \/ Throw
  PROVE  /\ EngineTyped' /\ stage = Recording /\ stage' = Outside
         /\ scoped' = <<>> /\ owned' = owned \ Elements(scoped)
         /\ UNCHANGED <<readbacks, filled>>
         /\ Submit => \E w : queue'.work = queue.work \cup {w} /\ w.job.copies = list.copies
         /\ Fail \/ Throw => queue'.work = queue.work
<1> DEFINE n == Len(scoped)
<1>1. n \in Nat /\ n + 1 \in Nat
  BY DEF EngineTyped
<1>2. /\ queue \in QueueType(Job) /\ QueueOrdered(queue) /\ queue.next \in Nat
  BY DEF EngineTyped, QueueType
<1>3. /\ Signal(queue) \in QueueType(Job) /\ QueueOrdered(Signal(queue))
      /\ Signal(queue).next = queue.next + 1 /\ Signal(queue).work = queue.work
  BY <1>2, SignalProperties
<1>4. /\ stage = Recording /\ stage' = Outside /\ list.allocator \in Allocator /\ list \in Listed
      /\ UNCHANGED <<readbacks, filled>>
      /\ list' = Closed \/ list' = list
  BY DEF Submit, Fail, Throw, EngineTyped
<1>5. PICK q : ReleaseScoped(q) /\ q.next \in Nat
  <2>1. ReleaseScoped(queue) \/ ReleaseScoped(Signal(queue))
    BY DEF Submit, Fail, Throw
  <2>2. Signal(queue).next \in Nat
    BY <1>2, <1>3
  <2> QED BY <1>2, <2>1, <2>2
<1>6. /\ retired' \in Seq(Released)
      /\ owned' = owned \ Elements(scoped) /\ scoped' = <<>>
  BY <1>5, ReleaseTyped
<1>7. Closed \in Listed
  BY DEF Closed, Listed
<1>8. pool' \in Seq(Pooled)
  <2>1. PICK p : p = [allocator |-> list.allocator, point |-> NextSignal(queue)]
    OBVIOUS
  <2>2. p \in Pooled
    BY <1>2, <1>4, <2>1 DEF Pooled, NextSignal
  <2>3. pool' = pool \/ pool' = Append(pool, p)
    BY <2>1 DEF Submit, Fail, Throw
  <2> HIDE DEF Pooled
  <2> QED BY <2>2, <2>3, AppendElements DEF EngineTyped
<1>9. ASSUME Submit
      PROVE  /\ EngineTyped'
             /\ \E w : queue'.work = queue.work \cup {w} /\ w.job.copies = list.copies
  <2>1. PICK e : e = Execute(Signal(queue), JobOf(list))
    OBVIOUS
  <2>2. JobOf(list) \in Job /\ JobOf(list).copies = list.copies
    BY <1>4 DEF JobOf, Job, Listed
  <2>3. PICK w : w = [job |-> JobOf(list), mark |-> Signal(queue).next]
    OBVIOUS
  <2>4. /\ e \in QueueType(Job) /\ QueueOrdered(e)
        /\ e.work = queue.work \cup {w}
    BY <1>3, <2>1, <2>2, <2>3, ExecuteProperties
  <2>5. queue' = Signals(e, n)
    BY <1>9, <2>1 DEF Submit
  <2>6. queue' \in QueueType(Job) /\ QueueOrdered(queue') /\ queue'.work = queue.work \cup {w}
    BY <1>1, <2>4, <2>5, SignalsProperties
  <2>7. w.job.copies = list.copies
    BY <2>2, <2>3
  <2> HIDE DEF Released, Pooled, Stage, Listed
  <2>8. EngineTyped'
    BY <1>4, <1>6, <1>7, <1>8, <2>6, StagesTyped DEF EngineTyped, Outside, Recording
  <2> QED BY <2>6, <2>7, <2>8
<1>10. ASSUME Fail \/ Throw
       PROVE  EngineTyped' /\ queue'.work = queue.work
  <2>1. PICK m \in Nat : queue' = Signals(queue, m)
    BY <1>1, <1>10 DEF Fail, Throw
  <2>2. queue' \in QueueType(Job) /\ QueueOrdered(queue') /\ queue'.work = queue.work
    BY <1>2, <2>1, SignalsProperties
  <2> HIDE DEF Released, Pooled, Stage, Listed
  <2>3. EngineTyped'
    BY <1>4, <1>6, <1>7, <1>8, <2>2, StagesTyped DEF EngineTyped, Outside, Recording
  <2> QED BY <2>2, <2>3
<1> QED BY <1>4, <1>6, <1>9, <1>10

LEMMA FlushTyped ==
  ASSUME EngineTyped, StartFlush \/ FlushReturns
  PROVE  EngineTyped' /\ queue'.work = queue.work
<1>1. UNCHANGED <<list, scoped, pool, owned, retired, readbacks, filled>>
  BY DEF StartFlush, FlushReturns
<1>2. queue \in QueueType(Job) /\ QueueOrdered(queue) /\ queue.next \in Nat
  BY DEF EngineTyped, QueueType
<1>3. queue' \in QueueType(Job) /\ QueueOrdered(queue') /\ queue'.work = queue.work
  BY <1>2, SignalProperties DEF StartFlush, FlushReturns
<1>4. stage' \in Stage /\ stage' # Recording
  <2>1. stage' = Outside \/ stage' = Flushing(queue.next)
    BY DEF StartFlush, FlushReturns, NextSignal
  <2>2. stage' \in Stage
    BY <1>2, <2>1, StagesTyped
  <2> QED BY <2>1, <2>2 DEF Outside, Flushing, Recording
<1> HIDE DEF Released, Pooled, Stage, Listed
<1> QED BY <1>1, <1>3, <1>4 DEF EngineTyped

LEMMA ReadbackTyped ==
  ASSUME EngineTyped, NEW k \in DOMAIN readbacks, ExecuteReadback(k)
  PROVE  /\ EngineTyped' /\ queue'.work = queue.work
         /\ owned' = owned \ {readbacks[k].buffer} /\ readbacks' = Without(readbacks, k)
<1>0. PICK r : r = [buffer |-> readbacks[k].buffer, point |-> NextSignal(queue)]
  OBVIOUS
<1>1. /\ owned' = owned \ {readbacks[k].buffer} /\ readbacks' = Without(readbacks, k)
      /\ retired' = Append(retired, r) /\ queue' = Signal(queue)
      /\ UNCHANGED <<list, scoped, pool, stage, filled>>
  BY <1>0 DEF ExecuteReadback
<1>2. queue \in QueueType(Job) /\ QueueOrdered(queue) /\ queue.next \in Nat
  BY DEF EngineTyped, QueueType
<1>3. queue' \in QueueType(Job) /\ QueueOrdered(queue') /\ queue'.work = queue.work
  BY <1>1, <1>2, SignalProperties
<1>4. readbacks \in Seq(Released) /\ retired \in Seq(Released)
  BY DEF EngineTyped
<1>5. readbacks[k] \in Released
  <2> HIDE DEF Released
  <2> QED BY <1>4
<1>6. r \in Released
  BY <1>0, <1>2, <1>5 DEF Released, NextSignal
<1> HIDE DEF Released, Pooled, Stage, Listed
<1>7. retired' \in Seq(Released)
  BY <1>1, <1>4, <1>6, AppendElements
<1>8. readbacks' \in Seq(Released)
  <2>1. IsSequence(readbacks)
    BY <1>4, InSmallerSet
  <2>2. /\ IsSequence(Without(readbacks, k)) /\ Len(readbacks) \in Nat
        /\ DOMAIN readbacks = 1..Len(readbacks) /\ DOMAIN Without(readbacks, k) = 1..Len(readbacks) - 1
        /\ \A i \in 1..Len(readbacks) - 1 : Without(readbacks, k)[i] = readbacks[IF i < k THEN i ELSE i + 1]
    BY <2>1, Removing
  <2>3. \A i \in DOMAIN readbacks' : readbacks'[i] \in Released
    <3> SUFFICES ASSUME NEW i \in 1..Len(readbacks) - 1
                 PROVE  Without(readbacks, k)[i] \in Released
      BY <1>1, <2>2
    <3>1. (IF i < k THEN i ELSE i + 1) \in 1..Len(readbacks)
      BY <2>2
    <3> QED BY <1>4, <2>2, <3>1
  <2>4. Elements(readbacks') \subseteq Released /\ readbacks' \in Seq(Elements(readbacks'))
    BY <1>1, <2>2, <2>3 DEF Elements, IsSequence
  <2> QED BY <2>4, SeqOverMore
<1> QED BY <1>1, <1>3, <1>7, <1>8 DEF EngineTyped

LEMMA GpuTyped ==
  ASSUME EngineTyped, GpuFinish \/ GpuAdvance
  PROVE  /\ EngineTyped' /\ queue'.work \subseteq queue.work
         /\ filled \subseteq filled'
         /\ \A w \in queue.work : w \in queue'.work \/ w.job.copies \subseteq filled'
<1>1. UNCHANGED <<list, scoped, pool, owned, retired, readbacks, stage>>
  BY DEF GpuFinish, GpuAdvance
<1>2. queue \in QueueType(Job) /\ QueueOrdered(queue)
  BY DEF EngineTyped
<1> HIDE DEF Released, Pooled, Stage, Listed
<1>3. CASE GpuFinish
  <2>1. PICK w \in queue.work : /\ CanFinish(queue, w) /\ queue' = Finish(queue, w)
                                /\ filled' = filled \cup w.job.copies
    BY <1>3 DEF GpuFinish
  <2>2. w.job.copies \subseteq Buffer
    BY <1>2, <2>1 DEF QueueType, Job
  <2>3. /\ queue' \in QueueType(Job) /\ QueueOrdered(queue') /\ queue'.work = queue.work \ {w}
    BY <1>2, <2>1, FinishProperties
  <2> QED BY <1>1, <2>1, <2>2, <2>3 DEF EngineTyped
<1>4. CASE GpuAdvance
  <2>1. /\ queue' \in QueueType(Job) /\ QueueOrdered(queue') /\ queue'.work = queue.work
        /\ filled' = filled
    BY <1>2, <1>4, AdvanceProperties DEF GpuAdvance
  <2> QED BY <1>1, <2>1 DEF EngineTyped
<1> QED BY <1>3, <1>4

LEMMA StepTyped == EngineTyped /\ [Next]_vars => EngineTyped'
<1> SUFFICES ASSUME EngineTyped, [Next]_vars PROVE EngineTyped'
  OBVIOUS
<1>1. ASSUME NEW k \in DOMAIN scoped PROVE scoped[k] \in Buffer
  BY DEF EngineTyped
<1>2. CASE UNCHANGED vars
  BY <1>2 DEF vars, EngineTyped
<1>3. CASE Next
  BY <1>1, <1>3, BeginTyped, CreateTyped, DispatchTyped, ReadTyped, EndTyped, FlushTyped,
     ReadbackTyped, GpuTyped DEF Next
<1> QED BY <1>2, <1>3

\* The engine's state keeps its shape, whatever its client does: TypeOK, for any number
\* of buffers, allocators and signals.
THEOREM EngineTypeCorrect == Spec => []TypeOK
<1>1. Spec => []EngineTyped
  BY InitTyped, StepTyped, PTL DEF Spec
<1> QED BY <1>1, TypedShape, PTL

-----------------------------------------------------------------------------
(* ShaderTestDriver: what RunShaderTest has done so far, step by step.         *)

InExecute == {"setup", "dispatch", "readAssert", "readAllocation", "submit"}
InFlush == {"flushing", "lastFlush"}
InRun == InExecute \cup {"flush", "flushing", "process", "outer"}

\* How many of the readbacks are those of the run under way; the last ones.
Queued == IF pc \in {"readAllocation", "outer"} THEN 1
          ELSE IF pc \in {"submit", "flush", "flushing", "process"} THEN 2 ELSE 0

RunsCounted ==
  /\ pc \in InRun => failed < runs
  /\ Len(readbacks) <= 2 * failed + Queued
  /\ Queued <= Len(readbacks)

Staged ==
  /\ pc \in InExecute => stage = Recording
  /\ pc \in InFlush => stage.at = "flushing"
  /\ pc \notin InExecute \cup InFlush => stage = Outside

ScopeFollows ==
  /\ pc \notin InExecute => scoped = <<>>
  /\ pc = "setup" => Len(scoped) <= 1
  /\ pc \in InExecute \ {"setup"} => Len(scoped) = 2

\* The GPU has work between the submission and the end of the flush only.
WorkFollows ==
  /\ pc \notin {"flush", "flushing"} => queue.work = {}
  /\ pc = "flushing" => \A w \in queue.work : w.mark <= stage.point

\* Buffers are owned by the scope or by a readback, by one of them only.
OwnedUsed == owned = Elements(scoped) \cup ReadbackBuffers

\* The copies of this run's readbacks are in the list, under way, or done.
CopiesFollow ==
  \A k \in DOMAIN readbacks :
    k > Len(readbacks) - Queued =>
      IF pc \in InExecute THEN readbacks[k].buffer \in list.copies
      ELSE \/ readbacks[k].buffer \in filled
           \/ \E w \in queue.work : readbacks[k].buffer \in w.job.copies

\* The inductive invariant: each place of RunShaderTest with what has been done there.
DriverInv ==
  /\ EngineTyped /\ DriverTypeOK
  /\ RunsCounted /\ Staged /\ ScopeFollows /\ WorkFollows
  /\ OwnedUsed /\ ReadbacksKeepBuffers /\ CopiesFollow

LEMMA InitDriver == DriverInit => DriverInv
<1> SUFFICES ASSUME DriverInit PROVE DriverInv
  OBVIOUS
<1>1. EngineTyped
  BY InitTyped DEF DriverInit
<1>2. /\ pc = "idle" /\ runs = 0 /\ failed = 0 /\ stage = Outside
      /\ scoped = <<>> /\ readbacks = <<>> /\ owned = {} /\ queue.work = {}
  BY NewQueueProperties DEF DriverInit, Init
<1>3. DriverTypeOK /\ Staged
  BY <1>2, DriverAssumption DEF DriverTypeOK, Staged, InExecute, InFlush, Outside
<1>4. RunsCounted /\ ScopeFollows /\ WorkFollows
  BY <1>2 DEF RunsCounted, Queued, InRun, InExecute, ScopeFollows, WorkFollows
<1>5. OwnedUsed /\ ReadbacksKeepBuffers /\ CopiesFollow
  BY <1>2 DEF OwnedUsed, Elements, ReadbackBuffers, ReadbacksKeepBuffers, CopiesFollow
<1> QED BY <1>1, <1>3, <1>4, <1>5 DEF DriverInv

\* The buffers of the scope and of the readbacks when neither changes.
LEMMA OwnersStill ==
  ASSUME OwnedUsed, ReadbacksKeepBuffers, UNCHANGED <<owned, scoped, readbacks>>
  PROVE  OwnedUsed' /\ ReadbacksKeepBuffers'
BY DEF OwnedUsed, Elements, ReadbackBuffers, ReadbacksKeepBuffers

LEMMA RunDriver ==
  ASSUME DriverInv, Run
  PROVE  DriverInv'
<1>1. /\ pc = "idle" /\ pc' = (IF list.open THEN "idle" ELSE "setup")
      /\ runs < MaxRuns /\ runs' = runs + 1 /\ failed' = (IF list.open THEN failed + 1 ELSE failed)
      /\ UNCHANGED <<queue, scoped, owned, retired, readbacks, filled>>
  BY DEF Run, Goto, BeginExecute
<1>2. /\ stage' = (IF list.open THEN stage ELSE Recording)
      /\ stage = Outside
  BY DEF Run, BeginExecute
<1>3. PICK a : BeginExecute(a)
  BY DEF Run
<1>4. EngineTyped'
  <2>1. a \in Allocator
    <3> HIDE DEF Pooled
    <3>1. CASE Reusable
      <4>1. pool \in Seq(Pooled) /\ pool # <<>> /\ a = Head(pool).allocator
        BY <1>3, <3>1 DEF BeginExecute, Reusable, DriverInv, EngineTyped
      <4>2. Head(pool) \in Pooled
        BY <4>1
      <4> QED BY <4>1, <4>2 DEF Pooled
    <3>2. CASE ~Reusable
      BY <1>3, <3>2 DEF BeginExecute, FreshAllocators
    <3> QED BY <3>1, <3>2
  <2> QED BY <1>3, <2>1, BeginTyped DEF DriverInv
<1>5. DriverTypeOK'
  BY <1>1, <1>2, DriverAssumption DEF DriverInv, DriverTypeOK, Outside, Recording
<1>6. RunsCounted' /\ Staged'
  <2>1. Len(readbacks) \in Nat /\ failed \in Nat /\ runs \in Nat /\ failed <= runs
    BY DEF DriverInv, EngineTyped, DriverTypeOK
  <2>2. Len(readbacks) <= 2 * failed
    BY <1>1, <2>1 DEF DriverInv, RunsCounted, Queued
  <2> QED BY <1>1, <1>2, <2>1, <2>2 DEF RunsCounted, Queued, InRun, Staged, InExecute, InFlush
<1>7. scoped = <<>> /\ queue.work = {} /\ Len(scoped) = 0
  BY <1>1 DEF DriverInv, ScopeFollows, WorkFollows, InExecute
<1>8. ScopeFollows' /\ WorkFollows'
  BY <1>1, <1>7 DEF ScopeFollows, WorkFollows, InExecute
<1>9. CopiesFollow'
  <2>1. Len(readbacks) \in Nat /\ DOMAIN readbacks = 1..Len(readbacks) /\ Queued' = 0
    BY <1>1 DEF DriverInv, EngineTyped, Queued
  <2> QED BY <1>1, <2>1 DEF CopiesFollow
<1>10. OwnedUsed' /\ ReadbacksKeepBuffers'
  BY <1>1, OwnersStill DEF DriverInv
<1> QED BY <1>4, <1>5, <1>6, <1>8, <1>9, <1>10 DEF DriverInv

LEMMA CreateDriver ==
  ASSUME DriverInv, CreateGPUResources
  PROVE  DriverInv'
<1>1. /\ pc = "setup" /\ pc' = (IF scoped = <<>> THEN "setup" ELSE "dispatch")
      /\ UNCHANGED <<runs, failed>>
      /\ UNCHANGED <<queue, list, pool, readbacks, stage>>
  BY DEF CreateGPUResources, Goto, CreateBuffer
<1>2. PICK b : CreateBuffer(b)
  BY DEF CreateGPUResources
<1>3. EngineTyped'
  BY <1>2, CreateTyped DEF DriverInv
<1>4. /\ b \in Buffer /\ b \notin owned /\ owned' = owned \cup {b}
      /\ scoped' = Append(scoped, b) /\ scoped \in Seq(Buffer) /\ readbacks \in Seq(Released)
  BY <1>2, AcquireTyped DEF DriverInv, CreateBuffer, EngineTyped
<1>5. IsSequence(scoped)
  BY <1>4, InSmallerSet
<1>6. /\ Len(scoped') = Len(scoped) + 1 /\ Len(scoped) \in Nat
      /\ Elements(scoped') = Elements(scoped) \cup {b}
  BY <1>4, <1>5, Appending
<1>7. Len(scoped) = (IF scoped = <<>> THEN 0 ELSE 1)
  <2>1. Len(scoped) <= 1
    BY <1>1 DEF DriverInv, ScopeFollows
  <2>2. scoped # <<>> => Len(scoped) >= 1
    BY <1>4, TailElements
  <2>3. scoped = <<>> => Len(scoped) = 0
    OBVIOUS
  <2> QED BY <1>6, <2>1, <2>2, <2>3
<1>8. ScopeFollows'
  BY <1>1, <1>6, <1>7 DEF ScopeFollows, InExecute
<1>9. DriverTypeOK' /\ Staged' /\ WorkFollows'
  BY <1>1 DEF DriverInv, DriverTypeOK, Staged, WorkFollows, InExecute, InFlush
<1>10. RunsCounted'
  BY <1>1 DEF DriverInv, RunsCounted, Queued, InRun, InExecute
<1>11. OwnedUsed'
  BY <1>1, <1>4, <1>6 DEF DriverInv, OwnedUsed, ReadbackBuffers
<1>12. ReadbacksKeepBuffers'
  BY <1>1, <1>4, <1>6, ReadbacksOwned, ReadbacksStill DEF DriverInv
<1>13. CopiesFollow'
  <2>1. Len(readbacks) \in Nat /\ DOMAIN readbacks = 1..Len(readbacks) /\ Queued' = 0
    <3> HIDE DEF Released
    <3>1. Len(readbacks) \in Nat /\ DOMAIN readbacks = 1..Len(readbacks)
      BY <1>4
    <3> QED BY <1>1, <3>1 DEF Queued
  <2> QED BY <1>1, <2>1 DEF CopiesFollow
<1> QED BY <1>3, <1>8, <1>9, <1>10, <1>11, <1>12, <1>13 DEF DriverInv

LEMMA DispatchDriver ==
  ASSUME DriverInv, DispatchTest
  PROVE  DriverInv'
<1>1. /\ pc = "dispatch" /\ pc' = "readAssert" /\ Dispatch
      /\ UNCHANGED <<runs, failed>>
      /\ UNCHANGED <<queue, scoped, pool, owned, retired, readbacks, stage, filled>>
  BY DEF DispatchTest, Goto, Dispatch
<1>2. EngineTyped'
  BY <1>1, DispatchTyped DEF DriverInv
<1>3. DriverTypeOK' /\ Staged' /\ WorkFollows' /\ ScopeFollows'
  BY <1>1 DEF DriverInv, DriverTypeOK, Staged, WorkFollows, ScopeFollows, InExecute, InFlush
<1>4. RunsCounted'
  BY <1>1 DEF DriverInv, RunsCounted, Queued, InRun, InExecute
<1>5. OwnedUsed' /\ ReadbacksKeepBuffers'
  BY <1>1, OwnersStill DEF DriverInv
<1>6. CopiesFollow'
  <2>1. Len(readbacks) \in Nat /\ DOMAIN readbacks = 1..Len(readbacks) /\ Queued' = 0
    BY <1>1 DEF DriverInv, EngineTyped, Queued
  <2> QED BY <1>1, <2>1 DEF CopiesFollow
<1> QED BY <1>2, <1>3, <1>4, <1>5, <1>6 DEF DriverInv

\* A readback is queued: one more buffer, owned by it alone.
LEMMA ReadDriver ==
  ASSUME DriverInv, QueueReadbacks
  PROVE  DriverInv'
<1>1. /\ \/ pc = "readAssert" /\ pc' = "readAllocation"
         \/ pc = "readAllocation" /\ pc' = "submit"
      /\ UNCHANGED <<runs, failed>>
  BY DEF QueueReadbacks, Goto
<1>2. Len(scoped) = 2 /\ scoped \in Seq(Buffer)
  BY <1>1 DEF DriverInv, ScopeFollows, InExecute, EngineTyped
<1>3. PICK source, b : source \in Buffer /\ QueueReadback(source, b)
  <2>1. scoped[1] \in Buffer /\ scoped[2] \in Buffer
    BY <1>2
  <2> QED BY <2>1 DEF QueueReadbacks
<1>4. EngineTyped' /\ list'.copies = list.copies \cup {b}
  BY <1>3, ReadTyped DEF DriverInv
<1>5. PICK r : r = [buffer |-> b, point |-> NextSignal(queue)]
  OBVIOUS
<1>6. /\ b \in Buffer /\ b \notin owned /\ owned' = owned \cup {b}
      /\ readbacks' = Append(readbacks, r) /\ r.buffer = b
      /\ UNCHANGED <<scoped, pool, stage>> /\ queue' = Signal(queue)
  BY <1>3, <1>5, AcquireTyped DEF DriverInv, QueueReadback
<1>7. queue'.work = queue.work /\ queue.work = {}
  BY <1>1, <1>6, SignalProperties DEF DriverInv, EngineTyped, WorkFollows
<1>8. DriverTypeOK' /\ Staged' /\ WorkFollows' /\ ScopeFollows'
  BY <1>1, <1>6, <1>7 DEF DriverInv, DriverTypeOK, Staged, WorkFollows, ScopeFollows, InExecute, InFlush
<1>9. IsSequence(readbacks)
  BY InSmallerSet DEF DriverInv, EngineTyped
<1>10. /\ Len(readbacks') = Len(readbacks) + 1 /\ Len(readbacks) \in Nat
       /\ DOMAIN readbacks = 1..Len(readbacks) /\ DOMAIN readbacks' = 1..Len(readbacks) + 1
       /\ \A i \in 1..Len(readbacks) : readbacks'[i] = readbacks[i]
       /\ readbacks'[Len(readbacks) + 1].buffer = b
  BY <1>6, <1>9 DEF IsSequence
<1>11. Queued' = Queued + 1 /\ Queued \in {0, 1} /\ pc' \in InExecute /\ pc \in InExecute
  BY <1>1 DEF Queued, InExecute
<1>12. RunsCounted'
  <2>1. failed \in Nat /\ failed < runs
    BY <1>1 DEF DriverInv, DriverTypeOK, RunsCounted, InRun, InExecute
  <2>2. Len(readbacks) <= 2 * failed + Queued /\ Queued <= Len(readbacks)
    BY DEF DriverInv, RunsCounted
  <2>3. Len(readbacks') <= 2 * failed + Queued' /\ Queued' <= Len(readbacks')
    BY <1>10, <1>11, <2>1, <2>2
  <2> QED BY <1>1, <2>1, <2>3 DEF RunsCounted
<1>13. ReadbackBuffers' = ReadbackBuffers \cup {b}
  BY <1>10 DEF ReadbackBuffers
<1>14. OwnedUsed'
  BY <1>6, <1>13 DEF DriverInv, OwnedUsed, Elements
<1>15. ASSUME NEW i \in DOMAIN readbacks'
       PROVE  IF i \in DOMAIN readbacks THEN readbacks'[i] = readbacks[i]
              ELSE i = Len(readbacks) + 1 /\ readbacks'[i].buffer = b
  BY <1>10
<1>16. ASSUME NEW i \in DOMAIN readbacks PROVE readbacks[i].buffer \in owned /\ readbacks[i].buffer # b
  BY <1>6 DEF DriverInv, ReadbacksKeepBuffers
<1>17. ReadbacksKeepBuffers'
  <2>1. ASSUME NEW i \in DOMAIN scoped PROVE scoped[i] \in owned /\ scoped[i] # b
    BY <1>6 DEF DriverInv, OwnedUsed, Elements
  <2>2. ASSUME NEW k \in DOMAIN readbacks' PROVE readbacks'[k].buffer \in owned'
    BY <1>6, <1>15, <1>16
  <2>3. ASSUME NEW k \in DOMAIN readbacks', NEW i \in DOMAIN readbacks',
               readbacks'[i].buffer = readbacks'[k].buffer
        PROVE  i = k
    BY <1>15, <1>16, <2>3 DEF DriverInv, ReadbacksKeepBuffers
  <2>4. ASSUME NEW k \in DOMAIN readbacks', NEW i \in DOMAIN scoped
        PROVE  scoped[i] # readbacks'[k].buffer
    BY <1>15, <2>1 DEF DriverInv, ReadbacksKeepBuffers
  <2> QED BY <1>6, <2>2, <2>3, <2>4 DEF ReadbacksKeepBuffers
<1>18. CopiesFollow'
  <2> SUFFICES ASSUME NEW k \in DOMAIN readbacks', k > Len(readbacks') - Queued'
               PROVE  readbacks'[k].buffer \in list'.copies
    BY <1>11 DEF CopiesFollow
  <2>1. CASE k \in DOMAIN readbacks
    <3>1. k > Len(readbacks) - Queued
      BY <1>10, <1>11, <2>1
    <3>2. readbacks[k].buffer \in list.copies
      BY <1>11, <2>1, <3>1 DEF DriverInv, CopiesFollow
    <3> QED BY <1>4, <1>15, <2>1, <3>2
  <2>2. CASE k \notin DOMAIN readbacks
    BY <1>4, <1>15, <2>2
  <2> QED BY <2>1, <2>2
<1> QED BY <1>4, <1>8, <1>12, <1>14, <1>17, <1>18 DEF DriverInv

\* The end of an Execute: the scope's buffers go, and what this run's readbacks copy is
\* in the work when it was submitted. Without that the run has failed.
LEMMA EndDriver ==
  ASSUME DriverInv, BindingFails \/ RecordingThrows \/ SubmitTest
  PROVE  DriverInv'
<1>1. \/ pc \in InExecute /\ pc' = "idle" /\ failed' = failed + 1 /\ (Fail \/ Throw)
      \/ pc = "submit" /\ pc' = "flush" /\ failed' = failed /\ Submit
  BY DEF BindingFails, RecordingThrows, SubmitTest, Goto, InExecute
<1>2. runs' = runs /\ (Submit \/ Fail \/ Throw)
  BY DEF BindingFails, RecordingThrows, SubmitTest
<1>3. /\ EngineTyped' /\ stage = Recording /\ stage' = Outside
      /\ scoped' = <<>> /\ owned' = owned \ Elements(scoped)
      /\ UNCHANGED <<readbacks, filled>>
      /\ Submit => \E w : queue'.work = queue.work \cup {w} /\ w.job.copies = list.copies
      /\ Fail \/ Throw => queue'.work = queue.work
  BY <1>2, EndTyped DEF DriverInv
<1>4. queue.work = {} /\ failed < runs /\ failed \in Nat /\ runs \in Nat /\ runs <= MaxRuns
  BY <1>1, DriverAssumption
     DEF DriverInv, WorkFollows, RunsCounted, DriverTypeOK, InExecute, InRun
<1>5. Len(readbacks) \in Nat /\ DOMAIN readbacks = 1..Len(readbacks)
  BY DEF DriverInv, EngineTyped
<1>6. Elements(scoped') = {}
  BY <1>3 DEF Elements
<1>7. OwnedUsed' /\ ReadbacksKeepBuffers'
  <2>1. \A b \in ReadbackBuffers : b \in owned /\ b \notin Elements(scoped)
    BY ReadbacksOwned DEF DriverInv
  <2>2. ReadbackBuffers' = ReadbackBuffers
    BY <1>3 DEF ReadbackBuffers
  <2>3. owned = Elements(scoped) \cup ReadbackBuffers
    BY DEF DriverInv, OwnedUsed
  <2>4. OwnedUsed'
    BY <1>3, <1>6, <2>1, <2>2, <2>3 DEF OwnedUsed
  <2>5. ReadbacksKeepBuffers'
    BY <1>3, <1>6, <2>1, ReadbacksStill DEF DriverInv
  <2> QED BY <2>4, <2>5
<1>8. CASE pc' = "idle"
  <2>1. pc \in InExecute /\ failed' = failed + 1 /\ Queued' = 0 /\ Queued \in {0, 1, 2}
        /\ queue'.work = {}
    BY <1>1, <1>3, <1>4, <1>8 DEF Queued
  <2>2. DriverTypeOK'
    BY <1>2, <1>3, <1>4, <1>8, <2>1 DEF DriverTypeOK, Outside
  <2>3. Staged' /\ ScopeFollows' /\ WorkFollows'
    BY <1>3, <1>8, <2>1 DEF Staged, ScopeFollows, WorkFollows, InExecute, InFlush
  <2>4. RunsCounted'
    <3>1. Len(readbacks) <= 2 * failed + Queued
      BY DEF DriverInv, RunsCounted
    <3>2. Len(readbacks) <= 2 * failed'
      BY <1>4, <1>5, <2>1, <3>1
    <3> QED BY <1>3, <1>5, <1>8, <2>1, <3>2 DEF RunsCounted, InRun, InExecute
  <2>5. CopiesFollow'
    BY <1>3, <1>5, <2>1 DEF CopiesFollow
  <2> QED BY <1>3, <1>7, <2>2, <2>3, <2>4, <2>5 DEF DriverInv
<1>9. CASE pc' = "flush"
  <2>1. pc = "submit" /\ failed' = failed /\ Queued' = Queued /\ Submit
    BY <1>1, <1>9 DEF Queued
  <2>2. PICK w : queue'.work = queue.work \cup {w} /\ w.job.copies = list.copies
    BY <1>3, <2>1
  <2>3. DriverTypeOK'
    BY <1>2, <1>3, <1>4, <1>9, <2>1 DEF DriverInv, DriverTypeOK, Outside
  <2>4. Staged' /\ ScopeFollows' /\ WorkFollows'
    BY <1>3, <1>9 DEF Staged, ScopeFollows, WorkFollows, InExecute, InFlush
  <2>5. RunsCounted'
    BY <1>2, <1>3, <1>4, <1>9, <2>1 DEF DriverInv, RunsCounted
  <2>6. CopiesFollow'
    <3> SUFFICES ASSUME NEW k \in DOMAIN readbacks, k > Len(readbacks) - Queued
                 PROVE  \E x \in queue'.work : readbacks[k].buffer \in x.job.copies
      BY <1>3, <1>9, <2>1 DEF CopiesFollow, InExecute
    <3>1. readbacks[k].buffer \in list.copies
      BY <2>1 DEF DriverInv, CopiesFollow, InExecute
    <3> QED BY <2>2, <3>1
  <2> QED BY <1>3, <1>7, <2>3, <2>4, <2>5, <2>6 DEF DriverInv
<1> QED BY <1>1, <1>8, <1>9

LEMMA FlushDriver ==
  ASSUME DriverInv, FlushTest \/ LastFlush
  PROVE  DriverInv'
<1>1. /\ \/ pc = "flush" /\ pc' = "flushing"
         \/ pc = "closing" /\ pc' = "lastFlush"
      /\ UNCHANGED <<runs, failed>> /\ StartFlush
  BY DEF FlushTest, LastFlush, Goto
<1>2. /\ UNCHANGED <<list, scoped, pool, owned, retired, readbacks, filled>>
      /\ stage' = Flushing(queue.next)
  BY <1>1 DEF StartFlush, NextSignal
<1>3. EngineTyped' /\ queue'.work = queue.work
  BY <1>1, FlushTyped DEF DriverInv
<1>4. stage'.at = "flushing" /\ stage'.point = queue.next
  BY <1>2 DEF Flushing
<1>5. DriverTypeOK'
  BY <1>1, <1>4 DEF DriverInv, DriverTypeOK
<1>6. Staged' /\ ScopeFollows'
  BY <1>1, <1>2, <1>4 DEF DriverInv, Staged, ScopeFollows, InExecute, InFlush
<1>7. WorkFollows'
  BY <1>1, <1>3, <1>4 DEF DriverInv, WorkFollows, EngineTyped, QueueOrdered
<1>8. Queued' = Queued /\ pc \notin InExecute /\ pc' \notin InExecute /\ (pc' \in InRun => pc \in InRun)
  BY <1>1 DEF Queued, InExecute, InRun
<1>9. RunsCounted' /\ CopiesFollow'
  BY <1>1, <1>2, <1>3, <1>8 DEF DriverInv, RunsCounted, CopiesFollow
<1>10. OwnedUsed' /\ ReadbacksKeepBuffers'
  BY <1>2, OwnersStill DEF DriverInv
<1> QED BY <1>3, <1>5, <1>6, <1>7, <1>9, <1>10 DEF DriverInv

\* The flush returns when the GPU is past its point, so past all the work.
LEMMA FlushedDriver ==
  ASSUME DriverInv, FlushedTest \/ LastFlushed
  PROVE  DriverInv'
<1>1. /\ \/ pc = "flushing" /\ pc' = "process"
         \/ pc = "lastFlush" /\ pc' = "destroyed"
      /\ UNCHANGED <<runs, failed>> /\ FlushReturns
  BY DEF FlushedTest, LastFlushed, Goto
<1>2. /\ UNCHANGED <<queue, list, scoped, pool, owned, retired, readbacks, filled>>
      /\ stage' = Outside /\ queue.completed >= stage.point
  BY <1>1 DEF FlushReturns, HasCompleted
<1>3. EngineTyped'
  BY <1>1, FlushTyped DEF DriverInv
<1>4. queue.work = {}
  <2> SUFFICES ASSUME NEW w \in queue.work PROVE FALSE
    OBVIOUS
  <2>1. w.mark <= stage.point
    BY <1>1 DEF DriverInv, WorkFollows
  <2>2. queue.completed < w.mark /\ queue.completed \in Nat /\ w.mark \in Nat
    BY DEF DriverInv, EngineTyped, QueueOrdered, QueueType
  <2>3. stage.point \in Nat
    BY DEF DriverInv, EngineTyped, Stage
  <2> QED BY <1>2, <2>1, <2>2, <2>3
<1>5. DriverTypeOK'
  BY <1>1, <1>2 DEF DriverInv, DriverTypeOK, Outside
<1>6. Staged' /\ ScopeFollows' /\ WorkFollows'
  BY <1>1, <1>2, <1>4 DEF DriverInv, Staged, ScopeFollows, WorkFollows, InExecute, InFlush
<1>7. Queued' = Queued /\ pc \notin InExecute /\ pc' \notin InExecute /\ (pc' \in InRun => pc \in InRun)
  BY <1>1 DEF Queued, InExecute, InRun
<1>8. RunsCounted' /\ CopiesFollow'
  BY <1>1, <1>2, <1>7 DEF DriverInv, RunsCounted, CopiesFollow
<1>9. OwnedUsed' /\ ReadbacksKeepBuffers'
  BY <1>2, OwnersStill DEF DriverInv
<1> QED BY <1>3, <1>5, <1>6, <1>8, <1>9 DEF DriverInv

\* The last readback is executed, and its buffer goes with it.
LEMMA ProcessDriver ==
  ASSUME DriverInv, ProcessInner \/ ProcessOuter
  PROVE  /\ DriverInv'
         /\ readbacks' = Without(readbacks, Len(readbacks)) /\ Len(readbacks) \in DOMAIN readbacks
<1> DEFINE n == Len(readbacks)
<1>1. /\ \/ pc = "process" /\ pc' = "outer"
         \/ pc = "outer" /\ pc' = "idle"
      /\ UNCHANGED <<runs, failed>> /\ ExecuteReadback(n)
  BY DEF ProcessInner, ProcessOuter, Goto, AllocationReadback
<1>2. n \in DOMAIN readbacks /\ UNCHANGED <<list, scoped, pool, stage, filled>>
  BY <1>1 DEF ExecuteReadback
<1>3. /\ EngineTyped' /\ queue'.work = queue.work
      /\ owned' = owned \ {readbacks[n].buffer} /\ readbacks' = Without(readbacks, n)
  BY <1>1, <1>2, ReadbackTyped DEF DriverInv
<1>4. /\ n \in Nat /\ DOMAIN readbacks = 1..n /\ DOMAIN readbacks' = 1..n - 1
      /\ \A i \in 1..n - 1 : readbacks'[i] = readbacks[i]
  <2>1. IsSequence(readbacks)
    BY InSmallerSet DEF DriverInv, EngineTyped
  <2>2. /\ n \in Nat /\ DOMAIN readbacks = 1..n /\ DOMAIN readbacks' = 1..n - 1
        /\ \A i \in 1..n - 1 : readbacks'[i] = readbacks[IF i < n THEN i ELSE i + 1]
    BY <1>2, <1>3, <2>1, Removing
  <2> QED BY <2>2
<1>5. Len(readbacks') = n - 1
  <2>1. readbacks' \in Seq(Released) /\ n \in 1..n
    BY <1>2, <1>3, <1>4 DEF EngineTyped
  <2>2. Len(readbacks') \in Nat /\ DOMAIN readbacks' = 1..Len(readbacks')
    BY <2>1
  <2>3. n - 1 \in Nat
    BY <1>4, <2>1
  <2>4. CASE n - 1 < Len(readbacks')
    <3>1. n \in 1..Len(readbacks') /\ n \notin 1..n - 1
      BY <2>2, <2>3, <2>4
    <3> QED BY <1>4, <2>2, <3>1
  <2>5. CASE n - 1 > Len(readbacks')
    <3>1. n - 1 \in 1..n - 1 /\ n - 1 \notin 1..Len(readbacks')
      BY <2>2, <2>3, <2>5
    <3> QED BY <1>4, <2>2, <3>1
  <2> QED BY <2>2, <2>3, <2>4, <2>5
<1>6. DriverTypeOK' /\ Staged' /\ ScopeFollows' /\ WorkFollows'
  BY <1>1, <1>2, <1>3
     DEF DriverInv, DriverTypeOK, Staged, ScopeFollows, WorkFollows, InExecute, InFlush
<1>7. Queued' = Queued - 1 /\ Queued \in {1, 2} /\ pc \notin InExecute /\ pc' \notin InExecute /\ pc \in InRun
  BY <1>1 DEF Queued, InExecute, InRun
<1>8. RunsCounted'
  <2>1. n <= 2 * failed + Queued /\ Queued <= n /\ failed < runs /\ failed \in Nat
    BY <1>7 DEF DriverInv, RunsCounted, DriverTypeOK
  <2>2. Len(readbacks') <= 2 * failed + Queued' /\ Queued' <= Len(readbacks')
    BY <1>4, <1>5, <1>7, <2>1
  <2> QED BY <1>1, <2>1, <2>2 DEF RunsCounted
<1>9. \A i \in DOMAIN readbacks' : i \in DOMAIN readbacks /\ i # n /\ readbacks'[i] = readbacks[i]
  BY <1>4
<1>10. CopiesFollow'
  <2> SUFFICES ASSUME NEW k \in DOMAIN readbacks', k > (n - 1) - (Queued - 1)
               PROVE  \/ readbacks[k].buffer \in filled
                      \/ \E w \in queue.work : readbacks[k].buffer \in w.job.copies
    BY <1>2, <1>3, <1>5, <1>7, <1>9 DEF CopiesFollow
  <2>1. k \in DOMAIN readbacks /\ k > n - Queued
    BY <1>4, <1>7, <1>9
  <2> QED BY <1>7, <2>1 DEF DriverInv, CopiesFollow
<1>11. ReadbacksKeepBuffers'
  <2>1. ASSUME NEW k \in DOMAIN readbacks' PROVE readbacks'[k].buffer \in owned'
    BY <1>2, <1>3, <1>9 DEF DriverInv, ReadbacksKeepBuffers
  <2> QED BY <1>2, <1>9, <2>1 DEF DriverInv, ReadbacksKeepBuffers
<1>12. OwnedUsed'
  <2>1. ReadbackBuffers = ReadbackBuffers' \cup {readbacks[n].buffer}
    <3>1. ASSUME NEW k \in DOMAIN readbacks, k # n
          PROVE  k \in DOMAIN readbacks' /\ readbacks'[k] = readbacks[k]
      BY <1>4, <3>1
    <3> QED BY <1>2, <1>9, <3>1 DEF ReadbackBuffers
  <2>2. readbacks[n].buffer \notin ReadbackBuffers'
    BY <1>2, <1>9 DEF DriverInv, ReadbacksKeepBuffers, ReadbackBuffers
  <2>3. readbacks[n].buffer \notin Elements(scoped)
    BY <1>2 DEF DriverInv, ReadbacksKeepBuffers, Elements
  <2>4. Elements(scoped') = Elements(scoped)
    BY <1>2 DEF Elements
  <2> QED BY <1>3, <2>1, <2>2, <2>3, <2>4 DEF DriverInv, OwnedUsed
<1> QED BY <1>2, <1>3, <1>6, <1>8, <1>10, <1>11, <1>12 DEF DriverInv

LEMMA FailsDriver ==
  ASSUME DriverInv, ProcessingFails
  PROVE  DriverInv'
<1>1. /\ pc = "process" /\ pc' = "idle" /\ failed' = failed + 1
      /\ UNCHANGED <<queue, list, scoped, pool, owned, retired, readbacks, stage, filled, runs>>
  BY DEF ProcessingFails, Goto
<1>2. EngineTyped'
  BY <1>1 DEF DriverInv, EngineTyped
<1>3. failed \in Nat /\ runs \in Nat /\ failed < runs /\ Len(readbacks) \in Nat
      /\ Len(readbacks) <= 2 * failed + 2 /\ DOMAIN readbacks = 1..Len(readbacks)
  BY <1>1 DEF DriverInv, DriverTypeOK, RunsCounted, InRun, EngineTyped, Queued
<1>4. Queued' = 0 /\ Len(readbacks) <= 2 * (failed + 1)
  BY <1>1, <1>3 DEF Queued
<1>5. DriverTypeOK' /\ Staged' /\ ScopeFollows' /\ WorkFollows'
  BY <1>1, <1>3 DEF DriverInv, DriverTypeOK, Staged, ScopeFollows, WorkFollows, InExecute, InFlush
<1>6. RunsCounted' /\ CopiesFollow'
  BY <1>1, <1>3, <1>4 DEF RunsCounted, CopiesFollow, InRun, InExecute
<1>7. OwnedUsed' /\ ReadbacksKeepBuffers'
  BY <1>1, OwnersStill DEF DriverInv
<1> QED BY <1>2, <1>5, <1>6, <1>7 DEF DriverInv

LEMMA TeardownDriver ==
  ASSUME DriverInv, Teardown
  PROVE  DriverInv'
<1>1. /\ pc = "idle" /\ pc' = "closing"
      /\ pool' = <<>> /\ owned' = {} /\ retired' = <<>> /\ readbacks' = <<>>
      /\ list' = Closed
      /\ UNCHANGED <<queue, scoped, stage, filled, runs, failed>>
  BY DEF Teardown, Goto
<1>2. stage = Outside /\ scoped = <<>> /\ queue.work = {}
  BY <1>1 DEF DriverInv, Staged, ScopeFollows, WorkFollows, InExecute, InFlush
<1>3. EngineTyped'
  <2>1. Closed \in Listed
    BY DEF Closed, Listed
  <2> HIDE DEF Listed, Pooled, Released, Stage
  <2>2. <<>> \in Seq(Pooled) /\ <<>> \in Seq(Released)
    OBVIOUS
  <2> QED BY <1>1, <1>2, <2>1, <2>2 DEF DriverInv, EngineTyped, Outside, Recording
<1>4. DriverTypeOK' /\ Staged' /\ ScopeFollows' /\ WorkFollows'
  BY <1>1, <1>2 DEF DriverInv, DriverTypeOK, Staged, ScopeFollows, WorkFollows, InExecute, InFlush
<1>5. RunsCounted'
  BY <1>1 DEF DriverInv, DriverTypeOK, RunsCounted, InRun, InExecute, Queued
<1>6. OwnedUsed' /\ ReadbacksKeepBuffers' /\ CopiesFollow'
  BY <1>1, <1>2 DEF OwnedUsed, Elements, ReadbackBuffers, ReadbacksKeepBuffers, CopiesFollow
<1> QED BY <1>3, <1>4, <1>5, <1>6 DEF DriverInv

LEMMA GpuDriver ==
  ASSUME DriverInv, Gpu
  PROVE  DriverInv'
<1>1. /\ UNCHANGED <<pc, runs, failed>> /\ (GpuFinish \/ GpuAdvance)
      /\ UNCHANGED <<list, scoped, owned, retired, readbacks, stage>>
  BY DEF Gpu, GpuFinish, GpuAdvance
<1>2. /\ EngineTyped' /\ queue'.work \subseteq queue.work
      /\ filled \subseteq filled'
      /\ \A w \in queue.work : w \in queue'.work \/ w.job.copies \subseteq filled'
  BY <1>1, GpuTyped DEF DriverInv
<1>3. DriverTypeOK' /\ Staged' /\ ScopeFollows' /\ WorkFollows'
  BY <1>1, <1>2 DEF DriverInv, DriverTypeOK, Staged, ScopeFollows, WorkFollows, InExecute, InFlush
<1>4. RunsCounted'
  BY <1>1 DEF DriverInv, RunsCounted, Queued
<1>5. CopiesFollow'
  BY <1>1, <1>2 DEF DriverInv, CopiesFollow, Queued
<1>6. OwnedUsed' /\ ReadbacksKeepBuffers'
  BY <1>1, OwnersStill DEF DriverInv
<1> QED BY <1>2, <1>3, <1>4, <1>5, <1>6 DEF DriverInv

LEMMA StepDriver == DriverInv /\ [DriverNext]_driverVars => DriverInv'
<1> SUFFICES ASSUME DriverInv, [DriverNext]_driverVars PROVE DriverInv'
  OBVIOUS
<1>1. CASE UNCHANGED driverVars
  <2>1. UNCHANGED <<queue, list, scoped, pool, owned, retired, readbacks, stage, filled, pc, runs, failed>>
    BY <1>1 DEF driverVars
  <2>2. EngineTyped' /\ DriverTypeOK' /\ Staged' /\ ScopeFollows' /\ WorkFollows'
    BY <2>1 DEF DriverInv, EngineTyped, DriverTypeOK, Staged, ScopeFollows, WorkFollows
  <2>3. RunsCounted' /\ CopiesFollow'
    BY <2>1 DEF DriverInv, RunsCounted, CopiesFollow, Queued
  <2> QED BY <2>1, <2>2, <2>3, OwnersStill DEF DriverInv
<1>2. CASE RunStep
  BY <1>2, CreateDriver, ReadDriver, DispatchDriver, EndDriver, FlushDriver, FlushedDriver,
     ProcessDriver, FailsDriver DEF RunStep
<1> QED BY <1>1, <1>2, RunDriver, TeardownDriver, GpuDriver DEF DriverNext

LEMMA DriverHolds == DriverSpec => []DriverInv
<1> QED BY InitDriver, StepDriver, PTL DEF DriverSpec

\* The driver's state, and the engine's under it, keep their shape in any number of runs.
THEOREM DriverTypeCorrect == DriverSpec => [](TypeOK /\ DriverTypeOK)
<1>1. DriverInv => TypeOK /\ DriverTypeOK
  BY TypedShape DEF DriverInv
<1> QED BY <1>1, DriverHolds, PTL

\* Between runs the GPU has nothing to do and only the readbacks of failed runs, two of
\* each at most, still hold buffers: BuffersReturned, for any number of runs.
THEOREM BuffersAlwaysReturned == DriverSpec => []BuffersReturned
<1>1. DriverInv => BuffersReturned
  <2> SUFFICES ASSUME DriverInv, pc = "idle"
               PROVE  /\ queue.work = {} /\ scoped = <<>>
                      /\ owned = {readbacks[k].buffer : k \in DOMAIN readbacks}
                      /\ Len(readbacks) <= 2 * failed
    BY DEF BuffersReturned
  <2>1. queue.work = {} /\ scoped = <<>>
    BY DEF DriverInv, WorkFollows, ScopeFollows, InExecute
  <2>2. Elements(scoped) = {}
    BY <2>1 DEF Elements
  <2>3. owned = ReadbackBuffers
    BY <2>2 DEF DriverInv, OwnedUsed
  <2>4. Len(readbacks) \in Nat /\ failed \in Nat
    BY DEF DriverInv, EngineTyped, DriverTypeOK
  <2>5. Len(readbacks) <= 2 * failed
    BY <2>4 DEF DriverInv, RunsCounted, Queued
  <2> QED BY <2>1, <2>3, <2>5 DEF ReadbackBuffers
<1> QED BY <1>1, DriverHolds, PTL

\* The allocator a run resets belongs to no unfinished work: RunsResetIdleAllocators,
\* what CommandEngine alone does not give its clients.
THEOREM AllocatorsResetIdle == DriverSpec => RunsResetIdleAllocators
<1>1. DriverInv =>
        (pc = "idle" /\ pc' = "setup" => \A w \in queue.work : w.job.allocator # list'.allocator)
  BY DEF DriverInv, WorkFollows
<1>2. DriverInv /\ [DriverNext]_driverVars =>
        [pc = "idle" /\ pc' = "setup" =>
           \A w \in queue.work : w.job.allocator # list'.allocator]_driverVars
  BY <1>1
<1> QED BY <1>2, DriverHolds, PTL DEF DriverSpec, RunsResetIdleAllocators

\* A run reads only copies that were made: RunsReadCopies.
THEOREM CopiesRead == DriverSpec => RunsReadCopies
<1>1. ASSUME DriverInv, DriverNext, pc' # pc, pc \in {"process", "outer"},
             NEW k \in DOMAIN readbacks, Dropped(k)
      PROVE  readbacks[k].buffer \in filled
  <2>1. ProcessInner \/ ProcessOuter \/ ProcessingFails
    BY <1>1 DEF DriverNext, Run, RunStep, CreateGPUResources, QueueReadbacks, DispatchTest,
       BindingFails, RecordingThrows, SubmitTest, FlushTest, FlushedTest, LastFlush, LastFlushed,
       Teardown, Gpu, Goto
  <2>2. CASE ProcessingFails
    BY <1>1, <2>2 DEF ProcessingFails, Dropped
  <2>3. CASE ProcessInner \/ ProcessOuter
    <3> DEFINE n == Len(readbacks)
    <3>1. readbacks' = Without(readbacks, n) /\ n \in DOMAIN readbacks
      BY <1>1, <2>3, ProcessDriver
    <3>2. IsSequence(readbacks)
      BY <1>1, InSmallerSet DEF DriverInv, EngineTyped
    <3>3. \A i \in DOMAIN readbacks : i = n \/ readbacks[i] \in Elements(Without(readbacks, n))
      BY <3>1, <3>2, Removing
    <3>4. k = n
      BY <1>1, <3>1, <3>3 DEF Dropped, Elements
    <3>5. n \in Nat /\ n > n - Queued /\ queue.work = {}
      <4>1. n \in Nat
        BY <1>1 DEF DriverInv, EngineTyped
      <4> QED BY <1>1, <4>1 DEF DriverInv, WorkFollows, Queued
    <3> QED BY <1>1, <3>1, <3>4, <3>5 DEF DriverInv, CopiesFollow, InExecute
  <2> QED BY <2>1, <2>2, <2>3
<1>2. DriverInv /\ [DriverNext]_driverVars =>
        [pc' # pc /\ pc \in {"process", "outer"} =>
           \A k \in DOMAIN readbacks : Dropped(k) => readbacks[k].buffer \in filled]_driverVars
  BY <1>1
<1> QED BY <1>2, DriverHolds, PTL DEF DriverSpec, RunsReadCopies

=============================================================================
