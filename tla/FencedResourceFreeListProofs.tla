--------------------- MODULE FencedResourceFreeListProofs ---------------------
(* Proofs about FencedResourceFreeList, for any number of slots, resources,    *)
(* signals and versions.                                                       *)
EXTENDS FencedResourceFreeList, CommonFacts

\* Clients let go of a handle before its version comes round again.
ASSUME StalenessAssumption == MaxStaleness + 2 <= VersionCount

-----------------------------------------------------------------------------
(* The inductive invariant. OnlyOwnersHandleValid and InFlightResourcesAlive   *)
(* say nothing of the order between releases and the work they must wait for;   *)
(* the parts below add it.                                                      *)

\* A slot whose owner has not released it carries its owner's version.
LiveVersions ==
  /\ Len(latest) = Len(resources)
  /\ \A i \in DOMAIN resources :
       Live(i) => resources[i].version = latest[i] % VersionCount

\* Deferred releases wait for signals that were sent, in the order they were sent.
DeferredOrdered ==
  /\ \A k \in DOMAIN deferred : deferred[k].point < queue.next
  /\ \A j, k \in DOMAIN deferred : j <= k => deferred[j].point <= deferred[k].point

\* Work in flight uses a resource that is still owned, or one whose release waits
\* for a signal sent after that work.
InFlightGuarded ==
  \A w \in queue.work :
    \E i \in DOMAIN resources :
      /\ resources[i].resource = w.job
      /\ \/ Live(i)
         \/ \E k \in DOMAIN deferred :
              deferred[k].handle.index = i /\ w.mark <= deferred[k].point

IInv == /\ TypeOK
        /\ QueueOrdered(queue)
        /\ OnePlacePerSlot
        /\ LiveVersions
        /\ DeferredOrdered
        /\ InFlightGuarded

-----------------------------------------------------------------------------
(* Versions and handles *)

\* Two generations less than VersionCount apart have different versions.
LEMMA VersionsDiffer ==
  ASSUME NEW a \in Nat, NEW b \in Nat, NEW V \in Nat \ {0}, a < b, b - a < V
  PROVE  a % V # b % V
<1>1. SUFFICES ASSUME a % V = b % V PROVE FALSE
  OBVIOUS
<1> DEFINE p == a \div V
           q == b \div V
<1>2. /\ a = (V * p) + (a % V)
      /\ b = (V * q) + (b % V)
      /\ p \in Int
      /\ q \in Int
  OBVIOUS
<1> HIDE DEF p, q
<1>3. b - a = V * q - V * p
  BY <1>1, <1>2
<1>4. V * q - V * p = V * (q - p)
  BY <1>2
<1>5. CASE q <= p
  <2>1. V * (q - p) <= 0
    BY <1>2, <1>5
  <2> QED BY <2>1, <1>2, <1>3, <1>4
<1>6. CASE q >= p + 1
  <2>1. V * (q - p) >= V
    BY <1>2, <1>6
  <2> QED BY <2>1, <1>2, <1>3, <1>4
<1> QED BY <1>2, <1>5, <1>6

Deferred == [handle : Handle, point : Nat]

\* What HandlesOf yields.
LEMMA HandlesOfProperties ==
  ASSUME NEW s \in Seq(Deferred)
  PROVE  /\ HandlesOf(s) \in Seq(Handle)
         /\ Len(HandlesOf(s)) = Len(s)
         /\ \A k \in 1..Len(s) : HandlesOf(s)[k] = s[k].handle
<1>1. Len(s) \in Nat
  OBVIOUS
<1>2. ASSUME NEW k \in 1..Len(s) PROVE s[k].handle \in Handle
  <2>1. s[k] \in Deferred
    BY ElementOfSeq
  <2> QED BY <2>1 DEF Deferred
<1>3. HandlesOf(s) \in [1..Len(s) -> Handle]
  BY <1>2 DEF HandlesOf
<1>4. \A k \in 1..Len(s) : HandlesOf(s)[k] = s[k].handle
  BY DEF HandlesOf
<1> QED BY <1>1, <1>3, <1>4, FunctionIsSeq

\* Free handles followed by those of deferred releases, element by element.
LEMMA JoinElements ==
  ASSUME NEW f \in Seq(Handle), NEW d \in Seq(Deferred)
  PROVE  /\ f \o HandlesOf(d) \in Seq(Handle)
         /\ Len(f \o HandlesOf(d)) = Len(f) + Len(d)
         /\ \A k \in 1..Len(f) : (f \o HandlesOf(d))[k] = f[k]
         /\ \A k \in 1..Len(d) : (f \o HandlesOf(d))[Len(f) + k] = d[k].handle
<1>1. PICK h \in Seq(Handle) :
        /\ h = HandlesOf(d)
        /\ Len(h) = Len(d)
        /\ \A k \in 1..Len(d) : h[k] = d[k].handle
  BY HandlesOfProperties
<1>2. /\ f \o h \in Seq(Handle)
      /\ Len(f \o h) = Len(f) + Len(h)
  BY ConcatElements, Zenon
<1>3. \A k \in 1..Len(f) : (f \o h)[k] = f[k]
  BY ConcatElements, Zenon
<1>4. \A k \in 1..Len(h) : (f \o h)[Len(f) + k] = h[k]
  BY ConcatElements
<1> QED BY <1>1, <1>2, <1>3, <1>4

\* The tick moves handles from one list to the other without changing the order
\* in which they wait, and Manage takes the first of them.
LEMMA ReusePopsFirst ==
  ASSUME TypeOK, NEW n \in 0..Len(deferred), Ticked(n) # <<>>,
         deferred' = Remaining(n), freeList' = Tail(Ticked(n))
  PROVE  /\ deferred' \in Seq(Deferred)
         /\ Len(deferred') = Len(deferred) - n
         /\ \A k \in 1..Len(deferred') : deferred'[k] = deferred[n + k]
         /\ freeList' \in Seq(Handle)
         /\ Waiting \in Seq(Handle)
         /\ Waiting' \in Seq(Handle)
         /\ Len(Waiting) > 0
         /\ Len(Waiting') = Len(Waiting) - 1
         /\ Head(Ticked(n)) = Waiting[1]
         /\ \A k \in 1..Len(Waiting') : Waiting'[k] = Waiting[k + 1]
<1> DEFINE F == Len(freeList)
           D == Len(deferred)
           ripe == SubSeq(deferred, 1, n)
           rest == SubSeq(deferred, n + 1, D)
           T == freeList \o HandlesOf(ripe)
<1>1. /\ freeList \in Seq(Handle) /\ F \in Nat
      /\ deferred \in Seq(Deferred) /\ D \in Nat
      /\ n \in Nat /\ n <= D
  BY DEF TypeOK, Deferred
<1>2. /\ rest \in Seq(Deferred)
      /\ Len(rest) = D - n
      /\ \A k \in 1..D - n : rest[k] = deferred[n + k]
  <2>1. \A i \in n + 1..D : deferred[i] \in Deferred
    BY <1>1, ElementOfSeq
  <2> QED BY <1>1, <2>1, SubSeqElements
<1>3. /\ ripe \in Seq(Deferred)
      /\ Len(ripe) = n
      /\ \A k \in 1..n : ripe[k] = deferred[k]
  <2>1. \A i \in 1..n : deferred[i] \in Deferred
    BY <1>1, ElementOfSeq
  <2> QED BY <1>1, <2>1, SubSeqElements
<1>4. Ticked(n) = T /\ Remaining(n) = rest
  BY DEF Ticked, Remaining
<1> HIDE DEF ripe, rest
<1>5. /\ Waiting \in Seq(Handle)
      /\ Len(Waiting) = F + D
      /\ \A k \in 1..F : Waiting[k] = freeList[k]
      /\ \A k \in 1..D : Waiting[F + k] = deferred[k].handle
  BY <1>1, JoinElements DEF Waiting
<1>6. /\ T \in Seq(Handle)
      /\ Len(T) = F + n
      /\ \A k \in 1..F : T[k] = freeList[k]
      /\ \A k \in 1..n : T[F + k] = deferred[k].handle
  <2>1. /\ T \in Seq(Handle)
        /\ Len(T) = F + Len(ripe)
        /\ \A k \in 1..F : T[k] = freeList[k]
        /\ \A k \in 1..Len(ripe) : T[F + k] = ripe[k].handle
    BY <1>1, <1>3, JoinElements, Zenon
  <2> QED BY <1>1, <1>3, <2>1
<1>7. T # <<>> /\ freeList' = Tail(T) /\ deferred' = rest
  BY <1>4
<1> HIDE DEF T
<1>8. /\ F + n > 0
      /\ Tail(T) \in Seq(Handle)
      /\ Len(Tail(T)) = (F + n) - 1
      /\ \A k \in 1..(F + n) - 1 : Tail(T)[k] = T[k + 1]
      /\ Head(T) = T[1]
  BY <1>1, <1>6, <1>7, HeadTailProperties
<1>9. /\ Waiting' \in Seq(Handle)
      /\ Len(Waiting') = ((F + n) - 1) + (D - n)
      /\ \A k \in 1..(F + n) - 1 : Waiting'[k] = Tail(T)[k]
      /\ \A k \in 1..D - n : Waiting'[((F + n) - 1) + k] = rest[k].handle
  <2>1. Waiting' = Tail(T) \o HandlesOf(rest)
    BY <1>7 DEF Waiting, HandlesOf
  <2> DEFINE tail == Tail(T)
  <2>2. tail \in Seq(Handle) /\ Len(tail) = (F + n) - 1
    BY <1>8
  <2> HIDE DEF tail
  <2>3. /\ tail \o HandlesOf(rest) \in Seq(Handle)
        /\ Len(tail \o HandlesOf(rest)) = Len(tail) + Len(rest)
        /\ \A k \in 1..Len(tail) : (tail \o HandlesOf(rest))[k] = tail[k]
        /\ \A k \in 1..Len(rest) :
             (tail \o HandlesOf(rest))[Len(tail) + k] = rest[k].handle
    BY <1>2, <2>2, JoinElements, Zenon
  <2>4. Waiting' = tail \o HandlesOf(rest)
    BY <2>1 DEF tail
  <2>5. /\ Waiting' \in Seq(Handle)
        /\ Len(Waiting') = Len(tail) + Len(rest)
        /\ \A k \in 1..Len(tail) : Waiting'[k] = tail[k]
        /\ \A k \in 1..Len(rest) : Waiting'[Len(tail) + k] = rest[k].handle
    BY <2>3, <2>4, Zenon
  <2>6. /\ Len(rest) = D - n
        /\ Len(tail) = (F + n) - 1
    BY <1>2, <2>2
  <2> QED BY <2>5, <2>6, Zenon DEF tail
<1>10. \A k \in 1..F + n : T[k] = Waiting[k]
  <2> SUFFICES ASSUME NEW k \in 1..F + n PROVE T[k] = Waiting[k]
    OBVIOUS
  <2>1. CASE k <= F
    BY <2>1, <1>1, <1>5, <1>6
  <2>2. CASE k > F
    <3>1. k = F + (k - F) /\ k - F \in 1..n /\ k - F \in 1..D
      BY <2>2, <1>1
    <3> QED BY <3>1, <1>5, <1>6
  <2> QED BY <2>1, <2>2, <1>1
<1>11. \A k \in 1..F + D - 1 : Waiting'[k] = Waiting[k + 1]
  <2> SUFFICES ASSUME NEW k \in 1..F + D - 1 PROVE Waiting'[k] = Waiting[k + 1]
    OBVIOUS
  <2>1. CASE k <= (F + n) - 1
    <3>1. k \in 1..(F + n) - 1 /\ k + 1 \in 1..F + n
      BY <2>1, <1>1
    <3> QED BY <3>1, <1>8, <1>9, <1>10
  <2>2. CASE k > (F + n) - 1
    <3> DEFINE j == k - ((F + n) - 1)
    <3>1. /\ k = ((F + n) - 1) + j /\ j \in 1..D - n
          /\ k + 1 = F + (n + j) /\ n + j \in 1..D
      BY <2>2, <1>1
    <3> HIDE DEF j
    <3>2. Waiting'[k] = deferred[n + j].handle
      BY <3>1, <1>2, <1>9
    <3>3. Waiting[k + 1] = deferred[n + j].handle
      BY <3>1, <1>5
    <3> QED BY <3>2, <3>3
  <2> QED BY <2>1, <2>2, <1>1
<1>12. Len(Waiting) > 0 /\ Len(Waiting') = Len(Waiting) - 1 /\ Len(Waiting') = F + D - 1
  BY <1>1, <1>5, <1>8, <1>9
<1>13. Head(Ticked(n)) = Waiting[1]
  BY <1>1, <1>4, <1>8, <1>10
<1> QED BY <1>1, <1>2, <1>5, <1>7, <1>8, <1>9, <1>11, <1>12, <1>13

-----------------------------------------------------------------------------
(* What Manage and Release do to the handles, however the lists behind them    *)
(* look.                                                                       *)

\* Manage gives out h for r: the next handle of a slot that was waiting, or the
\* first of a new slot.
Gives(h, r) ==
  /\ h \in Handle
  /\ h.gen = IF h.index \in DOMAIN latest THEN latest[h.index] + 1 ELSE 0
  /\ h.index \in DOMAIN latest => ~Live(h.index)
  /\ \A i : (Live(i))' <=> (Live(i) \/ i = h.index)
  /\ DOMAIN latest' = DOMAIN latest \cup {h.index}
  /\ DOMAIN resources' = DOMAIN latest'
  /\ latest'[h.index] = h.gen
  /\ resources'[h.index].resource = r
  /\ \A i \in DOMAIN latest \ {h.index} :
       latest'[i] = latest[i] /\ resources'[i] = resources[i]
  /\ \A k \in DOMAIN Waiting' : \E j \in DOMAIN Waiting : Waiting'[k] = Waiting[j]
  /\ queue' = queue

\* Release takes h back from its owner: the slot waits, one generation on.
TakesBack(h) ==
  /\ h.index \in DOMAIN resources /\ Live(h.index) /\ h.gen = latest[h.index]
  /\ \A i : (Live(i))' <=> (Live(i) /\ i # h.index)
  /\ latest' = latest
  /\ DOMAIN resources' = DOMAIN resources
  /\ \A i \in DOMAIN resources : resources'[i].resource = resources[i].resource
  /\ \A k \in DOMAIN Waiting' :
       Waiting'[k].gen = h.gen + 1 \/ \E j \in DOMAIN Waiting : Waiting'[k] = Waiting[j]
  /\ queue'.next = queue.next + 1 /\ queue'.work = queue.work

-----------------------------------------------------------------------------
(* Every action keeps the invariant. *)

\* With no slots and no signals there is nothing to hold.
LEMMA InitKeeps == Init => IInv
<1> SUFFICES ASSUME Init PROVE IInv
  OBVIOUS
<1> USE DEF Init
<1>1. /\ queue.next = 1 /\ queue.completed = 0 /\ queue.work = {}
      /\ queue \in QueueType(Resource)
  BY DEF NewQueue, QueueType
<1>2. TypeOK
  BY <1>1 DEF TypeOK
<1>3. Len(Waiting) = 0 /\ DOMAIN Waiting = {}
  <2>1. /\ freeList \in Seq(Handle) /\ deferred \in Seq(Deferred)
        /\ Len(freeList) = 0 /\ Len(deferred) = 0
    BY EmptySeq
  <2>2. Waiting \in Seq(Handle) /\ Len(Waiting) = Len(freeList) + Len(deferred)
    BY <2>1, JoinElements DEF Waiting
  <2> QED BY <2>1, <2>2
<1>4. QueueOrdered(queue)
  BY <1>1 DEF QueueOrdered
<1>5. OnePlacePerSlot
  BY <1>3 DEF OnePlacePerSlot
<1>6. LiveVersions /\ DeferredOrdered /\ InFlightGuarded
  BY <1>1 DEF LiveVersions, DeferredOrdered, InFlightGuarded
<1> QED BY <1>2, <1>4, <1>5, <1>6 DEF IInv

\* Reuse takes the slot that has waited longest from the lists, and its owner's
\* version is in force again. No work in flight uses it: a job that did was
\* submitted before the signal of its release, which has been reached.
LEMMA ReuseKeeps ==
  ASSUME IInv, NEW r \in Resource, ManageReuse(r)
  PROVE  IInv' /\ \E h : Gives(h, r)
<1>1. PICK n \in 0..Len(deferred) :
        LET free == Ticked(n)
            h == Head(free)
        IN  /\ TickLength(n)
            /\ free # <<>>
            /\ deferred' = Remaining(n)
            /\ freeList' = Tail(free)
            /\ IF resources[h.index].version = Version(h)
                 THEN /\ resources' = [resources EXCEPT ![h.index].resource = r]
                      /\ latest' = [latest EXCEPT ![h.index] = h.gen]
                 ELSE UNCHANGED <<resources, latest>>
            /\ UNCHANGED queue
  BY DEF ManageReuse
<1> DEFINE h == Waiting[1]
           W == Len(Waiting)
<1>2. /\ TypeOK /\ QueueOrdered(queue) /\ OnePlacePerSlot
      /\ LiveVersions /\ DeferredOrdered /\ InFlightGuarded
  BY DEF IInv
<1>3. /\ deferred' \in Seq(Deferred)
      /\ Len(deferred') = Len(deferred) - n
      /\ \A k \in 1..Len(deferred') : deferred'[k] = deferred[n + k]
      /\ freeList' \in Seq(Handle)
      /\ Waiting \in Seq(Handle)
      /\ Waiting' \in Seq(Handle)
      /\ W > 0
      /\ Len(Waiting') = W - 1
      /\ Head(Ticked(n)) = Waiting[1]
      /\ \A k \in 1..Len(Waiting') : Waiting'[k] = Waiting[k + 1]
  BY <1>1, <1>2, ReusePopsFirst
<1>4. /\ W \in Nat /\ DOMAIN Waiting = 1..W /\ DOMAIN Waiting' = 1..W - 1
      /\ 1 \in DOMAIN Waiting
      /\ h \in Handle
  BY <1>3
<1>5. /\ h.index \in DOMAIN resources
      /\ h.gen = latest[h.index] + 1
      /\ resources[h.index].version = Version(h)
  BY <1>2, <1>4 DEF OnePlacePerSlot
<1>6. /\ resources' = [resources EXCEPT ![h.index].resource = r]
      /\ latest' = [latest EXCEPT ![h.index] = h.gen]
      /\ queue' = queue
  BY <1>1, <1>3, <1>5
<1> HIDE DEF h, W
<1>7. /\ Len(latest') = Len(latest) /\ latest' \in Seq(Nat)
      /\ Len(resources') = Len(resources)
      /\ resources' \in Seq([resource : Resource, version : 0..VersionCount - 1])
      /\ DOMAIN resources' = DOMAIN resources /\ DOMAIN latest' = DOMAIN latest
      /\ DOMAIN latest = DOMAIN resources
      /\ latest'[h.index] = h.gen
      /\ \A i \in DOMAIN latest : i # h.index => latest'[i] = latest[i]
      /\ \A i \in DOMAIN resources : resources'[i].version = resources[i].version
      /\ \A i \in DOMAIN resources : i # h.index => resources'[i] = resources[i]
  <2> DEFINE Slot == [resource : Resource, version : 0..VersionCount - 1]
             e == [resources[h.index] EXCEPT !.resource = r]
  <2>1. /\ resources \in Seq(Slot) /\ h.index \in 1..Len(resources)
        /\ latest \in Seq(Nat) /\ Len(latest) = Len(resources)
        /\ h.gen \in Nat
    BY <1>2, <1>4, <1>5, SMTT(30) DEF TypeOK, LiveVersions, Handle
  <2>2. resources[h.index] \in Slot
    BY <2>1, ElementOfSeq
  <2>3. e \in Slot /\ e.version = resources[h.index].version
    BY <2>2
  <2>4. resources' = [resources EXCEPT ![h.index] = e]
    BY <1>6
  <2> HIDE DEF e, Slot
  <2>5. /\ resources' \in Seq(Slot) /\ Len(resources') = Len(resources)
        /\ \A j \in 1..Len(resources) :
             resources'[j] = IF j = h.index THEN e ELSE resources[j]
    BY <2>1, <2>3, <2>4, ExceptSeq
  <2>6. /\ latest' \in Seq(Nat) /\ Len(latest') = Len(latest)
        /\ \A j \in 1..Len(latest) :
             latest'[j] = IF j = h.index THEN h.gen ELSE latest[j]
    BY <2>1, <1>6, ExceptSeq, SMTT(30)
  <2>7. /\ DOMAIN resources' = 1..Len(resources) /\ DOMAIN resources = 1..Len(resources)
        /\ DOMAIN latest' = 1..Len(resources) /\ DOMAIN latest = 1..Len(resources)
    BY <2>1, <2>5, <2>6
  <2> QED BY <2>1, <2>3, <2>5, <2>6, <2>7 DEF Slot
<1>8. TypeOK'
  BY <1>2, <1>3, <1>6, <1>7 DEF TypeOK, Deferred
<1>9. QueueOrdered(queue)'
  BY <1>2, <1>6 DEF QueueOrdered
<1>10. ASSUME NEW k \in 1..W - 1
       PROVE  /\ Waiting'[k] = Waiting[k + 1] /\ k + 1 \in DOMAIN Waiting
              /\ Waiting[k + 1].index # h.index
  <2>1. k + 1 \in DOMAIN Waiting /\ k + 1 # 1
    BY <1>4
  <2>2. Waiting'[k] = Waiting[k + 1]
    BY <1>3 DEF W
  <2> QED BY <2>1, <2>2, <1>2, <1>4 DEF OnePlacePerSlot, h
<1>11. OnePlacePerSlot'
  <2>1. ASSUME NEW j \in 1..W - 1, NEW k \in 1..W - 1,
               Waiting'[j].index = Waiting'[k].index
        PROVE  j = k
    <3>1. j + 1 = k + 1
      BY <2>1, <1>2, <1>10 DEF OnePlacePerSlot
    <3> QED BY <3>1
  <2>2. ASSUME NEW k \in 1..W - 1
        PROVE  /\ Waiting'[k].index \in DOMAIN resources'
               /\ Waiting'[k].gen = latest'[Waiting'[k].index] + 1
               /\ resources'[Waiting'[k].index].version = Version(Waiting'[k])
    <3>1. /\ Waiting'[k] = Waiting[k + 1] /\ Waiting[k + 1].index # h.index
          /\ Waiting[k + 1].index \in DOMAIN resources
          /\ Waiting[k + 1].gen = latest[Waiting[k + 1].index] + 1
          /\ resources[Waiting[k + 1].index].version = Version(Waiting[k + 1])
      BY <1>2, <1>10 DEF OnePlacePerSlot
    <3> QED BY <3>1, <1>7
  <2> QED BY <2>1, <2>2, <1>4 DEF OnePlacePerSlot, Version
<1>12. ASSUME NEW i PROVE Live(i)' <=> (Live(i) \/ i = h.index)
  <2>1. ASSUME Live(i)', i # h.index, NEW k \in DOMAIN Waiting
        PROVE  Waiting[k].index # i
    <3>1. CASE k = 1
      BY <2>1, <3>1 DEF h
    <3>2. CASE k # 1
      <4>1. k - 1 \in 1..W - 1 /\ (k - 1) + 1 = k
        BY <3>2, <1>4
      <4>2. Waiting'[k - 1] = Waiting[k]
        BY <4>1, <1>10
      <4> QED BY <4>1, <4>2, <2>1, <1>4 DEF Live
    <3> QED BY <3>1, <3>2
  <2>2. ASSUME Live(i) PROVE Live(i)'
    BY <2>2, <1>4, <1>10 DEF Live
  <2>3. ASSUME i = h.index PROVE Live(i)'
    BY <2>3, <1>4, <1>10 DEF Live
  <2> QED BY <2>1, <2>2, <2>3 DEF Live
<1>13. LiveVersions'
  <2>1. ASSUME NEW i \in DOMAIN resources', Live(i)'
        PROVE  resources'[i].version = latest'[i] % VersionCount
    <3>1. CASE i = h.index
      BY <3>1, <1>5, <1>7 DEF Version
    <3>2. CASE i # h.index
      BY <3>2, <2>1, <1>2, <1>7, <1>12 DEF LiveVersions
    <3> QED BY <3>1, <3>2
  <2> QED BY <2>1, <1>2, <1>7 DEF LiveVersions
<1>14. DeferredOrdered'
  <2>1. DOMAIN deferred' = 1..Len(deferred) - n /\ DOMAIN deferred = 1..Len(deferred)
    BY <1>2, <1>3 DEF TypeOK
  <2>2. ASSUME NEW k \in DOMAIN deferred'
        PROVE  deferred'[k] = deferred[n + k] /\ n + k \in DOMAIN deferred
    <3>1. Len(deferred) \in Nat
      BY <1>2 DEF TypeOK
    <3>2. n + k \in 1..Len(deferred) /\ k \in 1..Len(deferred')
      BY <3>1, <2>1, <1>3
    <3> QED BY <3>2, <2>1, <1>3
  <2>3. \A k \in DOMAIN deferred' : deferred'[k].point < queue'.next
    BY <2>2, <1>2, <1>6 DEF DeferredOrdered
  <2>4. ASSUME NEW j \in DOMAIN deferred', NEW k \in DOMAIN deferred', j <= k
        PROVE  deferred'[j].point <= deferred'[k].point
    <3>1. n + j <= n + k
      BY <2>1, <2>4
    <3> QED BY <3>1, <2>2, <1>2 DEF DeferredOrdered
  <2> QED BY <2>3, <2>4 DEF DeferredOrdered
<1>15. InFlightGuarded'
  <2> SUFFICES ASSUME NEW w \in queue.work
               PROVE  \E i \in DOMAIN resources' :
                        /\ resources'[i].resource = w.job
                        /\ \/ Live(i)'
                           \/ \E k \in DOMAIN deferred' :
                                deferred'[k].handle.index = i /\ w.mark <= deferred'[k].point
    BY <1>6 DEF InFlightGuarded
  <2>1. PICK i \in DOMAIN resources :
          /\ resources[i].resource = w.job
          /\ \/ Live(i)
             \/ \E k \in DOMAIN deferred :
                  deferred[k].handle.index = i /\ w.mark <= deferred[k].point
    BY <1>2 DEF InFlightGuarded
  <2>2. CASE Live(i)
    <3>1. i # h.index
      BY <2>2, <1>4 DEF Live, h
    <3> QED BY <3>1, <2>1, <2>2, <1>7, <1>12
  <2>3. CASE \E k \in DOMAIN deferred :
                deferred[k].handle.index = i /\ w.mark <= deferred[k].point
    <3>1. PICK k \in DOMAIN deferred :
            deferred[k].handle.index = i /\ w.mark <= deferred[k].point
      BY <2>3
    <3>2. /\ k \in 1..Len(deferred) /\ deferred[k].point \in Nat
          /\ w.mark \in Nat /\ queue.completed \in Nat /\ queue.completed < w.mark
          /\ n \in Nat /\ Len(deferred) \in Nat
      <4>1. /\ deferred \in Seq(Deferred) /\ queue \in QueueType(Resource)
            /\ QueueOrdered(queue)
        BY <1>2 DEF TypeOK, Deferred
      <4>2. deferred[k] \in Deferred /\ Len(deferred) \in Nat /\ k \in 1..Len(deferred)
        BY <4>1, ElementOfSeq
      <4> QED BY <4>1, <4>2 DEF Deferred, QueueType, QueueOrdered
    <3>3. k > n
      <4>1. ASSUME k <= n PROVE FALSE
        <5>1. queue.completed >= deferred[k].point
          BY <4>1, <1>1, <3>2 DEF TickLength, Reached, HasCompleted
        <5> QED BY <5>1, <3>1, <3>2
      <4> QED BY <4>1, <3>2
    <3>4. /\ k - n \in DOMAIN deferred' /\ deferred'[k - n] = deferred[k]
      <4>1. k - n \in 1..Len(deferred') /\ n + (k - n) = k
        BY <3>2, <3>3, <1>3, SMTT(30)
      <4>2. deferred'[k - n] = deferred[n + (k - n)]
        BY <4>1, <1>3, Zenon
      <4>3. DOMAIN deferred' = 1..Len(deferred')
        BY <1>3
      <4> QED BY <4>1, <4>2, <4>3
    <3>5. i # h.index
      <4>1. PICK j \in DOMAIN Waiting' : Waiting'[j] = deferred'[k - n].handle
        <5>1. /\ Len(Waiting') = Len(freeList') + Len(deferred')
              /\ Waiting'[Len(freeList') + (k - n)] = deferred'[k - n].handle
          <6>1. deferred' \in Seq(Deferred) /\ freeList' \in Seq(Handle)
            BY <1>3
          <6>2. Waiting' = freeList' \o HandlesOf(deferred')
            BY DEF Waiting, HandlesOf
          <6>3. k - n \in 1..Len(deferred')
            BY <6>1, <3>4
          <6> QED BY <6>1, <6>2, <6>3, JoinElements
        <5>2. Len(freeList') + (k - n) \in DOMAIN Waiting'
          BY <5>1, <1>3, <3>4, SMTT(30)
        <5> QED BY <5>1, <5>2
      <4>2. Waiting'[j].index # h.index
        BY <1>4, <1>10
      <4> QED BY <4>1, <4>2, <3>1, <3>4
    <3>6. i \in DOMAIN resources' /\ resources'[i].resource = w.job
      BY <3>5, <2>1, <1>7
    <3>7. \E j \in DOMAIN deferred' :
            deferred'[j].handle.index = i /\ w.mark <= deferred'[j].point
      BY <3>1, <3>4
    <3> QED BY <3>6, <3>7
  <2> QED BY <2>1, <2>2, <2>3
<1>16. Gives(h, r)
  <2>1. ~Live(h.index)
    BY <1>4 DEF Live, h
  <2>2. resources'[h.index].resource = r
    <3>1. resources[h.index] \in [resource : Resource, version : 0..VersionCount - 1]
      <4>1. resources \in Seq([resource : Resource, version : 0..VersionCount - 1])
        BY <1>2 DEF TypeOK
      <4>2. h.index \in 1..Len(resources)
        BY <4>1, <1>5
      <4> QED BY <4>1, <4>2, ElementOfSeq
    <3> QED BY <3>1, <1>5, <1>6
  <2>3. \A k \in DOMAIN Waiting' : \E j \in DOMAIN Waiting : Waiting'[k] = Waiting[j]
    BY <1>4, <1>10
  <2>4. /\ h \in Handle
        /\ h.gen = IF h.index \in DOMAIN latest THEN latest[h.index] + 1 ELSE 0
        /\ DOMAIN latest' = DOMAIN latest \cup {h.index}
        /\ DOMAIN resources' = DOMAIN latest'
        /\ latest'[h.index] = h.gen
    BY <1>4, <1>5, <1>7
  <2>5. \A i \in DOMAIN latest \ {h.index} :
          latest'[i] = latest[i] /\ resources'[i] = resources[i]
    BY <1>7
  <2>6. \A i : (Live(i))' <=> (Live(i) \/ i = h.index)
    BY <1>12, Zenon
  <2> QED BY <2>1, <2>2, <2>3, <2>4, <2>5, <2>6, <1>6, Zenon DEF Gives
<1> QED BY <1>8, <1>9, <1>11, <1>13, <1>14, <1>15, <1>16 DEF IInv

\* Within the versions' range, a handle that is still around validates exactly
\* while it is the slot's last one and its slot is not waiting.
LEMMA OwnersValidate ==
  ASSUME IInv, NEW h \in Handle, Presentable(h)
  PROVE  Validates(h) <=> (h.gen = latest[h.index] /\ Live(h.index))
<1> DEFINE i == h.index
<1>1. /\ TypeOK /\ OnePlacePerSlot /\ LiveVersions
      /\ VersionCount \in Nat \ {0} /\ MaxStaleness \in Nat
      /\ MaxStaleness + 2 <= VersionCount
  BY FreeListAssumption, StalenessAssumption DEF IInv
<1>2. /\ i \in DOMAIN resources /\ i \in DOMAIN latest
      /\ h.gen \in Nat /\ latest[i] \in Nat
      /\ h.gen <= latest[i] /\ latest[i] - h.gen <= MaxStaleness
  BY <1>1, SMTT(30) DEF Presentable, TypeOK, LiveVersions, Handle
<1>3. CASE Live(i)
  <2>1. resources[i].version = latest[i] % VersionCount
    BY <1>1, <1>2, <1>3 DEF LiveVersions
  <2>2. ASSUME h.gen # latest[i]
        PROVE  h.gen % VersionCount # latest[i] % VersionCount
    <3>1. h.gen < latest[i] /\ latest[i] - h.gen < VersionCount
      BY <2>2, <1>1, <1>2
    <3> QED BY <3>1, <1>1, <1>2, VersionsDiffer
  <2> QED BY <2>1, <2>2, <1>2, <1>3 DEF Validates, Version
<1>4. CASE ~Live(i)
  <2>1. PICK k \in DOMAIN Waiting : Waiting[k].index = i
    BY <1>4 DEF Live
  <2>2. resources[i].version = (latest[i] + 1) % VersionCount
    BY <2>1, <1>1 DEF OnePlacePerSlot, Version
  <2>3. h.gen % VersionCount # (latest[i] + 1) % VersionCount
    <3>1. /\ latest[i] + 1 \in Nat /\ h.gen < latest[i] + 1
          /\ (latest[i] + 1) - h.gen < VersionCount
      BY <1>1, <1>2
    <3> QED BY <3>1, <1>1, <1>2, VersionsDiffer
  <2> QED BY <2>2, <2>3, <1>4 DEF Validates, Version
<1> QED BY <1>3, <1>4

\* A new slot starts with an owner, at version 0.
LEMMA GrowKeeps ==
  ASSUME IInv, NEW r \in Resource, ManageGrow(r)
  PROVE  IInv' /\ \E h : Gives(h, r)
<1> DEFINE Slot == [resource : Resource, version : 0..VersionCount - 1]
           e == [resource |-> r, version |-> 0]
           N == Len(resources)
<1>1. /\ TypeOK /\ QueueOrdered(queue) /\ OnePlacePerSlot
      /\ LiveVersions /\ DeferredOrdered /\ InFlightGuarded
      /\ VersionCount \in Nat \ {0}
  BY FreeListAssumption DEF IInv
<1>2. /\ deferred' = deferred /\ freeList' = freeList /\ queue' = queue
      /\ resources' = Append(resources, e) /\ latest' = Append(latest, 0)
  BY DEF ManageGrow
<1>3. /\ resources \in Seq(Slot) /\ latest \in Seq(Nat)
      /\ N \in Nat /\ Len(latest) = N /\ e \in Slot
  BY <1>1 DEF TypeOK, LiveVersions
<1>4. /\ resources' \in Seq(Slot) /\ Len(resources') = N + 1
      /\ DOMAIN resources' = 1..N + 1 /\ DOMAIN resources = 1..N
      /\ resources'[N + 1] = e
      /\ \A i \in 1..N : resources'[i] = resources[i]
  <2> HIDE DEF e, Slot
  <2> QED BY <1>2, <1>3, AppendProperties
<1>5. /\ latest' \in Seq(Nat) /\ Len(latest') = N + 1
      /\ latest'[N + 1] = 0
      /\ \A i \in 1..N : latest'[i] = latest[i]
  BY <1>2, <1>3, AppendProperties
<1> HIDE DEF e, N
<1>6. Waiting' = Waiting
  BY <1>2 DEF Waiting, HandlesOf
<1>7. \A i : Live(i)' <=> Live(i)
  BY <1>6 DEF Live
<1>8. TypeOK'
  BY <1>1, <1>2, <1>4, <1>5 DEF TypeOK
<1>9. OnePlacePerSlot'
  <2>1. ASSUME NEW k \in DOMAIN Waiting'
        PROVE  /\ Waiting'[k].index \in DOMAIN resources'
               /\ Waiting'[k].gen = latest'[Waiting'[k].index] + 1
               /\ resources'[Waiting'[k].index].version = Version(Waiting'[k])
    <3>1. /\ Waiting[k].index \in 1..N
          /\ Waiting[k].gen = latest[Waiting[k].index] + 1
          /\ resources[Waiting[k].index].version = Version(Waiting[k])
      BY <1>1, <1>4, <1>6 DEF OnePlacePerSlot
    <3>2. Waiting[k].index \in 1..N + 1
      BY <3>1, <1>3 DEF N
    <3> QED BY <3>1, <3>2, <1>4, <1>5, <1>6
  <2> QED BY <2>1, <1>1, <1>6 DEF OnePlacePerSlot, Version
<1>10. LiveVersions'
  <2>1. ASSUME NEW i \in DOMAIN resources', Live(i)'
        PROVE  resources'[i].version = latest'[i] % VersionCount
    <3>1. CASE i = N + 1
      <4>1. 0 % VersionCount = 0
        BY <1>1
      <4> QED BY <3>1, <4>1, <1>4, <1>5 DEF e
    <3>2. CASE i # N + 1
      <4>1. i \in 1..N
        BY <3>2, <1>3, <1>4 DEF N
      <4> QED BY <4>1, <2>1, <1>1, <1>4, <1>5, <1>7 DEF LiveVersions
    <3> QED BY <3>1, <3>2
  <2> QED BY <2>1, <1>4, <1>5 DEF LiveVersions
<1>11. DeferredOrdered' /\ QueueOrdered(queue)'
  BY <1>1, <1>2 DEF DeferredOrdered, QueueOrdered
<1>12. InFlightGuarded'
  <2> SUFFICES ASSUME NEW w \in queue.work
               PROVE  \E i \in DOMAIN resources' :
                        /\ resources'[i].resource = w.job
                        /\ \/ Live(i)'
                           \/ \E k \in DOMAIN deferred' :
                                deferred'[k].handle.index = i /\ w.mark <= deferred'[k].point
    BY <1>2 DEF InFlightGuarded
  <2>1. PICK i \in DOMAIN resources :
          /\ resources[i].resource = w.job
          /\ \/ Live(i)
             \/ \E k \in DOMAIN deferred :
                  deferred[k].handle.index = i /\ w.mark <= deferred[k].point
    BY <1>1 DEF InFlightGuarded
  <2>2. i \in 1..N /\ i \in 1..N + 1
    BY <1>3, <1>4 DEF N
  <2> QED BY <2>1, <2>2, <1>2, <1>4, <1>7
<1>13. Gives([index |-> N + 1, gen |-> 0], r)
  <2> DEFINE h == [index |-> N + 1, gen |-> 0]
  <2>1. h \in Handle /\ h.index = N + 1 /\ h.gen = 0
    BY <1>3 DEF Handle, N
  <2> HIDE DEF h
  <2>2. N \in Nat /\ DOMAIN latest = 1..N /\ DOMAIN latest' = 1..N + 1
    BY <1>3, <1>5 DEF N
  <2>3. N + 1 \notin DOMAIN latest /\ DOMAIN latest' = DOMAIN latest \cup {N + 1}
    BY <2>2
  <2>4. Live(N + 1)
    BY <1>1, <1>4, <2>2, <2>3 DEF Live, OnePlacePerSlot
  <2>5. resources'[N + 1].resource = r
    BY <1>4 DEF e
  <2>6. \A i \in DOMAIN latest \ {N + 1} :
          latest'[i] = latest[i] /\ resources'[i] = resources[i]
    BY <1>4, <1>5, <2>2
  <2>7. DOMAIN resources' = DOMAIN latest'
    BY <1>4, <2>2
  <2>8. \A i : (Live(i))' <=> (Live(i) \/ i = N + 1)
    BY <1>7, <2>4
  <2>9. h.gen = IF h.index \in DOMAIN latest THEN latest[h.index] + 1 ELSE 0
    BY <2>1, <2>3
  <2>10. latest'[h.index] = h.gen
    BY <2>1, <1>5
  <2>11. \A k \in DOMAIN Waiting' : \E j \in DOMAIN Waiting : Waiting'[k] = Waiting[j]
    BY <1>6
  <2>12. h.index \in DOMAIN latest => ~Live(h.index)
    BY <2>1, <2>3
  <2>13. Gives(h, r)
    BY <1>2, <2>1, <2>3, <2>5, <2>6, <2>7, <2>8, <2>9, <2>10, <2>11, <2>12, Zenon DEF Gives
  <2> QED BY <2>13 DEF h
<1>14. \E h : Gives(h, r)
  BY <1>13
<1> QED BY <1>8, <1>9, <1>10, <1>11, <1>12, <1>14 DEF IInv

\* What a step that only moves the queue on must show: everything but the queue's
\* own order and the guard over its work is untouched.
LEMMA QueueStepKeeps ==
  ASSUME IInv, UNCHANGED <<resources, deferred, freeList, latest>>,
         queue' \in QueueType(Resource), QueueOrdered(queue'),
         queue'.next >= queue.next, InFlightGuarded'
  PROVE  IInv'
<1>1. /\ TypeOK /\ QueueOrdered(queue) /\ OnePlacePerSlot
      /\ LiveVersions /\ DeferredOrdered
  BY DEF IInv
<1>2. Waiting' = Waiting
  BY DEF Waiting, HandlesOf
<1>3. TypeOK'
  BY <1>1 DEF TypeOK
<1>4. OnePlacePerSlot'
  BY <1>1, <1>2 DEF OnePlacePerSlot, Version
<1>5. LiveVersions'
  BY <1>1, <1>2 DEF LiveVersions, Live
<1>6. DeferredOrdered'
  <2>1. ASSUME NEW k \in DOMAIN deferred PROVE deferred[k].point < queue'.next
    <3>1. deferred \in Seq(Deferred) /\ queue \in QueueType(Resource)
      BY <1>1 DEF TypeOK, Deferred
    <3>2. deferred[k] \in Deferred
      BY <3>1, ElementOfSeq
    <3>3. /\ deferred[k].point \in Nat /\ queue.next \in Nat /\ queue'.next \in Nat
          /\ deferred[k].point < queue.next
      BY <1>1, <3>1, <3>2 DEF Deferred, QueueType, DeferredOrdered
    <3> QED BY <3>3
  <2> QED BY <2>1, <1>1 DEF DeferredOrdered
<1>7. QueueOrdered(queue)'
  BY DEF QueueOrdered
<1> QED BY <1>3, <1>4, <1>5, <1>6, <1>7 DEF IInv

\* Work submitted with a valid handle uses a resource that is owned.
LEMMA UseKeeps ==
  ASSUME IInv, NEW h \in Handle, Use(h)
  PROVE  IInv'
<1> DEFINE i == h.index
           job == resources[i].resource
<1>1. /\ queue \in QueueType(Resource) /\ QueueOrdered(queue) /\ InFlightGuarded
      /\ Presentable(h) /\ Validates(h)
      /\ UNCHANGED <<resources, deferred, freeList, latest>>
      /\ queue' = Execute(queue, job)
  BY DEF IInv, TypeOK, Use
<1>2. Live(i) /\ i \in DOMAIN resources
  BY <1>1, OwnersValidate DEF Validates
<1>3. job \in Resource
  <2> DEFINE Slot == [resource : Resource, version : 0..VersionCount - 1]
  <2>1. resources \in Seq(Slot) /\ i \in 1..Len(resources)
    BY <1>2 DEF IInv, TypeOK
  <2>2. resources[i] \in Slot
    BY <2>1, ElementOfSeq
  <2> QED BY <2>2
<1>4. /\ queue' \in QueueType(Resource) /\ QueueOrdered(queue')
      /\ queue'.next = queue.next
      /\ queue'.work = queue.work \cup {[job |-> job, mark |-> queue.next]}
  BY <1>1, <1>3, ExecuteProperties
<1>5. InFlightGuarded'
  <2>1. Waiting' = Waiting
    BY <1>1 DEF Waiting, HandlesOf
  <2> QED BY <1>1, <1>2, <1>4, <2>1 DEF InFlightGuarded, Live
<1>6. queue'.next >= queue.next
  BY <1>1, <1>4 DEF QueueType
<1> QED BY <1>1, <1>4, <1>5, <1>6, QueueStepKeeps

\* A step of the queue that submits no work: another user's signal, or the GPU's.
LEMMA NoNewWorkKeeps ==
  ASSUME IInv, OtherSignal \/ GpuFinish \/ GpuAdvance
  PROVE  IInv'
<1>1. /\ queue \in QueueType(Resource) /\ QueueOrdered(queue) /\ InFlightGuarded
      /\ UNCHANGED <<resources, deferred, freeList, latest>>
  BY DEF IInv, TypeOK, OtherSignal, GpuFinish, GpuAdvance
<1>2. /\ queue' \in QueueType(Resource) /\ QueueOrdered(queue')
      /\ queue'.next = queue.next \/ queue'.next = queue.next + 1
      /\ queue'.work \subseteq queue.work
  <2>1. CASE OtherSignal
    BY <1>1, <2>1, SignalProperties DEF OtherSignal
  <2>2. CASE GpuFinish
    <3>1. PICK w \in queue.work : queue' = Finish(queue, w)
      BY <2>2 DEF GpuFinish
    <3> QED BY <1>1, <3>1, FinishProperties
  <2>3. CASE GpuAdvance
    BY <1>1, <2>3, AdvanceProperties DEF GpuAdvance
  <2> QED BY <2>1, <2>2, <2>3
<1>3. InFlightGuarded'
  <2>1. Waiting' = Waiting
    BY <1>1 DEF Waiting, HandlesOf
  <2> QED BY <1>1, <1>2, <2>1 DEF InFlightGuarded, Live
<1>4. queue'.next >= queue.next
  BY <1>1, <1>2 DEF QueueType
<1> QED BY <1>1, <1>2, <1>3, <1>4, QueueStepKeeps

\* A release moves an owned slot to the end of those waiting, one version on, behind
\* a signal sent after all the work its owner can have submitted.
LEMMA ReleaseKeeps ==
  ASSUME IInv, NEW h \in Handle, Release(h)
  PROVE  IInv' /\ TakesBack(h)
<1> DEFINE i == h.index
           next == NextVersion(h)
           d == [handle |-> next, point |-> queue.next]
           Slot == [resource : Resource, version : 0..VersionCount - 1]
           e == [resources[i] EXCEPT !.version = Version(next)]
           W == Len(Waiting)
           D == Len(deferred)
<1>1. /\ TypeOK /\ QueueOrdered(queue) /\ OnePlacePerSlot
      /\ LiveVersions /\ DeferredOrdered /\ InFlightGuarded
      /\ VersionCount \in Nat \ {0}
  BY FreeListAssumption DEF IInv
<1>2. /\ Presentable(h) /\ Validates(h)
      /\ resources' = [resources EXCEPT ![i] = e]
      /\ deferred' = Append(deferred, d)
      /\ queue' = Signal(queue)
      /\ freeList' = freeList /\ latest' = latest
  BY DEF Release, NextSignal
<1>3. /\ Live(i) /\ h.gen = latest[i] /\ i \in DOMAIN resources
  BY <1>1, <1>2, OwnersValidate DEF Validates
<1>4. /\ next \in Handle /\ next.index = i /\ next.gen = latest[i] + 1
      /\ Version(next) = (latest[i] + 1) % VersionCount
      /\ Version(next) \in 0..VersionCount - 1
  BY <1>1, <1>3 DEF NextVersion, Handle, Version
<1>5. /\ queue \in QueueType(Resource) /\ queue.next \in Nat
      /\ queue' \in QueueType(Resource) /\ QueueOrdered(queue')
      /\ queue'.next = queue.next + 1 /\ queue'.work = queue.work
  <2>1. queue \in QueueType(Resource) /\ QueueOrdered(queue)
    BY <1>1 DEF TypeOK
  <2>2. queue.next \in Nat
    BY <2>1 DEF QueueType
  <2> QED BY <2>1, <2>2, <1>2, SignalProperties
<1>6. /\ d \in Deferred /\ deferred \in Seq(Deferred) /\ D \in Nat
      /\ resources \in Seq(Slot) /\ resources[i] \in Slot /\ i \in 1..Len(resources)
      /\ freeList \in Seq(Handle)
      /\ d.handle = next /\ d.point = queue.next
  <2>1. /\ deferred \in Seq(Deferred) /\ resources \in Seq(Slot) /\ freeList \in Seq(Handle)
    BY <1>1 DEF TypeOK, Deferred
  <2>2. i \in 1..Len(resources)
    BY <2>1, <1>3
  <2>3. resources[i] \in Slot
    BY <2>1, <2>2, ElementOfSeq
  <2>4. d \in Deferred /\ d.handle = next /\ d.point = queue.next
    BY <1>4, <1>5 DEF Deferred
  <2> QED BY <2>1, <2>2, <2>3, <2>4
<1> HIDE DEF next, d
<1>7. e \in Slot /\ e.version = Version(next) /\ e.resource = resources[i].resource
  BY <1>4, <1>6
<1> HIDE DEF e, Slot
<1>8. /\ resources' \in Seq(Slot) /\ DOMAIN resources' = DOMAIN resources
      /\ Len(resources') = Len(resources)
      /\ resources'[i] = e
      /\ \A j \in DOMAIN resources : j # i => resources'[j] = resources[j]
  BY <1>2, <1>6, <1>7, ExceptSeq
<1>9. /\ deferred' \in Seq(Deferred) /\ Len(deferred') = D + 1
      /\ DOMAIN deferred' = 1..D + 1 /\ DOMAIN deferred = 1..D
      /\ deferred'[D + 1] = d
      /\ \A k \in 1..D : deferred'[k] = deferred[k]
  BY <1>2, <1>6, AppendProperties
<1>10. /\ Waiting \in Seq(Handle) /\ W = Len(freeList) + D
       /\ \A k \in 1..Len(freeList) : Waiting[k] = freeList[k]
       /\ \A k \in 1..D : Waiting[Len(freeList) + k] = deferred[k].handle
  BY <1>6, JoinElements DEF Waiting
<1>11. /\ Waiting' \in Seq(Handle) /\ Len(Waiting') = Len(freeList) + (D + 1)
       /\ \A k \in 1..Len(freeList) : Waiting'[k] = freeList[k]
       /\ \A k \in 1..D + 1 : Waiting'[Len(freeList) + k] = deferred'[k].handle
  <2>1. Waiting' = freeList \o HandlesOf(deferred')
    BY <1>2 DEF Waiting, HandlesOf
  <2>2. /\ freeList \o HandlesOf(deferred') \in Seq(Handle)
        /\ Len(freeList \o HandlesOf(deferred')) = Len(freeList) + Len(deferred')
        /\ \A k \in 1..Len(freeList) : (freeList \o HandlesOf(deferred'))[k] = freeList[k]
        /\ \A k \in 1..Len(deferred') :
             (freeList \o HandlesOf(deferred'))[Len(freeList) + k] = deferred'[k].handle
    BY <1>6, <1>9, JoinElements, Zenon
  <2> QED BY <2>1, <2>2, <1>9
<1> HIDE DEF W, D
<1>12. /\ W \in Nat /\ DOMAIN Waiting = 1..W /\ DOMAIN Waiting' = 1..W + 1
       /\ Len(freeList) \in Nat
  BY <1>6, <1>10, <1>11 DEF W, D
<1>13. Waiting'[W + 1] = next
  <2>1. D + 1 \in 1..D + 1 /\ W + 1 = Len(freeList) + (D + 1)
    BY <1>6, <1>10, <1>12
  <2> QED BY <2>1, <1>6, <1>9, <1>11
<1>14. ASSUME NEW k \in 1..W PROVE Waiting'[k] = Waiting[k] /\ Waiting[k].index # i
  <2>1. CASE k <= Len(freeList)
    BY <2>1, <1>3, <1>10, <1>11, <1>12 DEF Live
  <2>2. CASE k > Len(freeList)
    <3> DEFINE j == k - Len(freeList)
    <3>1. j \in 1..D /\ j \in 1..D + 1 /\ k = Len(freeList) + j
      BY <2>2, <1>6, <1>10, <1>12
    <3> HIDE DEF j
    <3>2. Waiting[k] = deferred[j].handle /\ Waiting'[k] = deferred'[j].handle
      BY <3>1, <1>10, <1>11
    <3>3. deferred'[j] = deferred[j]
      BY <3>1, <1>9
    <3> QED BY <3>2, <3>3, <1>3, <1>12 DEF Live
  <2> QED BY <2>1, <2>2, <1>12
<1>15. ASSUME NEW j PROVE Live(j)' <=> (Live(j) /\ j # i)
  <2>1. W + 1 \in DOMAIN Waiting' /\ \A k \in 1..W : k \in 1..W + 1
    BY <1>12
  <2>2. \A k \in 1..W + 1 : k = W + 1 \/ k \in 1..W
    BY <1>12
  <2> QED BY <2>1, <2>2, <1>4, <1>12, <1>13, <1>14 DEF Live
<1>16. TypeOK'
  BY <1>1, <1>2, <1>5, <1>8, <1>9 DEF TypeOK, Deferred, Slot
<1>17. QueueOrdered(queue)'
  BY <1>5 DEF QueueOrdered
<1>18. OnePlacePerSlot'
  <2>1. ASSUME NEW j \in 1..W + 1, NEW k \in 1..W + 1, Waiting'[j].index = Waiting'[k].index
        PROVE  j = k
    <3>1. CASE j \in 1..W /\ k \in 1..W
      BY <3>1, <2>1, <1>1, <1>12, <1>14 DEF OnePlacePerSlot
    <3>2. CASE j = W + 1 /\ k \in 1..W
      BY <3>2, <2>1, <1>4, <1>13, <1>14
    <3>3. CASE j \in 1..W /\ k = W + 1
      BY <3>3, <2>1, <1>4, <1>13, <1>14
    <3> QED BY <3>1, <3>2, <3>3, <1>12
  <2>2. ASSUME NEW k \in 1..W + 1
        PROVE  /\ Waiting'[k].index \in DOMAIN resources'
               /\ Waiting'[k].gen = latest'[Waiting'[k].index] + 1
               /\ resources'[Waiting'[k].index].version = Version(Waiting'[k])
    <3>1. CASE k = W + 1
      BY <3>1, <1>2, <1>3, <1>4, <1>7, <1>8, <1>13
    <3>2. CASE k \in 1..W
      <4>1. /\ Waiting[k].index \in DOMAIN resources
            /\ Waiting[k].gen = latest[Waiting[k].index] + 1
            /\ resources[Waiting[k].index].version = Version(Waiting[k])
        BY <3>2, <1>1, <1>12 DEF OnePlacePerSlot
      <4> QED BY <3>2, <4>1, <1>2, <1>8, <1>14
    <3> QED BY <3>1, <3>2, <1>12
  <2> QED BY <2>1, <2>2, <1>12 DEF OnePlacePerSlot, Version
<1>19. LiveVersions'
  BY <1>1, <1>2, <1>8, <1>15 DEF LiveVersions
<1>20. DeferredOrdered'
  <2>1. ASSUME NEW k \in 1..D PROVE deferred[k].point \in Nat /\ deferred[k].point < queue.next
    <3>1. deferred[k] \in Deferred
      BY <1>6, ElementOfSeq DEF D
    <3> QED BY <3>1, <1>1, <1>9 DEF DeferredOrdered, Deferred
  <2>2. \A k \in 1..D + 1 : k = D + 1 \/ k \in 1..D
    BY <1>6
  <2>3. ASSUME NEW k \in 1..D + 1 PROVE deferred'[k].point < queue'.next
    BY <2>1, <2>2, <1>5, <1>6, <1>9, SMTT(30)
  <2>4. ASSUME NEW j \in 1..D + 1, NEW k \in 1..D + 1, j <= k
        PROVE  deferred'[j].point <= deferred'[k].point
    <3>1. CASE k = D + 1
      BY <3>1, <2>1, <2>2, <1>5, <1>6, <1>9
    <3>2. CASE k \in 1..D
      <4>1. j \in 1..D
        BY <3>2, <2>4, <1>6
      <4> QED BY <4>1, <3>2, <2>4, <1>1, <1>9 DEF DeferredOrdered
    <3> QED BY <3>1, <3>2, <2>2
  <2> QED BY <2>3, <2>4, <1>9 DEF DeferredOrdered
<1>21. InFlightGuarded'
  <2> SUFFICES ASSUME NEW w \in queue.work
               PROVE  \E s \in DOMAIN resources' :
                        /\ resources'[s].resource = w.job
                        /\ \/ Live(s)'
                           \/ \E k \in DOMAIN deferred' :
                                deferred'[k].handle.index = s /\ w.mark <= deferred'[k].point
    BY <1>5 DEF InFlightGuarded
  <2>1. PICK s \in DOMAIN resources :
          /\ resources[s].resource = w.job
          /\ \/ Live(s)
             \/ \E k \in DOMAIN deferred :
                  deferred[k].handle.index = s /\ w.mark <= deferred[k].point
    BY <1>1 DEF InFlightGuarded
  <2>2. resources'[s].resource = w.job /\ s \in DOMAIN resources'
    BY <2>1, <1>7, <1>8
  <2>3. CASE s = i
    <3>1. D + 1 \in DOMAIN deferred' /\ w.mark <= queue.next
      BY <1>1, <1>6, <1>9 DEF QueueOrdered
    <3> QED BY <2>2, <2>3, <3>1, <1>4, <1>6, <1>9
  <2>4. CASE s # i /\ Live(s)
    BY <2>2, <2>4, <1>15
  <2>5. CASE \E k \in DOMAIN deferred :
               deferred[k].handle.index = s /\ w.mark <= deferred[k].point
    <3>1. \A k \in 1..D : k \in 1..D + 1
      BY <1>6
    <3> QED BY <2>2, <2>5, <3>1, <1>9
  <2> QED BY <2>1, <2>3, <2>4, <2>5
<1>22. TakesBack(h)
  <2>1. \A j \in DOMAIN resources : resources'[j].resource = resources[j].resource
    BY <1>7, <1>8
  <2>2. ASSUME NEW k \in DOMAIN Waiting'
        PROVE  Waiting'[k].gen = h.gen + 1 \/ \E j \in DOMAIN Waiting : Waiting'[k] = Waiting[j]
    <3>1. k = W + 1 \/ k \in 1..W
      BY <1>12
    <3> QED BY <3>1, <1>3, <1>4, <1>12, <1>13, <1>14
  <2> QED BY <2>1, <2>2, <1>2, <1>3, <1>5, <1>8, <1>15 DEF TakesBack
<1> QED BY <1>16, <1>17, <1>18, <1>19, <1>20, <1>21, <1>22 DEF IInv

-----------------------------------------------------------------------------
(* The bounds on slots and signals bound the handles given out: every          *)
(* generation of a slot but the first has cost a signal.                       *)

Bounded ==
  /\ Len(resources) <= MaxSlots
  /\ queue.next <= MaxSignals + 1
  /\ \A i \in DOMAIN latest : latest[i] < queue.next
  /\ \A k \in DOMAIN Waiting : Waiting[k].gen < queue.next

\* What Manage and Release give and take stays within the bounds.
LEMMA GivingStaysBounded ==
  ASSUME IInv, Bounded, NEW h, NEW r, Gives(h, r),
         Len(resources') <= MaxSlots, IInv'
  PROVE  Bounded'
<1>1. /\ queue' = queue /\ queue.next \in Nat /\ queue.next > 0
  BY DEF IInv, TypeOK, QueueType, QueueOrdered, Gives
<1>2. h.gen < queue.next
  <2>1. CASE h.index \in DOMAIN latest
    <3>1. PICK k \in DOMAIN Waiting : Waiting[k].index = h.index
      BY <2>1 DEF Gives, Live
    <3>2. Waiting[k].gen = latest[h.index] + 1
      BY <3>1 DEF IInv, OnePlacePerSlot
    <3> QED BY <2>1, <3>2 DEF Gives, Bounded
  <2> QED BY <2>1, <1>1 DEF Gives
<1>3. \A i \in DOMAIN latest' : latest'[i] < queue'.next
  <2> SUFFICES ASSUME NEW i \in DOMAIN latest' PROVE latest'[i] < queue.next
    BY <1>1
  <2>1. CASE i = h.index
    BY <2>1, <1>2 DEF Gives
  <2>2. CASE i # h.index
    <3>1. i \in DOMAIN latest /\ latest'[i] = latest[i]
      BY <2>2 DEF Gives
    <3> QED BY <3>1 DEF Bounded
  <2> QED BY <2>1, <2>2
<1>4. \A k \in DOMAIN Waiting' : Waiting'[k].gen < queue'.next
  <2> SUFFICES ASSUME NEW k \in DOMAIN Waiting' PROVE Waiting'[k].gen < queue.next
    BY <1>1
  <2>1. PICK j \in DOMAIN Waiting : Waiting'[k] = Waiting[j]
    BY DEF Gives
  <2> QED BY <2>1 DEF Bounded
<1> QED BY <1>1, <1>3, <1>4 DEF Bounded

LEMMA TakingStaysBounded ==
  ASSUME IInv, Bounded, NEW h \in Handle, TakesBack(h),
         Len(resources') = Len(resources), queue.next <= MaxSignals
  PROVE  Bounded'
<1>1. /\ queue'.next = queue.next + 1 /\ queue.next \in Nat /\ MaxSignals \in Nat
      /\ latest' = latest
  BY FreeListAssumption DEF IInv, TypeOK, QueueType, TakesBack
<1>2. \A i \in DOMAIN latest : latest[i] \in Nat /\ latest[i] < queue.next
  BY DEF IInv, TypeOK, Bounded
<1>3. h.index \in DOMAIN latest /\ h.gen = latest[h.index]
  BY DEF TakesBack, IInv, TypeOK, LiveVersions
<1>4. \A i \in DOMAIN latest' : latest'[i] < queue'.next
  BY <1>1, <1>2
<1>5. \A k \in DOMAIN Waiting' : Waiting'[k].gen < queue'.next
  <2> SUFFICES ASSUME NEW k \in DOMAIN Waiting' PROVE Waiting'[k].gen < queue.next + 1
    BY <1>1
  <2>1. CASE Waiting'[k].gen = h.gen + 1
    BY <2>1, <1>1, <1>2, <1>3
  <2>2. CASE \E j \in DOMAIN Waiting : Waiting'[k] = Waiting[j]
    <3>1. PICK j \in DOMAIN Waiting : Waiting'[k] = Waiting[j]
      BY <2>2
    <3>2. Waiting[j] \in Handle
      <4>1. Waiting \in Seq(Handle)
        <5>1. freeList \in Seq(Handle) /\ deferred \in Seq(Deferred)
          BY DEF IInv, TypeOK, Deferred
        <5> QED BY <5>1, JoinElements DEF Waiting
      <4> QED BY <4>1
    <3>3. Waiting[j].gen \in Nat /\ Waiting[j].gen < queue.next
      BY <3>2 DEF Bounded, Handle
    <3> QED BY <3>1, <3>3, <1>1
  <2> QED BY <2>1, <2>2 DEF TakesBack
<1>6. Len(resources') <= MaxSlots /\ queue'.next <= MaxSignals + 1
  BY <1>1 DEF Bounded
<1> QED BY <1>4, <1>5, <1>6 DEF Bounded

\* Every step keeps the invariant.
LEMMA StepKeeps == IInv /\ [Next]_vars => IInv'
<1> SUFFICES ASSUME IInv, [Next]_vars PROVE IInv'
  OBVIOUS
<1>1. ASSUME NEW r \in Resource, Manage(r) PROVE IInv'
  BY <1>1, ReuseKeeps, GrowKeeps DEF Manage
<1>2. ASSUME NEW i \in DOMAIN latest, NEW g \in 0..latest[i],
             \/ Release([index |-> i, gen |-> g])
             \/ Use([index |-> i, gen |-> g])
      PROVE  IInv'
  <2>1. [index |-> i, gen |-> g] \in Handle
    BY DEF IInv, TypeOK, Handle
  <2> QED BY <1>2, <2>1, ReleaseKeeps, UseKeeps
<1>3. CASE OtherSignal \/ GpuFinish \/ GpuAdvance
  BY <1>3, NoNewWorkKeeps
<1>4. CASE UNCHANGED vars
  <2>1. UNCHANGED <<resources, deferred, freeList, latest, queue>>
    BY <1>4 DEF vars
  <2>2. Waiting' = Waiting
    BY <2>1 DEF Waiting, HandlesOf
  <2> QED BY <2>1, <2>2 DEF IInv, TypeOK, QueueOrdered, OnePlacePerSlot, LiveVersions,
                            DeferredOrdered, InFlightGuarded, Live, Version
<1> QED BY <1>1, <1>2, <1>3, <1>4 DEF Next

\* Every step stays within the bounds.
LEMMA StepStaysBounded == IInv /\ Bounded /\ [Next]_vars => Bounded'
<1> SUFFICES ASSUME IInv, Bounded, [Next]_vars PROVE Bounded'
  OBVIOUS
<1> DEFINE Slot == [resource : Resource, version : 0..VersionCount - 1]
<1>1. IInv'
  BY StepKeeps
<1>2. resources \in Seq(Slot) /\ resources' \in Seq(Slot)
  BY <1>1 DEF IInv, TypeOK
<1>3. ASSUME NEW r \in Resource, Manage(r) PROVE Bounded'
  <2>1. CASE ManageReuse(r)
    <3>1. Len(resources') = Len(resources)
      BY <2>1, <1>2 DEF ManageReuse
    <3> QED BY <2>1, <3>1, <1>1, ReuseKeeps, GivingStaysBounded DEF Bounded
  <2>2. CASE ManageGrow(r)
    <3>1. Len(resources') = Len(resources) + 1 /\ Len(resources) < MaxSlots
      BY <2>2, <1>2 DEF ManageGrow
    <3>2. Len(resources') <= MaxSlots
      BY <3>1, <1>2, FreeListAssumption
    <3> QED BY <2>2, <3>2, <1>1, GrowKeeps, GivingStaysBounded
  <2> QED BY <1>3, <2>1, <2>2 DEF Manage
<1>4. ASSUME NEW h \in Handle, Release(h) PROVE Bounded'
  <2>1. Len(resources') = Len(resources) /\ queue.next <= MaxSignals
    BY <1>4, <1>2 DEF Release
  <2> QED BY <2>1, <1>4, ReleaseKeeps, TakingStaysBounded
<1>5. ASSUME UNCHANGED <<resources, deferred, freeList, latest>>,
             queue'.next = queue.next \/
               (queue'.next = queue.next + 1 /\ queue.next <= MaxSignals)
      PROVE  Bounded'
  <2>1. Waiting' = Waiting
    BY <1>5 DEF Waiting, HandlesOf
  <2>2. /\ Waiting \in Seq(Handle) /\ latest \in Seq(Nat) /\ queue.next \in Nat
    <3>1. freeList \in Seq(Handle) /\ deferred \in Seq(Deferred)
      BY DEF IInv, TypeOK, Deferred
    <3> QED BY <3>1, JoinElements DEF Waiting, IInv, TypeOK, QueueType
  <2>3. /\ \A i \in DOMAIN latest : latest[i] \in Nat
        /\ \A k \in DOMAIN Waiting : Waiting[k].gen \in Nat
    <3>1. \A k \in DOMAIN Waiting : Waiting[k] \in Handle
      BY <2>2
    <3> QED BY <2>2, <3>1 DEF Handle
  <2> QED BY <1>5, <2>1, <2>2, <2>3, FreeListAssumption DEF Bounded
<1>6. queue \in QueueType(Resource) /\ QueueOrdered(queue)
  BY DEF IInv, TypeOK
<1>7. ASSUME NEW h \in Handle, Use(h) PROVE Bounded'
  <2>1. queue'.next = queue.next
    BY <1>6, <1>7 DEF Use, Execute, QueueType
  <2> QED BY <2>1, <1>5, <1>7 DEF Use
<1>8. CASE OtherSignal
  <2>1. queue'.next = queue.next + 1
    BY <1>6, <1>8, SignalProperties DEF OtherSignal
  <2> QED BY <2>1, <1>5, <1>8 DEF OtherSignal
<1>9. CASE GpuFinish
  <2>1. queue'.next = queue.next
    BY <1>6, <1>9, FinishProperties DEF GpuFinish
  <2> QED BY <2>1, <1>5, <1>9 DEF GpuFinish
<1>10. CASE GpuAdvance
  <2>1. queue'.next = queue.next
    BY <1>6, <1>10, AdvanceProperties DEF GpuAdvance
  <2> QED BY <2>1, <1>5, <1>10 DEF GpuAdvance
<1>11. CASE UNCHANGED vars
  BY <1>5, <1>11 DEF vars
<1>12. ASSUME NEW i \in DOMAIN latest, NEW g \in 0..latest[i]
       PROVE  [index |-> i, gen |-> g] \in Handle
  BY DEF IInv, TypeOK, Handle
<1> QED BY <1>3, <1>4, <1>7, <1>8, <1>9, <1>10, <1>11, <1>12 DEF Next

-----------------------------------------------------------------------------
(* The free list implements the ledger. *)

\* The handles given out are those with a generation their slot has had.
LEMMA GivenOutMembers ==
  ASSUME TypeOK, NEW h \in Handle
  PROVE  h \in GivenOut <=> (h.index \in DOMAIN latest /\ h.gen <= latest[h.index])
<1>1. \A i \in DOMAIN latest : latest[i] \in Nat
  BY DEF TypeOK
<1>2. ASSUME h \in GivenOut PROVE h.index \in DOMAIN latest /\ h.gen <= latest[h.index]
  <2>1. PICK i \in DOMAIN latest : h \in [index : {i}, gen : 0..latest[i]]
    BY <1>2 DEF GivenOut
  <2> QED BY <2>1, <1>1
<1>3. ASSUME h.index \in DOMAIN latest, h.gen <= latest[h.index] PROVE h \in GivenOut
  <2>1. h \in [index : {h.index}, gen : 0..latest[h.index]]
    BY <1>1, <1>3 DEF Handle
  <2> QED BY <2>1, <1>3 DEF GivenOut
<1> QED BY <1>2, <1>3

LEMMA GivenOutAreHandles ==
  ASSUME TypeOK
  PROVE  GivenOut \subseteq Handle
<1>1. \A i \in DOMAIN latest : latest[i] \in Nat /\ i \in Nat \ {0}
  BY DEF TypeOK
<1> QED BY <1>1 DEF GivenOut, Handle

\* A new handle is new to the ledger, which binds it to the resource, and drops the
\* resource that was in the slot before.
LEMMA GivingImplementsManage ==
  ASSUME IInv, IInv', Bounded', NEW r \in Fresh, NEW h, Gives(h, r)
  PROVE  Ledger!Manage
<1> DEFINE Bound == [g \in OwnedHandles |-> resources[g.index].resource]
           dropped == Alive \ Alive'
<1>1. /\ TypeOK /\ TypeOK' /\ LiveVersions /\ LiveVersions'
      /\ InFlightGuarded' /\ h \in Handle /\ r \in Resource
  BY DEF IInv, Gives, Fresh
<1>2. /\ DOMAIN latest = DOMAIN resources /\ DOMAIN latest' = DOMAIN resources'
      /\ \A i \in DOMAIN latest : latest[i] \in Nat
      /\ \A i \in DOMAIN latest' : latest'[i] \in Nat
      /\ h.gen \in Nat
  BY <1>1 DEF TypeOK, LiveVersions, Handle
<1>3. h \in [index : 1..MaxSlots, gen : 0..MaxSignals]
  <2>1. h.index \in DOMAIN resources' /\ h.index \in DOMAIN latest' /\ latest'[h.index] = h.gen
    BY DEF Gives
  <2>2. h.index \in 1..Len(resources') /\ Len(resources') \in Nat /\ Len(resources') <= MaxSlots
    BY <2>1, <1>1 DEF TypeOK, Bounded
  <2>3. h.gen < queue'.next /\ queue'.next <= MaxSignals + 1 /\ queue'.next \in Nat
    BY <2>1, <1>1 DEF Bounded, TypeOK, QueueType
  <2>4. h.index \in 1..MaxSlots /\ h.gen \in 0..MaxSignals
    BY <2>2, <2>3, <1>2, FreeListAssumption
  <2> QED BY <2>4, <1>1 DEF Handle
<1>4. h \notin GivenOut
  BY <1>1, <1>2, GivenOutMembers DEF Gives
<1>5. GivenOut' = GivenOut \cup {h}
  <2>1. GivenOut \subseteq Handle /\ GivenOut' \subseteq Handle
    <3>1. GivenOut' \subseteq Handle
      <4>1. \A i \in DOMAIN latest' : latest'[i] \in Nat /\ i \in Nat \ {0}
        BY <1>1 DEF TypeOK
      <4> QED BY <4>1 DEF GivenOut, Handle
    <3> QED BY <3>1, <1>1, GivenOutAreHandles
  <2>2. ASSUME NEW g \in Handle PROVE g \in GivenOut' <=> (g \in GivenOut \/ g = h)
    <3>1. g \in GivenOut' <=> (g.index \in DOMAIN latest' /\ g.gen <= latest'[g.index])
      <4>1. ASSUME g \in GivenOut' PROVE g.index \in DOMAIN latest' /\ g.gen <= latest'[g.index]
        <5>1. PICK i \in DOMAIN latest' : g \in [index : {i}, gen : 0..latest'[i]]
          BY <4>1 DEF GivenOut
        <5> QED BY <5>1, <1>2
      <4>2. ASSUME g.index \in DOMAIN latest', g.gen <= latest'[g.index] PROVE g \in GivenOut'
        <5>1. g \in [index : {g.index}, gen : 0..latest'[g.index]]
          BY <1>2, <4>2 DEF Handle
        <5> QED BY <5>1, <4>2 DEF GivenOut
      <4> QED BY <4>1, <4>2
    <3>2. g \in GivenOut <=> (g.index \in DOMAIN latest /\ g.gen <= latest[g.index])
      BY <1>1, GivenOutMembers
    <3>3. g = h <=> (g.index = h.index /\ g.gen = h.gen)
      BY <1>1 DEF Handle
    <3>4. CASE g.index # h.index
      BY <3>1, <3>2, <3>3, <3>4 DEF Gives
    <3>5. CASE g.index = h.index /\ h.index \in DOMAIN latest
      <4>1. h.gen = latest[h.index] + 1 /\ latest'[h.index] = h.gen /\ h.index \in DOMAIN latest'
        BY <3>5 DEF Gives
      <4>2. g.gen \in Nat /\ latest[h.index] \in Nat
        BY <3>5, <1>2 DEF Handle
      <4> QED BY <3>1, <3>2, <3>3, <3>5, <4>1, <4>2
    <3>6. CASE g.index = h.index /\ h.index \notin DOMAIN latest
      <4>1. h.gen = 0 /\ latest'[h.index] = 0 /\ h.index \in DOMAIN latest'
        BY <3>6 DEF Gives
      <4>2. g.gen \in Nat
        BY DEF Handle
      <4> QED BY <3>1, <3>2, <3>3, <3>6, <4>1, <4>2
    <3> QED BY <3>4, <3>5, <3>6
  <2> QED BY <2>1, <2>2, <1>1
<1>6. OwnedHandles' = OwnedHandles \cup {h}
  <2>1. h \in OwnedHandles'
    BY <1>5 DEF OwnedHandles, Gives
  <2>2. ASSUME NEW g \in GivenOut PROVE g \in OwnedHandles' <=> g \in OwnedHandles
    <3>1. g \in Handle /\ g.index \in DOMAIN latest /\ g.gen <= latest[g.index]
      BY <1>1, GivenOutMembers, GivenOutAreHandles
    <3>2. CASE g.index = h.index
      <4>1. ~Live(g.index) /\ latest'[g.index] = latest[g.index] + 1
        BY <3>1, <3>2 DEF Gives
      <4>2. g.gen # latest'[g.index]
        BY <3>1, <4>1, <1>2 DEF Handle
      <4> QED BY <4>1, <4>2 DEF OwnedHandles
    <3>3. CASE g.index # h.index
      <4>1. latest'[g.index] = latest[g.index] /\ ((Live(g.index))' <=> Live(g.index))
        BY <3>1, <3>3 DEF Gives
      <4> QED BY <4>1, <1>5 DEF OwnedHandles
    <3> QED BY <3>2, <3>3
  <2>3. OwnedHandles \subseteq GivenOut /\ OwnedHandles' \subseteq GivenOut \cup {h}
    BY <1>5 DEF OwnedHandles
  <2> QED BY <2>1, <2>2, <2>3
<1>7. ASSUME NEW g \in OwnedHandles
      PROVE  /\ g # h /\ g.index \in DOMAIN resources'
             /\ resources'[g.index] = resources[g.index]
  <2>1. g \in GivenOut /\ Live(g.index)
    BY DEF OwnedHandles
  <2>2. g.index \in DOMAIN latest
    BY <2>1, <1>1, GivenOutMembers, GivenOutAreHandles
  <2> QED BY <2>1, <2>2, <1>4 DEF Gives
<1>8. Bound' = [g \in DOMAIN Bound \cup {h} |-> IF g = h THEN r ELSE Bound[g]]
  <2>1. DOMAIN Bound = OwnedHandles
    OBVIOUS
  <2>2. ASSUME NEW g \in OwnedHandles \cup {h}
        PROVE  resources'[g.index].resource = IF g = h THEN r ELSE Bound[g]
    BY <1>7 DEF Gives
  <2> HIDE DEF Bound
  <2>3. Bound' = [g \in OwnedHandles' |-> resources'[g.index].resource]
    BY DEF Bound
  <2> QED BY <2>1, <2>2, <2>3, <1>6
<1>9. /\ \A i \in DOMAIN latest : i # h.index => resources'[i] = resources[i]
      /\ resources'[h.index].resource = r
      /\ DOMAIN resources' = DOMAIN resources \cup {h.index}
  BY <1>2 DEF Gives
<1>10. Alive' = (Alive \ dropped) \cup {r}
  BY <1>2, <1>9 DEF Alive
<1>11. dropped \in SUBSET (Alive \ ({Bound[g] : g \in DOMAIN Bound} \cup {w.job : w \in queue.work}))
  <2>1. ASSUME NEW g \in OwnedHandles PROVE Bound[g] \in Alive'
    BY <1>7 DEF Alive
  <2>2. ASSUME NEW w \in queue.work PROVE w.job \in Alive'
    BY <1>1 DEF InFlightGuarded, Alive, Gives
  <2> QED BY <2>1, <2>2
<1>12. r \in Resource \ Alive
  BY DEF Fresh
<1>13. UNCHANGED {w.job : w \in queue.work}
  BY DEF Gives
<1> HIDE DEF dropped
<1> QED BY <1>3, <1>4, <1>5, <1>8, <1>10, <1>11, <1>12, <1>13 DEF Ledger!Manage, Ledger!Owned

\* Taking a handle back unbinds it and touches nothing else in the ledger.
LEMMA TakingImplementsRelease ==
  ASSUME IInv, NEW h \in Handle, TakesBack(h)
  PROVE  Ledger!Release
<1> DEFINE Bound == [g \in OwnedHandles |-> resources[g.index].resource]
<1>1. /\ TypeOK /\ LiveVersions /\ DOMAIN latest = DOMAIN resources
  BY DEF IInv, TypeOK, LiveVersions
<1>2. h \in GivenOut
  <2>1. h.index \in DOMAIN latest /\ h.gen <= latest[h.index]
    BY <1>1 DEF TakesBack, TypeOK
  <2> QED BY <2>1, <1>1, GivenOutMembers
<1>3. h \in OwnedHandles
  BY <1>2 DEF OwnedHandles, TakesBack
<1>4. GivenOut' = GivenOut
  BY DEF GivenOut, TakesBack
<1>5. OwnedHandles' = OwnedHandles \ {h}
  <2>1. ASSUME NEW g \in GivenOut
        PROVE  g \in OwnedHandles' <=> (g \in OwnedHandles /\ g # h)
    <3>1. g \in Handle
      BY <1>1, GivenOutAreHandles
    <3>2. (Live(g.index))' <=> (Live(g.index) /\ g.index # h.index)
      BY DEF TakesBack
    <3>3. latest' = latest /\ h.gen = latest[h.index]
      BY DEF TakesBack
    <3>4. g.index = h.index /\ g.gen = h.gen => g = h
      BY <3>1 DEF Handle
    <3> QED BY <1>4, <3>2, <3>3, <3>4 DEF OwnedHandles
  <2>2. OwnedHandles \subseteq GivenOut /\ OwnedHandles' \subseteq GivenOut
    BY <1>4 DEF OwnedHandles
  <2> QED BY <2>1, <2>2
<1>6. ASSUME NEW g \in OwnedHandles
      PROVE  resources'[g.index].resource = resources[g.index].resource
  <2>1. g.index \in DOMAIN latest
    <3>1. g \in GivenOut
      BY DEF OwnedHandles
    <3> QED BY <3>1, <1>1, GivenOutMembers, GivenOutAreHandles
  <2> QED BY <2>1, <1>1 DEF TakesBack
<1>7. Bound' = [g \in DOMAIN Bound \ {h} |-> Bound[g]]
  <2>1. DOMAIN Bound = OwnedHandles
    OBVIOUS
  <2>2. ASSUME NEW g \in OwnedHandles \ {h} PROVE resources'[g.index].resource = Bound[g]
    BY <1>6
  <2> HIDE DEF Bound
  <2>3. Bound' = [g \in OwnedHandles' |-> resources'[g.index].resource]
    BY DEF Bound
  <2> QED BY <2>1, <2>2, <2>3, <1>5
<1>8. UNCHANGED <<GivenOut, Alive, {w.job : w \in queue.work}>>
  <2>1. Alive' = Alive
    BY DEF Alive, TakesBack
  <2> QED BY <2>1, <1>4 DEF TakesBack
<1> QED BY <1>3, <1>7, <1>8 DEF Ledger!Release

\* The ledger's view of a step that only moves the queue on.
LEMMA OnlyQueueMoves ==
  ASSUME UNCHANGED <<resources, deferred, freeList, latest>>
  PROVE  UNCHANGED <<[g \in OwnedHandles |-> resources[g.index].resource], GivenOut, Alive>>
<1>1. \A i : (Live(i))' <=> Live(i)
  BY DEF Live, Waiting, HandlesOf
<1>2. GivenOut' = GivenOut /\ Alive' = Alive
  BY DEF GivenOut, Alive
<1>3. OwnedHandles' = OwnedHandles
  BY <1>1, <1>2 DEF OwnedHandles
<1> QED BY <1>2, <1>3

\* A handle that validates is bound in the ledger, to the resource it leads to.
LEMMA UsingImplementsUse ==
  ASSUME IInv, NEW h \in Handle, Use(h)
  PROVE  Ledger!Use
<1> DEFINE Bound == [g \in OwnedHandles |-> resources[g.index].resource]
           job == resources[h.index].resource
<1>1. /\ TypeOK /\ QueueOrdered(queue) /\ queue \in QueueType(Resource)
      /\ Presentable(h) /\ Validates(h)
      /\ queue' = Execute(queue, job)
      /\ UNCHANGED <<resources, deferred, freeList, latest>>
  BY DEF IInv, TypeOK, Use
<1>2. h \in OwnedHandles
  <2>1. h.gen = latest[h.index] /\ Live(h.index) /\ h.index \in DOMAIN latest
    BY <1>1, OwnersValidate DEF Presentable
  <2>2. h.gen <= latest[h.index]
    BY <2>1, <1>1 DEF TypeOK
  <2>3. h \in GivenOut
    BY <2>1, <2>2, <1>1, GivenOutMembers
  <2> QED BY <2>1, <2>3 DEF OwnedHandles
<1>3. h \in DOMAIN Bound /\ Bound[h] = job
  BY <1>2
<1>4. job \in Resource
  <2>1. /\ resources \in Seq([resource : Resource, version : 0..VersionCount - 1])
        /\ h.index \in 1..Len(resources)
    BY <1>1 DEF TypeOK, Validates
  <2>2. resources[h.index] \in [resource : Resource, version : 0..VersionCount - 1]
    BY <2>1, ElementOfSeq
  <2> QED BY <2>2
<1> HIDE DEF job
<1>5. queue'.work = queue.work \cup {[job |-> job, mark |-> queue.next]}
  BY <1>1, <1>4, ExecuteProperties
<1>6. {w.job : w \in queue'.work} = {w.job : w \in queue.work} \cup {job}
  <2> DEFINE new == [job |-> job, mark |-> queue.next]
  <2>1. new.job = job
    OBVIOUS
  <2> HIDE DEF new
  <2>2. queue'.work = queue.work \cup {new}
    BY <1>5 DEF new
  <2> QED BY <2>1, <2>2
<1>7. UNCHANGED <<Bound, GivenOut, Alive>>
  BY <1>1, OnlyQueueMoves
<1> HIDE DEF Bound
<1>8. \E g \in DOMAIN Bound :
        {w.job : w \in queue'.work} = {w.job : w \in queue.work} \cup {Bound[g]}
  BY <1>3, <1>6
<1> QED BY <1>7, <1>8 DEF Ledger!Use, Bound

\* Finishing a job may end the use of its resource, or leave it to another job.
LEMMA FinishingImplementsFinish ==
  ASSUME IInv, GpuFinish
  PROVE  Ledger!Finish \/ UNCHANGED Ledger!ledger
<1> DEFINE Bound == [g \in OwnedHandles |-> resources[g.index].resource]
           InUse == {w.job : w \in queue.work}
<1>1. PICK w \in queue.work : queue' = Finish(queue, w)
  BY DEF GpuFinish
<1>2. queue'.work = queue.work \ {w}
  BY <1>1, FinishProperties DEF IInv, TypeOK
<1>3. UNCHANGED <<Bound, GivenOut, Alive>>
  BY OnlyQueueMoves DEF GpuFinish
<1>4. InUse' = InUse \/ InUse' = InUse \ {w.job}
  BY <1>2
<1>5. w.job \in InUse
  BY <1>1
<1>6. CASE InUse' = InUse
  BY <1>3, <1>6 DEF Ledger!ledger
<1>7. CASE InUse' = InUse \ {w.job}
  BY <1>3, <1>5, <1>7 DEF Ledger!Finish
<1> QED BY <1>4, <1>6, <1>7

\* Every step is a step of the ledger, or none.
LEMMA StepImplementsLedger ==
  IInv /\ Bounded /\ [Next]_vars => [Ledger!Next]_Ledger!ledger
<1> SUFFICES ASSUME IInv, Bounded, [Next]_vars PROVE Ledger!Next \/ UNCHANGED Ledger!ledger
  OBVIOUS
<1>1. IInv' /\ Bounded'
  BY StepKeeps, StepStaysBounded
<1>2. ASSUME NEW r \in Resource, Manage(r) PROVE Ledger!Manage
  <2>1. PICK h : Gives(h, r)
    BY <1>2, ReuseKeeps, GrowKeeps DEF Manage
  <2> QED BY <1>1, <1>2, <2>1, GivingImplementsManage DEF Manage
<1>3. ASSUME NEW h \in Handle, Release(h) PROVE Ledger!Release
  BY <1>3, ReleaseKeeps, TakingImplementsRelease
<1>4. ASSUME NEW h \in Handle, Use(h) PROVE Ledger!Use
  BY <1>4, UsingImplementsUse
<1>5. ASSUME UNCHANGED <<resources, deferred, freeList, latest>>, queue'.work = queue.work
      PROVE  UNCHANGED Ledger!ledger
  BY <1>5, OnlyQueueMoves DEF Ledger!ledger
<1>6. CASE OtherSignal
  BY <1>5, <1>6, SignalProperties DEF OtherSignal, IInv, TypeOK
<1>7. CASE GpuAdvance
  BY <1>5, <1>7, AdvanceProperties DEF GpuAdvance, IInv, TypeOK
<1>8. CASE UNCHANGED vars
  BY <1>5, <1>8 DEF vars
<1>9. ASSUME NEW i \in DOMAIN latest, NEW g \in 0..latest[i]
      PROVE  [index |-> i, gen |-> g] \in Handle
  BY DEF IInv, TypeOK, Handle
<1>10. CASE GpuFinish
  BY <1>10, FinishingImplementsFinish DEF Ledger!Next
<1> QED BY <1>2, <1>3, <1>4, <1>6, <1>7, <1>8, <1>9, <1>10 DEF Next, Ledger!Next

-----------------------------------------------------------------------------
(* Theorems *)

\* The strengthened invariant holds in every state the free list can reach.
THEOREM Invariance == Spec => []IInv
<1>1. Init => IInv
  BY InitKeeps
<1>2. IInv /\ [Next]_vars => IInv'
  BY StepKeeps
<1> QED BY <1>1, <1>2, PTL DEF Spec

\* The state has its shape.
THEOREM TypeCorrect == Spec => []TypeOK
<1>1. IInv => TypeOK
  BY DEF IInv
<1> QED BY <1>1, Invariance, PTL

\* No slot waits twice or under a version not in force: the ThrowIfFalse in Manage
\* cannot throw and no slot gets two owners.
THEOREM SlotsHaveOnePlace == Spec => []OnePlacePerSlot
<1>1. IInv => OnePlacePerSlot
  BY DEF IInv
<1> QED BY <1>1, Invariance, PTL

\* InternalValidateHandle accepts exactly the handles whose owner has not released
\* them, as long as no client keeps one for a whole round of versions.
THEOREM StaleHandlesRefused == Spec => []OnlyOwnersHandleValid
<1>1. ASSUME IInv PROVE OnlyOwnersHandleValid
  <2>1. ASSUME NEW i \in DOMAIN latest, NEW g \in 0..latest[i],
               Presentable([index |-> i, gen |-> g])
        PROVE  Validates([index |-> i, gen |-> g]) <=> g = latest[i] /\ Live(i)
    <3>1. [index |-> i, gen |-> g] \in Handle
      BY <1>1 DEF IInv, TypeOK, Handle
    <3> QED BY <1>1, <2>1, <3>1, OwnersValidate
  <2> QED BY <2>1 DEF OnlyOwnersHandleValid
<1> QED BY <1>1, Invariance, PTL

\* A resource is dropped only after the GPU is done with it.
THEOREM ResourcesOutliveWork == Spec => []InFlightResourcesAlive
<1>1. IInv => InFlightResourcesAlive
  BY DEF IInv, InFlightGuarded, InFlightResourcesAlive, Alive
<1> QED BY <1>1, Invariance, PTL

\* Manage grows the list only when no released slot could have been reused.
THEOREM GrowthIsNecessary == Spec => GrowsOnlyWhenBusy
<1> DEFINE Busy(i) == \/ Live(i)
                      \/ \E k \in DOMAIN deferred :
                           deferred[k].handle.index = i /\ ~Reached(k)
           Grows == Len(resources') > Len(resources) =>
                      \A i \in DOMAIN resources : Busy(i)
<1>1. ASSUME IInv, [Next]_vars PROVE [Grows]_vars
  <2> SUFFICES ASSUME Len(resources') > Len(resources), NEW i \in DOMAIN resources,
                      ~Live(i)
               PROVE  \E k \in DOMAIN deferred :
                        deferred[k].handle.index = i /\ ~Reached(k)
    OBVIOUS
  <2>1. PICK r \in Resource : ManageGrow(r)
    <3>1. Len(resources) \in Nat
      BY <1>1 DEF IInv, TypeOK
    <3>2. ASSUME NEW h, Release(h) PROVE Len(resources') = Len(resources)
      BY <1>1, <3>2 DEF Release, IInv, TypeOK
    <3>3. ASSUME NEW r \in Resource, ManageReuse(r) PROVE Len(resources') = Len(resources)
      BY <1>1, <3>3 DEF ManageReuse, IInv, TypeOK
    <3>4. ASSUME UNCHANGED resources PROVE FALSE
      BY <3>1, <3>4
    <3>5. ~(UNCHANGED vars \/ OtherSignal \/ GpuFinish \/ GpuAdvance)
      BY <3>4 DEF OtherSignal, GpuFinish, GpuAdvance, vars
    <3>6. ASSUME NEW h, Release(h) \/ Use(h) PROVE FALSE
      BY <3>1, <3>2, <3>4, <3>6 DEF Use
    <3>7. PICK r \in Resource : Manage(r)
      BY <1>1, <3>5, <3>6 DEF Next
    <3> QED BY <3>1, <3>3, <3>7 DEF Manage
  <2>2. /\ freeList = <<>> /\ TickLength(0)
    BY <2>1 DEF ManageGrow
  <2>3. /\ deferred \in Seq(Deferred) /\ freeList \in Seq(Handle)
        /\ queue \in QueueType(Resource) /\ DeferredOrdered
    BY <1>1 DEF IInv, TypeOK, Deferred
  <2>4. PICK k \in 1..Len(deferred) : deferred[k].handle.index = i
    <3>1. PICK j \in DOMAIN Waiting : Waiting[j].index = i
      BY DEF Live
    <3>2. /\ Waiting \in Seq(Handle) /\ Len(Waiting) = Len(freeList) + Len(deferred)
          /\ \A k \in 1..Len(deferred) : Waiting[Len(freeList) + k] = deferred[k].handle
      BY <2>3, JoinElements DEF Waiting
    <3>3. Len(freeList) = 0 /\ Len(deferred) \in Nat
      BY <2>2, <2>3, EmptySeq
    <3>4. j \in 1..Len(deferred) /\ Len(freeList) + j = j
      BY <3>2, <3>3
    <3> QED BY <3>1, <3>2, <3>4
  <2>5. ~Reached(k)
    <3>1. 1 \in 1..Len(deferred) /\ 1 <= k /\ k \in DOMAIN deferred /\ 1 \in DOMAIN deferred
      BY <2>3
    <3>2. ~Reached(1)
      BY <3>1, <2>2 DEF TickLength
    <3>3. deferred[1].point \in Nat /\ deferred[k].point \in Nat /\ queue.completed \in Nat
      <4>1. deferred[1] \in Deferred /\ deferred[k] \in Deferred
        BY <3>1, <2>3, ElementOfSeq
      <4> QED BY <4>1, <2>3 DEF Deferred, QueueType
    <3>4. deferred[1].point <= deferred[k].point
      BY <3>1, <2>3 DEF DeferredOrdered
    <3> QED BY <3>2, <3>3, <3>4 DEF Reached, HasCompleted
  <2>6. k \in DOMAIN deferred
    BY <2>3
  <2> QED BY <2>4, <2>5, <2>6
<1> QED BY <1>1, Invariance, PTL DEF Spec, GrowsOnlyWhenBusy

\* Clients cannot tell the free list from the ledger: a store in which no handle is
\* given out twice and no resource dies that is owned or in use.
THEOREM ImplementsTheLedger == Spec => ImplementsLedger
<1>1. Init => Ledger!Init
  <2> SUFFICES ASSUME Init PROVE Ledger!Init
    OBVIOUS
  <2>1. DOMAIN latest = {} /\ DOMAIN resources = {} /\ queue.work = {}
    BY DEF Init, NewQueue
  <2>2. GivenOut = {} /\ Alive = {}
    BY <2>1 DEF GivenOut, Alive
  <2>3. OwnedHandles = {}
    BY <2>2 DEF OwnedHandles
  <2> QED BY <2>1, <2>2, <2>3 DEF Ledger!Init
<1>2. Init => Bounded
  <2> SUFFICES ASSUME Init PROVE Bounded
    OBVIOUS
  <2>1. /\ Len(freeList) = 0 /\ Len(deferred) = 0
        /\ freeList \in Seq(Handle) /\ deferred \in Seq(Deferred)
        /\ Len(resources) = 0 /\ DOMAIN latest = {} /\ queue.next = 1
    BY EmptySeq DEF Init, NewQueue
  <2>2. Waiting \in Seq(Handle) /\ Len(Waiting) = Len(freeList) + Len(deferred)
    <3> HIDE DEF Init
    <3> QED BY <2>1, JoinElements DEF Waiting
  <2>3. DOMAIN Waiting = {}
    BY <2>1, <2>2
  <2> QED BY <2>1, <2>3, FreeListAssumption DEF Bounded
<1>3. IInv /\ Bounded /\ [Next]_vars => Bounded'
  BY StepStaysBounded
<1>4. Spec => []Bounded
  BY <1>2, <1>3, Invariance, PTL DEF Spec
<1>5. IInv /\ Bounded /\ [Next]_vars => [Ledger!Next]_Ledger!ledger
  BY StepImplementsLedger
<1> QED BY <1>1, <1>4, <1>5, Invariance, PTL DEF Spec, ImplementsLedger, Ledger!Spec

=============================================================================
