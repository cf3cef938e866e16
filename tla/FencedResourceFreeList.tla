------------------------ MODULE FencedResourceFreeList ------------------------
(***************************************************************************)
(* FencedResourceFreeList<T>: slots of resources behind versioned handles,  *)
(* whose release is deferred until the GPU has passed the fence point       *)
(* signalled at the release. One CPU thread calls it; the GPU runs beside.  *)
(***************************************************************************)
EXTENDS Integers, Sequences, FiniteSets, GpuTimeline

CONSTANTS
  Resource,      \* identities of the resource objects clients may create
  VersionCount,  \* how many versions a handle can tell apart: MaxVersion + 1
  MaxStaleness,  \* clients present handles at most this many generations old
  MaxSlots,      \* bound on m_Resources: VersionedIndex::MaxIndex + 1
  MaxSignals     \* bound on the fence values signalled

ASSUME FreeListAssumption ==
  /\ VersionCount \in Nat \ {0}
  /\ MaxStaleness \in Nat
  /\ MaxSlots \in Nat
  /\ MaxSignals \in Nat

VARIABLES
  resources,  \* m_Resources: per slot the resource and the version in force
  deferred,   \* m_DeferredReleasedHandles: handle and fence point, oldest first
  freeList,   \* m_FreeList: handles ready to be given out again, oldest first
  queue,      \* m_Queue
  latest      \* history: per slot, the generation of the last handle given out

vars == <<resources, deferred, freeList, queue, latest>>

-----------------------------------------------------------------------------
(* Handles. A handle names a slot and a generation of it; what the code can   *)
(* compare is the generation modulo VersionCount. Slot i is index i - 1.      *)

Handle == [index : Nat \ {0}, gen : Nat]
VersionUnmasked(h) == h.gen
Version(h) == h.gen % VersionCount
NextVersionSame(h) == h
NextVersion(h) == [h EXCEPT !.gen = @ + 1]

\* InternalValidateHandle: in range, and of the version in force.
Validates(h) == /\ h.index \in DOMAIN resources
                /\ resources[h.index].version = Version(h)

\* The handles a client may still be holding on to: every generation up to the
\* last one given out, except those too old to be around.
Presentable(h) == /\ h.index \in DOMAIN latest
                  /\ h.gen <= latest[h.index]
                  /\ latest[h.index] - h.gen <= MaxStaleness

\* A resource object that exists: no client can create another with its identity.
Alive == {resources[i].resource : i \in DOMAIN resources}
Fresh == Resource \ (Alive \cup {w.job : w \in queue.work})

-----------------------------------------------------------------------------
(* TickDeferredReleases pops the released handles whose fence point has been  *)
(* reached, oldest first, until one has not. The GPU runs on meanwhile; since  *)
(* points only become reached, the loop equals one look at its last reading.   *)

Reached(k) == HasCompleted(queue, deferred[k].point)

\* (Variant: the releases are not looked at.)
TickLengthNone(n) == n = 0
TickLength(n) == /\ n \in 0..Len(deferred)
                 /\ \A k \in 1..n : Reached(k)
                 /\ n < Len(deferred) => ~Reached(n + 1)

HandlesOf(s) == [k \in 1..Len(s) |-> s[k].handle]

Ticked(n) == freeList \o HandlesOf(SubSeq(deferred, 1, n))
RemainingUnpopped(n) == deferred
Remaining(n) == SubSeq(deferred, n + 1, Len(deferred))

-----------------------------------------------------------------------------
Init == /\ resources = <<>>
        /\ deferred = <<>>
        /\ freeList = <<>>
        /\ queue = NewQueue
        /\ latest = <<>>

\* Manage when the tick leaves a free handle: its slot takes the new resource,
\* which drops the old one. If the versions disagree ThrowIfFalse throws, and the
\* handle that was popped is gone.
ManageReuse(r) ==
  \E n \in 0..Len(deferred) :
    LET free == Ticked(n)
        h == Head(free)
    IN  /\ TickLength(n)
        /\ free # <<>>
        /\ deferred' = Remaining(n)
        /\ freeList' = Tail(free)
        /\ IF resources[h.index].version = Version(h)
             THEN /\ resources' = [resources EXCEPT ![h.index].resource = r]
                  /\ latest' = [latest EXCEPT ![h.index] = h.gen]
             ELSE UNCHANGED <<resources, latest>>
        /\ UNCHANGED queue

\* Manage when no handle is free: a new slot at version 0. (At MaxIndex the
\* VersionedIndex constructor throws and nothing changes.)
ManageGrow(r) ==
  /\ TickLength(0)
  /\ freeList = <<>>
  /\ Len(resources) < MaxSlots
  /\ resources' = Append(resources, [resource |-> r, version |-> 0])
  /\ latest' = Append(latest, 0)
  /\ UNCHANGED <<deferred, freeList, queue>>

Manage(r) == r \in Fresh /\ (ManageReuse(r) \/ ManageGrow(r))

\* Release of a valid handle: the slot moves to the next version at once, the
\* handle waits for the fence. An invalid handle is refused and changes nothing.
ReleaseSameVersion(h) ==
  /\ Presentable(h)
  /\ Validates(h)
  /\ queue.next <= MaxSignals
  /\ deferred' = Append(deferred, [handle |-> NextVersion(h), point |-> NextSignal(queue)])
  /\ queue' = Signal(queue)
  /\ UNCHANGED <<resources, freeList, latest>>

Release(h) ==
  /\ Presentable(h)
  /\ Validates(h)
  /\ queue.next <= MaxSignals
  /\ resources' = [resources EXCEPT ![h.index].version = Version(NextVersion(h))]
  /\ deferred' = Append(deferred, [handle |-> NextVersion(h), point |-> NextSignal(queue)])
  /\ queue' = Signal(queue)
  /\ UNCHANGED <<freeList, latest>>

\* A client gets the resource of a handle and submits GPU work that uses it.
Use(h) ==
  /\ Presentable(h)
  /\ Validates(h)
  /\ queue' = Execute(queue, resources[h.index].resource)
  /\ UNCHANGED <<resources, deferred, freeList, latest>>

\* Other users of the queue signal its fence too.
OtherSignal ==
  /\ queue.next <= MaxSignals
  /\ queue' = Signal(queue)
  /\ UNCHANGED <<resources, deferred, freeList, latest>>

GpuFinish == /\ \E w \in queue.work : CanFinish(queue, w) /\ queue' = Finish(queue, w)
             /\ UNCHANGED <<resources, deferred, freeList, latest>>

GpuAdvance == /\ CanAdvance(queue)
              /\ queue' = Advance(queue)
              /\ UNCHANGED <<resources, deferred, freeList, latest>>

Next == \/ \E r \in Resource : Manage(r)
        \/ \E i \in DOMAIN latest : \E g \in 0..latest[i] :
             Release([index |-> i, gen |-> g]) \/ Use([index |-> i, gen |-> g])
        \/ OtherSignal
        \/ GpuFinish
        \/ GpuAdvance

Spec == Init /\ [][Next]_vars

-----------------------------------------------------------------------------
(* Properties *)

\* The handles of slots that no client owns, in the order they will be given out
\* again: those already free, then those whose fence point is awaited.
Waiting == freeList \o HandlesOf(deferred)

Live(i) == \A k \in DOMAIN Waiting : Waiting[k].index # i

\* The shape of the state.
TypeOK ==
  /\ resources \in Seq([resource : Resource, version : 0..VersionCount - 1])
  /\ deferred \in Seq([handle : Handle, point : Nat])
  /\ freeList \in Seq(Handle)
  /\ queue \in QueueType(Resource)
  /\ latest \in Seq(Nat)

\* A slot is in one place at a time: a released slot waits once, under the version
\* in force and one generation past the last handle given out. So Manage never
\* throws, and never gives a slot that somebody owns to somebody else.
OnePlacePerSlot ==
  /\ \A j, k \in DOMAIN Waiting : Waiting[j].index = Waiting[k].index => j = k
  /\ \A k \in DOMAIN Waiting :
       LET h == Waiting[k]
       IN  /\ h.index \in DOMAIN resources
           /\ h.gen = latest[h.index] + 1
           /\ resources[h.index].version = Version(h)

\* A handle validates exactly while its owner has not released it: after the
\* release, and after its slot is given to others, every copy of it that is still
\* around is refused, although versions wrap.
OnlyOwnersHandleValid ==
  \A i \in DOMAIN latest : \A g \in 0..latest[i] :
    Presentable([index |-> i, gen |-> g]) =>
      (Validates([index |-> i, gen |-> g]) <=> g = latest[i] /\ Live(i))

\* The resource of every job the GPU has not finished is still held by a slot: no
\* interleaving of release, reuse and GPU progress destroys a resource in use.
InFlightResourcesAlive == \A w \in queue.work : w.job \in Alive

\* Manage adds a slot only when every slot there is belongs to a client or is
\* waiting for a fence point the GPU has not reached: looking only at the oldest
\* deferred release loses nothing.
GrowsOnlyWhenBusy ==
  [][Len(resources') > Len(resources) =>
       \A i \in DOMAIN resources :
         \/ Live(i)
         \/ \E k \in DOMAIN deferred : deferred[k].handle.index = i /\ ~Reached(k)]_vars

\* The list implements the ledger: a client cannot tell it from a store that never
\* reuses a handle and destroys no resource anybody needs.
GivenOut == UNION {[index : {i}, gen : 0..latest[i]] : i \in DOMAIN latest}
OwnedHandles == {h \in GivenOut : h.gen = latest[h.index] /\ Live(h.index)}

Ledger == INSTANCE ResourceLedger WITH
  LedgerHandle <- [index : 1..MaxSlots, gen : 0..MaxSignals],
  LedgerResource <- Resource,
  bound <- [h \in OwnedHandles |-> resources[h.index].resource],
  issued <- GivenOut,
  alive <- Alive,
  inUse <- {w.job : w \in queue.work}

ImplementsLedger == Ledger!Spec

=============================================================================
