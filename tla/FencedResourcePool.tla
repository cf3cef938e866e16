--------------------------- MODULE FencedResourcePool ---------------------------
(***************************************************************************)
(* FencedResourcePool<T>: resources lent to the holders of ScopedResources.   *)
(* A resource that comes back waits, with the fence point signalled then, in *)
(* the RingBuffer m_Pool. One CPU thread calls the pool; the GPU runs beside. *)
(***************************************************************************)
EXTENDS RingBuffer, GpuTimeline

CONSTANTS
  Resource,    \* identities of the resources the pool may create
  Nothing,     \* a ScopedResource that was moved from
  Holder,      \* the ScopedResources clients may have
  MaxSignals   \* bound on the fence values signalled

VARIABLES
  holders,  \* the resource of each ScopedResource, or Nothing
  queue     \* m_Queue

poolVars == <<vars, holders, queue>>

FencedResource == [Resource : Resource, FencePoint : 1..MaxSignals]

\* The buffer holds what the pool puts into it.
ASSUME PoolAssumption == MaxSignals \in Nat /\ Nothing \notin Resource /\ Item = FencedResource

-----------------------------------------------------------------------------
Held == { holders[h] : h \in Holder } \ {Nothing}
Pooled == { Content[k].Resource : k \in 1..size }
Created == Held \cup Pooled \cup { w.job : w \in queue.work }

PoolInit ==
  /\ holders = [h \in Holder |-> Nothing]
  /\ queue = NewQueue

\* Request looks at the oldest resource only. (Variant: its fence is not looked at.)
CreatesWhenEmpty == size = 0

Creates == size # 0 => ~HasCompleted(queue, data[head].FencePoint)

RequestCreates(h) ==
  /\ Creates
  /\ \E r \in Resource \ Created : holders' = [holders EXCEPT ![h] = r]
  /\ UNCHANGED <<vars, queue>>

RequestReuses(h) ==
  /\ ~Creates
  /\ PopTaken
  /\ holders' = [holders EXCEPT ![h] = data[head].Resource]
  /\ UNCHANGED queue

Request(h) == holders[h] = Nothing /\ (RequestCreates(h) \/ RequestReuses(h))

\* Release, of what a ScopedResource holds.
Release(r) ==
  IF r = Nothing THEN UNCHANGED <<vars, queue>>
  ELSE /\ queue.next <= MaxSignals
       /\ push_back([Resource |-> r, FencePoint |-> NextSignal(queue)])
       /\ queue' = Signal(queue)

Destroy(h) ==
  /\ holders[h] # Nothing
  /\ Release(holders[h])
  /\ holders' = [holders EXCEPT ![h] = Nothing]

\* h = std::move(g), also of itself, and ScopedResource(std::move(g)) when h holds
\* nothing.
MoveAssign(h, g) ==
  /\ Release(holders[h])
  /\ holders' = [holders EXCEPT ![h] = IF h = g THEN Nothing ELSE holders[g], ![g] = Nothing]

\* A holder submits work that uses its resource.
Use(h) ==
  /\ holders[h] # Nothing
  /\ queue' = Execute(queue, holders[h])
  /\ UNCHANGED <<vars, holders>>

GpuFinish ==
  /\ \E w \in queue.work : CanFinish(queue, w) /\ queue' = Finish(queue, w)
  /\ UNCHANGED <<vars, holders>>

GpuAdvance ==
  /\ CanAdvance(queue)
  /\ queue' = Advance(queue)
  /\ UNCHANGED <<vars, holders>>

PoolNext ==
  \/ \E h \in Holder : Request(h) \/ Destroy(h) \/ Use(h)
  \/ \E h, g \in Holder : MoveAssign(h, g)
  \/ GpuFinish \/ GpuAdvance

PoolSpec == Init /\ PoolInit /\ [][PoolNext]_poolVars

-----------------------------------------------------------------------------
\* Whoever gets a resource is its only holder, however ScopedResources are moved, and
\* when nobody held it before the GPU has finished all work of its former holders.
\* FencedResourcePool.h:57 and :109.
LentAlone ==
  [][\A h \in Holder : holders'[h] \notin {holders[h], Nothing} =>
       /\ \A g \in Holder \ {h} : holders'[g] # holders'[h]
       /\ holders'[h] \notin Held => ~InFlight(queue, {holders'[h]})]_poolVars
=============================================================================
