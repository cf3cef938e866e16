---------------------------- MODULE CommandEngine ----------------------------
(***************************************************************************)
(* CommandEngine with the buffers and readbacks of its GPUResourceManager:   *)
(* Execute records a client's function into the engine's one command list    *)
(* and submits it; the buffers the function created are released when it     *)
(* ends; ExecuteReadback maps a readback once its fence point is reached.    *)
(*                                                                          *)
(* The managed buffers are seen through what FencedResourceFreeList does     *)
(* with them: a released buffer waits for the point signalled at its release *)
(* and is destroyed when a later Manage takes over its slot, oldest first.   *)
(***************************************************************************)
EXTENDS Integers, Sequences, FiniteSets, GpuTimeline

CONSTANTS
  Buffer,     \* identities of buffer objects, readback buffers included
  Allocator,  \* identities of command allocators
  MaxSignals  \* bound on the fence values signalled

CONSTANT None \* no allocator
ASSUME EngineAssumption == MaxSignals \in Nat /\ None \notin Allocator

VARIABLES
  queue,      \* m_Queue
  list,       \* m_List: what it was reset with and what has been recorded
  scoped,     \* ScopedGPUResourceManager::m_Buffers of the Execute under way
  pool,       \* m_Allocators, oldest first
  owned,      \* buffers whose handles are valid
  retired,    \* released buffers with their fence points, oldest first
  readbacks,  \* m_Readbacks that have not been released
  stage,      \* what the CPU thread is in: no call, an Execute, a Flush
  filled      \* history: the readback buffers whose copy is done

vars == <<queue, list, scoped, pool, owned, retired, readbacks, stage, filled>>

-----------------------------------------------------------------------------
Closed == [open |-> FALSE, allocator |-> None, uses |-> {}, copies |-> {}]
Opened(a) == [open |-> TRUE, allocator |-> a, uses |-> {}, copies |-> {}]

Outside == [at |-> "outside", point |-> 0]
Recording == [at |-> "recording", point |-> 0]
Flushing(p) == [at |-> "flushing", point |-> p]

Job == [allocator : Allocator, uses : SUBSET Buffer, copies : SUBSET Buffer]
JobOf(l) == [allocator |-> l.allocator, uses |-> l.uses, copies |-> l.copies]

\* Buffer objects that exist, and identities no longer seen anywhere.
Alive == owned \cup {retired[k].buffer : k \in DOMAIN retired}
FreshBuffers == Buffer \ (Alive \cup list.uses \cup UNION {w.job.uses : w \in queue.work})
FreshAllocators == Allocator \ ({list.allocator} \cup {pool[k].allocator : k \in DOMAIN pool}
                                  \cup {w.job.allocator : w \in queue.work})

\* The queue after n further signals; the points they carry start at NextSignal.
Signals(q, n) == [q EXCEPT !.next = @ + n]
CanSignal(n) == queue.next + n <= MaxSignals + 1

\* Buffers released one after the other, each with a signal of its own.
RetiredFrom(buffers, point) ==
  [k \in DOMAIN buffers |-> [buffer |-> buffers[k], point |-> point + k - 1]]

-----------------------------------------------------------------------------
Init == /\ queue = NewQueue
        /\ list = Closed
        /\ scoped = <<>>
        /\ pool = <<>>
        /\ owned = {}
        /\ retired = <<>>
        /\ readbacks = <<>>
        /\ stage = Outside
        /\ filled = {}

\* FencedResourceFreeList::Manage of a new buffer: the oldest released slot is taken
\* over, and its buffer destroyed, if its point is reached.
Acquire(b) ==
  /\ b \in FreshBuffers
  /\ owned' = owned \cup {b}
  /\ filled' = filled \ {b}
  /\ retired' = IF retired # <<>> /\ HasCompleted(queue, Head(retired).point)
                  THEN Tail(retired) ELSE retired

\* Execute, up to the client's function: the oldest allocator if the GPU is past
\* its point, else a new one. A list that an exception left open cannot be reset:
\* the call throws and the allocator is gone.
Reusable == pool # <<>> /\ HasCompleted(queue, Head(pool).point)

BeginExecute(a) ==
  /\ stage = Outside
  /\ IF Reusable THEN a = Head(pool).allocator /\ pool' = Tail(pool)
                 ELSE a \in FreshAllocators /\ pool' = pool
  /\ IF list.open THEN UNCHANGED <<list, stage>>
                  ELSE list' = Opened(a) /\ stage' = Recording
  /\ UNCHANGED <<queue, scoped, owned, retired, readbacks, filled>>

\* ScopedCommandContext::CreateBuffer.
CreateBuffer(b) ==
  /\ stage = Recording
  /\ Acquire(b)
  /\ scoped' = Append(scoped, b)
  /\ UNCHANGED <<queue, list, pool, readbacks, stage>>

\* The client binds the buffers it created and dispatches.
Dispatch ==
  /\ stage = Recording
  /\ list' = [list EXCEPT !.uses = @ \cup {scoped[k] : k \in DOMAIN scoped}]
  /\ UNCHANGED <<queue, scoped, pool, owned, retired, readbacks, stage, filled>>

\* QueueReadback: a readback buffer is acquired, the copy recorded, and the fence
\* signalled for it there and then, while the list is still being recorded. (Variant:
\* the readback buffer is one of the scoped ones.)
QueueReadbackScoped(source, b) ==
  /\ stage = Recording
  /\ CanSignal(1)
  /\ Acquire(b)
  /\ list' = [list EXCEPT !.uses = @ \cup {source, b}, !.copies = @ \cup {b}]
  /\ readbacks' = Append(readbacks, [buffer |-> b, point |-> NextSignal(queue)])
  /\ queue' = Signal(queue)
  /\ scoped' = Append(scoped, b)
  /\ UNCHANGED <<pool, stage>>

QueueReadback(source, b) ==
  /\ stage = Recording
  /\ CanSignal(1)
  /\ Acquire(b)
  /\ list' = [list EXCEPT !.uses = @ \cup {source, b}, !.copies = @ \cup {b}]
  /\ readbacks' = Append(readbacks, [buffer |-> b, point |-> NextSignal(queue)])
  /\ queue' = Signal(queue)
  /\ UNCHANGED <<scoped, pool, stage>>

-----------------------------------------------------------------------------
(* The end of Execute. The context goes last: its destructor releases what the  *)
(* function created, after the list has been submitted.                        *)

\* (Variant: the handles are forgotten, nothing is released.)
ReleaseScopedNot(q) == scoped' = <<>> /\ UNCHANGED <<owned, retired>>

ReleaseScoped(q) ==
  /\ retired' = retired \o RetiredFrom(scoped, NextSignal(q))
  /\ owned' = owned \ {scoped[k] : k \in DOMAIN scoped}
  /\ scoped' = <<>>

\* The function succeeded: the allocator is put back with a new fence point, then
\* the list is submitted. (Variant: the context goes first.)
SubmitReleasedFirst ==
  /\ stage = Recording
  /\ CanSignal(Len(scoped) + 1)
  /\ pool' = Append(pool, [allocator |-> list.allocator, point |-> NextSignal(queue)])
  /\ ReleaseScoped(Signal(queue))
  /\ queue' = Execute(Signals(queue, Len(scoped) + 1), JobOf(list))
  /\ list' = Closed
  /\ stage' = Outside
  /\ UNCHANGED <<readbacks, filled>>

Submit ==
  /\ stage = Recording
  /\ CanSignal(Len(scoped) + 1)
  /\ pool' = Append(pool, [allocator |-> list.allocator, point |-> NextSignal(queue)])
  /\ ReleaseScoped(Signal(queue))
  /\ queue' = Signals(Execute(Signal(queue), JobOf(list)), Len(scoped))
  /\ list' = Closed
  /\ stage' = Outside
  /\ UNCHANGED <<readbacks, filled>>

\* The function returned an error: the list is closed and not submitted.
Fail ==
  /\ stage = Recording
  /\ CanSignal(Len(scoped) + 1)
  /\ pool' = Append(pool, [allocator |-> list.allocator, point |-> NextSignal(queue)])
  /\ ReleaseScoped(Signal(queue))
  /\ queue' = Signals(queue, Len(scoped) + 1)
  /\ list' = Closed
  /\ stage' = Outside
  /\ UNCHANGED <<readbacks, filled>>

\* The function threw: the list stays open and the allocator is lost.
Throw ==
  /\ stage = Recording
  /\ CanSignal(Len(scoped))
  /\ ReleaseScoped(queue)
  /\ queue' = Signals(queue, Len(scoped))
  /\ stage' = Outside
  /\ UNCHANGED <<list, pool, readbacks, filled>>

-----------------------------------------------------------------------------
\* Flush, and ExecuteReadback of a function that succeeds, which releases the
\* buffer and the readback; when the function fails, or the fence point has not
\* been reached, nothing changes.
StartFlush ==
  /\ stage = Outside
  /\ CanSignal(1)
  /\ stage' = Flushing(NextSignal(queue))
  /\ queue' = Signal(queue)
  /\ UNCHANGED <<list, scoped, pool, owned, retired, readbacks, filled>>

FlushReturns ==
  /\ stage.at = "flushing" /\ HasCompleted(queue, stage.point)
  /\ stage' = Outside
  /\ UNCHANGED <<queue, list, scoped, pool, owned, retired, readbacks, filled>>

Without(s, k) == SubSeq(s, 1, k - 1) \o SubSeq(s, k + 1, Len(s))

\* (Variant: the readback buffer is not released.)
ExecuteReadbackKeeps(k) ==
  /\ stage = Outside
  /\ k \in DOMAIN readbacks
  /\ CanSignal(1)
  /\ HasCompleted(queue, readbacks[k].point)
  /\ queue' = Signal(queue)
  /\ readbacks' = Without(readbacks, k)
  /\ UNCHANGED <<list, scoped, pool, owned, retired, stage, filled>>

ExecuteReadback(k) ==
  /\ stage = Outside
  /\ k \in DOMAIN readbacks
  /\ CanSignal(1)
  /\ HasCompleted(queue, readbacks[k].point)
  /\ owned' = owned \ {readbacks[k].buffer}
  /\ retired' = Append(retired, [buffer |-> readbacks[k].buffer, point |-> NextSignal(queue)])
  /\ queue' = Signal(queue)
  /\ readbacks' = Without(readbacks, k)
  /\ UNCHANGED <<list, scoped, pool, stage, filled>>

GpuFinish ==
  /\ \E w \in queue.work :
       /\ CanFinish(queue, w)
       /\ queue' = Finish(queue, w)
       /\ filled' = filled \cup w.job.copies
  /\ UNCHANGED <<list, scoped, pool, owned, retired, readbacks, stage>>

GpuAdvance ==
  /\ CanAdvance(queue)
  /\ queue' = Advance(queue)
  /\ UNCHANGED <<list, scoped, pool, owned, retired, readbacks, stage, filled>>

Next ==
  \/ \E a \in Allocator : BeginExecute(a)
  \/ \E b \in Buffer : CreateBuffer(b)
  \/ Dispatch
  \/ \E k \in DOMAIN scoped, b \in Buffer : QueueReadback(scoped[k], b)
  \/ Submit \/ Fail \/ Throw
  \/ StartFlush \/ FlushReturns
  \/ \E k \in DOMAIN readbacks : ExecuteReadback(k)
  \/ GpuFinish \/ GpuAdvance

Spec == Init /\ [][Next]_vars

-----------------------------------------------------------------------------
(* Properties *)

\* The shape of the state.
TypeOK ==
  /\ queue \in QueueType(Job)
  /\ list \in [open : BOOLEAN, allocator : Allocator \cup {None},
               uses : SUBSET Buffer, copies : SUBSET Buffer]
  /\ scoped \in Seq(Buffer)
  /\ pool \in Seq([allocator : Allocator, point : Nat])
  /\ owned \subseteq Buffer /\ filled \subseteq Buffer
  /\ retired \in Seq([buffer : Buffer, point : Nat])
  /\ readbacks \in Seq([buffer : Buffer, point : Nat])
  /\ stage \in [at : {"outside", "recording", "flushing"}, point : Nat]

\* No buffer that submitted work uses is destroyed before the work is done, however
\* the functions that created the buffers ended and whenever slots are taken over.
SubmittedBuffersAlive == \A w \in queue.work : w.job.uses \subseteq Alive

\* A queued readback keeps its buffer to itself until it is executed: the handle
\* stays valid, nothing else releases it and no two readbacks share it. So the
\* releases that end ExecuteReadback never throw.
ReadbacksKeepBuffers ==
  \A k \in DOMAIN readbacks :
    /\ readbacks[k].buffer \in owned
    /\ \A i \in DOMAIN readbacks : readbacks[i].buffer = readbacks[k].buffer => i = k
    /\ \A i \in DOMAIN scoped : scoped[i] # readbacks[k].buffer

\* An allocator is reset only when the GPU has finished all work recorded from it:
\* what the reset in CommandAllocator asserts.
AllocatorResetIdle ==
  [][list'.open /\ ~list.open => \A w \in queue.work : w.job.allocator # list'.allocator]_vars

\* Readback k is gone after this step.
Dropped(k) == \A i \in DOMAIN readbacks' : readbacks'[i] # readbacks[k]

\* A readback that is executed has been copied: what the refusal "has not completed
\* yet" promises of those that are not refused.
ReadsAreCopied ==
  [][\A k \in DOMAIN readbacks : Dropped(k) => readbacks[k].buffer \in filled]_vars

=============================================================================
