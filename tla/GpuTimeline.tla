----------------------------- MODULE GpuTimeline -----------------------------
(***************************************************************************)
(* What one CommandQueue with its Fence promises to the CPU code that uses  *)
(* it: fence points are handed out in order, the GPU reaches them in order, *)
(* and a point is reached only when all work submitted before it is done.   *)
(*                                                                          *)
(* A queue is a record                                                      *)
(*   next       Fence::m_NextValue, the value the next Signal will carry    *)
(*   completed  what ID3D12Fence::GetCompletedValue returns                 *)
(*   work       the submitted jobs the GPU has not finished, each with its  *)
(*              mark: the value of the first signal submitted after it      *)
(*                                                                          *)
(* The queue of commands itself, and waits between queues, are in           *)
(* CommandQueues, which is checked to implement this module.                *)
(***************************************************************************)
EXTENDS Naturals

\* A queue whose fence was created with initial value 0.
NewQueue == [next |-> 1, completed |-> 0, work |-> {}]

\* Fence::Signal: enqueue a signal of m_NextValue, return that point and move
\* on to the next value. The caller's point is NextSignal(q).
NextSignal(q) == q.next
Signal(q) == [q EXCEPT !.next = @ + 1]

\* Fence::HasCompleted for a point of this queue's own fence.
\* (Variants: off by one either way.)
HasCompletedEarly(q, point) == q.completed + 1 >= point
HasCompletedLate(q, point) == q.completed > point
HasCompleted(q, point) == q.completed >= point

\* CommandQueue::ExecuteCommandList: hand a job to the GPU.
Execute(q, job) == [q EXCEPT !.work = @ \cup {[job |-> job, mark |-> q.next]}]

\* The GPU finishes w, whose turn has come: every signal before it is reached.
CanFinish(q, w) == w \in q.work /\ w.mark <= q.completed + 1
Finish(q, w) == [q EXCEPT !.work = @ \ {w}]

\* The GPU reaches the next signal once nothing submitted before it is left.
CanAdvance(q) == /\ q.completed + 1 < q.next
                 /\ \A w \in q.work : w.mark > q.completed + 1
Advance(q) == [q EXCEPT !.completed = @ + 1]

\* Whether the GPU may still be working on some job in jobs.
InFlight(q, jobs) == \E w \in q.work : w.job \in jobs

QueueType(Job) ==
  [next : Nat, completed : Nat, work : SUBSET [job : Job, mark : Nat]]

\* The queue's own consistency: the fence lags the signals handed out, and work
\* that is still unfinished holds back every signal that was sent after it.
QueueOrdered(q) ==
  /\ q.completed < q.next
  /\ \A w \in q.work : q.completed < w.mark /\ w.mark <= q.next

=============================================================================
