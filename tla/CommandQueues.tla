---------------------------- MODULE CommandQueues ----------------------------
(***************************************************************************)
(* CommandQueue and Fence: one CPU thread submits work, signals and waits to *)
(* several GPU queues, each of which runs its commands in order. Every queue *)
(* owns the one fence it signals. Signal values of a fence only grow, so a   *)
(* fence is its completed value.                                             *)
(***************************************************************************)
EXTENDS Integers, Sequences, FiniteSets

CONSTANTS
  Queue,       \* the command queues; a fence is named by its queue
  Job,         \* command lists, each submitted again only after it is done
  MaxSignals,  \* bound on the values of a fence
  MaxPending,  \* bound on the commands of a queue that are not carried out
  FutureWaits  \* whether clients wait on points that NextSignal announced

ASSUME QueuesAssumption ==
  MaxSignals \in Nat /\ MaxPending \in Nat /\ FutureWaits \in BOOLEAN

VARIABLES
  pending,    \* per queue: commands the GPU has not carried out, oldest first
  next,       \* per fence: Fence::m_NextValue
  completed,  \* per fence: ID3D12Fence::GetCompletedValue
  gone,       \* queues that have been destroyed
  cpu,        \* the call the CPU thread is blocked in, or how the last one ended
  ordered,    \* history: per queue, the jobs that what it is given next comes after
  promised    \* history: per fence and value, the jobs its signal comes after

\* The history names outstanding jobs only.

vars == <<pending, next, completed, gone, cpu, ordered, promised>>
history == <<ordered, promised>>

Point == [fence : Queue, value : 1..MaxSignals + 1]

SignalCmd(v) == [op |-> "signal", value |-> v]
WaitCmd(p) == [op |-> "wait", point |-> p]
RunCmd(j) == [op |-> "run", job |-> j]

Jobs(q) == {pending[q][k].job : k \in {i \in DOMAIN pending[q] : pending[q][i].op = "run"}}
Outstanding == UNION {Jobs(q) : q \in Queue}

\* The points a client can hold: those signalled and, if it asks NextSignal, the
\* next one.
Known(q) == {p \in Point : /\ p.fence = q
                          /\ \/ p.value < next[q]
                             \/ FutureWaits /\ p.value = next[q]}

\* The thread is free: it was told that a point was reached, or it was not (every
\* other outcome of a call, refusals and time-outs included, is told apart by none
\* of the code).
Idle == [at |-> "free", outcome |-> "none"]
Reports(outcome, p) == [at |-> "free", outcome |-> outcome, point |-> p]
Blocked(call, p, timed) == [at |-> call, timed |-> timed, point |-> p]

\* The thread can make a call on q; it can one that gives the GPU a command.
Callable(q) == cpu.at = "free" /\ q \notin gone
CanSubmit(q) == Callable(q) /\ Len(pending[q]) < MaxPending

-----------------------------------------------------------------------------
Init == /\ pending = [q \in Queue |-> <<>>]
        /\ next = [q \in Queue |-> 1]
        /\ completed = [q \in Queue |-> 0]
        /\ gone = {}
        /\ cpu = Idle
        /\ ordered = [q \in Queue |-> {}]
        /\ promised = [q \in Queue |-> <<>>]

\* Variant: the next value is not advanced.
SignalledStale(q) ==
  /\ next[q] <= MaxSignals
  /\ promised' = [promised EXCEPT ![q] = Append(@, ordered[q])]
  /\ UNCHANGED next

\* Fence::Signal on q: a signal of the next value joins the commands.
Signalled(q) ==
  /\ next[q] <= MaxSignals
  /\ next' = [next EXCEPT ![q] = @ + 1]
  /\ promised' = [promised EXCEPT ![q] = Append(@, ordered[q])]

\* The point of the signal about to be sent, and two variants that miss it.
NewPointPrevious(q) == [fence |-> q, value |-> next[q] - 1]
NewPointNext(q) == [fence |-> q, value |-> next[q] + 1]
NewPoint(q) == [fence |-> q, value |-> next[q]]

CallSignal(q) ==
  /\ CanSubmit(q)
  /\ Signalled(q)
  /\ pending' = [pending EXCEPT ![q] = Append(@, SignalCmd(next[q]))]
  /\ cpu' = Idle
  /\ UNCHANGED <<completed, gone, ordered>>

ExecuteCommandList(q, j) ==
  /\ CanSubmit(q)
  /\ j \notin Outstanding
  /\ pending' = [pending EXCEPT ![q] = Append(@, RunCmd(j))]
  /\ ordered' = [ordered EXCEPT ![q] = @ \cup {j}]
  /\ cpu' = Idle
  /\ UNCHANGED <<next, completed, gone, promised>>

\* A GPU-side wait on any fence's point; it is not validated. (Variant: the wait is
\* for the queue's own fence.)
WaitOnOwnFence(q, p) ==
  /\ CanSubmit(q)
  /\ pending' = [pending EXCEPT ![q] = Append(@, WaitCmd([p EXCEPT !.fence = q]))]
  /\ ordered' = [ordered EXCEPT ![q] =
                   @ \cup (IF p.value < next[p.fence] THEN promised[p.fence][p.value] ELSE {})]
  /\ cpu' = Idle
  /\ UNCHANGED <<next, completed, gone, promised>>

WaitOnFenceGPU(q, p) ==
  /\ CanSubmit(q)
  /\ pending' = [pending EXCEPT ![q] = Append(@, WaitCmd(p))]
  /\ ordered' = [ordered EXCEPT ![q] =
                   @ \cup (IF p.value < next[p.fence] THEN promised[p.fence][p.value] ELSE {})]
  /\ cpu' = Idle
  /\ UNCHANGED <<next, completed, gone, promised>>

\* SyncWithQueue: signal the other queue, wait for that signal on this one.
\* (Variant: wait before signalling.)
SyncWithQueueReversed(q, other) ==
  /\ CanSubmit(q) /\ CanSubmit(other)
  /\ Signalled(other)
  /\ LET waiting == [pending EXCEPT ![q] = Append(@, WaitCmd(NewPoint(other)))]
     IN  pending' = [waiting EXCEPT ![other] = Append(@, SignalCmd(next[other]))]
  /\ ordered' = [ordered EXCEPT ![q] = @ \cup ordered[other]]
  /\ cpu' = Idle
  /\ UNCHANGED <<completed, gone>>

SyncWithQueue(q, other) ==
  /\ CanSubmit(q) /\ CanSubmit(other)
  /\ Signalled(other)
  /\ LET signalled == [pending EXCEPT ![other] = Append(@, SignalCmd(next[other]))]
     IN  pending' = [signalled EXCEPT ![q] = Append(@, WaitCmd(NewPoint(other)))]
  /\ ordered' = [ordered EXCEPT ![q] = @ \cup ordered[other]]
  /\ cpu' = Idle
  /\ UNCHANGED <<completed, gone>>

-----------------------------------------------------------------------------
(* Waiting on the CPU. Fence::WaitForFencePoint refuses a point of another     *)
(* fence, answers at once if the fence is past the point, and otherwise blocks *)
(* on an event; if the event cannot be created it reports the wrong fence too. *)

\* (Variant: the point is not validated.)
QueryUnvalidated(q, p) ==
  /\ Callable(q)
  /\ cpu' = IF completed[q] >= p.value THEN Reports("reached", p) ELSE Idle
  /\ UNCHANGED <<pending, next, completed, gone, history>>

HasFencePointBeenReached(q, p) ==
  /\ Callable(q)
  /\ cpu' = IF p.fence = q /\ completed[q] >= p.value THEN Reports("reached", p) ELSE Idle
  /\ UNCHANGED <<pending, next, completed, gone, history>>

WaitOnFenceCPU(q, p, timed) ==
  /\ Callable(q)
  /\ \/ p.fence # q /\ cpu' = Idle
     \/ p.fence = q /\ completed[q] > p.value /\ cpu' = Reports("reached", p)
     \/ p.fence = q /\ completed[q] <= p.value /\ cpu' = Blocked("wait", p, timed)
     \/ p.fence = q /\ completed[q] <= p.value /\ cpu' = Idle
  /\ UNCHANGED <<pending, next, completed, gone, history>>

\* FlushQueue: signal, then wait for that point without a time limit. The wait
\* throws if the event cannot be created. The destructor flushes too; an
\* exception there ends the program and is left out.
StartFlush(q, call) ==
  /\ CanSubmit(q)
  /\ Signalled(q)
  /\ pending' = [pending EXCEPT ![q] = Append(@, SignalCmd(next[q]))]
  /\ \/ cpu' = Blocked(call, NewPoint(q), FALSE)
     \/ call = "flush" /\ cpu' = Idle
  /\ UNCHANGED <<completed, gone, ordered>>

FlushQueue(q) == StartFlush(q, "flush")
Destroy(q) == StartFlush(q, "destroy")

WaitReturns ==
  /\ cpu.at # "free"
  /\ completed[cpu.point.fence] >= cpu.point.value
  /\ cpu' = Reports(IF cpu.at = "wait" THEN "reached" ELSE "flushed", cpu.point)
  /\ gone' = IF cpu.at = "destroy" THEN gone \cup {cpu.point.fence} ELSE gone
  /\ UNCHANGED <<pending, next, completed, history>>

WaitTimesOut ==
  /\ cpu.at = "wait" /\ cpu.timed
  /\ cpu' = Idle
  /\ UNCHANGED <<pending, next, completed, gone, history>>

-----------------------------------------------------------------------------
(* The GPU takes the commands of a queue one at a time.                        *)

Ready(q) ==
  /\ pending[q] # <<>>
  /\ Head(pending[q]).op = "wait" =>
       completed[Head(pending[q]).point.fence] >= Head(pending[q]).point.value

GpuSignal(q) ==
  /\ Ready(q)
  /\ Head(pending[q]).op = "signal"
  /\ completed' = [completed EXCEPT ![q] = Head(pending[q]).value]
  /\ pending' = [pending EXCEPT ![q] = Tail(@)]
  /\ UNCHANGED <<next, gone, cpu, history>>

GpuWait(q) ==
  /\ Ready(q)
  /\ Head(pending[q]).op = "wait"
  /\ pending' = [pending EXCEPT ![q] = Tail(@)]
  /\ UNCHANGED <<completed, next, gone, cpu, history>>

GpuRun(q) ==
  /\ Ready(q)
  /\ Head(pending[q]).op = "run"
  /\ LET j == Head(pending[q]).job
     IN  /\ pending' = [pending EXCEPT ![q] = Tail(@)]
         /\ ordered' = [f \in Queue |-> ordered[f] \ {j}]
         /\ promised' = [f \in Queue |-> [v \in DOMAIN promised[f] |-> promised[f][v] \ {j}]]
  /\ UNCHANGED <<completed, next, gone, cpu>>

GpuStep(q) == GpuSignal(q) \/ GpuWait(q) \/ GpuRun(q)

Terminated == gone = Queue /\ cpu.at = "free" /\ UNCHANGED vars

Call(q) ==
  \/ CallSignal(q)
  \/ \E j \in Job : ExecuteCommandList(q, j)
  \/ \E f \in Queue \ gone : \E p \in Known(f) :
       \/ WaitOnFenceGPU(q, p)
       \/ HasFencePointBeenReached(q, p)
       \/ \E timed \in BOOLEAN : WaitOnFenceCPU(q, p, timed)
  \/ \E other \in Queue : SyncWithQueue(q, other)
  \/ FlushQueue(q)
  \/ Destroy(q)

Next == \/ \E q \in Queue : Call(q) \/ GpuStep(q)
        \/ WaitReturns
        \/ WaitTimesOut
        \/ Terminated

\* The GPU goes on while it can, and a thread whose event is set wakes up. No
\* client is obliged to call anything.
Fairness == WF_vars(WaitReturns) /\ \A q \in Queue : WF_vars(GpuStep(q))

Spec == Init /\ [][Next]_vars
FairSpec == Spec /\ Fairness

-----------------------------------------------------------------------------
(* Properties *)

Command == [op : {"signal"}, value : 1..MaxSignals] \cup [op : {"wait"}, point : Point]
             \cup [op : {"run"}, job : Job]

\* The shape of the state.
TypeOK ==
  /\ pending \in [Queue -> Seq(Command)]
  /\ next \in [Queue -> 1..MaxSignals + 1]
  /\ completed \in [Queue -> 0..MaxSignals]
  /\ gone \subseteq Queue
  /\ \/ cpu = Idle
     \/ cpu \in [at : {"free"}, point : Point, outcome : {"reached", "flushed"}]
     \/ cpu \in [at : {"wait", "flush", "destroy"}, point : Point, timed : BOOLEAN]
  /\ ordered \in [Queue -> SUBSET Job]
  /\ promised \in [Queue -> Seq(SUBSET Job)]

\* A fence point is reached only when all the work it was signalled after is done,
\* the work of other queues that its queue was made to wait for included.
ReachedMeansDone == \A q \in Queue : \A v \in 1..completed[q] : promised[q][v] = {}

\* A wait or a query that reports a point as reached tells the truth about the
\* fence the point belongs to, whichever queue was asked.
WaitTellsTruth ==
  cpu.at = "free" /\ cpu.outcome \in {"reached", "flushed"} =>
    completed[cpu.point.fence] >= cpu.point.value

\* When FlushQueue returns, and when a queue has been destroyed, the GPU has nothing
\* left to do for it.
FlushIsBarrier ==
  LET flushed == {q \in Queue : cpu.at = "free" /\ cpu.outcome = "flushed" /\ cpu.point.fence = q}
  IN  \A q \in gone \cup flushed : pending[q] = <<>>

\* Queues that only wait for points already signalled never wait for each other in
\* a circle, however they are synchronised: some queue can always go on.
NeverStuck ==
  ~FutureWaits /\ (\E q \in Queue : pending[q] # <<>>) => \E q \in Queue : Ready(q)

\* Every queue keeps the promise the rest of the code builds on: seen from one
\* queue, its points are reached in order, each after the work before it.
TimelineOf(q) ==
  LET SignalsFrom(k) == {i \in k..Len(pending[q]) : pending[q][i].op = "signal"}
      Runs == {k \in DOMAIN pending[q] : pending[q][k].op = "run"}
  IN  [next |-> next[q],
       completed |-> completed[q],
       work |-> {[job |-> pending[q][k].job, mark |-> next[q] - Cardinality(SignalsFrom(k))] :
                   k \in Runs}]

Timelines == INSTANCE QueueTimelines WITH
  TimelineQueue <- Queue, TimelineJob <- Job, timelines <- [q \in Queue |-> TimelineOf(q)]

ImplementsTimelines == Timelines!TimelinesSpec

\* Every blocking call returns.
CallsReturn == (cpu.at # "free") ~> (cpu.at = "free")

=============================================================================
