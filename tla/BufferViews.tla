----------------------------- MODULE BufferViews -----------------------------
(***************************************************************************)
(* The views of GPUResourceManager while lists are recorded and run: every   *)
(* view takes a descriptor; when there is none the heap doubles, and the old *)
(* shader-visible heap waits in a FencedResourceFreeList for the GPU. A view *)
(* that is released does not give its descriptor back, so descriptors are    *)
(* handed out in order (BindlessFreeListAllocator) and `used' counts them.   *)
(*                                                                          *)
(* The client is RunShaderTest: it creates its views, dispatches once, and   *)
(* flushes when the list was submitted.                                      *)
(***************************************************************************)
EXTENDS Integers, Sequences, FiniteSets, GpuTimeline

CONSTANTS
  InitialSize,  \* descriptors to begin with: 1000 in the code
  MaxUAVs,      \* views a function may create before it dispatches
  MaxCBVs,      \* constant buffers a shader may have: at most 32, for 64 DWORDs
  MaxViews,     \* bound on the views created
  MaxSignals,   \* bound on the fence values when an Execute begins
  NoHeap

\* One dispatch does not need more constant buffers than there are descriptors.
ASSUME ViewsAssumption ==
  /\ InitialSize \in Nat \ {0} /\ MaxUAVs \in Nat /\ MaxViews \in Nat /\ MaxSignals \in Nat
  /\ MaxCBVs \in 0..InitialSize
  /\ NoHeap \notin Nat

VARIABLES
  queue,     \* m_Queue
  capacity,  \* m_DescriptorManager->GetCapacity()
  used,      \* descriptors acquired; each has its view in the CPU heap
  gpuHeap,   \* m_GPUHeap: heaps are numbered in the order of their creation
  copied,    \* per GPU heap, how many descriptors have been copied into it
  alive,     \* the GPU heaps that exist
  retired,   \* m_HeapReleaseManager: released heaps with their points, oldest first
  list,      \* m_List: the heap set, and the descriptors its dispatches use
  scoped,    \* the UAVs of the Execute under way
  cbvs,      \* constant buffers created for the dispatch under way
  stage      \* where the CPU thread is

viewsVars == <<queue, capacity, used, gpuHeap, copied, alive, retired, list, scoped, cbvs, stage>>

managerVars == <<capacity, used, gpuHeap, copied, alive, retired>>

-----------------------------------------------------------------------------
EmptyList == [heap |-> NoHeap, uses |-> {}]

Outside == [at |-> "outside", point |-> 0]
Recording == [at |-> "recording", point |-> 0]
Binding == [at |-> "binding", point |-> 0]
Flushing(p) == [at |-> "flushing", point |-> p]

ViewsInit ==
  /\ queue = NewQueue
  /\ capacity = InitialSize /\ used = 0
  /\ gpuHeap = 0 /\ copied = [h \in {0} |-> 0] /\ alive = {0}
  /\ retired = <<>>
  /\ list = EmptyList /\ scoped = {} /\ cbvs = 0
  /\ stage = Outside

BeginExecute ==
  /\ stage = Outside
  /\ queue.next <= MaxSignals
  /\ stage' = Recording
  /\ list' = EmptyList /\ scoped' = {} /\ cbvs' = 0
  /\ UNCHANGED <<queue, managerVars>>

\* Managing the old heap takes over the oldest slot whose point is reached, and
\* destroys the heap in it; the old heap is released at once. (Variant: the old heap is
\* not kept.)
OldestReached == retired # <<>> /\ HasCompleted(queue, Head(retired).point)

RetireHeapDropped ==
  /\ alive' = (alive \ {gpuHeap}) \cup {gpuHeap'}
  /\ retired' = retired
  /\ queue' = Signal(queue)

RetireHeap ==
  /\ alive' = (alive \ IF OldestReached THEN {Head(retired).heap} ELSE {}) \cup {gpuHeap'}
  /\ retired' = Append(IF OldestReached THEN Tail(retired) ELSE retired,
                       [heap |-> gpuHeap, point |-> NextSignal(queue)])
  /\ queue' = Signal(queue)

\* Acquiring a descriptor and writing the view to it, in CreateUAV and CreateCBV.
\* The new GPU heap is filled from the new CPU heap.
Full == used = capacity

CreateView ==
  /\ used < MaxViews
  /\ used' = used + 1
  /\ \/ /\ ~Full
        /\ UNCHANGED <<queue, capacity, gpuHeap, copied, alive, retired>>
     \/ /\ Full
        /\ capacity' = 2 * capacity
        /\ gpuHeap' = gpuHeap + 1
        /\ copied' = [h \in 0..gpuHeap + 1 |-> IF h <= gpuHeap THEN copied[h] ELSE used]
        /\ RetireHeap

CreateUAV ==
  /\ stage = Recording /\ list.heap = NoHeap
  /\ Cardinality(scoped) < MaxUAVs
  /\ CreateView
  /\ scoped' = scoped \cup {used}
  /\ UNCHANGED <<list, cbvs, stage>>

\* PreBindShader: the CPU heap is copied to the GPU heap, which the list is given.
\* (Variant: without the copy.)
PreBindShaderUncopied ==
  /\ stage = Recording /\ list.heap = NoHeap
  /\ list' = [list EXCEPT !.heap = gpuHeap]
  /\ cbvs' = 0
  /\ stage' = Binding
  /\ UNCHANGED <<queue, capacity, used, gpuHeap, copied, alive, retired, scoped>>

PreBindShader ==
  /\ stage = Recording /\ list.heap = NoHeap
  /\ copied' = [copied EXCEPT ![gpuHeap] = used]
  /\ list' = [list EXCEPT !.heap = gpuHeap]
  /\ cbvs' = 0
  /\ stage' = Binding
  /\ UNCHANGED <<queue, capacity, used, gpuHeap, alive, retired, scoped>>

\* SetShaderStateAndDispatch: a constant buffer with its view for every staging
\* buffer, then the dispatch, which uses the UAVs through the heap set before.
CreateCBV ==
  /\ stage = Binding
  /\ cbvs < MaxCBVs
  /\ CreateView
  /\ cbvs' = cbvs + 1
  /\ UNCHANGED <<list, scoped, stage>>

Dispatch ==
  /\ stage = Binding
  /\ list' = [list EXCEPT !.uses = @ \cup {[heap |-> list.heap, index |-> i] : i \in scoped}]
  /\ stage' = Recording
  /\ UNCHANGED <<queue, managerVars, scoped, cbvs>>

\* The end of Execute: the list is submitted between the allocator's signal and
\* those of the releases (one stands for all), and the client flushes; or the
\* function failed, nothing is submitted and the client goes on.
Submit ==
  /\ stage = Recording /\ list.heap # NoHeap
  /\ queue' = Signal(Signal(Execute(Signal(queue), list)))
  /\ stage' = Flushing(NextSignal(Signal(Signal(queue))))
  /\ UNCHANGED <<managerVars, list, scoped, cbvs>>

Fail ==
  /\ stage \in {Recording, Binding}
  /\ queue' = Signal(Signal(queue))
  /\ stage' = Outside
  /\ UNCHANGED <<managerVars, list, scoped, cbvs>>

FlushReturns ==
  /\ stage.at = "flushing" /\ HasCompleted(queue, stage.point)
  /\ stage' = Outside
  /\ UNCHANGED <<queue, managerVars, list, scoped, cbvs>>

GpuFinish ==
  /\ \E w \in queue.work : CanFinish(queue, w) /\ queue' = Finish(queue, w)
  /\ UNCHANGED <<managerVars, list, scoped, cbvs, stage>>

GpuAdvance ==
  /\ CanAdvance(queue) /\ queue' = Advance(queue)
  /\ UNCHANGED <<managerVars, list, scoped, cbvs, stage>>

ViewsNext ==
  \/ BeginExecute \/ CreateUAV \/ PreBindShader \/ CreateCBV \/ Dispatch
  \/ Submit \/ Fail \/ FlushReturns
  \/ GpuFinish \/ GpuAdvance

ViewsSpec == ViewsInit /\ [][ViewsNext]_viewsVars

-----------------------------------------------------------------------------
(* Properties *)

\* The shape of the state: no descriptor beyond the heap is ever written.
ViewsTypeOK ==
  /\ capacity \in Nat /\ used \in 0..capacity
  /\ gpuHeap \in alive /\ alive \subseteq 0..gpuHeap
  /\ copied \in [0..gpuHeap -> 0..used]
  /\ retired \in Seq([heap : 0..gpuHeap, point : Nat])
  /\ scoped \subseteq 0..used - 1 /\ cbvs \in 0..MaxCBVs
  /\ list.heap \in 0..gpuHeap \cup {NoHeap}

\* The heap a list was given exists until the GPU is done with the list, although it
\* may be replaced, and its fence point signalled, before the list is submitted.
HeapsOutliveWork ==
  /\ \A w \in queue.work : w.job.heap \in alive
  /\ stage \in {Recording, Binding} /\ list.heap # NoHeap => list.heap \in alive

\* Every view a submitted list uses is in the heap the list was given: it was created
\* before the heap was copied, and the list was given the heap it was copied to.
WorkSeesItsViews ==
  \A w \in queue.work : \A d \in w.job.uses :
    d.heap = w.job.heap /\ d.index < copied[d.heap]

=============================================================================
