--------------------------- MODULE ShaderTestDriver ---------------------------
(***************************************************************************)
(* ShaderTestDriver::RunShaderTest with the AssertionsV1 interface, as the   *)
(* one client of its CommandEngine: each run creates the two result buffers, *)
(* dispatches, queues a readback of each, flushes, and processes the         *)
(* readbacks one inside the other. A driver can be run any number of times,  *)
(* and is torn down between runs.                                            *)
(*                                                                          *)
(* CommandEngine alone lets a client reuse allocators and read back buffers  *)
(* too early (MCEngineAllocator, ReadsAreCopied): the order of RunShaderTest *)
(* is what makes both impossible here.                                       *)
(***************************************************************************)
EXTENDS CommandEngine

CONSTANT MaxRuns \* bound on the calls of RunShaderTest

\* A run takes at most nine signals (one per readback, allocator, released buffer
\* and flush), so the bound on signals never holds a run up.
ASSUME DriverAssumption == MaxRuns \in Nat /\ MaxSignals > 9 * MaxRuns

VARIABLES
  pc,     \* where RunShaderTest is
  runs,   \* the calls so far
  failed  \* history: how many of them ended with an error or an exception

driverVars == <<queue, list, scoped, pool, owned, retired, readbacks, stage, filled, pc, runs, failed>>

-----------------------------------------------------------------------------
DriverInit == Init /\ pc = "idle" /\ runs = 0 /\ failed = 0

\* New objects: their names do not matter.
FreshBuffer == CHOOSE b \in Buffer : b \in FreshBuffers
FreshAllocator == CHOOSE a \in Allocator : a \in FreshAllocators

Goto(from, to) == pc = from /\ pc' = to

\* A list that an earlier exception left open makes the call throw at once.
Run ==
  /\ runs < MaxRuns
  /\ Goto("idle", IF list.open THEN "idle" ELSE "setup")
  /\ BeginExecute(IF Reusable THEN Head(pool).allocator ELSE FreshAllocator)
  /\ runs' = runs + 1
  /\ failed' = IF list.open THEN failed + 1 ELSE failed

\* CreateGPUResources: the assert buffer, then the allocation buffer.
CreateGPUResources ==
  /\ Goto("setup", IF scoped = <<>> THEN "setup" ELSE "dispatch")
  /\ CreateBuffer(FreshBuffer)
  /\ UNCHANGED <<runs, failed>>

\* Dispatch, once every binding has been staged; a binding that cannot be staged
\* ends the run with its error. (Variant: without ending the Execute.)
DispatchTest == Goto("dispatch", "readAssert") /\ Dispatch /\ UNCHANGED <<runs, failed>>
BindingFailsOpen == /\ Goto("dispatch", "idle")
                    /\ failed' = failed + 1
                    /\ UNCHANGED <<queue, list, scoped, pool, owned, retired, readbacks, stage, filled, runs>>
BindingFails == Goto("dispatch", "idle") /\ Fail /\ failed' = failed + 1 /\ runs' = runs

\* QueueReadbacks: of the assert buffer, then of the allocation buffer.
QueueReadbacks ==
  /\ \/ Goto("readAssert", "readAllocation") /\ QueueReadback(scoped[1], FreshBuffer)
     \/ Goto("readAllocation", "submit") /\ QueueReadback(scoped[2], FreshBuffer)
  /\ UNCHANGED <<runs, failed>>

\* The client's function throws while it records.
RecordingThrows ==
  /\ pc \in {"setup", "dispatch", "readAssert", "readAllocation"}
  /\ pc' = "idle"
  /\ Throw
  /\ failed' = failed + 1
  /\ runs' = runs

SubmitTest == Goto("submit", "flush") /\ Submit /\ UNCHANGED <<runs, failed>>

\* Flush, before the readbacks are looked at. (Variant: it is not waited for.)
FlushUnwaited == Goto("flush", "process") /\ UNCHANGED <<queue, list, scoped, pool, owned, retired,
                                                         readbacks, stage, filled, runs, failed>>
FlushTest == Goto("flush", "flushing") /\ StartFlush /\ UNCHANGED <<runs, failed>>
FlushedTest == Goto("flushing", "process") /\ FlushReturns /\ UNCHANGED <<runs, failed>>

\* ProcessReadbacks: the function of the assert readback (the last but one queued)
\* executes the allocation readback, whose function processes both. When that one
\* succeeds each level releases its readback, the inner one first; when it fails or
\* throws neither does. (That a readback is refused is left out:
\* ReadbacksNeverRefused.)
AssertReadback == Len(readbacks) - 1
AllocationReadback == Len(readbacks)

ProcessInner ==
  /\ Goto("process", "outer")
  /\ HasCompleted(queue, readbacks[AssertReadback].point)
  /\ ExecuteReadback(AllocationReadback)
  /\ UNCHANGED <<runs, failed>>

ProcessOuter ==
  /\ Goto("outer", "idle")
  /\ ExecuteReadback(Len(readbacks))
  /\ UNCHANGED <<runs, failed>>

ProcessingFails ==
  /\ Goto("process", "idle")
  /\ failed' = failed + 1
  /\ UNCHANGED <<queue, list, scoped, pool, owned, retired, readbacks, stage, filled, runs>>

\* ~CommandEngine: members go in reverse order, the allocators and the resource
\* manager with all its buffers first, the queue, whose destructor flushes, last.
Teardown ==
  /\ Goto("idle", "closing")
  /\ pool' = <<>> /\ owned' = {} /\ retired' = <<>> /\ readbacks' = <<>>
  /\ list' = Closed
  /\ UNCHANGED <<queue, scoped, stage, filled, runs, failed>>

LastFlush == Goto("closing", "lastFlush") /\ StartFlush /\ UNCHANGED <<runs, failed>>
LastFlushed == Goto("lastFlush", "destroyed") /\ FlushReturns /\ UNCHANGED <<runs, failed>>

Gpu == (GpuFinish \/ GpuAdvance) /\ UNCHANGED <<pc, runs, failed>>

\* A run in progress moves on; whether to start another or tear down is the client's.
RunStep ==
  \/ CreateGPUResources \/ QueueReadbacks
  \/ DispatchTest \/ BindingFails \/ RecordingThrows
  \/ SubmitTest \/ FlushTest \/ FlushedTest
  \/ ProcessInner \/ ProcessOuter \/ ProcessingFails
  \/ LastFlush \/ LastFlushed

DriverNext == Run \/ RunStep \/ Teardown \/ Gpu

DriverSpec == DriverInit /\ [][DriverNext]_driverVars

\* The CPU thread keeps running and the GPU keeps working through its queue.
DriverFairSpec == DriverSpec /\ WF_driverVars(RunStep) /\ WF_driverVars(Gpu)

-----------------------------------------------------------------------------
(* Properties, besides those of CommandEngine *)

\* The shape of the driver's own state.
DriverTypeOK ==
  /\ pc \in {"idle", "setup", "dispatch", "readAssert", "readAllocation", "submit", "flush",
             "flushing", "process", "outer", "closing", "lastFlush", "destroyed"}
  /\ runs \in 0 .. MaxRuns
  /\ failed \in 0 .. runs
  /\ stage.at = "recording" <=> pc \in {"setup", "dispatch", "readAssert", "readAllocation", "submit"}

\* Between runs, and so when the teardown begins, the GPU has nothing left to do; the
\* only buffers still held are those of readbacks that no one will execute any more,
\* two for a run that failed at most.
BuffersReturned ==
  pc = "idle" => /\ queue.work = {}
                 /\ scoped = <<>>
                 /\ owned = {readbacks[k].buffer : k \in DOMAIN readbacks}
                 /\ Len(readbacks) <= 2 * failed

\* The allocator of a run is idle when it is reset; and the copies a run reads have
\* been made (CommandEngine's AllocatorResetIdle and ReadsAreCopied for this client).
RunsResetIdleAllocators ==
  [][pc = "idle" /\ pc' = "setup" =>
       \A w \in queue.work : w.job.allocator # list'.allocator]_driverVars
RunsReadCopies ==
  [][pc' # pc /\ pc \in {"process", "outer"} =>
       \A k \in DOMAIN readbacks : Dropped(k) => readbacks[k].buffer \in filled]_driverVars

\* Every run ends, and so does every teardown.
RunsEnd == pc # "idle" ~> pc \in {"idle", "destroyed"}

=============================================================================
