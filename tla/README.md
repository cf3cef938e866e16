# Verification of ShaderTestFramework

TLA+ models of the parts of ShaderTestFramework that keep state: the GPU
synchronisation, resource lifetime, barriers and descriptors under
`src/src/{Public,Private}/D3D12`, the containers they are built on, the test driver
and the fixture that depend on them, the compiler's paths and the bindings of a shader,
and the GPU threads of a test: their traversal of sections, the
asserts they record and the report made of them (`src/src/Shader`,
`src/src/Private/Framework/AssertionsV1`). The models are checked with TLC on small
instances (`*.cfg`); what the queues, the engine and its driver, the free lists, the pool,
the ring buffer, the descriptors, the views, the assert buffer, the fixture, the compiler's paths and
the bindings promise for safety is, but for the properties named at the end of "Proofs", proved with
TLAPS for all instances.

## Inventory

The program runs one CPU thread against one GPU. All concurrency is between the two
(and, inside a test shader, between GPU threads). The CPU never waits except in
`Fence::WaitForFencePoint`; everything else must be correct whatever the GPU has
reached.

| Part | State | Operations | What makes it correct |
|---|---|---|---|
| `Fence`, `CommandQueue` | next fence value; the GPU's completed value and pending commands | Signal, Wait (CPU, GPU), SyncWithQueue, Flush, ExecuteCommandList, destructor | a point that is reached means that everything before it is done; a query tells the truth; flush is a barrier; no queue waits for ever |
| `FencedResourceFreeList` | slots with versions, deferred releases, free list | Manage, Release, Get | a handle names one resource until it is released; no resource dies under the GPU; slots are reused before the list grows |
| `CommandEngine`, `ScopedGPUResourceManager` | one command list, pool of fenced allocators, the scope's handles | Execute (ends well, in an error, in an exception), Flush, ExecuteReadback | allocators are reset when idle; scoped resources outlive the submitted list; readbacks hand out copied data |
| `GPUResourceManager` | managed buffers, descriptors, readbacks | Acquire, CreateUAV/CBV, Upload, QueueReadback, Release | as above; descriptors of views in use stay put |
| `ShaderTestDriver` + V1 interface | progress of RunShaderTest | RunShaderTest, teardown | results are read after they are there, nothing leaks from run to run |
| `BindlessFreeListAllocator`, `DescriptorManager` | free indices, presence flags, current heap | Acquire, Release, Resize, Resolve | an index has one owner; a descriptor resolves into the current heap |
| `DescriptorRingAllocator`, `DescriptorFreeListAllocator` | head, tail, used | Allocate, Release, ReleaseAll | blocks in use do not overlap |
| `RingBuffer`, `FreeList` | storage, head, size | push, pop, resize; add, release | first in first out over growth and wrap |
| `FencedResourcePool` | idle resources with fence points | Acquire, scoped release | a resource is not handed out before the GPU is done |
| `CommandList` barriers | a resource's access, layout, sync | set state, copy | the recorded state is the state the GPU will see |
| `SectionManagement.hlsli` | a tree of sections with flags | ShouldEnter, OnLeave | each leaf is entered once, in order |
| `Assertions/Sections/Strings.hlsli` | counters and a raw buffer shared by GPU threads | Assert, record data | counts are exact; records do not overlap and fit |
| `TestDataBufferProcessor` | none | process | what was recorded is reported |
| `BasicShaderTestFixture` | device, driver, stats shared by all fixtures | construction, RunTest with capture and retry, destruction | both attempts are the same test; the capture shows the result; the stats are of this fixture |
| `GPUDevice` | device, handle of the capturer library | construction step by step, factories, destructor | its objects live inside it |
| `ShaderBindingMap` | staging buffers, root parameters | create, stage | 64 DWORDs are respected, bindings do not overlap |
| `VirtualShaderDirectoryMappingManager` | mappings | Add, Find, Map | the most specific mapping is used |
| `ShaderCompiler` | mappings, include handler | construct, compile | a source and an include of one path are one file |
| `StatSystem` | stats and generations | begin, end, flush | an old handle is refused |
| DXC, D3D12, byte readers, compile-time utilities, TTL | none, or external | | not modelled: see below |

Interaction: the fixture compiles a shader and calls the driver; the driver records
through `CommandEngine::Execute`; the scope of an Execute acquires resources from the
`GPUResourceManager`, which keeps them in `FencedResourceFreeList`s; every release and
every returned allocator takes a fence point from the engine's `CommandQueue`, and
every reuse asks the queue whether its point is reached.

What is hard to test here is in `PROJECT.json` under `hazards`, each at its line.

## Modules

```
QueueTimelines <--implements-- CommandQueues
      |
  GpuTimeline (operators on one queue's timeline)
      |                     \                    \                  \
FencedResourceFreeList     CommandEngine        BufferViews    FencedResourcePool
        \--implements-->    |      \            (descriptors       (over RingBuffer)
          ResourceLedger    |    ResourceStates   in order)
                     ShaderTestDriver

RingBuffer --implements--> Fifo          FreeList

BindlessFreeListAllocator --implements--> IndexPool      DescriptorHeap
                     \                                        |
               DescriptorManager                     DescriptorAllocators

GPUDevice   StatSystem   CompilerArguments     VirtualDirectories
        \       |       /            \          /
         TestFixture                ShaderCompiler
                                         |
                                    ShaderBindings

Sections (inside one dispatch)
   |
AssertBuffers (the same threads assert; the CPU reports)
```

| Proofs in | about |
|---|---|
| `CommonFacts` | induction, folds, sequences, one timeline (`GpuTimeline`): what all proofs share |
| `CommandQueuesProofs` | `CommandQueues`, its refinement of `QueueTimelines` |
| `FencedResourceFreeListProofs` | `FencedResourceFreeList`, its refinement of `ResourceLedger` |
| `EngineProofs` | `CommandEngine`, `ResourceStates`, `ShaderTestDriver` |
| `DescriptorProofs` | `BindlessFreeListAllocator`, `DescriptorManager`, the refinement of `IndexPool`; `BufferViews` |
| `ContainerProofs` | `RingBuffer` (and `Fifo`), `FreeList`, `FencedResourcePool`, `DescriptorAllocators` |
| `DispatchProofs` | `AssertBuffers` and the `Sections` it extends |
| `FixtureProofs` | `TestFixture` with `GPUDevice`, `StatSystem` and `CompilerArguments`; `ShaderCompiler` with `VirtualDirectories`, `ShaderBindings` |

The modules `MC...` give the constants and the symmetry of a run. `MCTransient` and
`MCFixture` put small components that share nothing side by side: a behaviour chooses one
of them in its first state and stays with it.

`GpuTimeline` is the abstraction the components above the queue are built on: a queue
is the next value, the completed value and the jobs in flight, each with the value of
the first signal after it. `CommandQueues` is the queue in detail, with the FIFO of
commands, waits between queues and the CPU thread's blocking calls, and is checked to
implement it (`ImplementsTimelines`).

### CommandQueues

`next[q]` is `Fence::m_NextValue`, `pending[q]` the commands the GPU has not taken,
`completed[q]` what `GetCompletedValue` returns. One action per public method of
`CommandQueue`; the blocking ones (`WaitOnFenceCPU`, `FlushQueue`, the destructor) start
and return in separate actions, and a wait with a timeout may return early. The GPU's
steps (`GpuRun`, `GpuSignal`, `GpuWait`) follow the D3D12 rule that a queue is worked
off in order and that a wait holds it up.

### FencedResourceFreeList

`resources` is the slot array with version and resource, `deferred` and `freeList` the
two ring buffers. `Manage` does what the code does in order: release what is reached
(`Ticked`), take the oldest free slot or grow. `Release` checks the handle, bumps the
version (mod `VersionCount`, 256 in the code) and queues the slot behind a new fence
point. Clients hold handles as long as they like, up to `MaxStaleness` releases of the
slot. That is an assumption on the client: the version has 8 bits, and a handle kept for a
full round of 256 releases would be accepted again, so that releasing it queues the slot
twice and `Manage` throws.

### CommandEngine

`BeginExecute` takes an allocator and resets the list; the client then creates buffers,
dispatches and queues readbacks in any order, and ends in `Submit`, `Fail` or `Throw`,
each with everything its path in `ExecuteImpl` does, and the release of the scope by the
context's destructor. Signals are taken where the code takes them, in particular for
the allocator before the list is submitted and for a readback while it is recorded.
Buffers are identities; `retired` is the release queue of `m_Resources` (that a released
slot is taken over oldest first, and when, is `FencedResourceFreeList`'s business and
checked there). Views take signals too, after the buffers: they are left out, as a later
signal only moves later points. They have a module of their own.

### ResourceStates

`CommandEngine` with the barriers of its lists and the constant buffers of its scope.
`m_CurrentBarrier` is the access a `GPUResource` has, changed when a barrier is recorded;
`submitted` is the access after the lists that were submitted, `recorded` after the list
under way. A list that fails or throws takes its barriers along and `m_CurrentBarrier`
does not come back: this is harmless (`BarriersContinue`) only because everything a list can touch
belongs to its scope and dies with it, or to a readback, which no list names again. A
`CreateCBV` whose upload throws leaves its buffer with nobody (`leaked`): no handle was
returned, so that it is never released.

### ShaderTestDriver

`CommandEngine` with its one real client: `RunShaderTest` with the V1 interface's two
buffers and two nested readbacks, the failures each step may end in, any number of runs,
and the destruction of the driver.

### FencedResourcePool

The ring buffer of returned resources with the point signalled at their return, the
`ScopedResource`s clients hold, moved, assigned (to themselves too) and destroyed, and the work
they submit. `Request` looks at the oldest resource only, so it may create one while a later
one would do; it never lends one the GPU still uses (`LentAlone`).

### RingBuffer, Fifo

`cells`, `data`, `head`, `tail` and `size` are the members of `RingBuffer<T>`; a cell is a
value, was never written, or was moved from. One cell more than the capacity is allocated,
and a push into a full buffer asks for twice the cells as a *capacity*, so the cells go
1, 3, 7, ... `Fifo` is the queue its users see: the refinement maps the cells from head
to `size` onto the queue's content. `front` of an empty buffer is undefined in the code and
not called. Iteration and `push_back` of a reference into the buffer itself are
left out.

### FreeList

`m_Resources` with the version of each slot, and the handles given out (`given`). `Release`
pushes nothing to the free list of the code: no slot is used twice, which is why a
handle can never name another value, and why the list runs out after 2^24 values
(`SlotLimit`); `Manage` then throws.

### DescriptorAllocators, DescriptorHeap

The ring allocator and the free-list allocator on two parts of one heap, with the arithmetic of
handles and ranges (`GetIndex` takes back what `At` gave). A block that does not fit before the
end of the ring starts over and pays for the gap: a client that gives back the sizes of
its blocks, and not what they cost, loses the gap for good but never gets a descriptor
twice. `refusal` is "undefined" where the code is: `Release` of nothing on a ring without
descriptors divides by zero, and `Allocate(0)` at the end of the ring dereferences an error.

### BindlessFreeListAllocator, IndexPool, DescriptorManager

`BindlessFreeListAllocator` is the free queue (taken as a sequence, which `RingBuffer`
justifies, with its capacity in `room`), the flags and the size. `IndexPool` is what it
promises. `DescriptorManager` puts the two heaps around it in the code's order: both heaps
are replaced, the GPU heap filled from the new CPU heap, then the allocator is resized. A
descriptor is an index; `written` remembers what its owner wrote through it. An index
beyond the size is given to `Release` and `Resolve` too. The code cannot tell a handle of
a former owner from that of the present one: whoever releases an index ends its ownership.
`settled` says that nothing has happened since the heap was copied for a list.

### BufferViews

The views of `GPUResourceManager` under the GPU: the heap doubles when it is full, the old
one waits in a `FencedResourceFreeList`. No view gives its descriptor back, so that
descriptors are handed out in order and `used` counts them. The client is `RunShaderTest`:
it creates UAVs, binds the shader, creates a constant buffer per staging buffer, dispatches
once and flushes. The signals of all releases of a scope are one signal here. The
assumption `MaxCBVs <= InitialSize` is tight: with more constant buffers in one dispatch
than descriptors, or with a client that does not flush, a heap set on a list can be
retired and taken over before the list is submitted. The code has 1000 descriptors, and 64
DWORDs of root parameters.

### TestFixture, GPUDevice, StatSystem, CompilerArguments

Up to three fixtures on one thread, constructed and destroyed in any order. `Constructed` is the
constructor of `GPUDevice` as a chain of steps each of which may throw; without a
candidate adapter the code reads the first element of an empty vector (`undefined`). A
constructor that throws leaves the capturer library loaded. `RunTestImpl` is one attempt:
the job for the compiler with its arguments, the capture around the run, and how it ended;
`NextStage` is what `RunTest` makes of that. The second attempt is made whenever it was asked
for and the first one failed, also when no capture is possible. With mode `On` and strings
on failure both attempts are captured, into the same file. The end of a capture is in a
`noexcept` destructor: a failure there ends the process (`terminates`).

The stats belong to all fixtures: each destructor flushes all of them, so a fixture that
is destroyed while another one lives takes the other's completed stats and ends its handles'
generation. `StatsOfLastFixture` is therefore about fixtures that were alone (`alone`). A handle is
accepted again after `MaxGens` flushes (8 in the code, 2 here), or beyond `MaxIds` stats.

The debug layer of D3D12 is process-wide and stays as the last device asked; it is not modelled
beyond the device that asked.

### VirtualDirectories, ShaderCompiler, ShaderBindings

A path is a sequence of tokens. `FindMapping` takes the first mapping that matches, and
`AddMapping` refuses a path below a mapping there is, so that the first one is the innermost.
`ShaderCompiler` is constructed from any list of mappings; after a mapping that is refused
the rest is dropped, `Init` does not run, and the next compilation dereferences a null pointer
(`null dereferenced`). `SanitizePath` makes "/x" of "../x", and drops a first directory of one
letter; a mapping with a backslash is never met by an include, as the slashes of includes are
turned.

`ShaderBindings` makes the root parameters from what the reflection found, one buffer after
the other. Their total is compared with the limit but a root signature over it is refused
by D3D12, with an exception, and not by `Make`: buffers as root descriptors take 2 words each
that nobody counts. A name that two resources declare is bound to the first (`Emplaced`): of the other one
`ShaderSeesBindings` says nothing. Data smaller than a binding is accepted, the rest of the binding
stays as it was, although docs/STF/Bindings.md:13 asks for all of it.

`ReflectionsAssumption` is what is asked of DXC: sizes are numbers, and the globals lie inside their
buffer, side by side, each name once, as HLSL packs and declares them. `MappingsAssumption` only says that
virtual paths are sequences of tokens.

An include of a virtual path reaches the handler with a dot in front. `SanitizePath` takes it off, turns
backslashes and drops a slash at the front that another follows, so that `IncludesAgree` excepts paths with
a backslash and those that begin with two slashes: includes never ask for them.

### Sections

Each thread runs the body of one `SCENARIO` until the loop's condition is false. `enclosing`
is the test: the tree of its sections in the order of the source, any tree. `at` is where
the control of a thread is: at the macro of a section, at the first evaluation of its loop's
condition in this pass, at the one after its body, or at the end. Static variables get
their numbers on the first encounter in the thread. The compare-and-exchange on a counter
and the write of the row that follows are separate steps, so that other threads run in
between. The bytes for the characters of names are counted in names (`StringRoom`), as if
all were of one size; a name that found none has the row `Unstored`. Tests are straight-line: no `break`, `return` or condition around a section, and
fewer than 32 of them: the scratch data has that many places. The bytes of a name and of
the packed hierarchy are abstracted to the section they name.

### AssertBuffers

The dispatch of `Sections` with asserts, and the CPU after it. A thread asserts wherever its
own code runs: before the scenario and in the bodies (`CanAssert`). A failed assert is two
steps, one per atomic: `AddAssert` takes a row, `AddError` reserves the bytes and writes
values and row. Nobody reads what is written before the dispatch is over, so the writes
belong to the atomic before them. An argument is a size and an alignment, and places count from
the begin of the assert data, whose address is a multiple of 8. `Written` is the items a
failed assert writes, `Reserved` the bytes `AddAssertData` takes for them: they are computed
apart in the shader. `meta[k].place` and `meta[k].args` are history: where the assert stands
in the source and what it was given.

`ProcessTestDataBuffer` and the printing of `TestRunResults` are the CPU's side: `Names` stops at
the first string without characters, `Lines` are the sections printed for an assert, and
`PrintEntry` is one round of the loop over an assert's data. A header read where none was
written is zero, as the buffer is created.

`AssertsAssumption` says what the templates and fundamental types give: the sizes of a
type are multiples of its alignment, and two arguments of alignment 2 are of one size. A
custom byte writer is free to return other numbers: with alignment 2 and sizes 2 and 6, or a
size of 4 with alignment 8, the values overrun the bytes reserved.

Left out: asserts after the scenario, types, reader ids, line numbers and thread ids.

## Runs

| Run | Question | Bounds |
|---|---|---|
| `free_list` | are handles, resources and slots safe in every interleaving | 3 resources, 2 slots, 5 signals, 4 versions: a slot goes through more than a full round |
| `queues` | are points truthful, also with waits on future points | 2 queues, 2 jobs, 2 signals each, 2 pending commands each |
| `queues_live` | can anybody get stuck; do waits and flushes return | 3 queues with 1 signal each: full chains of waits, and attempts at cycles |
| `engine` | are buffers and readbacks safe for any client, and do barriers start where the GPU is | 4 buffers, 2 allocators, 6 signals: a list that fails between two that are submitted |
| `engine_allocator` | are allocators reset idle for any client (no) | 3 buffers, 5 signals |
| `driver` | is the test driver safe, and does every run end | 4 runs, 9 signals and 3.5 buffers each, so no bound is met |
| `descriptors` | do owners and shaders find the right views over resizes; is the allocator below a pool of indices | 3 descriptors, 2 views: heaps from 0 to 3, an index reused, every refusal |
| `views` | do heaps outlive the lists that use them | heap of 2 that doubles twice, 2 UAVs, 2 CBVs per function |
| `dispatch` | is each leaf run once, in order, by every thread; are failed asserts recorded apart, reported in their section and printed as given | 2 threads, every tree of up to 4 sections, tables with rows for 3 and characters for 2 names; 2 asserts with up to 2 sections, 1 with 3 (`MaxWork`); layouts with room for both, for a row without values, and one whose bytes are refused |
| `assert_print` | is nothing printed but an assert's arguments (no) | 1 thread, a scenario without sections, a `float2` |
| `transient` | is the ring buffer a queue; do pool, descriptor allocators and `FreeList` keep their users apart | ring: 1 to 7 cells, two doublings, every head; pool: 3 resources, 3 holders, 5 signals; ring of 5 and list of 3 descriptors, blocks of 0 to 6; 4 slots |
| `fixture` | are the attempts of a test alike and its capture of its result; do objects, stats and handles belong to their fixture; are paths, bindings and root arguments what the user meant | 3 fixtures, 2 tests, 2 generations, 5 stats; or lists of 3 of 7 mappings and the framework's own, 9 reflections against a limit of 6 words, any staging of 7 bindings |

Two signals for each of the two queues reach every behaviour of a wait before, at and after
its point; three were tried once (504,123 states) and showed nothing new.

Deadlock is checked in `queues_live`, where nobody waits on a point that is never
signalled (`NeverStuck` says the same of the GPU alone), and in `fixture`, where the end
of all fixtures is a step of its own. It is off where the bound on
signals, the end of all threads, or a client that waits for a point nobody signals,
legitimately ends the behaviour; the liveness properties cover those parts.

Fairness: the GPU makes progress whenever the D3D12 rules let it (a device that hangs is
removed by the OS), and the CPU thread, once inside a call, goes on with it. Nothing is
assumed of the client: it need not call again. In `Sections` each GPU thread runs to its
end; no thread waits for another, so this is what a dispatch that ends amounts to.

## Findings

* `engine_allocator`: the allocator's fence point is signalled before the list it
  recorded is submitted, so it may be reset in flight. `RunShaderTest` flushes after each
  submission, so the driver is not affected (`RunsResetIdleAllocators`).
* `assert_print`: the loop that prints an assert's values ends at the bytes reserved, which are
  rounded up to 8. For one `float2` 12 of 16 are used; the gap is read as a header of size and
  alignment 0, aligning to 0 gives 0, and printing begins again at the first value, for ever.

Not a run of its own: a readback's point is signalled while its copy is recorded, so the
check in `ExecuteReadback` does not protect it (`ReadsAreCopied` of `CommandEngine` does not hold
for any client). `RunShaderTest` flushes before it reads, and `driver` checks that this is
enough (`RunsReadCopies`).

## Proofs

Every theorem is about all values of the constants, under the assumptions on them that the
modules name. `CommonFacts` has what the proofs share: induction over numbers, stated for sets of them
(`EveryNumberTo`, `LeastNumber`), since a theorem cannot take a predicate; the folds of the community modules,
which are chosen functions on sets of indices, from one index to the next (`FoldExists`, `FoldSteps`), and
functions defined by recursion over numbers (`RunExists`); sequences after `Append`, `Tail`, removal and
insertion; and one timeline, whose `QueueOrdered` every operation of `GpuTimeline` keeps.

### CommandQueuesProofs

`ReachedMeansDone`, `WaitTellsTruth`, `FlushIsBarrier` and `NeverStuck`, for any number of
queues, jobs, signals and pending commands, and that every queue is a timeline
(`QueuesImplementTimelines`).

The inductive invariant `QueuesInv` is about the pending commands of a queue: their signals
carry exactly the values that were handed out and are not completed, in order
(`SignalsIn`); what is promised to be done at a value is not pending before its signal;
and what the thread is blocked in is behind everything (`Barrier`: the last pending command is the
signal it waits for).

`NeverStuck` needs an order across queues. Commands get ranks (`Ranked`) that rise along each
queue and from a wait to the signal that ends it; a new command gets the next rank, which is
possible because a wait names a point that was already signalled. The head of
least rank can run. With `FutureWaits`, where a wait may name a point to come, there need be no
such order, and `NeverStuck` promises nothing.

For the refinement, the work of a queue on `GpuTimeline` is what its pending commands run, each job
with the value of the first signal after it (`Mark`). The count of signals after a
command is what changes with each step; it is done with the cardinality of finite sets.

### FencedResourceFreeListProofs

The type invariant, the inductive invariant `IInv`, and from it `OnePlacePerSlot`,
`OnlyOwnersHandleValid`, `InFlightResourcesAlive` and the action property
`GrowsOnlyWhenBusy`. `IInv` says where each slot is (owned, deferred or free, exactly one
of them), that queued handles carry the version in force, that deferred points are
ordered and were handed out, and that a job in flight that uses a resource is either covered by
a slot still owned or by a deferred point at or after its mark: without the last part the
safety of reuse is not inductive, since the free list itself does not know which jobs
use a resource. The assumption is `MaxStaleness < VersionCount`: no client keeps a
handle for a whole round.

`ImplementsTheLedger` is the refinement of `ResourceLedger`. The ledger hands out handles of a
finite set, so that it has to be shown that the bounds on slots and signals bound the
handles (`Bounded`): every generation of a slot but the first has cost a signal.

### EngineProofs

`BarriersContinue` for any number of buffers, allocators and signals. The property is not
inductive: a list that is dropped leaves `m_CurrentBarrier` and `submitted` apart for what it
touched. `StatesInv` adds that every owned buffer is in the scope, in a readback or leaked
(`OwnedAccounted`), that the scope is empty between calls, and that buffers which nobody
owns agree; so whatever a dropped list touched is gone, or was never to be named again, when
the next list begins. Its parts rest on facts about the elements of a sequence after `Append`,
insertion and removal.

`SubmittedBuffersAlive` and `ReadbacksKeepBuffers`: the engine's releases are safe. Here
`LifeInv` is inductive on top of `StatesInv`: every buffer of unfinished work is owned or
waits for a point not before the work's mark (`WorkCovered`), what a list under way uses is owned
(`ListCovered`: the scope is released only when the list has been submitted or given up),
and so is what scope and readbacks hold. The steps that matter are `Submit`, whose releases are
signalled after the work's mark (`ReleaseLife`), and `Acquire`, which destroys only what the GPU
is past, so past all work that uses it (`AcquireCovered`).

The driver: `BuffersReturned`, `RunsReadCopies` and `RunsResetIdleAllocators`, for any number of
runs. `DriverInv` says of each place in `RunShaderTest` what has been done there: how many buffers
the scope has, which readbacks are queued, and that a run which failed leaves two
readbacks (`RunsCounted`). The GPU has work only from the submission to the return of the flush, and
then only before the point the flush waits for (`WorkFollows`): that is why the allocator a
run takes is idle. A copy of this run's readbacks is in the list, under way, or done
(`CopiesFollow`): with no work left after the flush it is done, which is `RunsReadCopies`.
`EngineTyped` (types, and ordered points) is what this rests on and holds of the engine with any
client (`EngineTypeCorrect`).

### DescriptorProofs

The allocator: for every number of indices the invariant that queue and flags agree, that
the ring buffer under the queue never grows by itself (`AlwaysRoom`: a queue of distinct
indices below n has at most n elements, and fewer if one is missing), and the refinement of
`IndexPool` (`IsPool`).

The manager: `OwnersFindTheirViews` and `ShadersSeeOwnersViews`. The CPU heap has every view
written through an index, up to the size, and the GPU heap is a copy of it while nothing was
written since (`HeapsHoldViews`). Resizing is in two steps in the code, first the heaps, then the
allocator. The manager refines the pool (`ManagerIsPool`) but not the allocator's own
specification: a resize to no more than the size it refuses itself, where the allocator would
give its own answer, so that the step is matched with the pool's refusal.

The views: `HeapsOutliveWork` and `WorkSeesItsViews`, for any heap sizes and constant buffers. `ViewsInv`
says that the GPU works on the one list submitted while the client flushes
(`OneListAtATime`), that the heap of a list is alive, and, while constant buffers are
made, either is still the current one or was replaced by one with room for all that may follow
(`HeapKept`), and that the views a dispatch uses have been copied to it (`ViewsCopied`). The second
part of `HeapKept` is where `MaxCBVs <= InitialSize` is needed: one dispatch resizes once at most.

### ContainerProofs

The ring buffer: for every number of cells and any values the live cells are exactly those from
head to tail (`IInv`), and from it that the buffer implements `Fifo` (`IsQueue`). The
arithmetic behind it is that an index wraps at most once (`WrapsOnce`). The mapping of a
resize is the hard step: the cells are relocated, the content stays.

The free list: for any number of slots and versions a handle of a `FreeList` names its value
until it is released and nothing afterwards (`HandlesNameTheirValue`). The invariant `SlotsInv` says
that slot k was made by the k-th call and has version 0 or, once released, 1; one bit of
version would do.

The pool, on top of the ring buffer with its cells and its growth: `LentAlone`, no resource is
lent to two holders or while the GPU works with it. `PoolInv` adds to the ring's `IInv` that a
resource is in one place, and that what the GPU uses is held or queued behind its work
(`UsesCovered`). `PoolAssumption` says that no resource is the empty handle, and what an element of
the ring is.

The allocators: `DescriptorsApart` for rings and lists of any size (`AlwaysApart`). `RingInv` lays the
blocks in use one behind the other around the ring, each at the end of the one before with the gap it paid
for, and bounds their costs by what is used; the sum of the costs is a fold over the blocks, taken step by
step. `ListInv` says that a descriptor of the list is in its queue or in use, and once.
`AllocatorsAssumption` says that the ring lies in the heap, that three times the heap's size is far from
wrapping 32 bits, and that handles are more than one apart.

### DispatchProofs

Failed asserts never write over each other (`RecordsApart`), for any threads,
tests, layouts and arguments. `RecordFits` is the arithmetic: for each alignment the last byte
written lies below `Reserved`, which is a multiple of 8. The invariant `Packed` adds what makes
it inductive: everything written lies below the counter, also when later records are
refused. It rests on `AssertsAssumption`.

What is printed begins with the arguments (`PrintsArguments`). `PrintInv` says that every row that
was counted is recorded or about to be, with the bytes of its arguments in the data, and that
the entries printed so far are those of the arguments in order. That a header is found where
it is read, and no other one, follows from `RecordsApart`: headers have bytes, so two at one place
are the same. `AssertsAssumption` says besides that `None` is not a failed assert.

Every thread runs every leaf of the test once and in order (`LeavesInOrder`, proved as `LeavesAlwaysInOrder`),
for any nesting of sections. `SectionsInv` has two parts for each thread. `Numbers` is about the data: no two
sections have the same number, the states are noted under the numbers and only there, and of a section that
was entered the parent is noted. `InPass` speaks of the states of sections alone, by their place in the test:

- the sections that run are those around the current one (`Walk`);
- all sections in a completed one are completed, and so are those before one that was entered, in the section
  around both (`Calm`);
- the leaves that were entered are those visited, in order, and none before one was left out (`Visits`).

What makes it work is that a section is left only when all before it in the section around it are completed
or will be met again: everything before the current place is under way or completed
(`CompletedBetween`, `AllBefore`, `AllCompleted`, each by the least counterexample), so that a section that
needs no other pass has no leaf that was not visited. The steps are first proved on states and places
(`PassBegins`, `SectionEntered`, `SectionLeft`, ...), then those of the code are shown to make these
changes, under the numbers (`EnteringSets`, `LeavingSets`, ...). `SectionsAssumption` says that a state is kept for
as many sections as a test may have, and that `None` is neither a number nor a row about to be written. Numbers and
states are each thread's own, so the theorem holds however the threads interleave.

The report names the sections around every failed assert (`ReportsNamePlaces`, proved as `ReportsAlwaysNamePlaces`),
for any test and tables of any size, however the threads interleave. The rows come from whichever thread counted
them first, so this needs that all threads number the sections alike, though they never speak to each other:

- a thread meets the sections in an order that depends on the test alone: by the leaf it is on the way to when it
  comes by (`Turn`), then by the source (`Prior`). Its numbers are those of this order without a gap (`Filled`, kept by
  each step because of `Told` and `Owes`, which say how far it has come). Two threads that gave the same number
  to two sections would have given an equal number to two others before: there is no least such number
  (`ThreadsAgree`);
- what the counters have counted covers what any thread has met (`ThreadCounted`), and every row that was counted
  is about to be written or is there, right for the thread that wrote it (`StoredInv`), a name that found no
  room excepted. `TablesStep` is that a step of any thread keeps both, and no number that was given;
- an assert is recorded with the number its thread has for the section control is in, or none before the
  scenario (`PlaceNumbered`, `RowsPlaced`);
- when all threads are at their end nothing is about to be written (`OverIsOver`), so that every row has its
  parent before it, each line is its parent's and one name more, and by induction along the rows lines and
  sections correspond (`TracesAlike`, `LinesNamePlaces`). That the recursions that make them have values
  is `TraceExists`.

### FixtureProofs

The fixture, for any number of fixtures, tests and failures:

- `ObjectsInsideDevice` from `DevicesInv`: who is alive holds its device, a fixture that is
  not ready has no objects, and the capturer library is loaded at least as often as some
  device holds it. The count is a cardinality; it is "at least" because a constructor that
  throws leaks its load.
- `HandlesFindTheirStat` from `StatsInv`: the current generation is the one of a handle turned on by
  the flushes since it was made (`Sound`), modulo `MaxGens`, and until a flush the stats only grow and
  keep their names (`Continues`). So fewer than `MaxGens` flushes later the generations differ, or
  there was no flush and the identifier, below `MaxIds`, still names the stat.
- `CaptureShowsResult` from `TestsInv`: a test in progress has one attempt or two (`TriedOnce`,
  `TriedTwice`), the second only after a failure, each captured as the mode asked, and the
  file is the last one's that was captured and ran. That the device's capture flag is the
  same for both attempts is where `TestAlone` is needed: while a test runs no fixture comes or goes.
- `FixtureTypeOK` from all three.
- `StatsOfLastFixture` from `AloneInv`: while a fixture is alone nothing of others is among the stats, and
  those it began are there in that order. That `Completed` keeps exactly these is an induction along its
  fold.
- `AttemptsAlike` from `AlikeInv`: an attempt is compiled from the job and bindings of its test. The flags
  asked for diagnosis are filtered out of arguments that are put together from a dozen optional parts; what
  is left is compared part by part (`Fits`), the filter being a recursion along the arguments.

The compiler and the shaders. For any lists of mappings: no mapping lies below an earlier one (`Apart`, by induction along the loop of the
constructor), so that the first mapping a path goes on after is the longest (`InnermostWins`). The
handler's copy of the mappings is the compiler's own whenever the compiler works (`CompilerInv`), and the
cleaning of an include gives back the virtual path (`SanitizedInclude`), from which `AlwaysAgree`.

For any reflections and bindings, `AlwaysSees`. `MadeUpTo` is what is true of the binding map after each
resource: a buffer of zeros for each, and each name at its place in the first resource that declares
it. Places of two names are apart (`PlacesFit`), so that staging for one changes what lies at no other
(`AgreeAfterStage`); `ShaderInv` keeps this until the dispatch. When no buffer became a root descriptor, the running
total is the cost of the root signature, and within the limit (`ConstantsFit`).

### Only model-checked

The types are part of the inductive invariants and proved with them. The invariants that were new
to the proofs of the queues, the driver, the views, the printing and the fixture were checked with
TLC on small instances before they were proved.

Every invariant a passing run checks is proved. Left to TLC is all liveness, which is outside of what the
prover can do.

## Not modelled

DXC, D3D12 and the file system are external: they appear as the answers they may give. Byte
readers and the printing of values are formatting. The compile-time utilities
(`EnumReflection.h`, `TypeList.h`, `HLSLTypes.h`, `Concepts.h`, ...) and the TTL are evaluated by
compilers and keep no state. The iterators of `RingBuffer` and the byte writer of
`SectionHierarchy` are left out, and so are tests with more than one SCENARIO per entry function:
`Init` resets neither the states nor the numbers of sections, and nothing documented promises
a second one. A view never gives its descriptor back (GPUResourceManager.cpp:292), which
`BufferViews` models as it is; no bound is documented that could be checked.

## Plan

1. Sections behind conditions, and several SCENARIOs in one entry function.
2. Jobs on the three queues of `queues_live`; the fixture with the real driver below it.
3. Proofs: of `Sections`, what needs no induction over data (that the threads agree on the numbers
   of sections, and enter no leaf twice).
