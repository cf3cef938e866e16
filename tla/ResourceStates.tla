---------------------------- MODULE ResourceStates ----------------------------
(***************************************************************************)
(* The barriers CommandList records for the buffers of CommandEngine, and the *)
(* constant buffers of a scope. A GPUResource remembers the access of the     *)
(* last barrier recorded for it, which the next one names as its first half;  *)
(* the GPU sees only the barriers of lists that are submitted.               *)
(***************************************************************************)
EXTENDS CommandEngine

VARIABLES
  m_CurrentBarrier, \* the access of each buffer, as its GPUResource has it
  submitted,  \* the access of each buffer when the submitted lists have run
  recorded,   \* and when the list under way has run after them
  constants,  \* how many of scoped are constant buffers, which are released first
  leaked      \* constant buffers no scope has: CreateCBV threw after acquiring them

stateVars == <<m_CurrentBarrier, submitted, recorded, constants, leaked>>
allVars == <<vars, stateVars>>

Access == {"NO_ACCESS", "UNORDERED_ACCESS", "CONSTANT_BUFFER", "COPY_SOURCE", "COPY_DEST"}

-----------------------------------------------------------------------------
\* CreateCommittedResource gives every buffer the same first access.
Created == [b \in Buffer |-> "NO_ACCESS"]

StatesInit ==
  /\ Init
  /\ m_CurrentBarrier = Created /\ submitted = Created /\ recorded = Created
  /\ constants = 0 /\ leaked = {}

\* Buffers by the handles clients may have: those of readbacks are the manager's own,
\* and what leaked was never returned to anybody.
Handles == owned \ ({readbacks[k].buffer : k \in DOMAIN readbacks} \cup leaked)
ConstantBuffers == {scoped[k] : k \in 1..constants}
Buffers == Handles \ ConstantBuffers

\* The access of a buffer that is released no longer matters: nothing can name it.
Kept(accesses) == [b \in Buffer |-> IF b \in owned' THEN accesses[b] ELSE "NO_ACCESS"]

\* A barrier in the list, from m_CurrentBarrier of a buffer to access, for each of the
\* buffers of change.
Barrier(change) ==
  /\ m_CurrentBarrier' = [b \in Buffer |-> IF b \in DOMAIN change THEN change[b] ELSE m_CurrentBarrier[b]]
  /\ recorded' = [b \in Buffer |-> IF b \in DOMAIN change THEN change[b] ELSE recorded[b]]
  /\ UNCHANGED <<submitted, leaked>>

\* A list that uses one more buffer.
Uses(b) ==
  /\ list' = [list EXCEPT !.uses = @ \cup {b}]
  /\ UNCHANGED <<queue, scoped, pool, owned, retired, readbacks, stage, filled>>

\* SetUAV, by itself or in StageBindlessResource.
SetUAV(b) ==
  /\ stage = Recording /\ b \in Buffers
  /\ Uses(b)
  /\ Barrier([x \in {b} |-> "UNORDERED_ACCESS"])
  /\ UNCHANGED constants

\* CreateCBV: acquire a constant buffer, with its view, upload the data, keep both for
\* the scope. Mapping the buffer for the upload may throw; the client's function may
\* catch that or not.
CreateCBV(b) ==
  /\ stage = Recording
  /\ Acquire(b)
  /\ scoped' = SubSeq(scoped, 1, constants) \o <<b>> \o SubSeq(scoped, constants + 1, Len(scoped))
  /\ constants' = constants + 1
  /\ UNCHANGED <<queue, list, pool, readbacks, stage, m_CurrentBarrier, submitted, recorded, leaked>>

CreateCBVThrows(b) ==
  /\ stage = Recording
  /\ Acquire(b)
  /\ leaked' = leaked \cup {b}
  /\ UNCHANGED <<queue, list, scoped, pool, readbacks, stage, m_CurrentBarrier, submitted, recorded, constants>>

\* SetRootDescriptor, by itself or for the staging buffers of a dispatch.
SetRootDescriptor(b) ==
  /\ stage = Recording /\ b \in ConstantBuffers
  /\ Uses(b)
  /\ Barrier([x \in {b} |-> "CONSTANT_BUFFER"])
  /\ UNCHANGED constants

\* QueueReadback, with the barriers of CopyBufferResource.
CopyBufferResource(source, b) ==
  /\ source \in Buffers
  /\ QueueReadback(source, b)
  /\ Barrier([x \in {source, b} |-> IF x = source THEN "COPY_SOURCE" ELSE "COPY_DEST"])
  /\ UNCHANGED constants

\* The ways an Execute ends. A list that is not submitted takes its barriers along.
ScopeEnds(last) ==
  /\ m_CurrentBarrier' = Kept(m_CurrentBarrier)
  /\ submitted' = Kept(last) /\ recorded' = Kept(last)
  /\ constants' = 0
  /\ UNCHANGED leaked

StatesSubmit == Submit /\ ScopeEnds(recorded)
StatesDrop == (Fail \/ Throw) /\ ScopeEnds(submitted)

StatesReadback(k) ==
  /\ ExecuteReadback(k)
  /\ m_CurrentBarrier' = Kept(m_CurrentBarrier)
  /\ submitted' = Kept(submitted) /\ recorded' = Kept(recorded)
  /\ UNCHANGED <<constants, leaked>>

StatesNext ==
  \/ \E a \in Allocator : BeginExecute(a) /\ UNCHANGED stateVars
  \/ \E b \in Buffer :
       \/ CreateBuffer(b) /\ UNCHANGED stateVars
       \/ SetUAV(b) \/ CreateCBV(b) \/ CreateCBVThrows(b) \/ SetRootDescriptor(b)
       \/ \E source \in Buffer : CopyBufferResource(source, b)
  \/ Dispatch /\ UNCHANGED stateVars
  \/ StatesSubmit \/ StatesDrop
  \/ \E k \in DOMAIN readbacks : StatesReadback(k)
  \/ (StartFlush \/ FlushReturns \/ GpuFinish \/ GpuAdvance) /\ UNCHANGED stateVars

StatesSpec == StatesInit /\ [][StatesNext]_allVars

-----------------------------------------------------------------------------
\* The shape of the state.
StatesTypeOK ==
  /\ TypeOK
  /\ {m_CurrentBarrier, submitted, recorded} \subseteq [Buffer -> Access]
  /\ constants \in 0..Len(scoped)
  /\ leaked \subseteq owned

\* The next barrier of a buffer starts from the access the GPU will find it in,
\* although m_CurrentBarrier is changed when a barrier is recorded and lists that fail
\* or throw take their barriers along: whatever a dropped list touched can no longer be
\* named. CommandList.cpp:39, :95 and :136.
BarriersContinue ==
  stage = Recording => \A b \in Handles : m_CurrentBarrier[b] = recorded[b]
=============================================================================
