---------------------------- MODULE QueueTimelines ----------------------------
(***************************************************************************)
(* The promise of the CommandQueues as a specification: the timeline of each *)
(* queue changes by the operations of GpuTimeline and in no other way.       *)
(* CommandQueues implements it; the components that take a single queue for  *)
(* granted are specified over GpuTimeline directly.                          *)
(***************************************************************************)
EXTENDS GpuTimeline

CONSTANTS TimelineQueue, TimelineJob

VARIABLE timelines

TimelinesInit == timelines = [q \in TimelineQueue |-> NewQueue]

\* One queue's timeline t becomes u in a step.
TimelineStep(t, u) ==
  \/ u = Signal(t)
  \/ \E job \in TimelineJob : u = Execute(t, job)
  \/ \E w \in t.work : CanFinish(t, w) /\ u = Finish(t, w)
  \/ CanAdvance(t) /\ u = Advance(t)

TimelinesNext ==
  \E q \in TimelineQueue :
    /\ TimelineStep(timelines[q], timelines'[q])
    /\ timelines' = [timelines EXCEPT ![q] = timelines'[q]]

TimelinesSpec == TimelinesInit /\ [][TimelinesNext]_timelines

=============================================================================
