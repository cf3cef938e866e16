------------------------------ MODULE StatSystem ------------------------------
(***************************************************************************)
(* StatSystem and ScopedCPUDurationStat: durations are begun and ended by    *)
(* handle, and flushed. A flush forgets the stats that did not end; the      *)
(* generation in a handle tells EndStat that its stat was flushed.           *)
(***************************************************************************)
EXTENDS Naturals, Sequences, SequencesExt

CONSTANTS
  MaxIds,   \* identifiers a handle can hold: 2^28 in the code
  MaxGens   \* generations a handle can hold: 8 in the code

ASSUME StatAssumption == MaxIds \in Nat \ {0} /\ MaxGens \in Nat \ {0}

VARIABLES
  m_RawTimedStats,  \* [name, ended]; a name belongs to one BeginStat
  m_CurrentGen,
  flushes           \* history: flushes so far

statVars == <<m_RawTimedStats, m_CurrentGen, flushes>>

-----------------------------------------------------------------------------
\* StatSystem::Handle, with the flush it was made under (history).
InvalidHandle == [id |-> 0, gen |-> 0, valid |-> FALSE, name |-> <<>>, born |-> 0]

StatInit == m_RawTimedStats = <<>> /\ m_CurrentGen = 0 /\ flushes = 0

\* The size may equal MaxIds: such an identifier does not fit in its bits.
BeginHandle(stats, name) ==
  IF Len(stats) > MaxIds
  THEN InvalidHandle
  ELSE [id |-> Len(stats) % MaxIds, gen |-> m_CurrentGen, valid |-> TRUE,
        name |-> name, born |-> flushes]

\* The stats after BeginStat(name).
BeginStat(stats, name) ==
  IF Len(stats) > MaxIds
  THEN stats
  ELSE Append(stats, [name |-> name, ended |-> FALSE])

\* The condition of EndStat. (Variant: the generation is not compared.)
AcceptedUnchecked(h, stats) == h.valid /\ h.id < Len(stats)

Accepted(h, stats) ==
  /\ h.valid
  /\ h.gen = m_CurrentGen
  /\ h.id < Len(stats)

EndStat(h, stats) ==
  IF Accepted(h, stats) THEN [stats EXCEPT ![h.id + 1].ended = TRUE] ELSE stats

\* What FlushTimedStats returns: the ended stats, in the order they began.
Completed(stats) ==
  FoldLeft(LAMBDA names, s : IF s.ended THEN Append(names, s.name) ELSE names, <<>>, stats)

\* The rest of FlushTimedStats. (Variant: the stats are kept.)
FlushTimedStatsKept ==
  /\ UNCHANGED m_RawTimedStats
  /\ m_CurrentGen' = (m_CurrentGen + 1) % MaxGens
  /\ flushes' = flushes + 1

FlushTimedStats ==
  /\ m_RawTimedStats' = <<>>
  /\ m_CurrentGen' = (m_CurrentGen + 1) % MaxGens
  /\ flushes' = flushes + 1

\* A handle EndStat would accept for a stat that is not its own. Identifiers are
\* cut beyond MaxIds stats and generations repeat after MaxGens flushes.
EndsAnother(h) ==
  /\ Accepted(h, m_RawTimedStats)
  /\ m_RawTimedStats[h.id + 1].name # h.name
=============================================================================
