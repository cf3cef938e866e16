----------------------------- MODULE FixtureProofs -----------------------------
(***************************************************************************)
(* Proofs about the fixtures that run tests, for any machine and any number of    *)
(* fixtures: their devices, stats, attempts and captures; and about the           *)
(* compiler of a fixture and the shaders it makes, for any mappings, reflections  *)
(* and bindings: the innermost mapping of a path wins, sources and includes       *)
(* agree, and a shader reads what was staged.                                     *)
(***************************************************************************)
EXTENDS TestFixture, ShaderBindings, CommonFacts, FiniteSetTheorems

-----------------------------------------------------------------------------
(* The devices of fixtures. *)

Handles == { f \in Fixtures : m_PixHandle[f] }

FixturesTyped ==
  /\ fixture \in [Fixtures -> {"none", "based", "ready", "undriven"}]
  /\ holders \in [Fixtures -> SUBSET {"fixture", "driver"}]
  /\ children \in [Fixtures -> SUBSET {"engine"}]
  /\ m_PixHandle \in [Fixtures -> BOOLEAN]
  /\ DOMAIN device = Fixtures
  /\ capturer \in Nat

\* A device is valid as long as somebody holds it, and its objects and its handle to the
\* capturer library go before it; the library is loaded at least as often as it is held.
DevicesHeld ==
  /\ \A f \in Fixtures :
       /\ fixture[f] = "none" => holders[f] = {} /\ ~m_PixHandle[f]
       /\ fixture[f] # "none" => IsValid(f) /\ "fixture" \in holders[f]
       /\ fixture[f] \in {"based", "undriven"} => holders[f] = {"fixture"}
       /\ fixture[f] # "ready" => children[f] = {}
  /\ IsFiniteSet(Handles) /\ Cardinality(Handles) <= capturer

DevicesInv == FixturesTyped /\ DevicesHeld

LEMMA DevicesStart == FixtureInit => DevicesInv
<1> SUFFICES ASSUME FixtureInit PROVE DevicesInv
  OBVIOUS
<1>1. Handles = {} /\ capturer = 0
  BY DEF Handles, FixtureInit, DeviceInit
<1>2. FixturesTyped
  BY DEF FixturesTyped, FixtureInit, DeviceInit
<1> QED BY <1>1, <1>2, FS_EmptySet DEF DevicesInv, DevicesHeld, FixtureInit, DeviceInit

LEMMA BaseBuilt ==
  ASSUME DevicesInv, NEW f \in Fixtures, ConstructBase(f)
  PROVE  DevicesInv'
<1>1. PICK params \in Params : CreateDevice(f, params)
  BY DEF ConstructBase
<1>2. PICK pix \in BOOLEAN :
        \E d : /\ device' = [device EXCEPT ![f] = d]
              /\ m_PixHandle' = [m_PixHandle EXCEPT ![f] = pix /\ d.is = "ready"]
              /\ capturer' = capturer + (IF pix THEN 1 ELSE 0)
  BY <1>1 DEF CreateDevice, ConditionalLoadPIX
<1>3. PICK d : /\ device' = [device EXCEPT ![f] = d]
               /\ m_PixHandle' = [m_PixHandle EXCEPT ![f] = pix /\ d.is = "ready"]
               /\ capturer' = capturer + (IF pix THEN 1 ELSE 0)
  BY <1>2
<1>4. /\ device'[f] = d /\ m_PixHandle'[f] = (pix /\ d.is = "ready")
      /\ \A g \in Fixtures \ {f} : device'[g] = device[g] /\ m_PixHandle'[g] = m_PixHandle[g]
      /\ m_PixHandle' \in [Fixtures -> BOOLEAN] /\ DOMAIN device' = Fixtures
  BY <1>3 DEF DevicesInv, FixturesTyped
<1>5. children' = children /\ fixture[f] = "none"
  BY <1>1 DEF ConstructBase, CreateDevice
<1>6. /\ \A g \in Fixtures \ {f} : fixture'[g] = fixture[g] /\ holders'[g] = holders[g]
      /\ IF d.is = "ready" THEN fixture'[f] = "based" /\ holders'[f] = {"fixture"}
         ELSE fixture'[f] = "none" /\ holders'[f] = holders[f]
      /\ fixture' \in [Fixtures -> {"none", "based", "ready", "undriven"}]
      /\ holders' \in [Fixtures -> SUBSET {"fixture", "driver"}]
  BY <1>4, <1>5 DEF ConstructBase, DevicesInv, FixturesTyped
<1>7. capturer \in Nat /\ capturer' = (IF pix THEN capturer + 1 ELSE capturer) /\ capturer' \in Nat
  BY <1>3 DEF DevicesInv, FixturesTyped
<1>8. IsFiniteSet(Handles') /\ Cardinality(Handles') <= capturer'
  <2>1. IsFiniteSet(Handles) /\ Cardinality(Handles) <= capturer /\ f \notin Handles
    BY <1>5 DEF DevicesInv, DevicesHeld, Handles
  <2>2. Cardinality(Handles) \in Nat
    BY <2>1, FS_CardinalityType
  <2>3. CASE pix /\ d.is = "ready"
    <3>1. Handles' = Handles \cup {f}
      BY <1>4, <2>3 DEF Handles
    <3>2. IsFiniteSet(Handles') /\ Cardinality(Handles') = Cardinality(Handles) + 1
      BY <2>1, <3>1, FS_AddElement
    <3> QED BY <1>7, <2>1, <2>2, <2>3, <3>2
  <2>4. CASE ~(pix /\ d.is = "ready")
    <3>1. Handles' = Handles
      BY <1>4, <2>1, <2>4 DEF Handles
    <3> QED BY <1>7, <2>1, <2>2, <3>1
  <2> QED BY <2>3, <2>4
<1>9. ASSUME NEW g \in Fixtures
      PROVE  /\ fixture'[g] = "none" => holders'[g] = {} /\ ~m_PixHandle'[g]
             /\ fixture'[g] # "none" => device'[g].is = "ready" /\ "fixture" \in holders'[g]
             /\ fixture'[g] \in {"based", "undriven"} => holders'[g] = {"fixture"}
             /\ fixture'[g] # "ready" => children'[g] = {}
  <2>1. CASE g = f
    BY <1>4, <1>5, <1>6, <2>1 DEF DevicesInv, DevicesHeld
  <2>2. CASE g # f
    BY <1>4, <1>5, <1>6, <2>2 DEF DevicesInv, DevicesHeld, IsValid
  <2> QED BY <2>1, <2>2
<1> QED BY <1>4, <1>5, <1>6, <1>7, <1>8, <1>9 DEF DevicesInv, FixturesTyped, DevicesHeld, IsValid

LEMMA BaseDestroyed ==
  ASSUME DevicesInv, NEW f \in Fixtures, DestroyBase(f)
  PROVE  DevicesInv'
<1>1. fixture[f] = "undriven" /\ holders[f] = {"fixture"} /\ children[f] = {}
  BY DEF DestroyBase, DevicesInv, DevicesHeld
<1>2. /\ fixture' = [fixture EXCEPT ![f] = "none"]
      /\ holders' = [holders EXCEPT ![f] = @ \ {"fixture"}] /\ children' = children
  BY DEF DestroyBase
<1>3. holders'[f] = {}
  BY <1>1, <1>2 DEF DevicesInv, FixturesTyped
<1>4. /\ device' = [device EXCEPT ![f] = NoDevice]
      /\ m_PixHandle' = [m_PixHandle EXCEPT ![f] = FALSE]
      /\ capturer' = capturer - (IF m_PixHandle[f] THEN 1 ELSE 0)
  BY <1>3 DEF DestroyBase, DestroyDevice
<1>5. IsFiniteSet(Handles') /\ Cardinality(Handles') <= capturer' /\ capturer' \in Nat
  <2>1. /\ IsFiniteSet(Handles) /\ Cardinality(Handles) <= capturer /\ capturer \in Nat
        /\ m_PixHandle \in [Fixtures -> BOOLEAN]
    BY DEF DevicesInv, DevicesHeld, FixturesTyped
  <2>2. Cardinality(Handles) \in Nat
    BY <2>1, FS_CardinalityType
  <2>3. CASE m_PixHandle[f]
    <3>1. Handles' = Handles \ {f} /\ f \in Handles
      BY <1>4, <2>1, <2>3 DEF Handles
    <3>2. IsFiniteSet(Handles') /\ Cardinality(Handles') = Cardinality(Handles) - 1
      BY <2>1, <3>1, FS_RemoveElement
    <3>3. Cardinality(Handles') \in Nat
      BY <3>2, FS_CardinalityType
    <3>4. capturer' = capturer - 1
      BY <1>4, <2>3
    <3> QED BY <2>1, <2>2, <3>2, <3>3, <3>4
  <2>4. CASE ~m_PixHandle[f]
    <3>1. Handles' = Handles
      BY <1>4, <2>1, <2>4 DEF Handles
    <3>2. capturer' = capturer
      BY <1>4, <2>1, <2>4
    <3> QED BY <2>1, <3>1, <3>2
  <2> QED BY <2>3, <2>4
<1>6. ASSUME NEW g \in Fixtures
      PROVE  /\ fixture'[g] = "none" => holders'[g] = {} /\ ~m_PixHandle'[g]
             /\ fixture'[g] # "none" => device'[g].is = "ready" /\ "fixture" \in holders'[g]
             /\ fixture'[g] \in {"based", "undriven"} => holders'[g] = {"fixture"}
             /\ fixture'[g] # "ready" => children'[g] = {}
  <2>1. CASE g = f
    BY <1>1, <1>2, <1>3, <1>4, <2>1 DEF DevicesInv, FixturesTyped
  <2>2. CASE g # f
    BY <1>2, <1>4, <2>2 DEF DevicesInv, FixturesTyped, DevicesHeld, IsValid
  <2> QED BY <2>1, <2>2
<1>7. FixturesTyped'
  BY <1>2, <1>4, <1>5 DEF DevicesInv, FixturesTyped
<1> QED BY <1>5, <1>6, <1>7 DEF DevicesInv, DevicesHeld, IsValid

LEMMA DevicesKept == DevicesInv /\ [FixtureNext]_testVars => DevicesInv'
<1> SUFFICES ASSUME DevicesInv, [FixtureNext]_testVars PROVE DevicesInv'
  OBVIOUS
<1>1. CASE UNCHANGED <<deviceVars, fixture, holders>>
  BY <1>1 DEF DevicesInv, FixturesTyped, DevicesHeld, Handles, IsValid, deviceVars
<1>2. ASSUME NEW f \in Fixtures, ConstructDriver(f) PROVE DevicesInv'
  <2>1. /\ UNCHANGED <<device, m_PixHandle, capturer>> /\ fixture[f] = "based"
        /\ fixture' = [fixture EXCEPT ![f] = "ready"]
        /\ holders' = [holders EXCEPT ![f] = @ \cup {"driver"}]
        /\ children' = [children EXCEPT ![f] = @ \cup {"engine"}]
    BY <1>2 DEF ConstructDriver, CreateObject
  <2>2. Handles' = Handles
    BY <2>1 DEF Handles
  <2> QED BY <2>1, <2>2 DEF DevicesInv, FixturesTyped, DevicesHeld, IsValid
<1>3. ASSUME NEW f \in Fixtures, ConstructDriverThrows(f) PROVE DevicesInv'
  <2>1. UNCHANGED <<device, m_PixHandle, capturer, children, holders>> /\ fixture[f] = "based"
        /\ fixture' = [fixture EXCEPT ![f] = "undriven"]
    BY <1>3 DEF ConstructDriverThrows, deviceVars
  <2>2. Handles' = Handles
    BY <2>1 DEF Handles
  <2> QED BY <2>1, <2>2 DEF DevicesInv, FixturesTyped, DevicesHeld, IsValid
<1>4. ASSUME NEW f \in Fixtures, DestroyDerived(f) PROVE DevicesInv'
  <2>1. /\ UNCHANGED <<device, m_PixHandle, capturer>> /\ fixture[f] = "ready"
        /\ fixture' = [fixture EXCEPT ![f] = "undriven"]
        /\ holders' = [holders EXCEPT ![f] = @ \ {"driver"}]
        /\ children' = [children EXCEPT ![f] = {}]
    BY <1>4 DEF DestroyDerived
  <2>2. Handles' = Handles
    BY <2>1 DEF Handles
  <2> QED BY <2>1, <2>2 DEF DevicesInv, FixturesTyped, DevicesHeld, IsValid
<1>5. ASSUME NEW f \in Fixtures, RunTest(f) \/ RunCompileTimeTest(f) PROVE DevicesInv'
  BY <1>1, <1>5 DEF RunTest, RunCompileTimeTest, fixtureVars
<1>6. CASE FirstAttempt \/ SecondAttempt \/ ResultSeen
  BY <1>1, <1>6 DEF FirstAttempt, SecondAttempt, RunTestImpl, ResultSeen, fixtureVars
<1>7. CASE UNCHANGED testVars
  BY <1>1, <1>7 DEF testVars, fixtureVars
<1> QED BY <1>2, <1>3, <1>4, <1>5, <1>6, <1>7, BaseBuilt, BaseDestroyed DEF FixtureNext, Terminated

\* Objects of a fixture, and its handle to the capturer library, are used only while the
\* device lives and the library is loaded.
THEOREM ObjectsStayInside == FixtureSpec => []ObjectsInsideDevice
<1>1. FixtureSpec => []DevicesInv
  BY DevicesStart, DevicesKept, PTL DEF FixtureSpec
<1>2. DevicesInv => ObjectsInsideDevice
  <2> SUFFICES ASSUME DevicesInv, NEW f \in Fixtures
               PROVE  /\ children[f] # {} => IsValid(f)
                      /\ m_PixHandle[f] => IsValid(f) /\ capturer > 0
    BY DEF ObjectsInsideDevice
  <2>1. children[f] # {} \/ m_PixHandle[f] => fixture[f] # "none"
    BY DEF DevicesInv, DevicesHeld
  <2>2. ASSUME m_PixHandle[f] PROVE capturer > 0
    <3>1. /\ f \in Handles /\ IsFiniteSet(Handles) /\ Cardinality(Handles) <= capturer
          /\ capturer \in Nat
      BY <2>2 DEF DevicesInv, DevicesHeld, FixturesTyped, Handles
    <3>2. Cardinality(Handles) \in Nat /\ Cardinality(Handles) # 0
      BY <3>1, FS_EmptySet, FS_CardinalityType
    <3> QED BY <3>1, <3>2
  <2> QED BY <2>1, <2>2 DEF DevicesInv, DevicesHeld
<1> QED BY <1>1, <1>2, PTL

-----------------------------------------------------------------------------
(* The stats and their handles. *)

IsStats(s) == \E N : s \in Seq([name : N, ended : BOOLEAN])

\* t is s with stats begun or ended.
Continues(s, t) ==
  /\ IsStats(s) /\ IsStats(t) /\ Len(s) <= Len(t)
  /\ \A k \in 1..Len(s) : t[k].name = s[k].name

LEMMA LengthOfStats ==
  ASSUME NEW s, IsStats(s)
  PROVE  Len(s) \in Nat /\ DOMAIN s = 1..Len(s)
BY DEF IsStats

LEMMA ContinuesItself ==
  ASSUME NEW s, IsStats(s)
  PROVE  Continues(s, s)
BY LengthOfStats DEF Continues

LEMMA ContinuesBoth ==
  ASSUME NEW s, NEW t, NEW u, Continues(s, t), Continues(t, u)
  PROVE  Continues(s, u)
BY LengthOfStats DEF Continues

LEMMA BeginContinues ==
  ASSUME NEW s, IsStats(s), NEW name
  PROVE  /\ Continues(s, BeginStat(s, name))
         /\ Len(s) <= MaxIds =>
              /\ Len(BeginStat(s, name)) = Len(s) + 1
              /\ BeginStat(s, name)[Len(s) + 1].name = name
<1>1. CASE Len(s) > MaxIds
  <2>1. BeginStat(s, name) = s
    BY <1>1 DEF BeginStat
  <2>2. Len(s) \in Nat /\ MaxIds \in Nat
    BY LengthOfStats, StatAssumption
  <2> QED BY <1>1, <2>1, <2>2, ContinuesItself
<1>2. CASE ~(Len(s) > MaxIds)
  <2>1. PICK N : s \in Seq([name : N, ended : BOOLEAN])
    BY DEF IsStats
  <2> DEFINE S == [name : N \cup {name}, ended : BOOLEAN]
             e == [name |-> name, ended |-> FALSE]
  <2>2. BeginStat(s, name) = Append(s, e)
    BY <1>2 DEF BeginStat
  <2>3. e \in S /\ e.name = name /\ [name : N, ended : BOOLEAN] \subseteq S
    OBVIOUS
  <2> HIDE DEF e
  <2>4. S = [name : N \cup {name}, ended : BOOLEAN]
    OBVIOUS
  <2> HIDE DEF S
  <2>5. s \in Seq(S)
    BY <2>1, <2>3, SeqOverMore
  <2>6. /\ Append(s, e) \in Seq(S) /\ Len(Append(s, e)) = Len(s) + 1
        /\ (\A k \in 1..Len(s) : Append(s, e)[k] = s[k]) /\ Append(s, e)[Len(s) + 1] = e
    BY <2>3, <2>5, AppendElements
  <2>7. IsStats(Append(s, e))
    BY <2>4, <2>6 DEF IsStats
  <2>8. Len(s) \in Nat
    BY LengthOfStats
  <2>9. Continues(s, Append(s, e))
    BY <2>6, <2>7, <2>8 DEF Continues
  <2> QED BY <2>2, <2>3, <2>6, <2>9
<1> QED BY <1>1, <1>2

LEMMA EndContinues ==
  ASSUME NEW s, IsStats(s), NEW h
  PROVE  Continues(s, EndStat(h, s))
<1> DEFINE k == h.id + 1
           t == [s EXCEPT ![k].ended = TRUE]
<1>1. CASE ~Accepted(h, s)
  BY <1>1, ContinuesItself DEF EndStat
<1>2. CASE Accepted(h, s)
  <2>1. EndStat(h, s) = t
    BY <1>2 DEF EndStat
  <2>2. PICK N : s \in Seq([name : N, ended : BOOLEAN])
    BY DEF IsStats
  <2>3. PICK S : S = [name : N, ended : BOOLEAN]
    OBVIOUS
  <2>4. Len(s) \in Nat /\ s \in [1..Len(s) -> S] /\ DOMAIN s = 1..Len(s)
    <3>1. s \in Seq(S)
      BY <2>2, <2>3, Zenon
    <3> QED BY <3>1
  <2>5. \A j \in 1..Len(s) : t[j] \in S /\ t[j].name = s[j].name
    <3> SUFFICES ASSUME NEW j \in 1..Len(s) PROVE t[j] \in S /\ t[j].name = s[j].name
      OBVIOUS
    <3>1. s[j] \in [name : N, ended : BOOLEAN]
      BY <2>3, <2>4
    <3>2. t[j] = IF j = k THEN [s[j] EXCEPT !.ended = TRUE] ELSE s[j]
      BY <2>4
    <3>3. PICK r : r = s[j]
      OBVIOUS
    <3>4. /\ [r EXCEPT !.ended = TRUE] \in [name : N, ended : BOOLEAN]
          /\ [r EXCEPT !.ended = TRUE].name = r.name
      BY <3>1, <3>3
    <3> HIDE DEF t
    <3> QED BY <2>3, <3>1, <3>2, <3>3, <3>4
  <2>6. t \in [1..Len(s) -> S]
    <3>1. t = [j \in 1..Len(s) |-> t[j]]
      BY <2>4
    <3> HIDE DEF t
    <3> QED BY <2>5, <3>1
  <2>7. t \in Seq(S) /\ Len(t) = Len(s)
    BY <2>4, <2>6, FunctionIsSeq
  <2> HIDE DEF t
  <2>8. IsStats(t)
    BY <2>3, <2>7 DEF IsStats
  <2>9. Continues(s, t)
    BY <2>4, <2>5, <2>7, <2>8 DEF Continues
  <2> QED BY <2>1, <2>9
<1> QED BY <1>1, <1>2

\* The generation d flushes after generation g.
Turned(g, d) == IF g + d < MaxGens THEN g + d ELSE (g + d) - MaxGens

\* What EndStat finds with handle h among stats in generation gen, after n flushes, as long
\* as neither generations nor identifiers have repeated.
Sound(h, stats, gen, n) ==
  h.valid =>
    /\ h.id \in Nat /\ h.gen \in 0..MaxGens - 1 /\ h.born \in 0..n
    /\ n - h.born < MaxGens => gen = Turned(h.gen, n - h.born)
    /\ h.born = n /\ Len(stats) <= MaxIds =>
         h.id < Len(stats) /\ stats[h.id + 1].name = h.name

StatsInv ==
  /\ IsStats(m_RawTimedStats) /\ flushes \in Nat /\ m_CurrentGen \in 0..MaxGens - 1
  /\ DOMAIN scope = Fixtures
  /\ \A f \in Fixtures : Sound(scope[f], m_RawTimedStats, m_CurrentGen, flushes)

LEMMA SoundContinues ==
  ASSUME NEW s, NEW t, Continues(s, t), NEW h, NEW gen, NEW n, Sound(h, s, gen, n)
  PROVE  Sound(h, t, gen, n)
<1> SUFFICES ASSUME h.valid, h.born = n, Len(t) <= MaxIds
             PROVE  h.id < Len(t) /\ t[h.id + 1].name = h.name
  BY DEF Sound
<1>1. Len(s) \in Nat /\ Len(t) \in Nat /\ Len(s) <= Len(t) /\ MaxIds \in Nat
  BY LengthOfStats, StatAssumption DEF Continues
<1>2. h.id \in Nat /\ h.id < Len(s) /\ s[h.id + 1].name = h.name
  BY <1>1 DEF Sound
<1>3. h.id + 1 \in 1..Len(s)
  BY <1>1, <1>2
<1>4. t[h.id + 1].name = s[h.id + 1].name
  BY <1>3 DEF Continues
<1> QED BY <1>1, <1>2, <1>4

\* A handle that was just made.
LEMMA BeginSound ==
  ASSUME StatsInv, NEW name
  PROVE  Sound(BeginHandle(m_RawTimedStats, name), BeginStat(m_RawTimedStats, name),
               m_CurrentGen, flushes)
<1> DEFINE s == m_RawTimedStats
           h == BeginHandle(s, name)
           t == BeginStat(s, name)
<1> SUFFICES ASSUME h.valid PROVE Sound(h, t, m_CurrentGen, flushes)
  BY DEF Sound
<1>1. ~(Len(s) > MaxIds)
  BY DEF BeginHandle, InvalidHandle
<1>2. /\ h.id = Len(s) % MaxIds /\ h.gen = m_CurrentGen /\ h.name = name /\ h.born = flushes
  BY <1>1 DEF BeginHandle
<1>3. /\ Len(s) \in Nat /\ Len(s) <= MaxIds /\ MaxIds \in Nat /\ MaxIds > 0
      /\ m_CurrentGen \in 0..MaxGens - 1 /\ flushes \in Nat /\ MaxGens \in Nat
  BY <1>1, LengthOfStats, StatAssumption DEF StatsInv
<1>4. Len(t) = Len(s) + 1 /\ t[Len(s) + 1].name = name
  BY <1>3, BeginContinues DEF StatsInv
<1> HIDE DEF s, h, t
<1>5. h.id \in Nat
  BY <1>2, <1>3
<1>6. ASSUME Len(t) <= MaxIds PROVE h.id < Len(t) /\ t[h.id + 1].name = h.name
  <2>1. Len(s) < MaxIds
    BY <1>3, <1>4, <1>6
  <2>2. h.id = Len(s)
    BY <1>2, <1>3, <2>1
  <2> QED BY <1>2, <1>3, <1>4, <2>2
<1>7. flushes - h.born < MaxGens => m_CurrentGen = Turned(h.gen, flushes - h.born)
  BY <1>2, <1>3 DEF Turned
<1> QED BY <1>2, <1>3, <1>5, <1>6, <1>7 DEF Sound

\* A flush turns the generation on.
LEMMA SoundFlushed ==
  ASSUME NEW s, NEW gen \in 0..MaxGens - 1, NEW n \in Nat, NEW h, Sound(h, s, gen, n)
  PROVE  Sound(h, <<>>, (gen + 1) % MaxGens, n + 1)
<1> SUFFICES ASSUME h.valid PROVE Sound(h, <<>>, (gen + 1) % MaxGens, n + 1)
  BY DEF Sound
<1>1. /\ h.id \in Nat /\ h.gen \in 0..MaxGens - 1 /\ h.born \in 0..n
      /\ MaxGens \in Nat /\ MaxGens > 0
  BY StatAssumption DEF Sound
<1>2. (gen + 1) % MaxGens = IF gen + 1 < MaxGens THEN gen + 1 ELSE 0
  <2>1. CASE gen + 1 < MaxGens
    BY <1>1, <2>1
  <2>2. CASE gen + 1 = MaxGens
    BY <1>1, <2>2
  <2> QED BY <1>1, <2>1, <2>2
<1>3. ASSUME (n + 1) - h.born < MaxGens
      PROVE  (gen + 1) % MaxGens = Turned(h.gen, (n + 1) - h.born)
  <2>1. n - h.born < MaxGens
    BY <1>1, <1>3
  <2>2. gen = Turned(h.gen, n - h.born)
    BY <2>1 DEF Sound
  <2> QED BY <1>1, <1>2, <1>3, <2>1, <2>2 DEF Turned
<1>4. h.born # n + 1 /\ h.born \in 0..n + 1
  BY <1>1
<1> QED BY <1>1, <1>3, <1>4 DEF Sound

LEMMA StatsStart == FixtureInit => StatsInv
<1> SUFFICES ASSUME FixtureInit PROVE StatsInv
  OBVIOUS
<1>1. m_RawTimedStats = <<>> /\ m_CurrentGen = 0 /\ flushes = 0 /\ MaxGens \in Nat \ {0}
  BY StatAssumption DEF FixtureInit, StatInit
<1>2. IsStats(m_RawTimedStats)
  <2>1. m_RawTimedStats \in Seq([name : {}, ended : BOOLEAN])
    BY <1>1
  <2> QED BY <2>1 DEF IsStats
<1>3. \A f \in Fixtures : scope[f] = InvalidHandle /\ DOMAIN scope = Fixtures
  BY DEF FixtureInit
<1>4. DOMAIN scope = Fixtures
  BY DEF FixtureInit
<1> QED BY <1>1, <1>2, <1>3, <1>4 DEF StatsInv, Sound, InvalidHandle

LEMMA StatsKept == StatsInv /\ [FixtureNext]_testVars => StatsInv'
<1> SUFFICES ASSUME StatsInv, [FixtureNext]_testVars PROVE StatsInv'
  OBVIOUS
<1> DEFINE s == m_RawTimedStats
           Begun(name) == EndStat(BeginHandle(s, name), BeginStat(s, name))
<1>1. IsStats(s) /\ Continues(s, s)
  BY ContinuesItself DEF StatsInv
<1>2. ASSUME NEW name PROVE Continues(s, BeginStat(s, name)) /\ Continues(s, Begun(name))
  <2>1. PICK t, h : t = BeginStat(s, name) /\ h = BeginHandle(s, name)
    OBVIOUS
  <2>2. Continues(s, t) /\ IsStats(t)
    BY <1>1, <2>1, BeginContinues DEF Continues
  <2>3. Continues(t, EndStat(h, t))
    BY <2>2, EndContinues
  <2> QED BY <2>1, <2>2, <2>3, ContinuesBoth
<1>3. ASSUME Continues(s, m_RawTimedStats'), m_CurrentGen' = m_CurrentGen, flushes' = flushes,
             scope' = scope
      PROVE  StatsInv'
  BY <1>3, SoundContinues DEF StatsInv, Continues
<1>4. ASSUME NEW f \in Fixtures, ConstructDriver(f) PROVE StatsInv'
  <2>1. PICK name : name = <<f, "scope">>
    OBVIOUS
  <2>2. /\ scope' = [scope EXCEPT ![f] = BeginHandle(s, name)]
        /\ m_RawTimedStats' = BeginStat(s, name) /\ m_CurrentGen' = m_CurrentGen /\ flushes' = flushes
    BY <1>4, <2>1 DEF ConstructDriver
  <2>3. Continues(s, m_RawTimedStats')
    BY <1>2, <2>2
  <2>4. Sound(BeginHandle(s, name), m_RawTimedStats', m_CurrentGen', flushes')
    BY <2>2, BeginSound
  <2>5. \A g \in Fixtures : Sound(scope'[g], m_RawTimedStats', m_CurrentGen', flushes')
    BY <2>2, <2>3, <2>4, SoundContinues DEF StatsInv
  <2> QED BY <2>2, <2>3, <2>5 DEF StatsInv, Continues
<1>5. ASSUME NEW f \in Fixtures, DestroyDerived(f) PROVE StatsInv'
  <2>1. /\ scope' = [scope EXCEPT ![f] = InvalidHandle]
        /\ m_RawTimedStats' = EndStat(scope[f], s) /\ m_CurrentGen' = m_CurrentGen /\ flushes' = flushes
    BY <1>5 DEF DestroyDerived
  <2>2. Continues(s, m_RawTimedStats')
    BY <1>1, <2>1, EndContinues
  <2>3. Sound(InvalidHandle, m_RawTimedStats', m_CurrentGen', flushes')
    BY DEF Sound, InvalidHandle
  <2>4. \A g \in Fixtures : Sound(scope'[g], m_RawTimedStats', m_CurrentGen', flushes')
    BY <2>1, <2>2, <2>3, SoundContinues DEF StatsInv
  <2> QED BY <2>1, <2>2, <2>4 DEF StatsInv, Continues
<1>6. ASSUME NEW f \in Fixtures, DestroyBase(f) PROVE StatsInv'
  <2>1. /\ m_RawTimedStats' = <<>> /\ m_CurrentGen' = (m_CurrentGen + 1) % MaxGens
        /\ flushes' = flushes + 1 /\ scope' = scope
    BY <1>6 DEF DestroyBase, FlushTimedStats
  <2>2. flushes \in Nat /\ m_CurrentGen \in 0..MaxGens - 1 /\ MaxGens \in Nat \ {0}
    BY StatAssumption DEF StatsInv
  <2>3. m_CurrentGen' \in 0..MaxGens - 1 /\ flushes' \in Nat
    BY <2>1, <2>2
  <2>4. IsStats(m_RawTimedStats')
    <3>1. m_RawTimedStats' \in Seq([name : {}, ended : BOOLEAN])
      BY <2>1
    <3> QED BY <3>1 DEF IsStats
  <2>5. \A g \in Fixtures : Sound(scope'[g], m_RawTimedStats', m_CurrentGen', flushes')
    BY <2>1, <2>2, SoundFlushed DEF StatsInv
  <2> QED BY <2>1, <2>3, <2>4, <2>5 DEF StatsInv
<1>7. ASSUME NEW f \in Fixtures, ConstructBase(f) \/ ConstructDriverThrows(f) PROVE StatsInv'
  BY <1>1, <1>3, <1>7 DEF ConstructBase, ConstructDriverThrows, statVars
<1>8. ASSUME NEW f \in Fixtures, RunTest(f) PROVE StatsInv'
  BY <1>2, <1>3, <1>8 DEF RunTest, fixtureVars
<1>9. ASSUME NEW f \in Fixtures, RunCompileTimeTest(f) PROVE StatsInv'
  <2>1. PICK outer, inner : outer = <<f, "RunCompileTimeTest", tests>> /\ inner = <<f, "CompileShader", tests>>
    OBVIOUS
  <2>2. PICK t, h, u, k : /\ t = BeginStat(s, outer) /\ h = BeginHandle(t, inner)
                          /\ u = BeginStat(t, inner) /\ k = BeginHandle(s, outer)
    OBVIOUS
  <2>3. Continues(s, t) /\ IsStats(t)
    BY <1>2, <2>2 DEF Continues
  <2>4. Continues(t, u) /\ IsStats(u)
    BY <2>2, <2>3, BeginContinues DEF Continues
  <2>5. PICK v : v = EndStat(h, u)
    OBVIOUS
  <2>6. Continues(u, v) /\ IsStats(v) /\ Continues(v, EndStat(k, v))
    BY <2>4, <2>5, EndContinues DEF Continues
  <2>7. Continues(s, EndStat(k, v))
    BY <2>3, <2>4, <2>6, ContinuesBoth
  <2>8. m_RawTimedStats' = EndStat(k, v) /\ UNCHANGED <<m_CurrentGen, flushes, scope>>
    BY <1>9, <2>1, <2>2, <2>5 DEF RunCompileTimeTest, fixtureVars
  <2> QED BY <1>3, <2>7, <2>8
<1>10. ASSUME NEW retry, RunTestImpl(retry) PROVE StatsInv'
  <2>1. PICK name : name = <<test.fixture, "CompileShader", tests, retry>>
    OBVIOUS
  <2>2. /\ m_RawTimedStats' = Begun(name) \/ m_RawTimedStats' = EndStat(test.fullTest, Begun(name))
        /\ UNCHANGED <<m_CurrentGen, flushes, scope>>
    BY <1>10, <2>1 DEF RunTestImpl, fixtureVars
  <2>3. Continues(s, Begun(name)) /\ IsStats(Begun(name))
    BY <1>2 DEF Continues
  <2> HIDE DEF Begun
  <2>4. Continues(Begun(name), EndStat(test.fullTest, Begun(name)))
    BY <2>3, EndContinues
  <2>5. Continues(s, EndStat(test.fullTest, Begun(name)))
    BY <2>3, <2>4, ContinuesBoth
  <2> QED BY <1>3, <2>2, <2>3, <2>5
<1>11. CASE ResultSeen \/ UNCHANGED testVars
  BY <1>1, <1>3, <1>11 DEF ResultSeen, statVars, fixtureVars, testVars
<1> QED BY <1>4, <1>5, <1>6, <1>7, <1>8, <1>9, <1>10, <1>11
        DEF FixtureNext, FirstAttempt, SecondAttempt, Terminated

\* A handle kept over flushes ends no other stat, for any number of identifiers and
\* generations, until they repeat.
THEOREM HandlesAlwaysFind == FixtureSpec => []HandlesFindTheirStat
<1>1. FixtureSpec => []StatsInv
  BY StatsStart, StatsKept, PTL DEF FixtureSpec
<1>2. StatsInv => HandlesFindTheirStat
  <2> SUFFICES ASSUME StatsInv, NEW f \in Fixtures, flushes - scope[f].born < MaxGens,
                      Len(m_RawTimedStats) <= MaxIds, EndsAnother(scope[f])
               PROVE  FALSE
    BY DEF HandlesFindTheirStat
  <2>1. PICK h : h = scope[f]
    OBVIOUS
  <2>2. /\ h.valid /\ h.gen = m_CurrentGen /\ h.id < Len(m_RawTimedStats)
        /\ m_RawTimedStats[h.id + 1].name # h.name
    BY <2>1 DEF EndsAnother, Accepted
  <2>3. /\ h.gen \in 0..MaxGens - 1 /\ h.born \in 0..flushes /\ flushes \in Nat
        /\ m_CurrentGen = Turned(h.gen, flushes - h.born) /\ h.born # flushes
    BY <2>1, <2>2 DEF StatsInv, Sound
  <2> QED BY <2>1, <2>2, <2>3, StatAssumption DEF Turned
<1> QED BY <1>1, <1>2, PTL

-----------------------------------------------------------------------------
(* The attempts of a test and their captures. *)

\* A test in progress: what RunTest prepared, which no attempt changes.
TestShaped ==
  test.stage # "idle" =>
    /\ test = [stage |-> test.stage, fixture |-> test.fixture, desc |-> test.desc,
               fullTest |-> test.fullTest]
    /\ test.stage \in {"first", "retry", "returned", "terminated"}
    /\ test.desc.GPUCaptureMode \in EGPUCaptureMode

\* While a test runs no fixture is built or destroyed.
TestAlone == test.stage # "idle" => \A f \in Alive : fixture[f] = "ready"

\* An attempt that was captured and got far enough to leave the capture on disk.
Shown(k) == attempts[k].captured /\ attempts[k].end \in Ran

Attempted(k, retry) ==
  attempts[k].captured = ShouldTakeCapture(test.fixture, test.desc.GPUCaptureMode, retry)

TriedOnce ==
  /\ Len(attempts) = 1 /\ Attempted(1, FALSE)
  /\ (test.stage = "retry") <=> (attempts[1].end = "fail" /\ RequestedRetryOnFail(test.desc))
  /\ captureFile = IF Shown(1) THEN 1 ELSE 0

TriedTwice ==
  /\ Len(attempts) = 2 /\ Attempted(1, FALSE) /\ Attempted(2, TRUE)
  /\ test.stage = "returned" /\ attempts[1].end = "fail"
  /\ captureFile = IF Shown(2) THEN 2 ELSE IF Shown(1) THEN 1 ELSE 0

\* What its attempts have left of it. A terminated program leaves nothing to look at.
TriedSoFar ==
  /\ \E S : attempts \in Seq(S)
  /\ Len(attempts) \in 0..2 /\ captureFile \in 0..2
  /\ test.stage \in {"idle", "first"} => attempts = <<>> /\ captureFile = 0
  /\ test.stage \in {"retry", "returned"} => TriedOnce \/ TriedTwice

TestsInv == FixturesTyped /\ TestShaped /\ TestAlone /\ TriedSoFar

LEMMA TestsStart == FixtureInit => TestsInv
<1> SUFFICES ASSUME FixtureInit PROVE TestsInv
  OBVIOUS
<1>1. FixturesTyped
  BY DevicesStart DEF DevicesInv
<1>2. test.stage = "idle" /\ attempts = <<>> /\ captureFile = 0
  BY DEF FixtureInit, Idle
<1>3. attempts \in Seq({})
  BY <1>2
<1> QED BY <1>1, <1>2, <1>3 DEF TestsInv, TestShaped, TestAlone, TriedSoFar

\* Nobody builds or destroys but when no test runs.
LEMMA Building ==
  ASSUME TestsInv, FixturesTyped', NEW f \in Fixtures,
         \/ ConstructBase(f) \/ ConstructDriver(f) \/ ConstructDriverThrows(f)
         \/ DestroyDerived(f) \/ DestroyBase(f)
  PROVE  TestsInv'
<1>1. UNCHANGED runVars
  BY DEF ConstructBase, ConstructDriver, ConstructDriverThrows, DestroyDerived, DestroyBase
<1>2. test.stage = "idle"
  <2>1. CASE ConstructBase(f) \/ DestroyDerived(f)
    BY <2>1 DEF ConstructBase, DestroyDerived, Quiet, Idle
  <2>2. CASE ConstructDriver(f) \/ ConstructDriverThrows(f) \/ DestroyBase(f)
    <3>1. f \in Alive /\ fixture[f] # "ready"
      BY <2>2 DEF ConstructDriver, ConstructDriverThrows, DestroyBase, Alive
    <3> QED BY <3>1 DEF TestsInv, TestAlone
  <2> QED BY <2>1, <2>2
<1> QED BY <1>1, <1>2 DEF TestsInv, TestShaped, TestAlone, TriedSoFar, runVars

\* One attempt, the first or the second.
LEMMA AttemptMade ==
  ASSUME TestsInv, NEW retry \in BOOLEAN, RunTestImpl(retry),
         test.stage = IF retry THEN "retry" ELSE "first"
  PROVE  TestsInv'
<1> DEFINE mode == test.desc.GPUCaptureMode
           f == test.fixture
           capture == ShouldTakeCapture(f, mode, retry)
<1>1. PICK job, worked, end :
        /\ attempts' = Append(attempts, [arguments |-> ArgumentsOf(job), bindings |-> worked.Bindings,
                                         captured |-> capture, end |-> end])
        /\ captureFile' = IF capture /\ end \in Ran THEN Len(attempts') ELSE captureFile
        /\ test' = [test EXCEPT !.stage = NextStage(end, retry, test.desc), !.desc = test.desc]
        /\ UNCHANGED <<deviceVars, fixtureVars>>
  <2> DEFINE w == [test.desc EXCEPT !.Defines =
                    Append(@, <<"TTL_ENABLE_STRINGS",
                                IF EnableStrings(test.desc.StringMode, retry) THEN "1" ELSE "0">>)]
  <2>1. PICK end \in Ends(capture) :
          /\ attempts' = Append(attempts, [arguments |-> ArgumentsOf(CompileJob(w, capture)),
                                           bindings |-> w.Bindings, captured |-> capture, end |-> end])
          /\ captureFile' = IF capture /\ end \in Ran THEN Len(attempts') ELSE captureFile
          /\ test' = [test EXCEPT !.stage = NextStage(end, retry, test.desc),
                                  !.desc = DescriptionAfter(test.desc, w)]
          /\ UNCHANGED <<deviceVars, fixtureVars>>
    BY Zenon DEF RunTestImpl
  <2>2. DescriptionAfter(test.desc, w) = test.desc
    BY DEF DescriptionAfter
  <2>3. PICK job : job = CompileJob(w, capture)
    OBVIOUS
  <2> HIDE DEF w
  <2> QED BY <2>1, <2>2, <2>3
<1>2. PICK arguments, bindings : arguments = ArgumentsOf(job) /\ bindings = worked.Bindings
  OBVIOUS
<1>3. PICK made : made = [arguments |-> arguments, bindings |-> bindings, captured |-> capture, end |-> end]
  OBVIOUS
<1>4. made.captured = capture /\ made.end = end
  BY <1>3
<1>5. PICK next : next = NextStage(end, retry, test.desc)
  OBVIOUS
<1>6. /\ test'.stage = next /\ test'.fixture = test.fixture /\ test'.desc = test.desc
      /\ test' = [stage |-> next, fixture |-> test.fixture, desc |-> test.desc,
                  fullTest |-> test.fullTest]
  <2>1. test = [stage |-> test.stage, fixture |-> test.fixture, desc |-> test.desc,
                fullTest |-> test.fullTest]
    BY DEF TestsInv, TestShaped
  <2>2. test' = [test EXCEPT !.stage = next, !.desc = test.desc]
    BY <1>1, <1>5
  <2> QED BY <2>1, <2>2
<1>7. /\ next \in {"terminated", "retry", "returned"}
      /\ (next = "retry") <=> (end = "fail" /\ ~retry /\ RequestedRetryOnFail(test.desc))
  BY <1>5 DEF NextStage
<1>8. PICK S : attempts \in Seq(S)
  BY DEF TestsInv, TriedSoFar
<1>9. /\ attempts' \in Seq(S \cup {made}) /\ Len(attempts') = Len(attempts) + 1
      /\ Len(attempts) \in Nat
      /\ \A k \in 1..Len(attempts) : attempts'[k] = attempts[k]
      /\ attempts'[Len(attempts) + 1] = made
  <2>1. attempts \in Seq(S \cup {made}) /\ attempts' = Append(attempts, made)
    BY <1>1, <1>2, <1>3, <1>8, SeqOverMore
  <2> QED BY <2>1, AppendElements
<1>10. \A again \in BOOLEAN :
         ShouldTakeCapture(test.fixture, mode, again)' = ShouldTakeCapture(f, mode, again)
  BY <1>1, <1>6 DEF ShouldTakeCapture, IsGPUCaptureEnabled, deviceVars
<1>11. \E T : attempts' \in Seq(T)
  BY <1>9
<1>12. next # "terminated" => TriedOnce' \/ TriedTwice'
  <2> SUFFICES ASSUME next # "terminated" PROVE TriedOnce' \/ TriedTwice'
    OBVIOUS
  <2>1. CASE ~retry
    <3>1. attempts = <<>> /\ captureFile = 0
      BY <2>1 DEF TestsInv, TriedSoFar
    <3>2. Len(attempts) = 0
      BY <3>1
    <3>3. Len(attempts') = 1 /\ attempts'[1] = made
      BY <1>9, <3>2
    <3>4. captureFile' = IF Shown(1)' THEN 1 ELSE 0
      <4>1. Shown(1)' <=> (capture /\ end \in Ran)
        BY <1>4, <3>3 DEF Shown
      <4> HIDE DEF capture
      <4> QED BY <1>1, <3>1, <3>3, <4>1
    <3>5. Attempted(1, FALSE)'
      BY <1>4, <1>6, <1>10, <2>1, <3>3 DEF Attempted
    <3>6. (test'.stage = "retry") <=> (attempts'[1].end = "fail" /\ RequestedRetryOnFail(test.desc)')
      BY <1>4, <1>6, <1>7, <2>1, <3>3 DEF RequestedRetryOnFail
    <3> QED BY <3>3, <3>4, <3>5, <3>6 DEF TriedOnce
  <2>2. CASE retry
    <3>1. TriedOnce /\ test.stage = "retry"
      BY <2>2 DEF TestsInv, TriedSoFar, TriedTwice
    <3>2. Len(attempts) = 1 /\ attempts[1].end = "fail" /\ Attempted(1, FALSE)
      BY <3>1 DEF TriedOnce
    <3>3. Len(attempts') = 2 /\ attempts'[1] = attempts[1] /\ attempts'[2] = made
      BY <1>9, <3>2
    <3>4. Shown(1)' <=> Shown(1)
      BY <3>3 DEF Shown
    <3>5. Shown(2)' <=> (capture /\ end \in Ran)
      BY <1>4, <3>3 DEF Shown
    <3>6. captureFile' = IF Shown(2)' THEN 2 ELSE IF Shown(1)' THEN 1 ELSE 0
      <4>1. captureFile = IF Shown(1) THEN 1 ELSE 0
        BY <3>1 DEF TriedOnce
      <4> HIDE DEF capture
      <4> QED BY <1>1, <3>3, <3>4, <3>5, <4>1
    <3>7. Attempted(2, TRUE)'
      BY <1>4, <1>6, <1>10, <2>2, <3>3 DEF Attempted
    <3>8. Attempted(1, FALSE)'
      BY <1>6, <1>10, <3>2, <3>3 DEF Attempted
    <3>9. test'.stage = "returned"
      BY <1>6, <1>7, <2>2
    <3> QED BY <3>2, <3>3, <3>6, <3>7, <3>8, <3>9 DEF TriedTwice
  <2> QED BY <2>1, <2>2
<1>13. Len(attempts') \in 0..2 /\ captureFile' \in 0..2
  <2>1. Len(attempts) \in {0, 1}
    <3>1. CASE ~retry
      <4>1. attempts = <<>>
        BY <3>1 DEF TestsInv, TriedSoFar
      <4> QED BY <4>1
    <3>2. CASE retry
      BY <3>2 DEF TestsInv, TriedSoFar, TriedOnce, TriedTwice
    <3> QED BY <3>1, <3>2
  <2>2. Len(attempts') \in 1..2
    BY <1>9, <2>1
  <2>3. captureFile' = Len(attempts') \/ captureFile' = captureFile
    BY <1>1
  <2>4. captureFile \in 0..2
    BY DEF TestsInv, TriedSoFar
  <2>5. \A n \in 1..2 : n \in 0..2
    OBVIOUS
  <2> QED BY <2>2, <2>3, <2>4, <2>5, Zenon
<1>14. TriedSoFar'
  BY <1>6, <1>7, <1>11, <1>12, <1>13 DEF TriedSoFar
<1>15. FixturesTyped' /\ TestAlone'
  BY <1>1, <1>6 DEF TestsInv, FixturesTyped, TestAlone, Alive, deviceVars, fixtureVars
<1>16. TestShaped'
  BY <1>6, <1>7 DEF TestsInv, TestShaped
<1> QED BY <1>14, <1>15, <1>16 DEF TestsInv

\* A test is prepared; its attempts are still to come.
LEMMA TestPrepared ==
  ASSUME TestsInv, NEW f \in Fixtures, RunTest(f)
  PROVE  TestsInv'
<1>1. PICK capture \in EGPUCaptureMode, strings \in EStringMode :
        test' = [stage |-> "first", fixture |-> f, desc |-> Prepared(capture, strings),
                 fullTest |-> BeginHandle(m_RawTimedStats, <<f, "RunTest", tests>>)]
  BY DEF RunTest
<1>2. PICK desc, handle : desc = Prepared(capture, strings)
                          /\ handle = BeginHandle(m_RawTimedStats, <<f, "RunTest", tests>>)
  OBVIOUS
<1>3. desc.GPUCaptureMode \in EGPUCaptureMode
  BY <1>2 DEF Prepared
<1>4. test' = [stage |-> "first", fixture |-> f, desc |-> desc, fullTest |-> handle]
  BY <1>1, <1>2
<1>5. test'.stage = "first" /\ TestShaped'
  BY <1>3, <1>4 DEF TestShaped
<1>6. /\ UNCHANGED <<deviceVars, fixtureVars, attempts, captureFile>>
      /\ test.stage = "idle" /\ \A g \in Alive : fixture[g] = "ready"
  BY DEF RunTest, Quiet, Idle
<1>7. TriedSoFar'
  BY <1>5, <1>6 DEF TestsInv, TriedSoFar
<1> QED BY <1>5, <1>6, <1>7
        DEF TestsInv, FixturesTyped, TestAlone, Alive, deviceVars, fixtureVars

LEMMA TestsKept == DevicesInv /\ TestsInv /\ [FixtureNext]_testVars => TestsInv'
<1> SUFFICES ASSUME DevicesInv, TestsInv, [FixtureNext]_testVars PROVE TestsInv'
  OBVIOUS
<1>1. FixturesTyped'
  BY DevicesKept DEF DevicesInv
<1>2. ASSUME NEW f \in Fixtures,
             \/ ConstructBase(f) \/ ConstructDriver(f) \/ ConstructDriverThrows(f)
             \/ DestroyDerived(f) \/ DestroyBase(f)
      PROVE  TestsInv'
  BY <1>1, <1>2, Building
<1>3. ASSUME NEW f \in Fixtures, RunTest(f) PROVE TestsInv'
  BY <1>3, TestPrepared
<1>4. ASSUME UNCHANGED <<deviceVars, fixtureVars, runVars>> PROVE TestsInv'
  <2>1. UNCHANGED <<fixture, test, attempts, captureFile, m_PixHandle>>
    BY <1>4 DEF deviceVars, fixtureVars, runVars
  <2>2. TestShaped' /\ TestAlone'
    BY <2>1 DEF TestsInv, TestShaped, TestAlone, Alive
  <2>3. (TriedOnce <=> TriedOnce') /\ (TriedTwice <=> TriedTwice')
    BY <2>1 DEF TriedOnce, TriedTwice, Attempted, Shown, ShouldTakeCapture, IsGPUCaptureEnabled,
                RequestedRetryOnFail
  <2> QED BY <1>1, <2>1, <2>2, <2>3 DEF TestsInv, TriedSoFar
<1>5. CASE FirstAttempt
  <2>1. test.stage = "first" /\ RunTestImpl(FALSE)
    BY <1>5 DEF FirstAttempt
  <2> QED BY <2>1, AttemptMade
<1>6. CASE SecondAttempt
  <2>1. test.stage = "retry" /\ RunTestImpl(TRUE)
    BY <1>6 DEF SecondAttempt
  <2> QED BY <2>1, AttemptMade
<1>7. CASE ResultSeen
  <2>1. test'.stage = "idle" /\ attempts' = <<>> /\ captureFile' = 0
    BY <1>7 DEF ResultSeen, Idle
  <2>2. attempts' \in Seq({})
    BY <2>1
  <2> QED BY <1>1, <2>1, <2>2 DEF TestsInv, TestShaped, TestAlone, TriedSoFar
<1>8. ASSUME NEW f \in Fixtures, RunCompileTimeTest(f) PROVE TestsInv'
  BY <1>4, <1>8 DEF RunCompileTimeTest
<1>9. CASE UNCHANGED testVars
  BY <1>4, <1>9 DEF testVars
<1> QED BY <1>2, <1>3, <1>5, <1>6, <1>7, <1>8, <1>9 DEF FixtureNext, Terminated

\* The largest of one or two attempts.
LEMMA LastOfTwo ==
  ASSUME NEW S, NEW n \in {1, 2}, S \subseteq 1..n
  PROVE  /\ n \in S => Max(S) = n
         /\ S = {1} => Max(S) = 1
<1>1. ASSUME n \in S PROVE Max(S) = n
  <2>1. \A y \in S : n >= y
    OBVIOUS
  <2>2. Max(S) \in S /\ \A y \in S : Max(S) >= y
    BY <1>1, <2>1 DEF Max
  <2>3. Max(S) \in 1..n /\ Max(S) >= n
    BY <1>1, <2>2
  <2> QED BY <2>3
<1>2. ASSUME S = {1} PROVE Max(S) = 1
  <2>1. \A y \in {1} : 1 >= y
    OBVIOUS
  <2> QED BY <1>2, <2>1 DEF Max
<1> QED BY <1>1, <1>2

\* What the attempts left agrees with what was wanted for.
THEOREM CapturesShowResults == FixtureSpec => []CaptureShowsResult
<1>1. FixtureSpec => [](DevicesInv /\ TestsInv)
  BY DevicesStart, DevicesKept, TestsStart, TestsKept, PTL DEF FixtureSpec
<1>2. TestsInv => CaptureShowsResult
  <2> SUFFICES ASSUME TestsInv, test.stage = "returned" PROVE CaptureShowsResult
    BY DEF CaptureShowsResult
  <2> DEFINE ran == { k \in DOMAIN attempts : attempts[k].end \in Ran }
             wanted == test.desc.GPUCaptureMode
             enabled == IsGPUCaptureEnabled(test.fixture)
  <2>1. TriedOnce \/ TriedTwice
    BY DEF TestsInv, TriedSoFar
  <2>2. wanted \in {"Off", "CaptureOnFailure", "On"}
    BY DEF TestsInv, TestShaped, EGPUCaptureMode
  <2>3. DOMAIN attempts = 1..Len(attempts)
    BY DEF TestsInv, TriedSoFar
  <2>4. /\ Attempted(1, FALSE) => (attempts[1].captured <=> (enabled /\ wanted = "On"))
        /\ Attempted(2, TRUE) => (attempts[2].captured <=>
                                  (enabled /\ (wanted = "On" \/ wanted = "CaptureOnFailure")))
    BY Zenon DEF Attempted, ShouldTakeCapture
  <2>5. "fail" \in Ran /\ "fail" \notin Errors
    BY DEF Ran, Errors
  <2>6. CASE TriedOnce
    <3>1. /\ Len(attempts) = 1 /\ captureFile = (IF Shown(1) THEN 1 ELSE 0)
          /\ attempts[1].captured <=> (enabled /\ wanted = "On")
          /\ ~(attempts[1].end = "fail" /\ RequestedRetryOnFail(test.desc))
      BY <2>4, <2>6 DEF TriedOnce
    <3>2. captureFile # 0 => captureFile = 1 /\ Shown(1) /\ wanted = "On"
      BY <3>1 DEF Shown
    <3>3. ran \subseteq 1..1
      BY <2>3, <3>1
    <3>4. captureFile # 0 => captureFile = Max(ran)
      <4> SUFFICES ASSUME captureFile # 0 PROVE Max(ran) = 1
        BY <3>2
      <4>1. 1 \in ran
        BY <2>3, <3>1, <3>2 DEF Shown
      <4> HIDE DEF ran
      <4> QED BY <3>3, <4>1, LastOfTwo
    <3>5. attempts[1].end = "fail" => wanted # "CaptureOnFailure"
      BY <3>1 DEF RequestedRetryOnFail
    <3>6. wanted # "Off" /\ enabled /\ attempts[Len(attempts)].end = "fail" => captureFile = Len(attempts)
      BY <2>2, <2>5, <3>1, <3>5 DEF Shown
    <3> HIDE DEF ran, wanted, enabled
    <3> QED BY <3>1, <3>2, <3>4, <3>6 DEF CaptureShowsResult, ran, wanted, enabled
  <2>7. CASE TriedTwice
    <3>1. /\ Len(attempts) = 2 /\ attempts[1].end = "fail"
          /\ captureFile = IF Shown(2) THEN 2 ELSE IF Shown(1) THEN 1 ELSE 0
          /\ attempts[1].captured <=> (enabled /\ wanted = "On")
          /\ attempts[2].captured <=> (enabled /\ (wanted = "On" \/ wanted = "CaptureOnFailure"))
      BY <2>4, <2>7 DEF TriedTwice
    <3>2. ran \subseteq 1..2
      BY <2>3, <3>1
    <3>3. captureFile # 0 => captureFile = Max(ran)
      <4>1. CASE Shown(2)
        <5>1. 2 \in ran
          BY <2>3, <3>1, <4>1 DEF Shown
        <5> HIDE DEF ran
        <5> QED BY <3>1, <3>2, <4>1, <5>1, LastOfTwo
      <4>2. CASE ~Shown(2) /\ Shown(1)
        <5>1. 1 \in ran /\ 2 \notin ran
          BY <2>3, <3>1, <4>2 DEF Shown
        <5> HIDE DEF ran
        <5>2. \A k \in 1..2 : k = 1 \/ k = 2
          OBVIOUS
        <5>3. ran = {1}
          BY <3>2, <5>1, <5>2, Zenon
        <5> QED BY <3>1, <3>2, <4>2, <5>3, LastOfTwo
      <4> QED BY <3>1, <4>1, <4>2
    <3>4. wanted # "Off" /\ enabled /\ attempts[Len(attempts)].end = "fail" => captureFile = Len(attempts)
      BY <2>2, <2>5, <3>1 DEF Shown
    <3> HIDE DEF ran, wanted, enabled
    <3> QED BY <2>5, <3>1, <3>3, <3>4 DEF CaptureShowsResult, ran, wanted, enabled
  <2> QED BY <2>1, <2>6, <2>7
<1> QED BY <1>1, <1>2, PTL

\* The types of a fixture, its device and its stats, in every state.
THEOREM FixtureTypeCorrect == FixtureSpec => []FixtureTypeOK
<1>1. FixtureSpec => [](DevicesInv /\ StatsInv /\ TestsInv)
  BY DevicesStart, DevicesKept, StatsStart, StatsKept, TestsStart, TestsKept, PTL DEF FixtureSpec
<1>2. DevicesInv /\ StatsInv /\ TestsInv => FixtureTypeOK
  BY DEF DevicesInv, FixturesTyped, StatsInv, TestsInv, TriedSoFar, FixtureTypeOK
<1> QED BY <1>1, <1>2, PTL

-----------------------------------------------------------------------------
(* The stats a fixture leaves behind. *)

\* FlushTimedStats returns the names of the stats, when all have ended.
LEMMA AllCompleted ==
  ASSUME NEW s, IsStats(s), NEW X, NEW b \in Seq(X), Len(s) = Len(b),
         \A k \in 1..Len(b) : s[k].name = b[k] /\ s[k].ended
  PROVE  Completed(s) = b
<1> DEFINE n == Len(b)
           G == [p \in Seq(X) \X (1..n) |-> Append(p[1], b[p[2]])]
           Kept(names, k) == IF s[k].ended THEN Append(names, s[k].name) ELSE names
           Rule(iter) == iter = [t \in SUBSET (1..n) |->
              IF t = {} THEN <<>> ELSE Kept(iter[t \ {Largest(t)}], Largest(t))]
<1>0. n \in Nat /\ DOMAIN s = 1..n
  BY LengthOfStats
<1>1. Completed(s) = (CHOOSE iter : Rule(iter))[1..n]
  BY <1>0 DEF Completed, FoldLeft, MapThenFoldSet, Max, Largest
<1>2. \A names : \A k \in 1..n : Kept(names, k) = Append(names, b[k])
  OBVIOUS
<1> HIDE DEF Kept
<1>3. \A v \in Seq(X) : \A k \in 1..n : G[<<v, k>>] = Append(v, b[k]) /\ G[<<v, k>>] \in Seq(X)
  OBVIOUS
<1>4. <<>> \in Seq(X)
  OBVIOUS
<1> HIDE DEF G
<1>5. PICK fold \in [SUBSET (1..n) -> Seq(X)] : IsFold(fold, n, <<>>, G)
  <2> HIDE DEF n
  <2> QED BY <1>0, <1>3, <1>4, FoldExists
<1>6. Rule(fold)
  <2>1. ASSUME NEW t \in SUBSET (1..n), t # {}
        PROVE  G[<<fold[t \ {Largest(t)}], Largest(t)>>] = Kept(fold[t \ {Largest(t)}], Largest(t))
    <3>1. Largest(t) \in 1..n /\ t \ {Largest(t)} \in SUBSET (1..n)
      BY <1>0, <2>1, LargestIn
    <3>2. PICK v \in Seq(X), k \in 1..n : v = fold[t \ {Largest(t)}] /\ k = Largest(t)
      BY <3>1
    <3>3. G[<<v, k>>] = Kept(v, k)
      <4>1. G[<<v, k>>] = Append(v, b[k])
        BY <1>3
      <4>2. Kept(v, k) = Append(v, b[k])
        BY <1>2, Zenon
      <4> QED BY <4>1, <4>2
    <3> QED BY <3>2, <3>3
  <2> QED BY <1>5, <2>1 DEF IsFold
<1> DEFINE iter == CHOOSE it : Rule(it)
<1>7. Rule(iter)
  BY <1>6
<1> HIDE DEF iter
<1> DEFINE W == {iter[t] : t \in SUBSET (1..n)}
           H == [p \in W \X (1..n) |-> Append(p[1], b[p[2]])]
<1>8. \A t \in SUBSET (1..n) : \A k \in 1..n : H[<<iter[t], k>>] = Append(iter[t], b[k])
  OBVIOUS
<1> HIDE DEF H
<1>9. IsFold(iter, n, <<>>, H)
  <2>1. ASSUME NEW t \in SUBSET (1..n), t # {}
        PROVE  H[<<iter[t \ {Largest(t)}], Largest(t)>>] = Kept(iter[t \ {Largest(t)}], Largest(t))
    <3>1. Largest(t) \in 1..n /\ t \ {Largest(t)} \in SUBSET (1..n)
      BY <1>0, <2>1, LargestIn
    <3>2. PICK v, k : k \in 1..n /\ v = iter[t \ {Largest(t)}] /\ k = Largest(t)
      BY <3>1
    <3>3. H[<<v, k>>] = Append(v, b[k])
      BY <1>8, <3>1, <3>2
    <3>4. Kept(v, k) = Append(v, b[k])
      BY <3>2, <1>2, Zenon
    <3> QED BY <3>2, <3>3, <3>4
  <2> QED BY <1>7, <2>1 DEF IsFold
<1>10. /\ iter[1..0] = <<>>
       /\ \A k \in 0..n - 1 : iter[1..k + 1] = H[<<iter[1..k], k + 1>>]
  <2>1. n \in Nat
    BY <1>0
  <2> HIDE DEF n, W, Rule
  <2>2. iter[1..0] = <<>>
    BY <1>9, <2>1, FoldSteps
  <2>3. \A k \in 0..n - 1 : iter[1..k + 1] = H[<<iter[1..k], k + 1>>]
    BY <1>9, <2>1, FoldSteps
  <2> QED BY <2>2, <2>3
<1> DEFINE Good(names, k) == names \in Seq(X) /\ Len(names) = k /\ \A j \in 1..k : names[j] = b[j]
           T == {k \in 0..n : Good(iter[1..k], k)}
<1>11. 0 \in T
  <2>1. <<>> \in Seq(X) /\ Len(<<>>) = 0 /\ 0 \in 0..n /\ \A j \in 1..0 : FALSE
    BY <1>0
  <2> QED BY <1>10, <2>1
<1>12. ASSUME NEW k \in 0..n - 1, k \in T PROVE k + 1 \in T
  <2>1. 1..k \in SUBSET (1..n) /\ k + 1 \in 1..n /\ k + 1 \in 0..n /\ k \in Nat
    BY <1>0
  <2>2. iter[1..k + 1] = Append(iter[1..k], b[k + 1])
    BY <1>8, <1>10, <2>1
  <2>3. PICK names : names = iter[1..k]
    OBVIOUS
  <2>4. names \in Seq(X) /\ Len(names) = k /\ \A j \in 1..k : names[j] = b[j]
    BY <1>12, <2>3
  <2>5. b[k + 1] \in X
    BY <2>1
  <2>6. Good(Append(names, b[k + 1]), k + 1)
    <3>1. /\ Append(names, b[k + 1]) \in Seq(X) /\ Len(Append(names, b[k + 1])) = k + 1
          /\ \A j \in 1..k : Append(names, b[k + 1])[j] = names[j]
          /\ Append(names, b[k + 1])[k + 1] = b[k + 1]
      BY <2>4, <2>5, AppendElements
    <3>2. \A j \in 1..k + 1 : j \in 1..k \/ j = k + 1
      BY <2>1
    <3> QED BY <2>4, <3>1, <3>2
  <2> QED BY <2>1, <2>2, <2>3, <2>6
<1>13. Good(iter[1..n], n)
  <2>1. \A k \in 0..n : k \in T
    <3>1. n \in Nat
      BY <1>0
    <3> HIDE DEF T, n
    <3> QED BY <3>1, <1>11, <1>12, EveryNumberTo
  <2> QED BY <1>0, <2>1
<1>14. Completed(s) = iter[1..n]
  BY <1>1 DEF iter
<1> QED BY <1>13, <1>14, SameElements

-----------------------------------------------------------------------------
IsNames(b) == \E X : b \in Seq(X)

\* EndStat ends the k-th stat with handle h.
EndsIt(h, k) == h.valid /\ h.gen = m_CurrentGen /\ h.id = k - 1

\* The stats are those of the names, in that order, and all have ended but some of open.
Noted(s, b, open) ==
  /\ IsStats(s) /\ IsNames(b) /\ Len(s) = Len(b)
  /\ \A k \in 1..Len(b) : s[k].name = b[k] /\ (s[k].ended \/ k \in open)

LEMMA LengthOfNames ==
  ASSUME NEW b, IsNames(b)
  PROVE  Len(b) \in Nat
BY DEF IsNames

LEMMA NameAdded ==
  ASSUME NEW b, IsNames(b), NEW name
  PROVE  /\ IsNames(Append(b, name)) /\ Len(Append(b, name)) = Len(b) + 1
         /\ \A k \in 1..Len(b) : Append(b, name)[k] = b[k]
         /\ Append(b, name)[Len(b) + 1] = name
<1>1. PICK X : b \in Seq(X)
  BY DEF IsNames
<1>2. PICK Y : Y = X \cup {name}
  OBVIOUS
<1>3. b \in Seq(Y) /\ name \in Y
  BY <1>1, <1>2, SeqOverMore
<1>4. /\ Append(b, name) \in Seq(Y) /\ Len(Append(b, name)) = Len(b) + 1
      /\ \A k \in 1..Len(b) : Append(b, name)[k] = b[k]
      /\ Append(b, name)[Len(b) + 1] = name
  BY <1>3, AppendElements
<1> QED BY <1>4 DEF IsNames

LEMMA BeginNotes ==
  ASSUME NEW s, NEW b, NEW open, Noted(s, b, open), Len(b) < MaxIds, NEW name
  PROVE  /\ Noted(BeginStat(s, name), Append(b, name), open \cup {Len(b) + 1})
         /\ EndsIt(BeginHandle(s, name), Len(b) + 1)
<1>1. Len(b) \in Nat /\ Len(s) = Len(b) /\ MaxIds \in Nat /\ Len(s) <= MaxIds /\ IsStats(s) /\ IsNames(b)
  BY LengthOfNames, StatAssumption DEF Noted
<1>2. PICK t, c : t = BeginStat(s, name) /\ c = Append(b, name)
  OBVIOUS
<1>3. IsStats(t) /\ Len(t) = Len(b) + 1 /\ (\A k \in 1..Len(b) : t[k] = s[k]) /\ t[Len(b) + 1].name = name
  <2>1. IsStats(t) /\ Len(t) = Len(b) + 1 /\ t[Len(b) + 1].name = name
    BY <1>1, <1>2, BeginContinues DEF Continues
  <2>2. t = Append(s, [name |-> name, ended |-> FALSE])
    BY <1>1, <1>2 DEF BeginStat
  <2>3. \A k \in 1..Len(b) : t[k] = s[k]
    <3>1. PICK N : s \in Seq([name : N, ended : BOOLEAN])
      BY <1>1 DEF IsStats
    <3>2. PICK S, e : S = [name : N, ended : BOOLEAN] /\ e = [name |-> name, ended |-> FALSE]
      OBVIOUS
    <3>3. s \in Seq(S \cup {e}) /\ e \in S \cup {e}
      <4>1. s \in Seq(S)
        BY <3>1, <3>2, Zenon
      <4> QED BY <4>1, SeqOverMore
    <3>4. t = Append(s, e)
      BY <2>2, <3>2, Zenon
    <3> QED BY <1>1, <3>3, <3>4, AppendElements
  <2> QED BY <2>1, <2>3
<1>4. IsNames(c) /\ Len(c) = Len(b) + 1 /\ (\A k \in 1..Len(b) : c[k] = b[k]) /\ c[Len(b) + 1] = name
  BY <1>1, <1>2, NameAdded
<1>5. ASSUME NEW k \in 1..Len(b) + 1
      PROVE  t[k].name = c[k] /\ (t[k].ended \/ k \in open \cup {Len(b) + 1})
  <2>1. k \in 1..Len(b) \/ k = Len(b) + 1
    BY <1>1
  <2> QED BY <1>3, <1>4, <2>1 DEF Noted
<1>6. Noted(t, c, open \cup {Len(b) + 1})
  BY <1>3, <1>4, <1>5 DEF Noted
<1>7. EndsIt(BeginHandle(s, name), Len(b) + 1)
  <2>1. Len(s) % MaxIds = Len(b) /\ ~(Len(s) > MaxIds) /\ (Len(b) + 1) - 1 = Len(b)
    BY <1>1
  <2> QED BY <2>1 DEF BeginHandle, EndsIt
<1> QED BY <1>2, <1>6, <1>7

LEMMA EndNotes ==
  ASSUME NEW s, NEW b, NEW open, Noted(s, b, open), NEW h
  PROVE  Noted(EndStat(h, s), b, {k \in open : ~EndsIt(h, k)})
<1>1. Len(b) \in Nat /\ Len(s) = Len(b) /\ IsStats(s) /\ IsNames(b)
  BY LengthOfNames DEF Noted
<1>2. PICK t : t = EndStat(h, s)
  OBVIOUS
<1>3. IsStats(t) /\ \A k \in 1..Len(b) : t[k].name = s[k].name
  BY <1>1, <1>2, EndContinues DEF Continues
<1>4. Len(t) = Len(b) /\ \A k \in 1..Len(b) : (s[k].ended => t[k].ended) /\ (EndsIt(h, k) => t[k].ended)
  <2>1. CASE ~Accepted(h, s)
    <3>1. t = s
      BY <1>2, <2>1 DEF EndStat
    <3>2. \A k \in 1..Len(b) : ~EndsIt(h, k)
      <4>1. ASSUME NEW k \in 1..Len(b), EndsIt(h, k) PROVE FALSE
        <5>1. h.id = k - 1 /\ k - 1 < Len(s)
          BY <1>1, <4>1 DEF EndsIt
        <5> QED BY <2>1, <4>1, <5>1 DEF Accepted, EndsIt
      <4> QED BY <4>1
    <3> QED BY <1>1, <3>1, <3>2
  <2>2. CASE Accepted(h, s)
    <3>1. t = [s EXCEPT ![h.id + 1].ended = TRUE]
      BY <1>2, <2>2 DEF EndStat
    <3>2. PICK N : s \in Seq([name : N, ended : BOOLEAN])
      BY <1>1 DEF IsStats
    <3>3. /\ DOMAIN t = DOMAIN s /\ DOMAIN s = 1..Len(b)
          /\ \A k \in 1..Len(b) : t[k] = IF k = h.id + 1 THEN [s[k] EXCEPT !.ended = TRUE] ELSE s[k]
      <4>1. DOMAIN s = 1..Len(b)
        BY <1>1, LengthOfStats
      <4> QED BY <3>1, <4>1
    <3>4. \A k \in 1..Len(b) : s[k] \in [name : N, ended : BOOLEAN]
      <4>1. PICK S : S = [name : N, ended : BOOLEAN]
        OBVIOUS
      <4>2. s \in Seq(S)
        BY <3>2, <4>1, Zenon
      <4>3. \A k \in 1..Len(b) : s[k] \in S
        BY <1>1, <4>2
      <4> QED BY <4>1, <4>3, Zenon
    <3>5. \A k \in 1..Len(b) : k = h.id + 1 => t[k].ended
      BY <3>3, <3>4
    <3>6. \A k \in 1..Len(b) : EndsIt(h, k) => k = h.id + 1
      BY <1>1 DEF EndsIt
    <3>7. Len(t) = Len(b)
      <4>1. DOMAIN t = 1..Len(t) /\ Len(t) \in Nat
        BY <1>3, LengthOfStats
      <4> QED BY <1>1, <3>3, <4>1
    <3>8. ASSUME NEW k \in 1..Len(b), s[k].ended PROVE t[k].ended
      <4>1. CASE k = h.id + 1
        BY <3>5, <4>1
      <4>2. CASE k # h.id + 1
        BY <3>3, <3>8, <4>2
      <4> QED BY <4>1, <4>2
    <3> QED BY <3>5, <3>6, <3>7, <3>8
  <2> QED BY <2>1, <2>2
<1> QED BY <1>1, <1>2, <1>3, <1>4 DEF Noted

\* Fewer may be open, when those are not.
LEMMA NotedAlso ==
  ASSUME NEW s, NEW b, NEW open, Noted(s, b, open), NEW more, \A k \in 1..Len(b) : k \in open => k \in more
  PROVE  Noted(s, b, more)
BY DEF Noted

-----------------------------------------------------------------------------
\* The stats of f that may still be open: of its own scope and of the test it runs.
OpenOf(f) ==
  { k \in 1..Len(begun[f]) :
      \/ fixture[f] = "ready" /\ EndsIt(scope[f], k)
      \/ test.stage \in {"first", "retry", "terminated"} /\ EndsIt(test.fullTest, k) }

\* A fixture that is alone finds its own stats in the system and no others.
AloneInv ==
  /\ DOMAIN begun = Fixtures /\ \A f \in Fixtures : IsNames(begun[f])
  /\ alone \subseteq Fixtures
  /\ test.stage # "idle" => test.fixture \in Alive
  /\ Alive = {} => m_RawTimedStats = <<>>
  /\ \A f \in alone : /\ Alive = {f}
                      /\ Len(begun[f]) <= MaxIds => Noted(m_RawTimedStats, begun[f], OpenOf(f))

LEMMA AloneStart == FixtureInit => AloneInv
<1> SUFFICES ASSUME FixtureInit PROVE AloneInv
  OBVIOUS
<1>1. \A f \in Fixtures : begun[f] = <<>> /\ fixture[f] = "none"
  BY DEF FixtureInit
<1>2. IsNames(<<>>)
  <2>1. <<>> \in Seq({})
    OBVIOUS
  <2> QED BY <2>1 DEF IsNames
<1>3. m_RawTimedStats = <<>> /\ alone = {} /\ test.stage = "idle" /\ DOMAIN begun = Fixtures
  BY DEF FixtureInit, StatInit, Idle
<1> QED BY <1>1, <1>2, <1>3 DEF AloneInv

\* What the steps of a fixture do to its names and stats.
LEMMA AloneConstructs ==
  ASSUME TestsInv, StatsInv, AloneInv, NEW f \in Fixtures,
         ConstructBase(f) \/ ConstructDriver(f) \/ ConstructDriverThrows(f)
  PROVE  AloneInv'
<1>0. fixture \in [Fixtures -> {"none", "based", "ready", "undriven"}] /\ test.stage = "idle" /\ test' = test
  <2>1. CASE ConstructBase(f)
    BY <2>1 DEF ConstructBase, Quiet, Idle, TestsInv, FixturesTyped, runVars
  <2>2. CASE ConstructDriver(f) \/ ConstructDriverThrows(f)
    <3>1. f \in Alive /\ fixture[f] # "ready"
      BY <2>2 DEF ConstructDriver, ConstructDriverThrows, Alive
    <3> QED BY <2>2, <3>1 DEF ConstructDriver, ConstructDriverThrows, TestsInv, TestAlone, FixturesTyped, runVars
  <2> QED BY <2>1, <2>2
<1>1. CASE ConstructBase(f) /\ device'[f].is = "ready"
  <2>1. /\ fixture' = [fixture EXCEPT ![f] = "based"] /\ begun' = [begun EXCEPT ![f] = <<>>]
        /\ alone' = (IF Alive = {} THEN {f} ELSE {}) /\ m_RawTimedStats' = m_RawTimedStats
    BY <1>1 DEF ConstructBase, statVars
  <2>2. IsNames(<<>>)
    <3>1. <<>> \in Seq({})
      OBVIOUS
    <3> QED BY <3>1 DEF IsNames
  <2>3. DOMAIN begun' = Fixtures /\ \A g \in Fixtures : IsNames(begun'[g])
    BY <2>1, <2>2 DEF AloneInv
  <2>4. \A g \in Fixtures : g \in Alive' <=> g \in Alive \/ g = f
    BY <1>0, <2>1 DEF Alive
  <2>5. f \in Alive'
    BY <2>4
  <2>6. ASSUME NEW g \in alone'
        PROVE  Alive' = {g} /\ (Len(begun'[g]) <= MaxIds => Noted(m_RawTimedStats', begun'[g], OpenOf(g)'))
    <3>1. g = f /\ Alive = {}
      BY <2>1, <2>6
    <3>2. Alive' = {g}
      BY <2>4, <3>1 DEF Alive
    <3>3. m_RawTimedStats' = <<>> /\ begun'[g] = <<>>
      BY <2>1, <3>1 DEF AloneInv
    <3>4. \A open : Noted(<<>>, <<>>, open)
      <4>1. <<>> \in Seq([name : {}, ended : BOOLEAN]) /\ Len(<<>>) = 0
        OBVIOUS
      <4> QED BY <2>2, <4>1 DEF Noted, IsStats
    <3> QED BY <3>2, <3>3, <3>4
  <2>7. alone' \subseteq Fixtures
    BY <2>1
  <2> QED BY <1>0, <2>3, <2>5, <2>6, <2>7 DEF AloneInv
<1>2. CASE ConstructBase(f) /\ device'[f].is # "ready"
  <2>1. UNCHANGED <<fixture, begun, alone, m_RawTimedStats, test, m_CurrentGen, scope>>
    BY <1>2 DEF ConstructBase, statVars, runVars
  <2>2. \A g \in Fixtures : OpenOf(g)' = OpenOf(g)
    BY <2>1 DEF OpenOf, EndsIt
  <2> QED BY <2>1, <2>2 DEF AloneInv, Alive
<1>3. CASE ConstructDriver(f) \/ ConstructDriverThrows(f)
  <2>1. f \in Alive /\ fixture[f] = "based" /\ alone' = alone /\ m_CurrentGen' = m_CurrentGen
    BY <1>3 DEF ConstructDriver, ConstructDriverThrows, Alive, statVars
  <2>2. \A g \in alone : g = f
    BY <2>1 DEF AloneInv
  <2>3. fixture' = [fixture EXCEPT ![f] = "ready"] \/ fixture' = [fixture EXCEPT ![f] = "undriven"]
    BY <1>3 DEF ConstructDriver, ConstructDriverThrows
  <2>4. Alive' = Alive
    BY <1>0, <2>1, <2>3 DEF Alive
  <2>5. ASSUME f \in alone, Len(begun[f]) <= MaxIds PROVE Noted(m_RawTimedStats, begun[f], {})
    <3>1. OpenOf(f) = {}
      BY <1>0, <2>1 DEF OpenOf
    <3> QED BY <2>5, <3>1 DEF AloneInv
  <2>6. CASE ConstructDriverThrows(f)
    <3>1. UNCHANGED <<begun, m_RawTimedStats>>
      BY <2>6 DEF ConstructDriverThrows, statVars
    <3>2. ASSUME f \in alone, Len(begun[f]) <= MaxIds PROVE Noted(m_RawTimedStats, begun[f], OpenOf(f)')
      BY <2>5, <3>2, NotedAlso
    <3> QED BY <1>0, <2>1, <2>2, <2>4, <3>1, <3>2 DEF AloneInv
  <2>7. CASE ConstructDriver(f)
    <3>1. PICK name : name = <<f, "scope">>
      OBVIOUS
    <3>2. /\ fixture' = [fixture EXCEPT ![f] = "ready"]
          /\ scope' = [scope EXCEPT ![f] = BeginHandle(m_RawTimedStats, name)]
          /\ m_RawTimedStats' = BeginStat(m_RawTimedStats, name)
          /\ begun' = [begun EXCEPT ![f] = Append(begun[f], name)]
      BY <2>7, <3>1 DEF ConstructDriver
    <3>3. begun'[f] = Append(begun[f], name) /\ scope'[f] = BeginHandle(m_RawTimedStats, name)
          /\ fixture'[f] = "ready"
      BY <1>0, <3>2 DEF AloneInv, StatsInv
    <3>4. /\ IsNames(Append(begun[f], name)) /\ Len(Append(begun[f], name)) = Len(begun[f]) + 1
          /\ Len(begun[f]) \in Nat /\ MaxIds \in Nat
      BY NameAdded, LengthOfNames, StatAssumption DEF AloneInv
    <3>5. DOMAIN begun' = Fixtures /\ \A g \in Fixtures : IsNames(begun'[g])
      BY <3>2, <3>4 DEF AloneInv
    <3>6. ASSUME f \in alone, Len(begun'[f]) <= MaxIds
          PROVE  Noted(m_RawTimedStats', begun'[f], OpenOf(f)')
      <4>1. Len(begun[f]) < MaxIds /\ Len(begun[f]) <= MaxIds
        BY <3>3, <3>4, <3>6
      <4>2. /\ Noted(BeginStat(m_RawTimedStats, name), Append(begun[f], name), {} \cup {Len(begun[f]) + 1})
            /\ EndsIt(BeginHandle(m_RawTimedStats, name), Len(begun[f]) + 1)
        BY <2>5, <3>6, <4>1, BeginNotes
      <4>3. PICK n \in Nat : n = Len(begun[f]) + 1
        BY <3>4
      <4>4. EndsIt(scope[f], n)'
        BY <2>1, <3>3, <4>2, <4>3 DEF EndsIt
      <4>5. n \in 1..Len(begun'[f])
        BY <3>3, <3>4, <4>3
      <4>6. n \in OpenOf(f)'
        BY <3>3, <4>4, <4>5 DEF OpenOf
      <4>7. Noted(m_RawTimedStats', begun'[f], {n})
        BY <3>2, <3>3, <4>2, <4>3
      <4> QED BY <4>6, <4>7, NotedAlso
    <3> QED BY <1>0, <2>1, <2>2, <2>4, <3>5, <3>6 DEF AloneInv
  <2> QED BY <1>3, <2>6, <2>7
<1> QED BY <1>1, <1>2, <1>3

\* A test begins: its stat stays open while it runs.
LEMMA AloneTests ==
  ASSUME TestsInv, StatsInv, AloneInv, NEW f \in Fixtures, RunTest(f)
  PROVE  AloneInv'
<1>1. PICK name : name = <<f, "RunTest", tests>>
  OBVIOUS
<1>2. PICK h : h = BeginHandle(m_RawTimedStats, name)
  OBVIOUS
<1>3. /\ test.stage = "idle" /\ test'.stage = "first" /\ test'.fixture = f /\ test'.fullTest = h
      /\ m_RawTimedStats' = BeginStat(m_RawTimedStats, name)
      /\ begun' = [begun EXCEPT ![f] = Append(begun[f], name)]
      /\ UNCHANGED <<fixture, alone, scope, m_CurrentGen>>
      /\ f \in Alive
  <2>1. /\ m_RawTimedStats' = BeginStat(m_RawTimedStats, name)
        /\ begun' = [begun EXCEPT ![f] = Append(begun[f], name)]
        /\ UNCHANGED <<fixture, alone, scope, m_CurrentGen>>
        /\ test = Idle /\ fixture[f] = "ready"
    BY <1>1 DEF RunTest, Quiet, fixtureVars
  <2>2. PICK capture \in EGPUCaptureMode, strings \in EStringMode :
          test' = [stage |-> "first", fixture |-> f, desc |-> Prepared(capture, strings), fullTest |-> h]
    BY <1>1, <1>2 DEF RunTest
  <2>3. PICK desc : desc = Prepared(capture, strings)
    OBVIOUS
  <2>4. test' = [stage |-> "first", fixture |-> f, desc |-> desc, fullTest |-> h]
    BY <2>2, <2>3
  <2> QED BY <2>1, <2>4 DEF Alive, Idle
<1>4. begun'[f] = Append(begun[f], name) /\ Alive' = Alive
  BY <1>3 DEF AloneInv, Alive
<1>5. /\ IsNames(Append(begun[f], name)) /\ Len(Append(begun[f], name)) = Len(begun[f]) + 1
      /\ Len(begun[f]) \in Nat /\ MaxIds \in Nat
  BY NameAdded, LengthOfNames, StatAssumption DEF AloneInv
<1>6. DOMAIN begun' = Fixtures /\ \A g \in Fixtures : IsNames(begun'[g])
  BY <1>3, <1>5 DEF AloneInv
<1>7. \A g \in alone : g = f
  BY <1>3 DEF AloneInv
<1>8. ASSUME f \in alone, Len(begun'[f]) <= MaxIds
      PROVE  Noted(m_RawTimedStats', begun'[f], OpenOf(f)')
  <2>1. Len(begun[f]) < MaxIds /\ Len(begun[f]) <= MaxIds
    BY <1>4, <1>5, <1>8
  <2>2. PICK open : open = OpenOf(f)
    OBVIOUS
  <2>3. Noted(m_RawTimedStats, begun[f], open)
    BY <1>8, <2>1, <2>2 DEF AloneInv
  <2>4. PICK n \in Nat : n = Len(begun[f]) + 1
    BY <1>5
  <2>5. Noted(m_RawTimedStats', begun'[f], open \cup {n}) /\ EndsIt(h, n)
    <3>1. /\ Noted(BeginStat(m_RawTimedStats, name), Append(begun[f], name), open \cup {Len(begun[f]) + 1})
          /\ EndsIt(BeginHandle(m_RawTimedStats, name), Len(begun[f]) + 1)
      BY <2>1, <2>3, BeginNotes
    <3> QED BY <1>2, <1>3, <1>4, <2>4, <3>1
  <2>6. ASSUME NEW k \in open \cup {n} PROVE k \in OpenOf(f)'
    <3>1. k \in 1..n /\ Len(begun'[f]) = n
      BY <1>4, <1>5, <2>2, <2>4 DEF OpenOf
    <3>2. CASE k \in open
      <4>1. fixture[f] = "ready" /\ EndsIt(scope[f], k)
        BY <1>3, <2>2, <3>2 DEF OpenOf
      <4> QED BY <1>3, <3>1, <4>1 DEF OpenOf, EndsIt
    <3>3. CASE k = n
      <4>1. EndsIt(h, k)
        BY <2>5, <3>3
      <4>2. EndsIt(test.fullTest, k)'
        BY <1>3, <4>1 DEF EndsIt
      <4> QED BY <1>3, <3>1, <4>2 DEF OpenOf
    <3> QED BY <3>2, <3>3
  <2> QED BY <2>5, <2>6, NotedAlso
<1> QED BY <1>3, <1>4, <1>6, <1>7, <1>8 DEF AloneInv

\* A stat that is begun and ended at once.
LEMMA WholeNotes ==
  ASSUME NEW s, NEW b, NEW open, Noted(s, b, open), Len(b) < MaxIds, NEW name,
         open \subseteq 1..Len(b)
  PROVE  Noted(EndStat(BeginHandle(s, name), BeginStat(s, name)), Append(b, name), open)
<1>1. PICK t, c, h, n : t = BeginStat(s, name) /\ c = Append(b, name) /\ h = BeginHandle(s, name) /\ n = Len(b) + 1
  OBVIOUS
<1>2. Noted(t, c, open \cup {n}) /\ EndsIt(h, n)
  BY <1>1, BeginNotes
<1>3. Noted(EndStat(h, t), c, {k \in open \cup {n} : ~EndsIt(h, k)})
  BY <1>2, EndNotes
<1>4. \A k : k \in {j \in open \cup {n} : ~EndsIt(h, j)} => k \in open
  BY <1>2
<1>5. Noted(EndStat(h, t), c, open)
  BY <1>3, <1>4, NotedAlso
<1> QED BY <1>1, <1>5

\* An attempt notes its compilation; with the last the stat of the test ends.
LEMMA AloneAttempts ==
  ASSUME TestsInv, StatsInv, AloneInv, NEW retry \in BOOLEAN, RunTestImpl(retry),
         test.stage = IF retry THEN "retry" ELSE "first"
  PROVE  AloneInv'
<1>1. PICK f : f = test.fixture
  OBVIOUS
<1>2. f \in Alive /\ f \in Fixtures /\ test.stage \in {"first", "retry"} /\ test.stage # "idle"
  BY <1>1 DEF AloneInv, Alive
<1>3. PICK name : name = <<f, "CompileShader", tests, retry>>
  OBVIOUS
<1>4. PICK stats : stats = EndStat(BeginHandle(m_RawTimedStats, name), BeginStat(m_RawTimedStats, name))
  OBVIOUS
<1>5. PICK next : /\ next \in {"terminated", "retry", "returned"}
                  /\ test'.stage = next /\ test'.fixture = f /\ test'.fullTest = test.fullTest
                  /\ m_RawTimedStats' = IF next = "returned" THEN EndStat(test.fullTest, stats) ELSE stats
                  /\ begun' = [begun EXCEPT ![f] = Append(begun[f], name)]
                  /\ UNCHANGED <<fixture, alone, scope, m_CurrentGen>>
  <2>1. PICK end, desc :
          /\ test' = [test EXCEPT !.stage = NextStage(end, retry, test.desc), !.desc = desc]
          /\ m_RawTimedStats' = IF NextStage(end, retry, test.desc) = "returned"
                                THEN EndStat(test.fullTest, stats) ELSE stats
          /\ begun' = [begun EXCEPT ![f] = Append(begun[f], name)]
          /\ UNCHANGED <<fixture, alone, scope, m_CurrentGen>>
    BY <1>1, <1>3, <1>4 DEF RunTestImpl, fixtureVars
  <2>2. PICK next : next = NextStage(end, retry, test.desc)
    OBVIOUS
  <2>3. next \in {"terminated", "retry", "returned"}
    BY <2>2 DEF NextStage
  <2>4. test = [stage |-> test.stage, fixture |-> test.fixture, desc |-> test.desc,
                fullTest |-> test.fullTest]
    BY <1>2 DEF TestsInv, TestShaped
  <2>5. test' = [test EXCEPT !.stage = next, !.desc = desc]
    BY <2>1, <2>2
  <2>6. test'.stage = next /\ test'.fixture = f /\ test'.fullTest = test.fullTest
    BY <1>1, <2>4, <2>5
  <2> QED BY <2>1, <2>2, <2>3, <2>6
<1>6. begun'[f] = Append(begun[f], name) /\ Alive' = Alive
  BY <1>2, <1>5 DEF AloneInv, Alive
<1>7. /\ IsNames(Append(begun[f], name)) /\ Len(Append(begun[f], name)) = Len(begun[f]) + 1
      /\ Len(begun[f]) \in Nat /\ MaxIds \in Nat
  BY <1>2, NameAdded, LengthOfNames, StatAssumption DEF AloneInv
<1>8. DOMAIN begun' = Fixtures /\ \A g \in Fixtures : IsNames(begun'[g])
  BY <1>5, <1>7 DEF AloneInv
<1>9. \A g \in alone : g = f
  BY <1>2 DEF AloneInv
<1>10. ASSUME f \in alone, Len(begun'[f]) <= MaxIds
       PROVE  Noted(m_RawTimedStats', begun'[f], OpenOf(f)')
  <2>1. Len(begun[f]) < MaxIds /\ Len(begun[f]) <= MaxIds
    BY <1>6, <1>7, <1>10
  <2>2. PICK open : open = OpenOf(f)
    OBVIOUS
  <2>3. Noted(m_RawTimedStats, begun[f], open) /\ open \subseteq 1..Len(begun[f])
    BY <1>10, <2>1, <2>2 DEF AloneInv, OpenOf
  <2>4. Noted(stats, begun'[f], open)
    <3>1. Noted(EndStat(BeginHandle(m_RawTimedStats, name), BeginStat(m_RawTimedStats, name)),
                Append(begun[f], name), open)
      BY <2>1, <2>3, WholeNotes
    <3> QED BY <1>4, <1>6, <3>1
  <2>5. ASSUME NEW k \in open, next # "returned" \/ ~EndsIt(test.fullTest, k) PROVE k \in OpenOf(f)'
    <3>1. k \in 1..Len(begun'[f])
      BY <1>6, <1>7, <2>3
    <3>2. CASE fixture[f] = "ready" /\ EndsIt(scope[f], k)
      BY <1>5, <3>1, <3>2 DEF OpenOf, EndsIt
    <3>3. CASE EndsIt(test.fullTest, k)
      <4>1. next \in {"first", "retry", "terminated"}
        BY <1>5, <2>5, <3>3
      <4>2. EndsIt(test.fullTest, k)'
        BY <1>5, <3>3 DEF EndsIt
      <4> QED BY <1>5, <3>1, <4>1, <4>2 DEF OpenOf
    <3> QED BY <2>2, <3>2, <3>3 DEF OpenOf
  <2>6. CASE next # "returned"
    <3>1. m_RawTimedStats' = stats
      BY <1>5, <2>6
    <3>2. Noted(stats, begun'[f], OpenOf(f)')
      BY <2>4, <2>5, <2>6, NotedAlso
    <3> QED BY <3>1, <3>2
  <2>7. CASE next = "returned"
    <3>1. PICK h : h = test.fullTest
      OBVIOUS
    <3>2. m_RawTimedStats' = EndStat(h, stats)
      BY <1>5, <2>7, <3>1
    <3>3. Noted(EndStat(h, stats), begun'[f], {k \in open : ~EndsIt(h, k)})
      BY <2>4, EndNotes
    <3>4. \A k : k \in {j \in open : ~EndsIt(h, j)} => k \in OpenOf(f)'
      BY <2>5, <3>1
    <3>5. Noted(EndStat(h, stats), begun'[f], OpenOf(f)')
      BY <3>3, <3>4, NotedAlso
    <3> QED BY <3>2, <3>5
  <2> QED BY <2>6, <2>7
<1> QED BY <1>2, <1>5, <1>6, <1>8, <1>9, <1>10 DEF AloneInv

\* A test at compile time: two stats, both ended.
LEMMA AloneCompileTime ==
  ASSUME TestsInv, StatsInv, AloneInv, NEW f \in Fixtures, RunCompileTimeTest(f)
  PROVE  AloneInv'
<1>1. PICK outer, inner : outer = <<f, "RunCompileTimeTest", tests>> /\ inner = <<f, "CompileShader", tests>>
  OBVIOUS
<1>2. PICK with, h : with = BeginStat(m_RawTimedStats, outer) /\ h = BeginHandle(m_RawTimedStats, outer)
  OBVIOUS
<1>3. PICK both : both = EndStat(BeginHandle(with, inner), BeginStat(with, inner))
  OBVIOUS
<1>4. /\ m_RawTimedStats' = EndStat(h, both) /\ begun' = [begun EXCEPT ![f] = begun[f] \o <<outer, inner>>]
      /\ UNCHANGED <<fixture, alone, scope, m_CurrentGen, test>> /\ f \in Alive
      /\ test.stage = "idle"
  BY <1>1, <1>2, <1>3 DEF RunCompileTimeTest, Quiet, Idle, fixtureVars, runVars, Alive
<1>5. PICK b, c, d : b = begun[f] /\ c = Append(b, outer) /\ d = Append(c, inner)
  OBVIOUS
<1>6. IsNames(b) /\ IsNames(c) /\ IsNames(d) /\ Len(c) = Len(b) + 1 /\ Len(d) = Len(b) + 2 /\ Len(b) \in Nat
      /\ MaxIds \in Nat
  <2>1. IsNames(b)
    BY <1>5 DEF AloneInv
  <2>2. IsNames(c) /\ Len(c) = Len(b) + 1 /\ Len(b) \in Nat
    BY <1>5, <2>1, NameAdded, LengthOfNames
  <2>3. IsNames(d) /\ Len(d) = Len(c) + 1
    BY <1>5, <2>2, NameAdded
  <2> QED BY <2>1, <2>2, <2>3, StatAssumption
<1>7. begun'[f] = d
  <2>1. begun'[f] = b \o <<outer, inner>>
    BY <1>4, <1>5 DEF AloneInv
  <2>2. PICK X : b \in Seq(X)
    BY <1>6 DEF IsNames
  <2>3. b \o <<outer, inner>> = Append(Append(b, outer), inner)
    BY <2>2
  <2> QED BY <1>5, <2>1, <2>3
<1>8. DOMAIN begun' = Fixtures /\ \A g \in Fixtures : IsNames(begun'[g])
  BY <1>4, <1>6, <1>7 DEF AloneInv
<1>9. (\A g \in alone : g = f) /\ Alive' = Alive
  BY <1>4 DEF AloneInv, Alive
<1>10. ASSUME f \in alone, Len(begun'[f]) <= MaxIds
       PROVE  Noted(m_RawTimedStats', begun'[f], OpenOf(f)')
  <2>1. Len(b) < MaxIds /\ Len(b) <= MaxIds /\ Len(c) < MaxIds
    BY <1>6, <1>7, <1>10
  <2>2. PICK open, n : open = OpenOf(f) /\ n = Len(b) + 1
    OBVIOUS
  <2>3. Noted(m_RawTimedStats, b, open) /\ open \subseteq 1..Len(b)
    BY <1>5, <1>10, <2>1, <2>2 DEF AloneInv, OpenOf
  <2>4. Noted(with, c, open \cup {n}) /\ EndsIt(h, n)
    BY <1>2, <1>5, <2>1, <2>2, <2>3, BeginNotes
  <2>5. open \cup {n} \subseteq 1..Len(c)
    BY <1>6, <2>2, <2>3
  <2>6. Noted(both, d, open \cup {n})
    BY <1>3, <1>5, <2>1, <2>4, <2>5, WholeNotes
  <2>7. Noted(EndStat(h, both), d, {k \in open \cup {n} : ~EndsIt(h, k)})
    BY <2>6, EndNotes
  <2>8. ASSUME NEW k \in open PROVE k \in OpenOf(f)'
    <3>1. k \in 1..Len(begun'[f])
      BY <1>6, <1>7, <2>3
    <3>2. fixture[f] = "ready" /\ EndsIt(scope[f], k)
      BY <1>4, <2>2 DEF OpenOf
    <3> QED BY <1>4, <3>1, <3>2 DEF OpenOf, EndsIt
  <2>9. \A k : k \in {j \in open \cup {n} : ~EndsIt(h, j)} => k \in OpenOf(f)'
    BY <2>4, <2>8
  <2> QED BY <1>4, <1>7, <2>7, <2>9, NotedAlso
<1> QED BY <1>4, <1>8, <1>9, <1>10 DEF AloneInv

LEMMA AloneDestroys ==
  ASSUME TestsInv, StatsInv, AloneInv, NEW f \in Fixtures, DestroyDerived(f) \/ DestroyBase(f)
  PROVE  AloneInv'
<1>0. fixture \in [Fixtures -> {"none", "based", "ready", "undriven"}] /\ f \in Alive
      /\ test.stage = "idle" /\ test' = test /\ begun' = begun
  <2>1. CASE DestroyDerived(f)
    BY <2>1 DEF DestroyDerived, Quiet, Idle, TestsInv, FixturesTyped, runVars, Alive
  <2>2. CASE DestroyBase(f)
    <3>1. f \in Alive /\ fixture[f] # "ready"
      BY <2>2 DEF DestroyBase, Alive
    <3> QED BY <2>2, <3>1 DEF DestroyBase, TestsInv, TestAlone, FixturesTyped, runVars
  <2> QED BY <2>1, <2>2
<1>1. \A g \in alone : g = f
  BY <1>0 DEF AloneInv
<1>2. CASE DestroyDerived(f)
  <2>1. PICK h : h = scope[f]
    OBVIOUS
  <2>2. /\ m_RawTimedStats' = EndStat(h, m_RawTimedStats) /\ fixture[f] = "ready"
        /\ fixture' = [fixture EXCEPT ![f] = "undriven"] /\ UNCHANGED <<alone, m_CurrentGen>>
    BY <1>2, <2>1 DEF DestroyDerived
  <2>3. Alive' = Alive
    BY <1>0, <2>2 DEF Alive
  <2>4. ASSUME f \in alone, Len(begun[f]) <= MaxIds
        PROVE  Noted(m_RawTimedStats', begun[f], OpenOf(f)')
    <3>1. PICK open : open = OpenOf(f)
      OBVIOUS
    <3>2. Noted(m_RawTimedStats, begun[f], open)
      BY <2>4, <3>1 DEF AloneInv
    <3>3. Noted(EndStat(h, m_RawTimedStats), begun[f], {k \in open : ~EndsIt(h, k)})
      BY <3>2, EndNotes
    <3>4. {k \in open : ~EndsIt(h, k)} = {}
      BY <1>0, <2>1, <3>1 DEF OpenOf
    <3> QED BY <2>2, <3>3, <3>4, NotedAlso
  <2> QED BY <1>0, <1>1, <2>2, <2>3, <2>4 DEF AloneInv
<1>3. CASE DestroyBase(f)
  <2>1. /\ m_RawTimedStats' = <<>> /\ fixture' = [fixture EXCEPT ![f] = "none"] /\ alone' = alone \ {f}
    BY <1>3 DEF DestroyBase, FlushTimedStats
  <2>2. alone' = {}
    BY <1>1, <2>1
  <2> QED BY <1>0, <2>1, <2>2 DEF AloneInv
<1> QED BY <1>2, <1>3

LEMMA AloneKept == TestsInv /\ StatsInv /\ AloneInv /\ [FixtureNext]_testVars => AloneInv'
<1> SUFFICES ASSUME TestsInv, StatsInv, AloneInv, [FixtureNext]_testVars PROVE AloneInv'
  OBVIOUS
<1>1. ASSUME NEW f \in Fixtures, ConstructBase(f) \/ ConstructDriver(f) \/ ConstructDriverThrows(f)
      PROVE  AloneInv'
  BY <1>1, AloneConstructs
<1>2. ASSUME NEW f \in Fixtures, RunTest(f) PROVE AloneInv'
  BY <1>2, AloneTests
<1>3. ASSUME NEW f \in Fixtures, RunCompileTimeTest(f) PROVE AloneInv'
  BY <1>3, AloneCompileTime
<1>4. ASSUME NEW f \in Fixtures, DestroyDerived(f) \/ DestroyBase(f) PROVE AloneInv'
  BY <1>4, AloneDestroys
<1>5. CASE FirstAttempt
  <2>1. test.stage = "first" /\ RunTestImpl(FALSE)
    BY <1>5 DEF FirstAttempt
  <2> QED BY <2>1, AloneAttempts
<1>6. CASE SecondAttempt
  <2>1. test.stage = "retry" /\ RunTestImpl(TRUE)
    BY <1>6 DEF SecondAttempt
  <2> QED BY <2>1, AloneAttempts
<1>7. ASSUME UNCHANGED <<fixture, begun, alone, m_RawTimedStats, m_CurrentGen, scope>>,
             test' = test \/ (test.stage = "returned" /\ test'.stage = "idle")
      PROVE  AloneInv'
  <2>1. \A g \in Fixtures : OpenOf(g)' = OpenOf(g)
    BY <1>7 DEF OpenOf, EndsIt
  <2> QED BY <1>7, <2>1 DEF AloneInv, Alive
<1>8. CASE ResultSeen
  BY <1>7, <1>8 DEF ResultSeen, Idle, fixtureVars, statVars
<1>9. CASE UNCHANGED testVars
  BY <1>7, <1>9 DEF testVars, fixtureVars, statVars, runVars
<1> QED BY <1>1, <1>2, <1>3, <1>4, <1>5, <1>6, <1>8, <1>9 DEF FixtureNext, Terminated

\* A fixture that lived alone leaves behind the stats it began, all of them, in that order,
\* for any number of identifiers and generations and whatever came before.
THEOREM LastFixturesStats == FixtureSpec => StatsOfLastFixture
<1>1. FixtureInit => DevicesInv /\ TestsInv /\ StatsInv /\ AloneInv
  BY DevicesStart, TestsStart, StatsStart, AloneStart
<1>2. DevicesInv /\ TestsInv /\ StatsInv /\ AloneInv /\ [FixtureNext]_testVars
        => (DevicesInv /\ TestsInv /\ StatsInv /\ AloneInv)'
  BY DevicesKept, TestsKept, StatsKept, AloneKept
<1>3. ASSUME TestsInv, AloneInv, FixtureNext, NEW f \in alone,
             fixture[f] = "undriven", fixture'[f] = "none", Len(begun[f]) <= MaxIds
      PROVE  cachedStats' = begun[f]
  <2>1. f \in Fixtures /\ f \in Alive
    BY <1>3 DEF AloneInv
  <2>2. fixture \in [Fixtures -> {"none", "based", "ready", "undriven"}]
    BY <1>3 DEF TestsInv, FixturesTyped
  <2>3. test.stage = "idle"
    BY <1>3, <2>1 DEF TestsInv, TestAlone
  <2>4. DestroyBase(f)
    <3>1. ASSUME NEW g \in Fixtures,
                 \/ ConstructBase(g) \/ ConstructDriver(g) \/ ConstructDriverThrows(g)
                 \/ RunTest(g) \/ RunCompileTimeTest(g) \/ DestroyDerived(g)
          PROVE  FALSE
      BY <1>3, <2>1, <2>2, <3>1 DEF ConstructBase, ConstructDriver, ConstructDriverThrows, RunTest,
                RunCompileTimeTest, DestroyDerived, fixtureVars
    <3>2. ASSUME NEW g \in Fixtures, DestroyBase(g), g # f PROVE FALSE
      BY <1>3, <2>1, <2>2, <3>2 DEF DestroyBase
    <3>3. ASSUME FirstAttempt \/ SecondAttempt \/ ResultSeen \/ Terminated PROVE FALSE
      BY <1>3, <2>3, <3>3 DEF FirstAttempt, SecondAttempt, ResultSeen, Terminated, testVars, fixtureVars
    <3> QED BY <1>3, <3>1, <3>2, <3>3 DEF FixtureNext
  <2>5. cachedStats' = Completed(m_RawTimedStats)
    BY <2>4 DEF DestroyBase
  <2>6. Noted(m_RawTimedStats, begun[f], OpenOf(f))
    BY <1>3 DEF AloneInv
  <2>7. OpenOf(f) = {}
    BY <1>3, <2>3 DEF OpenOf
  <2>8. PICK X : begun[f] \in Seq(X)
    BY <2>6 DEF Noted, IsNames
  <2>9. Completed(m_RawTimedStats) = begun[f]
    BY <2>6, <2>7, <2>8, AllCompleted DEF Noted
  <2> QED BY <2>5, <2>9
<1>4. TestsInv /\ AloneInv /\ [FixtureNext]_testVars =>
        [\A f \in alone : fixture[f] = "undriven" /\ fixture'[f] = "none" /\ Len(begun[f]) <= MaxIds
           => cachedStats' = begun[f]]_testVars
  BY <1>3
<1> QED BY <1>1, <1>2, <1>4, PTL DEF FixtureSpec, StatsOfLastFixture

-----------------------------------------------------------------------------
(* The arguments of both attempts. *)

\* Plain looks at one argument after the other.
PlainRun(s, run) ==
  run = [n \in 0..Len(s) |->
           IF n = 0 THEN <<>>
           ELSE IF s[n] \in Diagnosis THEN run[n - 1] ELSE Append(run[n - 1], s[n])]

\* An argument at the end is left out or appended.
Kept(plain, e) == IF e \in Diagnosis THEN plain ELSE Append(plain, e)

LEMMA PlainRunSteps ==
  ASSUME NEW D, NEW s \in Seq(D), NEW run, PlainRun(s, run)
  PROVE  run[0] = <<>> /\ \A m \in 0..Len(s) - 1 : run[m + 1] = Kept(run[m], s[m + 1])
<1>1. Len(s) \in Nat /\ 0 \in 0..Len(s)
  OBVIOUS
<1>2. run[0] = <<>>
  BY <1>1 DEF PlainRun
<1>3. ASSUME NEW m \in 0..Len(s) - 1 PROVE run[m + 1] = Kept(run[m], s[m + 1])
  <2>1. PICK k \in 0..Len(s) : k = m + 1 /\ k # 0 /\ k - 1 = m
    BY <1>1
  <2>2. run[k] = IF s[k] \in Diagnosis THEN run[k - 1] ELSE Append(run[k - 1], s[k])
    BY <2>1 DEF PlainRun
  <2> QED BY <2>1, <2>2 DEF Kept
<1> QED BY <1>2, <1>3

LEMMA PlainIsRun ==
  ASSUME NEW D, NEW s \in Seq(D)
  PROVE  \E run \in [0..Len(s) -> Seq(D)] : PlainRun(s, run) /\ Plain(s) = run[Len(s)]
<1> DEFINE G == [p \in Seq(D) \X (1..Len(s)) |->
                   IF s[p[2]] \in Diagnosis THEN p[1] ELSE Append(p[1], s[p[2]])]
           n == Len(s)
<1>1. n \in Nat /\ <<>> \in Seq(D)
  OBVIOUS
<1>2. \A v \in Seq(D) : \A k \in 1..n :
        /\ G[<<v, k>>] = IF s[k] \in Diagnosis THEN v ELSE Append(v, s[k])
        /\ G[<<v, k>>] \in Seq(D)
  OBVIOUS
<1> HIDE DEF G
<1>3. PICK run \in [0..n -> Seq(D)] : IsRun(run, n, <<>>, G)
  <2> HIDE DEF n
  <2> QED BY <1>1, <1>2, RunExists
<1>4. PlainRun(s, run)
  <2>1. ASSUME NEW k \in 0..n
        PROVE  run[k] = IF k = 0 THEN <<>>
                        ELSE IF s[k] \in Diagnosis THEN run[k - 1] ELSE Append(run[k - 1], s[k])
    <3>1. CASE k = 0
      BY <1>3, <3>1 DEF IsRun
    <3>2. CASE k # 0
      <4>1. k \in 1..n /\ k - 1 \in 0..n
        BY <1>1, <3>2
      <4>2. run[k] = G[<<run[k - 1], k>>]
        BY <1>3, <3>2 DEF IsRun
      <4>3. run[k - 1] \in Seq(D)
        BY <4>1
      <4> QED BY <1>2, <3>2, <4>1, <4>2, <4>3
    <3> QED BY <3>1, <3>2
  <2>2. run = [k \in 0..n |-> run[k]]
    OBVIOUS
  <2> QED BY <2>1, <2>2, Zenon DEF PlainRun
<1>5. Plain(s) = (CHOOSE r : PlainRun(s, r))[Len(s)]
  BY DEF Plain, PlainRun
<1>6. PICK chosen : chosen = (CHOOSE r : PlainRun(s, r)) /\ PlainRun(s, chosen)
  BY <1>4
<1>7. \A m \in 0..n : chosen[m] = run[m]
  <2> DEFINE T == {m \in 0..n : chosen[m] = run[m]}
  <2>1. 0 \in T
    BY <1>1, <1>4, <1>6, PlainRunSteps
  <2>2. ASSUME NEW m \in 0..n - 1, m \in T PROVE m + 1 \in T
    BY <1>1, <1>4, <1>6, <2>2, PlainRunSteps
  <2> HIDE DEF T
  <2>3. \A m \in 0..n : m \in T
    BY <1>1, <2>1, <2>2, EveryNumberTo
  <2> QED BY <2>3 DEF T
<1> QED BY <1>1, <1>4, <1>5, <1>6, <1>7

LEMMA PlainAppend ==
  ASSUME NEW D, NEW s \in Seq(D), NEW e \in D
  PROVE  Plain(Append(s, e)) = Kept(Plain(s), e)
<1> DEFINE n == Len(s)
           t == Append(s, e)
<1>1. n \in Nat /\ t \in Seq(D) /\ Len(t) = n + 1 /\ t[n + 1] = e /\ \A k \in 1..n : t[k] = s[k]
  BY AppendElements
<1> HIDE DEF t
<1>2. PICK old \in [0..n -> Seq(D)] : PlainRun(s, old) /\ Plain(s) = old[n]
  BY PlainIsRun
<1>3. PICK new \in [0..n + 1 -> Seq(D)] : PlainRun(t, new) /\ Plain(t) = new[n + 1]
  BY <1>1, PlainIsRun
<1>4. new[0] = <<>> /\ \A m \in 0..Len(t) - 1 : new[m + 1] = Kept(new[m], t[m + 1])
  BY <1>1, <1>3, PlainRunSteps
<1>5. \A m \in 0..n : m \in 0..Len(t) - 1
  BY <1>1
<1>6. \A m \in 0..n : new[m] = old[m]
  <2> DEFINE T == {m \in 0..n : new[m] = old[m]}
  <2>1. 0 \in T
    BY <1>1, <1>2, <1>3, PlainRunSteps
  <2>2. ASSUME NEW m \in 0..n - 1, m \in T PROVE m + 1 \in T
    <3>1. m + 1 \in 1..n /\ m + 1 \in 0..n /\ m + 1 \in 0..n + 1 /\ (m + 1) - 1 = m /\ m + 1 # 0
      BY <1>1
    <3>2. new[m + 1] = Kept(new[m], t[m + 1])
      BY <1>4, <1>5
    <3>3. old[m + 1] = Kept(old[m], s[m + 1])
      BY <1>2, <3>1, PlainRunSteps
    <3> QED BY <1>1, <2>2, <3>1, <3>2, <3>3
  <2> HIDE DEF T
  <2>3. \A m \in 0..n : m \in T
    BY <1>1, <2>1, <2>2, EveryNumberTo
  <2> QED BY <2>3 DEF T
<1>7. new[n + 1] = Kept(new[n], e)
  <2>1. n \in 0..n
    BY <1>1
  <2> QED BY <1>1, <1>4, <1>5, <2>1
<1> QED BY <1>1, <1>2, <1>3, <1>6, <1>7 DEF t

NamesStrings(e) == e[1] = "-D" /\ e[2] = "TTL_ENABLE_STRINGS"

\* The plain arguments of a sequence, whether one and only one of it decides about
\* strings, or none does, and whether it may ask for the optimiser.
Fits(s, D, plain, decided, optimised) ==
  /\ s \in Seq(D) /\ Plain(s) = plain
  /\ decided => \E j \in 1..Len(s) : \A i \in 1..Len(s) : NamesStrings(s[i]) <=> i = j
  /\ ~decided => \A i \in 1..Len(s) : ~NamesStrings(s[i])
  /\ ~optimised => \A i \in 1..Len(s) : s[i] # <<"-O3">>

LEMMA FitsMore ==
  ASSUME NEW D, NEW s, NEW e \in D, NEW plain, NEW decided \in BOOLEAN, NEW optimised \in BOOLEAN,
         Fits(s, D, plain, decided, optimised), decided => ~NamesStrings(e),
         NEW now \in BOOLEAN, now <=> decided \/ NamesStrings(e), ~optimised => e # <<"-O3">>
  PROVE  Fits(Append(s, e), D, Kept(plain, e), now, optimised)
<1> DEFINE n == Len(s)
           t == Append(s, e)
<1>1. s \in Seq(D) /\ n \in Nat
  BY DEF Fits
<1>2. t \in Seq(D) /\ Len(t) = n + 1 /\ t[n + 1] = e /\ \A k \in 1..n : t[k] = s[k]
  BY <1>1, AppendElements
<1>3. Plain(t) = Kept(plain, e)
  BY <1>1, PlainAppend DEF Fits
<1> HIDE DEF t
<1>4. ASSUME NEW i \in 1..Len(t) PROVE i \in 1..n \/ i = n + 1
  BY <1>1, <1>2
<1>5. n + 1 \in 1..Len(t) /\ \A i \in 1..n : i \in 1..Len(t) /\ i # n + 1
  BY <1>1, <1>2
<1>6. ASSUME now PROVE \E j \in 1..Len(t) : \A i \in 1..Len(t) : NamesStrings(t[i]) <=> i = j
  <2>1. CASE decided
    <3>1. PICK j \in 1..n : \A i \in 1..n : NamesStrings(s[i]) <=> i = j
      BY <2>1 DEF Fits
    <3>2. ~NamesStrings(t[n + 1]) /\ j # n + 1 /\ j \in 1..Len(t)
      BY <1>2, <1>5, <2>1, <3>1
    <3>3. \A i \in 1..n : NamesStrings(t[i]) <=> i = j
      BY <1>2, <3>1
    <3> QED BY <1>4, <3>2, <3>3
  <2>2. CASE ~decided
    <3>1. NamesStrings(t[n + 1])
      BY <1>2, <1>6, <2>2
    <3>2. \A i \in 1..n : ~NamesStrings(t[i]) /\ i # n + 1
      BY <1>2, <1>5, <2>2 DEF Fits
    <3> QED BY <1>4, <1>5, <3>1, <3>2
  <2> QED BY <2>1, <2>2
<1>7. ASSUME ~now PROVE \A i \in 1..Len(t) : ~NamesStrings(t[i])
  <2>1. \A i \in 1..n : ~NamesStrings(t[i])
    BY <1>2, <1>7 DEF Fits
  <2>2. ~NamesStrings(t[n + 1])
    BY <1>2, <1>7
  <2> QED BY <1>4, <2>1, <2>2
<1>8. ASSUME ~optimised PROVE \A i \in 1..Len(t) : t[i] # <<"-O3">>
  <2>1. \A i \in 1..n : t[i] # <<"-O3">>
    BY <1>2, <1>8 DEF Fits
  <2> QED BY <1>2, <1>4, <1>8, <2>1
<1>9. Fits(t, D, Kept(plain, e), now, optimised)
  BY <1>2, <1>3, <1>6, <1>7, <1>8 DEF Fits
<1> QED BY <1>9 DEF t

LEMMA FitsSkipped ==
  ASSUME NEW D, NEW s, NEW e \in D, NEW plain, NEW decided \in BOOLEAN, NEW optimised \in BOOLEAN,
         Fits(s, D, plain, decided, optimised), e \in Diagnosis, ~NamesStrings(e),
         ~optimised => e # <<"-O3">>
  PROVE  Fits(Append(s, e), D, plain, decided, optimised)
<1>1. Fits(Append(s, e), D, Kept(plain, e), decided, optimised)
  BY FitsMore
<1> QED BY <1>1 DEF Kept

LEMMA FitsKept ==
  ASSUME NEW D, NEW s, NEW e \in D, NEW plain, NEW decided \in BOOLEAN, NEW optimised \in BOOLEAN,
         Fits(s, D, plain, decided, optimised), ~NamesStrings(e), e # <<"-O3">>
  PROVE  Fits(Append(s, e), D, Kept(plain, e), decided, optimised)
BY FitsMore

LEMMA FitsDecided ==
  ASSUME NEW D, NEW s, NEW e \in D, NEW plain, NEW optimised \in BOOLEAN,
         Fits(s, D, plain, FALSE, optimised), e \in Diagnosis, NamesStrings(e), e # <<"-O3">>
  PROVE  Fits(Append(s, e), D, plain, TRUE, optimised)
<1>1. Fits(Append(s, e), D, Kept(plain, e), TRUE, optimised)
  BY FitsMore
<1> QED BY <1>1 DEF Kept

LEMMA ConcatAppends ==
  ASSUME NEW X, NEW s \in Seq(X), NEW t \in Seq(X), NEW e \in X
  PROVE  s \o Append(t, e) = Append(s \o t, e)
OBVIOUS

LEMMA ConcatEmpty ==
  ASSUME NEW X, NEW s \in Seq(X)
  PROVE  s \o <<>> = s /\ <<>> \o s = s
OBVIOUS

LEMMA OneMore ==
  ASSUME NEW X, NEW s \in Seq(X), NEW e \in X, NEW t, t = Append(s, e),
         NEW n \in Nat, Len(s) = n, NEW m, n + 1 = m
  PROVE  t \in Seq(X) /\ Len(t) = m /\ t[m] = e /\ \A k \in 1..n : t[k] = s[k]
BY AppendElements

\* A tuple is one element more.
LEMMA TupleOfTwo ==
  ASSUME NEW X, NEW a \in X, NEW b \in X
  PROVE  /\ <<>> \in Seq(X) /\ <<a>> \in Seq(X) /\ <<a, b>> \in Seq(X)
         /\ <<a>> \o <<b>> = <<a, b>>
<1>1. <<>> \in Seq(X) /\ <<a>> \in Seq(X) /\ <<b>> \in Seq(X) /\ <<a, b>> \in Seq(X)
  OBVIOUS
<1>2. PICK s, t, r, p : s = <<a>> /\ t = <<b>> /\ r = s \o t /\ p = <<a, b>>
  OBVIOUS
<1>3. s \in Seq(X) /\ t \in Seq(X) /\ Len(s) = 1 /\ s[1] = a /\ Len(t) = 1 /\ t[1] = b
      /\ p \in Seq(X) /\ Len(p) = 2 /\ p[1] = a /\ p[2] = b
  BY <1>1, <1>2
<1>4. r \in Seq(X) /\ Len(r) = 2 /\ r[1] = a /\ r[2] = b
  BY <1>2, <1>3
<1>5. r = p
  BY <1>3, <1>4, SameElements
<1> QED BY <1>1, <1>2, <1>5

LEMMA TupleOfThree ==
  ASSUME NEW X, NEW a \in X, NEW b \in X, NEW c \in X
  PROVE  <<a, b, c>> \in Seq(X) /\ <<a, b>> \o <<c>> = <<a, b, c>>
<1>1. <<c>> \in Seq(X) /\ <<a, b>> \in Seq(X) /\ <<a, b, c>> \in Seq(X)
  OBVIOUS
<1>2. PICK s, t, r, p : s = <<a, b>> /\ t = <<c>> /\ r = s \o t /\ p = <<a, b, c>>
  OBVIOUS
<1>3. s \in Seq(X) /\ t \in Seq(X) /\ Len(s) = 2 /\ s[1] = a /\ s[2] = b /\ Len(t) = 1 /\ t[1] = c
      /\ p \in Seq(X) /\ Len(p) = 3 /\ p[1] = a /\ p[2] = b /\ p[3] = c
  BY <1>1, <1>2
<1>4. r \in Seq(X) /\ Len(r) = 3 /\ r[1] = a /\ r[2] = b /\ r[3] = c
  BY <1>2, <1>3
<1>5. r = p
  BY <1>3, <1>4, SameElements
<1> QED BY <1>1, <1>2, <1>5

LEMMA FlagsPlain == FlagArguments({}) = <<(<<"-Zpr">>), <<"-O3">> >>
<1>1. PICK z, o : z = <<"-Zpr">> /\ o = <<"-O3">>
  OBVIOUS
<1>2. FlagArguments({}) = <<>> \o <<>> \o <<>> \o <<>> \o <<>> \o <<z>> \o <<o>> \o <<>> \o <<>> \o <<>> \o <<>> \o <<>>
  BY <1>1 DEF FlagArguments
<1>3. PICK X : X = {z, o}
  OBVIOUS
<1>4. z \in X /\ o \in X
  BY <1>3
<1>5. <<>> \in Seq(X) /\ <<z>> \in Seq(X) /\ <<z, o>> \in Seq(X) /\ <<z>> \o <<o>> = <<z, o>>
  BY <1>4, TupleOfTwo
<1>6. <<>> \o <<>> = <<>> /\ <<>> \o <<z>> = <<z>> /\ <<z, o>> \o <<>> = <<z, o>>
  BY <1>5, ConcatEmpty
<1>7. FlagArguments({}) = <<z, o>>
  BY <1>2, <1>5, <1>6, Zenon
<1> QED BY <1>1, <1>7

LEMMA FlagsCaptured == FlagArguments({"SkipOptimization", "O0"}) = <<(<<"-Zpr">>), <<"-O0">>, <<"-Od">> >>
<1>1. PICK z, o, d : z = <<"-Zpr">> /\ o = <<"-O0">> /\ d = <<"-Od">>
  OBVIOUS
<1>2. FlagArguments({"SkipOptimization", "O0"})
        = <<>> \o <<>> \o <<>> \o <<>> \o <<>> \o <<z>> \o <<o>> \o <<>> \o <<>> \o <<d>> \o <<>> \o <<>>
  BY <1>1 DEF FlagArguments
<1>3. PICK X : X = {z, o, d}
  OBVIOUS
<1>4. z \in X /\ o \in X /\ d \in X
  BY <1>3
<1>5. /\ <<>> \in Seq(X) /\ <<z>> \in Seq(X) /\ <<z, o>> \in Seq(X)
      /\ <<z>> \o <<o>> = <<z, o>> /\ <<z, o>> \o <<d>> = <<z, o, d>>
  BY <1>4, TupleOfTwo, TupleOfThree
<1>6. <<z, o, d>> \in Seq(X)
  BY <1>4
<1>7. /\ <<>> \o <<>> = <<>> /\ <<>> \o <<z>> = <<z>>
      /\ <<z, o>> \o <<>> = <<z, o>> /\ <<z, o, d>> \o <<>> = <<z, o, d>>
  BY <1>5, <1>6, ConcatEmpty
<1>8. FlagArguments({"SkipOptimization", "O0"}) = <<z, o, d>>
  BY <1>2, <1>5, <1>7, Zenon
<1> QED BY <1>1, <1>8

LEMMA ConcatTuple ==
  ASSUME NEW X, NEW s \in Seq(X), NEW a \in X, NEW b \in X, NEW c \in X, NEW d \in X
  PROVE  /\ s \o <<a>> = Append(s, a)
         /\ s \o <<a, b>> = Append(Append(s, a), b)
         /\ s \o <<a, b, c>> = Append(Append(Append(s, a), b), c)
         /\ s \o <<a, b, c, d>> = Append(Append(Append(Append(s, a), b), c), d)
<1>1. PICK one, two, three, four : one = <<a>> /\ two = <<a, b>> /\ three = <<a, b, c>> /\ four = <<a, b, c, d>>
  OBVIOUS
<1>2. one \in Seq(X) /\ two \in Seq(X) /\ three \in Seq(X)
  BY <1>1
<1>3. s \o <<a>> = Append(s, a)
  OBVIOUS
<1>4. two = Append(one, b) /\ three = Append(two, c) /\ four = Append(three, d)
  BY <1>1
<1>5. s \o Append(one, b) = Append(s \o one, b)
  BY <1>2, ConcatAppends
<1>6. s \o Append(two, c) = Append(s \o two, c)
  BY <1>2, ConcatAppends
<1>7. s \o Append(three, d) = Append(s \o three, d)
  BY <1>2, ConcatAppends
<1> QED BY <1>1, <1>3, <1>4, <1>5, <1>6, <1>7, Zenon

\* The job of an attempt, which depends on two decisions only.
AttemptJob(strings, capture) ==
  JobDesc("TestName", "Compute", v202x, IF capture THEN {"SkipOptimization", "O0"} ELSE {},
          Append(<<(<<"USER", "1">>), <<"TTL_STRING_MAX_LENGTH", "64">>, AssertionLibraryDefine>>,
                 <<"TTL_ENABLE_STRINGS", strings>>),
          <<"-interface">> \o <<"-enable-16bit-types">> \o (IF capture THEN DebugFlags ELSE <<>>))

DefineArgs(strings) ==
  <<(<<"-D", "USER", "1">>), <<"-D", "TTL_STRING_MAX_LENGTH", "64">>,
    <<"-D", "STF_ASSERTION_LIBRARY", "path">>, <<"-D", "TTL_ENABLE_STRINGS", strings>> >>

LEMMA DefinesOfAttempt ==
  ASSUME NEW strings, NEW capture
  PROVE  [k \in DOMAIN AttemptJob(strings, capture).Defines |-> <<"-D">> \o AttemptJob(strings, capture).Defines[k]]
           = DefineArgs(strings)
<1>1. PICK u, m, a, t : /\ u = <<"USER", "1">> /\ m = <<"TTL_STRING_MAX_LENGTH", "64">>
                        /\ a = <<"STF_ASSERTION_LIBRARY", "path">> /\ t = <<"TTL_ENABLE_STRINGS", strings>>
  OBVIOUS
<1>2. \A x, y : <<"-D">> \o <<x, y>> = <<"-D", x, y>>
  <2> SUFFICES ASSUME NEW x, NEW y PROVE <<"-D">> \o <<x, y>> = <<"-D", x, y>>
    OBVIOUS
  <2>1. PICK d, X : d = "-D" /\ X = {d, x, y}
    OBVIOUS
  <2>2. d \in X /\ x \in X /\ y \in X
    BY <2>1
  <2>3. /\ <<d>> \o <<x, y>> = Append(Append(<<d>>, x), y)
        /\ <<>> \o <<d, x, y>> = Append(Append(Append(<<>>, d), x), y)
    BY <2>2, ConcatTuple, TupleOfTwo
  <2>4. Append(<<>>, d) = <<d>> /\ <<>> \o <<d, x, y>> = <<d, x, y>>
    BY <2>2, TupleOfThree, ConcatEmpty
  <2> QED BY <2>1, <2>3, <2>4
<1>3. PICK defs : defs = AttemptJob(strings, capture).Defines
  OBVIOUS
<1>4. defs = <<u, m, a, t>>
  <2>1. defs = Append(<<u, m, a>>, t)
    BY <1>1, <1>3 DEF AttemptJob, JobDesc, AssertionLibraryDefine
  <2>2. PICK X, three, four : X = {u, m, a, t} /\ three = <<u, m, a>> /\ four = <<u, m, a, t>>
    OBVIOUS
  <2>3. three \in Seq(X) /\ four = Append(three, t)
    BY <2>2
  <2> QED BY <2>1, <2>2, <2>3
<1>5. DOMAIN defs = 1..4 /\ defs[1] = u /\ defs[2] = m /\ defs[3] = a /\ defs[4] = t
  BY <1>4
<1>6. PICK made : made = [k \in DOMAIN defs |-> <<"-D">> \o defs[k]]
  OBVIOUS
<1>7. /\ DOMAIN made = 1..4 /\ made = [k \in DOMAIN made |-> made[k]]
      /\ made[1] = <<"-D", "USER", "1">> /\ made[2] = <<"-D", "TTL_STRING_MAX_LENGTH", "64">>
      /\ made[3] = <<"-D", "STF_ASSERTION_LIBRARY", "path">> /\ made[4] = <<"-D", "TTL_ENABLE_STRINGS", strings>>
  <2>1. \A k \in 1..4 : made[k] = <<"-D">> \o defs[k]
    BY <1>5, <1>6
  <2>2. made[1] = <<"-D", "USER", "1">> /\ made[2] = <<"-D", "TTL_STRING_MAX_LENGTH", "64">>
    <3>1. made[1] = <<"-D">> \o u /\ made[2] = <<"-D">> \o m
      BY <1>5, <2>1
    <3> QED BY <1>1, <1>2, <3>1, Zenon
  <2>3. made[3] = <<"-D", "STF_ASSERTION_LIBRARY", "path">> /\ made[4] = <<"-D", "TTL_ENABLE_STRINGS", strings>>
    <3>1. made[3] = <<"-D">> \o a /\ made[4] = <<"-D">> \o t
      BY <1>5, <2>1
    <3> QED BY <1>1, <1>2, <3>1, Zenon
  <2>4. DOMAIN made = 1..4 /\ made = [k \in DOMAIN made |-> made[k]]
    BY <1>5, <1>6
  <2> QED BY <2>2, <2>3, <2>4
<1>8. PICK p, q, r, v : p = made[1] /\ q = made[2] /\ r = made[3] /\ v = made[4]
  OBVIOUS
<1>9. made = <<p, q, r, v>>
  BY <1>7, <1>8
<1> QED BY <1>3, <1>6, <1>7, <1>8, <1>9 DEF DefineArgs

LEMMA AdditionalOfAttempt ==
  ASSUME NEW strings
  PROVE  /\ [k \in DOMAIN AttemptJob(strings, FALSE).AdditionalFlags |-> <<AttemptJob(strings, FALSE).AdditionalFlags[k]>>]
              = <<(<<"-interface">>), <<"-enable-16bit-types">> >>
         /\ [k \in DOMAIN AttemptJob(strings, TRUE).AdditionalFlags |-> <<AttemptJob(strings, TRUE).AdditionalFlags[k]>>]
              = <<(<<"-interface">>), <<"-enable-16bit-types">> >> \o <<(<<"-Qembed_debug">>), <<"-Zss">>, <<"-Zi">> >>
<1>1. PICK i, b, q, z, d : /\ i = "-interface" /\ b = "-enable-16bit-types"
                           /\ q = "-Qembed_debug" /\ z = "-Zss" /\ d = "-Zi"
  OBVIOUS
<1>2. PICK few, many : few = AttemptJob(strings, FALSE).AdditionalFlags /\ many = AttemptJob(strings, TRUE).AdditionalFlags
  OBVIOUS
<1>3. PICK X : X = {i, b, q, z, d}
  OBVIOUS
<1>4. i \in X /\ b \in X /\ q \in X /\ z \in X /\ d \in X
  BY <1>3
<1>5. few = <<i, b>>
  <2>1. few = <<i>> \o <<b>> \o <<>>
    BY <1>1, <1>2 DEF AttemptJob, JobDesc
  <2>2. <<i>> \o <<b>> = <<i, b>> /\ <<i, b>> \in Seq(X)
    BY <1>4, TupleOfTwo
  <2>3. <<i, b>> \o <<>> = <<i, b>>
    BY <2>2, ConcatEmpty
  <2> QED BY <2>1, <2>2, <2>3
<1>6. many = <<i, b>> \o <<q, z, d>>
  <2>1. many = <<i>> \o <<b>> \o <<q, z, d>>
    BY <1>1, <1>2 DEF AttemptJob, JobDesc, DebugFlags
  <2>2. <<i>> \o <<b>> = <<i, b>>
    BY <1>4, TupleOfTwo
  <2> QED BY <2>1, <2>2
<1>7. /\ DOMAIN many = 1..5 /\ many[1] = i /\ many[2] = b /\ many[3] = q /\ many[4] = z /\ many[5] = d
  <2>1. PICK s, t : s = <<i, b>> /\ t = <<q, z, d>>
    OBVIOUS
  <2>2. s \in Seq(X) /\ t \in Seq(X) /\ Len(s) = 2 /\ Len(t) = 3
        /\ s[1] = i /\ s[2] = b /\ t[1] = q /\ t[2] = z /\ t[3] = d
    BY <1>4, <2>1
  <2> QED BY <1>6, <2>1, <2>2
<1>8. PICK one, two : /\ one = [k \in DOMAIN few |-> <<few[k]>>]
                      /\ two = [k \in DOMAIN many |-> <<many[k]>>]
  OBVIOUS
<1>9. one = <<(<<i>>), <<b>> >>
  BY <1>5, <1>8
<1>10. two = <<(<<i>>), <<b>> >> \o <<(<<q>>), <<z>>, <<d>> >>
  <2>1. PICK u, v, w, x, y, Y : /\ u = <<i>> /\ v = <<b>> /\ w = <<q>> /\ x = <<z>> /\ y = <<d>>
                                /\ Y = {u, v, w, x, y}
    OBVIOUS
  <2>2. PICK s, t : s = <<u, v>> /\ t = <<w, x, y>>
    OBVIOUS
  <2>3. s \in Seq(Y) /\ t \in Seq(Y) /\ Len(s) = 2 /\ Len(t) = 3
        /\ s[1] = u /\ s[2] = v /\ t[1] = w /\ t[2] = x /\ t[3] = y
    BY <2>1, <2>2
  <2>4. PICK r : r = s \o t
    OBVIOUS
  <2>5. r \in Seq(Y) /\ Len(r) = 5 /\ r[1] = u /\ r[2] = v /\ r[3] = w /\ r[4] = x /\ r[5] = y
    <3>1. w \in Y /\ x \in Y /\ y \in Y
      BY <2>1
    <3>2. PICK r3, r4 : r3 = Append(s, w) /\ r4 = Append(r3, x)
      OBVIOUS
    <3>3. s \o <<w, x, y>> = Append(Append(Append(s, w), x), y)
      BY <2>3, <3>1, ConcatTuple
    <3>4. r = Append(r4, y)
      BY <2>2, <2>4, <3>2, <3>3
    <3>5. r3 \in Seq(Y) /\ Len(r3) = 3 /\ r3[3] = w /\ \A k \in 1..2 : r3[k] = s[k]
      <4>1. PICK n \in Nat : n = 2 /\ n + 1 = 3
        OBVIOUS
      <4>2. s \in Seq(Y)
        BY <2>3
      <4>3. Len(s) = n
        BY <2>3, <4>1
      <4>4. w \in Y
        BY <3>1
      <4>5. r3 = Append(s, w)
        BY <3>2
      <4>6. r3 \in Seq(Y) /\ Len(r3) = 3 /\ r3[3] = w /\ \A k \in 1..n : r3[k] = s[k]
        BY <4>1, <4>2, <4>3, <4>4, <4>5, OneMore
      <4> QED BY <4>1, <4>6
    <3>6. r4 \in Seq(Y) /\ Len(r4) = 4 /\ r4[4] = x /\ \A k \in 1..3 : r4[k] = r3[k]
      BY <3>1, <3>2, <3>5, AppendElements
    <3>7. r \in Seq(Y) /\ Len(r) = 5 /\ r[5] = y /\ \A k \in 1..4 : r[k] = r4[k]
      BY <3>1, <3>4, <3>6, OneMore, 4 + 1 = 5
    <3>8. r[1] = s[1] /\ r[2] = s[2] /\ r[3] = w /\ r[4] = x
      BY <3>5, <3>6, <3>7
    <3> QED BY <2>3, <3>7, <3>8
  <2>6. two[1] = u /\ two[2] = v /\ two[3] = w /\ two[4] = x /\ two[5] = y
    <3>1. \A k \in 1..5 : two[k] = <<many[k]>>
      BY <1>7, <1>8
    <3> QED BY <1>7, <2>1, <3>1
  <2>7. two \in [1..5 -> Y]
    <3>1. two = [k \in 1..5 |-> two[k]]
      BY <1>7, <1>8
    <3>2. \A k \in 1..5 : k = 1 \/ k = 2 \/ k = 3 \/ k = 4 \/ k = 5
      OBVIOUS
    <3>3. u \in Y /\ v \in Y /\ w \in Y /\ x \in Y /\ y \in Y
      BY <2>1
    <3>4. \A k \in 1..5 : two[k] \in Y
      BY <2>6, <3>2, <3>3
    <3> QED BY <3>1, <3>4
  <2>8. two \in Seq(Y) /\ Len(two) = 5
    BY <2>7, FunctionIsSeq
  <2>9. r = two
    BY <2>5, <2>6, <2>8, SameElements
  <2> QED BY <2>1, <2>2, <2>4, <2>9
<1> QED BY <1>1, <1>2, <1>8, <1>9, <1>10

LEMMA FitsCommon ==
  ASSUME NEW P, NEW D, NEW z \in D, P \in Seq(D),
         P = <<(<<"-E", "TestName">>), <<"-T", "Compute">>, <<"-HV", 4>>, <<"-WX">>,
               <<"-Wconversion">>, <<"-Wdouble-promotion">>, <<"-Whlsl-legacy-literal">> >>
  PROVE  Fits(P, D, Plain(P), FALSE, FALSE)
<1>1. Len(P) = 7
  OBVIOUS
<1>2. ASSUME NEW i \in 1..7 PROVE P[i][1] # "-D" /\ P[i][1] # "-O3"
  <2>1. /\ P[1][1] = "-E" /\ P[2][1] = "-T" /\ P[3][1] = "-HV" /\ P[4][1] = "-WX"
        /\ P[5][1] = "-Wconversion" /\ P[6][1] = "-Wdouble-promotion" /\ P[7][1] = "-Whlsl-legacy-literal"
    OBVIOUS
  <2>2. i = 1 \/ i = 2 \/ i = 3 \/ i = 4 \/ i = 5 \/ i = 6 \/ i = 7
    OBVIOUS
  <2> QED BY <2>1, <2>2
<1>3. <<"-O3">>[1] = "-O3"
  OBVIOUS
<1>4. \A i \in 1..7 : ~NamesStrings(P[i]) /\ P[i] # <<"-O3">>
  BY <1>2, <1>3 DEF NamesStrings
<1> QED BY <1>1, <1>4 DEF Fits

\* All arguments of attempts. They are alike to a test but for the flags of a captured
\* attempt and the decision about strings.
LEMMA AttemptFits ==
  \E D, plain : \A strings \in {"0", "1"} : \A capture \in BOOLEAN :
    Fits(ArgumentsOf(AttemptJob(strings, capture)), D, plain, TRUE, ~capture)
<1>1. PICK z, o0, o3, od : /\ z = <<"-Zpr">> /\ o0 = <<"-O0">> /\ o3 = <<"-O3">> /\ od = <<"-Od">>
  OBVIOUS
<1>2. PICK d1, d2, d3, s0, s1 : /\ d1 = <<"-D", "USER", "1">> /\ d2 = <<"-D", "TTL_STRING_MAX_LENGTH", "64">>
                                /\ d3 = <<"-D", "STF_ASSERTION_LIBRARY", "path">>
                                /\ s0 = <<"-D", "TTL_ENABLE_STRINGS", "0">>
                                /\ s1 = <<"-D", "TTL_ENABLE_STRINGS", "1">>
  OBVIOUS
<1>3. PICK i, b, q1, q2, q3 : /\ i = <<"-interface">> /\ b = <<"-enable-16bit-types">>
                              /\ q1 = <<"-Qembed_debug">> /\ q2 = <<"-Zss">> /\ q3 = <<"-Zi">>
  OBVIOUS
<1>4. PICK head, conversion : /\ head = <<(<<"-E", "TestName">>), <<"-T", "Compute">>, <<"-HV", 4>>, <<"-WX">> >>
                              /\ conversion = <<(<<"-Wconversion">>), <<"-Wdouble-promotion">>, <<"-Whlsl-legacy-literal">> >>
  OBVIOUS
<1>5. PICK C : C = {<<"-E", "TestName">>, <<"-T", "Compute">>, <<"-HV", 4>>, <<"-WX">>,
                    <<"-Wconversion">>, <<"-Wdouble-promotion">>, <<"-Whlsl-legacy-literal">>}
  OBVIOUS
<1>6. PICK D : D = C \cup {z, o0, o3, od, d1, d2, d3, s0, s1, i, b, q1, q2, q3}
  OBVIOUS
<1>7. /\ z \in D /\ o0 \in D /\ o3 \in D /\ od \in D /\ d1 \in D /\ d2 \in D /\ d3 \in D /\ s0 \in D /\ s1 \in D
      /\ i \in D /\ b \in D /\ q1 \in D /\ q2 \in D /\ q3 \in D /\ C \subseteq D
  BY <1>6
<1>8. /\ o0 \in Diagnosis /\ o3 \in Diagnosis /\ od \in Diagnosis /\ s0 \in Diagnosis /\ s1 \in Diagnosis
      /\ q1 \in Diagnosis /\ q2 \in Diagnosis /\ q3 \in Diagnosis
  BY <1>1, <1>2, <1>3 DEF Diagnosis
<1>9. /\ ~NamesStrings(z) /\ ~NamesStrings(o0) /\ ~NamesStrings(o3) /\ ~NamesStrings(od)
      /\ ~NamesStrings(i) /\ ~NamesStrings(b) /\ ~NamesStrings(q1) /\ ~NamesStrings(q2) /\ ~NamesStrings(q3)
  BY <1>1, <1>3 DEF NamesStrings
<1>10. ~NamesStrings(d1) /\ ~NamesStrings(d2) /\ ~NamesStrings(d3) /\ NamesStrings(s0) /\ NamesStrings(s1)
  BY <1>2 DEF NamesStrings
<1>11. /\ z # o3 /\ o0 # o3 /\ od # o3 /\ d1 # o3 /\ d2 # o3 /\ d3 # o3 /\ s0 # o3 /\ s1 # o3
       /\ i # o3 /\ b # o3 /\ q1 # o3 /\ q2 # o3 /\ q3 # o3
  <2>1. o3[1] = "-O3" /\ z[1] # "-O3" /\ o0[1] # "-O3" /\ od[1] # "-O3" /\ i[1] # "-O3" /\ b[1] # "-O3"
    BY <1>1, <1>3
  <2>2. q1[1] # "-O3" /\ q2[1] # "-O3" /\ q3[1] # "-O3"
    BY <1>3
  <2>3. d1[1] = "-D" /\ d2[1] = "-D" /\ d3[1] = "-D" /\ s0[1] = "-D" /\ s1[1] = "-D" /\ "-D" # "-O3"
    BY <1>2
  <2>4. z # o3 /\ o0 # o3 /\ od # o3 /\ i # o3 /\ b # o3
    BY <2>1
  <2>5. q1 # o3 /\ q2 # o3 /\ q3 # o3
    BY <2>1, <2>2
  <2>6. d1 # o3 /\ d2 # o3 /\ d3 # o3 /\ s0 # o3 /\ s1 # o3
    BY <2>1, <2>3
  <2> QED BY <2>4, <2>5, <2>6
<1>12. PICK P : P = head \o conversion
  OBVIOUS
<1>13. /\ P \in Seq(D)
       /\ P = <<(<<"-E", "TestName">>), <<"-T", "Compute">>, <<"-HV", 4>>, <<"-WX">>,
                <<"-Wconversion">>, <<"-Wdouble-promotion">>, <<"-Whlsl-legacy-literal">> >>
  <2>1. PICK e, t, h, x, c1, c2, c3 :
          /\ e = <<"-E", "TestName">> /\ t = <<"-T", "Compute">> /\ h = <<"-HV", 4>> /\ x = <<"-WX">>
          /\ c1 = <<"-Wconversion">> /\ c2 = <<"-Wdouble-promotion">> /\ c3 = <<"-Whlsl-legacy-literal">>
    OBVIOUS
  <2>2. C = {e, t, h, x, c1, c2, c3} /\ head = <<e, t, h, x>> /\ conversion = <<c1, c2, c3>>
    BY <1>4, <1>5, <2>1
  <2>3. e \in C /\ t \in C /\ h \in C /\ x \in C /\ c1 \in C /\ c2 \in C /\ c3 \in C
    BY <2>2
  <2>4. head \in Seq(C)
    BY <2>2, <2>3
  <2>5. P = Append(Append(Append(head, c1), c2), c3)
    BY <1>12, <2>2, <2>3, <2>4, ConcatTuple
  <2>6. PICK s5, s6, s7 : /\ s5 = <<e, t, h, x, c1>> /\ s6 = <<e, t, h, x, c1, c2>>
                          /\ s7 = <<e, t, h, x, c1, c2, c3>>
    OBVIOUS
  <2>7. s5 = Append(head, c1) /\ s5 \in Seq(C)
    BY <2>2, <2>3, <2>6
  <2>8. s6 = Append(s5, c2) /\ s6 \in Seq(C)
    BY <2>3, <2>6
  <2>9. s7 = Append(s6, c3) /\ s7 \in Seq(C)
    BY <2>3, <2>6
  <2>10. P = s7
    BY <2>5, <2>7, <2>8, <2>9
  <2>11. P \in Seq(D)
    BY <1>7, <2>9, <2>10, SeqOverMore
  <2> QED BY <2>1, <2>6, <2>10, <2>11
<1>14. Fits(P, D, Plain(P), FALSE, FALSE)
  BY <1>7, <1>13, FitsCommon
<1> DEFINE plain == Kept(Kept(Kept(Kept(Kept(Kept(Plain(P), z), d1), d2), d3), i), b)
<1>15. ASSUME NEW strings, NEW capture \in BOOLEAN
       PROVE  LET job == AttemptJob(strings, capture)
              IN  ArgumentsOf(job) = P \o FlagArguments(job.Flags) \o DefineArgs(strings)
                                       \o [k \in DOMAIN job.AdditionalFlags |-> <<job.AdditionalFlags[k]>>]
  <2> DEFINE job == AttemptJob(strings, capture)
  <2>1. job.EntryPoint = "TestName" /\ job.ShaderType = "Compute" /\ job.HLSLVersion = 4
    BY DEF AttemptJob, JobDesc, v202x
  <2>2. [k \in DOMAIN job.Defines |-> <<"-D">> \o job.Defines[k]] = DefineArgs(strings)
    BY DefinesOfAttempt
  <2> HIDE DEF job
  <2>3. <<(<<"-E", job.EntryPoint>>), <<"-T", MakeShaderTarget(job.ShaderType)>>, <<"-HV", job.HLSLVersion>>, <<"-WX">> >>
          = head
    BY <1>4, <2>1 DEF MakeShaderTarget
  <2>4. job.HLSLVersion >= v202x
    BY <2>1 DEF v202x
  <2>5. PICK flags, adds : /\ flags = FlagArguments(job.Flags)
                           /\ adds = [k \in DOMAIN job.AdditionalFlags |-> <<job.AdditionalFlags[k]>>]
    OBVIOUS
  <2>6. ArgumentsOf(job) = head \o conversion \o flags \o DefineArgs(strings) \o adds
    BY <1>4, <2>2, <2>3, <2>4, <2>5, Zenon DEF ArgumentsOf
  <2> QED BY <1>12, <2>5, <2>6 DEF job
<1>16. ASSUME NEW strings \in {"0", "1"}
       PROVE  \E s \in {s0, s1} : DefineArgs(strings) = <<d1, d2, d3, s>>
  BY <1>2 DEF DefineArgs
<1>17. ASSUME NEW from \in Seq(D), NEW kept, NEW optimised \in BOOLEAN, Fits(from, D, kept, FALSE, optimised),
              NEW s \in {s0, s1}
       PROVE  Fits((from \o <<d1, d2, d3, s>>) \o <<i, b>>, D,
                   Kept(Kept(Kept(Kept(Kept(kept, d1), d2), d3), i), b), TRUE, optimised)
  <2>1. s \in D /\ s \in Diagnosis /\ NamesStrings(s) /\ s # o3
    BY <1>7, <1>8, <1>10, <1>11
  <2>2. PICK t1 : t1 = Append(from, d1)
    OBVIOUS
  <2>3. Fits(t1, D, Kept(kept, d1), FALSE, optimised)
    BY <1>1, <1>7, <1>10, <1>11, <1>17, <2>2, FitsKept
  <2>4. PICK t2 : t2 = Append(t1, d2)
    OBVIOUS
  <2>5. Fits(t2, D, Kept(Kept(kept, d1), d2), FALSE, optimised)
    BY <1>1, <1>7, <1>10, <1>11, <2>3, <2>4, FitsKept
  <2>6. PICK t3 : t3 = Append(t2, d3)
    OBVIOUS
  <2>7. Fits(t3, D, Kept(Kept(Kept(kept, d1), d2), d3), FALSE, optimised)
    BY <1>1, <1>7, <1>10, <1>11, <2>5, <2>6, FitsKept
  <2>8. PICK t4 : t4 = Append(t3, s)
    OBVIOUS
  <2>9. Fits(t4, D, Kept(Kept(Kept(kept, d1), d2), d3), TRUE, optimised)
    BY <1>1, <2>1, <2>7, <2>8, FitsDecided
  <2>10. PICK t5 : t5 = Append(t4, i)
    OBVIOUS
  <2>11. Fits(t5, D, Kept(Kept(Kept(Kept(kept, d1), d2), d3), i), TRUE, optimised)
    BY <1>1, <1>7, <1>9, <1>11, <2>9, <2>10, FitsKept
  <2>12. PICK t6 : t6 = Append(t5, b)
    OBVIOUS
  <2>13. Fits(t6, D, Kept(Kept(Kept(Kept(Kept(kept, d1), d2), d3), i), b), TRUE, optimised)
    BY <1>1, <1>7, <1>9, <1>11, <2>11, <2>12, FitsKept
  <2>14. from \o <<d1, d2, d3, s>> = t4
    BY <1>7, <2>1, <2>2, <2>4, <2>6, <2>8, ConcatTuple
  <2>15. t4 \in Seq(D)
    BY <2>9 DEF Fits
  <2>16. t4 \o <<i, b>> = t6
    BY <1>7, <2>10, <2>12, <2>15, ConcatTuple
  <2> QED BY <2>13, <2>14, <2>16
<1>18. ASSUME NEW strings \in {"0", "1"} PROVE Fits(ArgumentsOf(AttemptJob(strings, FALSE)), D, plain, TRUE, TRUE)
  <2>1. PICK s \in {s0, s1} : DefineArgs(strings) = <<d1, d2, d3, s>>
    BY <1>16
  <2>2. ArgumentsOf(AttemptJob(strings, FALSE)) = ((P \o <<z, o3>>) \o <<d1, d2, d3, s>>) \o <<i, b>>
    <3>1. FlagArguments(AttemptJob(strings, FALSE).Flags) = <<z, o3>>
      <4>1. AttemptJob(strings, FALSE).Flags = {}
        BY DEF AttemptJob, JobDesc
      <4> QED BY <1>1, <4>1, FlagsPlain
    <3>2. [k \in DOMAIN AttemptJob(strings, FALSE).AdditionalFlags |-> <<AttemptJob(strings, FALSE).AdditionalFlags[k]>>]
            = <<i, b>>
      BY <1>3, AdditionalOfAttempt
    <3> QED BY <1>15, <2>1, <3>1, <3>2
  <2>3. Fits(P, D, Plain(P), FALSE, TRUE)
    BY <1>14 DEF Fits
  <2>4. PICK t1 : t1 = Append(P, z)
    OBVIOUS
  <2>5. Fits(t1, D, Kept(Plain(P), z), FALSE, TRUE)
    BY <1>1, <1>7, <1>9, <1>11, <2>3, <2>4, FitsKept
  <2>6. PICK t2 : t2 = Append(t1, o3)
    OBVIOUS
  <2>7. Fits(t2, D, Kept(Plain(P), z), FALSE, TRUE)
    BY <1>7, <1>8, <1>9, <2>5, <2>6, FitsSkipped
  <2>8. P \o <<z, o3>> = t2 /\ t2 \in Seq(D)
    BY <1>7, <1>13, <2>4, <2>6, <2>7, ConcatTuple DEF Fits
  <2> QED BY <1>17, <2>2, <2>7, <2>8
<1>19. ASSUME NEW strings \in {"0", "1"} PROVE Fits(ArgumentsOf(AttemptJob(strings, TRUE)), D, plain, TRUE, FALSE)
  <2>1. PICK s \in {s0, s1} : DefineArgs(strings) = <<d1, d2, d3, s>>
    BY <1>16
  <2>2. ArgumentsOf(AttemptJob(strings, TRUE))
          = ((P \o <<z, o0, od>>) \o <<d1, d2, d3, s>>) \o (<<i, b>> \o <<q1, q2, q3>>)
    <3>1. FlagArguments(AttemptJob(strings, TRUE).Flags) = <<z, o0, od>>
      <4>1. AttemptJob(strings, TRUE).Flags = {"SkipOptimization", "O0"}
        BY DEF AttemptJob, JobDesc
      <4> QED BY <1>1, <4>1, FlagsCaptured
    <3>2. [k \in DOMAIN AttemptJob(strings, TRUE).AdditionalFlags |-> <<AttemptJob(strings, TRUE).AdditionalFlags[k]>>]
            = <<i, b>> \o <<q1, q2, q3>>
      BY <1>3, AdditionalOfAttempt
    <3> QED BY <1>15, <2>1, <3>1, <3>2
  <2>4. PICK t1 : t1 = Append(P, z)
    OBVIOUS
  <2>5. Fits(t1, D, Kept(Plain(P), z), FALSE, FALSE)
    BY <1>1, <1>7, <1>9, <1>11, <1>14, <2>4, FitsKept
  <2>6. PICK t2 : t2 = Append(t1, o0)
    OBVIOUS
  <2>7. Fits(t2, D, Kept(Plain(P), z), FALSE, FALSE)
    BY <1>1, <1>7, <1>8, <1>9, <1>11, <2>5, <2>6, FitsSkipped
  <2>8. PICK t3 : t3 = Append(t2, od)
    OBVIOUS
  <2>9. Fits(t3, D, Kept(Plain(P), z), FALSE, FALSE)
    BY <1>1, <1>7, <1>8, <1>9, <1>11, <2>7, <2>8, FitsSkipped
  <2>10. P \o <<z, o0, od>> = t3 /\ t3 \in Seq(D)
    BY <1>7, <1>13, <2>4, <2>6, <2>8, <2>9, ConcatTuple DEF Fits
  <2>11. PICK t4 : t4 = (t3 \o <<d1, d2, d3, s>>) \o <<i, b>>
    OBVIOUS
  <2>12. Fits(t4, D, plain, TRUE, FALSE) /\ t4 \in Seq(D)
    <3>1. Fits(t4, D, plain, TRUE, FALSE)
      BY <1>17, <2>9, <2>10, <2>11
    <3> QED BY <3>1 DEF Fits
  <2>13. PICK t5, t6, t7 : t5 = Append(t4, q1) /\ t6 = Append(t5, q2) /\ t7 = Append(t6, q3)
    OBVIOUS
  <2>14. Fits(t5, D, plain, TRUE, FALSE)
    BY <1>1, <1>7, <1>8, <1>9, <1>11, <2>12, <2>13, FitsSkipped
  <2>15. Fits(t6, D, plain, TRUE, FALSE)
    BY <1>1, <1>7, <1>8, <1>9, <1>11, <2>13, <2>14, FitsSkipped
  <2>16. Fits(t7, D, plain, TRUE, FALSE)
    BY <1>1, <1>7, <1>8, <1>9, <1>11, <2>13, <2>15, FitsSkipped
  <2>17. t4 \o <<q1, q2, q3>> = t7
    BY <1>7, <2>12, <2>13, ConcatTuple
  <2>18. (t3 \o <<d1, d2, d3, s>>) \o (<<i, b>> \o <<q1, q2, q3>>) = t4 \o <<q1, q2, q3>>
    <3>1. s \in D
      BY <1>7
    <3>2. PICK u, v, w : u = t3 \o <<d1, d2, d3, s>> /\ v = <<i, b>> /\ w = <<q1, q2, q3>>
      OBVIOUS
    <3>3. u \in Seq(D)
      BY <1>7, <2>10, <3>1, <3>2
    <3>4. v \in Seq(D) /\ w \in Seq(D)
      BY <1>7, <3>2
    <3>5. u \o (v \o w) = (u \o v) \o w
      BY <3>3, <3>4, ConcatAssociative
    <3> QED BY <2>11, <3>2, <3>5
  <2> QED BY <2>2, <2>10, <2>16, <2>17, <2>18
<1>20. ASSUME NEW strings \in {"0", "1"}, NEW capture \in BOOLEAN
       PROVE  Fits(ArgumentsOf(AttemptJob(strings, capture)), D, plain, TRUE, ~capture)
  <2>1. CASE capture
    BY <1>19, <2>1
  <2>2. CASE ~capture
    BY <1>18, <2>2
  <2> QED BY <2>1, <2>2
<1> QED BY <1>20

\* An attempt compiled the job that its decisions ask for, and bound what it was told to.
Faithful(attempt) ==
  /\ attempt.bindings /\ attempt.captured \in BOOLEAN
  /\ \E strings \in {"0", "1"} : attempt.arguments = ArgumentsOf(AttemptJob(strings, attempt.captured))

AlikeInv ==
  /\ test.stage # "idle" =>
       \E capture \in EGPUCaptureMode, strings \in EStringMode : test.desc = Prepared(capture, strings)
  /\ \A k \in 1..Len(attempts) : Faithful(attempts[k])

LEMMA AlikeAttempts ==
  ASSUME TestsInv, AlikeInv, NEW retry \in BOOLEAN, RunTestImpl(retry), test.stage # "idle"
  PROVE  AlikeInv'
<1> DEFINE capture == ShouldTakeCapture(test.fixture, test.desc.GPUCaptureMode, retry)
           strings == IF EnableStrings(test.desc.StringMode, retry) THEN "1" ELSE "0"
           worked == [test.desc EXCEPT !.Defines = Append(@, <<"TTL_ENABLE_STRINGS", strings>>)]
<1>1. PICK end \in Ends(capture) :
        /\ attempts' = Append(attempts, [arguments |-> ArgumentsOf(CompileJob(worked, capture)),
                                         bindings |-> worked.Bindings, captured |-> capture, end |-> end])
        /\ test' = [test EXCEPT !.stage = NextStage(end, retry, test.desc),
                                !.desc = DescriptionAfter(test.desc, worked)]
  BY Zenon DEF RunTestImpl
<1>2. PICK mode \in EGPUCaptureMode, when \in EStringMode : test.desc = Prepared(mode, when)
  BY DEF AlikeInv
<1>3. CompileJob(worked, capture) = AttemptJob(strings, capture) /\ worked.Bindings
  <2>1. PICK defs, flags, decided, copy :
          /\ defs = <<(<<"USER", "1">>), <<"TTL_STRING_MAX_LENGTH", "64">>, AssertionLibraryDefine>>
          /\ flags = <<"-interface">> /\ decided = strings /\ copy = worked
    OBVIOUS
  <2>2. test.desc = [GPUCaptureMode |-> mode, StringMode |-> when, Bindings |-> TRUE,
                     Defines |-> defs, CompilationFlags |-> flags]
    BY <1>2, <2>1 DEF Prepared
  <2>3. copy = [test.desc EXCEPT !.Defines = Append(@, <<"TTL_ENABLE_STRINGS", decided>>)]
    BY <2>1
  <2>4. /\ copy.Defines = Append(defs, <<"TTL_ENABLE_STRINGS", decided>>)
        /\ copy.CompilationFlags = flags /\ copy.Bindings
    BY <2>2, <2>3
  <2>5. PICK taken : taken = capture
    OBVIOUS
  <2> HIDE DEF strings, capture, worked
  <2>6. CompileJob(copy, taken) = AttemptJob(decided, taken)
    BY <2>1, <2>4 DEF CompileJob, AttemptJob
  <2> QED BY <2>1, <2>4, <2>5, <2>6
<1>4. DescriptionAfter(test.desc, worked) = test.desc
  BY DEF DescriptionAfter
<1>5. strings \in {"0", "1"} /\ capture \in BOOLEAN
  BY DEF ShouldTakeCapture
<1> HIDE DEF strings, capture, worked
<1>6. test'.desc = test.desc
  <2>1. test = [stage |-> test.stage, fixture |-> test.fixture, desc |-> test.desc,
                fullTest |-> test.fullTest]
    BY DEF TestsInv, TestShaped
  <2>2. PICK next : next = NextStage(end, retry, test.desc)
    OBVIOUS
  <2>3. test' = [test EXCEPT !.stage = next, !.desc = test.desc]
    BY <1>1, <1>4, <2>2
  <2> QED BY <2>1, <2>3
<1>7. PICK arguments, bindings : arguments = ArgumentsOf(AttemptJob(strings, capture)) /\ bindings = worked.Bindings
  OBVIOUS
<1>8. PICK made : made = [arguments |-> arguments, bindings |-> bindings, captured |-> capture, end |-> end]
  OBVIOUS
<1>9. Faithful(made)
  BY <1>3, <1>5, <1>7, <1>8 DEF Faithful
<1>10. PICK S : attempts \in Seq(S)
  BY DEF TestsInv, TriedSoFar
<1>11. attempts' = Append(attempts, made)
  BY <1>1, <1>3, <1>7, <1>8
<1>12. /\ attempts' \in Seq(S \cup {made}) /\ Len(attempts') = Len(attempts) + 1
       /\ Len(attempts) \in Nat
       /\ \A k \in 1..Len(attempts) : attempts'[k] = attempts[k]
       /\ attempts'[Len(attempts) + 1] = made
  <2>1. attempts \in Seq(S \cup {made})
    BY <1>10, SeqOverMore
  <2> QED BY <1>11, <2>1, AppendElements
<1>13. ASSUME NEW k \in 1..Len(attempts') PROVE Faithful(attempts'[k])
  <2>1. k \in 1..Len(attempts) \/ k = Len(attempts) + 1
    BY <1>12
  <2>2. \A j \in 1..Len(attempts) : Faithful(attempts[j])
    BY DEF AlikeInv
  <2> QED BY <1>9, <1>12, <2>1, <2>2
<1> QED BY <1>2, <1>6, <1>13 DEF AlikeInv

LEMMA AlikeKept == TestsInv /\ AlikeInv /\ [FixtureNext]_testVars => AlikeInv'
<1> SUFFICES ASSUME TestsInv, AlikeInv, [FixtureNext]_testVars PROVE AlikeInv'
  OBVIOUS
<1>1. ASSUME UNCHANGED runVars PROVE AlikeInv'
  BY <1>1 DEF AlikeInv, runVars
<1>2. ASSUME NEW f \in Fixtures,
             \/ ConstructBase(f) \/ ConstructDriver(f) \/ ConstructDriverThrows(f)
             \/ RunCompileTimeTest(f) \/ DestroyDerived(f) \/ DestroyBase(f)
      PROVE  AlikeInv'
  BY <1>1, <1>2 DEF ConstructBase, ConstructDriver, ConstructDriverThrows, RunCompileTimeTest,
                    DestroyDerived, DestroyBase
<1>3. ASSUME NEW f \in Fixtures, RunTest(f) PROVE AlikeInv'
  <2>1. PICK capture \in EGPUCaptureMode, strings \in EStringMode :
          test' = [stage |-> "first", fixture |-> f, desc |-> Prepared(capture, strings),
                   fullTest |-> BeginHandle(m_RawTimedStats, <<f, "RunTest", tests>>)]
    BY <1>3 DEF RunTest
  <2>2. test'.desc = Prepared(capture, strings)
    BY <2>1
  <2>3. attempts' = attempts
    BY <1>3 DEF RunTest
  <2> QED BY <2>2, <2>3 DEF AlikeInv
<1>4. CASE FirstAttempt
  BY <1>4, AlikeAttempts DEF FirstAttempt
<1>5. CASE SecondAttempt
  BY <1>5, AlikeAttempts DEF SecondAttempt
<1>6. CASE ResultSeen
  <2>1. test'.stage = "idle" /\ attempts' = <<>>
    BY <1>6 DEF ResultSeen, Idle
  <2>2. Len(attempts') = 0
    BY <2>1
  <2> QED BY <2>1, <2>2 DEF AlikeInv
<1>7. CASE UNCHANGED testVars
  BY <1>1, <1>7 DEF testVars
<1> QED BY <1>1, <1>2, <1>3, <1>4, <1>5, <1>6, <1>7 DEF FixtureNext, Terminated, testVars

\* Both attempts of a test compile and bind the same, but for what serves diagnosis, and
\* each decides about strings once, for any fixtures, tests and machines.
THEOREM AttemptsAlwaysAlike == FixtureSpec => []AttemptsAlike
<1>1. FixtureInit => DevicesInv /\ TestsInv /\ AlikeInv
  <2> SUFFICES ASSUME FixtureInit PROVE AlikeInv
    BY DevicesStart, TestsStart
  <2>1. test.stage = "idle" /\ attempts = <<>>
    BY DEF FixtureInit, Idle
  <2>2. Len(attempts) = 0
    BY <2>1
  <2> QED BY <2>1, <2>2 DEF AlikeInv
<1>2. DevicesInv /\ TestsInv /\ AlikeInv /\ [FixtureNext]_testVars => (DevicesInv /\ TestsInv /\ AlikeInv)'
  BY DevicesKept, TestsKept, AlikeKept
<1>3. TestsInv /\ AlikeInv => AttemptsAlike
  <2> SUFFICES ASSUME TestsInv, AlikeInv, NEW k \in DOMAIN attempts
               PROVE  LET arguments == attempts[k].arguments
                          strings == { j \in DOMAIN arguments : arguments[j][1] = "-D" /\ arguments[j][2] = "TTL_ENABLE_STRINGS" }
                      IN  /\ attempts[k].bindings
                          /\ Cardinality(strings) = 1
                          /\ Plain(arguments) = Plain(attempts[1].arguments)
                          /\ attempts[k].captured => <<"-O3">> \notin ToSet(arguments)
    BY Zenon DEF AttemptsAlike
  <2>1. PICK S : attempts \in Seq(S)
    BY DEF TestsInv, TriedSoFar
  <2>2. k \in 1..Len(attempts) /\ 1 \in 1..Len(attempts)
    BY <2>1
  <2>3. Faithful(attempts[k]) /\ Faithful(attempts[1])
    BY <2>2 DEF AlikeInv
  <2>4. PICK D, plain : \A strings \in {"0", "1"} : \A capture \in BOOLEAN :
                          Fits(ArgumentsOf(AttemptJob(strings, capture)), D, plain, TRUE, ~capture)
    BY AttemptFits
  <2>5. PICK arguments, first, captured :
          arguments = attempts[k].arguments /\ first = attempts[1].arguments /\ captured = attempts[k].captured
    OBVIOUS
  <2>6. Fits(arguments, D, plain, TRUE, ~captured)
    BY <2>3, <2>4, <2>5 DEF Faithful
  <2>7. \E other \in BOOLEAN : Fits(first, D, plain, TRUE, other)
    BY <2>3, <2>4, <2>5 DEF Faithful
  <2>8. Plain(arguments) = Plain(first)
    BY <2>6, <2>7 DEF Fits
  <2>9. arguments \in Seq(D) /\ DOMAIN arguments = 1..Len(arguments)
    BY <2>6 DEF Fits
  <2>10. PICK j \in 1..Len(arguments) : \A i \in 1..Len(arguments) : NamesStrings(arguments[i]) <=> i = j
    BY <2>6 DEF Fits
  <2>11. { i \in DOMAIN arguments : arguments[i][1] = "-D" /\ arguments[i][2] = "TTL_ENABLE_STRINGS" } = {j}
    BY <2>9, <2>10 DEF NamesStrings
  <2>12. Cardinality({j}) = 1
    BY FS_Singleton
  <2>13. captured => <<"-O3">> \notin ToSet(arguments)
    BY <2>6, <2>9 DEF Fits, ToSet
  <2>14. attempts[k].bindings
    BY <2>3 DEF Faithful
  <2> QED BY <2>5, <2>8, <2>11, <2>12, <2>13, <2>14
<1> QED BY <1>1, <1>2, <1>3, PTL DEF FixtureSpec

-----------------------------------------------------------------------------
(* The mappings of a compiler. *)

AllMappings == Mappings \cup {OwnMapping}

\* A mapping of the list tried, one turn of the constructor's loop.
Tried(done, mapping) ==
  IF done.refused \/ AddMappingAnswer(done.mappings, mapping) # "Success"
  THEN [done EXCEPT !.refused = TRUE]
  ELSE [done EXCEPT !.mappings = AddMapping(@, mapping)]

NoneTried == [mappings |-> <<>>, refused |-> FALSE]

States(M) == [mappings : Seq(M), refused : BOOLEAN]

LEMMA TriedTyped ==
  ASSUME NEW M, NEW done \in States(M), NEW mapping \in M
  PROVE  Tried(done, mapping) \in States(M)
<1>1. done.mappings \in Seq(M) /\ Append(done.mappings, mapping) \in Seq(M)
  BY DEF States
<1>2. AddMapping(done.mappings, mapping) \in Seq(M)
  BY <1>1 DEF AddMapping
<1> QED BY <1>1, <1>2 DEF Tried, States

\* The constructor tries one mapping after the other.
LEMMA AddedSteps ==
  ASSUME NEW M, NEW list \in Seq(M)
  PROVE  \E run : /\ run[0] = NoneTried /\ Added(list) = run[Len(list)]
                  /\ \A k \in 0..Len(list) - 1 : run[k + 1] = Tried(run[k], list[k + 1])
<1> DEFINE n == Len(list)
           G == [p \in States(M) \X (1..n) |-> Tried(p[1], list[p[2]])]
           Rule(iter) == iter = [t \in SUBSET (1..n) |->
              IF t = {} THEN NoneTried ELSE Tried(iter[t \ {Largest(t)}], list[Largest(t)])]
<1>1. n \in Nat /\ DOMAIN list = 1..n
  OBVIOUS
<1>2. Added(list) = (CHOOSE iter : Rule(iter))[1..n]
  BY <1>1 DEF Added, Tried, NoneTried, FoldLeft, MapThenFoldSet, Max, Largest
<1>3. \A v \in States(M) : \A k \in 1..n : G[<<v, k>>] = Tried(v, list[k]) /\ G[<<v, k>>] \in States(M)
  BY TriedTyped
<1>4. NoneTried \in States(M)
  BY DEF NoneTried, States
<1> HIDE DEF G
<1>5. PICK fold \in [SUBSET (1..n) -> States(M)] : IsFold(fold, n, NoneTried, G)
  <2> HIDE DEF n
  <2> QED BY <1>1, <1>3, <1>4, FoldExists
<1>6. Rule(fold)
  <2>1. ASSUME NEW t \in SUBSET (1..n), t # {}
        PROVE  G[<<fold[t \ {Largest(t)}], Largest(t)>>] = Tried(fold[t \ {Largest(t)}], list[Largest(t)])
    <3>1. Largest(t) \in 1..n /\ t \ {Largest(t)} \in SUBSET (1..n)
      BY <1>1, <2>1, LargestIn
    <3> QED BY <1>3, <3>1
  <2> QED BY <1>5, <2>1 DEF IsFold
<1> DEFINE iter == CHOOSE it : Rule(it)
           run == [k \in 0..n |-> iter[1..k]]
<1>7. Rule(iter)
  BY <1>6
<1> HIDE DEF iter
<1>8. run[0] = NoneTried
  <2>1. 1..0 = {}
    OBVIOUS
  <2>2. {} \in SUBSET (1..n)
    OBVIOUS
  <2>3. 0 \in 0..n
    <3> HIDE DEF n
    <3>1. n \in Nat
      BY <1>1
    <3> QED BY <3>1
  <2> QED BY <1>7, <2>1, <2>2, <2>3
<1>9. ASSUME NEW k \in 0..n - 1 PROVE run[k + 1] = Tried(run[k], list[k + 1])
  <2>1. k \in Nat /\ k + 1 \in 1..k + 1 /\ 1..k + 1 \in SUBSET (1..n) /\ 1..k + 1 # {} /\ k \in 0..n /\ k + 1 \in 0..n
    <3> HIDE DEF n, run
    <3>1. n \in Nat /\ k \in 0..n - 1
      BY <1>1
    <3>2. k \in Nat /\ k + 1 <= n
      BY <3>1
    <3>3. k + 1 \in 1..k + 1 /\ k \in 0..n /\ k + 1 \in 0..n
      BY <3>1, <3>2
    <3>4. 1..k + 1 # {}
      BY <3>2
    <3>5. \A j \in 1..k + 1 : j \in 1..n
      BY <3>1, <3>2
    <3> QED BY <3>2, <3>3, <3>4, <3>5
  <2>2. Largest(1..k + 1) = k + 1
    BY <2>1, LargestTo
  <2>3. (1..k + 1) \ {k + 1} = 1..k
    OBVIOUS
  <2>4. iter[1..k + 1] = Tried(iter[(1..k + 1) \ {Largest(1..k + 1)}], list[Largest(1..k + 1)])
    BY <1>7, <2>1, Zenon
  <2> QED BY <2>1, <2>2, <2>3, <2>4
<1>10. Added(list) = run[n]
  BY <1>1, <1>2 DEF iter
<1> HIDE DEF run
<1> QED BY <1>8, <1>9, <1>10

\* No mapping lies below an earlier one.
Apart(mappings) ==
  \A i, j \in 1..Len(mappings) : i < j => ~StartsWithMapping(mappings[j].VirtualPath, mappings[i])

LEMMA NoneFound ==
  ASSUME NEW M, NEW mappings \in Seq(M), NEW path, FindMapping(mappings, path) = 0
  PROVE  \A k \in 1..Len(mappings) : ~StartsWithMapping(path, mappings[k])
<1> DEFINE found == { k \in DOMAIN mappings : StartsWithMapping(path, mappings[k]) }
<1>1. DOMAIN mappings = 1..Len(mappings)
  OBVIOUS
<1>2. ASSUME found # {} PROVE FALSE
  <2>1. found \subseteq Nat
    BY <1>1
  <2>2. PICK k \in found : \A j \in found : k <= j
    BY <1>2, <2>1, LeastNumber
  <2>3. PICK least : least = FindMapping(mappings, path)
    OBVIOUS
  <2>4. least \in found
    BY <1>2, <2>2, <2>3 DEF FindMapping
  <2> QED BY <1>1, <2>3, <2>4
<1> QED BY <1>1, <1>2

\* What FindMapping finds is the first mapping that the path goes on after.
LEMMA FirstFound ==
  ASSUME NEW M, NEW mappings \in Seq(M), NEW path, NEW k \in 1..Len(mappings),
         StartsWithMapping(path, mappings[k])
  PROVE  /\ FindMapping(mappings, path) \in 1..Len(mappings)
         /\ StartsWithMapping(path, mappings[FindMapping(mappings, path)])
         /\ FindMapping(mappings, path) <= k
<1> DEFINE found == { j \in DOMAIN mappings : StartsWithMapping(path, mappings[j]) }
           least == FindMapping(mappings, path)
<1>1. DOMAIN mappings = 1..Len(mappings) /\ k \in found
  OBVIOUS
<1>2. found \subseteq Nat /\ found # {}
  BY <1>1
<1>3. \E i \in found : \A j \in found : i <= j
  BY <1>2, LeastNumber
<1>4. least \in found /\ \A j \in found : least <= j
  BY <1>2, <1>3 DEF FindMapping
<1> HIDE DEF least
<1>5. least <= k /\ least \in 1..Len(mappings) /\ StartsWithMapping(path, mappings[least])
  BY <1>1, <1>4
<1> QED BY <1>5 DEF least

LEMMA AddedApart ==
  ASSUME NEW M, NEW list \in Seq(M)
  PROVE  Added(list).mappings \in Seq(M) /\ Apart(Added(list).mappings)
<1> DEFINE Good(done) == done \in States(M) /\ Apart(done.mappings)
           n == Len(list)
<1>1. PICK run : /\ run[0] = NoneTried /\ Added(list) = run[n]
                 /\ \A k \in 0..n - 1 : run[k + 1] = Tried(run[k], list[k + 1])
  BY AddedSteps
<1>2. n \in Nat
  OBVIOUS
<1>3. Good(run[0])
  <2>1. Len(<<>>) = 0
    OBVIOUS
  <2>2. Apart(<<>>)
    BY <2>1 DEF Apart
  <2>3. NoneTried \in States(M) /\ NoneTried.mappings = <<>>
    BY DEF NoneTried, States
  <2> QED BY <1>1, <2>2, <2>3
<1>4. ASSUME NEW k \in 0..n - 1, Good(run[k]) PROVE Good(run[k + 1])
  <2>1. PICK done, mapping : done = run[k] /\ mapping = list[k + 1]
    OBVIOUS
  <2>2. mapping \in M /\ done \in States(M) /\ Apart(done.mappings)
    BY <1>4, <2>1
  <2>3. run[k + 1] = Tried(done, mapping)
    BY <1>1, <2>1
  <2>4. Tried(done, mapping) \in States(M)
    BY <2>2, TriedTyped
  <2>5. PICK old : old = done.mappings /\ old \in Seq(M)
    BY <2>2 DEF States
  <2>6. Apart(Tried(done, mapping).mappings)
    <3>1. CASE done.refused \/ AddMappingAnswer(old, mapping) # "Success"
      <4>1. Tried(done, mapping).mappings = old
        BY <2>2, <2>5, <3>1 DEF Tried, States
      <4> QED BY <2>2, <2>5, <4>1
    <3>2. CASE ~(done.refused \/ AddMappingAnswer(old, mapping) # "Success")
      <4>1. Tried(done, mapping).mappings = Append(old, mapping)
        BY <2>2, <2>5, <3>2 DEF Tried, States, AddMapping
      <4>2. FindMapping(old, mapping.VirtualPath) = 0
        BY <3>2 DEF AddMappingAnswer
      <4>3. \A i \in 1..Len(old) : ~StartsWithMapping(mapping.VirtualPath, old[i])
        BY <2>5, <4>2, NoneFound
      <4>4. PICK new : new = Append(old, mapping)
        OBVIOUS
      <4>5. /\ Len(new) = Len(old) + 1 /\ Len(old) \in Nat /\ new[Len(old) + 1] = mapping
            /\ \A i \in 1..Len(old) : new[i] = old[i]
        BY <2>2, <2>5, <4>4, AppendElements
      <4>6. ASSUME NEW i \in 1..Len(new), NEW j \in 1..Len(new), i < j
            PROVE  ~StartsWithMapping(new[j].VirtualPath, new[i])
        <5>1. i \in 1..Len(old) /\ (j \in 1..Len(old) \/ j = Len(old) + 1)
          BY <4>5, <4>6
        <5>2. CASE j \in 1..Len(old)
          BY <2>2, <2>5, <4>5, <4>6, <5>1, <5>2 DEF Apart
        <5>3. CASE j = Len(old) + 1
          BY <4>3, <4>5, <5>1, <5>3
        <5> QED BY <5>1, <5>2, <5>3
      <4> QED BY <4>1, <4>4, <4>6 DEF Apart
    <3> QED BY <3>1, <3>2
  <2> QED BY <2>3, <2>4, <2>6
<1> DEFINE T == {k \in 0..n : Good(run[k])}
<1>5. 0 \in T /\ \A k \in 0..n - 1 : k \in T => k + 1 \in T
  BY <1>2, <1>3, <1>4
<1>6. \A k \in 0..n : k \in T
  <2> HIDE DEF T, n
  <2> QED BY <1>2, <1>5, EveryNumberTo
<1>7. Good(run[n])
  BY <1>2, <1>6
<1> QED BY <1>1, <1>7 DEF States

\* What the constructor leaves: mappings that are apart; and when the compiler works the
\* include handler has the same.
CompilerInv ==
  /\ asked \in Seq(AllMappings)
  /\ m_DirectoryManager \in Seq(AllMappings) /\ Apart(m_DirectoryManager)
  /\ m_Compiler \in BOOLEAN
  /\ m_Compiler => m_IncludeHandler = m_DirectoryManager
  /\ stage = "mapping" => ~m_Compiler
  /\ stage # "mapping" => (m_Compiler <=> ~Added(Append(asked, OwnMapping)).refused)
  /\ stage = "null dereferenced" => ~m_Compiler

LEMMA RefusedIsBoolean ==
  ASSUME NEW M, NEW list \in Seq(M)
  PROVE  Added(list).refused \in BOOLEAN
<1> DEFINE n == Len(list)
<1>1. PICK run : /\ run[0] = NoneTried /\ Added(list) = run[n]
                 /\ \A k \in 0..n - 1 : run[k + 1] = Tried(run[k], list[k + 1])
  BY AddedSteps
<1> DEFINE T == {k \in 0..n : run[k] \in States(M)}
<1>2. n \in Nat
  OBVIOUS
<1>3. 0 \in T
  <2>1. NoneTried \in States(M)
    BY DEF NoneTried, States
  <2>2. run[0] \in States(M)
    BY <1>1, <2>1
  <2>3. 0 \in 0..n
    <3> HIDE DEF n
    <3> QED BY <1>2
  <2> QED BY <2>2, <2>3
<1>4. ASSUME NEW k \in 0..n - 1, k \in T PROVE k + 1 \in T
  <2>1. run[k + 1] = Tried(run[k], list[k + 1]) /\ list[k + 1] \in M /\ k + 1 \in 0..n
    BY <1>1
  <2> QED BY <1>4, <2>1, TriedTyped
<1>5. \A k \in 0..n : k \in T
  <2> HIDE DEF T, n
  <2> QED BY <1>2, <1>3, <1>4, EveryNumberTo
<1>6. run[n] \in States(M)
  BY <1>2, <1>5
<1> QED BY <1>1, <1>6 DEF States

LEMMA CompilerStart == ShaderInit => CompilerInv
<1> SUFFICES ASSUME ShaderInit PROVE CompilerInv
  OBVIOUS
<1>1. Apart(<<>>)
  <2>1. Len(<<>>) = 0
    OBVIOUS
  <2> QED BY <2>1 DEF Apart
<1>2. /\ asked = <<>> /\ m_DirectoryManager = <<>> /\ m_IncludeHandler = <<>>
      /\ m_Compiler = FALSE /\ stage = "mapping"
  BY DEF ShaderInit, CompilerInit
<1>3. <<>> \in Seq(AllMappings)
  OBVIOUS
<1>4. asked \in Seq(AllMappings) /\ m_DirectoryManager \in Seq(AllMappings)
  BY <1>2, <1>3
<1>5. Apart(m_DirectoryManager)
  BY <1>1, <1>2
<1> QED BY <1>2, <1>4, <1>5 DEF CompilerInv

LEMMA CompilerKept == CompilerInv /\ [BindingsNext]_shaderVars => CompilerInv'
<1> SUFFICES ASSUME CompilerInv, [BindingsNext]_shaderVars PROVE CompilerInv'
  OBVIOUS
<1>1. CASE AskMapping
  <2>1. PICK mapping \in Mappings : asked' = Append(asked, mapping)
    BY <1>1 DEF AskMapping
  <2>2. asked' \in Seq(AllMappings)
    <3>1. mapping \in AllMappings
      BY DEF AllMappings
    <3>2. asked \in Seq(AllMappings)
      BY DEF CompilerInv
    <3> QED BY <2>1, <3>1, <3>2
  <2> QED BY <1>1, <2>2 DEF AskMapping, CompilerInv
<1>2. CASE Construct
  <2>1. PICK list : list = Append(asked, OwnMapping)
    OBVIOUS
  <2>2. list \in Seq(AllMappings)
    <3>1. OwnMapping \in AllMappings
      BY DEF AllMappings
    <3>2. asked \in Seq(AllMappings)
      BY DEF CompilerInv
    <3> QED BY <2>1, <3>1, <3>2
  <2>3. /\ Added(list).mappings \in Seq(AllMappings) /\ Apart(Added(list).mappings)
        /\ Added(list).refused \in BOOLEAN
    BY <2>2, AddedApart, RefusedIsBoolean
  <2>4. /\ m_DirectoryManager' = Added(list).mappings /\ m_Compiler' = ~Added(list).refused
        /\ m_IncludeHandler' = IF Added(list).refused THEN <<>> ELSE Added(list).mappings
        /\ stage' = "ready" /\ asked' = asked
    BY <1>2, <2>1 DEF Construct
  <2>5. Apart(m_DirectoryManager)'
    BY <2>3, <2>4 DEF Apart
  <2> QED BY <2>1, <2>3, <2>4, <2>5 DEF CompilerInv
<1>3. ASSUME UNCHANGED compilerVars, stage # "mapping", stage' # "mapping",
             stage' = "null dereferenced" => stage = "null dereferenced" \/ ~m_Compiler
      PROVE  CompilerInv'
  BY <1>3 DEF CompilerInv, compilerVars, Apart
<1>4. ASSUME NEW source \in Sources, NEW type, NEW include \in Includes, CompileShader(source, type, include)
      PROVE  CompilerInv'
  <2>1. stage = "ready" /\ UNCHANGED compilerVars
    BY <1>4 DEF CompileShader
  <2>2. \/ stage' = "failed" \/ stage' = "compiled" \/ (stage' = "null dereferenced" /\ ~m_Compiler)
    BY <1>4 DEF CompileShader
  <2> QED BY <1>3, <2>1, <2>2
<1>5. CASE Make
  <2>1. stage = "compiled" /\ UNCHANGED compilerVars
    BY <1>5 DEF Make
  <2>2. stage' \in {"failed", "thrown", "made"}
    BY <1>5 DEF Make
  <2> QED BY <1>3, <2>1, <2>2
<1>6. CASE SetShaderStateAndDispatch
  BY <1>3, <1>6 DEF SetShaderStateAndDispatch
<1>7. ASSUME NEW binding \in Bindings, StageBindingData(binding) PROVE CompilerInv'
  <2>1. stage = "made" /\ UNCHANGED compilerVars /\ stage' \in {"failed", "made"}
    BY <1>7 DEF StageBindingData
  <2> QED BY <1>3, <2>1
<1>8. CASE UNCHANGED shaderVars
  BY <1>8 DEF shaderVars, CompilerInv, compilerVars, Apart
<1> QED BY <1>1, <1>2, <1>4, <1>5, <1>6, <1>7, <1>8 DEF BindingsNext, Over

-----------------------------------------------------------------------------
(* The innermost mapping wins. *)

LEMMA AllMappingsTyped ==
  ASSUME NEW mapping \in AllMappings
  PROVE  mapping.VirtualPath \in Seq(ToSet(mapping.VirtualPath)) /\ Len(mapping.VirtualPath) \in Nat
<1>1. mapping.VirtualPath \in Seq(ToSet(mapping.VirtualPath))
  BY MappingsAssumption DEF AllMappings
<1>2. PICK path : path = mapping.VirtualPath /\ path \in Seq(ToSet(path))
  BY <1>1
<1>3. Len(path) \in Nat
  BY <1>2
<1> QED BY <1>1, <1>2, <1>3

\* A beginning of a path that goes on is that of a longer beginning.
LEMMA PrefixElements ==
  ASSUME NEW S, NEW s \in Seq(S), NEW T, NEW t \in Seq(T)
  PROVE  IsPrefix(s, t) <=> Len(s) <= Len(t) /\ \A k \in 1..Len(s) : t[k] = s[k]
<1> DEFINE X == S \cup T
<1>1. s \in Seq(X) /\ t \in Seq(X)
  BY SeqOverMore
<1> HIDE DEF X
<1>2. Len(s) \in Nat /\ Len(t) \in Nat
  BY <1>1
<1>3. ASSUME NEW q \in Seq(X), Len(s) <= Len(q)
      PROVE  /\ SubSeq(q, 1, Len(s)) \in Seq(X)
             /\ Len(SubSeq(q, 1, Len(s))) = Len(s)
             /\ \A k \in 1..Len(s) : SubSeq(q, 1, Len(s))[k] = q[k]
  <2>1. PICK n : n = Len(s) /\ n \in Nat /\ n <= Len(q) /\ Len(q) \in Nat
    BY <1>2, <1>3
  <2>2. 1 \in 1..Len(q) + 1 /\ n \in 1 - 1..Len(q) /\ n - 1 + 1 = n
    BY <2>1
  <2>3. /\ SubSeq(q, 1, n) \in Seq(X)
        /\ Len(SubSeq(q, 1, n)) = n - 1 + 1
        /\ \A k \in 1..n - 1 + 1 : SubSeq(q, 1, n)[k] = q[(1 - 1) + k]
    BY <2>2, SubSeqElements
  <2>4. \A k \in 1..n : (1 - 1) + k = k
    OBVIOUS
  <2> QED BY <2>1, <2>2, <2>3, <2>4
<1>4. ASSUME Len(s) <= Len(t)
      PROVE  SubSeq(s, 1, Len(s)) = SubSeq(t, 1, Len(s)) <=> \A k \in 1..Len(s) : t[k] = s[k]
  <2>1. PICK a, b : a = SubSeq(s, 1, Len(s)) /\ b = SubSeq(t, 1, Len(s))
    OBVIOUS
  <2>2. a \in Seq(X) /\ Len(a) = Len(s) /\ \A k \in 1..Len(s) : a[k] = s[k]
    BY <1>1, <1>2, <1>3, <2>1
  <2>3. b \in Seq(X) /\ Len(b) = Len(s) /\ \A k \in 1..Len(s) : b[k] = t[k]
    BY <1>1, <1>3, <1>4, <2>1
  <2>4. ASSUME \A k \in 1..Len(s) : t[k] = s[k] PROVE a = b
    <3>1. \A k \in 1..Len(a) : a[k] = b[k]
      BY <2>2, <2>3, <2>4
    <3> QED BY <2>2, <2>3, <3>1, SameElements
  <2>5. ASSUME a = b, NEW k \in 1..Len(s) PROVE t[k] = s[k]
    BY <2>2, <2>3, <2>5
  <2> QED BY <2>1, <2>4, <2>5
<1> QED BY <1>4 DEF IsPrefix

\* Of mappings that are apart, the first that a path goes on after is the longest.
LEMMA FirstIsLongest ==
  ASSUME NEW mappings \in Seq(AllMappings), Apart(mappings), NEW X, NEW path \in Seq(X),
         NEW k \in 1..Len(mappings), StartsWithMapping(path, mappings[k])
  PROVE  Len(mappings[k].VirtualPath) <= Len(mappings[FindMapping(mappings, path)].VirtualPath)
<1>1. PICK f : f = FindMapping(mappings, path)
  OBVIOUS
<1>2. f \in 1..Len(mappings) /\ StartsWithMapping(path, mappings[f]) /\ f <= k
  BY <1>1, FirstFound
<1>3. mappings[k] \in AllMappings /\ mappings[f] \in AllMappings
  BY <1>2
<1>4. PICK inner, outer : inner = mappings[k].VirtualPath /\ outer = mappings[f].VirtualPath
  OBVIOUS
<1>5. /\ inner \in Seq(ToSet(inner)) /\ Len(inner) \in Nat
      /\ outer \in Seq(ToSet(outer)) /\ Len(outer) \in Nat
  BY <1>3, <1>4, AllMappingsTyped
<1> SUFFICES ASSUME Len(outer) < Len(inner) PROVE FALSE
  BY <1>1, <1>4, <1>5
<1>6. IsPrefix(inner, path) /\ IsPrefix(outer, path) /\ path[Len(outer) + 1] \in Separators
  BY <1>2, <1>4 DEF StartsWithMapping
<1>7. \A i \in 1..Len(inner) : path[i] = inner[i]
  BY <1>5, <1>6, PrefixElements
<1>8. \A i \in 1..Len(outer) : path[i] = outer[i]
  BY <1>5, <1>6, PrefixElements
<1>9. \A i \in 1..Len(outer) : inner[i] = outer[i]
  <2>1. \A i \in 1..Len(outer) : i \in 1..Len(inner)
    BY <1>5
  <2> QED BY <1>7, <1>8, <2>1
<1>10. IsPrefix(outer, inner)
  <2>1. Len(outer) <= Len(inner)
    BY <1>5
  <2> QED BY <1>5, <1>9, <2>1, PrefixElements
<1>11. inner[Len(outer) + 1] \in Separators
  <2>1. Len(outer) + 1 \in 1..Len(inner)
    BY <1>5
  <2> QED BY <1>6, <1>7, <2>1
<1>12. StartsWithMapping(mappings[k].VirtualPath, mappings[f])
  BY <1>4, <1>10, <1>11 DEF StartsWithMapping
<1>13. f # k
  BY <1>4
<1> QED BY <1>2, <1>12, <1>13 DEF Apart

\* The path of a file below a mapping.
PathBelow(m) == m.VirtualPath \o <<"/", "x">>

LEMMA PathBelowTyped ==
  ASSUME NEW m \in AllMappings
  PROVE  /\ PathBelow(m) \in Seq(ToSet(m.VirtualPath) \cup {"/", "x"})
         /\ Len(PathBelow(m)) >= 2
<1>1. PICK X : X = ToSet(m.VirtualPath) \cup {"/", "x"}
  OBVIOUS
<1>2. PICK path : path = m.VirtualPath /\ path \in Seq(ToSet(path)) /\ ToSet(path) \subseteq X
  BY <1>1, AllMappingsTyped
<1>3. path \in Seq(X)
  BY <1>2, SeqOverMore
<1>4. PICK end : end = <<"/", "x">>
  OBVIOUS
<1>5. end \in Seq(X) /\ Len(end) = 2
  BY <1>1, <1>4
<1>6. path \o end \in Seq(X) /\ Len(path \o end) = Len(path) + Len(end)
  BY <1>3, <1>5, ConcatElements
<1>7. Len(path) \in Nat
  BY <1>3
<1> QED BY <1>1, <1>2, <1>4, <1>5, <1>6, <1>7 DEF PathBelow

\* Where mappings nest, the innermost one maps, although the code takes the first it
\* finds. VirtualShaderDirectoryMappingManager.cpp:24 and :53.
LEMMA InnermostFromApart == CompilerInv => InnermostMappingWins
<1> SUFFICES ASSUME CompilerInv, NEW m \in Mappings, NEW k \in Matching(PathBelow(m))
    PROVE  Len(m_DirectoryManager[k].VirtualPath)
             <= Len(m_DirectoryManager[FindMapping(m_DirectoryManager, PathBelow(m))].VirtualPath)
  BY DEF InnermostMappingWins, PathBelow
<1>1. m_DirectoryManager \in Seq(AllMappings) /\ Apart(m_DirectoryManager)
  BY DEF CompilerInv
<1>2. m \in AllMappings
  BY DEF AllMappings
<1>3. k \in 1..Len(m_DirectoryManager) /\ StartsWithMapping(PathBelow(m), m_DirectoryManager[k])
  BY <1>1 DEF Matching
<1>4. PICK path : path = PathBelow(m) /\ path \in Seq(ToSet(m.VirtualPath) \cup {"/", "x"})
  BY <1>2, PathBelowTyped
<1> QED BY <1>1, <1>3, <1>4, FirstIsLongest

LEMMA CompilerAlways == BindingsSpec => []CompilerInv
<1>1. CompilerInv /\ [BindingsNext]_shaderVars => CompilerInv'
  BY CompilerKept
<1> QED BY CompilerStart, <1>1, PTL DEF BindingsSpec

\* Where mappings nest, the innermost one maps a path, for any mappings a fixture is
\* given: VirtualShaderDirectoryMappingManager.cpp:24 and :53.
THEOREM InnermostWins == BindingsSpec => []InnermostMappingWins
BY CompilerAlways, InnermostFromApart, PTL

-----------------------------------------------------------------------------
(* Sources and includes agree. *)

\* The dot that DXC puts in front of an include goes, and nothing else.
LEMMA SanitizedInclude ==
  ASSUME NEW X, NEW path \in Seq(X), Len(path) >= 2, path[2] # "/", "\\" \notin ToSet(path)
  PROVE  SanitizePath(<<".">> \o path) = path
<1> DEFINE Y == X \cup {"."}
           dotted == <<".">> \o path
<1>1. path \in Seq(Y)
  BY SeqOverMore
<1>2. <<".">> \in Seq(Y) /\ Len(<<".">>) = 1 /\ (<<".">>)[1] = "."
  OBVIOUS
<1> HIDE DEF Y
<1>3. /\ dotted \in Seq(Y) /\ Len(dotted) = Len(<<".">>) + Len(path)
      /\ \A k \in 1..Len(<<".">>) : dotted[k] = (<<".">>)[k]
      /\ \A k \in 1..Len(path) : dotted[Len(<<".">>) + k] = path[k]
  BY <1>1, <1>2, ConcatElements
<1>4. Len(path) \in Nat
  OBVIOUS
<1> HIDE DEF dotted
<1>5. dotted[1] = "." /\ Len(dotted) = 1 + Len(path) /\ \A k \in 1..Len(path) : dotted[1 + k] = path[k]
  <2>1. 1 \in 1..Len(<<".">>)
    BY <1>2
  <2> QED BY <1>2, <1>3, <2>1
<1>6. dotted # <<>>
  <2>1. Len(<<>>) = 0 /\ Len(dotted) # 0
    BY <1>4, <1>5
  <2> QED BY <2>1
<1>7. Tail(dotted) = path
  <2>1. PICK rest : rest = Tail(dotted)
    OBVIOUS
  <2>2. /\ rest \in Seq(Y) /\ Len(rest) = Len(dotted) - 1
        /\ \A k \in 1..Len(dotted) - 1 : rest[k] = dotted[k + 1]
    BY <1>3, <1>6, <2>1, TailElements
  <2>3. Len(rest) = Len(path)
    BY <1>4, <1>5, <2>2
  <2>4. ASSUME NEW k \in 1..Len(rest) PROVE rest[k] = path[k]
    <3>1. k \in 1..Len(path) /\ k \in 1..Len(dotted) - 1 /\ k + 1 = 1 + k
      BY <1>4, <1>5, <2>3
    <3> QED BY <1>5, <2>2, <3>1
  <2> QED BY <1>1, <2>1, <2>2, <2>3, <2>4, SameElements
<1>8. \A k \in DOMAIN path : path[k] # "\\"
  BY DEF ToSet
<1>9. [k \in DOMAIN path |-> IF path[k] = "\\" THEN "/" ELSE path[k]] = path
  <2>1. path = [k \in DOMAIN path |-> path[k]]
    OBVIOUS
  <2> QED BY <1>8, <2>1
<1>10. SanitizePath(dotted) = path
  <2>1. (IF dotted[1] = "." THEN Tail(dotted) ELSE dotted) = path
    BY <1>5, <1>7
  <2> QED BY <1>9, <2>1 DEF SanitizePath
<1> QED BY <1>10 DEF dotted

LEMMA AgreeFromSame == CompilerInv => IncludesAgree
<1> SUFFICES ASSUME CompilerInv PROVE IncludesAgree
  OBVIOUS
<1>1. ASSUME m_Compiler, NEW m \in Mappings, "\\" \notin ToSet(PathBelow(m)), PathBelow(m)[2] # "/",
             Map(m_DirectoryManager, PathBelow(m)).error = "none"
      PROVE  Map(m_DirectoryManager, PathBelow(m)).path
               = IncludePath(m_IncludeHandler, <<".">> \o PathBelow(m))
  <2>1. m \in AllMappings
    BY DEF AllMappings
  <2>2. PICK path : path = PathBelow(m)
    OBVIOUS
  <2>3. path \in Seq(ToSet(m.VirtualPath) \cup {"/", "x"}) /\ Len(path) >= 2
    BY <2>1, <2>2, PathBelowTyped
  <2>4. SanitizePath(<<".">> \o path) = path
    BY <1>1, <2>2, <2>3, SanitizedInclude
  <2>5. m_IncludeHandler = m_DirectoryManager
    BY <1>1 DEF CompilerInv
  <2> QED BY <1>1, <2>2, <2>4, <2>5 DEF IncludePath
<1>2. stage = "null dereferenced" => Added(Append(asked, OwnMapping)).refused
  BY DEF CompilerInv
<1> QED BY <1>1, <1>2 DEF IncludesAgree, PathBelow

\* Once the compiler works, a source and an include of the same virtual path are the same
\* file; and it works unless a mapping was refused. IncludeHandler.cpp:19 and :29,
\* ShaderCompiler.cpp:155.
THEOREM AlwaysAgree == BindingsSpec => []IncludesAgree
BY CompilerAlways, AgreeFromSame, PTL

-----------------------------------------------------------------------------
(* The binding map of a reflection, one resource after the other. *)

NothingMade == [error |-> "none", total |-> 0, names |-> <<>>, buffers |-> <<>>]

MakeErrors == {"none", "OnlyConstantBuffersSupportedForBinding", "ConstantBufferMustBeBoundToDecriptorTable"}

BindTypes == {"RootConstants", "RootDescriptor", "DescriptorTable"}

Infos == [RootParamIndex : Nat, OffsetIntoBuffer : Nat, BindingSize : Nat]

\* The names a reflection may bind.
NamesOf(R) == UNION { DOMAIN Names(resource, 0) : resource \in ToSet(R) }

NameMaps(R) == UNION { [D -> Infos] : D \in SUBSET NamesOf(R) }

Slots == [Type : BindTypes, Buffer : Seq({0})]

MapsOf(R) == [error : MakeErrors, total : Nat, names : NameMaps(R), buffers : Seq(Slots)]

\* The buffer a resource gets.
Slot(done, resource) == [Type |-> BindType(done, resource), Buffer |-> Zeros(resource.size)]

LEMMA ResourceTyped ==
  ASSUME NEW R \in Reflections, NEW resource \in ToSet(R)
  PROVE  /\ resource.size \in Nat
         /\ resource.name = "$Globals" =>
              \A k, l \in DOMAIN resource.variables :
                /\ resource.variables[k].start \in Nat /\ resource.variables[k].size \in Nat
                /\ resource.variables[k].start + resource.variables[k].size <= resource.size
                /\ k # l =>
                     /\ resource.variables[k].name # resource.variables[l].name
                     /\ \/ resource.variables[k].start + resource.variables[k].size <= resource.variables[l].start
                        \/ resource.variables[l].start + resource.variables[l].size <= resource.variables[k].start
BY ReflectionsAssumption

LEMMA ZerosTyped ==
  ASSUME NEW n \in Nat
  PROVE  Zeros(n) \in Seq({0}) /\ Len(Zeros(n)) = n /\ \A i \in 1..n : Zeros(n)[i] = 0
<1>1. Zeros(n) \in [1..n -> {0}]
  BY DEF Zeros
<1>2. Zeros(n) \in Seq({0}) /\ Len(Zeros(n)) = n
  BY <1>1, FunctionIsSeq
<1> QED BY <1>2 DEF Zeros

\* The names of a resource do not depend on its place, and stand for what it declares.
LEMMA NamesTyped ==
  ASSUME NEW R \in Reflections, NEW resource \in ToSet(R), NEW index \in Nat
  PROVE  /\ DOMAIN Names(resource, index) = DOMAIN Names(resource, 0)
         /\ Names(resource, index) \in [DOMAIN Names(resource, index) -> Infos]
<1>1. CASE resource.name = "$Globals"
  <2> DEFINE D == { resource.variables[k].name : k \in DOMAIN resource.variables }
             At(name) == CHOOSE k \in DOMAIN resource.variables : resource.variables[k].name = name
             Info(i, name) == [RootParamIndex |-> i, OffsetIntoBuffer |-> resource.variables[At(name)].start,
                            BindingSize |-> resource.variables[At(name)].size]
  <2>1. \A i : Names(resource, i) = [name \in D |-> Info(i, name)]
    BY <1>1 DEF Names
  <2>2. ASSUME NEW name \in D PROVE Info(index, name) \in Infos
    <3>1. PICK at : at = At(name)
      OBVIOUS
    <3>2. at \in DOMAIN resource.variables
      BY <3>1
    <3>3. resource.variables[at].start \in Nat /\ resource.variables[at].size \in Nat
      BY <1>1, <3>2, ResourceTyped
    <3> QED BY <3>1, <3>3 DEF Infos
  <2> HIDE DEF D, Info
  <2> QED BY <2>1, <2>2
<1>2. CASE resource.name # "$Globals"
  <2>1. \A i : Names(resource, i) = [name \in {resource.name} |->
                 [RootParamIndex |-> i, OffsetIntoBuffer |-> 0, BindingSize |-> resource.size]]
    BY <1>2 DEF Names
  <2>2. resource.size \in Nat
    BY ResourceTyped
  <2>3. [RootParamIndex |-> index, OffsetIntoBuffer |-> 0, BindingSize |-> resource.size] \in Infos
    BY <2>2 DEF Infos
  <2> QED BY <2>1, <2>3
<1> QED BY <1>1, <1>2

\* A turn of the loop that finds no error.
LEMMA TurnDone ==
  ASSUME NEW R \in Reflections, NEW resource \in ToSet(R), NEW done \in MapsOf(R),
         WithResource(done, resource).error = "none"
  PROVE  /\ done.error = "none"
         /\ BindType(done, resource) # "DescriptorTable"
         /\ WithResource(done, resource).total = Total(done, resource)
         /\ WithResource(done, resource).names = Emplaced(done.names, Names(resource, Len(done.buffers) + 1))
         /\ WithResource(done, resource).buffers = Append(done.buffers, Slot(done, resource))
<1>1. done.error = "none"
  BY DEF WithResource
<1>2. resource.kind = "CBUFFER"
  BY <1>1 DEF WithResource, MapsOf
<1>3. BindType(done, resource) # "DescriptorTable"
  BY <1>1, <1>2 DEF WithResource, MapsOf
<1>4. WithResource(done, resource)
        = [done EXCEPT !.total = Total(done, resource),
             !.names = Emplaced(@, Names(resource, Len(done.buffers) + 1)),
             !.buffers = Append(@, Slot(done, resource))]
  BY <1>1, <1>2, <1>3 DEF WithResource, Slot
<1> QED BY <1>1, <1>3, <1>4 DEF MapsOf

LEMMA TurnTyped ==
  ASSUME NEW R \in Reflections, NEW resource \in ToSet(R), NEW done \in MapsOf(R)
  PROVE  WithResource(done, resource) \in MapsOf(R)
<1>1. CASE WithResource(done, resource).error = "none"
  <2>1. Total(done, resource) \in Nat
    <3>1. done.total \in Nat /\ resource.size \in Nat
      BY ResourceTyped DEF MapsOf
    <3> QED BY <3>1 DEF Total
  <2>2. PICK index : index = Len(done.buffers) + 1 /\ index \in Nat
    BY DEF MapsOf
  <2>3. PICK E : E = DOMAIN Names(resource, index)
    OBVIOUS
  <2>4. E \in SUBSET NamesOf(R)
    BY <2>2, <2>3, NamesTyped DEF NamesOf
  <2>5. Names(resource, index) \in [E -> Infos]
    BY <2>2, <2>3, NamesTyped
  <2>6. PICK D \in SUBSET NamesOf(R) : done.names \in [D -> Infos]
    BY DEF MapsOf, NameMaps
  <2>7. Emplaced(done.names, Names(resource, index)) \in [D \cup E -> Infos]
    BY <2>5, <2>6 DEF Emplaced
  <2>8. D \cup E \in SUBSET NamesOf(R)
    BY <2>4
  <2>9. Emplaced(done.names, Names(resource, index)) \in NameMaps(R)
    BY <2>7, <2>8 DEF NameMaps
  <2>10. Slot(done, resource) \in Slots
    <3>1. Zeros(resource.size) \in Seq({0})
      BY ResourceTyped, ZerosTyped
    <3>2. BindType(done, resource) \in BindTypes
      BY DEF BindType, BindTypes
    <3> QED BY <3>1, <3>2 DEF Slot, Slots
  <2>11. Append(done.buffers, Slot(done, resource)) \in Seq(Slots)
    <3>1. done.buffers \in Seq(Slots)
      BY DEF MapsOf
    <3> QED BY <2>10, <3>1
  <2>12. done.error = "none" /\ resource.kind = "CBUFFER" /\ BindType(done, resource) # "DescriptorTable"
    BY <1>1, TurnDone DEF WithResource, MapsOf
  <2>13. WithResource(done, resource)
           = [done EXCEPT !.total = Total(done, resource),
                !.names = Emplaced(@, Names(resource, index)),
                !.buffers = Append(@, Slot(done, resource))]
    BY <2>2, <2>12 DEF WithResource, Slot
  <2> QED BY <2>1, <2>9, <2>11, <2>13 DEF MapsOf
<1>2. CASE WithResource(done, resource).error # "none"
  <2>1. \/ WithResource(done, resource) = done
        \/ WithResource(done, resource) = [done EXCEPT !.error = "OnlyConstantBuffersSupportedForBinding"]
        \/ WithResource(done, resource) = [done EXCEPT !.error = "ConstantBufferMustBeBoundToDecriptorTable"]
    <3>1. CASE ~(done.error # "none" \/ resource.kind # "CBUFFER" \/ BindType(done, resource) = "DescriptorTable")
      <4>1. WithResource(done, resource)
              = [done EXCEPT !.total = Total(done, resource),
                   !.names = Emplaced(@, Names(resource, Len(done.buffers) + 1)),
                   !.buffers = Append(@, Slot(done, resource))]
        BY <3>1 DEF WithResource, Slot
      <4>2. WithResource(done, resource).error = "none"
        BY <3>1, <4>1 DEF MapsOf
      <4> QED BY <1>2, <4>2
    <3> QED BY <3>1 DEF WithResource
  <2> QED BY <2>1 DEF MapsOf, MakeErrors
<1> QED BY <1>1, <1>2

\* The maps after each resource.
MakingOf(R, run) ==
  /\ run \in [0..Len(R) -> MapsOf(R)]
  /\ run[0] = NothingMade
  /\ \A k \in 0..Len(R) - 1 : run[k + 1] = WithResource(run[k], R[k + 1])

LEMMA MakingSteps ==
  ASSUME NEW R \in Reflections
  PROVE  \E run : MakingOf(R, run) /\ MakeBindingMap(R) = run[Len(R)]
<1> DEFINE n == Len(R)
           G == [p \in MapsOf(R) \X (1..n) |-> WithResource(p[1], R[p[2]])]
           Rule(iter) == iter = [t \in SUBSET (1..n) |->
              IF t = {} THEN NothingMade ELSE WithResource(iter[t \ {Largest(t)}], R[Largest(t)])]
<1>1. R \in Seq(ToSet(R))
  BY ReflectionsAssumption
<1>2. n \in Nat /\ DOMAIN R = 1..n
  <2>1. PICK list : list = R /\ list \in Seq(ToSet(R))
    BY <1>1
  <2> QED BY <2>1
<1>3. MakeBindingMap(R) = (CHOOSE iter : Rule(iter))[1..n]
  BY <1>2 DEF MakeBindingMap, NothingMade, FoldLeft, MapThenFoldSet, Max, Largest
<1>4. \A v \in MapsOf(R) : \A k \in 1..n : G[<<v, k>>] = WithResource(v, R[k]) /\ G[<<v, k>>] \in MapsOf(R)
  <2>1. ASSUME NEW v \in MapsOf(R), NEW k \in 1..n PROVE WithResource(v, R[k]) \in MapsOf(R)
    <3>1. R[k] \in ToSet(R)
      BY <1>2 DEF ToSet
    <3> QED BY <3>1, TurnTyped
  <2> QED BY <2>1
<1>5. NothingMade \in MapsOf(R)
  <2>1. <<>> \in [{} -> Infos] /\ <<>> \in Seq(Slots)
    OBVIOUS
  <2>2. <<>> \in NameMaps(R)
    <3>1. {} \in SUBSET NamesOf(R)
      OBVIOUS
    <3> QED BY <2>1, <3>1 DEF NameMaps
  <2> QED BY <2>1, <2>2 DEF NothingMade, MapsOf, MakeErrors
<1> HIDE DEF G
<1>6. PICK fold \in [SUBSET (1..n) -> MapsOf(R)] : IsFold(fold, n, NothingMade, G)
  <2> HIDE DEF n
  <2> QED BY <1>2, <1>4, <1>5, FoldExists
<1>7. Rule(fold)
  <2>1. ASSUME NEW t \in SUBSET (1..n), t # {}
        PROVE  G[<<fold[t \ {Largest(t)}], Largest(t)>>] = WithResource(fold[t \ {Largest(t)}], R[Largest(t)])
    <3>1. Largest(t) \in 1..n /\ t \ {Largest(t)} \in SUBSET (1..n)
      BY <1>2, <2>1, LargestIn
    <3> QED BY <1>4, <3>1
  <2> QED BY <1>6, <2>1 DEF IsFold
<1> DEFINE iter == CHOOSE it : Rule(it)
           run == [k \in 0..n |-> iter[1..k]]
<1>8. Rule(iter)
  BY <1>7
<1> HIDE DEF iter
<1>9. run[0] = NothingMade
  <2>1. 1..0 = {}
    OBVIOUS
  <2>2. {} \in SUBSET (1..n)
    OBVIOUS
  <2>3. 0 \in 0..n
    <3> HIDE DEF n
    <3>1. n \in Nat
      BY <1>2
    <3> QED BY <3>1
  <2> QED BY <1>8, <2>1, <2>2, <2>3
<1>10. ASSUME NEW k \in 0..n - 1 PROVE run[k + 1] = WithResource(run[k], R[k + 1])
  <2>1. k \in Nat /\ k + 1 \in 1..k + 1 /\ 1..k + 1 \in SUBSET (1..n) /\ 1..k + 1 # {} /\ k \in 0..n /\ k + 1 \in 0..n
    <3> HIDE DEF n, run
    <3>1. n \in Nat /\ k \in 0..n - 1
      BY <1>2
    <3>2. k \in Nat /\ k + 1 <= n
      BY <3>1
    <3>3. k + 1 \in 1..k + 1 /\ k \in 0..n /\ k + 1 \in 0..n
      BY <3>1, <3>2
    <3>4. 1..k + 1 # {}
      BY <3>2
    <3>5. \A j \in 1..k + 1 : j \in 1..n
      BY <3>1, <3>2
    <3> QED BY <3>2, <3>3, <3>4, <3>5
  <2>2. Largest(1..k + 1) = k + 1
    BY <2>1, LargestTo
  <2>3. (1..k + 1) \ {k + 1} = 1..k
    OBVIOUS
  <2>4. iter[1..k + 1] = WithResource(iter[(1..k + 1) \ {Largest(1..k + 1)}], R[Largest(1..k + 1)])
    BY <1>8, <2>1, Zenon
  <2> QED BY <2>1, <2>2, <2>3, <2>4
<1>11. MakeBindingMap(R) = run[n]
  <2>1. n \in 0..n
    <3> HIDE DEF n
    <3>1. n \in Nat
      BY <1>2
    <3> QED BY <3>1
  <2> QED BY <1>3, <2>1 DEF iter
<1>12. run = [k \in 0..n |-> run[k]]
  OBVIOUS
<1> HIDE DEF run
<1>13. \A k \in 0..n : run[k] \in MapsOf(R)
  <2> DEFINE T == {k \in 0..n : run[k] \in MapsOf(R)}
  <2>1. 0 \in T
    <3>1. 0 \in 0..n
      <4> HIDE DEF n
      <4>1. n \in Nat
        BY <1>2
      <4> QED BY <4>1
    <3> QED BY <1>5, <1>9, <3>1
  <2>2. ASSUME NEW k \in 0..n - 1, k \in T PROVE k + 1 \in T
    <3>1. R[k + 1] \in ToSet(R) /\ k + 1 \in 0..n
      <4>1. k + 1 \in 1..n /\ k + 1 \in 0..n
        <5> HIDE DEF n
        <5>1. n \in Nat
          BY <1>2
        <5> QED BY <5>1
      <4> QED BY <1>2, <4>1 DEF ToSet
    <3>2. run[k + 1] \in MapsOf(R)
      BY <1>10, <2>2, <3>1, TurnTyped
    <3> QED BY <3>1, <3>2
  <2> HIDE DEF T
  <2>3. \A k \in 0..n : k \in T
    <3> HIDE DEF n
    <3> QED BY <1>2, <2>1, <2>2, EveryNumberTo
  <2> QED BY <2>3 DEF T
<1>14. run \in [0..n -> MapsOf(R)]
  BY <1>12, <1>13
<1> QED BY <1>9, <1>10, <1>11, <1>14 DEF MakingOf

\* What a name is bound to: its place in the first resource that declares it.
FirstNamed(R, k, name, info) ==
  \E p \in 1..k : /\ name \in DOMAIN Names(R[p], p)
                  /\ info = Names(R[p], p)[name]
                  /\ \A q \in 1..p - 1 : name \notin DOMAIN Names(R[q], q)

\* The map after k resources, when there was no error.
MadeUpTo(R, run, k) ==
  run[k].error = "none" =>
    /\ \A p \in 0..k : run[p].error = "none"
    /\ Len(run[k].buffers) = k
    /\ \A p \in 1..k : /\ run[k].buffers[p] = Slot(run[p - 1], R[p])
                       /\ BindType(run[p - 1], R[p]) # "DescriptorTable"
    /\ \A p \in 1..k : DOMAIN Names(R[p], p) \subseteq DOMAIN run[k].names
    /\ \A name \in DOMAIN run[k].names : FirstNamed(R, k, name, run[k].names[name])

LEMMA NothingMadeYet ==
  ASSUME NEW R, NEW run, run[0] = NothingMade
  PROVE  MadeUpTo(R, run, 0)
<1>1. run[0].error = "none" /\ run[0].buffers = <<>> /\ run[0].names = <<>>
  BY DEF NothingMade
<1>2. Len(<<>>) = 0 /\ DOMAIN <<>> = {} /\ 1..0 = {}
  OBVIOUS
<1>3. \A p \in 0..0 : p = 0
  OBVIOUS
<1> QED BY <1>1, <1>2, <1>3 DEF MadeUpTo

LEMMA ResourceAt ==
  ASSUME NEW R \in Reflections
  PROVE  /\ Len(R) \in Nat /\ DOMAIN R = 1..Len(R)
         /\ \A p \in 1..Len(R) : R[p] \in ToSet(R)
<1>1. R \in Seq(ToSet(R))
  BY ReflectionsAssumption
<1>2. PICK list : list = R /\ list \in Seq(ToSet(R))
  BY <1>1
<1>3. Len(list) \in Nat /\ DOMAIN list = 1..Len(list)
  BY <1>2
<1> QED BY <1>2, <1>3 DEF ToSet

LEMMA MadeOneMore ==
  ASSUME NEW R \in Reflections, NEW run, MakingOf(R, run), NEW k \in 0..Len(R) - 1, MadeUpTo(R, run, k)
  PROVE  MadeUpTo(R, run, k + 1)
<1> SUFFICES ASSUME run[k + 1].error = "none" PROVE MadeUpTo(R, run, k + 1)
  BY DEF MadeUpTo
<1>1. k \in Nat /\ k \in 0..Len(R) /\ k + 1 \in 1..Len(R) /\ k + 1 \in 0..Len(R)
  BY ResourceAt
<1>2. PICK resource, done, new : resource = R[k + 1] /\ done = run[k] /\ new = run[k + 1]
  OBVIOUS
<1>3. resource \in ToSet(R) /\ done \in MapsOf(R)
  BY <1>1, <1>2, ResourceAt DEF MakingOf
<1>4. new = WithResource(done, resource)
  BY <1>2 DEF MakingOf
<1>5. /\ done.error = "none" /\ BindType(done, resource) # "DescriptorTable"
      /\ new.names = Emplaced(done.names, Names(resource, Len(done.buffers) + 1))
      /\ new.buffers = Append(done.buffers, Slot(done, resource))
  <2>1. WithResource(done, resource).error = "none"
    BY <1>2, <1>4
  <2>2. /\ done.error = "none" /\ BindType(done, resource) # "DescriptorTable"
        /\ WithResource(done, resource).names = Emplaced(done.names, Names(resource, Len(done.buffers) + 1))
        /\ WithResource(done, resource).buffers = Append(done.buffers, Slot(done, resource))
    BY <1>3, <2>1, TurnDone
  <2> QED BY <1>4, <2>2
<1>6. /\ \A p \in 0..k : run[p].error = "none"
      /\ Len(done.buffers) = k
      /\ \A p \in 1..k : /\ done.buffers[p] = Slot(run[p - 1], R[p])
                         /\ BindType(run[p - 1], R[p]) # "DescriptorTable"
      /\ \A p \in 1..k : DOMAIN Names(R[p], p) \subseteq DOMAIN done.names
      /\ \A name \in DOMAIN done.names : FirstNamed(R, k, name, done.names[name])
  BY <1>2, <1>5 DEF MadeUpTo
<1>7. \A p \in 1..k + 1 : p \in 1..k \/ p = k + 1
  BY <1>1
<1>8. \A p \in 0..k + 1 : run[p].error = "none"
  <2>1. \A p \in 0..k + 1 : p \in 0..k \/ p = k + 1
    BY <1>1
  <2> QED BY <1>6, <2>1
<1>9. PICK slots, slot : slots = done.buffers /\ slot = Slot(done, resource)
  OBVIOUS
<1>10. slots \in Seq(Slots \cup {slot})
  <2>1. slots \in Seq(Slots)
    BY <1>3, <1>9 DEF MapsOf
  <2> QED BY <2>1, SeqOverMore
<1>11. slot \in Slots \cup {slot}
  OBVIOUS
<1>12. /\ Len(Append(slots, slot)) = Len(slots) + 1
       /\ \A p \in 1..Len(slots) : Append(slots, slot)[p] = slots[p]
       /\ Append(slots, slot)[Len(slots) + 1] = slot
  BY <1>10, <1>11, AppendElements
<1>13. Len(new.buffers) = k + 1
  BY <1>5, <1>6, <1>9, <1>12
<1>14. ASSUME NEW p \in 1..k + 1
       PROVE  /\ new.buffers[p] = Slot(run[p - 1], R[p])
              /\ BindType(run[p - 1], R[p]) # "DescriptorTable"
  <2>1. CASE p \in 1..k
    BY <1>5, <1>6, <1>9, <1>12, <2>1
  <2>2. CASE p = k + 1
    <3>1. p - 1 = k
      BY <1>1, <2>2
    <3> QED BY <1>2, <1>5, <1>6, <1>9, <1>12, <2>2, <3>1
  <2> QED BY <1>7, <2>1, <2>2
<1>15. PICK own : own = Names(resource, k + 1) /\ own \in [DOMAIN own -> Infos]
  BY <1>1, <1>3, NamesTyped
<1>16. PICK D \in SUBSET NamesOf(R) : done.names \in [D -> Infos]
  BY <1>3 DEF MapsOf, NameMaps
<1>18. /\ new.names \in [D \cup DOMAIN own -> Infos]
       /\ \A name \in D : new.names[name] = done.names[name]
       /\ \A name \in DOMAIN own \ D : new.names[name] = own[name]
  <2>1. new.names = Emplaced(done.names, own)
    BY <1>5, <1>6, <1>15
  <2>2. PICK old, E : old = done.names /\ E = DOMAIN own
    OBVIOUS
  <2>3. old \in [D -> Infos] /\ own \in [E -> Infos]
    BY <1>15, <1>16, <2>2
  <2>4. /\ Emplaced(old, own) \in [D \cup E -> Infos]
        /\ \A name \in D : Emplaced(old, own)[name] = old[name]
        /\ \A name \in E \ D : Emplaced(old, own)[name] = own[name]
    BY <2>3 DEF Emplaced
  <2>5. new.names = Emplaced(old, own)
    BY <2>1, <2>2
  <2> QED BY <2>2, <2>4, <2>5
<1>19. DOMAIN done.names = D /\ DOMAIN new.names = D \cup DOMAIN own
  BY <1>16, <1>18
<1>20. ASSUME NEW p \in 1..k + 1 PROVE DOMAIN Names(R[p], p) \subseteq DOMAIN new.names
  <2>1. CASE p \in 1..k
    BY <1>6, <1>19, <2>1
  <2>2. CASE p = k + 1
    BY <1>2, <1>15, <1>19, <2>2
  <2> QED BY <1>7, <2>1, <2>2
<1>21. ASSUME NEW name \in DOMAIN new.names PROVE FirstNamed(R, k + 1, name, new.names[name])
  <2>1. CASE name \in D
    <3>1. FirstNamed(R, k, name, new.names[name])
      BY <1>6, <1>18, <1>19, <2>1
    <3>2. \A p \in 1..k : p \in 1..k + 1
      BY <1>1
    <3> QED BY <3>1, <3>2 DEF FirstNamed
  <2>2. CASE name \in DOMAIN own \ D
    <3>1. new.names[name] = Names(R[k + 1], k + 1)[name] /\ name \in DOMAIN Names(R[k + 1], k + 1)
      BY <1>2, <1>15, <1>18, <2>2
    <3>2. ASSUME NEW q \in 1..(k + 1) - 1 PROVE name \notin DOMAIN Names(R[q], q)
      <4>1. q \in 1..k
        BY <1>1
      <4> QED BY <1>6, <1>19, <2>2, <4>1
    <3>3. k + 1 \in 1..k + 1
      BY <1>1
    <3> QED BY <3>1, <3>2, <3>3 DEF FirstNamed
  <2> QED BY <1>19, <2>1, <2>2
<1> QED BY <1>2, <1>8, <1>13, <1>14, <1>20, <1>21 DEF MadeUpTo

\* The binding map of a reflection, when there was no error.
LEMMA MapMade ==
  ASSUME NEW R \in Reflections, NEW run, MakingOf(R, run)
  PROVE  \A k \in 0..Len(R) : MadeUpTo(R, run, k)
<1>1. PICK n : n = Len(R) /\ n \in Nat
  BY ResourceAt
<1> DEFINE T == {k \in 0..n : MadeUpTo(R, run, k)}
<1>2. 0 \in T
  <2>1. MadeUpTo(R, run, 0)
    BY NothingMadeYet DEF MakingOf
  <2> QED BY <1>1, <2>1
<1>3. ASSUME NEW k \in 0..n - 1, k \in T PROVE k + 1 \in T
  <2>1. MadeUpTo(R, run, k + 1)
    BY <1>1, <1>3, MadeOneMore
  <2>2. k + 1 \in 0..n
    BY <1>1
  <2> QED BY <2>1, <2>2
<1> HIDE DEF T
<1>4. \A k \in 0..n : k \in T
  BY <1>1, <1>2, <1>3, EveryNumberTo
<1> QED BY <1>1, <1>4 DEF T

-----------------------------------------------------------------------------
(* What a root signature costs. *)

CostOf(b) == IF b.Type = "RootConstants" THEN Len(b.Buffer) ELSE 2

\* The sums of the costs, one buffer after the other.
CostsOf(buffers, cost) ==
  /\ cost \in [0..Len(buffers) -> Nat]
  /\ cost[0] = 0
  /\ \A k \in 0..Len(buffers) - 1 : cost[k + 1] = cost[k] + CostOf(buffers[k + 1])

LEMMA CostSteps ==
  ASSUME NEW buffers \in Seq(Slots)
  PROVE  \E cost : CostsOf(buffers, cost) /\ Cost(buffers) = cost[Len(buffers)]
<1> DEFINE n == Len(buffers)
           G == [p \in Nat \X (1..n) |-> p[1] + CostOf(buffers[p[2]])]
           Rule(iter) == iter = [t \in SUBSET (1..n) |->
              IF t = {} THEN 0 ELSE iter[t \ {Largest(t)}] + CostOf(buffers[Largest(t)])]
<1>1. n \in Nat /\ DOMAIN buffers = 1..n
  OBVIOUS
<1>2. Cost(buffers) = (CHOOSE iter : Rule(iter))[1..n]
  BY <1>1 DEF Cost, CostOf, FoldLeft, MapThenFoldSet, Max, Largest
<1>3. ASSUME NEW v \in Nat, NEW k \in 1..n PROVE v + CostOf(buffers[k]) \in Nat
  <2>1. buffers[k] \in Slots
    BY <1>1
  <2>2. Len(buffers[k].Buffer) \in Nat
    <3>1. PICK buffer : buffer = buffers[k].Buffer /\ buffer \in Seq({0})
      BY <2>1 DEF Slots
    <3> QED BY <3>1
  <2>3. CostOf(buffers[k]) \in Nat
    BY <2>2 DEF CostOf
  <2> QED BY <2>3
<1>4. \A v \in Nat : \A k \in 1..n : G[<<v, k>>] = v + CostOf(buffers[k]) /\ G[<<v, k>>] \in Nat
  BY <1>3
<1> HIDE DEF G
<1>5. PICK fold \in [SUBSET (1..n) -> Nat] : IsFold(fold, n, 0, G)
  <2> HIDE DEF n
  <2> QED BY <1>1, <1>4, FoldExists
<1>6. Rule(fold)
  <2>1. ASSUME NEW t \in SUBSET (1..n), t # {}
        PROVE  G[<<fold[t \ {Largest(t)}], Largest(t)>>] = fold[t \ {Largest(t)}] + CostOf(buffers[Largest(t)])
    <3>1. Largest(t) \in 1..n /\ t \ {Largest(t)} \in SUBSET (1..n)
      BY <1>1, <2>1, LargestIn
    <3>2. fold[t \ {Largest(t)}] \in Nat
      BY <1>5, <3>1
    <3> QED BY <1>4, <3>1, <3>2
  <2> QED BY <1>5, <2>1 DEF IsFold
<1> DEFINE iter == CHOOSE it : Rule(it)
           cost == [k \in 0..n |-> iter[1..k]]
<1>7. Rule(iter)
  BY <1>6
<1> HIDE DEF iter
<1>8. cost[0] = 0
  <2>1. 1..0 = {}
    OBVIOUS
  <2>2. {} \in SUBSET (1..n)
    OBVIOUS
  <2>3. 0 \in 0..n
    <3> HIDE DEF n
    <3>1. n \in Nat
      BY <1>1
    <3> QED BY <3>1
  <2> QED BY <1>7, <2>1, <2>2, <2>3
<1>9. ASSUME NEW k \in 0..n - 1 PROVE cost[k + 1] = cost[k] + CostOf(buffers[k + 1])
  <2>1. k \in Nat /\ k + 1 \in 1..k + 1 /\ 1..k + 1 \in SUBSET (1..n) /\ 1..k + 1 # {} /\ k \in 0..n /\ k + 1 \in 0..n
    <3> HIDE DEF n, cost
    <3>1. n \in Nat /\ k \in 0..n - 1
      BY <1>1
    <3>2. k \in Nat /\ k + 1 <= n
      BY <3>1
    <3>3. k + 1 \in 1..k + 1 /\ k \in 0..n /\ k + 1 \in 0..n
      BY <3>1, <3>2
    <3>4. 1..k + 1 # {}
      BY <3>3
    <3>5. \A j \in 1..k + 1 : j \in 1..n
      BY <3>1, <3>2
    <3> QED BY <3>2, <3>3, <3>4, <3>5
  <2>2. Largest(1..k + 1) = k + 1
    BY <2>1, LargestTo
  <2>3. (1..k + 1) \ {k + 1} = 1..k
    OBVIOUS
  <2>4. iter[1..k + 1] = iter[(1..k + 1) \ {Largest(1..k + 1)}] + CostOf(buffers[Largest(1..k + 1)])
    BY <1>7, <2>1, Zenon
  <2> QED BY <2>1, <2>2, <2>3, <2>4
<1>10. Cost(buffers) = cost[n]
  <2>1. n \in 0..n
    <3> HIDE DEF n
    <3>1. n \in Nat
      BY <1>1
    <3> QED BY <3>1
  <2> QED BY <1>2, <2>1 DEF iter
<1>11. cost = [k \in 0..n |-> cost[k]]
  OBVIOUS
<1> HIDE DEF cost
<1>12. \A k \in 0..n : cost[k] \in Nat
  <2> DEFINE T == {k \in 0..n : cost[k] \in Nat}
  <2>1. 0 \in T
    <3>1. 0 \in 0..n
      <4> HIDE DEF n
      <4>1. n \in Nat
        BY <1>1
      <4> QED BY <4>1
    <3> QED BY <1>8, <3>1
  <2>2. ASSUME NEW k \in 0..n - 1, k \in T PROVE k + 1 \in T
    <3>1. k + 1 \in 1..n /\ k + 1 \in 0..n
      <4> HIDE DEF n
      <4>1. n \in Nat
        BY <1>1
      <4> QED BY <4>1
    <3>2. cost[k + 1] \in Nat
      BY <1>3, <1>9, <2>2, <3>1
    <3> QED BY <3>1, <3>2
  <2> HIDE DEF T
  <2>3. \A k \in 0..n : k \in T
    <3> HIDE DEF n
    <3> QED BY <1>1, <2>1, <2>2, EveryNumberTo
  <2> QED BY <2>3 DEF T
<1>13. cost \in [0..n -> Nat]
  BY <1>11, <1>12
<1> QED BY <1>8, <1>9, <1>10, <1>13 DEF CostsOf

\* Buffers that all became constants fit: the total that lets one in counts them all.
LEMMA ConstantsFit ==
  ASSUME NEW R \in Reflections, MakeBindingMap(R).error = "none",
         \A p \in DOMAIN MakeBindingMap(R).buffers : MakeBindingMap(R).buffers[p].Type # "RootDescriptor"
  PROVE  Cost(MakeBindingMap(R).buffers) <= Limit
<1>1. PICK n : n = Len(R) /\ n \in Nat
  BY ResourceAt
<1>2. PICK run : MakingOf(R, run) /\ MakeBindingMap(R) = run[n]
  BY <1>1, MakingSteps
<1>3. n \in 0..n
  BY <1>1
<1>4. PICK buffers : buffers = run[n].buffers
  OBVIOUS
<1>5. /\ Len(buffers) = n
      /\ \A p \in 0..n : run[p].error = "none"
      /\ \A p \in 1..n : buffers[p] = Slot(run[p - 1], R[p]) /\ BindType(run[p - 1], R[p]) # "DescriptorTable"
  BY <1>1, <1>2, <1>3, <1>4, MapMade DEF MadeUpTo
<1>6. \A k \in 0..n : run[k] \in MapsOf(R)
  BY <1>1, <1>2 DEF MakingOf
<1>7. buffers \in Seq(Slots)
  BY <1>3, <1>4, <1>6 DEF MapsOf
<1>8. PICK cost : CostsOf(buffers, cost) /\ Cost(buffers) = cost[n]
  BY <1>5, <1>7, CostSteps
<1>9. \A p \in 1..n : buffers[p].Type # "RootDescriptor"
  <2>1. DOMAIN buffers = 1..n
    BY <1>5, <1>7
  <2> QED BY <1>2, <1>4, <2>1
<1>10. Limit \in Nat
  BY ReflectionsAssumption
<1> DEFINE T == {k \in 0..n : cost[k] = run[k].total /\ run[k].total <= Limit}
<1>11. 0 \in T
  <2>1. run[0] = NothingMade /\ cost[0] = 0
    BY <1>2, <1>8 DEF MakingOf, CostsOf
  <2>2. run[0].total = 0
    BY <2>1 DEF NothingMade
  <2> QED BY <1>1, <1>10, <2>1, <2>2
<1>12. ASSUME NEW k \in 0..n - 1, k \in T PROVE k + 1 \in T
  <2>1. k + 1 \in 1..n /\ k + 1 \in 0..n /\ k \in 0..n /\ (k + 1) - 1 = k
    BY <1>1
  <2>2. PICK resource, done : resource = R[k + 1] /\ done = run[k]
    OBVIOUS
  <2>3. resource \in ToSet(R) /\ done \in MapsOf(R)
    BY <1>1, <1>6, <2>1, <2>2, ResourceAt
  <2>4. run[k + 1] = WithResource(done, resource)
    BY <1>1, <1>2, <2>2 DEF MakingOf
  <2>5. WithResource(done, resource).error = "none"
    BY <1>5, <2>1, <2>4
  <2>6. run[k + 1].total = Total(done, resource)
    BY <2>3, <2>4, <2>5, TurnDone
  <2>7. buffers[k + 1] = Slot(done, resource) /\ BindType(done, resource) # "DescriptorTable"
    BY <1>5, <2>1, <2>2
  <2>8. BindType(done, resource) = "RootConstants"
    <3>1. buffers[k + 1].Type = BindType(done, resource)
      BY <2>7 DEF Slot
    <3>2. BindType(done, resource) # "RootDescriptor"
      BY <1>9, <2>1, <3>1
    <3> QED BY <2>7, <3>2 DEF BindType
  <2>9. ConstantBufferCanBeBoundToRootConstants(resource) /\ Total(done, resource) <= Limit
    BY <2>8 DEF BindType
  <2>10. Total(done, resource) = done.total + resource.size
    BY <2>9 DEF Total
  <2>11. CostOf(buffers[k + 1]) = resource.size
    <3>1. resource.size \in Nat
      BY <2>3, ResourceTyped
    <3>2. Len(Zeros(resource.size)) = resource.size
      BY <3>1, ZerosTyped
    <3> QED BY <2>7, <2>8, <3>2 DEF CostOf, Slot
  <2>12. cost[k + 1] = cost[k] + CostOf(buffers[k + 1])
    BY <1>5, <1>8 DEF CostsOf
  <2>13. cost[k] = done.total
    BY <1>12, <2>2
  <2> QED BY <2>1, <2>6, <2>9, <2>10, <2>11, <2>12, <2>13
<1> HIDE DEF T
<1>13. \A k \in 0..n : k \in T
  BY <1>1, <1>11, <1>12, EveryNumberTo
<1>14. cost[n] <= Limit
  BY <1>3, <1>13 DEF T
<1> QED BY <1>2, <1>4, <1>8, <1>14

-----------------------------------------------------------------------------
(* Where the names of a binding map lie. *)

Inside(info, R) ==
  /\ info \in Infos /\ info.RootParamIndex \in 1..Len(R)
  /\ info.OffsetIntoBuffer + info.BindingSize <= R[info.RootParamIndex].size

Disjoint(info, other) ==
  info.RootParamIndex = other.RootParamIndex =>
    \/ info.OffsetIntoBuffer + info.BindingSize <= other.OffsetIntoBuffer
    \/ other.OffsetIntoBuffer + other.BindingSize <= info.OffsetIntoBuffer

\* A name of the globals is that of one variable.
LEMMA GlobalNamed ==
  ASSUME NEW R \in Reflections, NEW resource \in ToSet(R), resource.name = "$Globals", NEW index \in Nat,
         NEW k \in DOMAIN resource.variables
  PROVE  /\ resource.variables[k].name \in DOMAIN Names(resource, index)
         /\ Names(resource, index)[resource.variables[k].name]
              = [RootParamIndex |-> index, OffsetIntoBuffer |-> resource.variables[k].start,
                 BindingSize |-> resource.variables[k].size]
<1> DEFINE At(name) == CHOOSE l \in DOMAIN resource.variables : resource.variables[l].name = name
           D == { resource.variables[l].name : l \in DOMAIN resource.variables }
<1>1. PICK name : name = resource.variables[k].name
  OBVIOUS
<1>2. PICK at : at = At(name)
  OBVIOUS
<1>3. at \in DOMAIN resource.variables /\ resource.variables[at].name = name
  BY <1>1, <1>2
<1>4. at = k
  BY <1>1, <1>3, ResourceTyped
<1>5. name \in D
  BY <1>1
<1>6. Names(resource, index) = [n \in D |->
        [RootParamIndex |-> index, OffsetIntoBuffer |-> resource.variables[At(n)].start,
         BindingSize |-> resource.variables[At(n)].size]]
  BY DEF Names
<1> HIDE DEF At, D
<1>7. Names(resource, index)[name]
        = [RootParamIndex |-> index, OffsetIntoBuffer |-> resource.variables[at].start,
           BindingSize |-> resource.variables[at].size]
  BY <1>2, <1>5, <1>6
<1>8. name \in DOMAIN Names(resource, index)
  BY <1>5, <1>6
<1> QED BY <1>1, <1>4, <1>7, <1>8

LEMMA GlobalNames ==
  ASSUME NEW resource, resource.name = "$Globals", NEW index, NEW name \in DOMAIN Names(resource, index)
  PROVE  \E k \in DOMAIN resource.variables : name = resource.variables[k].name
<1> DEFINE D == { resource.variables[l].name : l \in DOMAIN resource.variables }
<1>1. DOMAIN Names(resource, index) = D
  BY DEF Names
<1> QED BY <1>1

LEMMA OwnNamed ==
  ASSUME NEW resource, resource.name # "$Globals", NEW index
  PROVE  /\ DOMAIN Names(resource, index) = {resource.name}
         /\ Names(resource, index)[resource.name]
              = [RootParamIndex |-> index, OffsetIntoBuffer |-> 0, BindingSize |-> resource.size]
BY DEF Names

LEMMA NamesInside ==
  ASSUME NEW R \in Reflections, NEW p \in 1..Len(R), NEW name \in DOMAIN Names(R[p], p)
  PROVE  Names(R[p], p)[name].RootParamIndex = p /\ Inside(Names(R[p], p)[name], R)
<1>1. PICK resource : resource = R[p]
  OBVIOUS
<1>2. resource \in ToSet(R) /\ p \in Nat
  BY <1>1, ResourceAt
<1>3. resource.size \in Nat
  BY <1>2, ResourceTyped
<1>4. PICK info : info = Names(resource, p)[name]
  OBVIOUS
<1>5. CASE resource.name = "$Globals"
  <2>1. PICK k \in DOMAIN resource.variables : name = resource.variables[k].name
    BY <1>1, <1>5, GlobalNames
  <2>2. info = [RootParamIndex |-> p, OffsetIntoBuffer |-> resource.variables[k].start,
                BindingSize |-> resource.variables[k].size]
    BY <1>2, <1>4, <1>5, <2>1, GlobalNamed
  <2>3. /\ resource.variables[k].start \in Nat /\ resource.variables[k].size \in Nat
        /\ resource.variables[k].start + resource.variables[k].size <= resource.size
    BY <1>2, <1>5, ResourceTyped
  <2> QED BY <1>1, <1>2, <1>4, <2>2, <2>3 DEF Inside, Infos
<1>6. CASE resource.name # "$Globals"
  <2>1. name = resource.name
    BY <1>1, <1>6, OwnNamed
  <2>2. info = [RootParamIndex |-> p, OffsetIntoBuffer |-> 0, BindingSize |-> resource.size]
    BY <1>4, <1>6, <2>1, OwnNamed
  <2> QED BY <1>1, <1>2, <1>3, <1>4, <2>2 DEF Inside, Infos
<1> QED BY <1>5, <1>6

LEMMA NamesDisjoint ==
  ASSUME NEW R \in Reflections, NEW p \in 1..Len(R),
         NEW name \in DOMAIN Names(R[p], p), NEW other \in DOMAIN Names(R[p], p), name # other
  PROVE  Disjoint(Names(R[p], p)[name], Names(R[p], p)[other])
<1>1. PICK resource : resource = R[p]
  OBVIOUS
<1>2. resource \in ToSet(R) /\ p \in Nat
  BY <1>1, ResourceAt
<1>3. resource.name = "$Globals"
  <2> SUFFICES ASSUME resource.name # "$Globals" PROVE FALSE
    OBVIOUS
  <2>1. DOMAIN Names(resource, p) = {resource.name}
    BY OwnNamed
  <2>2. name \in DOMAIN Names(resource, p) /\ other \in DOMAIN Names(resource, p) /\ name # other
    BY <1>1
  <2> QED BY <2>1, <2>2
<1>4. PICK k \in DOMAIN resource.variables : name = resource.variables[k].name
  BY <1>1, <1>3, GlobalNames
<1>5. PICK l \in DOMAIN resource.variables : other = resource.variables[l].name
  BY <1>1, <1>3, GlobalNames
<1>6. Names(resource, p)[name]
        = [RootParamIndex |-> p, OffsetIntoBuffer |-> resource.variables[k].start,
           BindingSize |-> resource.variables[k].size]
  BY <1>2, <1>3, <1>4, GlobalNamed
<1>7. Names(resource, p)[other]
        = [RootParamIndex |-> p, OffsetIntoBuffer |-> resource.variables[l].start,
           BindingSize |-> resource.variables[l].size]
  BY <1>2, <1>3, <1>5, GlobalNamed
<1>8. k # l
  BY <1>4, <1>5
<1>9. \/ resource.variables[k].start + resource.variables[k].size <= resource.variables[l].start
      \/ resource.variables[l].start + resource.variables[l].size <= resource.variables[k].start
  BY <1>2, <1>3, <1>8, ResourceTyped
<1> QED BY <1>1, <1>6, <1>7, <1>9 DEF Disjoint

\* The map of a whole reflection: a buffer of zeros for each resource, and every name at
\* a place of its own.
LEMMA WholeMap ==
  ASSUME NEW R \in Reflections, MakeBindingMap(R).error = "none"
  PROVE  /\ MakeBindingMap(R) \in MapsOf(R)
         /\ Len(MakeBindingMap(R).buffers) = Len(R)
         /\ \A p \in 1..Len(R) : MakeBindingMap(R).buffers[p].Buffer = Zeros(R[p].size)
         /\ \A name \in DOMAIN MakeBindingMap(R).names :
              FirstNamed(R, Len(R), name, MakeBindingMap(R).names[name])
<1>1. PICK n : n = Len(R) /\ n \in Nat
  BY ResourceAt
<1>2. PICK run : MakingOf(R, run) /\ MakeBindingMap(R) = run[n]
  BY <1>1, MakingSteps
<1>3. n \in 0..n
  BY <1>1
<1>4. MadeUpTo(R, run, n)
  BY <1>1, <1>2, <1>3, MapMade
<1>5. /\ Len(run[n].buffers) = n
      /\ \A p \in 1..n : run[n].buffers[p] = Slot(run[p - 1], R[p])
      /\ \A name \in DOMAIN run[n].names : FirstNamed(R, n, name, run[n].names[name])
  BY <1>2, <1>4 DEF MadeUpTo
<1>6. run[n] \in MapsOf(R)
  BY <1>1, <1>2, <1>3 DEF MakingOf
<1>7. \A p \in 1..n : run[n].buffers[p].Buffer = Zeros(R[p].size)
  <2>1. \A done, resource : Slot(done, resource).Buffer = Zeros(resource.size)
    BY DEF Slot
  <2> QED BY <1>5, <2>1
<1> QED BY <1>1, <1>2, <1>5, <1>6, <1>7

\* Places of names: inside their buffers, and apart from each other.
PlacesFit(R, names) ==
  /\ \A name \in DOMAIN names : FirstNamed(R, Len(R), name, names[name]) /\ Inside(names[name], R)
  /\ \A name, other \in DOMAIN names : name # other => Disjoint(names[name], names[other])

LEMMA NamesPlaced ==
  ASSUME NEW R \in Reflections, NEW names,
         \A name \in DOMAIN names : FirstNamed(R, Len(R), name, names[name])
  PROVE  PlacesFit(R, names)
<1>1. ASSUME NEW name \in DOMAIN names PROVE Inside(names[name], R)
  <2>1. PICK p \in 1..Len(R) : name \in DOMAIN Names(R[p], p) /\ names[name] = Names(R[p], p)[name]
    BY DEF FirstNamed
  <2> QED BY <2>1, NamesInside
<1>2. ASSUME NEW name \in DOMAIN names, NEW other \in DOMAIN names, name # other
      PROVE  Disjoint(names[name], names[other])
  <2>1. PICK p \in 1..Len(R) : name \in DOMAIN Names(R[p], p) /\ names[name] = Names(R[p], p)[name]
    BY DEF FirstNamed
  <2>2. PICK q \in 1..Len(R) : other \in DOMAIN Names(R[q], q) /\ names[other] = Names(R[q], q)[other]
    BY DEF FirstNamed
  <2>3. names[name].RootParamIndex = p /\ names[other].RootParamIndex = q
    <3>1. Names(R[p], p)[name].RootParamIndex = p
      BY <2>1, NamesInside
    <3>2. Names(R[q], q)[other].RootParamIndex = q
      BY <2>2, NamesInside
    <3> QED BY <2>1, <2>2, <3>1, <3>2
  <2>4. CASE p = q
    <3>1. Disjoint(Names(R[p], p)[name], Names(R[p], p)[other])
      BY <1>2, <2>1, <2>2, <2>4, NamesDisjoint
    <3> QED BY <2>1, <2>2, <2>4, <3>1
  <2>5. CASE p # q
    BY <2>3, <2>5 DEF Disjoint
  <2> QED BY <2>4, <2>5
<1> QED BY <1>1, <1>2 DEF PlacesFit

-----------------------------------------------------------------------------
(* What is staged. *)

\* The words of buffers.
Words == {0} \cup UNION { ToSet(binding.data) : binding \in Bindings }

Filled == [Type : BindTypes, Buffer : Seq(Words)]

IsCopied(copy, buffer, offset, data) ==
  /\ copy \in Seq(Words)
  /\ Len(copy) = Len(buffer)
  /\ \A i \in 1..Len(buffer) :
       copy[i] = IF i > offset /\ i <= offset + Len(data) THEN data[i - offset] ELSE buffer[i]

LEMMA CopiedElements ==
  ASSUME NEW buffer \in Seq(Words), NEW data \in Seq(Words), NEW offset \in Nat
  PROVE  IsCopied(Copied(buffer, offset, data), buffer, offset, data)
<1>1. PICK n : n = Len(buffer) /\ n \in Nat /\ DOMAIN buffer = 1..n
  <2>1. Len(buffer) \in Nat /\ DOMAIN buffer = 1..Len(buffer)
    OBVIOUS
  <2> QED BY <2>1
<1>2. PICK l : l = Len(data) /\ l \in Nat
  OBVIOUS
<1>3. Copied(buffer, offset, data)
        = [i \in 1..n |-> IF i > offset /\ i <= offset + l THEN data[i - offset] ELSE buffer[i]]
  BY <1>1, <1>2 DEF Copied
<1>4. ASSUME NEW i \in 1..n
      PROVE  (IF i > offset /\ i <= offset + l THEN data[i - offset] ELSE buffer[i]) \in Words
  <2>1. CASE i > offset /\ i <= offset + l
    <3>1. i - offset \in 1..Len(data)
      BY <1>1, <1>2, <2>1
    <3> QED BY <2>1, <3>1
  <2>2. CASE ~(i > offset /\ i <= offset + l)
    BY <1>1, <2>2
  <2> QED BY <2>1, <2>2
<1>5. Copied(buffer, offset, data) \in [1..n -> Words]
  BY <1>3, <1>4
<1>6. Copied(buffer, offset, data) \in Seq(Words) /\ Len(Copied(buffer, offset, data)) = n
  BY <1>1, <1>5, FunctionIsSeq
<1> QED BY <1>1, <1>3, <1>6, <1>2 DEF IsCopied

\* What was staged for a name lies at its place.
AgreesAt(info, buffers, data) ==
  /\ data \in Seq(Words) /\ Len(data) = info.BindingSize
  /\ \A i \in 1..info.BindingSize :
       buffers[info.RootParamIndex].Buffer[info.OffsetIntoBuffer + i] = data[i]

Agree(R, names, buffers, data) ==
  /\ buffers \in Seq(Filled) /\ Len(buffers) = Len(R)
  /\ \A p \in 1..Len(R) : Len(buffers[p].Buffer) = R[p].size
  /\ DOMAIN data = DOMAIN names
  /\ \A name \in DOMAIN names : AgreesAt(names[name], buffers, data[name])

LEMMA AgreeAtFirst ==
  ASSUME NEW R \in Reflections, MakeBindingMap(R).error = "none"
  PROVE  /\ PlacesFit(R, MakeBindingMap(R).names)
         /\ Agree(R, MakeBindingMap(R).names, MakeBindingMap(R).buffers,
                  [name \in DOMAIN MakeBindingMap(R).names |-> Zeros(MakeBindingMap(R).names[name].BindingSize)])
<1>1. PICK names, buffers : names = MakeBindingMap(R).names /\ buffers = MakeBindingMap(R).buffers
  OBVIOUS
<1>2. /\ MakeBindingMap(R) \in MapsOf(R) /\ Len(buffers) = Len(R)
      /\ \A p \in 1..Len(R) : buffers[p].Buffer = Zeros(R[p].size)
      /\ \A name \in DOMAIN names : FirstNamed(R, Len(R), name, names[name])
  BY <1>1, WholeMap
<1>3. PlacesFit(R, names)
  BY <1>2, NamesPlaced
<1>4. PICK data : data = [name \in DOMAIN names |-> Zeros(names[name].BindingSize)]
  OBVIOUS
<1>5. buffers \in Seq(Filled)
  <2>1. buffers \in Seq(Slots)
    BY <1>1, <1>2 DEF MapsOf
  <2>2. Slots \subseteq Filled
    <3>1. {0} \subseteq Words
      BY DEF Words
    <3>2. ASSUME NEW s \in Seq({0}) PROVE s \in Seq(Words)
      BY <3>1, SeqOverMore
    <3> QED BY <3>2 DEF Slots, Filled
  <2> QED BY <2>1, <2>2, SeqOverMore
<1>6. ASSUME NEW p \in 1..Len(R) PROVE R[p].size \in Nat /\ Len(buffers[p].Buffer) = R[p].size
  <2>1. R[p].size \in Nat
    BY ResourceAt, ResourceTyped
  <2> QED BY <1>2, <2>1, ZerosTyped
<1>7. ASSUME NEW name \in DOMAIN names PROVE AgreesAt(names[name], buffers, data[name])
  <2>1. PICK info : info = names[name]
    OBVIOUS
  <2>2. Inside(info, R)
    BY <1>3, <2>1 DEF PlacesFit
  <2>3. PICK p, offset, size : p = info.RootParamIndex /\ offset = info.OffsetIntoBuffer /\ size = info.BindingSize
    OBVIOUS
  <2>4. p \in 1..Len(R) /\ offset \in Nat /\ size \in Nat /\ offset + size <= R[p].size
    BY <2>2, <2>3 DEF Inside, Infos
  <2>5. data[name] = Zeros(size)
    BY <1>4, <2>1, <2>3
  <2>6. Zeros(size) \in Seq({0}) /\ Len(Zeros(size)) = size /\ \A i \in 1..size : Zeros(size)[i] = 0
    BY <2>4, ZerosTyped
  <2>7. Zeros(size) \in Seq(Words)
    <3>1. {0} \subseteq Words
      BY DEF Words
    <3> QED BY <2>6, <3>1, SeqOverMore
  <2>8. ASSUME NEW i \in 1..size PROVE buffers[p].Buffer[offset + i] = Zeros(size)[i]
    <3>1. R[p].size \in Nat
      BY <1>6, <2>4
    <3>2. offset + i \in 1..R[p].size
      BY <2>4, <3>1
    <3>3. Zeros(R[p].size)[offset + i] = 0
      BY <3>1, <3>2, ZerosTyped
    <3> QED BY <1>2, <2>4, <2>6, <3>3
  <2> QED BY <2>1, <2>3, <2>5, <2>6, <2>7, <2>8 DEF AgreesAt
<1>8. Agree(R, names, buffers, data)
  <2>1. DOMAIN data = DOMAIN names
    BY <1>4
  <2> QED BY <1>2, <1>5, <1>6, <1>7, <2>1 DEF Agree
<1> QED BY <1>1, <1>3, <1>4, <1>8

\* Staging for one name: its place changes as what was staged for it does, and no other.
LEMMA AgreeAfterStage ==
  ASSUME NEW R \in Reflections, NEW names, NEW buffers, NEW data, PlacesFit(R, names), Agree(R, names, buffers, data),
         NEW name \in DOMAIN names, NEW new \in Seq(Words), Len(new) <= names[name].BindingSize,
         NEW buffers2, buffers2 = [buffers EXCEPT ![names[name].RootParamIndex].Buffer
                                     = Copied(@, names[name].OffsetIntoBuffer, new)],
         NEW data2, data2 = [data EXCEPT ![name] = Copied(@, 0, new)]
  PROVE  Agree(R, names, buffers2, data2)
<1>1. PICK info : info = names[name]
  OBVIOUS
<1>2. Inside(info, R)
  BY <1>1 DEF PlacesFit
<1>3. PICK p, offset, size : p = info.RootParamIndex /\ offset = info.OffsetIntoBuffer /\ size = info.BindingSize
  OBVIOUS
<1>4. p \in 1..Len(R) /\ offset \in Nat /\ size \in Nat /\ offset + size <= R[p].size
  BY <1>2, <1>3 DEF Inside, Infos
<1>5. /\ buffers \in Seq(Filled) /\ Len(buffers) = Len(R)
      /\ \A q \in 1..Len(R) : Len(buffers[q].Buffer) = R[q].size
      /\ DOMAIN data = DOMAIN names
      /\ \A n \in DOMAIN names : AgreesAt(names[n], buffers, data[n])
  BY DEF Agree
<1>6. PICK len : len = Len(R) /\ len \in Nat
  BY ResourceAt
<1>7. PICK old : old = buffers[p] /\ old \in Filled
  BY <1>4, <1>5
<1>8. PICK buffer : buffer = old.Buffer /\ buffer \in Seq(Words)
  BY <1>7 DEF Filled
<1>9. PICK copy : copy = Copied(buffer, offset, new)
  OBVIOUS
<1>10. /\ copy \in Seq(Words) /\ Len(copy) = Len(buffer)
       /\ \A i \in 1..Len(buffer) :
            copy[i] = IF i > offset /\ i <= offset + Len(new) THEN new[i - offset] ELSE buffer[i]
  <2>1. IsCopied(Copied(buffer, offset, new), buffer, offset, new)
    BY <1>4, <1>8, CopiedElements
  <2> QED BY <1>9, <2>1 DEF IsCopied
<1>11. DOMAIN buffers = 1..len
  BY <1>5, <1>6
<1>12. buffers2 = [q \in 1..len |-> IF q = p THEN [old EXCEPT !.Buffer = copy] ELSE buffers[q]]
  BY <1>1, <1>3, <1>7, <1>8, <1>9, <1>11
<1>13. [old EXCEPT !.Buffer = copy] \in Filled /\ [old EXCEPT !.Buffer = copy].Buffer = copy
  BY <1>7, <1>10 DEF Filled
<1>14. buffers2 \in Seq(Filled) /\ Len(buffers2) = len
  <2>1. \A q \in 1..len : buffers[q] \in Filled
    BY <1>5, <1>6
  <2>2. PICK filled : filled = [old EXCEPT !.Buffer = copy] /\ filled \in Filled
    BY <1>13
  <2>3. buffers2 = [q \in 1..len |-> IF q = p THEN filled ELSE buffers[q]]
    BY <1>12, <2>2
  <2>4. buffers2 \in [1..len -> Filled]
    <3> HIDE DEF Filled
    <3> QED BY <2>1, <2>2, <2>3
  <2>5. PICK f : f = buffers2 /\ f \in [1..len -> Filled]
    BY <2>4
  <2>6. f \in Seq(Filled) /\ Len(f) = len
    <3>1. len \in Nat
      BY <1>6
    <3> QED BY <2>5, <3>1, FunctionIsSeq
  <2> QED BY <2>5, <2>6
<1>15. buffers2[p].Buffer = copy /\ \A q \in 1..len : q # p => buffers2[q] = buffers[q]
  BY <1>4, <1>6, <1>12, <1>13
<1>16. \A q \in 1..Len(R) : Len(buffers2[q].Buffer) = R[q].size
  BY <1>5, <1>6, <1>7, <1>8, <1>10, <1>15
<1>17. /\ DOMAIN data2 = DOMAIN names
       /\ data2[name] = Copied(data[name], 0, new)
       /\ \A n \in DOMAIN names : n # name => data2[n] = data[n]
  BY <1>5
<1>18. Len(new) \in Nat /\ Len(new) <= size /\ Len(buffer) = R[p].size
  BY <1>1, <1>3, <1>4, <1>5, <1>7, <1>8
<1>19. R[p].size \in Nat
  BY <1>4, ResourceAt, ResourceTyped
<1>20. AgreesAt(names[name], buffers2, data2[name])
  <2>1. PICK was : was = data[name] /\ was \in Seq(Words) /\ Len(was) = size
                   /\ \A i \in 1..size : buffer[offset + i] = was[i]
    BY <1>1, <1>3, <1>5, <1>7, <1>8 DEF AgreesAt
  <2>2. PICK now : now = Copied(was, 0, new)
    OBVIOUS
  <2>3. /\ now \in Seq(Words) /\ Len(now) = size
        /\ \A i \in 1..size : now[i] = IF i > 0 /\ i <= 0 + Len(new) THEN new[i - 0] ELSE was[i]
    <3>1. IsCopied(Copied(was, 0, new), was, 0, new)
      BY <2>1, CopiedElements
    <3> QED BY <2>1, <2>2, <3>1 DEF IsCopied
  <2>4. ASSUME NEW i \in 1..size PROVE copy[offset + i] = now[i]
    <3>1. offset + i \in 1..Len(buffer) /\ (offset + i) - offset = i /\ i > 0 /\ i - 0 = i
      BY <1>4, <1>18, <1>19
    <3>2. offset + i > offset
      BY <1>4
    <3>3. offset + i <= offset + Len(new) <=> i <= 0 + Len(new)
      BY <1>4, <1>18
    <3>4. copy[offset + i] = IF i <= 0 + Len(new) THEN new[i] ELSE buffer[offset + i]
      BY <1>10, <3>1, <3>2, <3>3
    <3>5. now[i] = IF i <= 0 + Len(new) THEN new[i] ELSE was[i]
      BY <2>3, <3>1
    <3> QED BY <2>1, <3>4, <3>5
  <2> QED BY <1>1, <1>3, <1>15, <1>17, <2>1, <2>2, <2>3, <2>4 DEF AgreesAt
<1>21. ASSUME NEW n \in DOMAIN names, n # name PROVE AgreesAt(names[n], buffers2, data2[n])
  <2>1. PICK other : other = names[n]
    OBVIOUS
  <2>2. PICK q, start, length : q = other.RootParamIndex /\ start = other.OffsetIntoBuffer /\ length = other.BindingSize
    OBVIOUS
  <2>3. Inside(other, R) /\ Disjoint(other, info)
    BY <1>1, <1>21, <2>1 DEF PlacesFit
  <2>4. q \in 1..Len(R) /\ start \in Nat /\ length \in Nat /\ start + length <= R[q].size
    BY <2>2, <2>3 DEF Inside, Infos
  <2>5. AgreesAt(other, buffers, data[n]) /\ data2[n] = data[n]
    BY <1>5, <1>17, <1>21, <2>1
  <2>6. CASE q # p
    <3>1. buffers2[q] = buffers[q]
      BY <1>6, <1>15, <2>4, <2>6
    <3> QED BY <2>1, <2>2, <2>5, <3>1 DEF AgreesAt
  <2>7. CASE q = p
    <3>1. start + length <= offset \/ offset + size <= start
      BY <1>3, <2>2, <2>3, <2>7 DEF Disjoint
    <3>2. ASSUME NEW i \in 1..length PROVE copy[start + i] = buffer[start + i]
      <4>1. start + i \in 1..Len(buffer)
        BY <1>18, <1>19, <2>4, <2>7
      <4>2. ~(start + i > offset /\ start + i <= offset + Len(new))
        BY <1>4, <1>18, <2>4, <3>1
      <4> QED BY <1>10, <4>1, <4>2
    <3>3. \A i \in 1..length : buffer[start + i] = data[n][i]
      BY <1>7, <1>8, <2>2, <2>5, <2>7 DEF AgreesAt
    <3>4. data[n] \in Seq(Words) /\ Len(data[n]) = length
      BY <2>2, <2>5 DEF AgreesAt
    <3> QED BY <1>15, <2>1, <2>2, <2>5, <2>7, <3>2, <3>3, <3>4 DEF AgreesAt
  <2> QED BY <2>6, <2>7
<1>22. \A n \in DOMAIN names : AgreesAt(names[n], buffers2, data2[n])
  BY <1>20, <1>21
<1> QED BY <1>6, <1>14, <1>16, <1>17, <1>22 DEF Agree

-----------------------------------------------------------------------------
(* A shader sees what was bound. *)

\* A shader that was made has a binding map of its reflection, in whose buffers lies what
\* was staged; a dispatch hands these buffers over.
ShaderInv ==
  /\ stage \in {"compiled", "thrown", "made", "dispatched"} => shader.reflection \in Reflections
  /\ stage \in {"thrown", "made", "dispatched"} => MakeBindingMap(shader.reflection).error = "none"
  /\ stage = "thrown" => Cost(MakeBindingMap(shader.reflection).buffers) > Limit
  /\ stage \in {"made", "dispatched"} =>
       /\ m_NameToBindingInfo = MakeBindingMap(shader.reflection).names
       /\ Agree(shader.reflection, m_NameToBindingInfo, m_RootParamBuffers, staged)
  /\ stage = "dispatched" => root = [p \in DOMAIN m_RootParamBuffers |-> m_RootParamBuffers[p].Buffer]

LEMMA ShaderKept == ShaderInv /\ [BindingsNext]_shaderVars => ShaderInv'
<1> SUFFICES ASSUME ShaderInv, [BindingsNext]_shaderVars PROVE ShaderInv'
  OBVIOUS
<1>1. ASSUME stage' \notin {"compiled", "thrown", "made", "dispatched"} PROVE ShaderInv'
  BY <1>1 DEF ShaderInv
<1>2. CASE AskMapping
  <2>1. stage' = "mapping"
    BY <1>2 DEF AskMapping
  <2> QED BY <1>1, <2>1
<1>3. CASE Construct
  <2>1. stage' = "ready"
    BY <1>3 DEF Construct
  <2> QED BY <1>1, <2>1
<1>4. ASSUME NEW source \in Sources, NEW type, NEW include \in Includes, CompileShader(source, type, include)
      PROVE  ShaderInv'
  <2>1. stage' \in {"failed", "null dereferenced"} \/ (stage' = "compiled" /\ shader'.reflection \in Reflections)
    <3>1. CASE CodeToString(source).error # "none" \/ ~m_Compiler
      BY <1>4, <3>1 DEF CompileShader
    <3>2. CASE ~(CodeToString(source).error # "none" \/ ~m_Compiler)
      <4>1. PICK result \in Compiled(type, include) :
              shader' = result /\ stage' = IF result.error = "none" THEN "compiled" ELSE "failed"
        BY <1>4, <3>2 DEF CompileShader
      <4>2. CASE result.error = "none"
        <5>1. result # Failed("ReportShaderCompilationError")
          BY <4>2 DEF Failed
        <5>2. PICK r \in Reflections :
                result = [error |-> "none", reflected |-> type # "Lib", reflection |-> r]
          BY <5>1 DEF Compiled
        <5> QED BY <4>1, <4>2, <5>2
      <4>3. CASE result.error # "none"
        BY <4>1, <4>3
      <4> QED BY <4>2, <4>3
    <3> QED BY <3>1, <3>2
  <2>2. CASE stage' \in {"failed", "null dereferenced"}
    BY <1>1, <2>2
  <2>3. CASE stage' = "compiled" /\ shader'.reflection \in Reflections
    BY <2>3 DEF ShaderInv
  <2> QED BY <2>1, <2>2, <2>3
<1>5. CASE Make
  <2>1. PICK R : R = shader.reflection /\ R \in Reflections
    BY <1>5 DEF Make, ShaderInv
  <2>2. \/ stage' = "failed"
        \/ /\ MakeBindingMap(R).error = "none" /\ shader' = shader
           /\ stage' = "thrown" /\ Cost(MakeBindingMap(R).buffers) > Limit
        \/ /\ MakeBindingMap(R).error = "none" /\ shader' = shader
           /\ stage' = "made"
           /\ m_NameToBindingInfo' = MakeBindingMap(R).names
           /\ m_RootParamBuffers' = MakeBindingMap(R).buffers
           /\ staged' = [name \in DOMAIN MakeBindingMap(R).names |-> Zeros(MakeBindingMap(R).names[name].BindingSize)]
    BY <1>5, <2>1 DEF Make
  <2>3. CASE stage' = "failed"
    BY <1>1, <2>3
  <2>4. CASE /\ MakeBindingMap(R).error = "none" /\ shader' = shader
             /\ stage' = "thrown" /\ Cost(MakeBindingMap(R).buffers) > Limit
    BY <2>1, <2>4 DEF ShaderInv
  <2>5. CASE /\ MakeBindingMap(R).error = "none" /\ shader' = shader
             /\ stage' = "made"
             /\ m_NameToBindingInfo' = MakeBindingMap(R).names
             /\ m_RootParamBuffers' = MakeBindingMap(R).buffers
             /\ staged' = [name \in DOMAIN MakeBindingMap(R).names |-> Zeros(MakeBindingMap(R).names[name].BindingSize)]
    <3>1. Agree(R, m_NameToBindingInfo', m_RootParamBuffers', staged')
      BY <2>1, <2>5, AgreeAtFirst
    <3> QED BY <2>1, <2>5, <3>1 DEF ShaderInv
  <2> QED BY <2>2, <2>3, <2>4, <2>5
<1>6. CASE SetShaderStateAndDispatch
  <2>1. /\ stage = "made" /\ stage' = "dispatched"
        /\ root' = [p \in DOMAIN m_RootParamBuffers |-> m_RootParamBuffers[p].Buffer]
        /\ shader' = shader /\ m_NameToBindingInfo' = m_NameToBindingInfo
        /\ m_RootParamBuffers' = m_RootParamBuffers /\ staged' = staged
    BY <1>6 DEF SetShaderStateAndDispatch
  <2> QED BY <2>1 DEF ShaderInv
<1>7. ASSUME NEW binding \in Bindings, StageBindingData(binding) PROVE ShaderInv'
  <2>1. stage = "made"
    BY <1>7 DEF StageBindingData
  <2>2. CASE stage' = "failed"
    BY <1>1, <2>2
  <2>3. CASE ~(stage' = "failed")
    <3>1. PICK name, new : name = binding.name /\ new = binding.data
      OBVIOUS
    <3>2. /\ name \in DOMAIN m_NameToBindingInfo
          /\ ~(m_NameToBindingInfo[name].BindingSize < Len(new))
          /\ Stage(binding) /\ UNCHANGED <<stage, shader, m_NameToBindingInfo, root>>
      BY <1>7, <2>3, <3>1 DEF StageBindingData
    <3>3. PICK R, names : R = shader.reflection /\ names = m_NameToBindingInfo
      OBVIOUS
    <3>4. /\ R \in Reflections /\ MakeBindingMap(R).error = "none" /\ names = MakeBindingMap(R).names
          /\ Agree(R, names, m_RootParamBuffers, staged)
      BY <2>1, <3>3 DEF ShaderInv
    <3>5. PlacesFit(R, names)
      BY <3>4, AgreeAtFirst
    <3>6. new \in Seq(Words) /\ Len(new) \in Nat
      <4>1. new \in Seq(ToSet(new))
        BY <3>1, ReflectionsAssumption
      <4>2. ToSet(new) \subseteq Words
        BY <3>1 DEF Words
      <4>3. new \in Seq(Words)
        BY <4>1, <4>2, SeqOverMore
      <4> QED BY <4>3
    <3>7. Len(new) <= names[name].BindingSize
      <4>1. Inside(names[name], R)
        BY <3>2, <3>3, <3>5 DEF PlacesFit
      <4>2. names[name].BindingSize \in Nat
        BY <4>1 DEF Inside, Infos
      <4> QED BY <3>2, <3>3, <3>6, <4>2
    <3>8. /\ m_RootParamBuffers' = [m_RootParamBuffers EXCEPT ![names[name].RootParamIndex].Buffer
                                      = Copied(@, names[name].OffsetIntoBuffer, new)]
          /\ staged' = [staged EXCEPT ![name] = Copied(@, 0, new)]
      BY <3>1, <3>2, <3>3 DEF Stage
    <3>9. Agree(R, names, m_RootParamBuffers', staged')
      <4>1. PICK buffers, data, buffers2, data2 : /\ buffers = m_RootParamBuffers /\ data = staged
                                                  /\ buffers2 = m_RootParamBuffers' /\ data2 = staged'
        OBVIOUS
      <4>2. buffers2 = [buffers EXCEPT ![names[name].RootParamIndex].Buffer
                          = Copied(@, names[name].OffsetIntoBuffer, new)]
        BY <3>8, <4>1
      <4>3. data2 = [data EXCEPT ![name] = Copied(@, 0, new)]
        BY <3>8, <4>1
      <4>4. Agree(R, names, buffers, data) /\ name \in DOMAIN names
        BY <3>2, <3>3, <3>4, <4>1
      <4>5. Agree(R, names, buffers2, data2)
        BY <3>4, <3>5, <3>6, <3>7, <4>2, <4>3, <4>4, AgreeAfterStage
      <4> QED BY <4>1, <4>5
    <3> QED BY <2>1, <3>2, <3>3, <3>4, <3>9 DEF ShaderInv
  <2> QED BY <2>2, <2>3
<1>8. CASE UNCHANGED shaderVars
  BY <1>8 DEF ShaderInv, shaderVars, compilerVars, bindingVars
<1> QED BY <1>2, <1>3, <1>4, <1>5, <1>6, <1>7, <1>8 DEF BindingsNext, Over

\* The places a resource declares are those its names are bound to.
LEMMA DeclaredThere ==
  ASSUME shader.reflection \in Reflections, NEW p \in 1..Len(shader.reflection), NEW name
  PROVE  /\ \A place \in DeclaredIn(p, name) :
              /\ place[1] = p
              /\ name \in DOMAIN Names(shader.reflection[p], p)
              /\ place[2] = Names(shader.reflection[p], p)[name].OffsetIntoBuffer
         /\ name \in DOMAIN Names(shader.reflection[p], p) =>
              \E place \in DeclaredIn(p, name) : place[1] = p
<1>1. PICK R, resource : R = shader.reflection /\ resource = R[p]
  OBVIOUS
<1>2. R \in Reflections /\ resource \in ToSet(R) /\ p \in Nat
  BY <1>1, ResourceAt
<1>3. CASE resource.name = "$Globals"
  <2>1. DeclaredIn(p, name) = { <<p, var.start>> : var \in { v \in ToSet(resource.variables) : v.name = name } }
    BY <1>1, <1>3 DEF DeclaredIn
  <2>2. ASSUME NEW place \in DeclaredIn(p, name)
        PROVE  /\ place[1] = p /\ name \in DOMAIN Names(resource, p)
               /\ place[2] = Names(resource, p)[name].OffsetIntoBuffer
    <3>1. PICK k \in DOMAIN resource.variables :
            resource.variables[k].name = name /\ place = <<p, resource.variables[k].start>>
      BY <2>1 DEF ToSet
    <3>2. /\ name \in DOMAIN Names(resource, p)
          /\ Names(resource, p)[name] = [RootParamIndex |-> p, OffsetIntoBuffer |-> resource.variables[k].start,
                                         BindingSize |-> resource.variables[k].size]
      BY <1>2, <1>3, <3>1, GlobalNamed
    <3> QED BY <3>1, <3>2
  <2>3. ASSUME name \in DOMAIN Names(resource, p) PROVE \E place \in DeclaredIn(p, name) : place[1] = p
    <3>1. PICK k \in DOMAIN resource.variables : name = resource.variables[k].name
      BY <1>3, <2>3, GlobalNames
    <3>2. <<p, resource.variables[k].start>> \in DeclaredIn(p, name)
      BY <2>1, <3>1 DEF ToSet
    <3> QED BY <3>2
  <2> QED BY <1>1, <2>2, <2>3
<1>4. CASE resource.name # "$Globals"
  <2>1. DeclaredIn(p, name) = IF resource.name = name THEN { <<p, 0>> } ELSE {}
    BY <1>1, <1>4 DEF DeclaredIn
  <2>2. /\ DOMAIN Names(resource, p) = {resource.name}
        /\ Names(resource, p)[resource.name] = [RootParamIndex |-> p, OffsetIntoBuffer |-> 0, BindingSize |-> resource.size]
    BY <1>4, OwnNamed
  <2>3. Names(resource, p)[resource.name].OffsetIntoBuffer = 0
    BY <2>2
  <2>4. <<p, 0>>[1] = p /\ <<p, 0>>[2] = 0
    OBVIOUS
  <2>5. CASE resource.name = name
    <3>1. DeclaredIn(p, name) = { <<p, 0>> } /\ name \in DOMAIN Names(resource, p)
      BY <2>1, <2>2, <2>5
    <3> QED BY <1>1, <2>3, <2>4, <2>5, <3>1
  <2>6. CASE resource.name # name
    <3>1. DeclaredIn(p, name) = {} /\ name \notin DOMAIN Names(resource, p)
      BY <2>1, <2>2, <2>6
    <3> QED BY <1>1, <3>1
  <2> QED BY <2>5, <2>6
<1> QED BY <1>3, <1>4

\* A name is bound where its first resource declares it.
LEMMA BoundWhereDeclared ==
  ASSUME shader.reflection \in Reflections, NEW name, NEW info,
         FirstNamed(shader.reflection, Len(shader.reflection), name, info), Inside(info, shader.reflection),
         NEW place \in Declared(name), \A other \in Declared(name) : place[1] <= other[1]
  PROVE  place[1] = info.RootParamIndex /\ place[2] = info.OffsetIntoBuffer
<1>1. PICK R, n : R = shader.reflection /\ n = Len(R) /\ n \in Nat /\ DOMAIN R = 1..n
  BY ResourceAt
<1>2. PICK p \in 1..n : /\ name \in DOMAIN Names(R[p], p) /\ info = Names(R[p], p)[name]
                        /\ \A q \in 1..p - 1 : name \notin DOMAIN Names(R[q], q)
  BY <1>1 DEF FirstNamed
<1>3. info.RootParamIndex = p
  BY <1>1, <1>2, NamesInside
<1>4. PICK q \in 1..n : place \in DeclaredIn(q, name)
  BY <1>1 DEF Declared
<1>5. /\ place[1] = q /\ name \in DOMAIN Names(R[q], q)
      /\ place[2] = Names(R[q], q)[name].OffsetIntoBuffer
  BY <1>1, <1>4, DeclaredThere
<1>6. PICK other \in DeclaredIn(p, name) : other[1] = p
  BY <1>1, <1>2, DeclaredThere
<1>7. other \in Declared(name)
  BY <1>1, <1>6 DEF Declared
<1>8. q <= p
  BY <1>5, <1>6, <1>7
<1>9. ~(q \in 1..p - 1)
  BY <1>2, <1>5
<1>10. q = p
  BY <1>1, <1>8, <1>9
<1> QED BY <1>2, <1>3, <1>5, <1>10

LEMMA SeesFromAgree == ShaderInv => ShaderSeesBindings
<1> SUFFICES ASSUME ShaderInv PROVE ShaderSeesBindings
  OBVIOUS
<1>1. ASSUME stage = "thrown"
      PROVE  \E p \in DOMAIN MakeBindingMap(shader.reflection).buffers :
               MakeBindingMap(shader.reflection).buffers[p].Type = "RootDescriptor"
  <2>1. PICK R : R = shader.reflection
    OBVIOUS
  <2>2. R \in Reflections /\ MakeBindingMap(R).error = "none" /\ Cost(MakeBindingMap(R).buffers) > Limit
    BY <1>1, <2>1 DEF ShaderInv
  <2>3. MakeBindingMap(R).buffers \in Seq(Slots)
    BY <2>2, WholeMap DEF MapsOf
  <2>4. Cost(MakeBindingMap(R).buffers) \in Nat
    <3>1. PICK buffers : buffers = MakeBindingMap(R).buffers /\ buffers \in Seq(Slots)
      BY <2>3
    <3>2. PICK cost : CostsOf(buffers, cost) /\ Cost(buffers) = cost[Len(buffers)]
      BY <3>1, CostSteps
    <3>3. Len(buffers) \in 0..Len(buffers)
      BY <3>1
    <3> QED BY <3>1, <3>2, <3>3 DEF CostsOf
  <2>5. Limit \in Nat
    BY ReflectionsAssumption
  <2>6. ~(Cost(MakeBindingMap(R).buffers) <= Limit)
    BY <2>2, <2>4, <2>5
  <2> QED BY <2>1, <2>2, <2>6, ConstantsFit
<1>2. ASSUME stage = "dispatched", NEW name \in DOMAIN staged, NEW place \in Declared(name),
             \A other \in Declared(name) : place[1] <= other[1]
      PROVE  SubSeq(root[place[1]], place[2] + 1, place[2] + Len(staged[name])) = staged[name]
  <2>1. PICK R, names : R = shader.reflection /\ names = m_NameToBindingInfo
    OBVIOUS
  <2>2. /\ R \in Reflections /\ MakeBindingMap(R).error = "none" /\ names = MakeBindingMap(R).names
        /\ Agree(R, names, m_RootParamBuffers, staged)
        /\ root = [p \in DOMAIN m_RootParamBuffers |-> m_RootParamBuffers[p].Buffer]
    BY <1>2, <2>1 DEF ShaderInv
  <2>3. PlacesFit(R, names)
    BY <2>2, AgreeAtFirst
  <2>4. PICK info : info = names[name]
    OBVIOUS
  <2>5. name \in DOMAIN names /\ AgreesAt(info, m_RootParamBuffers, staged[name])
    BY <1>2, <2>2, <2>4 DEF Agree
  <2>6. FirstNamed(R, Len(R), name, info) /\ Inside(info, R)
    BY <2>3, <2>4, <2>5 DEF PlacesFit
  <2>7. place[1] = info.RootParamIndex /\ place[2] = info.OffsetIntoBuffer
    BY <1>2, <2>1, <2>2, <2>6, BoundWhereDeclared
  <2>8. PICK p, offset, size, data : /\ p = place[1] /\ offset = place[2] /\ size = info.BindingSize
                                     /\ data = staged[name]
    OBVIOUS
  <2>9. p \in 1..Len(R) /\ offset \in Nat /\ size \in Nat /\ offset + size <= R[p].size
    BY <2>6, <2>7, <2>8 DEF Inside, Infos
  <2>10. /\ data \in Seq(Words) /\ Len(data) = size
         /\ \A i \in 1..size : m_RootParamBuffers[p].Buffer[offset + i] = data[i]
    BY <2>5, <2>7, <2>8 DEF AgreesAt
  <2>11. /\ m_RootParamBuffers \in Seq(Filled) /\ Len(m_RootParamBuffers) = Len(R)
         /\ Len(m_RootParamBuffers[p].Buffer) = R[p].size
    BY <2>2, <2>9 DEF Agree
  <2>12. PICK buffer : buffer = m_RootParamBuffers[p].Buffer /\ buffer \in Seq(Words)
    <3>1. m_RootParamBuffers[p] \in Filled
      BY <2>9, <2>11
    <3> QED BY <3>1 DEF Filled
  <2>13. root[p] = buffer
    BY <2>2, <2>9, <2>11, <2>12
  <2>14. offset + 1 \in 1..Len(buffer) + 1 /\ offset + size \in (offset + 1) - 1..Len(buffer)
    BY <2>9, <2>11, <2>12
  <2>15. PICK part : part = SubSeq(buffer, offset + 1, offset + size)
    OBVIOUS
  <2>16. /\ part \in Seq(Words) /\ Len(part) = (offset + size) - (offset + 1) + 1
         /\ \A i \in 1..(offset + size) - (offset + 1) + 1 : part[i] = buffer[((offset + 1) - 1) + i]
    BY <2>12, <2>14, <2>15, SubSeqElements
  <2>17. (offset + size) - (offset + 1) + 1 = size /\ (offset + 1) - 1 = offset
    BY <2>9
  <2>18. \A i \in 1..Len(part) : part[i] = data[i]
    BY <2>10, <2>12, <2>16, <2>17
  <2>19. part = data
    BY <2>10, <2>16, <2>17, <2>18, SameElements
  <2> QED BY <2>8, <2>10, <2>13, <2>15, <2>19
<1> QED BY <1>1, <1>2 DEF ShaderSeesBindings

\* A dispatched shader reads for every name what was staged for it, whatever was staged for
\* its neighbours, and making a shader only throws when some buffer became a root
\* descriptor: for any reflection as DXC gives them, and any bindings.
\* ShaderBindingMap.cpp:76 and :106.
THEOREM AlwaysSees == BindingsSpec => []ShaderSeesBindings
<1>1. ShaderInit => ShaderInv
  <2>1. ShaderInit => stage = "mapping"
    BY DEF ShaderInit, CompilerInit
  <2> QED BY <2>1 DEF ShaderInv
<1>2. ShaderInv /\ [BindingsNext]_shaderVars => ShaderInv'
  BY ShaderKept
<1>3. ShaderInv => ShaderSeesBindings
  BY SeesFromAgree
<1> QED BY <1>1, <1>2, <1>3, PTL DEF BindingsSpec

=============================================================================
