------------------------------ MODULE TestFixture ------------------------------
(***************************************************************************)
(* BasicShaderTestFixture: fixtures that come and go on one thread, each with *)
(* a device, a driver and a member stat scope of the derived fixture. RunTest *)
(* compiles and runs a test, captures it, and runs it again for diagnosis.    *)
(* All fixtures share one StatSystem and the stats of the last flush.         *)
(***************************************************************************)
EXTENDS GPUDevice, StatSystem, CompilerArguments

CONSTANTS
  Params,    \* the CreationParams fixtures ask for
  MaxTests,  \* bound: RunTest and RunCompileTimeTest calls
  MaxFixtures \* bound: fixtures constructed, each of which flushes the stats once

VARIABLES
  fixture,     \* none, based, ready or undriven, in the order of construction
  holders,     \* who holds a SharedPtr to the device
  cachedStats,
  scope,       \* the handle of the derived fixture's scope
  test,        \* the call of RunTest in progress, or whose result is looked at
  attempts,    \* history: the runs of that test
  captureFile, \* the attempt the capture of that test on disk shows, 0: none
  tests,       \* calls so far
  begun,       \* history: the stats each living fixture has begun
  alone        \* history: fixtures that no other fixture was alive with

fixtureVars == <<fixture, holders, scope, alone>>
runVars == <<test, attempts, captureFile>>
testVars == <<deviceVars, statVars, fixtureVars, runVars, cachedStats, tests, begun>>

EGPUCaptureMode == {"Off", "CaptureOnFailure", "On"}
EStringMode == {"Off", "OnFailure", "On"}

Idle == [stage |-> "idle"]

FixtureInit ==
  /\ DeviceInit /\ StatInit
  /\ fixture = [f \in Fixtures |-> "none"]
  /\ holders = [f \in Fixtures |-> {}]
  /\ cachedStats = <<>>
  /\ scope = [f \in Fixtures |-> InvalidHandle]
  /\ test = Idle /\ attempts = <<>> /\ captureFile = 0 /\ tests = 0
  /\ begun = [f \in Fixtures |-> <<>>]
  /\ alone = {}

Alive == { f \in Fixtures : fixture[f] # "none" }

-----------------------------------------------------------------------------
\* No constructor, destructor or test is running on the thread.
Quiet == test = Idle /\ \A g \in Alive : fixture[g] = "ready"

\* Construction of the base: the device, which may throw, the compiler, and an empty
\* vector of stats. StatSystem itself is not cleared.
ConstructBase(f) ==
  /\ Quiet /\ fixture[f] = "none" /\ device[f] = NoDevice
  /\ flushes + Cardinality(Alive) < MaxFixtures
  /\ \E params \in Params : CreateDevice(f, params)
  /\ IF device'[f].is = "ready"
     THEN /\ fixture' = [fixture EXCEPT ![f] = "based"]
          /\ holders' = [holders EXCEPT ![f] = {"fixture"}]
          /\ cachedStats' = <<>>
          /\ begun' = [begun EXCEPT ![f] = <<>>]
          /\ alone' = IF Alive = {} THEN {f} ELSE {}
     ELSE UNCHANGED <<fixture, holders, cachedStats, begun, alone>>
  /\ UNCHANGED <<statVars, scope, runVars, tests>>

\* The driver, with its engine; then the derived fixture begins its scope.
ConstructDriver(f) ==
  /\ fixture[f] = "based"
  /\ CreateObject(f, "engine")
  /\ fixture' = [fixture EXCEPT ![f] = "ready"]
  /\ holders' = [holders EXCEPT ![f] = @ \cup {"driver"}]
  /\ scope' = [scope EXCEPT ![f] = BeginHandle(m_RawTimedStats, <<f, "scope">>)]
  /\ m_RawTimedStats' = BeginStat(m_RawTimedStats, <<f, "scope">>)
  /\ begun' = [begun EXCEPT ![f] = Append(@, <<f, "scope">>)]
  /\ UNCHANGED <<m_CurrentGen, flushes, cachedStats, alone, runVars, tests>>

\* The constructor of the driver throws: only the base is destroyed.
ConstructDriverThrows(f) ==
  /\ fixture[f] = "based"
  /\ fixture' = [fixture EXCEPT ![f] = "undriven"]
  /\ UNCHANGED <<deviceVars, statVars, holders, scope, alone, cachedStats, begun, runVars, tests>>

-----------------------------------------------------------------------------
DebugFlags == <<"-Qembed_debug", "-Zss", "-Zi">>

\* AddAssertionLibraryDefine. Wording is left out.
AssertionLibraryDefine == <<"STF_ASSERTION_LIBRARY", "path">>

\* The test as RunTest prepares it.
Prepared(capture, strings) ==
  [GPUCaptureMode |-> capture, StringMode |-> strings, Bindings |-> TRUE,
   Defines |-> <<(<<"USER", "1">>), <<"TTL_STRING_MAX_LENGTH", "64">>, AssertionLibraryDefine>>,
   CompilationFlags |-> <<"-interface">>]

\* RunTest up to its first attempt.
RunTest(f) ==
  /\ Quiet /\ fixture[f] = "ready" /\ tests < MaxTests
  /\ \E capture \in EGPUCaptureMode, strings \in EStringMode :
       LET name == <<f, "RunTest", tests>>
       IN  /\ test' = [stage |-> "first", fixture |-> f, desc |-> Prepared(capture, strings),
                       fullTest |-> BeginHandle(m_RawTimedStats, name)]
           /\ m_RawTimedStats' = BeginStat(m_RawTimedStats, name)
           /\ begun' = [begun EXCEPT ![f] = Append(@, name)]
  /\ tests' = tests + 1
  /\ UNCHANGED <<deviceVars, m_CurrentGen, flushes, fixtureVars, cachedStats, attempts, captureFile>>

ShouldTakeCapture(f, mode, retry) ==
  /\ IsGPUCaptureEnabled(f)
  /\ mode = "On" \/ (retry /\ mode = "CaptureOnFailure")

EnableStrings(mode, retry) == mode = "On" \/ (retry /\ mode = "OnFailure")

\* The job CompileShader gives to the compiler.
CompileJob(desc, capture) ==
  JobDesc("TestName", "Compute", v202x, IF capture THEN {"SkipOptimization", "O0"} ELSE {}, desc.Defines,
          desc.CompilationFlags \o <<"-enable-16bit-types">> \o (IF capture THEN DebugFlags ELSE <<>>))

\* How an attempt may end. The end of a capture is in a noexcept destructor.
Ends(capture) ==
  {"compile error", "shader error", "run error", "throws", "fail", "pass"}
    \cup (IF capture THEN {"capture throws", "terminates"} ELSE {})

Ran == {"run error", "throws", "fail", "pass"}
Errors == {"compile error", "shader error", "run error"}

\* The description after an attempt, which works on a copy and moves from that.
\* (Variant: on a reference.)
DescriptionByReference(desc, worked) == [worked EXCEPT !.Bindings = FALSE]

DescriptionAfter(desc, worked) == desc

\* RunTest's condition for a second attempt.
RequestedRetryOnFail(desc) ==
  desc.GPUCaptureMode = "CaptureOnFailure" \/ desc.StringMode = "OnFailure"

\* What follows an attempt. (Variant: an error is tried again too.)
NextStageErrorsToo(end, retry, desc) ==
  IF end = "terminates" THEN "terminated"
  ELSE IF end \in Errors \cup {"fail"} /\ ~retry /\ RequestedRetryOnFail(desc) THEN "retry"
  ELSE "returned"

NextStage(end, retry, desc) ==
  IF end = "terminates" THEN "terminated"
  ELSE IF end = "fail" /\ ~retry /\ RequestedRetryOnFail(desc) THEN "retry"
  ELSE "returned"

\* RunTestImpl with the CompileShader it calls; then RunTest returns, with or
\* without a result, or goes on to the second attempt.
RunTestImpl(retry) ==
  LET f == test.fixture
      desc == test.desc
      strings == EnableStrings(desc.StringMode, retry)
      capture == ShouldTakeCapture(f, desc.GPUCaptureMode, retry)
      worked == [desc EXCEPT !.Defines = Append(@, <<"TTL_ENABLE_STRINGS", IF strings THEN "1" ELSE "0">>)]
      name == <<f, "CompileShader", tests, retry>>
      stats == EndStat(BeginHandle(m_RawTimedStats, name), BeginStat(m_RawTimedStats, name))
  IN  \E end \in Ends(capture) :
        LET stage == NextStage(end, retry, desc)
        IN  /\ attempts' = Append(attempts, [arguments |-> ArgumentsOf(CompileJob(worked, capture)),
                              bindings |-> worked.Bindings, captured |-> capture, end |-> end])
            /\ captureFile' = IF capture /\ end \in Ran THEN Len(attempts') ELSE captureFile
            /\ test' = [test EXCEPT !.stage = stage, !.desc = DescriptionAfter(desc, worked)]
            /\ m_RawTimedStats' = IF stage = "returned" THEN EndStat(test.fullTest, stats) ELSE stats
            /\ begun' = [begun EXCEPT ![f] = Append(@, name)]
            /\ UNCHANGED <<deviceVars, m_CurrentGen, flushes, fixtureVars, cachedStats, tests>>

FirstAttempt == test.stage = "first" /\ RunTestImpl(FALSE)
SecondAttempt == test.stage = "retry" /\ RunTestImpl(TRUE)

\* The caller has looked at the result.
ResultSeen ==
  /\ test.stage = "returned"
  /\ test' = Idle /\ attempts' = <<>> /\ captureFile' = 0
  /\ UNCHANGED <<deviceVars, statVars, fixtureVars, cachedStats, tests, begun>>

\* RunCompileTimeTest: one scope in another; nothing runs.
RunCompileTimeTest(f) ==
  /\ Quiet /\ fixture[f] = "ready" /\ tests < MaxTests
  /\ LET outer == <<f, "RunCompileTimeTest", tests>>
         inner == <<f, "CompileShader", tests>>
         with == BeginStat(m_RawTimedStats, outer)
         both == EndStat(BeginHandle(with, inner), BeginStat(with, inner))
     IN  /\ m_RawTimedStats' = EndStat(BeginHandle(m_RawTimedStats, outer), both)
         /\ begun' = [begun EXCEPT ![f] = @ \o <<outer, inner>>]
  /\ tests' = tests + 1
  /\ UNCHANGED <<deviceVars, m_CurrentGen, flushes, fixtureVars, cachedStats, runVars>>

-----------------------------------------------------------------------------
\* The derived fixture ends its scope, then the driver goes with all its objects.
\* (Variant: objects of the driver are kept by somebody.)
DestroyDerivedKept(f) ==
  /\ Quiet /\ fixture[f] = "ready"
  /\ m_RawTimedStats' = EndStat(scope[f], m_RawTimedStats)
  /\ scope' = [scope EXCEPT ![f] = InvalidHandle]
  /\ fixture' = [fixture EXCEPT ![f] = "undriven"]
  /\ holders' = [holders EXCEPT ![f] = @ \ {"driver"}]
  /\ UNCHANGED <<deviceVars, m_CurrentGen, flushes, alone, cachedStats, runVars, tests, begun>>

DestroyDerived(f) ==
  /\ Quiet /\ fixture[f] = "ready"
  /\ m_RawTimedStats' = EndStat(scope[f], m_RawTimedStats)
  /\ scope' = [scope EXCEPT ![f] = InvalidHandle]
  /\ fixture' = [fixture EXCEPT ![f] = "undriven"]
  /\ holders' = [holders EXCEPT ![f] = @ \ {"driver"}]
  /\ children' = [children EXCEPT ![f] = {}]
  /\ UNCHANGED <<device, m_PixHandle, capturer, m_CurrentGen, flushes, alone, cachedStats, runVars, tests, begun>>

\* The base: its body flushes, then the members go, the device with its last holder.
DestroyBase(f) ==
  /\ fixture[f] = "undriven"
  /\ cachedStats' = Completed(m_RawTimedStats)
  /\ FlushTimedStats
  /\ fixture' = [fixture EXCEPT ![f] = "none"]
  /\ holders' = [holders EXCEPT ![f] = @ \ {"fixture"}]
  /\ IF holders'[f] = {} THEN DestroyDevice(f) ELSE UNCHANGED <<device, m_PixHandle, capturer>>
  /\ alone' = alone \ {f}
  /\ UNCHANGED <<children, scope, runVars, tests, begun>>

\* A noexcept destructor threw, or all fixtures are gone.
Terminated ==
  /\ Alive = {} \/ test.stage = "terminated"
  /\ UNCHANGED testVars

FixtureNext ==
  \/ \E f \in Fixtures :
       \/ ConstructBase(f) \/ ConstructDriver(f) \/ ConstructDriverThrows(f)
       \/ RunTest(f) \/ RunCompileTimeTest(f)
       \/ DestroyDerived(f) \/ DestroyBase(f)
  \/ FirstAttempt \/ SecondAttempt \/ ResultSeen \/ Terminated

FixtureSpec == FixtureInit /\ [][FixtureNext]_testVars

-----------------------------------------------------------------------------
FixtureTypeOK ==
  /\ fixture \in [Fixtures -> {"none", "based", "ready", "undriven"}]
  /\ holders \in [Fixtures -> SUBSET {"fixture", "driver"}]
  /\ children \in [Fixtures -> SUBSET {"engine"}]
  /\ capturer \in Nat /\ m_CurrentGen \in 0..MaxGens - 1
  /\ captureFile \in 0..2 /\ Len(attempts) \in 0..2

\* The D3D12 objects of a fixture never outlive its device, nor the capturer library
\* the device was created under, whatever other fixtures free and whichever
\* constructor threw. Destruction order of members, BasicShaderTestFixture.h:97, :249.
ObjectsInsideDevice ==
  \A f \in Fixtures :
    /\ children[f] # {} => IsValid(f)
    /\ m_PixHandle[f] => IsValid(f) /\ capturer > 0

\* The arguments that only serve diagnosis.
Diagnosis == { <<"-Qembed_debug">>, <<"-Zss">>, <<"-Zi">>, <<"-O0">>, <<"-O3">>, <<"-Od">>,
               <<"-D", "TTL_ENABLE_STRINGS", "0">>, <<"-D", "TTL_ENABLE_STRINGS", "1">> }

\* The other arguments of an attempt, in their order.
Plain(arguments) ==
  LET plain[n \in 0..Len(arguments)] ==
        IF n = 0 THEN <<>>
        ELSE IF arguments[n] \in Diagnosis THEN plain[n - 1] ELSE Append(plain[n - 1], arguments[n])
  IN  plain[Len(arguments)]

\* The second attempt compiles and binds what the first did: the bindings were not
\* moved away, strings are decided once per attempt, and a captured attempt is not
\* optimised; nothing else differs.
AttemptsAlike ==
  \A k \in DOMAIN attempts :
    LET arguments == attempts[k].arguments
        strings == { j \in DOMAIN arguments : arguments[j][1] = "-D" /\ arguments[j][2] = "TTL_ENABLE_STRINGS" }
    IN  /\ attempts[k].bindings
        /\ Cardinality(strings) = 1
        /\ Plain(arguments) = Plain(attempts[1].arguments)
        /\ attempts[k].captured => <<"-O3">> \notin ToSet(arguments)

\* The capture on disk is of the last attempt that ran; a failure is captured when
\* that was asked for; CaptureOnFailure leaves no capture of a test that passes at
\* once (docs/Tutorial.md:264), and an error of the run is not tried again.
CaptureShowsResult ==
  test.stage = "returned" =>
    LET ran == { k \in DOMAIN attempts : attempts[k].end \in Ran }
        first == attempts[1].end
        asked == test.desc.GPUCaptureMode
    IN  /\ captureFile # 0 => captureFile = Max(ran)
        /\ asked = "CaptureOnFailure" /\ captureFile # 0 => first = "fail"
        /\ first \in Errors => Len(attempts) = 1
        /\ asked # "Off" /\ IsGPUCaptureEnabled(test.fixture) /\ attempts[Len(attempts)].end = "fail"
             => captureFile = Len(attempts)

\* A handle kept over flushes never ends the stat of somebody else, until the
\* generations or the identifiers repeat: StatSystem.cpp:21 and :8.
HandlesFindTheirStat ==
  \A f \in Fixtures :
    flushes - scope[f].born < MaxGens /\ Len(m_RawTimedStats) <= MaxIds => ~EndsAnother(scope[f])

\* A fixture that lived alone leaves behind all the stats it began, in that order,
\* and nothing of the fixtures before it: GetTestStats after its destruction.
StatsOfLastFixture ==
  [][\A f \in alone : fixture[f] = "undriven" /\ fixture'[f] = "none" /\ Len(begun[f]) <= MaxIds
        => cachedStats' = begun[f]]_testVars
=============================================================================
