------------------------------- MODULE MCFixture -------------------------------
(***************************************************************************)
(* What a test is built with, for TLC: three fixtures on a machine with a     *)
(* software adapter and two hardware ones; or the compiler of a fixture, with *)
(* mappings that nest, repeat, end in a slash or are refused, and shaders     *)
(* whose buffers fit the root signature together or not. A fixture looks at   *)
(* its compiler's answer only, so a behaviour exercises one or the other.     *)
(***************************************************************************)
EXTENDS TestFixture, ShaderBindings, TLC

CONSTANTS A, B, C

VARIABLE exercised

BuildInit == exercised \in {"fixture", "shader"} /\ FixtureInit /\ ShaderInit

BuildNext ==
  /\ UNCHANGED exercised
  /\ \/ exercised = "fixture" /\ FixtureNext /\ UNCHANGED shaderVars
     \/ exercised = "shader" /\ BindingsNext /\ UNCHANGED testVars

BuildSpec == BuildInit /\ [][BuildNext]_<<exercised, testVars, shaderVars>>

Machine == <<[software |-> FALSE, level |-> 110], [software |-> TRUE, level |-> 122],
             [software |-> FALSE, level |-> 0]>>

\* The default, the tutorial's, and the most that can be asked.
SomeParams ==
  { [DebugLevel |-> "DebugLayer", DeviceType |-> "Software", EnableGPUCapture |-> TRUE],
    [DebugLevel |-> "DebugLayerWithValidation", DeviceType |-> "Hardware", EnableGPUCapture |-> FALSE] }

\* Fixtures differ in nothing, and no property is about fairness.
AnyOrder == Permutations({A, B, C})

Characters == {"/", "\\", ".", "a", "b", "x"}

Map1(virtual, real) == [VirtualPath |-> virtual, RealPath |-> real]

SomeMappings ==
  { Map1(<<"/", "a">>, <<"C:", "/">>),
    Map1(<<"/", "a", "/", "Lib">>, <<"C:", "/", "Lib">>),
    Map1(<<"/", "a">>, <<"D:", "/", "Other", "/">>),
    Map1(<<"/", "Test", "/">>, <<"C:", "/", "Mine">>),
    Map1(<<"/", "Test", "\\", "STF">>, <<"C:", "/", "STF">>),
    Map1(<<"a">>, <<"C:", "/">>),
    Map1(<<"/", "b">>, <<"/", "b">>) }

Own == Map1(<<"/", "Test">>, <<"C:", "/", "bin", "/", "Shader">>)

SomeFiles == { <<"C:", "/", "x">>, <<"C:", "/", "Lib", "/", "x">>, <<"x">>,
               <<"C:", "/", "bin", "/", "Shader", "/", "STF">> }

SomeSources ==
  { [kind |-> "none", path |-> <<>>], [kind |-> "text", path |-> <<>>] }
    \cup { [kind |-> "path", path |-> p] :
             p \in { <<>>, <<"x">>, <<"y">>, <<"/", "a", "/", "x">>, <<"/", "/", "a", "/", "x">> } }

\* No include, the framework, a relative path, a file of the first mapping.
SomeIncludes ==
  { <<>>, <<".", "/", "Test", "/", "STF">>, <<".", ".", "/", "a", "/", "x">>, <<"/", "a", "\\", "x">> }

Scalar == [elements |-> 0, members |-> <<>>]
Array == [elements |-> 2, members |-> <<>>]
Struct(type) == [elements |-> 0, members |-> <<Scalar, type>>]
SomeTypes == {Scalar, Array, Struct(Scalar), Struct(Array)}
Var(name, start, size, type) == [name |-> name, start |-> start, size |-> size, type |-> type]
Buffer(name, size, variables) == [kind |-> "CBUFFER", name |-> name, size |-> size, variables |-> variables]

Globals(type) == Buffer("$Globals", 3, <<Var("g", 0, 1, Scalar), Var("h", 1, 2, type)>>)
Small(type) == Buffer("c", 2, <<Var("m", 0, 2, type)>>)
Large == Buffer("d", 7, <<Var("n", 0, 7, Scalar)>>)
Texture == [kind |-> "TEXTURE", name |-> "t", size |-> 0, variables |-> <<>>]

SomeReflections ==
  { <<>>, <<Texture>>, <<Large>>,
    <<Globals(Scalar), Small(Scalar)>>, <<Globals(Array), Small(Scalar)>>,
    <<Globals(Scalar), Small(Array)>>, <<Globals(Scalar), Small(Struct(Array))>>,
    <<Small(Scalar), Globals(Scalar), Buffer("e", 1, <<Var("k", 0, 1, Struct(Scalar))>>)>>,
    <<Globals(Scalar), Buffer("e", 1, <<>>), Buffer("f", 2, <<>>), Small(Scalar)>>,
    <<Globals(Scalar), Buffer("g", 1, <<>>), Small(Scalar)>> }

SomeBindings ==
  { [name |-> n, data |-> <<1>>] : n \in {"g", "h", "c", "u"} }
    \cup { [name |-> n, data |-> <<2, 3>>] : n \in {"g", "h", "c"} }
=============================================================================
