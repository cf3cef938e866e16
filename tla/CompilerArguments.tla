-------------------------- MODULE CompilerArguments --------------------------
(***************************************************************************)
(* The arguments ShaderCompiler::CompileShader gives to DXC for a job. An    *)
(* argument is a tuple: its switch and what follows it.                      *)
(***************************************************************************)
EXTENDS Naturals, Sequences, SequencesExt

EShaderCompileFlags ==
  {"Debug", "SkipValidation", "SkipOptimization", "MatrixRowMajor", "MatrixColumnMajor",
   "AvoidFlowControl", "PreferFlowControl", "EnableStrictness", "IEEEStrictness", "O0", "O3",
   "WarningsAsErrors", "ResourcesMayAlias", "UnboundedDescriptorTables", "AllResourcesBound"}

EShaderType == {"None", "Vertex", "Hull", "Domain", "Geometry", "Pixel", "Compute", "Lib"}

\* v2016, v2017, v2018, v2021 and v202x, which is the default.
EHLSLVersion == 0..4
v202x == 4

\* A job: its defines are tuples of a name and a definition.
JobDesc(entry, type, version, flags, defines, additional) ==
  [EntryPoint |-> entry, ShaderType |-> type, HLSLVersion |-> version, Flags |-> flags,
   Defines |-> defines, AdditionalFlags |-> additional]

\* The shader model is one for all jobs of a model.
MakeShaderTarget(type) == IF type = "Lib" THEN "lib_" ELSE type

\* Both packings or none: rows. O3 unless O0, whatever else was asked.
FlagArguments(flags) ==
  LET row == "MatrixRowMajor" \in flags \/ "MatrixColumnMajor" \notin flags
      optional(flag, arg) == IF flag \in flags THEN <<(<<arg>>)>> ELSE <<>>
  IN  optional("AllResourcesBound", "-all-resources-bound") \o optional("AvoidFlowControl", "-GFa")
      \o optional("Debug", "-Zi") \o optional("EnableStrictness", "-Ges")
      \o optional("IEEEStrictness", "-Gis")
      \o (IF row THEN <<(<<"-Zpr">>)>> ELSE <<(<<"-Zpc">>)>>)
      \o (IF "O0" \in flags THEN <<(<<"-O0">>)>> ELSE <<(<<"-O3">>)>>)
      \o optional("PreferFlowControl", "-Gfp") \o optional("ResourcesMayAlias", "-res-may-alias")
      \o optional("SkipOptimization", "-Od") \o optional("SkipValidation", "-Vd")
      \o optional("WarningsAsErrors", "-WX")

ArgumentsOf(job) ==
  <<(<<"-E", job.EntryPoint>>), <<"-T", MakeShaderTarget(job.ShaderType)>>,
    <<"-HV", job.HLSLVersion>>, <<"-WX">> >>
  \o (IF job.HLSLVersion >= v202x
      THEN <<(<<"-Wconversion">>), <<"-Wdouble-promotion">>, <<"-Whlsl-legacy-literal">> >> ELSE <<>>)
  \o FlagArguments(job.Flags)
  \o [k \in DOMAIN job.Defines |-> <<"-D">> \o job.Defines[k]]
  \o [k \in DOMAIN job.AdditionalFlags |-> <<job.AdditionalFlags[k]>>]
=============================================================================
