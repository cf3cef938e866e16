---------------------------- MODULE ShaderCompiler ----------------------------
(***************************************************************************)
(* ShaderCompiler: constructed from virtual mappings, compiles jobs with DXC *)
(* (external). The include handler keeps its own copy of the mappings.       *)
(***************************************************************************)
EXTENDS VirtualDirectories, CompilerArguments, FiniteSets

CONSTANTS
  Mappings,     \* mappings a fixture may be given
  MaxMappings,  \* bound: how many of them
  OwnMapping,   \* the mapping CreateShaderCompiler adds last
  Sources,      \* sources of jobs: [kind, path]
  Includes,     \* paths of include directives
  Reflections   \* what DXC may find in a source: sequences of bound resources

ASSUME MappingsAssumption ==
  \A mapping \in Mappings \cup {OwnMapping} : mapping.VirtualPath \in Seq(ToSet(mapping.VirtualPath))

VARIABLES
  asked,              \* the mappings the constructor was given
  m_DirectoryManager,
  m_IncludeHandler,   \* its copy of the mappings, <<>> and no handler before Init
  m_Compiler,         \* has Init run?
  stage,              \* of the test: mapping, ready, compiled, made, ...
  shader              \* the compiled shader, or the error

compilerVars == <<asked, m_DirectoryManager, m_IncludeHandler, m_Compiler>>

-----------------------------------------------------------------------------
CompilerInit ==
  /\ asked = <<>>
  /\ m_DirectoryManager = <<>> /\ m_IncludeHandler = <<>> /\ m_Compiler = FALSE
  /\ stage = "mapping"
  /\ shader = [error |-> "none"]

\* The user lists a mapping for the fixture.
AskMapping ==
  /\ stage = "mapping" /\ Len(asked) < MaxMappings
  /\ \E mapping \in Mappings : asked' = Append(asked, mapping)
  /\ UNCHANGED <<m_DirectoryManager, m_IncludeHandler, m_Compiler, stage, shader>>

\* The mappings after the loop of the constructor over list: it stops at the first one
\* that is refused.
Added(list) ==
  FoldLeft(LAMBDA done, mapping :
             IF done.refused \/ AddMappingAnswer(done.mappings, mapping) # "Success"
             THEN [done EXCEPT !.refused = TRUE]
             ELSE [done EXCEPT !.mappings = AddMapping(@, mapping)],
           [mappings |-> <<>>, refused |-> FALSE], list)

\* The constructor, with the mapping of the fixture at the end. After a refusal Init
\* does not run and nothing is reported. (Variant: Init comes first.)
ConstructInitFirst ==
  /\ stage = "mapping"
  /\ m_DirectoryManager' = Added(Append(asked, OwnMapping)).mappings
  /\ m_IncludeHandler' = <<>> /\ m_Compiler' = TRUE
  /\ stage' = "ready"
  /\ UNCHANGED <<asked, shader>>

Construct ==
  /\ stage = "mapping"
  /\ LET added == Added(Append(asked, OwnMapping))
     IN  /\ m_DirectoryManager' = added.mappings
         /\ m_Compiler' = ~added.refused
         /\ m_IncludeHandler' = IF added.refused THEN <<>> ELSE added.mappings
  /\ stage' = "ready"
  /\ UNCHANGED <<asked, shader>>

\* ToString of a ShaderCodeSource.
CodeToString(source) ==
  CASE source.kind = "none" -> Failed("EmptyShaderCodeSource")
    [] source.kind = "text" -> Found(<<>>)
    [] source.kind = "path" -> SourceOfPath(m_DirectoryManager, source.path)

\* What DXC makes of a source it has, when it finds what the source includes: an error
\* or an object, with a reflection that is only kept when the job is no library.
Compiled(type, include) ==
  IF include # <<>> /\ LoadSource(m_IncludeHandler, include).error # "none"
  THEN {Failed("ReportShaderCompilationError")}
  ELSE {Failed("ReportShaderCompilationError")}
         \cup { [error |-> "none", reflected |-> type # "Lib", reflection |-> r] :
                  r \in Reflections }

\* CompileShader of a job with a source, and one include at most. Without Init the
\* compiler is a null pointer.
CompileShader(source, type, include) ==
  /\ stage = "ready"
  /\ IF CodeToString(source).error # "none"
     THEN stage' = "failed" /\ shader' = CodeToString(source)
     ELSE IF ~m_Compiler
     THEN stage' = "null dereferenced" /\ UNCHANGED shader
     ELSE \E result \in Compiled(type, include) :
            /\ shader' = result
            /\ stage' = IF result.error = "none" THEN "compiled" ELSE "failed"
  /\ UNCHANGED compilerVars
=============================================================================
