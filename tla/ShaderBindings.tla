---------------------------- MODULE ShaderBindings ----------------------------
(***************************************************************************)
(* Shader and ShaderBindingMap: the root signature made from a reflection,    *)
(* the buffers bindings are staged in, and the root arguments of a dispatch.  *)
(* Sizes and offsets count words of four bytes.                              *)
(***************************************************************************)
EXTENDS ShaderCompiler, Functions

CONSTANTS
  Types,    \* the types of variables and of their members
  Limit,    \* words a root signature may take, and root constants: 64 in the code
  Bindings  \* the ShaderBindings users give: [name, data]

\* What DXC reports: the globals lie in their buffer, side by side. HLSL packs them so.
ASSUME ReflectionsAssumption ==
  /\ Limit \in Nat
  /\ \A reflection \in Reflections :
       /\ reflection \in Seq(ToSet(reflection))
       /\ \A resource \in ToSet(reflection) :
            /\ resource.size \in Nat
            /\ \A k \in DOMAIN resource.variables : resource.variables[k].type \in Types
            /\ resource.name = "$Globals" =>
                 \A k, l \in DOMAIN resource.variables :
                   LET var == resource.variables[k]
                       other == resource.variables[l]
                   IN  /\ var.start \in Nat /\ var.size \in Nat /\ var.start + var.size <= resource.size
                       /\ k # l => /\ var.name # other.name
                                   /\ \/ var.start + var.size <= other.start
                                      \/ other.start + other.size <= var.start
  /\ \A binding \in Bindings : binding.data \in Seq(ToSet(binding.data))

VARIABLES
  m_NameToBindingInfo,  \* name -> [RootParamIndex, OffsetIntoBuffer, BindingSize]
  m_RootParamBuffers,   \* per root parameter: [Type, Buffer]
  root,                 \* the arguments the list holds for each root parameter
  staged                \* history: what was staged for each name

bindingVars == <<m_NameToBindingInfo, m_RootParamBuffers, root, staged>>
shaderVars == <<compilerVars, stage, shader, bindingVars>>

Zeros(n) == [i \in 1..n |-> 0]

\* memcpy of data to an offset of a buffer.
Copied(buffer, offset, data) ==
  [i \in DOMAIN buffer |-> IF i > offset /\ i <= offset + Len(data) THEN data[i - offset] ELSE buffer[i]]

-----------------------------------------------------------------------------
\* A type of the reflection: [elements, members]; members of a structure.
IsArray(type) == type.elements > 0

IsOrContainsArray(type) ==
  LET contains[t \in Types] == IsArray(t) \/ \E k \in DOMAIN t.members : contains[t.members[k]]
  IN  contains[type]

\* A constant buffer of the reflection: [kind, name, size, variables], each variable
\* [name, start, size, type].
ConstantBufferCanBeBoundToRootConstants(buffer) ==
  /\ buffer.size <= Limit
  /\ \A k \in DOMAIN buffer.variables : ~IsOrContainsArray(buffer.variables[k].type)

ConstantBufferCanBeBoundToRootDescriptor(buffer) ==
  \/ buffer.name = "$Globals"
  \/ \A k \in DOMAIN buffer.variables : ~IsArray(buffer.variables[k].type)

\* The running total, which counts buffers that then do not fit.
Total(done, buffer) ==
  IF ConstantBufferCanBeBoundToRootConstants(buffer) THEN done.total + buffer.size ELSE done.total

BindType(done, buffer) ==
  IF ConstantBufferCanBeBoundToRootConstants(buffer) /\ Total(done, buffer) <= Limit THEN "RootConstants"
  ELSE IF ConstantBufferCanBeBoundToRootDescriptor(buffer) THEN "RootDescriptor"
  ELSE "DescriptorTable"

\* The names of a buffer: its variables when it holds the globals, else its own.
Names(buffer, index) ==
  IF buffer.name = "$Globals"
  THEN [name \in { buffer.variables[k].name : k \in DOMAIN buffer.variables } |->
          LET var == buffer.variables[CHOOSE k \in DOMAIN buffer.variables : buffer.variables[k].name = name]
          IN  [RootParamIndex |-> index, OffsetIntoBuffer |-> var.start, BindingSize |-> var.size]]
  ELSE [name \in {buffer.name} |->
          [RootParamIndex |-> index, OffsetIntoBuffer |-> 0, BindingSize |-> buffer.size]]

\* emplace: a name that is there already stays.
Emplaced(names, new) ==
  [name \in DOMAIN names \cup DOMAIN new |-> IF name \in DOMAIN names THEN names[name] ELSE new[name]]

\* One turn of the loop of ShaderBindingMap::Make.
WithResource(done, resource) ==
  IF done.error # "none" THEN done
  ELSE IF resource.kind # "CBUFFER" THEN [done EXCEPT !.error = "OnlyConstantBuffersSupportedForBinding"]
  ELSE IF BindType(done, resource) = "DescriptorTable"
  THEN [done EXCEPT !.error = "ConstantBufferMustBeBoundToDecriptorTable"]
  ELSE [done EXCEPT !.total = Total(done, resource),
          !.names = Emplaced(@, Names(resource, Len(done.buffers) + 1)),
          !.buffers = Append(@, [Type |-> BindType(done, resource), Buffer |-> Zeros(resource.size)])]

MakeBindingMap(reflection) ==
  FoldLeft(WithResource, [error |-> "none", total |-> 0, names |-> <<>>, buffers |-> <<>>], reflection)

\* What the root signature takes of its limit: a descriptor two words.
Cost(buffers) ==
  FoldLeft(LAMBDA sum, b : sum + (IF b.Type = "RootConstants" THEN Len(b.Buffer) ELSE 2), 0, buffers)

-----------------------------------------------------------------------------
BindingsInit ==
  m_NameToBindingInfo = <<>> /\ m_RootParamBuffers = <<>> /\ root = <<>> /\ staged = <<>>

ShaderInit == CompilerInit /\ BindingsInit

\* Shader::Make of the compiled shader. D3D12 refuses a root signature over the limit:
\* CreateRootSignature throws.
Make ==
  /\ stage = "compiled"
  /\ LET made == MakeBindingMap(shader.reflection)
     IN  IF ~shader.reflected
         THEN stage' = "failed" /\ shader' = Failed("NoShaderReflectionDataAvailable") /\ UNCHANGED bindingVars
         ELSE IF made.error # "none"
         THEN stage' = "failed" /\ shader' = Failed(made.error) /\ UNCHANGED bindingVars
         ELSE IF Cost(made.buffers) > Limit
         THEN stage' = "thrown" /\ UNCHANGED <<shader, bindingVars>>
         ELSE /\ stage' = "made"
              /\ m_NameToBindingInfo' = made.names
              /\ m_RootParamBuffers' = made.buffers
              /\ root' = [p \in DOMAIN made.buffers |-> <<>>]
              /\ staged' = [name \in DOMAIN made.names |-> Zeros(made.names[name].BindingSize)]
              /\ UNCHANGED shader
  /\ UNCHANGED compilerVars

\* StageBindingData of one of the bindings of the test: data for less than the binding
\* is accepted and leaves the rest. (Variant: it starts the buffer.)
StageAtStart(binding) ==
  LET info == m_NameToBindingInfo[binding.name]
  IN  /\ m_RootParamBuffers' =
           [m_RootParamBuffers EXCEPT ![info.RootParamIndex].Buffer = Copied(@, 0, binding.data)]
      /\ staged' = [staged EXCEPT ![binding.name] = Copied(@, 0, binding.data)]

Stage(binding) ==
  LET info == m_NameToBindingInfo[binding.name]
  IN  /\ m_RootParamBuffers' =
           [m_RootParamBuffers EXCEPT
              ![info.RootParamIndex].Buffer = Copied(@, info.OffsetIntoBuffer, binding.data)]
      /\ staged' = [staged EXCEPT ![binding.name] = Copied(@, 0, binding.data)]

StageBindingData(binding) ==
  /\ stage = "made"
  /\ IF binding.name \notin DOMAIN m_NameToBindingInfo
     THEN /\ stage' = "failed" /\ shader' = Failed("BindingDoesNotExist")
          /\ UNCHANGED bindingVars
     ELSE IF m_NameToBindingInfo[binding.name].BindingSize < Len(binding.data)
     THEN /\ stage' = "failed" /\ shader' = Failed("BindingIsSmallerThanBindingData")
          /\ UNCHANGED bindingVars
     ELSE Stage(binding) /\ UNCHANGED <<stage, shader, m_NameToBindingInfo, root>>
  /\ UNCHANGED compilerVars

\* SetShaderStateAndDispatch: the buffers in no particular order, as constants, or
\* copied to a constant buffer the parameter then points to.
SetShaderStateAndDispatch ==
  /\ stage = "made"
  /\ root' = [p \in DOMAIN m_RootParamBuffers |-> m_RootParamBuffers[p].Buffer]
  /\ stage' = "dispatched"
  /\ UNCHANGED <<compilerVars, shader, m_NameToBindingInfo, m_RootParamBuffers, staged>>

\* Everything of the test is over.
Over ==
  /\ stage \in {"failed", "thrown", "null dereferenced", "dispatched"}
  /\ UNCHANGED shaderVars

BindingsNext ==
  \/ (AskMapping \/ Construct) /\ UNCHANGED bindingVars
  \/ \E source \in Sources, type \in {"Compute", "Lib"}, include \in Includes :
       CompileShader(source, type, include) /\ UNCHANGED bindingVars
  \/ Make \/ SetShaderStateAndDispatch \/ Over
  \/ \E binding \in Bindings : StageBindingData(binding)

BindingsSpec == ShaderInit /\ [][BindingsNext]_shaderVars

-----------------------------------------------------------------------------
TypeOK ==
  /\ asked \in Seq(Mappings) /\ Len(asked) <= MaxMappings
  /\ m_Compiler \in BOOLEAN
  /\ stage \in {"mapping", "ready", "compiled", "made", "dispatched", "failed", "thrown", "null dereferenced"}
  /\ DOMAIN root = DOMAIN m_RootParamBuffers

\* The mappings that match a path.
Matching(path) == { k \in DOMAIN m_DirectoryManager : StartsWithMapping(path, m_DirectoryManager[k]) }

\* Where mappings nest, the innermost one maps, although the code takes the first it
\* finds: AddMapping refuses what lies below a mapping it has. Only the same path twice
\* is decided by order. VirtualShaderDirectoryMappingManager.cpp:24 and :53.
InnermostMappingWins ==
  \A path \in { m.VirtualPath \o <<"/", "x">> : m \in Mappings } :
    \A k \in Matching(path) :
      Len(m_DirectoryManager[k].VirtualPath)
        <= Len(m_DirectoryManager[FindMapping(m_DirectoryManager, path)].VirtualPath)

\* A source and an include of the same virtual path are the same file, once the
\* compiler works; it works unless a mapping of the list was refused. The exceptions are
\* paths with a backslash, or with two slashes in front, which includes never ask for:
\* IncludeHandler.cpp:29 and :19.
IncludesAgree ==
  /\ m_Compiler =>
       \A path \in { m.VirtualPath \o <<"/", "x">> : m \in Mappings } :
         "\\" \notin ToSet(path) /\ path[2] # "/" /\ Map(m_DirectoryManager, path).error = "none"
           => Map(m_DirectoryManager, path).path = IncludePath(m_IncludeHandler, <<".">> \o path)
  /\ stage = "null dereferenced" => Added(Append(asked, OwnMapping)).refused

\* Where the shader looks for a name: the resource that declares it, at its offset.
DeclaredIn(p, name) ==
  LET resource == shader.reflection[p]
  IN  IF resource.name = "$Globals"
      THEN { <<p, var.start>> : var \in { v \in ToSet(resource.variables) : v.name = name } }
      ELSE IF resource.name = name THEN { <<p, 0>> } ELSE {}

Declared(name) == UNION { DeclaredIn(p, name) : p \in DOMAIN shader.reflection }

\* Constants alone never exceed the root signature: making a shader only throws when
\* some buffer became a root descriptor, though the total that decides it also counts
\* what ends up in one, ShaderBindingMap.cpp:76. And a shader that is dispatched reads
\* for every name what was staged for that name, and zeros where nothing was, whatever
\* was staged for its neighbours. Of a name declared twice only the first is bound.
ShaderSeesBindings ==
  /\ stage = "thrown" =>
       LET buffers == MakeBindingMap(shader.reflection).buffers
       IN  \E p \in DOMAIN buffers : buffers[p].Type = "RootDescriptor"
  /\ stage = "dispatched" =>
       \A name \in DOMAIN staged : \A place \in Declared(name) :
         (\A other \in Declared(name) : place[1] <= other[1])
           => SubSeq(root[place[1]], place[2] + 1, place[2] + Len(staged[name])) = staged[name]
=============================================================================
