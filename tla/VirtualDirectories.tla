-------------------------- MODULE VirtualDirectories --------------------------
(***************************************************************************)
(* VirtualShaderDirectoryMappingManager and IncludeHandler: virtual paths    *)
(* mapped to real ones. A path is a sequence of tokens: separators, dots and *)
(* names. A name that begins another is a token of its own: the code         *)
(* compares characters, then asks for a separator, which comes to the same.  *)
(***************************************************************************)
EXTENDS Naturals, Sequences, SequencesExt

CONSTANTS
  Drives,   \* tokens a real path begins with when it is absolute
  OneChar,  \* tokens of one character
  Files     \* the real paths of the files that exist

Separators == {"/", "\\"}

-----------------------------------------------------------------------------
\* path::begin() of "//name" is a network name, not "/".
NetworkName(path) ==
  Len(path) > 2 /\ path[2] \in Separators /\ path[3] \notin Separators

ValidateVirtualPath(path) ==
  IF path = <<>> THEN "VirtualPathEmpty"
  ELSE IF path[1] # "/" \/ NetworkName(path) THEN "VirtualPathShouldStartWithASlash"
  ELSE "Success"

\* One mapping of FindMapping: the path goes on after it, with a separator.
StartsWithMapping(path, mapping) ==
  /\ Len(path) > Len(mapping.VirtualPath)
  /\ IsPrefix(mapping.VirtualPath, path)
  /\ path[Len(mapping.VirtualPath) + 1] \in Separators

\* FindMapping: the first one, 0 when there is none. (Variant: the last one.)
FindMappingLast(mappings, path) ==
  LET found == { k \in DOMAIN mappings : StartsWithMapping(path, mappings[k]) }
  IN  IF found = {} THEN 0 ELSE CHOOSE k \in found : \A j \in found : j <= k

FindMapping(mappings, path) ==
  LET found == { k \in DOMAIN mappings : StartsWithMapping(path, mappings[k]) }
  IN  IF found = {} THEN 0 ELSE CHOOSE k \in found : \A j \in found : k <= j

IsRelative(real) == ~(Len(real) > 1 /\ real[1] \in Drives /\ real[2] \in Separators)

\* The answer of AddMapping, and the mappings after it.
AddMappingAnswer(mappings, mapping) ==
  LET valid == ValidateVirtualPath(mapping.VirtualPath)
  IN  IF valid # "Success" THEN valid
      ELSE IF IsRelative(mapping.RealPath) THEN "RealPathMustBeAbsolute"
      ELSE IF FindMapping(mappings, mapping.VirtualPath) # 0 THEN "VirtualPathAlreadyExists"
      ELSE "Success"

AddMapping(mappings, mapping) ==
  IF AddMappingAnswer(mappings, mapping) = "Success" THEN Append(mappings, mapping) ELSE mappings

-----------------------------------------------------------------------------
\* A result is a path or an error.
Found(path) == [path |-> path, error |-> "none"]
Failed(error) == [path |-> <<>>, error |-> error]

\* A slash at the end of the real path is dropped, the rest of the virtual path begins
\* with one.
RealRoot(real) == IF Last(real) = "/" THEN Front(real) ELSE real

Map(mappings, path) ==
  LET valid == ValidateVirtualPath(path)
      k == FindMapping(mappings, path)
  IN  IF valid # "Success" THEN Failed(valid)
      ELSE IF k = 0 THEN Failed("NoMappingFound")
      ELSE Found(RealRoot(mappings[k].RealPath)
                   \o SubSeq(path, Len(mappings[k].VirtualPath) + 1, Len(path)))

\* IncludeHandler. DXC asks for "./x" when a source without a path includes "x". The
\* second character goes too when it is the slash of "/" after the dot.
SanitizePath(path) ==
  LET undotted == IF path[1] = "." THEN Tail(path) ELSE path
      rest == IF Len(undotted) > 1 /\ undotted[1] \in OneChar /\ undotted[2] = "/"
              THEN Tail(undotted) ELSE undotted
  IN  [k \in DOMAIN rest |-> IF rest[k] = "\\" THEN "/" ELSE rest[k]]

\* A path that maps to nothing is tried as it is.
IncludePath(mappings, path) ==
  LET clean == SanitizePath(path)
      mapped == Map(mappings, clean)
  IN  IF mapped.error = "none" THEN mapped.path ELSE clean

LoadSource(mappings, path) ==
  IF IncludePath(mappings, path) \in Files THEN Found(IncludePath(mappings, path)) ELSE Failed("E_FAIL")

\* ShaderCodeSource::ToString of a path: one that is not virtual is tried as it is.
SourceOfPath(mappings, path) ==
  LET mapped == Map(mappings, path)
      real == IF mapped.error = "none" THEN mapped.path ELSE path
  IN  IF mapped.error = "VirtualPathEmpty" THEN Failed("EmptyVirtualPath")
      ELSE IF mapped.error \notin {"none", "VirtualPathShouldStartWithASlash"}
      THEN Failed("UnknownVirtualShaderMappingError")
      ELSE IF real \notin Files THEN Failed("ResolvedPathIsInvalid")
      ELSE Found(real)
=============================================================================
