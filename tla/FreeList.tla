------------------------------- MODULE FreeList -------------------------------
(***************************************************************************)
(* FreeList<T>: values kept under versioned handles; the manager keeps its    *)
(* readbacks in one. Release changes the version of a slot and pushes nothing *)
(* to m_FreeList: the pop in Manage always fails, every value takes a new     *)
(* slot, and the slots run out.                                              *)
(***************************************************************************)
EXTENDS Naturals, Sequences

CONSTANTS
  Stored,       \* values of the type T
  SlotLimit,    \* indices a handle can hold: 2^24
  VersionLimit  \* versions a handle can hold: 2^8

ASSUME FreeListAssumption == SlotLimit \in Nat /\ VersionLimit \in Nat \ {0, 1}

VARIABLES
  m_Resources,  \* [Resource, Version] of each slot
  given,        \* history: [handle, value, live] for each handle returned, in order
  reply        \* what the last call returned

freeListVars == <<m_Resources, given, reply>>

-----------------------------------------------------------------------------
\* VersionedIndex.
VersionedIndex(index, version) == [index |-> index, version |-> version % VersionLimit]
NextIndex(h) == VersionedIndex(h.index, h.version + 1)

FreeListInit == m_Resources = <<>> /\ given = <<>> /\ reply = "none"

\* InternalValidateHandle.
IsValidHandle(h) ==
  h.index < Len(m_Resources) /\ m_Resources[h.index + 1].Version = h.version

\* Manage. The index of a slot too many does not fit in its handle: the call throws
\* before it keeps the value.
Manage(v) ==
  IF Len(m_Resources) >= SlotLimit
  THEN reply' = "throws" /\ UNCHANGED <<m_Resources, given>>
  ELSE LET h == VersionedIndex(Len(m_Resources), 0)
       IN  /\ m_Resources' = Append(m_Resources, [Resource |-> v, Version |-> h.version])
           /\ given' = Append(given, [handle |-> h, value |-> v, live |-> TRUE])
           /\ reply' = "Success"

\* The version of a slot after its release. (Variant: as it was.)
ReleasedVersionSame(h) == h.version

ReleasedVersion(h) == NextIndex(h).version

\* Release, of the k-th handle returned. Whoever releases it has it no longer.
ReleaseSlot(k) ==
  LET h == given[k].handle
  IN  IF IsValidHandle(h)
      THEN /\ m_Resources' = [m_Resources EXCEPT ![h.index + 1].Version = ReleasedVersion(h)]
           /\ given' = [given EXCEPT ![k].live = FALSE]
           /\ reply' = "Success"
      ELSE reply' = "StaleHandle" /\ UNCHANGED <<m_Resources, given>>

\* Get and ValidateHandle of such a handle, and of one that is out of range.
GetSlot(k) ==
  LET h == given[k].handle
  IN  /\ reply' = IF IsValidHandle(h) THEN m_Resources[h.index + 1].Resource ELSE "StaleHandle"
      /\ UNCHANGED <<m_Resources, given>>

GetOutOfRange ==
  /\ ~IsValidHandle(VersionedIndex(Len(m_Resources), 0))
  /\ reply' = "HandleOutOfRange"
  /\ UNCHANGED <<m_Resources, given>>

FreeListNext ==
  \/ \E v \in Stored : Manage(v)
  \/ \E k \in DOMAIN given : ReleaseSlot(k) \/ GetSlot(k)
  \/ GetOutOfRange

FreeListSpec == FreeListInit /\ [][FreeListNext]_freeListVars

-----------------------------------------------------------------------------
\* A handle names the value it was returned for until that is released, and nothing
\* ever after: no other call takes the value away, and no later value appears under an
\* old handle. FreeList.h:93, :127.
HandlesNameTheirValue ==
  \A k \in DOMAIN given :
    LET h == given[k].handle
    IN  /\ IsValidHandle(h) <=> given[k].live
        /\ given[k].live => m_Resources[h.index + 1].Resource = given[k].value
=============================================================================
