------------------------------- MODULE GPUDevice -------------------------------
(***************************************************************************)
(* GPUDevice: its constructor, which may throw at every step, the objects it *)
(* creates, and its destructor. The PIX capturer library must be loaded      *)
(* before the device is created and stay loaded while it is used.            *)
(***************************************************************************)
EXTENDS Naturals, Sequences, SequencesExt, FiniteSets, FiniteSetsExt

CONSTANTS
  Fixtures,  \* each owns one device
  Adapters   \* of the machine, by preference: sequence of [software, level]; level
             \* 0 when no device can be created on the adapter

VARIABLES
  device,    \* the GPUDevice of each fixture
  m_PixHandle, \* does the device hold a handle to the capturer library?
  children,  \* objects created on the device and not released
  capturer   \* external: loads of the capturer library less its frees

deviceVars == <<device, m_PixHandle, children, capturer>>

EDebugLevel == {"Off", "DebugLayer", "DebugLayerWithValidation"}
EDeviceType == {"Hardware", "Software"}
CreationParams == [DebugLevel : EDebugLevel, DeviceType : EDeviceType, EnableGPUCapture : BOOLEAN]

-----------------------------------------------------------------------------
\* A constructor is a chain of steps, each returning the devices that may result.
NoDevice == [is |-> "none"]
Thrown == [is |-> "thrown"]

Then(devices, step(_)) ==
  UNION { IF d.is = "building" THEN step(d) ELSE {d} : d \in devices }

\* ThrowIfFailed around a step of D3D12 or DXGI that gives d.
OrThrow(d) == {d, Thrown}

SetupDebugLayer(d) ==
  IF d.params.DebugLevel = "Off" THEN {d} ELSE OrThrow([d EXCEPT !.layer = d.params.DebugLevel])

\* The feature levels devices can be created at, highest first, end with 11_0: an
\* adapter is a candidate at its highest level, and none when it has no level.
GetCandidateAdapters(adapters) ==
  LET able(a) == a.level > 0 IN SelectSeq(adapters, able)

\* Software: the WARP adapter, or the failure of EnumWarpAdapter. Hardware: after the
\* sort, one of those with the highest feature level. Without a candidate the first
\* element of an empty vector is read: undefined behaviour.
GetAdapter(d) ==
  LET software == d.params.DeviceType = "Software"
      kind(a) == a.software = software
      candidates == ToSet(GetCandidateAdapters(SelectSeq(Adapters, kind)))
      best == { a \in candidates : \A b \in candidates : b.level <= a.level }
  IN  (IF software THEN {Thrown} ELSE {})
        \cup (IF candidates = {} THEN {[is |-> "undefined"]}
              ELSE { [d EXCEPT !.level = a.level] : a \in best })

SetupDebugInfoQueue(d) ==
  IF d.params.DebugLevel = "Off" THEN {d} ELSE OrThrow([d EXCEPT !.breaks = TRUE])

SetDebugDeviceSettings(d) ==
  IF d.params.DebugLevel # "DebugLayerWithValidation" THEN {d} ELSE OrThrow([d EXCEPT !.tracked = TRUE])

\* The descriptor sizes are among the fourteen answers cached.
CacheHardwareInfo(d) == OrThrow([d EXCEPT !.info = TRUE])

Constructed(params) ==
  LET start == [is |-> "building", params |-> params, layer |-> "Off", level |-> 0,
                breaks |-> FALSE, tracked |-> FALSE, info |-> FALSE]
      debug == Then({start}, SetupDebugLayer)
      factory == Then(debug, OrThrow)
      adapter == Then(factory, GetAdapter)
      raw == Then(adapter, OrThrow)
      settings == Then(Then(raw, SetupDebugInfoQueue), SetDebugDeviceSettings)
  IN  { IF d.is = "building" THEN [d EXCEPT !.is = "ready"] ELSE d :
          d \in Then(settings, CacheHardwareInfo) }

-----------------------------------------------------------------------------
DeviceInit ==
  /\ device = [f \in Fixtures |-> NoDevice]
  /\ m_PixHandle = [f \in Fixtures |-> FALSE]
  /\ children = [f \in Fixtures |-> {}]
  /\ capturer = 0

\* ConditionalLoadPIX: the library may not be installed.
ConditionalLoadPIX(params) == IF params.EnableGPUCapture THEN BOOLEAN ELSE {FALSE}

\* The constructor. The handle is not freed when a later step throws: the member is
\* a plain HMODULE.
CreateDevice(f, params) ==
  \E pix \in ConditionalLoadPIX(params), d \in Constructed(params) :
    /\ device' = [device EXCEPT ![f] = d]
    /\ m_PixHandle' = [m_PixHandle EXCEPT ![f] = pix /\ d.is = "ready"]
    /\ capturer' = capturer + (IF pix THEN 1 ELSE 0)
    /\ UNCHANGED children

IsValid(f) == device[f].is = "ready"

IsGPUCaptureEnabled(f) == m_PixHandle[f]

\* A list, queue, heap, resource, fence, pipeline or root signature of the device; a
\* heap takes the size of its descriptors from the cached information.
CreateObject(f, object) ==
  /\ IsValid(f) /\ device[f].info
  /\ children' = [children EXCEPT ![f] = @ \cup {object}]
  /\ UNCHANGED <<device, m_PixHandle, capturer>>

\* The destructor of the device: the debug report, then the capturer library is freed.
DestroyDevice(f) ==
  /\ device' = [device EXCEPT ![f] = NoDevice]
  /\ m_PixHandle' = [m_PixHandle EXCEPT ![f] = FALSE]
  /\ capturer' = capturer - (IF m_PixHandle[f] THEN 1 ELSE 0)
=============================================================================
