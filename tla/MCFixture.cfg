SPECIFICATION BuildSpec
CONSTANTS
  Fixtures = {A, B, C}
  A = A
  B = B
  C = C
  Adapters <- Machine
  Params <- SomeParams
  MaxIds = 5
  MaxGens = 2
  MaxTests = 2
  MaxFixtures = 3
  Drives = {"C:", "D:"}
  OneChar <- Characters
  Files <- SomeFiles
  Mappings <- SomeMappings
  MaxMappings = 3
  OwnMapping <- Own
  Sources <- SomeSources
  Includes <- SomeIncludes
  Reflections <- SomeReflections
  Types <- SomeTypes
  Limit = 6
  Bindings <- SomeBindings
SYMMETRY AnyOrder
INVARIANTS
  ObjectsInsideDevice
  AttemptsAlike
  CaptureShowsResult
  HandlesFindTheirStat
  InnermostMappingWins
  IncludesAgree
  ShaderSeesBindings
PROPERTIES
  StatsOfLastFixture
