SPECIFICATION LocalSpec
CONSTANTS
  small = small
  c1 = c1
  c2 = c2
  o1 = o1
  o2 = o2
  Models <- OneModel
  Names <- OneModel
  NameOf <- NameOfModel
  Capabilities <- OneCapability
  CapsOf <- CapsOfModel
  MemOf <- MemOfModel
  MaxDeps = 2
  MaxPort = 2
  NoModel = NoModel
  TotalVram = 1
  WarmAfter = 1
  ColdAfter = 2
  IdleBound = 3
  Clients = {c1, c2}
  Prewarm = Prewarm
  Operators = {o1, o2}
  Nobody = Nobody
  NoName = NoName
  Queries <- WithOrWithoutName
  PrewarmCaps <- None
  DefaultOf <- NoDefaults
  InitialModels <- None
  InitialPending <- None
  WipeOnStart = TRUE
  Faults = {"run", "wipe", "onboard"}
  MaxRestarts = 1
  LocalFaults = {"save"}
  Accelerators <- AppleSilicon
  Placements <- OnePreference
  Lower <- LowerCase
SYMMETRY Symmetry
INVARIANTS
  ReadyIsLoaded
  
  OneUnloadWins
PROPERTIES
  RetiredStaysRetired
