SPECIFICATION Spec
CONSTANTS
  big = big
  small = small
  tiny = tiny
  again = again
  common = "coding"
  rare = "vision"
  c1 = c1
  c2 = c2
  c3 = c3
  o1 = o1
  Models <- ThreeModels
  Names <- ThreeModels
  NameOf <- NameOfModel
  Capabilities <- BothCapabilities
  CapsOf <- CapsOfModel
  MemOf <- MemOfModel
  MaxDeps = 3
  MaxPort = 3
  NoModel = NoModel
  TotalVram = 2
  WarmAfter = 1
  ColdAfter = 2
  IdleBound = 3
  Clients = {c1, c2, c3}
  Prewarm = Prewarm
  Operators = {}
  Nobody = Nobody
  NoName = NoName
  Queries <- ByCapability
  PrewarmCaps <- None
  DefaultOf <- NoDefaults
  InitialModels <- TinySmallBig
  InitialPending <- TinySmallBig
  WipeOnStart = FALSE
  Faults = {"run", "crash", "remove"}
  MaxRestarts = 0
SYMMETRY ClientSymmetry
INVARIANTS
  TypeOK
  ActiveCounts
  BusyIsHot
  ServingReady
  ServedCapably
  BootIsExclusive
  BootNotReady
  PortsAreUnique
PROPERTIES
  FailedIsForever
  EvictionMakesRoom
