SPECIFICATION Spec
CONSTANTS
  big = big
  small = small
  tiny = tiny
  again = again
  common = "coding"
  rare = "vision"
  c1 = c1
  c2 = c2
  c3 = c3
  o1 = o1
  Models <- Duplicates
  Names <- TwoModels
  NameOf <- NameOfModel
  Capabilities <- BothCapabilities
  CapsOf <- CapsOfModel
  MemOf <- MemOfModel
  MaxDeps = 3
  MaxPort = 2
  NoModel = NoModel
  TotalVram = 2
  WarmAfter = 1
  ColdAfter = 2
  IdleBound = 3
  Clients = {c1, c2}
  Prewarm = Prewarm
  Operators = {}
  Nobody = Nobody
  NoName = NoName
  Queries <- ByName
  PrewarmCaps <- None
  DefaultOf <- NoDefaults
  InitialModels <- SmallOnly
  InitialPending <- None
  WipeOnStart = FALSE
  Faults = {"onboard", "crash"}
  MaxRestarts = 0
PROPERTIES
  EndpointsKept
