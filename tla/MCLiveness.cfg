SPECIFICATION FairSpec
CONSTANTS
  big = big
  small = small
  tiny = tiny
  again = again
  common = "coding"
  rare = "vision"
  c1 = c1
  c2 = c2
  c3 = c3
  o1 = o1
  Models <- TwoModels
  Names <- TwoModels
  NameOf <- NameOfModel
  Capabilities <- BothCapabilities
  CapsOf <- CapsOfModel
  MemOf <- MemOfModel
  MaxDeps = 2
  MaxPort = 3
  NoModel = NoModel
  TotalVram = 2
  WarmAfter = 1
  ColdAfter = 2
  IdleBound = 3
  Clients = {c1, c2}
  Prewarm = Prewarm
  Operators = {}
  Nobody = Nobody
  NoName = NoName
  Queries <- Mixed
  PrewarmCaps <- None
  DefaultOf <- NoDefaults
  InitialModels <- SmallThenBig
  InitialPending <- SmallThenBig
  WipeOnStart = FALSE
  Faults = {"run", "crash"}
  MaxRestarts = 0
PROPERTIES
  RequestsAreAnswered
  ScaleToZero
