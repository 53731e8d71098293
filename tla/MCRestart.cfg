SPECIFICATION Spec
CONSTANTS
  big = big
  small = small
  tiny = tiny
  again = again
  common = "chat"
  rare = "math"
  c1 = c1
  c2 = c2
  c3 = c3
  o1 = o1
  Models <- TwoModels
  Names <- TwoModels
  NameOf <- NameOfModel
  Capabilities <- BothCapabilities
  CapsOf <- CapsOfModel
  MemOf <- MemOfModel
  MaxDeps = 5
  MaxPort = 3
  NoModel = NoModel
  TotalVram = 2
  WarmAfter = 1
  ColdAfter = 2
  IdleBound = 3
  Clients = {c1, c2}
  Prewarm = Prewarm
  Operators = {}
  Nobody = Nobody
  NoName = NoName
  Queries <- ByCapability
  PrewarmCaps <- CommonThenRare
  DefaultOf <- BigDefault
  InitialModels <- SmallOnly
  InitialPending <- None
  WipeOnStart = TRUE
  Faults = {"run", "onboard", "wipe"}
  MaxRestarts = 1
SYMMETRY ClientSymmetry
INVARIANTS
  LedgerJustified
  PermanentIsReserved
  PrewarmSettles
PROPERTIES
  PermanentStaysReady
  LeaseRefinement
