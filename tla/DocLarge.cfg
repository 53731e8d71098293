SPECIFICATION Spec
CONSTANTS
  small = small
  split = split
  draft = draft
  r1 = r1
  r2 = r2
  Repos <- AllRepos
  ShardsOf <- Shards
  IndexedOf <- Indexed
  HintOf <- Hint
  ParamsOf <- Params
  HeadOf <- HeadOfModel
  ArchitectureOf <- Architecture
  Memories = {4}
  Clients = {r1, r2}
  Nothing = Nothing
  Databases = {"sqlite", "memory"}
  Faults = {"save", "download"}
  MaxRecords = 2
  MaxCrashes = 2
INVARIANTS
  LargeIsSkipped
CHECK_DEADLOCK FALSE
