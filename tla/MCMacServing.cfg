SPECIFICATION FairSpec
CHECK_DEADLOCK FALSE
CONSTANTS
  r1 = r1
  r2 = r2
  r3 = r3
  Requests = {r1, r2, r3}
  PoolSize = 2
  MaxStarts = 3
  MaxKills = 1
  Managements = {TRUE, FALSE}
  Faults = {"exit", "slow", "taken"}
INVARIANTS
  TypeOK
  EnginesAreOwned
  ReachesOwnEngine
  GaugeIsExact
  PoolIsExact
PROPERTIES
  StartSettles
  StopEnds
  RequestsEnd
