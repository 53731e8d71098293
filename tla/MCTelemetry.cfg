SPECIFICATION Spec
CONSTANTS
  k1 = k1
  k2 = k2
  id1 = id1
  id2 = id2
  Chats = {k1, k2}
  Readers = {reader}
  Ids = {id1, id2}
  NoId = NoId
  Latencies = {1, 4}
  Limits <- AnyLimit
  Providers = {"memory", "database", "none"}
  Faults = {"generate", "emit"}
  MaxEmits = 3
  MaxRestarts = 1
SYMMETRY TelemetrySymmetry
INVARIANTS
  TelemetryTypeOK
  AnsweredIsRecorded
  EveryFigureWasTrue
  OneMoment
  PageFollowsSummary
