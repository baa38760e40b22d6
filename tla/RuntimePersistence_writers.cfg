SPECIFICATION Spec
CONSTANTS
  w1 = w1
  w2 = w2
  Writers <- MCWriters
  created = created
  changed = changed
  Types = {created, changed}
  TTL = 1
  MaxTime = 1
  MaxFence = 2
  MaxEvents = 2
  MaxVersion = 2
SYMMETRY MCSymmetry
INVARIANTS
  CommitsFollowFences
  EveryCheckpointLoads
PROPERTIES
  StreamIsAppendOnly
  OnlyExpiredLeasesAreBroken
