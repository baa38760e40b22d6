SPECIFICATION SpecFromEither
CONSTANTS
  Ops = {live, offline}
  LiveOps = {live}
  Callers = {c1, c2}
  Paths = {p, q}
  Statuses = {"SUCCEEDED", "TIMED_OUT"}
  Committed = Committed
  Edited = Edited
  None = None
  MaxCalls = 9
  OverlapCost = 4
  MaxFaults = 1
SYMMETRY Symmetry
INVARIANTS
  ChargedAndReceipted
  AcceptedPatchIsWhole
PROPERTY
  NothingIsOverwritten
CHECK_DEADLOCK FALSE
