SPECIFICATION Spec
CONSTANTS
  Callers = {c1, c2}
  Execs = {x1, x2}
  Orchestrations = {o1, o2}
  Paths = {"app", "test"}
  OwnerOf <- MCOwnerOf
  Providers <- MCProviders
  QAFailing = {"bad"}
  Insecure = {"edited", "unsafe"}
  Authorities <- MCAuthorities
  Original = "original"
  Edited = "edited"
  None = None
  MaxRuns = 5
  MaxFaults = 1
SYMMETRY Symmetry
INVARIANTS
  EffectsAreOwn
  DeliveredIsBound
  UndisturbedIsReviewed
CHECK_DEADLOCK FALSE
