SPECIFICATION RenewingSpec
CONSTANTS
  o1 = o1
  o2 = o2
  k1 = k1
  k2 = k2
  r1 = r1
  a1 = a1
  w1 = w1
  w2 = w2
  Keys = {k1, k2}
  Providers = {r1}
  Aggregates = {a1}
  Ops = {o1, o2}
  KeyOf <- KeyIn
  ProviderOf <- ProviderIn
  Priority <- PriorityIn
  AggregateOf <- AggregateIn
  VersionOf <- VersionIn
  MaxAttempts = 2
  TTL = 1
  MaxDelay = 1
  MaxFence = 4
  Procs = {w1, w2}
  Mortal = {w1, w2}
  Eventing = TRUE
INVARIANTS
  ClaimsAreFaithful
  SucceededWasExecuted
  ClaimedIffHeld
PROPERTIES
  ImplementsLifecycle
  ResultsAreApplied
  LostAuthorityStaysLost
  HistoryIsKept
  UncertainWorkIsReconciled
SYMMETRY Alike
CONSTRAINT Bounded
