SPECIFICATION JourneySpec
CONSTANTS
  h1 = h1
  h2 = h2
  c1 = c1
  c2 = c2
  Handlers <- MCHandlers
  Contents <- MCContents
  MaxRevisions = 2
  MaxCrashes = 1
SYMMETRY Symmetry
INVARIANTS  StoredBindings
PROPERTY PublishedStays
CHECK_DEADLOCK FALSE
