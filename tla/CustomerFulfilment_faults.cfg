SPECIFICATION Spec
CONSTANTS
  NTasks = 2
  MaxCrashes = 2
  MaxEdits = 2
INVARIANTS EffectsOnRecord OnlyReviewedIsAccepted
PROPERTIES RequestsReturn DoubtIsFinal
CHECK_DEADLOCK FALSE
