SPECIFICATION Spec
CONSTANTS
    p1 = p1
    Driver = p1
    t1 = t1
    t2 = t2
    Procs = {p1}
    Tasks = {t1, t2}
    Interference = TRUE
    MaxCrashes = 1
    MaxApprovals = 2
    MaxEvidence = 2
SYMMETRY TaskSymmetry
CHECK_DEADLOCK FALSE
INVARIANTS EffectsAreExact OnlyReviewedWorkLeaves SucceededIsDelivered
