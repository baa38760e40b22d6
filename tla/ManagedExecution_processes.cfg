SPECIFICATION SpecOfOneDriver
CONSTANTS
    p1 = p1
    p2 = p2
    Driver = p1
    t1 = t1
    Procs = {p1, p2}
    Tasks = {t1}
    Interference = FALSE
    MaxCrashes = 0
    MaxApprovals = 1
    MaxEvidence = 1
CHECK_DEADLOCK FALSE
PROPERTY EndedPlansAreLeftAlone
