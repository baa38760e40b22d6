SPECIFICATION BreakerSpec
CONSTANTS
    c1 = c1
    c2 = c2
    c3 = c3
    n1 = n1
    n2 = n2
    Nodes = {n1, n2}
    Clients = {c1, c2, c3}
    Home <- TwoAndOne
    FailureThreshold = 1
    SuccessThreshold = 1
    OpenTicks = 1
    MaxProbes = 1
    MaxInFlight = 2
INVARIANTS EveryCallIsCounted InFlightBounded
PROPERTY DisabledIsRespected
SYMMETRY Twins
