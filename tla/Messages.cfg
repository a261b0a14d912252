CONSTANTS
    p1 = p1
    r1 = r1
    r2 = r2
    Processes = {p1}
    NodeOf <- MCNodeOf
    Nodes = 2
    Sequence = 2
    MaxTime = 2
    Requests = {r1, r2}
    MaxPerWindow = 2
    WindowMs = 2
    PageSize = 1
    MaxIds = 5
    MaxFaults = 2
    NoId = NoId
    NoProcess = NoProcess
SPECIFICATION Spec
SYMMETRY Symmetry
INVARIANT IdsIncrease
INVARIANT SendRateIsBounded
INVARIANT WalkIsComplete
INVARIANT DeletionsAreAnnounced
CHECK_DEADLOCK FALSE
