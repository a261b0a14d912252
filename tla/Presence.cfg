CONSTANTS
    Sessions = {s1, s2}
    Gateways = {g1, g2}
    Chosen = {"dnd"}
    MaxPending = 2
    MaxFaults = 1
    NoGateway = NoGateway
SPECIFICATION FairSpec
INVARIANT GoneIsOffline
PROPERTY ConnectedIsPresent
PROPERTY GoneExpires
CHECK_DEADLOCK FALSE
