CONSTANTS
    Connections = {c1}
    Gateways = {g1}
    Servers = {s1, s2}
    Channels = {general}
    Wildcard = Wildcard
    MaxPerSecond = 1
    MaxBus = 2
    MaxTyping = 1
    MaxFaults = 1
    NoServer = NoServer
    NoChannel = NoChannel
    NoGateway = NoGateway
SPECIFICATION FairSpec
INVARIANT ServerEventsArrive
INVARIANT OnlyMembersHear
PROPERTY PublishedIsReceived
CHECK_DEADLOCK FALSE
