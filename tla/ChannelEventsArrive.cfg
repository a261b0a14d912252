CONSTANTS
    Connections = {c1}
    Gateways = {g1}
    Servers = {s1}
    Channels = {general}
    Wildcard = Wildcard
    MaxPerSecond = 1
    MaxBus = 3
    MaxTyping = 1
    MaxFaults = 1
    NoServer = NoServer
    NoChannel = NoChannel
    NoGateway = NoGateway
SPECIFICATION Spec
INVARIANT ChannelEventsArrive
CHECK_DEADLOCK FALSE
