CONSTANTS
    Users = {alice, bob, carol}
    Servers = {s1}
    Channels = {c1, c2, c3}
    Invites = {i1}
    Names = {general, random, news}
    General = general
    Requests = {r1, r2}
    MaxUses = 1
    MaxChannels = 1
    NoUser = NoUser
    NoServer = NoServer
    NoChannel = NoChannel
    NoInvite = NoInvite
    NoName = NoName
SPECIFICATION Spec
SYMMETRY Symmetry
INVARIANT TypeOK
INVARIANT OveruseIsBounded
INVARIANT ChannelsAreBounded
INVARIANT NamesAreUnique
INVARIANT OwnerIsMember
INVARIANT EventsTellAll
PROPERTY DeletionIsFinal
CHECK_DEADLOCK FALSE
