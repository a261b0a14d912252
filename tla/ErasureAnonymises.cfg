CONSTANTS
    Users = {alice}
    Tokens = {t1}
    Requests = {r1}
    SerialUsers = {}
    NoUser = NoUser
    NoToken = NoToken
    Invites = {i1}
    Names = {ann}
    Anonymous = deleted_1
    LikeDeleted = {deleted_1}
    MaxUses = 1
    DeletionLimit = 1
    MaxFaults = 0
    NoInvite = NoInvite
    NoName = NoName
SPECIFICATION FairSpec
PROPERTY DeletedIsAnonymised
CHECK_DEADLOCK FALSE
