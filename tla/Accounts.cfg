CONSTANTS
    Users = {alice, bob}
    Tokens = {t1, t2}
    Requests = {r1, r2}
    SerialUsers = {}
    NoUser = NoUser
    NoToken = NoToken
    Invites = {i1}
    Names = {ann}
    Anonymous = deleted_1
    LikeDeleted = {deleted_1}
    MaxUses = 1
    DeletionLimit = 2
    MaxFaults = 1
    NoInvite = NoInvite
    NoName = NoName
SPECIFICATION FairSpec
INVARIANT InviteUseIsBounded
INVARIANT UsernamesAreUnique
PROPERTY CallsReturn
PROPERTY DeletedIsSignedOut
CHECK_DEADLOCK FALSE
