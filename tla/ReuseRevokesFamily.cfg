CONSTANTS
    Users = {alice}
    Tokens = {t1, t2, t3}
    Requests = {r1, r2}
    SerialUsers = {}
    NoUser = NoUser
    NoToken = NoToken
SPECIFICATION Spec
PROPERTY ReuseRevokesFamily
CHECK_DEADLOCK FALSE
