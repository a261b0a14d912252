CONSTANTS
    Users = {alice, bob}
    Tokens = {t1, t2, t3}
    Requests = {r1, r2}
    SerialUsers = {bob}
    NoUser = NoUser
    NoToken = NoToken
SPECIFICATION Spec
SYMMETRY Symmetry
INVARIANT TypeOK
INVARIANT SupersededIsRevoked
INVARIANT OneUserPerFamily
INVARIANT OneTokenPerSerialSession
PROPERTY CommitRevokesMatched
PROPERTY RevocationIsFinal
CHECK_DEADLOCK FALSE
