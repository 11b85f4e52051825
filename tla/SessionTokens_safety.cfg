CONSTANTS
    Requests = {r1, r2}
    Sessions = {s1}
    Tokens = {t1, t2, t3}
    Users = {u1}
    Clients = {c1}
    MfaUsers = {}
    r1 = r1
    r2 = r2
    s1 = s1
    t1 = t1
    t2 = t2
    t3 = t3
    u1 = u1
    c1 = c1
    NoToken = NoToken
    NoClient = NoClient
    NoSession = NoSession
    NoUser = NoUser
    MayAbort = TRUE
    MayExpire = TRUE
SPECIFICATION Spec
SYMMETRY Symmetry
INVARIANT OneLivePerFamily
INVARIANT SingleSuccessor
INVARIANT NoMintAfterRevocation
INVARIANT LiveSessionNotRefused
PROPERTY RevocationIsFinal
