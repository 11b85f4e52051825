CONSTANTS
    Requests = {r1, r2}
    Sessions = {s1}
    Tokens = {t1, t2, t3}
    Users = {u1}
    Clients = {}
    MfaUsers = {u1}
    r1 = r1
    r2 = r2
    s1 = s1
    t1 = t1
    t2 = t2
    t3 = t3
    u1 = u1
    NoToken = NoToken
    NoClient = NoClient
    NoSession = NoSession
    NoUser = NoUser
    MayAbort = FALSE
    MayExpire = FALSE
SPECIFICATION FairSpec
INVARIANT NoMintAfterRevocation
INVARIANT LiveSessionNotRefused
INVARIANT LogoutLeavesNoLiveToken
PROPERTY KeepsContract
PROPERTY ReplayKillsSession
ACTION_CONSTRAINT InOrder
