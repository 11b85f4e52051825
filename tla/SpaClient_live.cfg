CONSTANTS
    Requests = {me, gateway}
    Pair = {me, gateway}
    Sessions = {s1, s2}
    Tokens = {t1, t2, t3}
    NoToken = NoToken
    NoSession = NoSession
    MayAbort = TRUE
    me = me
    gateway = gateway
    s1 = s1
    s2 = s2
    t1 = t1
    t2 = t2
    t3 = t3
SPECIFICATION FairSpec
INVARIANT StaysSignedIn
INVARIANT SignedOutStaysOut
PROPERTY CallsSettle
