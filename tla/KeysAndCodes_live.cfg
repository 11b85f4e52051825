CONSTANTS
    Servers = {s1, s2}
    Keys <- MCKeys
    Cooldown = 1
    CacheAge = 2
    MaxNow = 3
    s1 = s1
    s2 = s2
    Requests = {r1, r2}
    Codes = {a1}
    Apps = {c1, c2}
    Tokens = {t1, t2, t3}
    r1 = r1
    r2 = r2
    a1 = a1
    c1 = c1
    c2 = c2
    t1 = t1
    t2 = t2
    t3 = t3
    NoCode = NoCode
    NoClient = NoClient
    NoToken = NoToken
SPECIFICATION KeysAndCodesSpec
INVARIANT OldKeysVerify
INVARIANT NewestSigns
INVARIANT SingleExchange
INVARIANT TokensStayWithClient
PROPERTY GatewayForgetsNoKey
PROPERTY RetriedTokenAccepted
PROPERTY OnlyVerifierBurns
PROPERTY ReplayAnswered
