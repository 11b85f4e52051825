CONSTANTS
    Requests = {r1, r2, r3}
    Jtis = {j1}
    NoJti = NoJti
    r1 = r1
    r2 = r2
    r3 = r3
    j1 = j1
    Ttl = 3
    Tolerance = 5
    Q = 2
    MaxTime = 20
    Limit = 2
    Window = 2
    MaxLife = 3
    MaxCount = 5
SPECIFICATION RedisSpec
SYMMETRY Symmetry
INVARIANT EntriesPurge
INVARIANT LimitHolds
INVARIANT CounterExpires
PROPERTY RevokedUntilExpiry
