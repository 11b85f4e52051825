CONSTANTS
    Requests = {r1, r2}
    Users = {u1, u2}
    Services = {c1}
    Inbound <- MCInbound
    SharedSecret = TRUE
    MaxDocs = 3
    NoOne = NoOne
    Subjects = {u1}
    Bootstrap = u1
    Tokens = {t1}
    NoKey = NoKey
    r1 = r1
    r2 = r2
    u1 = u1
    u2 = u2
    c1 = c1
    t1 = t1
SPECIFICATION AuthorizationSpec
SYMMETRY OfRequests
INVARIANT IdentityIsVerified
INVARIANT TokensAreTimely
 
PROPERTY OldRowsGo
