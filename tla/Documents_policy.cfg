CONSTANTS
    Requests = {r1, r2}
    Users = {u1, u2}
    Services = {c1}
    Inbound <- MCInbound
    SharedSecret = TRUE
    MaxDocs = 3
    NoOne = NoOne
    r1 = r1
    r2 = r2
    u1 = u1
    u2 = u2
    c1 = c1
SPECIFICATION Spec
SYMMETRY Symmetry
INVARIANT OwnerOrAdminDeletes
