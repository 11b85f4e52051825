CONSTANTS
    Requests = {r1, r2}
    Secrets = {x1, x2}
    Challenges = {c1}
    r1 = r1
    r2 = r2
    x1 = x1
    x2 = x2
    c1 = c1
    NoSecret = NoSecret
    NoChallenge = NoChallenge
    MaxChecks = 12
SPECIFICATION Spec
SYMMETRY Symmetry
INVARIANT ThreeBursts
INVARIANT ActiveSecretProved
INVARIANT NoTokensAfterRevocation
