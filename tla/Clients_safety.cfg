CONSTANTS
    Requests = {r1, r2}
    Secrets = {k1, k2, k3}
    NoSecret = NoSecret
    Scopes = {openid, api_read}
    ApiScopes = {api_read}
    r1 = r1
    r2 = r2
    k1 = k1
    k2 = k2
    k3 = k3
    openid = openid
    api_read = api_read
SPECIFICATION Spec
SYMMETRY Symmetry
INVARIANT TimelyAuthentication
INVARIANT ServiceTokensAreApi
INVARIANT OldSecretsDie
