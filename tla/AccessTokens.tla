---------------------------- MODULE AccessTokens ----------------------------
(***************************************************************************)
(* Access tokens against the clock: JwtService.signAccessToken and         *)
(* verifyAccessToken, RemoteTokenVerifier.verify at the gateway (the same  *)
(* checks), and the Redis denylist of TokenRevocationService that          *)
(* OAuthService.revoke fills.                                              *)
(*                                                                         *)
(* Claims are in whole seconds while Date.now() and Redis run on finer     *)
(* clocks, so time is counted in ticks, Q to a second.  Checking a token   *)
(* is two awaited steps, the claims and then the denylist; any time may    *)
(* pass between them.                                                      *)
(***************************************************************************)
EXTENDS Slots, Integers

CONSTANTS
    Jtis,        \* token ids
    NoJti,
    Ttl,         \* ACCESS_TOKEN_TTL, in seconds
    Tolerance,   \* clockTolerance of jwtVerify, in seconds
    Q,           \* ticks per second
    MaxTime      \* bound on the clock, in ticks

ASSUME TokenConstants ==
    /\ NoJti \notin Jtis
    /\ Ttl \in Nat \ {0} /\ Tolerance \in Nat /\ Q \in Nat \ {0} /\ MaxTime \in Nat

VARIABLES
    now,      \* the clock, in ticks
    exp,      \* the exp claim, in seconds; 0 before the token is signed
    denyEnd,  \* the tick at which the Redis entry goes; 0 without an entry
    \* the requests' own variables
    pc,
    jti,
    late,     \* history: the token was already revoked when the request began
    \* history
    revoked   \* tokens whose revocation has completed

locals == <<jti, late>>
vars == <<now, exp, denyEnd, pc, locals, revoked>>

Labels == {"idle", "useClaims", "useDenylist", "serve",
           "revokeClaims", "revokeDenylist", "revokeUntil"}

\* An entry without a TTL: it outlasts every entry that has one.
Forever == MaxTime + Q * (Ttl + 2)

Signed == {j \in Jtis : exp[j] # 0}
Listed(j) == denyEnd[j] > now

Goto(r, l) == pc' = [pc EXCEPT ![r] = l]

Return(r) ==
    /\ Goto(r, "idle")
    /\ jti' = [jti EXCEPT ![r] = NoJti]
    /\ late' = [late EXCEPT ![r] = FALSE]

Init ==
    /\ now = 0
    /\ exp = [j \in Jtis |-> 0]
    /\ denyEnd = [j \in Jtis |-> 0]
    /\ pc = [r \in Requests |-> "idle"]
    /\ jti = [r \in Requests |-> NoJti]
    /\ late = [r \in Requests |-> FALSE]
    /\ revoked = {}

-----------------------------------------------------------------------------

\* signAccessToken: exp is the second it is now, rounded down, plus the TTL.
SignAccessToken(j) ==
    /\ exp[j] = 0
    /\ exp' = [exp EXCEPT ![j] = now \div Q + Ttl]
    /\ UNCHANGED <<now, denyEnd, pc, locals, revoked>>

\* A request that presents a token, to be served or (RFC 7009) to have the
\* token revoked.
Present(r, j, l) ==
    /\ pc[r] = "idle" /\ j \in Signed
    /\ jti' = [jti EXCEPT ![r] = j]
    /\ late' = [late EXCEPT ![r] = j \in revoked]
    /\ Goto(r, l)
    /\ UNCHANGED <<now, exp, denyEnd, revoked>>

\* jwtVerify: signature, issuer and audience are good; exp is compared with the
\* second it is now, rounded down, less the tolerance.
ClaimsHold(j) == exp[j] > now \div Q - Tolerance

VerifyClaims(r, from, next) ==
    /\ pc[r] = from
    /\ \/ ClaimsHold(jti[r]) /\ Goto(r, next) /\ UNCHANGED locals
       \/ ~ClaimsHold(jti[r]) /\ Return(r)
    /\ UNCHANGED <<now, exp, denyEnd, revoked>>

\* The revocation checker: isRevoked reads the entry.
CheckDenylist(r, from, next) ==
    /\ pc[r] = from
    /\ \/ ~Listed(jti[r]) /\ Goto(r, next) /\ UNCHANGED locals
       \/ Listed(jti[r]) /\ Return(r)
    /\ UNCHANGED <<now, exp, denyEnd, revoked>>

\* The handler behind the guard runs.
Serve(r) ==
    /\ pc[r] = "serve"
    /\ Return(r)
    /\ UNCHANGED <<now, exp, denyEnd, revoked>>

\* Mutants of EntryTtl: rounded down; not kept above zero.
EntryTtlRoundedDown(j) ==
    LET left == Q * exp[j] - now IN IF left < Q THEN 1 ELSE left \div Q
EntryTtlUnclamped(j) ==
    LET left == Q * exp[j] - now IN (left + Q - 1) \div Q

\* revokeUntil: Math.max(1, Math.ceil(exp - now)), in seconds.
EntryTtl(j) ==
    LET seconds == (Q * exp[j] - now + Q - 1) \div Q
    IN  IF seconds < 1 THEN 1 ELSE seconds

\* RedisService.set: EX with a TTL, no expiry when the TTL is 0; Redis refuses
\* a negative one.
EntryEnd(j, ttl) ==
    CASE ttl > 0 -> now + Q * ttl
      [] ttl = 0 -> Forever
      [] OTHER -> denyEnd[j]

\* OAuthService.revoke of an access token, after the session is revoked (see
\* SessionTokens).
RevokeUntil(r) ==
    /\ pc[r] = "revokeUntil"
    /\ denyEnd' = [denyEnd EXCEPT ![jti[r]] = EntryEnd(jti[r], EntryTtl(jti[r]))]
    /\ revoked' = revoked \union {jti[r]}
    /\ Return(r)
    /\ UNCHANGED <<now, exp>>

Tick ==
    /\ now < MaxTime
    /\ now' = now + 1
    /\ UNCHANGED <<exp, denyEnd, pc, locals, revoked>>

Next ==
    \/ Tick
    \/ \E j \in Jtis : SignAccessToken(j)
    \/ \E r \in Requests :
          \/ \E j \in Jtis, l \in {"useClaims", "revokeClaims"} : Present(r, j, l)
          \/ VerifyClaims(r, "useClaims", "useDenylist")
          \/ VerifyClaims(r, "revokeClaims", "revokeDenylist")
          \/ CheckDenylist(r, "useDenylist", "serve")
          \/ CheckDenylist(r, "revokeDenylist", "revokeUntil")
          \/ Serve(r) \/ RevokeUntil(r)

Spec == Init /\ [][Next]_vars

-----------------------------------------------------------------------------
(* Properties.                                                             *)

\* Every variable has its type; no token lives longer than its TTL.
TypeOK ==
    /\ now \in 0..MaxTime
    /\ exp \in [Jtis -> Nat] /\ \A j \in Jtis : exp[j] <= now \div Q + Ttl
    /\ denyEnd \in [Jtis -> 0..Forever]
    /\ pc \in [Requests -> Labels]
    /\ jti \in [Requests -> Jtis \union {NoJti}] /\ late \in [Requests -> BOOLEAN]
    /\ revoked \subseteq Signed

\* Up to the token's expiry revocation is airtight: a request that begins after
\* a revocation completed passes the denylist only at or after exp, whatever
\* part of a second the revocation fell in.
RevokedUntilExpiry ==
    [][\A r \in Requests :
          pc[r] = "useDenylist" /\ pc'[r] = "serve" /\ late[r] => now >= Q * exp[jti[r]]]_vars

\* "entries self-purge when the token would expire anyway": an entry is gone
\* within a second of the token's expiry, or within a second from now.
EntriesPurge ==
    \A j \in Signed : denyEnd[j] < Q * (exp[j] + 1) \/ denyEnd[j] <= now + Q

=============================================================================
