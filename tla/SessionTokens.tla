---------------------------- MODULE SessionTokens ----------------------------
(***************************************************************************)
(* Sessions and opaque refresh tokens: RefreshTokenService,                *)
(* SessionRepository, and the handlers of AuthService and OAuthService     *)
(* that drive them (login, MFA completion, authorization-code issue,       *)
(* refresh, logout, logout everywhere / password reset, RFC 7009           *)
(* revocation).                                                            *)
(*                                                                         *)
(* Every handler is a sequence of awaited SQL or Redis statements with no  *)
(* transaction around them, so one statement is one action, and any two    *)
(* requests may interleave between statements.  What happens between two   *)
(* statements of a handler is local to it and belongs to the statement     *)
(* before.  A request whose process dies, or whose statement fails, just   *)
(* stops (Abort): nothing undoes what it has written.                      *)
(***************************************************************************)
EXTENDS Naturals, FiniteSets

CONSTANTS
    Requests,   \* slots for requests in flight
    Sessions,   \* session ids the database may generate
    Tokens,     \* refresh tokens randomBytes may generate
    Users,
    Clients,    \* OAuth clients
    MfaUsers,   \* users who may have a second factor when they log in
    NoToken, NoClient, NoSession, NoUser,
    MayAbort,   \* TRUE when requests may die between two statements
    MayExpire   \* TRUE when refresh tokens may outlive REFRESH_TOKEN_TTL

ASSUME NullsAreNew ==
    /\ NoToken \notin Tokens
    /\ NoClient \notin Clients
    /\ NoSession \notin Sessions
    /\ NoUser \notin Users
ASSUME MfaUsersAreUsers == MfaUsers \subseteq Users
ASSUME SwitchesAreBoolean == MayAbort \in BOOLEAN /\ MayExpire \in BOOLEAN

VARIABLES
    \* table sessions (rows are never deleted)
    sessStatus,  \* "none" when the row does not exist yet
    sessUser,
    sessReason,  \* revoke_reason
    \* table refresh_tokens
    tokStatus,
    tokSession,
    tokFamily,   \* family_id, named by the token the family was opened with
    tokPrev,     \* previous_token_id
    tokClient,
    expired,     \* tokens with expires_at <= now()
    \* Redis
    cache,       \* the session cache
    challenged,  \* sessions with a login challenge, mfa:challenge:*
    \* what the outside has been handed
    held,        \* refresh tokens returned in a response
    access,      \* sessions an access token was returned for
    audited,     \* families with a REFRESH_TOKEN_REUSE_DETECTED event
    stepUp,      \* history: sessions opened to wait for a second factor
    \* the requests' own variables
    pc,          \* the statement the request awaits next
    tok,         \* the refresh token presented
    nxt,         \* the refresh token issued
    cli,         \* the authenticated client; NoClient on /auth routes
    sess,        \* the session addressed
    usr,         \* the user whose sessions are all revoked
    seen,        \* the status loadFresh read
    late         \* history: the session was already revoked on arrival

sessionRow == <<sessStatus, sessUser, sessReason>>
redis      == <<cache, challenged>>
tokenKeys  == <<tokSession, tokFamily, tokPrev, tokClient>>
outside    == <<held, access, audited, stepUp>>
locals     == <<tok, nxt, cli, sess, usr, seen, late>>
vars == <<sessionRow, tokStatus, tokenKeys, expired, redis, outside, pc, locals>>

SessionStates == {"none", "active", "revoked"}
\* revoke_reason.  "logout" also stands for RFC 7009's "token_revocation" and
\* "logout_all" for "password_reset": the statements are the same.
Reasons       == {"none", "logout", "logout_all", "refresh_token_reuse"}
TokenStates   == {"none", "active", "rotated", "revoked"}
Labels == {"idle",
           "issueRoot", "respond",
           "createChallenge", "answered", "attemptBack",
           "consume", "known", "reuseFamily", "reuseSession", "auditReuse",
           "issueNext", "mismatch", "findById", "loadFresh", "setCache",
           "sessionDead",
           "revokeSession", "revokeTokens", "dropCache", "revokeByToken",
           "revokeAllSessions", "revokeAllTokens", "dropAllCache"}

Fresh == {t \in Tokens : tokStatus[t] = "none"}
InFlight == {r \in Requests : pc[r] # "idle"}

\* Bound: a request that may issue a token starts only when the finite set
\* Tokens still holds one for it.
Room == Cardinality(Fresh) > Cardinality(InFlight)

-----------------------------------------------------------------------------
(* Request bookkeeping.                                                    *)

Goto(r, l) == pc' = [pc EXCEPT ![r] = l]

\* The handler returns or throws; its local variables are gone.
Return(r) ==
    /\ Goto(r, "idle")
    /\ tok'  = [tok  EXCEPT ![r] = NoToken]
    /\ nxt'  = [nxt  EXCEPT ![r] = NoToken]
    /\ cli'  = [cli  EXCEPT ![r] = NoClient]
    /\ sess' = [sess EXCEPT ![r] = NoSession]
    /\ usr'  = [usr  EXCEPT ![r] = NoUser]
    /\ seen' = [seen EXCEPT ![r] = "none"]
    /\ late' = [late EXCEPT ![r] = FALSE]

\* The refresh tokens in S that are in one of the states "from" become
\* revoked: every UPDATE refresh_tokens SET status = 'revoked' of the code.
RevokeTokens(S, from) ==
    tokStatus' = [t \in Tokens |->
        IF t \in S /\ tokStatus[t] \in from THEN "revoked" ELSE tokStatus[t]]

\* UPDATE sessions SET status = 'revoked' ... WHERE ... AND status = 'active'
RevokeSessions(S, why) ==
    /\ sessStatus' = [s \in Sessions |->
           IF s \in S /\ sessStatus[s] = "active" THEN "revoked" ELSE sessStatus[s]]
    /\ sessReason' = [s \in Sessions |->
           IF s \in S /\ sessStatus[s] = "active" THEN why ELSE sessReason[s]]
    /\ UNCHANGED sessUser

\* RefreshTokenService.issue: INSERT of a token nobody has seen before.
Issue(r, n, s, f, p, c) ==
    /\ tokStatus'  = [tokStatus  EXCEPT ![n] = "active"]
    /\ tokSession' = [tokSession EXCEPT ![n] = s]
    /\ tokFamily'  = [tokFamily  EXCEPT ![n] = f]
    /\ tokPrev'    = [tokPrev    EXCEPT ![n] = p]
    /\ tokClient'  = [tokClient  EXCEPT ![n] = c]
    /\ nxt' = [nxt EXCEPT ![r] = n]

FamilyOf(f) == {t \in Tokens : tokFamily[t] = f}
InSession(s) == {t \in Tokens : tokSession[t] = s}
OfUser(u) == {s \in Sessions : sessUser[s] = u}

Init ==
    /\ sessStatus = [s \in Sessions |-> "none"]
    /\ sessUser   = [s \in Sessions |-> NoUser]
    /\ sessReason = [s \in Sessions |-> "none"]
    /\ tokStatus  = [t \in Tokens |-> "none"]
    /\ tokSession = [t \in Tokens |-> NoSession]
    /\ tokFamily  = [t \in Tokens |-> NoToken]
    /\ tokPrev    = [t \in Tokens |-> NoToken]
    /\ tokClient  = [t \in Tokens |-> NoClient]
    /\ expired = {}
    /\ cache = [s \in Sessions |-> "none"]
    /\ challenged = {} /\ stepUp = {}
    /\ held = {} /\ access = {} /\ audited = {}
    /\ pc   = [r \in Requests |-> "idle"]
    /\ tok  = [r \in Requests |-> NoToken]
    /\ nxt  = [r \in Requests |-> NoToken]
    /\ cli  = [r \in Requests |-> NoClient]
    /\ sess = [r \in Requests |-> NoSession]
    /\ usr  = [r \in Requests |-> NoUser]
    /\ seen = [r \in Requests |-> "none"]
    /\ late = [r \in Requests |-> FALSE]

-----------------------------------------------------------------------------
(* A new grant: issueSessionTokens after a password login (c = NoClient)   *)
(* or issueUserTokens after an authorization code (c a client).            *)

\* SessionRepository.create
NewSession(r, u, s) ==
    /\ sessStatus[s] = "none"
    /\ sessStatus' = [sessStatus EXCEPT ![s] = "active"]
    /\ sessUser' = [sessUser EXCEPT ![s] = u]
    /\ sess' = [sess EXCEPT ![r] = s]

\* issueSessionTokens, issueUserTokens: tokens follow at once.
CreateSession(r, u, s, c) ==
    /\ pc[r] = "idle" /\ Room
    /\ NewSession(r, u, s)
    /\ cli' = [cli EXCEPT ![r] = c]
    /\ Goto(r, "issueRoot")
    /\ UNCHANGED <<sessReason, tokStatus, tokenKeys, expired, redis, outside,
                   tok, nxt, usr, seen, late>>

\* The access token is signed, then the root of a new family is inserted.
\* Nothing re-reads the session, and a session may get several roots.
IssueRoot(r, n) ==
    /\ pc[r] = "issueRoot"
    /\ n \in Fresh
    /\ Issue(r, n, sess[r], n, NoToken, cli[r])
    /\ Goto(r, "respond")
    /\ UNCHANGED <<sessionRow, expired, redis, outside,
                   tok, cli, sess, usr, seen, late>>

\* The session the response's access token names.
Subject(r) == IF tok[r] = NoToken THEN sess[r] ELSE tokSession[tok[r]]

\* Roles and permissions are read, the access token signed and the response
\* sent: from here on the caller holds both tokens.
Respond(r) ==
    /\ pc[r] = "respond"
    /\ held' = held \union {nxt[r]}
    /\ access' = access \union {Subject(r)}
    /\ Return(r)
    /\ UNCHANGED <<sessionRow, tokStatus, tokenKeys, expired, redis, audited, stepUp>>

-----------------------------------------------------------------------------
(* Login of a user with a second factor: the session is created, the       *)
(* challenge answered later, by any number of requests at once.            *)

CreateStepUp(r, u, s) ==
    /\ pc[r] = "idle" /\ u \in MfaUsers
    /\ NewSession(r, u, s)
    /\ stepUp' = stepUp \union {s}
    /\ Goto(r, "createChallenge")
    /\ UNCHANGED <<sessReason, tokStatus, tokenKeys, expired, redis,
                   held, access, audited, tok, nxt, cli, usr, seen, late>>

\* createLoginChallenge; the login answers "mfa_required".
CreateChallenge(r) ==
    /\ pc[r] = "createChallenge"
    /\ challenged' = challenged \union {sess[r]}
    /\ Return(r)
    /\ UNCHANGED <<sessionRow, tokStatus, tokenKeys, expired, cache, outside>>

\* completeMfaChallenge reads the challenge of s and checks the code.
Answer(r, s, l) ==
    /\ pc[r] = "idle" /\ s \in challenged
    /\ sess' = [sess EXCEPT ![r] = s]
    /\ Goto(r, l)
    /\ UNCHANGED <<sessionRow, tokStatus, tokenKeys, expired, redis, outside,
                   tok, nxt, cli, usr, seen>>

RightCode(r, s) ==
    /\ Room
    /\ Answer(r, s, "answered")
    /\ late' = [late EXCEPT ![r] = sessStatus[s] = "revoked"]

WrongCode(r, s) == Answer(r, s, "attemptBack") /\ UNCHANGED late

\* Mutant of DeleteChallenge: the session is not looked up again.
DeleteChallengeOnly(r) ==
    /\ pc[r] = "answered"
    /\ challenged' = challenged \ {sess[r]}
    /\ Goto(r, "issueRoot")
    /\ UNCHANGED <<sessionRow, tokStatus, tokenKeys, expired, cache, outside, locals>>

\* The challenge is deleted, whether or not another request did so before;
\* the session is then looked up as for a refresh (FindById).
DeleteChallenge(r) ==
    /\ pc[r] = "answered"
    /\ challenged' = challenged \ {sess[r]}
    /\ Goto(r, "findById")
    /\ UNCHANGED <<sessionRow, tokStatus, tokenKeys, expired, cache, outside, locals>>

\* setJson of the challenge read above, one attempt up, then throw: a
\* challenge another request has deleted is there again.
WriteAttempt(r) ==
    /\ pc[r] = "attemptBack"
    /\ challenged' = challenged \union {sess[r]}
    /\ Return(r)
    /\ UNCHANGED <<sessionRow, tokStatus, tokenKeys, expired, cache, outside>>

-----------------------------------------------------------------------------
(* AuthService.refresh and the refresh_token grant of OAuthService.token.  *)

\* A request with token t (NoToken: a string never issued) arrives, from
\* client c once authenticated, or on /auth/refresh when c = NoClient.
Refresh(r, t, c) ==
    /\ pc[r] = "idle" /\ Room
    /\ tok' = [tok EXCEPT ![r] = t]
    /\ cli' = [cli EXCEPT ![r] = c]
    /\ late' = [late EXCEPT ![r] =
           t # NoToken /\ sessStatus[tokSession[t]] = "revoked"]
    /\ Goto(r, "consume")
    /\ UNCHANGED <<sessionRow, tokStatus, tokenKeys, expired, redis, outside,
                   nxt, sess, usr, seen>>

\* Mutants of Consumable: the WHERE clause lets a rotated, or a revoked, token through.
ConsumableTwice(t) ==
    t # NoToken /\ tokStatus[t] \in {"active", "rotated"} /\ t \notin expired
ConsumableRevoked(t) ==
    t # NoToken /\ tokStatus[t] \in {"active", "revoked"} /\ t \notin expired

Consumable(t) == t # NoToken /\ tokStatus[t] = "active" /\ t \notin expired

\* consume: the atomic UPDATE ... WHERE status = 'active' AND expires_at > now()
Consume(r) ==
    /\ pc[r] = "consume"
    /\ \/ /\ Consumable(tok[r])
          /\ tokStatus' = [tokStatus EXCEPT ![tok[r]] = "rotated"]
          /\ Goto(r, "issueNext")
       \/ /\ ~Consumable(tok[r])
          /\ Goto(r, "known")
          /\ UNCHANGED tokStatus
    /\ UNCHANGED <<sessionRow, tokenKeys, expired, redis, outside, locals>>

\* handleReuseOrInvalid: a token no row has is just invalid.
UnknownToken(r) ==
    /\ pc[r] = "known" /\ tok[r] = NoToken
    /\ Return(r)
    /\ UNCHANGED <<sessionRow, tokStatus, tokenKeys, expired, redis, outside>>

\* Mutant of KnownToken: a conditional UPDATE that missed is tried again.
KnownTokenRetried(r) ==
    /\ pc[r] = "known" /\ tok[r] # NoToken
    /\ Goto(r, "consume")
    /\ UNCHANGED <<sessionRow, tokStatus, tokenKeys, expired, redis, outside, locals>>

\* handleReuseOrInvalid: the token has a row, whatever its status.
KnownToken(r) ==
    /\ pc[r] = "known" /\ tok[r] # NoToken
    /\ Goto(r, "reuseFamily")
    /\ UNCHANGED <<sessionRow, tokStatus, tokenKeys, expired, redis, outside, locals>>

ReuseFamily(r) ==
    /\ pc[r] = "reuseFamily"
    /\ RevokeTokens(FamilyOf(tokFamily[tok[r]]), {"active", "rotated"})
    /\ Goto(r, "reuseSession")
    /\ UNCHANGED <<sessionRow, tokenKeys, expired, redis, outside, locals>>

\* The cached session row is left alone.  On /auth/refresh the handler then
\* audits; at the token endpoint the AppError is not the AuthError the
\* handler looks for, and it is rethrown.
ReuseSession(r) ==
    /\ pc[r] = "reuseSession"
    /\ RevokeSessions({tokSession[tok[r]]}, "refresh_token_reuse")
    /\ \/ cli[r] = NoClient /\ Goto(r, "auditReuse") /\ UNCHANGED locals
       \/ cli[r] # NoClient /\ Return(r)
    /\ UNCHANGED <<tokStatus, tokenKeys, expired, redis, outside>>

AuditReuse(r) ==
    /\ pc[r] = "auditReuse"
    /\ audited' = audited \union {tokFamily[tok[r]]}
    /\ Return(r)
    /\ UNCHANGED <<sessionRow, tokStatus, tokenKeys, expired, redis, held, access, stepUp>>

\* Mutant of IssueNext: the handler answers without reading the session.
IssueNextUnchecked(r, n) ==
    /\ pc[r] = "issueNext"
    /\ n \in Fresh
    /\ Issue(r, n, tokSession[tok[r]], tokFamily[tok[r]], tok[r], tokClient[tok[r]])
    /\ Goto(r, "respond")
    /\ UNCHANGED <<sessionRow, expired, redis, outside,
                   tok, cli, sess, usr, seen, late>>

\* consume: the successor, in the family and session of the rotated token.
\* The token endpoint then compares the token's client with the caller.
IssueNext(r, n) ==
    /\ pc[r] = "issueNext"
    /\ n \in Fresh
    /\ LET t == tok[r] IN
       /\ Issue(r, n, tokSession[t], tokFamily[t], t, tokClient[t])
       /\ Goto(r, IF cli[r] \in {NoClient, tokClient[t]} THEN "findById" ELSE "mismatch")
    /\ UNCHANGED <<sessionRow, expired, redis, outside,
                   tok, cli, sess, usr, seen, late>>

\* Client binding fails: revokeByToken on the token presented, a reuse audit
\* event, then throw.
ClientMismatch(r) ==
    /\ pc[r] = "mismatch"
    /\ RevokeTokens({tok[r]}, {"active", "rotated"})
    /\ audited' = audited \union {tokFamily[tok[r]]}
    /\ Return(r)
    /\ UNCHANGED <<sessionRow, tokenKeys, expired, redis, held, access, stepUp>>

\* What follows a session found alive: the first token, or the answer.
Accepted(r) == IF tok[r] = NoToken THEN "issueRoot" ELSE "respond"

\* Mutants of FindById: a cached active row is believed; a miss is taken for "gone".
FindByIdTrustingCache(r) ==
    /\ pc[r] = "findById"
    /\ Goto(r, CASE cache[Subject(r)] = "revoked" -> "sessionDead"
                 [] cache[Subject(r)] = "active" -> Accepted(r)
                 [] OTHER -> "loadFresh")
    /\ UNCHANGED <<sessionRow, tokStatus, tokenKeys, expired, redis, outside, locals>>
FindByIdNeedingCache(r) ==
    /\ pc[r] = "findById"
    /\ Goto(r, IF cache[Subject(r)] = "active" THEN "loadFresh" ELSE "sessionDead")
    /\ UNCHANGED <<sessionRow, tokStatus, tokenKeys, expired, redis, outside, locals>>

\* SessionRepository.findById: a cached row is believed only when it says
\* the session is over.
FindById(r) ==
    /\ pc[r] = "findById"
    /\ Goto(r, IF cache[Subject(r)] = "revoked" THEN "sessionDead" ELSE "loadFresh")
    /\ UNCHANGED <<sessionRow, tokStatus, tokenKeys, expired, redis, outside, locals>>

\* loadFresh: SELECT; the row exists, sessions are never deleted.
LoadFresh(r) ==
    /\ pc[r] = "loadFresh"
    /\ seen' = [seen EXCEPT ![r] = sessStatus[Subject(r)]]
    /\ Goto(r, "setCache")
    /\ UNCHANGED <<sessionRow, tokStatus, tokenKeys, expired, redis, outside,
                   tok, nxt, cli, sess, usr, late>>

\* loadFresh: setJson of the row read above, then the caller's test on it.
SetCache(r) ==
    /\ pc[r] = "setCache"
    /\ cache' = [cache EXCEPT ![Subject(r)] = seen[r]]
    /\ Goto(r, IF seen[r] = "active" THEN Accepted(r) ELSE "sessionDead")
    /\ UNCHANGED <<sessionRow, tokStatus, tokenKeys, expired, challenged, outside, locals>>

\* A refresh calls revokeFamily, then throws; an answered challenge just throws.
SessionDead(r) ==
    /\ pc[r] = "sessionDead"
    /\ RevokeTokens(IF tok[r] = NoToken THEN {} ELSE FamilyOf(tokFamily[tok[r]]),
                    {"active", "rotated"})
    /\ Return(r)
    /\ UNCHANGED <<sessionRow, tokenKeys, expired, redis, outside>>

\* The token endpoint refuses a scope outside the grant, after rotation.
ScopeExceeded(r) ==
    /\ pc[r] = "respond" /\ tok[r] # NoToken /\ cli[r] # NoClient
    /\ Return(r)
    /\ UNCHANGED <<sessionRow, tokStatus, tokenKeys, expired, redis, outside>>

-----------------------------------------------------------------------------
(* Logout, revocation, logout everywhere.                                  *)

\* AuthService.logout of session s, with or without a refresh token; with
\* t = NoToken also OAuthService.revoke of an access token of s.
Logout(r, s, t) ==
    /\ pc[r] = "idle"
    /\ s \in access
    /\ sess' = [sess EXCEPT ![r] = s]
    /\ tok' = [tok EXCEPT ![r] = t]
    /\ Goto(r, "revokeSession")
    /\ UNCHANGED <<sessionRow, tokStatus, tokenKeys, expired, redis, outside,
                   nxt, cli, usr, seen, late>>

\* SessionRepository.revoke: three statements.
RevokeSession(r) ==
    /\ pc[r] = "revokeSession"
    /\ RevokeSessions({sess[r]}, "logout")
    /\ Goto(r, "revokeTokens")
    /\ UNCHANGED <<tokStatus, tokenKeys, expired, redis, outside, locals>>

\* Mutant of RevokeSessionTokens: only the token the caller sent is revoked.
RevokePresentedToken(r) ==
    /\ pc[r] = "revokeTokens"
    /\ RevokeTokens({tok[r]}, {"active"})
    /\ Goto(r, "dropCache")
    /\ UNCHANGED <<sessionRow, tokenKeys, expired, redis, outside, locals>>

RevokeSessionTokens(r) ==
    /\ pc[r] = "revokeTokens"
    /\ RevokeTokens(InSession(sess[r]), {"active"})
    /\ Goto(r, "dropCache")
    /\ UNCHANGED <<sessionRow, tokenKeys, expired, redis, outside, locals>>

DropCache(r) ==
    /\ pc[r] = "dropCache"
    /\ cache' = [cache EXCEPT ![sess[r]] = "none"]
    /\ \/ tok[r] = NoToken /\ Return(r)
       \/ tok[r] # NoToken /\ Goto(r, "revokeByToken") /\ UNCHANGED locals
    /\ UNCHANGED <<sessionRow, tokStatus, tokenKeys, expired, challenged, outside>>

\* OAuthService.revoke of a refresh token.
RevokeRefresh(r, t) ==
    /\ pc[r] = "idle"
    /\ tok' = [tok EXCEPT ![r] = t]
    /\ Goto(r, "revokeByToken")
    /\ UNCHANGED <<sessionRow, tokStatus, tokenKeys, expired, redis, outside,
                   nxt, cli, sess, usr, seen, late>>

\* revokeByToken.  When it matches nothing OAuthService.revoke goes on to
\* verify the string as an access token, which a refresh token never is.
RevokeByToken(r) ==
    /\ pc[r] = "revokeByToken"
    /\ RevokeTokens({tok[r]}, {"active", "rotated"})
    /\ Return(r)
    /\ UNCHANGED <<sessionRow, tokenKeys, expired, redis, outside>>

\* revokeAllForUser, from logout with all_sessions or from resetPassword.
RevokeAll(r, u) ==
    /\ pc[r] = "idle"
    /\ usr' = [usr EXCEPT ![r] = u]
    /\ Goto(r, "revokeAllSessions")
    /\ UNCHANGED <<sessionRow, tokStatus, tokenKeys, expired, redis, outside,
                   tok, nxt, cli, sess, seen, late>>

RevokeAllSessions(r) ==
    /\ pc[r] = "revokeAllSessions"
    /\ RevokeSessions(OfUser(usr[r]), "logout_all")
    /\ Goto(r, "revokeAllTokens")
    /\ UNCHANGED <<tokStatus, tokenKeys, expired, redis, outside, locals>>

RevokeAllTokens(r) ==
    /\ pc[r] = "revokeAllTokens"
    /\ RevokeTokens(UNION {InSession(s) : s \in OfUser(usr[r])}, {"active", "rotated"})
    /\ Goto(r, "dropAllCache")
    /\ UNCHANGED <<sessionRow, tokenKeys, expired, redis, outside, locals>>

\* delByPrefix drops the cached sessions of every user.
DropAllCache(r) ==
    /\ pc[r] = "dropAllCache"
    /\ cache' = [s \in Sessions |-> "none"]
    /\ Return(r)
    /\ UNCHANGED <<sessionRow, tokStatus, tokenKeys, expired, challenged, outside>>

-----------------------------------------------------------------------------
(* The environment.                                                        *)

\* expires_at of a refresh token passes.
ExpireToken(t) ==
    /\ MayExpire
    /\ tokStatus[t] # "none" /\ t \notin expired
    /\ expired' = expired \union {t}
    /\ UNCHANGED <<sessionRow, tokStatus, tokenKeys, redis, outside, pc, locals>>

\* The cached row's five minutes are over.
ExpireCache(s) ==
    /\ cache[s] # "none"
    /\ cache' = [cache EXCEPT ![s] = "none"]
    /\ UNCHANGED <<sessionRow, tokStatus, tokenKeys, expired, challenged, outside, pc, locals>>

\* MFA_CHALLENGE_TTL is over, or a request found three attempts used up.
LoseChallenge(s) ==
    /\ s \in challenged
    /\ challenged' = challenged \ {s}
    /\ UNCHANGED <<sessionRow, tokStatus, tokenKeys, expired, cache, outside, pc, locals>>

\* The process dies or a statement fails: the rest of the handler is lost.
Abort(r) ==
    /\ MayAbort /\ pc[r] # "idle"
    /\ Return(r)
    /\ UNCHANGED <<sessionRow, tokStatus, tokenKeys, expired, redis, outside>>

Start(r) ==
    \/ \E u \in Users, s \in Sessions, c \in Clients \union {NoClient} :
          CreateSession(r, u, s, c)
    \/ \E u \in Users, s \in Sessions : CreateStepUp(r, u, s)
    \/ \E s \in Sessions : RightCode(r, s) \/ WrongCode(r, s)
    \/ \E t \in held \union {NoToken}, c \in Clients \union {NoClient} : Refresh(r, t, c)
    \/ \E s \in Sessions, t \in held \union {NoToken} : Logout(r, s, t)
    \/ \E t \in held : RevokeRefresh(r, t)
    \/ \E u \in Users : RevokeAll(r, u)

\* The next statement of the request in slot r.
Step(r) ==
    \/ \E n \in Tokens : IssueRoot(r, n) \/ IssueNext(r, n)
    \/ Respond(r)
    \/ CreateChallenge(r) \/ DeleteChallenge(r) \/ WriteAttempt(r)
    \/ Consume(r) \/ UnknownToken(r) \/ KnownToken(r)
    \/ ReuseFamily(r) \/ ReuseSession(r) \/ AuditReuse(r)
    \/ ClientMismatch(r)
    \/ FindById(r) \/ LoadFresh(r) \/ SetCache(r) \/ SessionDead(r)
    \/ ScopeExceeded(r)
    \/ RevokeSession(r) \/ RevokeSessionTokens(r) \/ DropCache(r) \/ RevokeByToken(r)
    \/ RevokeAllSessions(r) \/ RevokeAllTokens(r) \/ DropAllCache(r)

Next ==
    \/ \E r \in Requests : Start(r) \/ Step(r) \/ Abort(r)
    \/ \E t \in Tokens : ExpireToken(t)
    \/ \E s \in Sessions : ExpireCache(s) \/ LoseChallenge(s)

Spec == Init /\ [][Next]_vars

\* A request that has started goes on to its end: the database answers and
\* the event loop resumes every handler.  Nobody has to start a request.
FairSpec == Spec /\ \A r \in Requests : WF_vars(Step(r))

-----------------------------------------------------------------------------
(* Properties.                                                             *)

\* Every variable has its type.
TypeOK ==
    /\ sessStatus \in [Sessions -> SessionStates]
    /\ sessUser   \in [Sessions -> Users \union {NoUser}]
    /\ sessReason \in [Sessions -> Reasons]
    /\ tokStatus  \in [Tokens -> TokenStates]
    /\ tokSession \in [Tokens -> Sessions \union {NoSession}]
    /\ tokFamily  \in [Tokens -> Tokens \union {NoToken}]
    /\ tokPrev    \in [Tokens -> Tokens \union {NoToken}]
    /\ tokClient  \in [Tokens -> Clients \union {NoClient}]
    /\ expired \subseteq Tokens
    /\ cache \in [Sessions -> SessionStates]
    /\ challenged \subseteq Sessions /\ stepUp \subseteq Sessions
    /\ held \subseteq Tokens /\ access \subseteq Sessions /\ audited \subseteq Tokens
    /\ pc   \in [Requests -> Labels]
    /\ tok  \in [Requests -> Tokens \union {NoToken}]
    /\ nxt  \in [Requests -> Tokens \union {NoToken}]
    /\ cli  \in [Requests -> Clients \union {NoClient}]
    /\ sess \in [Requests -> Sessions \union {NoSession}]
    /\ usr  \in [Requests -> Users \union {NoUser}]
    /\ seen \in [Requests -> SessionStates]
    /\ late \in [Requests -> BOOLEAN]

Issued == {t \in Tokens : tokStatus[t] # "none"}

\* Rotation is single use however the refreshes interleave: a family never
\* has two active tokens, and while a successor is on its way it has none.
OneLivePerFamily ==
    /\ \A t, u \in Tokens :
          tokStatus[t] = "active" /\ tokStatus[u] = "active" /\ tokFamily[t] = tokFamily[u]
              => t = u
    /\ \A r \in Requests, t \in Tokens :
          pc[r] = "issueNext" /\ tokFamily[t] = tokFamily[tok[r]] => tokStatus[t] # "active"
    /\ \A r, q \in Requests :
          pc[r] = "issueNext" /\ pc[q] = "issueNext" /\ tokFamily[tok[r]] = tokFamily[tok[q]]
              => r = q

\* previous_token_id makes every family a chain: no token is rotated into two.
SingleSuccessor ==
    \A t, u \in Issued : tokPrev[t] = tokPrev[u] /\ tokPrev[t] # NoToken => t = u

\* A refresh, or a correct second factor, that arrives after its session was
\* revoked, by whichever path and whatever the cache holds, never gets as far
\* as a new family or an access token.
NoMintAfterRevocation ==
    \A r \in Requests : late[r] => pc[r] \notin {"issueRoot", "respond"}

\* The session test is exact the other way too: a refresh is turned away (and
\* its whole family revoked), and a correct second factor refused, only when
\* the database says the session is over.
LiveSessionNotRefused ==
    \A r \in Requests :
        pc[r] = "sessionDead" => sessStatus[Subject(r)] = "revoked"

NeverUndone ==
    /\ \A s \in Sessions : sessStatus[s] = "revoked" =>
          sessStatus'[s] = "revoked" /\ sessReason'[s] = sessReason[s]
    /\ \A t \in Tokens :
          /\ tokStatus[t] = "revoked" => tokStatus'[t] = "revoked"
          /\ tokStatus[t] = "rotated" => tokStatus'[t] # "active"

\* What a step may never do: bring a revoked session or token back, make a
\* rotated token usable again, or change the reason a session ended.
RevocationIsFinal == [][NeverUndone]_vars

Quiet == InFlight = {}

Root(t) == t \in Issued /\ tokPrev[t] = NoToken

\* SessionRepository.revoke ends the session before its tokens, so a refresh it
\* races with is caught by one or by the other.  A second answer to the login
\* challenge may still slip through, between its look at the session and its
\* insert: once no request is in flight, an active token that a client holds of
\* a logged-out session is the root of a family, beside the root the logout
\* began with (and NoMintAfterRevocation refuses it on first use).
LogoutLeavesNoLiveToken ==
    Quiet => \A t \in held :
        sessReason[tokSession[t]] = "logout" /\ tokStatus[t] = "active" =>
            Root(t) /\ \E u \in InSession(tokSession[t]) \ {t} : Root(u)

\* A replay is always answered: once a spent token is presented its session
\* ends, whatever else is going on.
ReplayKillsSession ==
    \A t \in Tokens :
        (\E r \in Requests :
            pc[r] = "consume" /\ tok[r] = t /\ tokStatus[t] \in {"rotated", "revoked"})
            ~> (t \in Issued /\ sessStatus[tokSession[t]] = "revoked")

\* What refresh-token.service.ts says of reuse: "the entire family plus its
\* session is revoked (reuse detection) and audited".  Once no request is in
\* flight, a session that ended by reuse detection has its audit event.
ReuseIsAudited ==
    Quiet => \A s \in Sessions : sessReason[s] = "refresh_token_reuse" =>
        \E t \in InSession(s) : tokFamily[t] \in audited

-----------------------------------------------------------------------------
(* Refinement.                                                             *)

\* Where a call of RefreshContract stands; requests that are neither logins,
\* nor correct second factors, nor refreshes are no calls at all.
IsCall(r) == pc[r] \in {"issueRoot", "respond", "answered", "consume", "known",
                       "reuseFamily", "reuseSession", "auditReuse", "issueNext",
                       "mismatch", "findById", "loadFresh", "setCache", "sessionDead"}
Stage(r) ==
    CASE pc[r] \in {"issueRoot", "answered"} -> "opening"
      [] pc[r] \in {"findById", "loadFresh", "setCache", "sessionDead"}
            /\ tok[r] = NoToken -> "opening"
      [] pc[r] \in {"consume", "known", "reuseFamily", "reuseSession", "auditReuse"} -> "asked"
      [] pc[r] = "issueNext" -> "taken"
      [] OTHER -> "renewed"

\* Sessions and tokens as the contract sees them, and the call in slot r.
ContractStatus == [s \in Sessions |-> CASE sessStatus[s] = "none" -> "none"
                                        [] sessStatus[s] = "active" -> "open"
                                        [] OTHER -> "over"]
ContractToken == [t \in Tokens |-> CASE tokStatus[t] = "none" -> "unborn"
                                     [] tokStatus[t] = "active" -> "live"
                                     [] OTHER -> "spent"]
CallOf(r) ==
    [at |-> IF IsCall(r) THEN Stage(r) ELSE "idle",
     sess |-> IF IsCall(r) THEN sess[r] ELSE NoSession,
     tok |-> IF IsCall(r) THEN tok[r] ELSE NoToken,
     new |-> nxt[r],
     oauth |-> IsCall(r) /\ tok[r] # NoToken /\ cli[r] # NoClient,
     late |-> late[r]]
ContractCall == [r \in Requests |-> CallOf(r)]

Promise == INSTANCE RefreshContract WITH
    status <- ContractStatus, token <- ContractToken, owner <- tokSession,
    signed <- access, call <- ContractCall

\* The statements, caches and families implement the contract: rotation,
\* refusal and revocation look atomic and single-use to every caller, whatever
\* the interleaving.
KeepsContract == Promise!Contract

=============================================================================
