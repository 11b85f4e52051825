# A TLA+ model of the identity platform

This directory models the authentication and authorization platform of this
repository: sessions and refresh tokens, accounts, OAuth authorization codes,
OAuth clients, the second factor, access tokens and the keys that sign them, the
rate limiter, roles and permissions, the gateway and the resource API, and the
browser client. TLC checks the models on small instances; TLAPS
proves the safety of all of them, and that sessions and browser keep the refresh
contract, for every size. `PROJECT.json` maps each definition to
the source lines it translates. Paths below are relative to the repository's
`src/` directory unless they begin with `tests/` or `docs/`.

## The system

Three Express processes (`apps/auth-server`, `apps/api-gateway`,
`apps/resource-api`, any number of each) serve the routes; a single-page client
(`apps/frontend`) uses them. All shared state is in PostgreSQL and Redis. A
handler is an `async` function that awaits one SQL statement or Redis command
after another, and except for the two replacements of `modules/roles` (and the
seed) no transaction and no lock surrounds them. That is what is hard about this
code and it fixes the granularity of the models: **one awaited statement is one
action**. What a handler computes between two statements belongs to the
statement before, any other request may run in between, and a handler that dies
half way leaves what it has written.

| part | state it keeps | operations | correct when |
|---|---|---|---|
| sessions and refresh tokens (`modules/sessions`, `modules/tokens/refresh-token.service.ts`) | `sessions`, `refresh_tokens`, the Redis copy of a session row | create, refresh (rotate), reuse detection, logout, logout everywhere, RFC 7009 revocation | rotation is single use; a revoked session mints nothing; replay ends the session |
| accounts (`modules/users`, login in `modules/auth`) | `users`, `email_verifications`, `password_reset_tokens` | register, verify, login with lockout, forgot / reset password, admin status switch | gates hold; lockout comes; reset tokens work once; a reset ends old sessions |
| authorization codes (`modules/oauth`) | `authorization_codes` | authorize, exchange (PKCE), replay handling | one exchange per code, for its client and verifier only; replay revokes |
| second factor (`modules/mfa`) | `mfa_methods`, challenges in Redis | enrol, confirm, challenge, verify, disable | attempts are counted, no unproved secret, no tokens for a revoked session |
| access tokens (`modules/tokens/jwt.service.ts`, `token-revocation.ts`, `modules/gateway/remote-token-verifier.ts`) | the denylist in Redis | sign, verify, revoke | a revoked token is refused until it expires |
| rate limiter (`modules/rate-limit`, `infrastructure/redis`) | a counter per bucket and identity | INCR, EXPIRE, TTL | at most `limit` per window; nobody is shut out for good |
| roles and permissions (`modules/roles`) | `user_roles`, `role_permissions` | replace, read into tokens | a token holds what its user had; a replacement replaces |
| gateway and resource API (`modules/gateway`, `modules/resources`) | `documents` | strip / inject identity headers, list, create, delete | only verified identities act, on rows they may act on |
| signing keys, JWKS (`modules/keys`) | key files in a directory, the gateway's JWKS cache | generate, rotate, publish | a token verifies while it lives; the newest key signs |
| clients (`modules/clients`, client authentication in `modules/oauth`) | `oauth_clients` | register, rotate secret, disable, authenticate | a disabled client gets no tokens; old secrets die; services stay within `api.*` |
| risk engine (`modules/risk`) | counters and known devices | score a login | the level follows from the rules |
| single-page client (`apps/frontend/client`) | the token pair in localStorage | refresh on 401 and retry, sign in, sign out | expiring access tokens do not sign the user out; a sign-out does; every call settles |

How they interact: login (`AuthService.login`) reads and writes the account,
asks the risk engine, and creates a session with its first refresh token, or a
session and an MFA challenge, whose answer (`completeMfaChallenge`, another request)
inserts the first token; the code exchange (`OAuthService.token`) creates a
session for a client; refresh rotates the token and then tests the session, by
its Redis copy first; a password reset revokes every session of the user. Every
token handed out embeds roles and permissions read at that time, and is checked
against the Redis denylist by the auth-server and by the gateway, which turns its
claims into headers for the resource API. Signatures are made with the newest key
file and verified by `kid`, at the gateway from a copy of the public keys it
fetches. The browser client meets all this through one function, `apiRequest`,
which answers a 401 by a refresh and one retry. The audit log is written by all of
them and read by none.

What is hard to test here, and therefore what the properties are about: two
requests on one row or key between any two statements (refresh against refresh,
logout, or replay; exchange against replay; login against lockout, disabling or
reset; two guesses at one challenge; two role replacements); caches and rows that
are stale when used (session cache, lockout count, enrolment, roles); processes
that die between two statements, or between creating a file and writing it; calls
of two tabs that share one localStorage; a sub-second clock against whole-second
claims.
`PROJECT.json` lists them one by one under `hazards`.

## Modules

| module | models | run |
|---|---|---|
| `SessionTokens` | refresh tokens, sessions, session cache, and the handlers that drive them, the answer to a login challenge included | `SessionTokens_safety`, `SessionTokens_live`, `SessionTokens_audit` |
| `RefreshContract` | what refresh promises its callers: the abstract specification `SessionTokens` implements and `SpaClient` builds on | `SessionTokens_live`, `SpaClient_live` |
| `SpaClient` | the browser client, composed with `RefreshContract` | `SpaClient_live` |
| `Accounts` | one user account: register, verify, log in, lock, reset, disable | `Accounts_safety` |
| `Clients` | one OAuth client: registration, secret rotation, status, client authentication, client_credentials | `Clients_safety` |
| `Mfa` | enrolment, challenges and their attempts, disabling | `Mfa_safety`, `Mfa_attempts` |
| `AuthCodes` | authorization codes, their exchange and replay, the tokens derived from them | `KeysAndCodes_live` |
| `SigningKeys` | key files, rotation, the JWKS route, the gateway's copy of the keys | `KeysAndCodes_live` |
| `AccessTokens` | lifetime, clock tolerance, denylist | `Redis_safety` |
| `RateLimit` | the fixed-window counter | `Redis_safety` |
| `Rbac` | role and permission replacement, tokens that embed them | `Authorization_safety` |
| `Documents` | the gateway's headers and the documents routes | `Authorization_safety`, `Documents_policy` |
| `Slots` | the set of requests in flight, for the six modules that share a proof module | |

The theorems are in modules of their own, listed in *Proofs* below; components that
share a store or an endpoint share a proof module. `MC` modules add symmetry sets
and the values of constants a `.cfg` cannot write down. Three of them, `MCRedis`,
`MCAuthorization` and `MCKeysAndCodes`, put two components into one run. The two have
no variable in common, no step of the code touches both, and no property speaks of
both; a step of one is therefore taken only while the other rests in its initial
state (the definition `Apart`), which shows every behaviour of each and makes the
state space the sum of the two, not the product.

All modules have the same shape. Tables and Redis keys are variables, named after
columns; a row that does not exist has a null value (`"none"`, `NoToken`...).
`Requests` is a set of slots for requests in flight; each slot has a program
counter `pc` (`step` in `RateLimit` and `AuthCodes`, `stage` in `Rbac`) that names the
next statement and the handler's local variables.
An action with the name of a method models the statement(s) of that method; the
action that starts a handler is named for the handler. A slot that returns to
`"idle"` forgets its locals, so two slots stand for any number of requests of
which two overlap. History variables (declared as such) record what no table
holds and are read by properties only. Definitions called "Mutant of ..." are
plausible bugs, used to confirm that each property notices one.

What is abstracted: hashes, codes and secrets are model values and comparing
them is equality; PKCE is whether the verifier fits; passwords are the tokens
they were set with; six-digit codes are the secret they were computed from;
time, where it matters, is a bounded counter, and where it does not (refresh
tokens, codes) something simply may expire.

Particular choices:

* `SessionTokens.FindById` / `LoadFresh` / `SetCache`: the session cache may hold
  an old row; a cached `active` is never trusted but re-read, a cached `revoked`
  is. `RevokeAll` is shared by logout-everywhere and password reset. `Abort`
  (when `MayAbort`) drops a request between any two statements.
* A login of one of `SessionTokens.MfaUsers` may create a session without tokens and a
  challenge (`CreateStepUp`, `CreateChallenge`). Any number of requests may then answer
  the challenge at once: a correct code (`RightCode`) deletes it, looks the session up
  as a refresh does and inserts a root token; a wrong one (`WrongCode`) writes it back,
  even if it has been deleted meanwhile. The counter of attempts is in `Mfa`; here a
  challenge may vanish at any time (`LoseChallenge`).
* `Accounts.open` is the set of passwords that active sessions were opened with:
  enough to say whether a reset ended the sessions of the old password. The
  risk engine's verdict is a free choice (`RiskDenied`).
* In `AuthCodes` a request presents the redirect URI the code was issued for, or
  another one, independently of its client and verifier.
* `AuthCodes` repeats rotation as two statements (`Rotate`, `InsertNext`) because
  replay handling must interleave with it; the session test of a refresh is in
  `SessionTokens`.
* `AccessTokens` counts time in `Q` ticks a second. `exp` is `floor(now)+ttl`, the
  denylist TTL is rounded up, and a TTL of zero is "no expiry" to
  `RedisService.set`, as in the code.
* `Rbac` models READ COMMITTED: a replacement deletes the rows that were
  committed when its DELETE began. The INSERT of `setUserRoles` has no
  `ON CONFLICT`, that of `setRolePermissions` has. Scopes are no permissions:
  `requirePermission` would accept a scope of the same name, but
  `clients.routes.ts:16` admits no colon.
* `SigningKeys`: `LocalKeyProvider` is synchronous, so a process is interrupted
  only by being killed and interleaves only with other processes on the same
  directory; the actions are its file-system calls, and creating a file and
  writing it are two. The gateway's copy follows jose's `createRemoteJWKSet`
  (external): a copy older than `cacheMaxAge` is fetched again, a younger one for
  an unknown `kid` after a cooldown, concurrent checks share one fetch, and an
  answer is dated by its arrival, not by the listing.
* `Clients`: a request reads the row (`FindByClientId`) and verifies the secret
  against what it read (`VerifySecret`) later. `moment[r]` records whether the
  table would have admitted the request at some time since it arrived. A rotation of
  an id that no row has runs through (`UpdateNone`): nobody looks at the row count.
* `Mfa.bursts` counts, for each challenge, the answers that came while no other was
  being worked on: each of them opens a burst of answers that overlap.
* `Accounts.due` is the last end computed for the lock since it was lifted.
* `SpaClient`: between two awaits a call runs alone. `stored` is localStorage,
  shared by all tabs; `Requests` are calls of any tab. Access and refresh token are
  stored and removed together, so one name stands for the pair. `mishaps` collects
  what the client does not guard against, and the properties say which of these
  each promise survives. `/auth/logout` is one step here, since the contract
  allows its statements in any order.
* `Documents.Inbound` is what identity headers a request may come with, through
  the gateway or around it. `SharedSecret` is whether `GATEWAY_SHARED_SECRET` is
  configured; the properties are claimed when it is.

## Runs

| run | shows | bounds | distinct states |
|---|---|---|---|
| `SessionTokens_safety` | `OneLivePerFamily`, `SingleSuccessor`, `NoMintAfterRevocation`, `LiveSessionNotRefused`, `RevocationIsFinal` | 2 requests, 1 session, 3 tokens, 1 client, with aborts and expiry; no second factor | 837,385 |
| `SessionTokens_live` | `NoMintAfterRevocation`, `LiveSessionNotRefused`, `LogoutLeavesNoLiveToken`, `KeepsContract`, `ReplayKillsSession` | as above with the second factor, no client, no aborts, no expiry; fair | 361,551 |
| `SpaClient_live` | `StaysSignedIn`, `SignedOutStaysOut`, `CallsSettle` | 2 calls, 2 sessions, 3 tokens, 1 failure; fair | 287,368 |
| `Accounts_safety` | `LockoutReached`, `LockLastsItsTime`, `ResetTokenWorksOnce`, `StatusGates`, `ResetEndsOldSessions` | 2 requests that may die, 2 reset tokens, limit 2, 4 failures, 2 ticks | 3.7 million |
| `Clients_safety` | `TimelyAuthentication`, `ServiceTokensAreApi`, `OldSecretsDie` | 2 requests that may die, 1 client, 3 secrets, 2 scopes | 2,066,588 |
| `Mfa_safety` | `ThreeBursts`, `NoTokensAfterRevocation`, `ActiveSecretProved` | 2 requests, 2 secrets, 1 challenge, up to 12 checks | 1,876,445 |
| `KeysAndCodes_live` | `OldKeysVerify`, `NewestSigns`, `GatewayForgetsNoKey`, `RetriedTokenAccepted` | 2 processes, 2 keys, 3 ticks, cooldown 1, cache age 2; fair | 230,941 |
| | `SingleExchange`, `TokensStayWithClient`, `OnlyVerifierBurns`, `ReplayAnswered` | 2 requests, 1 code, 2 clients, 3 tokens; fair | |
| `Redis_safety` | `RevokedUntilExpiry`, `EntriesPurge` | 3 requests, 1 token, TTL 3 s, tolerance 5 s, half seconds, 10 s | 617,347 |
| | `LimitHolds`, `CounterExpires` | 3 requests that may die, limit 2, window 2, 3 windows | |
| `Authorization_safety` | `IdentityIsVerified`, `OnlyEntitledDelete` | 2 requests, 2 users, 1 service, 3 documents | 1,153,425 |
| | `TokensAreTimely`, `OldRowsGo` | 2 requests, 1 user, 2 roles, 2 permissions, 1 live token | |

Three more runs state what a line of the repository says and find it violated, each
on the bounds of its module's run (see *Findings*): `SessionTokens_audit`
(`ReuseIsAudited`, with a client), `Mfa_attempts` (`ThreeAttempts`) and
`Documents_policy` (`OwnerOrAdminDeletes`).

Each module also states its type invariant (`TypeOK`, `LimiterTypeOK`, `RbacTypeOK`,
`CodesTypeOK`), and all of them are proved. They are no invariants
of the runs, which are spent on the properties above.

Why these bounds are enough to be interesting: every hazard in the list is a race
of two requests (three for the rate limiter, where late deciders of one window
meet two of the next), and slots are reused, so a behaviour may contain many
requests in sequence. Rows of different sessions, accounts, codes or challenges
are touched together by no statement except "all of the user's sessions", so one
of each shows the races; three refresh tokens give a root, its successor and a
successor of that (or a second root). Two clients are needed for a code to be
presented by the wrong one, two users for a document to be foreign, three secrets
for a registration and two rotations, two processes for a directory to be shared
and a torn file to be seen, two calls for the account view and for two tabs to
meet. In `SpaClient` a call starts only while enough tokens are left for it, at
most one request fails in a behaviour, tokens and sessions are used in a fixed
order (their names mean nothing), and an access token does not expire while a
retry is on its way with it: its lifetime is minutes. Counters are
chosen so that the limit is passed: four failures for a limit of two, twelve
checks for a limit of three, five INCRs for a limit of two. Clocks run past the
last moment that matters (lock end; `exp` + tolerance). `Accounts_safety` runs its
clock for two ticks only: a lock can run out, a second one can be set.
`PROJECT.json` gives for each property a mutant of the code under which the same
run finds it violated.

Symmetry is used for safety only; runs with liveness have none. `SessionTokens_live`
uses tokens in one fixed order instead (the action constraint `InOrder`): their names
mean nothing, and a request that needs one can always take the next.

Fairness: `FairSpec` (`FairCodesSpec` in `AuthCodes`) has weak fairness of `Step(r)`
(`GrantStep(r)`), a request that has started
takes its next statement. `KeysAndCodes_live` has the fairness of both its components;
its codes move only when the keys are at rest with nothing left to be fair to. The
database and Redis answer and the event loop resumes every handler, so a started request that has not died proceeds; nobody is
assumed to send a request, let time pass or expire anything. Statements are never
blocked by other requests (there are no locks), so weak fairness suffices. The
liveness run of `SessionTokens` leaves aborts out: a request that died is not
continued by anybody. In `SigningKeys` a process that is not killed goes on, a
fetch is answered and time passes; that a bearer keeps presenting its token is an
assumption of the one property that needs it, and written into it. In `SpaClient`
the servers answer, possibly with a failure, and the browser resumes the call;
nobody has to click.

### Contract and composition

`RefreshContract` says what callers of refresh may rely on, with no families,
caches or statements: a live token is taken by one call, which renews it once; a
call that arrives after its session is over is never answered; a usable token is
never refused, and a refused call leaves its session over. `SessionTokens` defines
the refinement mapping (`Promise`): sessions and tokens lose their reasons and
ways of ending, and the program points of a login, an answered challenge or a refresh
map to four stages (`IsCall`, `Stage`); all other requests are the contract's
environment. A session may be opened to wait for a second factor (`Await`), and any
number of calls may then prove it (`Prove`) and get a root token each, or be refused
because the session is over (`RefuseOpening`).
`KeepsContract` is checked in `SessionTokens_live`, without OAuth clients, as the
token endpoint has two refusals of its own (client and scope), and without aborts,
as an abort would excuse every refusal. `RotationKeepsContract` proves it for all
constants, clients, aborts and expiry included. `SpaClient` EXTENDS the
contract and adds the browser, so what it shows holds of the browser together with
anything that keeps the contract, for as long as no refresh token expires: the
model has no `Expire`. `ClientKeepsContract` proves the other half, that the
browser asks for nothing the contract does not grant: every step of `SpaClient` is
a step of the contract or none of its business, and a refresh is only ever asked
for with a token that some answer brought.

### What the passing runs say

* **Refresh tokens.** Rotation is one conditional UPDATE, and that is enough: no
  interleaving yields two active tokens of a family or two successors of a token,
  and nothing revoked comes back. The session test is exact in both directions
  although the cache may be stale. Presenting a spent token always ends its
  session. A logout that races with a refresh leaves the client no active token,
  because `revoke` ends the session first and the tokens second, while the
  refresh inserts its token first and tests the session second. The answer to a login
  challenge does it the other way round, test first and insert second; so what may
  outlive a logout is the root token of a second answer to the same challenge, and
  nothing else (`LogoutLeavesNoLiveToken`). It is refused at its first use.
* **Accounts.** The lock comes at most as many failures late as there are other
  requests in flight; logins that reach the limit together write their ends in any
  order, and the lock lasts to the last of them; a reset token works once. The status
  gates and the end of old sessions hold under the conditions the properties name
  (never locked; no login that straddled the reset): the next section says what
  happens otherwise.
* **Contract.** Seen from outside, a refresh is: take, renew, answer, or a refusal
  that ends the session. No interleaving inside shows.
* **Browser.** A user stays signed in through any number of access token expiries,
  as long as no two refreshes overlap, no sign-in or sign-out crosses another call
  and nothing fails: each of these conditions is needed (below). A sign-out that
  crosses no other call empties the storage even when its request fails; one that
  crosses other calls leaves at most a token of a session that is over, unless a
  request failed or another sign-in was under way. Every call settles.
* **Keys.** Whatever has been signed can be verified, through rotations, two first
  starts at once and restarts, but for the moment a key file is being written. The
  `rotateSeq` makes the newest key win within one process. The gateway's copy only
  grows, and a token with a new key is accepted in the end.
* **Clients.** Whoever is served was entitled to it at one moment of its request; a
  service token has `api.*` scopes only, although the registration tests confidential
  clients alone. Once a rotation is answered no secret told before it began is ever
  stored again, also when rotations overlap or die.
* **Codes.** One exchange, by the right client with the right redirect URI and
  verifier; wrong ones do not burn the code; what exists when a replay is detected is revoked.
* **Second factor.** However many answers to a challenge overlap, each burst of them
  costs at least one of its three attempts, so codes tried one after the other are
  three at most; within a burst any number may be checked (*Findings*). An answer that
  begins after the session was revoked gets no tokens.
* **Access tokens.** Revocation is airtight up to `exp`, whatever part of a second
  it fell in.
* **Rate limiter.** A window admits at most its limit, late deciders included, and
  `Retry-After` is always between one second and the window.
* **Roles.** A token carries only roles and permissions its user had at some
  moment while it was being issued (they may be of two moments), and exactly
  those of the tables when nothing changed meanwhile. A committed replacement
  leaves nothing that was there before it.
* **Documents.** With the shared secret configured, the resource API acts on
  verified claims only; a document is removed only for a service, an administrator or
  the owner it has at that moment, although the DELETE repeats none of the tests.

### Findings

Three statements of the repository are properties of a run of their own, and TLC shows
how the code violates them:

* `refresh-token.service.ts:26-27`: reuse is "revoked (reuse detection) and audited"
  (`ReuseIsAudited`). `handleReuseOrInvalid` throws an `AppError`, `OAuthService.token`
  tests for an `AuthError` (`oauth.service.ts:269`): a spent token presented at the token
  endpoint ends its session, and no event is written.
* `mfa.service.ts:97`: "Max 3 attempts" (`ThreeAttempts`). The counter is read, raised
  and written back (`:112`): two overlapping wrong codes cost one attempt, and an answer
  that stalled winds the counter back.
* `docs/openapi.yaml:415`: "owner or admin", and the message at
  `documents.routes.ts:93` (`OwnerOrAdminDeletes`). A user must be both: an owner who is
  no administrator gets 403, an administrator who is not the owner 404.

### Where the code does otherwise than it says

The models contain these behaviours too, and the properties of the passing runs are
stated so that they hold beside them:

* `lockUntil` overwrites `pending_verification` (`user.repository.ts:83`): once the
  lock is over an unverified account can log in
  (`tests/integration/login-flow.spec.ts:149`: "unverified accounts cannot log in").
* A replay detected while the winning exchange, or a refresh of its tokens, has yet
  to insert a token misses that token (`oauth.service.ts:483`: "revoke everything
  derived from the code").
* A refresh between rotation and insert while reuse detection revokes the family
  leaves an active token behind, and may even be answered, since the session is
  revoked after the family (`refresh-token.service.ts:111`). It is refused at its
  next use, because the session is over by then.
* Any known hash counts as reuse (`refresh-token.service.ts:104`), also an active
  token that has merely expired.
* `revokeByToken` revokes the row presented: of a token that was already rotated
  the successor stays active (`tests/integration/oauth.spec.ts:327` has "kills the
  chain").
* The lockout decision uses the count read before the increment
  (`auth.service.ts:101`): `LockoutReached` says how late it can be.
* `lockUntil` also overwrites `disabled` when a login in flight reaches it after
  the administrator did.
* A login that verified the old password may create its session after the reset
  has revoked all of them (`docs/openapi.yaml:187`: "all sessions revoked").
* Two requests that have read the same challenge may both succeed
  (`mfa.service.ts:119`; `:96`: "consumes the challenge"), and each inserts a root token.
  One that has looked at the session before a logout inserts its token after it; the
  token is active, and refused when it is used. `confirmEnroll` activates whatever
  secret the row holds by then (`:62`); `beginEnroll` sets an active method to pending, after which logins
  need no code (`:42`).
* The denylist entry ends at `exp`, the verifiers accept the token for
  `clockTolerance` seconds more: in that time a revoked token is served again.
* INCR and EXPIRE are two commands (`redis.service.ts:67`): a process that dies in
  between leaves a counter without expiry.
* Two overlapping replacements of one user's roles, or one role's permissions,
  may merge (`rbac.repository.ts:69`): each DELETE misses the other's INSERT.
* A process that dies between creating and writing a key file leaves an empty one;
  every listing then throws, so nothing is signed or verified until it is removed.
  A process that lists at that moment fails that once.
* `rotateSeq` restarts at 0: after a restart, or with two processes, a key made
  later may sort behind one made earlier and not become current.
* `rotate-secret` gives public clients a secret too, with which they may introspect;
  introspection serves disabled clients; `grant_types` is tested for
  client_credentials only.
* Two overlapping rotations of a client secret may store one and tell the other
  last; a rotation for an id no client has answers 201 with a secret that is stored
  nowhere (`client.repository.ts:85`).
* The account view sends two requests at once. When the access token has expired
  both are refused, both may present the stored refresh token, and the second is a
  replay that ends the session: the user is signed out.
* A 401 of the login or MFA form (a wrong password or code) makes `apiRequest`
  refresh with a token another tab has stored and send the form again: the wrong
  password counts twice.
* A refresh that fails empties the storage even when a sign-in has filled it since;
  a refresh that ends after a sign-out fills it again, with live tokens if the
  sign-out's request had failed. A sign-out that is retried while another tab has
  signed in ends the other's session.
* `/auth/logout` does not denylist the access token: it is served until it expires.

## Proofs

Every safety property of the runs is proved, invariants and action properties
alike, for every value of the constants: any number of requests in flight, any
rows, limits and durations, where the runs have two or three. The bounds that keep
TLC's state space finite (`MaxCount`, `MaxTime`, `MaxChecks`...) are arbitrary
numbers in the proofs. `[]` is left out of the table; each proof module also has
the invariance of its `IInv` and the type invariant (`Invariance` and `TypeCorrect`,
or the names in the table).

Three proof modules hold two components each and EXTEND both. The second of each
pair therefore names its specification after itself: `LimiterSpec`, `RbacSpec` and
`CodesSpec` are the `Spec` of `RateLimit`, `Rbac` and `AuthCodes`. The two have nothing
in common but the set `Requests` of `Slots`; no theorem speaks of both.

| proof module | theorems (what `Spec` implies) | inductive invariant |
|---|---|---|
| `SessionTokensProofs` | `RotationIsSingleUse` (`OneLivePerFamily`), `FamiliesAreChains` (`SingleSuccessor`), `NoLateMint` (`NoMintAfterRevocation`), `NoFalseRefusal` (`LiveSessionNotRefused`), `RevocationsStay` (`RevocationIsFinal`), `LogoutIsThorough` (`~MayAbort => LogoutLeavesNoLiveToken`), `RotationKeepsContract` (`KeepsContract`) | `Base`, `Chain`, `Verdict`; `Aftermath` |
| `AccountsProofs` | `ResetsWorkOnce` (`ResetTokenWorksOnce`), `GatesHold` (`StatusGates`), `OldSessionsEnd` (`ResetEndsOldSessions`), `LockIsReached` (`LockoutReached`), `LocksLast` (`LockLastsItsTime`) | `Once`, `Gates`, `OldSessions`, `Counts`; `LockDue` |
| `OAuthProofs` | `Clients`: `AuthenticationIsTimely` (`TimelyAuthentication`), `ServicesStayInApi` (`ServiceTokensAreApi`), `RotationEndsOldSecrets` (`OldSecretsDie`) | `Registered`, `Timely`, `Told` |
| | `AuthCodes`: `CodesAreSingleUse` (`SingleExchange`), `FamiliesStayWithClient` (`TokensStayWithClient`), `VerifierBurns` (`OnlyVerifierBurns`); `CodesInvariance`, `CodesTypes` | `CodesInv`: `CodeFrames`, `Families`, `Single` |
| `MfaProofs` | `EnrolmentsAreProved` (`ActiveSecretProved`), `RevokedYieldsNoTokens` (`NoTokensAfterRevocation`), `BurstsAreCounted` (`ThreeBursts`) | `Frames`, `Proved`, `Revoked`, `Paid` |
| `AuthorizationProofs` | `Documents`: `IdentityFromClaims` (`IdentityIsVerified`), `DeletesAreEntitled` (`OnlyEntitledDelete`) | `Counted`, `Origin`, `Tested` |
| | `Rbac`: `ClaimsAreTimely` (`TokensAreTimely`), `ReplacementsReplace` (`OldRowsGo`); `RbacInvariance`, `RbacTypes` | `RbacInv`: `Replacing`, `Issues` |
| `SigningKeysProofs` | `SignaturesVerify` (`OldKeysVerify`), `RotationTakesEffect` (`NewestSigns`), `GatewayRemembers` (`GatewayForgetsNoKey`) | `Directory`, `Copies`, `Sequence` |
| `RedisProofs` | `AccessTokens`: `DenylistIsBounded` (`EntriesPurge`), `RevocationIsAirtight` (`RevokedUntilExpiry`) | `Frames`, `Covered`, `EntriesPurge` |
| | `RateLimit`: `LimitIsKept` (`LimitHolds`), `CountersExpire` (`CounterExpires`); `LimiterInvariance`, `LimiterTypes` | `LimiterInv`: `Admissions`, `Expiries` |
| `SpaClientProofs` | `StaysIn` (`StaysSignedIn`), `StaysOut` (`SignedOutStaysOut`), `ClientKeepsContract` (`Contract`) | `Rows`, `Fresh`, `Frames`, `Retries`; `Alone`, `Ours`, `Calm` |

Assumptions: only the named ones at the head of each component, which TLC
evaluates on every run. They say that null values are no values, that limits
and durations are natural numbers (positive where the configuration's are), and
that bounded sets are what the code makes them (`Inbound \subseteq Sent`, `Keys`
numbered). The set of requests is finite where a proof counts requests
(`Accounts`, `Mfa`, `Documents`, `RateLimit`). Each invariant was checked by TLC on the
component's run before it was proved.

None of the properties is inductive alone, and each needs to know what a request
half way through its statements has read and still owes:

* **`SessionTokens`.** `IInv` has three layers, each proved from the ones before
  (`BaseNext`, `ChainNext`, `VerdictNext`). `Base`: types; `Rows`, the foreign keys;
  `Frames`, what a request's locals hold at each statement. `Chain`: the two
  rotation properties and `Spent`: a token whose successor is being inserted, or
  exists, is not active. Without `Spent` a second refresh could rotate the same
  token again. `Verdict`: a cached `revoked` and a row read as `revoked` are true of
  the table, and a request that arrived after the revocation has read nothing but
  `revoked`. This is what makes a stale cache harmless. `Aftermath` adds what is
  owed (`LoggedOut`): an active token of a session that was logged out is about to be
  revoked by the logout, or belongs to a refresh that will find the session over and
  hand nothing out, or is one of two roots (`Twin`); and every session somebody holds an
  access token for has a root already (`Openings`), which is why a root inserted after a
  logout is a second one. The theorem needs `~MayAbort`: a request that died pays
  nothing.
* **Refinement.** `StepKeepsContract` takes every action to a step of
  `RefreshContract` or a stutter, from `Base`, `Verdict` and `Slots`: `CallSteps` for
  what opens, takes, renews and answers, `RefusalSteps` for the refusals, which
  are the hard ones (the contract allows a refusal only when the token is unusable,
  or the session over), `QuietSteps` for the requests the contract does not see.
* **`Accounts`.** `Counts` is the reason the lock comes: while nobody is about to set
  it, the failures counted, plus the logins in flight that have yet to count theirs
  and have read too little to lock (`Low`), are at most the limit plus the number of
  requests less two. `Once`: a
  reset token is consumed before it is applied, by one request. `LockDue`: the end
  computed last is in the row, or a login is about to write it. `Gates` and
  `OldSessions` say by which ways a status or an open session can be what it is.
* **`AuthCodes`.** `Single`: a code that is not consumed has made no session, and of
  all requests with one code at most one is past the UPDATE with its session yet to
  create. `Families` carries the client from token to token.
* **`Clients`.** The row is read once and trusted, so `Timely` says that a request
  whose copy would admit it has had its moment; `Registered` that every copy passed
  the registration tests; `Told` that secrets under way are different and known to
  nobody, and that a rotation past its UPDATE has left no older secret in the row.
* **`Mfa`.** `Paid`: between bursts a challenge has counted an attempt for each of them;
  during one it may lack that burst's, which whatever an answer under way writes back
  counts. An answer that stalled since an earlier burst cannot be, as it would have kept
  that burst going.
* **`Documents`.** `Origin`: headers are verified claims or come without the secret.
  `Tested`: what the delete was tested on stays true, since owners never change.
* **`SigningKeys`.** `Directory`: whatever is signed with, fetched or about to be used
  is a complete file. `Sequence`: while one process makes the keys their stamps
  increase, so the listing's first is the last made.
* **`AccessTokens`.** All of it is rounding: `EntryIsExact` proves that the entry
  written by `revokeUntil` ends no earlier than `exp` and less than a second later
  (or one second from now). The proof of the type invariant showed that the bound
  `Forever` was too small for long lifetimes; it has been raised.
* **`RateLimit`.** A request may decide long after the window it was counted in is
  over. `Admissions` therefore counts, for every life of the key, those admitted and
  those that hold one of its first `Limit` counts and are going to be (`Passing`):
  together they are at most the limit, and for the present life at most the counter.
  `Expiries`: a counter without expiry has its creator about to set one.
* **`Rbac`.** `Replacing`: between DELETE and commit the rows of a key are among those
  the DELETE saw and those committed since. `Issues`: what an issue has read its user
  has had since it began, and it is what the tables say unless something was
  committed meanwhile.
* **`SpaClient`.** The properties speak of a browser at rest; the invariant follows
  the tokens while calls are in flight, in layers that each hold for as long as
  certain mishaps have not happened. `Alone` (no sign-in or sign-out crossed a call):
  such a call is alone, and signed out means empty storage. `Ours` (no sign-in
  crossed, nothing failed): every token that may still be stored or sent is of the
  user's session, or, after the sign-out, of one that is over, and whatever empties
  the storage (a refused refresh, a retry without a token) happens only when that
  session is over. `Calm` (no mishap at all): one refresh at a time carries the one
  usable token from storage through the server and back, so none is ever refused
  (`NoRefusal`) and nothing empties the storage. `Calm` needs `Alone` and `Ours` for
  its step; `Retries`, that a retry bears an access token that has just been issued,
  is what keeps the 401 of a retry from looking like the end of the session.

Model-checked only: what needs fairness (`ReplayKillsSession`, `ReplayAnswered`,
`RetriedTokenAccepted`, `CallsSettle`), which is out of the prover's reach.

## Not modelled

* Cryptography (signatures, hashing, envelope encryption, TOTP arithmetic), issuer
  and audience tests: taken to succeed for genuine tokens. The master key file that
  development servers generate (`local-key-provider.ts:70`).
* The risk engine's scoring: its verdict is a free choice in `Accounts`, which covers
  every score. Of its state, `risk:failed` is written nowhere, and `isKnownDevice`
  (`auth.service.ts:383`) remembers the device before the verdict.
* Configuration, validation, logging, error formatting, e-mail delivery, health,
  discovery and documentation routes, userinfo: no state of their own.
* The audit log beyond the reuse event: `AuditLogService.record` never throws, and
  nothing reads it back but the listing.
* Expiry of e-mailed tokens: it only removes behaviours.
* The presentation of the views, and static files of the frontend. Registration,
  verification and password reset in the browser never meet a 401 and touch no
  tokens.
* Running migrations; the profile update; listings that only read.

## Plan

What is left: the risk engine, its scoring as an operator, with the counters and
devices it reads.
