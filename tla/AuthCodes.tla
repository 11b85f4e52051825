------------------------------ MODULE AuthCodes ------------------------------
(***************************************************************************)
(* Authorization codes: OAuthService.authorize, the authorization_code     *)
(* grant of OAuthService.token and AuthorizationCodeRepository, with the   *)
(* tokens the grant hands out, their rotation, and the answer to a replay. *)
(*                                                                         *)
(* One awaited statement is one action.  Tokens are those of one user;     *)
(* what SessionTokens says about rotation in detail is here two statements *)
(* (rotate, insert), enough to interleave with a replay's revocation.      *)
(***************************************************************************)
EXTENDS Slots, Naturals, FiniteSets

CONSTANTS
    Codes,      \* authorization codes newCode may generate
    Apps,       \* registered clients, each with the redirect URIs it registered
    Tokens,     \* refresh tokens
    NoCode, NoClient, NoToken

\* The null values are no values.
ASSUME CodeConstants == NoCode \notin Codes /\ NoClient \notin Apps /\ NoToken \notin Tokens

VARIABLES
    clientActive,  \* oauth_clients.status = 'active'
    \* table authorization_codes
    codeClient,    \* NoClient while the row does not exist
    consumed,      \* codes with consumed_at set
    expired,       \* codes with expires_at in the past
    \* table refresh_tokens
    tokStatus,
    tokCode,       \* history: the code the token's family descends from
    tokClient,
    held,          \* refresh tokens returned in a response
    \* the requests' own variables
    step,
    code,
    cli,           \* the authenticated client
    uri,           \* TRUE when redirect_uri is the one the code was issued for
    verifier,      \* TRUE when code_verifier matches the code's challenge
    tok,           \* the token issued, or the token rotated
    \* history
    exchanges      \* how many times a code was turned into a session

rows   == <<codeClient, consumed, expired, tokStatus, tokCode, tokClient>>
params == <<code, cli, uri, verifier, tok>>
codesVars == <<clientActive, rows, held, step, params, exchanges>>

TokenStates == {"none", "active", "rotated", "revoked"}
Steps == {"idle", "issueCode", "peek", "consume", "flip", "revokeForReplay",
           "createSession", "issueToken", "insertNext"}

Fresh == {t \in Tokens : tokStatus[t] = "none"}
InFlight == {r \in Requests : step[r] # "idle"}

\* Bound: enough unused tokens for the requests that may still need one.
Room == Cardinality(Fresh) > Cardinality(InFlight)

StepTo(r, l) == step' = [step EXCEPT ![r] = l]

Finish(r) ==
    /\ StepTo(r, "idle")
    /\ code' = [code EXCEPT ![r] = NoCode]
    /\ cli' = [cli EXCEPT ![r] = NoClient]
    /\ uri' = [uri EXCEPT ![r] = FALSE]
    /\ verifier' = [verifier EXCEPT ![r] = FALSE]
    /\ tok' = [tok EXCEPT ![r] = NoToken]

CodesInit ==
    /\ clientActive = [c \in Apps |-> TRUE]
    /\ codeClient = [a \in Codes |-> NoClient]
    /\ consumed = {} /\ expired = {} /\ held = {}
    /\ tokStatus = [t \in Tokens |-> "none"]
    /\ tokCode = [t \in Tokens |-> NoCode]
    /\ tokClient = [t \in Tokens |-> NoClient]
    /\ step = [r \in Requests |-> "idle"]
    /\ code = [r \in Requests |-> NoCode]
    /\ cli = [r \in Requests |-> NoClient]
    /\ uri = [r \in Requests |-> FALSE]
    /\ verifier = [r \in Requests |-> FALSE]
    /\ tok = [r \in Requests |-> NoToken]
    /\ exchanges = [a \in Codes |-> 0]

-----------------------------------------------------------------------------
(* OAuthService.authorize.                                                 *)

\* findByClientId; redirect URI, scope, PKCE method and challenge are as the
\* client registered them, and the user is signed in and active.
Authorize(r, c) ==
    /\ step[r] = "idle"
    /\ clientActive[c]
    /\ cli' = [cli EXCEPT ![r] = c]
    /\ StepTo(r, "issueCode")
    /\ UNCHANGED <<clientActive, rows, held, code, uri, verifier, tok, exchanges>>

\* AuthorizationCodeRepository.issue.  Bound: nothing is issued once Codes is
\* used up.
IssueCode(r) ==
    /\ step[r] = "issueCode"
    /\ \/ \E a \in Codes : /\ codeClient[a] = NoClient
                           /\ codeClient' = [codeClient EXCEPT ![a] = cli[r]]
       \/ (\A a \in Codes : codeClient[a] # NoClient) /\ UNCHANGED codeClient
    /\ Finish(r)
    /\ UNCHANGED <<clientActive, consumed, expired, tokStatus, tokCode, tokClient,
                   held, exchanges>>

-----------------------------------------------------------------------------
(* The authorization_code grant.                                           *)

\* The client is known, active and authenticated.
Exchange(r, a, c, u, v) ==
    /\ step[r] = "idle" /\ Room
    /\ clientActive[c]
    /\ codeClient[a] # NoClient
    /\ code' = [code EXCEPT ![r] = a]
    /\ cli' = [cli EXCEPT ![r] = c]
    /\ uri' = [uri EXCEPT ![r] = u]
    /\ verifier' = [verifier EXCEPT ![r] = v]
    /\ StepTo(r, "peek")
    /\ UNCHANGED <<clientActive, rows, held, tok, exchanges>>

\* Mutant of Bound: the client of the code is not compared.
BoundToAnybody(r) == codeClient[code[r]] # NoClient /\ uri[r]

\* client_ref and redirect_uri of the row are those of the request.
Bound(r) == codeClient[code[r]] = cli[r] /\ uri[r]

\* CodeReplayError
Replay(r) ==
    /\ StepTo(r, "revokeForReplay")
    /\ UNCHANGED <<exchanges, params>>

\* The checks peek and consume share, in their order.
Lookup(r, next) ==
    \/ (~Bound(r) \/ (code[r] \notin consumed /\ code[r] \in expired))
          /\ Finish(r) /\ UNCHANGED exchanges
    \/ Bound(r) /\ code[r] \in consumed /\ Replay(r)
    \/ Bound(r) /\ code[r] \notin consumed /\ code[r] \notin expired
          /\ next /\ UNCHANGED exchanges

\* Mutant of Peek: PKCE is left to the code's consumption.
PeekWithoutPkce(r) ==
    /\ step[r] = "peek"
    /\ Lookup(r, StepTo(r, "consume") /\ UNCHANGED params)
    /\ UNCHANGED <<clientActive, rows, held>>

\* peek and the PKCE test: a wrong verifier stops here.
Peek(r) ==
    /\ step[r] = "peek"
    /\ Lookup(r, \/ verifier[r] /\ StepTo(r, "consume") /\ UNCHANGED params
                 \/ ~verifier[r] /\ Finish(r))
    /\ UNCHANGED <<clientActive, rows, held>>

\* consume: the SELECT
ConsumeSelect(r) ==
    /\ step[r] = "consume"
    /\ Lookup(r, StepTo(r, "flip") /\ UNCHANGED params)
    /\ UNCHANGED <<clientActive, rows, held>>

\* Mutant of ConsumeFlip: consumed_at IS NULL is not asked for.
ConsumeFlipAlways(r) ==
    /\ step[r] = "flip"
    /\ consumed' = consumed \union {code[r]}
    /\ StepTo(r, "createSession")
    /\ UNCHANGED <<clientActive, codeClient, expired, tokStatus, tokCode, tokClient,
                   held, params, exchanges>>

\* consume: UPDATE ... WHERE consumed_at IS NULL; the loser of a race replays.
ConsumeFlip(r) ==
    /\ step[r] = "flip"
    /\ \/ /\ code[r] \notin consumed
          /\ consumed' = consumed \union {code[r]}
          /\ StepTo(r, "createSession")
          /\ UNCHANGED <<params, exchanges>>
       \/ code[r] \in consumed /\ Replay(r) /\ UNCHANGED consumed
    /\ UNCHANGED <<clientActive, codeClient, expired, tokStatus, tokCode, tokClient, held>>

\* issueUserTokens: roles are read and the session created.
CreateSession(r) ==
    /\ step[r] = "createSession"
    /\ exchanges' = [exchanges EXCEPT ![code[r]] = @ + 1]
    /\ StepTo(r, "issueToken")
    /\ UNCHANGED <<clientActive, rows, held, params>>

\* issueUserTokens: the access token is signed, the refresh token inserted, the
\* id token signed and the response sent.
IssueToken(r) ==
    /\ step[r] = "issueToken"
    /\ \E t \in Fresh :
          /\ tokStatus' = [tokStatus EXCEPT ![t] = "active"]
          /\ tokCode' = [tokCode EXCEPT ![t] = code[r]]
          /\ tokClient' = [tokClient EXCEPT ![t] = cli[r]]
          /\ held' = held \union {t}
    /\ Finish(r)
    /\ UNCHANGED <<clientActive, codeClient, consumed, expired, exchanges>>

\* Mutant of RevokeTokensForReplay: only rotated tokens are revoked.
RevokeRotatedForReplay(r) ==
    /\ step[r] = "revokeForReplay"
    /\ tokStatus' = [t \in Tokens |->
           IF tokClient[t] = codeClient[code[r]] /\ tokStatus[t] = "rotated"
           THEN "revoked" ELSE tokStatus[t]]
    /\ Finish(r)
    /\ UNCHANGED <<clientActive, codeClient, consumed, expired, tokCode, tokClient,
                   held, exchanges>>

\* handleCodeReplay: every refresh token of the user and client, of this code
\* or another, is revoked; the sessions stay.
RevokeTokensForReplay(r) ==
    /\ step[r] = "revokeForReplay"
    /\ tokStatus' = [t \in Tokens |->
           IF tokClient[t] = codeClient[code[r]] /\ tokStatus[t] \in {"active", "rotated"}
           THEN "revoked" ELSE tokStatus[t]]
    /\ Finish(r)
    /\ UNCHANGED <<clientActive, codeClient, consumed, expired, tokCode, tokClient,
                   held, exchanges>>

-----------------------------------------------------------------------------
(* The refresh_token grant, reduced to its two writes.                     *)

\* RefreshTokenService.consume: the UPDATE
Rotate(r, t) ==
    /\ step[r] = "idle" /\ Room
    /\ tokStatus[t] = "active"
    /\ tokStatus' = [tokStatus EXCEPT ![t] = "rotated"]
    /\ tok' = [tok EXCEPT ![r] = t]
    /\ StepTo(r, "insertNext")
    /\ UNCHANGED <<clientActive, codeClient, consumed, expired, tokCode, tokClient,
                   held, code, cli, uri, verifier, exchanges>>

\* RefreshTokenService.consume: the INSERT; the session is still active, since
\* nothing here revokes one, and the new token is returned.
InsertNext(r) ==
    /\ step[r] = "insertNext"
    /\ \E t \in Fresh :
          /\ tokStatus' = [tokStatus EXCEPT ![t] = "active"]
          /\ tokCode' = [tokCode EXCEPT ![t] = tokCode[tok[r]]]
          /\ tokClient' = [tokClient EXCEPT ![t] = tokClient[tok[r]]]
          /\ held' = held \union {t}
    /\ Finish(r)
    /\ UNCHANGED <<clientActive, codeClient, consumed, expired, exchanges>>

\* AUTHORIZATION_CODE_TTL passes.
ExpireCode(a) ==
    /\ codeClient[a] # NoClient /\ a \notin expired
    /\ expired' = expired \union {a}
    /\ UNCHANGED <<clientActive, codeClient, consumed, tokStatus, tokCode, tokClient,
                   held, step, params, exchanges>>

\* ClientRepository.setStatus
SetClientStatus(c, on) ==
    /\ clientActive[c] # on
    /\ clientActive' = [clientActive EXCEPT ![c] = on]
    /\ UNCHANGED <<rows, held, step, params, exchanges>>

StartGrant(r) ==
    \/ \E c \in Apps : Authorize(r, c)
    \/ \E a \in Codes, c \in Apps, u, v \in BOOLEAN : Exchange(r, a, c, u, v)
    \/ \E t \in held : Rotate(r, t)

GrantStep(r) ==
    \/ IssueCode(r) \/ Peek(r) \/ ConsumeSelect(r) \/ ConsumeFlip(r)
    \/ CreateSession(r) \/ IssueToken(r) \/ RevokeTokensForReplay(r) \/ InsertNext(r)

CodesNext ==
    \/ \E r \in Requests : StartGrant(r) \/ GrantStep(r)
    \/ \E a \in Codes : ExpireCode(a)
    \/ \E c \in Apps, on \in BOOLEAN : SetClientStatus(c, on)

CodesSpec == CodesInit /\ [][CodesNext]_codesVars

\* Every request that has started is carried to its end.
CodesFairness == \A r \in Requests : WF_codesVars(GrantStep(r))

FairCodesSpec == CodesSpec /\ CodesFairness

-----------------------------------------------------------------------------
(* Properties.                                                             *)

\* Every variable has its type.
CodesTypeOK ==
    /\ clientActive \in [Apps -> BOOLEAN]
    /\ codeClient \in [Codes -> Apps \union {NoClient}]
    /\ consumed \subseteq Codes /\ expired \subseteq Codes
    /\ tokStatus \in [Tokens -> TokenStates]
    /\ tokCode \in [Tokens -> Codes \union {NoCode}]
    /\ tokClient \in [Tokens -> Apps \union {NoClient}]
    /\ held \subseteq Tokens
    /\ step \in [Requests -> Steps]
    /\ code \in [Requests -> Codes \union {NoCode}]
    /\ cli \in [Requests -> Apps \union {NoClient}]
    /\ uri \in [Requests -> BOOLEAN] /\ verifier \in [Requests -> BOOLEAN]
    /\ tok \in [Requests -> Tokens \union {NoToken}]
    /\ exchanges \in [Codes -> Nat]

\* A code is turned into a session at most once, however many exchanges race.
SingleExchange == \A a \in Codes : exchanges[a] <= 1

\* Every token of a code belongs to the client the code was issued to.
TokensStayWithClient ==
    \A t \in Tokens : tokCode[t] # NoCode => tokClient[t] = codeClient[tokCode[t]]

\* "a wrong verifier does not burn the single-use code": a code is only ever
\* consumed by an exchange with the redirect URI it was issued for, and with proof
\* of possession of the verifier.
OnlyVerifierBurns ==
    [][\A a \in consumed' \ consumed :
          \E r \in Requests :
              step[r] = "flip" /\ code[r] = a /\ uri[r] /\ verifier[r]]_codesVars

\* A detected replay is always answered: every token of the code that exists
\* while the replay waits to be answered ends up unusable.
ReplayAnswered ==
    \A t \in Tokens :
        (\E r \in Requests : step[r] = "revokeForReplay" /\ code[r] = tokCode[t])
            ~> (tokStatus[t] \in {"none", "rotated", "revoked"})

=============================================================================
