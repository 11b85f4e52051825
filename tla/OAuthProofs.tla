----------------------------- MODULE OAuthProofs -----------------------------
(***************************************************************************)
(* Proofs about the OAuth endpoints: client authentication (Clients) and   *)
(* the authorization code grant (AuthCodes).                               *)
(*                                                                         *)
(* Clients, for every set of requests, secrets and scopes.  The row is     *)
(* read once and trusted afterwards, so the invariant ties what a request  *)
(* holds to what the row was: Registered (every row, stored or read,       *)
(* passed the registration tests), Timely (a request whose copy of the row *)
(* would admit it has had its moment) and Told (a secret still to be       *)
(* written has not been told, and one written since is not of the old).    *)
(*                                                                         *)
(* AuthCodes, for every set of requests, codes, clients and tokens.        *)
(* CodeFrames says what a request's variables hold at each statement: past *)
(* peek the code is bound to the client, and up to the UPDATE the PKCE     *)
(* verifier was proved.  Single counts the exchange of a code: a code that *)
(* is not consumed has made no session, and of all requests with one code  *)
(* at most one is past the UPDATE and has the session yet to create.       *)
(***************************************************************************)
EXTENDS Clients, AuthCodes, TLAPS

-----------------------------------------------------------------------------
(* Clients: the inductive invariant.                                       *)

PassedTests(c) == c # NoRow => Admissible(c.type, c.grants, c.scopes)

\* Every row stored or copied was admitted by the registration route; a service
\* token about to be signed asks for api scopes only.
Registered ==
    /\ PassedTests(row)
    /\ \A r \in Requests : PassedTests(read[r])
    /\ \A r \in Requests : pc[r] = "verify" =>
          read[r] # NoRow /\ MayProceed(read[r], want[r], secret[r])
    /\ \A r \in Requests : pc[r] = "serve" /\ want[r] = "client_credentials" =>
          ask[r] \subseteq ApiScopes
    /\ ServiceTokensAreApi

\* A caller that the row admits now, or that its copy of the row admits, is
\* admitted by the row at a moment since it arrived.
Timely ==
    \A r \in Requests :
        /\ pc[r] \in {"find", "verify", "serve"} => Exists
        /\ pc[r] \in {"find", "verify"} /\ want[r] = "introspect" => secret[r] # NoSecret
        /\ pc[r] = "find" /\ Admits(row, want[r], secret[r]) => moment[r]
        /\ pc[r] = "verify" => secret[r] # NoSecret
        /\ pc[r] = "verify" /\ read[r].hash = secret[r] => moment[r]
        /\ pc[r] = "serve" => moment[r]

Writes(r) == pc[r] \in {"insert", "update", "updateNone", "reply"}

\* The row is inserted once.  Secrets under way are different, and nobody has been
\* told them; a rotation past its UPDATE has left no older secret in the row, and
\* whoever writes later writes one that nobody knew then.
Told ==
    /\ \A r, q \in Requests : pc[r] = "insert" /\ pc[q] = "insert" => r = q
    /\ \A r \in Requests : pc[r] = "insert" => ~Exists /\ read[r] # NoRow /\ read[r].hash = secret[r]
    /\ \A r \in Requests : pc[r] = "update" => Exists
    /\ \A r \in Requests : Writes(r) => secret[r] \in (used \ told) \union {NoSecret}
    /\ \A r, q \in Requests : Writes(r) /\ Writes(q) /\ secret[r] = secret[q] =>
          r = q \/ secret[r] = NoSecret
    /\ \A r \in Requests : pc[r] = "idle" => secret[r] = NoSecret
    /\ \A r \in Requests : pc[r] \in {"idle", "insert", "updateNone"} => older[r] = {}
    /\ \A r \in Requests : pc[r] = "reply" => row.hash \notin older[r]
    /\ OldSecretsDie

IInv == TypeOK /\ Registered /\ Timely /\ Told

-----------------------------------------------------------------------------

\* No client, no secret and no request: nothing has been told or served.
LEMMA IInvInit == Init => IInv
  <1> SUFFICES ASSUME Init PROVE IInv
    OBVIOUS
  <1>1. TypeOK
    BY SecretsAndScopes DEF Init, TypeOK, Rows, NoRow, TokenEndpoint
  <1>2. Registered /\ Timely
    BY DEF Init, Registered, PassedTests, ServiceTokensAreApi, Timely
  <1>3. Told
    BY SecretsAndScopes DEF Init, Told, Writes, OldSecretsDie, Exists, NoRow
  <1> QED
    BY <1>1, <1>2, <1>3 DEF IInv

\* The tests before the Argon2 verification and a matching hash are what the
\* row needs to admit the caller.
LEMMA ProceedingIsAdmitted ==
    ASSUME NEW c \in Rows, NEW w \in TokenEndpoint \union {"introspect"},
           NEW s \in Secrets, MayProceed(c, w, s), c.hash = s
    PROVE  Admits(c, w, s)
  BY SecretsAndScopes DEF MayProceed, Admits, Rows, TokenEndpoint

\* A caller without a secret proceeds for a public client only, and is admitted.
LEMMA PublicIsAdmitted ==
    ASSUME NEW c \in Rows \union {NoRow}, NEW w \in TokenEndpoint,
           MayProceed(c, w, NoSecret)
    PROVE  Admits(c, w, NoSecret) /\ w # "client_credentials"
  BY DEF MayProceed, Admits, Rows, NoRow, TokenEndpoint

\* The row with another hash or status is a row, of the same registration.
LEMMA RowUpdates ==
    ASSUME row \in Rows, NEW s \in Secrets \union {NoSecret}, NEW st \in {"active", "disabled"}
    PROVE  /\ [row EXCEPT !.hash = s] \in Rows
           /\ [row EXCEPT !.hash = s].hash = s
           /\ [row EXCEPT !.status = st] \in Rows
           /\ [row EXCEPT !.status = st].hash = row.hash
           /\ Admissible(row.type, row.grants, row.scopes) =>
                 /\ PassedTests([row EXCEPT !.hash = s])
                 /\ PassedTests([row EXCEPT !.status = st])
  BY DEF Rows, PassedTests, Admissible

\* Admission is a yes or no.
LEMMA AdmitsIsBoolean == \A c, w, s : Admits(c, w, s) \in BOOLEAN
  BY DEF Admits

\* NoRow is not a row.
LEMMA NoRowIsNone == NoRow \notin Rows
  BY DEF NoRow, Rows

\* Every action keeps the invariant.
LEMMA IInvNext ==
    ASSUME IInv, [Next]_vars
    PROVE  IInv'
  <1> USE SecretsAndScopes, NoRowIsNone DEF IInv, TypeOK, Registered, Timely, Told,
          Writes, Exists, OldSecretsDie, ServiceTokensAreApi, TokenEndpoint, locals, history, Goto
  <1>1. ASSUME NEW r \in Requests, NEW type \in {"confidential", "public"},
               NEW method \in Methods, NEW grants \in SUBSET Grants \ {{}},
               NEW scopes \in SUBSET Scopes \ {{}},
               CreateClient(r, type, method, grants, scopes)
        PROVE  IInv'
    <2>1. /\ pc[r] = "idle" /\ ~Exists /\ \A q \in Requests : pc[q] # "insert"
          /\ Goto(r, "insert") /\ Admissible(type, grants, scopes)
          /\ UNCHANGED <<row, want, ask, older, service, told, replaced, moment>>
      BY <1>1 DEF CreateClient
    <2>2. /\ secret' \in [Requests -> Secrets \union {NoSecret}]
          /\ \A q \in Requests \ {r} : secret'[q] = secret[q]
          /\ used \subseteq used' /\ used' \subseteq Secrets
          /\ secret'[r] \in (Secrets \ used) \union {secret[r]}
          /\ secret'[r] \in used' \/ secret'[r] = secret[r]
      BY <1>1 DEF CreateClient, NewSecret
    <2>3. secret[r] = NoSecret
      BY <2>1
    <2>4. /\ read' = [read EXCEPT ![r] = read'[r]] /\ read'[r] \in Rows
          /\ PassedTests(read'[r]) /\ read'[r].hash = secret'[r]
      BY <1>1, <2>1, <2>2 DEF CreateClient, PassedTests, Rows, Methods, Admissible
    <2>5. TypeOK'
      BY <2>1, <2>2, <2>4
    <2>6. Registered' /\ Timely'
      BY <2>1, <2>2, <2>4
    <2>7. Told'
      BY <2>1, <2>2, <2>3, <2>4
    <2> QED
      BY <2>5, <2>6, <2>7
  <1>2. ASSUME NEW r \in Requests, NEW s \in Secrets, RotateSecret(r, s)
        PROVE  IInv'
    <2>1. /\ pc[r] = "idle" /\ secret' = [secret EXCEPT ![r] = s]
          /\ s \in Secrets \ used /\ used' = used \union {s}
          /\ UNCHANGED <<row, want, ask, read, service, told, replaced, moment>>
      BY <1>2 DEF RotateSecret, NewSecret
    <2>2. CASE Exists /\ Goto(r, "update") /\ older' = [older EXCEPT ![r] = told]
      <3>1. TypeOK' /\ Registered'
        BY <2>1, <2>2
      <3>2. Timely'
        BY <2>1, <2>2
      <3>3. Told'
        BY <2>1, <2>2
      <3> QED
        BY <3>1, <3>2, <3>3
    <2>3. CASE Goto(r, "updateNone") /\ UNCHANGED older
      <3>1. TypeOK' /\ Registered'
        BY <2>1, <2>3
      <3>2. Timely'
        BY <2>1, <2>3
      <3>3. Told'
        BY <2>1, <2>3
      <3> QED
        BY <3>1, <3>2, <3>3
    <2> QED
      BY <1>2, <2>2, <2>3 DEF RotateSecret
  <1>3. ASSUME NEW r \in Requests, NEW w \in TokenEndpoint \union {"introspect"},
               NEW s \in used \union {NoSecret}, NEW scopes \in SUBSET Scopes,
               Call(r, w, s, scopes)
        PROVE  IInv'
    BY <1>3, AdmitsIsBoolean DEF Call
  <1>4. ASSUME NEW r \in Requests, Insert(r)
        PROVE  IInv'
    BY <1>4 DEF Insert, Store
  <1>5. ASSUME NEW r \in Requests, UpdateHash(r)
        PROVE  IInv'
    <2>1. /\ row' = [row EXCEPT !.hash = secret[r]]
          /\ row \in Rows /\ row' \in Rows /\ row'.hash = secret[r]
          /\ PassedTests(row')
      BY <1>5, RowUpdates DEF UpdateHash, Store, PassedTests
    <2>2. pc[r] = "update" /\ UNCHANGED <<locals, service, history>> /\ Goto(r, "reply")
      BY <1>5 DEF UpdateHash
    <2>3. \A q \in Requests : moment'[q] = (moment[q] \/ Admits(row', want[q], secret[q]))
      BY <1>5 DEF UpdateHash, Store
    <2>4. moment' \in [Requests -> BOOLEAN]
      BY <1>5 DEF UpdateHash, Store
    <2>5. TypeOK'
      BY <2>1, <2>2, <2>4
    <2>6. Registered'
      BY <2>1, <2>2
    <2>7. Timely'
      BY <2>1, <2>2, <2>3
    <2>8. Told'
      BY <2>1, <2>2
    <2> QED
      BY <2>5, <2>6, <2>7, <2>8
  <1>6. ASSUME NEW r \in Requests, Reply(r)
        PROVE  IInv'
    BY <1>6 DEF Reply, Return, PassedTests
  <1>7. ASSUME NEW r \in Requests, FindByClientId(r)
        PROVE  IInv'
    <2>1. CASE /\ MayProceed(row, want[r], secret[r])
               /\ read' = [read EXCEPT ![r] = row]
               /\ Goto(r, IF secret[r] = NoSecret THEN "serve" ELSE "verify")
               /\ UNCHANGED <<want, secret, ask, older>>
      <3>1. pc[r] = "find" /\ row \in Rows /\ UNCHANGED <<row, service, history, moment>>
        BY <1>7 DEF FindByClientId
      <3>2. want[r] # "none"
        BY <2>1, <3>1 DEF MayProceed
      <3>3. secret[r] # NoSecret /\ row.hash = secret[r] => moment[r]
        BY <2>1, <3>1, <3>2, ProceedingIsAdmitted
      <3>4. secret[r] = NoSecret => moment[r] /\ want[r] # "client_credentials"
        BY <2>1, <3>1, <3>2, PublicIsAdmitted
      <3>5. TypeOK' /\ Registered'
        BY <2>1, <3>1, <3>4 DEF PassedTests
      <3>6. Timely'
        BY <2>1, <3>1, <3>3, <3>4
      <3>7. Told'
        BY <2>1, <3>1
      <3> QED
        BY <3>5, <3>6, <3>7
    <2>2. CASE Return(r)
      BY <1>7, <2>2 DEF FindByClientId, Return, PassedTests
    <2> QED
      BY <1>7, <2>1, <2>2 DEF FindByClientId
  <1>8. ASSUME NEW r \in Requests, VerifySecret(r)
        PROVE  IInv'
    <2>1. pc[r] = "verify" /\ UNCHANGED <<row, service, history, moment>>
      BY <1>8 DEF VerifySecret
    <2>2. CASE Return(r)
      BY <2>1, <2>2 DEF Return, PassedTests
    <2>3. CASE /\ read[r].hash = secret[r]
               /\ want[r] = "client_credentials" => ScopeAllowed(read[r], ask[r])
               /\ Goto(r, "serve") /\ UNCHANGED locals
      <3>1. ASSUME want[r] = "client_credentials" PROVE ask[r] \subseteq ApiScopes
        BY <2>1, <2>3, <3>1 DEF MayProceed, PassedTests, Admissible, ScopeAllowed
      <3> QED
        BY <2>1, <2>3, <3>1
    <2> QED
      BY <1>8, <2>2, <2>3 DEF VerifySecret
  <1>9. ASSUME NEW r \in Requests, Serve(r)
        PROVE  IInv'
    BY <1>9 DEF Serve, Return, PassedTests
  <1>10. ASSUME NEW r \in Requests, Abort(r)
        PROVE  IInv'
    BY <1>10 DEF Abort, Return, PassedTests
  <1>11. ASSUME NEW status \in {"active", "disabled"}, SetStatus(status)
        PROVE  IInv'
    <2>1. /\ row' = [row EXCEPT !.status = status]
          /\ row \in Rows /\ row' \in Rows /\ row'.hash = row.hash
          /\ PassedTests(row')
      BY <1>11, RowUpdates DEF SetStatus, Store, PassedTests
    <2>2. UNCHANGED <<pc, locals, service, history>>
      BY <1>11 DEF SetStatus
    <2>3. \A q \in Requests : moment'[q] = (moment[q] \/ Admits(row', want[q], secret[q]))
      BY <1>11 DEF SetStatus, Store
    <2>4. moment' \in [Requests -> BOOLEAN]
      BY <1>11 DEF SetStatus, Store
    <2>5. TypeOK' /\ Registered'
      BY <2>1, <2>2, <2>4
    <2>6. Timely'
      BY <2>1, <2>2, <2>3
    <2>7. Told'
      BY <2>1, <2>2
    <2> QED
      BY <2>5, <2>6, <2>7
  <1>12. CASE UNCHANGED vars
    BY <1>12 DEF vars
  <1>13. ASSUME NEW r \in Requests, UpdateNone(r)
         PROVE  IInv'
    BY <1>13 DEF UpdateNone
  <1>14. ASSUME NEW r \in Requests, Start(r)
         PROVE  IInv'
    <2>1. {} \in SUBSET Scopes /\ SUBSET Scopes \ {{}} \subseteq SUBSET Scopes
      OBVIOUS
    <2> HIDE DEF IInv, TokenEndpoint
    <2>2. CASE \E w \in TokenEndpoint \union {"introspect"}, s \in used \union {NoSecret} :
                  Call(r, w, s, {})
      BY <1>3, <2>1, <2>2
    <2>3. CASE \E s \in used, scopes \in SUBSET Scopes \ {{}} :
                  Call(r, "client_credentials", s, scopes)
      BY <1>3, <2>1, <2>3 DEF TokenEndpoint
    <2> QED
      BY <1>1, <1>2, <1>14, <2>2, <2>3 DEF Start
  <1> HIDE DEF IInv
  <1> QED
    BY <1>4, <1>5, <1>6, <1>7, <1>8, <1>9, <1>10, <1>11, <1>12, <1>14, <1>13
       DEF Next, Step

\* The invariant of client registration, rotation and authentication.
THEOREM Invariance == Spec => []IInv
  <1>1. Init => IInv
    BY IInvInit
  <1>2. IInv /\ [Next]_vars => IInv'
    BY IInvNext
  <1> QED
    BY <1>1, <1>2, PTL DEF Spec

\* The row, the copies of it and the requests keep their types.
THEOREM TypeCorrect == Spec => []TypeOK
  <1>1. IInv => TypeOK
    BY DEF IInv
  <1> QED
    BY <1>1, Invariance, PTL

\* Nobody is served whose secret was rotated, or whose client was disabled,
\* before the request arrived, although the row is read once and verified later.
THEOREM AuthenticationIsTimely == Spec => []TimelyAuthentication
  <1>1. IInv => TimelyAuthentication
    BY DEF IInv, Timely, TimelyAuthentication
  <1> QED
    BY <1>1, Invariance, PTL

\* Service tokens carry api scopes only, whatever is registered and requested.
THEOREM ServicesStayInApi == Spec => []ServiceTokensAreApi
  <1>1. IInv => ServiceTokensAreApi
    BY DEF IInv, Registered
  <1> QED
    BY <1>1, Invariance, PTL

\* A rotation that was answered has ended every secret told before it, whatever
\* other rotations overlap it or fail.
THEOREM RotationEndsOldSecrets == Spec => []OldSecretsDie
  <1>1. IInv => OldSecretsDie
    BY DEF IInv, Told
  <1> QED
    BY <1>1, Invariance, PTL

-----------------------------------------------------------------------------
(* Authorization codes.                                                    *)

\* Statements that use the code presented, and the ones reached only when its
\* row names the authenticated client.
CodeLabels == {"peek", "consume", "flip", "revokeForReplay", "createSession", "issueToken"}
BoundLabels == CodeLabels \ {"peek"}

CodeFrames ==
    \A r \in Requests :
        /\ step[r] = "issueCode" => cli[r] \in Apps
        /\ step[r] \in CodeLabels => code[r] \in Codes /\ cli[r] \in Apps
        /\ step[r] \in BoundLabels => codeClient[code[r]] = cli[r] /\ uri[r]
        /\ step[r] \in {"consume", "flip"} => verifier[r]
        /\ step[r] = "insertNext" => tok[r] \in Tokens

\* A family descends from a code that was issued, to the client it works for.
Families ==
    \A t \in Tokens : tokCode[t] # NoCode =>
        /\ tokClient[t] = codeClient[tokCode[t]]
        /\ codeClient[tokCode[t]] # NoClient

\* The winner of consume is one request, and it has not created a session yet.
Single ==
    /\ \A a \in Codes : exchanges[a] <= 1
    /\ \A a \in Codes : a \notin consumed => exchanges[a] = 0
    /\ \A r \in Requests : step[r] = "createSession" =>
          code[r] \in consumed /\ exchanges[code[r]] = 0
    /\ \A r, q \in Requests :
          step[r] = "createSession" /\ step[q] = "createSession" /\ code[r] = code[q] => r = q

CodesInv == CodesTypeOK /\ CodeFrames /\ Families /\ Single

-----------------------------------------------------------------------------

\* No code issued, no token, no request: the tables start empty.
LEMMA CodesInitInv ==
    ASSUME CodesInit
    PROVE  CodesInv
  <1> USE CodeConstants DEF CodesInit
  <1>1. CodesTypeOK
    BY DEF CodesTypeOK, TokenStates, Steps
  <1>2. CodeFrames
    BY DEF CodeFrames, CodeLabels, BoundLabels
  <1>3. Families /\ Single
    BY DEF Families, Single
  <1> QED
    BY <1>1, <1>2, <1>3 DEF CodesInv

\* Every action of the grant keeps the invariant.
LEMMA CodesNextInv ==
    ASSUME CodesInv, [CodesNext]_codesVars
    PROVE  CodesInv'
  <1> USE CodeConstants DEF CodesInv, CodesTypeOK, CodeFrames, Families, Single, CodeLabels,
          BoundLabels, TokenStates, Steps, rows, params, StepTo
  <1>1. ASSUME NEW r \in Requests, NEW c \in Apps, Authorize(r, c)
        PROVE  CodesInv'
    BY <1>1 DEF Authorize
  <1>2. ASSUME NEW r \in Requests, NEW a \in Codes, NEW c \in Apps,
               NEW u \in BOOLEAN, NEW v \in BOOLEAN, Exchange(r, a, c, u, v)
        PROVE  CodesInv'
    BY <1>2 DEF Exchange
  <1>3. ASSUME NEW r \in Requests, NEW t \in held, Rotate(r, t)
        PROVE  CodesInv'
    BY <1>3 DEF Rotate
  <1>4. ASSUME NEW r \in Requests, IssueCode(r)
        PROVE  CodesInv'
    BY <1>4 DEF IssueCode, Finish
  <1>5. ASSUME NEW r \in Requests, Peek(r)
        PROVE  CodesInv'
    <2>1. step[r] = "peek" /\ UNCHANGED <<clientActive, rows, held, exchanges>>
      BY <1>5 DEF Peek, Lookup, Replay
    <2>2. CASE Finish(r)
      BY <2>1, <2>2 DEF Finish
    <2>3. CASE Bound(r) /\ StepTo(r, "revokeForReplay") /\ UNCHANGED params
      BY <2>1, <2>3 DEF Bound
    <2>4. CASE Bound(r) /\ verifier[r] /\ StepTo(r, "consume") /\ UNCHANGED params
      BY <2>1, <2>4 DEF Bound
    <2> QED
      BY <1>5, <2>2, <2>3, <2>4 DEF Peek, Lookup, Replay
  <1>6. ASSUME NEW r \in Requests, ConsumeSelect(r)
        PROVE  CodesInv'
    <2>1. step[r] = "consume" /\ UNCHANGED <<clientActive, rows, held, exchanges>>
      BY <1>6 DEF ConsumeSelect, Lookup, Replay
    <2>2. CASE Finish(r)
      BY <2>1, <2>2 DEF Finish
    <2>3. CASE Bound(r) /\ StepTo(r, "revokeForReplay") /\ UNCHANGED params
      BY <2>1, <2>3 DEF Bound
    <2>4. CASE Bound(r) /\ StepTo(r, "flip") /\ UNCHANGED params
      BY <2>1, <2>4 DEF Bound
    <2> QED
      BY <1>6, <2>2, <2>3, <2>4 DEF ConsumeSelect, Lookup, Replay
  <1>7. ASSUME NEW r \in Requests, ConsumeFlip(r)
        PROVE  CodesInv'
    BY <1>7 DEF ConsumeFlip, Replay
  <1>8. ASSUME NEW r \in Requests, CreateSession(r)
        PROVE  CodesInv'
    BY <1>8 DEF CreateSession
  <1>9. ASSUME NEW r \in Requests, IssueToken(r)
        PROVE  CodesInv'
    BY <1>9 DEF IssueToken, Finish, Fresh
  <1>10. ASSUME NEW r \in Requests, RevokeTokensForReplay(r)
         PROVE  CodesInv'
    BY <1>10 DEF RevokeTokensForReplay, Finish
  <1>11. ASSUME NEW r \in Requests, InsertNext(r)
         PROVE  CodesInv'
    BY <1>11 DEF InsertNext, Finish, Fresh
  <1>12. ASSUME NEW a \in Codes, ExpireCode(a)
         PROVE  CodesInv'
    BY <1>12 DEF ExpireCode
  <1>13. ASSUME NEW c \in Apps, NEW on \in BOOLEAN, SetClientStatus(c, on)
         PROVE  CodesInv'
    BY <1>13 DEF SetClientStatus
  <1>14. CASE UNCHANGED codesVars
    BY <1>14 DEF codesVars
  <1> HIDE DEF CodesInv
  <1> QED
    BY <1>1, <1>2, <1>3, <1>4, <1>5, <1>6, <1>7, <1>8, <1>9, <1>10, <1>11,
       <1>12, <1>13, <1>14 DEF CodesNext, StartGrant, GrantStep

\* The invariant of AuthorizationCodeRepository and the grant that uses it.
THEOREM CodesInvariance == CodesSpec => []CodesInv
  <1>1. CodesInit => CodesInv
    BY CodesInitInv
  <1>2. CodesInv /\ [CodesNext]_codesVars => CodesInv'
    BY CodesNextInv
  <1> QED
    BY <1>1, <1>2, PTL DEF CodesSpec

\* Rows and request variables keep their types.
THEOREM CodesTypes == CodesSpec => []CodesTypeOK
  <1>1. CodesInv => CodesTypeOK
    BY DEF CodesInv
  <1> QED
    BY <1>1, CodesInvariance, PTL

\* The UPDATE ... WHERE consumed_at IS NULL turns a code into one session, for
\* any number of exchanges racing between peek, SELECT and UPDATE.
THEOREM CodesAreSingleUse == CodesSpec => []SingleExchange
  <1>1. CodesInv => SingleExchange
    BY DEF CodesInv, Single, SingleExchange
  <1> QED
    BY <1>1, CodesInvariance, PTL

\* Every token of a code, through any number of rotations, belongs to the client
\* the code was issued to.
THEOREM FamiliesStayWithClient == CodesSpec => []TokensStayWithClient
  <1>1. CodesInv => TokensStayWithClient
    BY DEF CodesInv, Families, TokensStayWithClient
  <1> QED
    BY <1>1, CodesInvariance, PTL

\* Only an exchange with the code's redirect URI and the PKCE verifier proved
\* burns the code.
THEOREM VerifierBurns == CodesSpec => OnlyVerifierBurns
  <1>1. ASSUME CodesInv, [CodesNext]_codesVars
        PROVE  [\A a \in consumed' \ consumed :
                   \E r \in Requests :
                       step[r] = "flip" /\ code[r] = a /\ uri[r] /\ verifier[r]]_codesVars
    <2>1. ASSUME NEW r \in Requests, ConsumeFlip(r)
          PROVE  \A a \in consumed' \ consumed :
                    step[r] = "flip" /\ code[r] = a /\ uri[r] /\ verifier[r]
      BY <1>1, <2>1 DEF ConsumeFlip, CodesInv, CodeFrames, BoundLabels, CodeLabels
    <2>2. CASE ~ \E r \in Requests : ConsumeFlip(r)
      <3>1. consumed' = consumed
        BY <1>1, <2>2
           DEF CodesNext, StartGrant, GrantStep, codesVars, rows, Authorize, Exchange, Rotate,
           IssueCode, Peek, ConsumeSelect, CreateSession, IssueToken,
           RevokeTokensForReplay, InsertNext, ExpireCode, SetClientStatus
      <3> QED
        BY <3>1
    <2> QED
      BY <2>1, <2>2
  <1> QED
    BY <1>1, CodesInvariance, PTL DEF CodesSpec, OnlyVerifierBurns

=============================================================================
