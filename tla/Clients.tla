------------------------------- MODULE Clients -------------------------------
(***************************************************************************)
(* One OAuth client: its registration, secret rotation and status switch   *)
(* (ClientRepository and the client administration routes) against the     *)
(* places where a client authenticates: the three grants of the token      *)
(* endpoint and introspection.                                             *)
(*                                                                         *)
(* A caller's row is read by one statement; the Argon2 verification that   *)
(* follows is awaited and works on the row as it was read.  What happens   *)
(* after authentication is in AuthCodes and SessionTokens, except for      *)
(* client_credentials, which is answered here.                             *)
(***************************************************************************)
EXTENDS Slots, Naturals, FiniteSets

CONSTANTS
    Secrets,    \* secrets randomBytes may generate
    NoSecret,
    Scopes,     \* what a client may be registered with
    ApiScopes   \* those that start with "api."

ASSUME SecretsAndScopes == NoSecret \notin Secrets /\ ApiScopes \subseteq Scopes

VARIABLES
    row,        \* the row of oauth_clients
    \* the requests' own variables
    pc,
    want,       \* the grant type, or "introspect"; "none" on the other routes
    secret,     \* the secret presented, or the one generated
    ask,        \* the scopes requested
    read,       \* the row as this request read it, or will insert it
    \* what the outside has been handed
    service,    \* the scopes of the client_credentials tokens signed
    \* history
    used,       \* secrets generated so far
    told,       \* secrets administrators were told
    older,      \* those told when this rotation began
    replaced,   \* those told when a rotation began that has been answered
    moment      \* since the request arrived, the row would have admitted it

locals == <<want, secret, ask, read, older>>
history == <<used, told, replaced>>
vars == <<row, pc, locals, service, history, moment>>

Grants == {"authorization_code", "client_credentials"}
\* client_secret_basic and client_secret_post are treated alike.
Methods == {"secret", "none"}
Rows == [type : {"confidential", "public"}, method : Methods,
         grants : SUBSET Grants \ {{}}, scopes : SUBSET Scopes \ {{}},
         hash : Secrets \union {NoSecret}, status : {"active", "disabled"}]
NoRow == [type |-> "none", method |-> "none", grants |-> {}, scopes |-> {},
          hash |-> NoSecret, status |-> "disabled"]

TokenEndpoint == {"authorization_code", "refresh_token", "client_credentials"}
Exists == row # NoRow

Goto(r, l) == pc' = [pc EXCEPT ![r] = l]

Return(r) ==
    /\ Goto(r, "idle")
    /\ want' = [want EXCEPT ![r] = "none"]
    /\ secret' = [secret EXCEPT ![r] = NoSecret]
    /\ ask' = [ask EXCEPT ![r] = {}]
    /\ read' = [read EXCEPT ![r] = NoRow]
    /\ older' = [older EXCEPT ![r] = {}]

\* The row c, as it stands, entitles a caller with secret s to be served w.
Admits(c, w, s) ==
    CASE w = "introspect" -> c.hash # NoSecret /\ c.hash = s
      [] w = "client_credentials" ->
             c.status = "active" /\ c.type = "confidential" /\ c.hash = s
      [] w \in {"authorization_code", "refresh_token"} ->
             /\ c.status = "active"
             /\ \/ c.type = "confidential" /\ c.hash = s
                \/ c.type = "public" /\ s = NoSecret
      [] OTHER -> FALSE

\* The row becomes c; every caller in flight may have this moment to its credit.
Store(c) ==
    /\ row' = c
    /\ moment' = [r \in Requests |-> moment[r] \/ Admits(c, want[r], secret[r])]

Init ==
    /\ row = NoRow
    /\ pc = [r \in Requests |-> "idle"]
    /\ want = [r \in Requests |-> "none"]
    /\ secret = [r \in Requests |-> NoSecret]
    /\ ask = [r \in Requests |-> {}]
    /\ read = [r \in Requests |-> NoRow]
    /\ service = {}
    /\ used = {} /\ told = {} /\ older = [r \in Requests |-> {}] /\ replaced = {}
    /\ moment = [r \in Requests |-> FALSE]

-----------------------------------------------------------------------------
(* Administration.                                                         *)

\* Mutant of Admissible: the scopes of a service are not looked at.
AdmissibleAnyScope(type, grants, scopes) == TRUE

\* The body passes createClientSchema and the route's own test.
Admissible(type, grants, scopes) ==
    type = "confidential" /\ "client_credentials" \in grants => scopes \subseteq ApiScopes

\* newClientSecret: never the same twice.
NewSecret(r, s) ==
    /\ s \in Secrets \ used
    /\ secret' = [secret EXCEPT ![r] = s]
    /\ used' = used \union {s}

\* POST /admin/clients, up to the INSERT.  Only confidential clients get a secret,
\* and public ones the method "none".  The model has one client.
CreateClient(r, type, method, grants, scopes) ==
    /\ pc[r] = "idle" /\ ~Exists /\ \A q \in Requests : pc[q] # "insert"
    /\ Admissible(type, grants, scopes)
    /\ \/ type = "confidential" /\ \E s \in Secrets : NewSecret(r, s)
       \/ type = "public" /\ UNCHANGED <<secret, used>>
    /\ read' = [read EXCEPT ![r] =
           [type |-> type, method |-> IF type = "public" THEN "none" ELSE method,
            grants |-> grants, scopes |-> scopes,
            hash |-> secret'[r], status |-> "active"]]
    /\ Goto(r, "insert")
    /\ UNCHANGED <<row, want, ask, older, service, told, replaced, moment>>

Insert(r) ==
    /\ pc[r] = "insert"
    /\ Store(read[r])
    /\ Goto(r, "reply")
    /\ UNCHANGED <<locals, service, history>>

\* POST /admin/clients/:id/rotate-secret: the secret is generated and hashed.
\* Neither the client's type nor its existence is looked at: the id may be this
\* client's or nobody's.
RotateSecret(r, s) ==
    /\ pc[r] = "idle"
    /\ NewSecret(r, s)
    /\ \/ Exists /\ Goto(r, "update") /\ older' = [older EXCEPT ![r] = told]
       \/ Goto(r, "updateNone") /\ UNCHANGED older
    /\ UNCHANGED <<row, want, ask, read, service, told, replaced, moment>>

\* Mutant of UpdateHash: UPDATE ... WHERE status = 'active'.
UpdateActiveHash(r) ==
    /\ pc[r] = "update"
    /\ Store(IF row.status = "active" THEN [row EXCEPT !.hash = secret[r]] ELSE row)
    /\ Goto(r, "reply")
    /\ UNCHANGED <<locals, service, history>>

UpdateHash(r) ==
    /\ pc[r] = "update"
    /\ Store([row EXCEPT !.hash = secret[r]])
    /\ Goto(r, "reply")
    /\ UNCHANGED <<locals, service, history>>

\* UPDATE ... WHERE id matches no row, which is not looked at.
UpdateNone(r) ==
    /\ pc[r] = "updateNone"
    /\ Goto(r, "reply")
    /\ UNCHANGED <<row, locals, service, history, moment>>

\* The event is audited and the administrator told the secret, this once.
Reply(r) ==
    /\ pc[r] = "reply"
    /\ told' = told \union ({secret[r]} \ {NoSecret})
    /\ replaced' = replaced \union older[r]
    /\ Return(r)
    /\ UNCHANGED <<row, service, used, moment>>

\* PUT /admin/clients/:id/status
SetStatus(status) ==
    /\ Exists /\ row.status # status
    /\ Store([row EXCEPT !.status = status])
    /\ UNCHANGED <<pc, locals, service, history>>

-----------------------------------------------------------------------------
(* Client authentication.                                                  *)

\* POST /oauth/token or /oauth/introspect with secret s (NoSecret: none).
Call(r, w, s, scopes) ==
    /\ pc[r] = "idle" /\ Exists
    /\ w = "introspect" => s # NoSecret
    /\ want' = [want EXCEPT ![r] = w]
    /\ secret' = [secret EXCEPT ![r] = s]
    /\ ask' = [ask EXCEPT ![r] = scopes]
    /\ moment' = [moment EXCEPT ![r] = Admits(row, w, s)]
    /\ Goto(r, "find")
    /\ UNCHANGED <<row, read, older, service, history>>

\* Mutant of MayProceed: the token endpoint does not look at the status.
MayProceedDisabled(c, w, s) ==
    \/ w = "introspect"
    \/ w = "client_credentials" /\ c.type = "confidential" /\ c.method # "none" /\ s # NoSecret
    \/ w \in {"authorization_code", "refresh_token"} /\ (c.type = "confidential") = (s # NoSecret)

\* The tests of OAuthService.token between reading the client and verifying its
\* secret.  Introspection has none: it serves disabled clients too.
MayProceed(c, w, s) ==
    \/ w = "introspect"
    \/ /\ c.status = "active"
       /\ \/ w = "client_credentials" /\ c.type = "confidential" /\ c.method # "none" /\ s # NoSecret
          \/ /\ w \in {"authorization_code", "refresh_token"}
             /\ (c.type = "confidential") = (s # NoSecret)

\* SELECT of the row.  A public client has nothing to verify.
FindByClientId(r) ==
    /\ pc[r] = "find"
    /\ \/ /\ MayProceed(row, want[r], secret[r])
          /\ read' = [read EXCEPT ![r] = row]
          /\ Goto(r, IF secret[r] = NoSecret THEN "serve" ELSE "verify")
          /\ UNCHANGED <<want, secret, ask, older>>
       \/ /\ ~MayProceed(row, want[r], secret[r])
          /\ Return(r)
    /\ UNCHANGED <<row, service, history, moment>>

\* What client_credentials may ask for.
ScopeAllowed(c, scopes) ==
    "client_credentials" \in c.grants /\ scopes # {} /\ scopes \subseteq c.scopes

\* verifySecret on the row read before; a row without a secret verifies nothing.
\* Then, for client_credentials, the grant type and scope tests.
VerifySecret(r) ==
    /\ pc[r] = "verify"
    /\ LET ok == /\ read[r].hash = secret[r]
                 /\ want[r] = "client_credentials" => ScopeAllowed(read[r], ask[r])
       IN \/ ok /\ Goto(r, "serve") /\ UNCHANGED locals
          \/ ~ok /\ Return(r)
    /\ UNCHANGED <<row, service, history, moment>>

\* The service token is signed; the other grants and introspection go on.
Serve(r) ==
    /\ pc[r] = "serve"
    /\ service' = IF want[r] = "client_credentials" THEN service \union {ask[r]} ELSE service
    /\ Return(r)
    /\ UNCHANGED <<row, history, moment>>

-----------------------------------------------------------------------------

\* The process dies or a statement fails: the rest of the handler is lost.
Abort(r) ==
    /\ pc[r] # "idle"
    /\ Return(r)
    /\ UNCHANGED <<row, service, history, moment>>

Start(r) ==
    \/ \E type \in {"confidential", "public"}, method \in Methods,
          grants \in SUBSET Grants \ {{}}, scopes \in SUBSET Scopes \ {{}} :
              CreateClient(r, type, method, grants, scopes)
    \/ \E s \in Secrets : RotateSecret(r, s)
    \/ \E w \in TokenEndpoint \union {"introspect"}, s \in used \union {NoSecret} :
          Call(r, w, s, {})
    \/ \E s \in used, scopes \in SUBSET Scopes \ {{}} : Call(r, "client_credentials", s, scopes)

Step(r) ==
    \/ Insert(r) \/ UpdateHash(r) \/ UpdateNone(r) \/ Reply(r)
    \/ FindByClientId(r) \/ VerifySecret(r) \/ Serve(r)

Next ==
    \/ \E r \in Requests : Start(r) \/ Step(r) \/ Abort(r)
    \/ \E status \in {"active", "disabled"} : SetStatus(status)

Spec == Init /\ [][Next]_vars

-----------------------------------------------------------------------------
(* Properties.                                                             *)

\* Every variable has its type.
TypeOK ==
    /\ row \in Rows \union {NoRow}
    /\ pc \in [Requests -> {"idle", "insert", "update", "updateNone", "reply",
                            "find", "verify", "serve"}]
    /\ want \in [Requests -> TokenEndpoint \union {"introspect", "none"}]
    /\ secret \in [Requests -> Secrets \union {NoSecret}]
    /\ ask \in [Requests -> SUBSET Scopes]
    /\ read \in [Requests -> Rows \union {NoRow}]
    /\ service \subseteq SUBSET Scopes
    /\ used \subseteq Secrets /\ told \subseteq used /\ replaced \subseteq told
    /\ older \in [Requests -> SUBSET told]
    /\ moment \in [Requests -> BOOLEAN]

\* "Rotation: replaces the hash, old secret dies immediately" (client.repository.ts)
\* and a disabled client gets no tokens: whoever is served was, at one moment
\* since the request arrived, a client with that secret and, for tokens, active.
\* A request that comes after the rotation or the switch is never served.
TimelyAuthentication ==
    \A r \in Requests : pc[r] = "serve" => moment[r]

\* client_credentials tokens never carry a scope outside api.*, whatever is
\* registered, rotated and requested in which order: registration tests the
\* scopes of confidential clients only, the grant is for confidential clients.
ServiceTokensAreApi == \A scopes \in service : scopes \subseteq ApiScopes

\* "old secret dies immediately" (client.repository.ts): once a rotation has been
\* answered, no secret that was told before it began is stored again, whichever
\* rotations overlap it, die on their way or come after, and whatever the status
\* of the client was.
OldSecretsDie == row.hash \notin replaced

=============================================================================
