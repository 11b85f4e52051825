------------------------------ MODULE Documents ------------------------------
(***************************************************************************)
(* The resource API and the gateway in front of it.  The gateway verifies  *)
(* the bearer token (see AccessTokens), drops the identity headers a       *)
(* request came with, and forwards it with headers made from the token's   *)
(* claims and a shared secret.  The resource API trusts the secret, parses *)
(* the headers into an identity, and lists, creates and deletes documents. *)
(*                                                                         *)
(* A request takes a step at the gateway, one when the resource API runs   *)
(* its guards and first statement, and a delete one more: the row is read  *)
(* and tested by findById and removed by another statement.                *)
(***************************************************************************)
EXTENDS Slots, Naturals, FiniteSets

CONSTANTS
    Users,         \* user ids, which are UUIDs
    Services,      \* client ids, which are not
    Inbound,       \* identity headers a request may come with
    SharedSecret,  \* GATEWAY_SHARED_SECRET is configured
    MaxDocs,       \* bound: documents ever created
    NoOne          \* no user, no client

Scopes == {"api.read", "api.write"}
Roles == {"admin", "service"}
Docs == 1..MaxDocs   \* in the order of created_at

Sent == [user : Users \union Services \union {NoOne}, client : Services \union {NoOne},
         scopes : SUBSET Scopes, roles : SUBSET Roles]

ASSUME DocumentsConstants ==
    /\ IsFiniteSet(Requests)
    /\ SharedSecret \in BOOLEAN /\ MaxDocs \in Nat
    /\ Inbound \subseteq Sent
    /\ NoOne \notin Users \union Services /\ Users \intersect Services = {}

VARIABLES
    owner,      \* owner_id of each document that is there
    born,       \* how many documents were created
    \* the requests' own variables
    pc,
    op,         \* the route
    claims,     \* what the gateway verified; NoClaims when it was not asked
    headers,    \* what the resource API received
    target      \* the document to be deleted

vars == <<owner, born, pc, op, claims, headers, target>>

NoDoc == 0
Ops == {"list", "create", "delete"}
NoClaims == [user |-> NoOne, client |-> NoOne, scopes |-> {}, roles |-> {}]

\* The access tokens the auth-server signs: for a user, through a client or
\* not, or for a service (client_credentials).
Claims ==
    [user : Users, client : Services \union {NoOne}, scopes : SUBSET Scopes,
     roles : SUBSET {"admin"}]
    \union {[user |-> c, client |-> c, scopes |-> ss, roles |-> {"service"}] :
               c \in Services, ss \in SUBSET Scopes}

Nothing == [sent |-> NoClaims, secret |-> FALSE]

\* The request is over.
Return(r) ==
    /\ pc' = [pc EXCEPT ![r] = "idle"] /\ op' = [op EXCEPT ![r] = "list"]
    /\ claims' = [claims EXCEPT ![r] = NoClaims]
    /\ headers' = [headers EXCEPT ![r] = Nothing]
    /\ target' = [target EXCEPT ![r] = NoDoc]

Init ==
    /\ owner = [d \in Docs |-> NoOne] /\ born = 0
    /\ pc = [r \in Requests |-> "idle"] /\ op = [r \in Requests |-> "list"]
    /\ claims = [r \in Requests |-> NoClaims]
    /\ headers = [r \in Requests |-> Nothing]
    /\ target = [r \in Requests |-> NoDoc]

-----------------------------------------------------------------------------
(* The gateway.                                                            *)

\* Mutant of Forward: the inbound headers are not dropped.
ForwardOver(inbound, cl) ==
    [cl EXCEPT !.client = IF cl.client # NoOne THEN cl.client ELSE inbound.client]

\* The headers sent on: the protected ones of the request are deleted, the
\* claims' are set, X-Client-Id only when there is a client.
Forward(inbound, cl) == cl

\* Bound: no more than MaxDocs documents are ever asked for.
Room(o) == o = "create" => born + Cardinality({q \in Requests : op[q] = "create"}) < MaxDocs

\* requireScopes('api.read') guards every route, those that write included.
ThroughGateway(r, o, inbound, cl) ==
    /\ pc[r] = "idle" /\ Room(o) /\ "api.read" \in cl.scopes
    /\ pc' = [pc EXCEPT ![r] = "arrived"]
    /\ op' = [op EXCEPT ![r] = o]
    /\ claims' = [claims EXCEPT ![r] = cl]
    /\ headers' = [headers EXCEPT ![r] =
           [sent |-> Forward(inbound, cl), secret |-> SharedSecret]]
    /\ UNCHANGED <<owner, born, target>>

\* A request that reaches the resource API by another way.
Direct(r, o, inbound) ==
    /\ pc[r] = "idle" /\ Room(o)
    /\ pc' = [pc EXCEPT ![r] = "arrived"]
    /\ op' = [op EXCEPT ![r] = o]
    /\ claims' = [claims EXCEPT ![r] = NoClaims]
    /\ headers' = [headers EXCEPT ![r] = [sent |-> inbound, secret |-> FALSE]]
    /\ UNCHANGED <<owner, born, target>>

-----------------------------------------------------------------------------
(* The resource API.                                                       *)

\* requireGatewaySecret.
FromGateway(r) == SharedSecret => headers[r].secret

\* requireIdentity: an X-User-Id that is not a UUID is no user.
UserId(r) == IF headers[r].sent.user \in Users THEN headers[r].sent.user ELSE NoOne
ClientId(r) == headers[r].sent.client
HasIdentity(r) == UserId(r) # NoOne \/ ClientId(r) # NoOne

\* requireResourceScope.
Needs(o) == IF o = "list" THEN "api.read" ELSE "api.write"

\* The guards of the three routes; only users create documents.
Admitted(r) ==
    /\ FromGateway(r) /\ HasIdentity(r)
    /\ Needs(op[r]) \in headers[r].sent.scopes
    /\ op[r] = "create" => UserId(r) # NoOne

Refuse(r) ==
    /\ pc[r] = "arrived" /\ ~Admitted(r)
    /\ Return(r)
    /\ UNCHANGED <<owner, born>>

\* listByOwner for a user, listAll for a service: nothing is written.
List(r) ==
    /\ pc[r] = "arrived" /\ op[r] = "list" /\ Admitted(r)
    /\ Return(r)
    /\ UNCHANGED <<owner, born>>

Create(r) ==
    /\ pc[r] = "arrived" /\ op[r] = "create" /\ Admitted(r)
    /\ born' = born + 1
    /\ owner' = [owner EXCEPT ![born + 1] = UserId(r)]
    /\ Return(r)

\* Mutant of Deletable: the scope alone decides.
DeletableByScope(r, d) == owner[d] # NoOne

\* The row is there; a user has to own it and to be an administrator.
Deletable(r, d) ==
    /\ owner[d] # NoOne
    /\ UserId(r) # NoOne => owner[d] = UserId(r) /\ "admin" \in headers[r].sent.roles

\* findById and the tests on its row: 404, 403, or on to the removal.
FindById(r, d) ==
    /\ pc[r] = "arrived" /\ op[r] = "delete" /\ Admitted(r)
    /\ \/ /\ Deletable(r, d)
          /\ target' = [target EXCEPT ![r] = d]
          /\ pc' = [pc EXCEPT ![r] = "remove"]
          /\ UNCHANGED <<op, claims, headers>>
       \/ /\ ~Deletable(r, d)
          /\ Return(r)
    /\ UNCHANGED <<owner, born>>

\* remove: whether a row was deleted is not looked at.
Remove(r) ==
    /\ pc[r] = "remove"
    /\ owner' = [owner EXCEPT ![target[r]] = NoOne]
    /\ Return(r)
    /\ UNCHANGED born

Next ==
    \E r \in Requests :
        \/ \E o \in Ops, inbound \in Inbound : \E cl \in Claims : ThroughGateway(r, o, inbound, cl)
        \/ \E o \in Ops, inbound \in Inbound : Direct(r, o, inbound)
        \/ Refuse(r) \/ List(r) \/ Create(r) \/ Remove(r)
        \/ \E d \in Docs : FindById(r, d)

Spec == Init /\ [][Next]_vars

-----------------------------------------------------------------------------
(* Properties.                                                             *)

\* Every variable has its type; documents belong to users.
TypeOK ==
    /\ owner \in [Docs -> Users \union {NoOne}] /\ born \in 0..MaxDocs
    /\ \A d \in Docs : d > born => owner[d] = NoOne
    /\ pc \in [Requests -> {"idle", "arrived", "remove"}] /\ op \in [Requests -> Ops]
    /\ claims \in [Requests -> Claims \union {NoClaims}]
    /\ headers \in [Requests -> [sent : Sent, secret : BOOLEAN]]
    /\ target \in [Requests -> Docs \union {NoDoc}]

\* gateway.middlewares.ts: "Downstream services never see raw tokens - only
\* trusted identity headers injected by the proxy layer".  With the shared secret
\* configured, the identity a route works with is that of the claims the gateway
\* verified, whatever headers the request came with and whichever way it took.
IdentityIsVerified ==
    SharedSecret => \A r \in Requests : pc[r] # "idle" /\ Admitted(r) =>
        /\ claims[r] # NoClaims
        /\ UserId(r) = (IF claims[r].user \in Users THEN claims[r].user ELSE NoOne)
        /\ ClientId(r) = claims[r].client
        /\ headers[r].sent.scopes = claims[r].scopes /\ headers[r].sent.roles = claims[r].roles

\* A document goes only by a request whose verified token has both scopes and
\* names a service, an administrator or the owner - the owner the document has
\* when it is removed, though the test was made on a row read before.
OnlyEntitledDelete ==
    [][SharedSecret => \A d \in Docs : owner[d] # NoOne /\ owner'[d] = NoOne =>
          \E r \in Requests :
              /\ pc[r] = "remove" /\ target[r] = d /\ claims[r].scopes = Scopes
              /\ claims[r].user \in Users =>
                    claims[r].user = owner[d] \/ "admin" \in claims[r].roles]_vars

\* openapi.yaml:415, "Delete a document (api.write; owner or admin)", and the
\* answer 'Only the owner or an admin can delete': a request with the scope is not
\* refused by its owner or an administrator.  The code wants both of a user.
OwnerOrAdminDeletes ==
    \A r \in Requests, d \in Docs :
        /\ pc[r] = "arrived" /\ op[r] = "delete" /\ Admitted(r) /\ owner[d] # NoOne
        /\ owner[d] = UserId(r) \/ "admin" \in headers[r].sent.roles
        => Deletable(r, d)

=============================================================================
