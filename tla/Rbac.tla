-------------------------------- MODULE Rbac --------------------------------
(***************************************************************************)
(* Roles and permissions: the tables user_roles and role_permissions, the  *)
(* admin routes that replace a user's roles or a role's permissions        *)
(* (RbacRepository.setUserRoles, setRolePermissions), and the access       *)
(* tokens that roles and permissions are copied into (rolesOf,             *)
(* permissionsOf, signAccessToken), which the admin routes check           *)
(* (requirePermission).                                                    *)
(*                                                                         *)
(* A replacement is one transaction, DELETE then INSERT, at PostgreSQL's   *)
(* default isolation: each statement sees what is committed when it        *)
(* starts.  A DELETE that began before another replacement committed       *)
(* therefore does not touch the rows that one inserted.  When two of them  *)
(* delete the same row one waits for the other; which of the two commits   *)
(* first is left open here.  Reading a token's own claims commutes with    *)
(* everything, so the guard and the DELETE are one action.                 *)
(***************************************************************************)
EXTENDS Slots

CONSTANTS
    Subjects,
    Bootstrap,  \* the user the seed makes an administrator
    Tokens,     \* access tokens that are alive at a time
    NoKey       \* no user, no role

RoleNames == {"admin", "user"}
Permissions == {"users:write", "roles:write"}
Keys == Subjects \union RoleNames

\* The names of users, roles and permissions are apart.
ASSUME RbacConstants ==
    /\ Bootstrap \in Subjects /\ Subjects \intersect (RoleNames \union Permissions) = {}
    /\ NoKey \notin Keys

VARIABLES
    links,      \* user_roles (for a user) and role_permissions (for a role)
    token,      \* the claims of each access token; Unsigned when there is none
    \* the requests' own variables
    stage,
    key,        \* the user or role worked on
    want,       \* the names asked for
    snap,       \* the rows the DELETE has removed
    roles,      \* what rolesOf returned
    perms,      \* what permissionsOf returned
    \* history
    since,      \* names committed to the request's key since its DELETE
    hadRoles, hadPerms,  \* what the user has had since the issue began
    calm        \* nothing was committed since the issue began

locals == <<key, want, snap, roles, perms, since, hadRoles, hadPerms, calm>>
rbacVars == <<links, token, stage, locals>>

Unsigned == [sub |-> NoKey, roles |-> {}, perms |-> {}]
TokenClaims == [sub : Subjects \union {NoKey}, roles : SUBSET RoleNames, perms : SUBSET Permissions]
Labels == {"idle", "insert", "rolesOf", "permissionsOf", "sign"}

\* The names a key may be linked to.
Names(k) == IF k \in Subjects THEN RoleNames ELSE Permissions

\* What the join of role_permissions and user_roles gives for user u.
Expand(tables, u) == UNION {tables[x] : x \in tables[u]}

Goto(r, l) == stage' = [stage EXCEPT ![r] = l]

\* The locals of a request that is over.
Cleared(f, r, v) == [f EXCEPT ![r] = v]

Finish(r) ==
    /\ Goto(r, "idle")
    /\ key' = Cleared(key, r, NoKey)
    /\ want' = Cleared(want, r, {}) /\ since' = Cleared(since, r, {})
    /\ roles' = Cleared(roles, r, {}) /\ perms' = Cleared(perms, r, {})

\* runSeeds: the bootstrap administrator; 'admin' has every permission and
\* 'user' none.  The other users are registered with the 'user' role.
RbacInit ==
    /\ links = [k \in Keys |-> CASE k = Bootstrap -> {"admin"}
                                 [] k = "admin" -> Permissions
                                 [] k = "user" -> {}
                                 [] OTHER -> {"user"}]
    /\ token = [t \in Tokens |-> Unsigned]
    /\ stage = [r \in Requests |-> "idle"]
    /\ key = [r \in Requests |-> NoKey]
    /\ want = [r \in Requests |-> {}] /\ snap = [r \in Requests |-> {}]
    /\ roles = [r \in Requests |-> {}] /\ perms = [r \in Requests |-> {}]
    /\ since = [r \in Requests |-> {}]
    /\ hadRoles = [r \in Requests |-> {}] /\ hadPerms = [r \in Requests |-> {}]
    /\ calm = [r \in Requests |-> TRUE]

-----------------------------------------------------------------------------
(* Replacing roles or permissions.                                         *)

\* requirePermission of the two admin routes.  The guard also accepts a scope of
\* the permission's name; clients.routes.ts:16 admits no colon in a scope.
MayReplace(t, k) ==
    (IF k \in Subjects THEN "users:write" ELSE "roles:write") \in token[t].perms

\* Mutant of Replace: the old rows are not deleted.
ReplaceWithoutDelete(r, t, k, names) ==
    /\ stage[r] = "idle" /\ MayReplace(t, k)
    /\ key' = [key EXCEPT ![r] = k]
    /\ want' = [want EXCEPT ![r] = names]
    /\ Goto(r, "insert")
    /\ UNCHANGED <<links, token, snap, roles, perms, since, hadRoles, hadPerms, calm>>

\* PUT /admin/users/:id/roles or /admin/roles/:id/permissions: the guards, then
\* the transaction's DELETE.  Names no row has are ignored by the INSERT.
Replace(r, t, k, names) ==
    /\ stage[r] = "idle" /\ MayReplace(t, k)
    /\ key' = [key EXCEPT ![r] = k]
    /\ want' = [want EXCEPT ![r] = names]
    /\ snap' = [snap EXCEPT ![r] = links[k]]
    /\ Goto(r, "insert")
    /\ UNCHANGED <<links, token, roles, perms, since, hadRoles, hadPerms, calm>>

\* Rows of the key that are there when the transaction inserts.
Left(r) == links[key[r]] \ snap[r]

\* The INSERT of setUserRoles has no ON CONFLICT: a row that is there already
\* is an error.
Conflict(r) == key[r] \in Subjects /\ want[r] \intersect Left(r) # {}

\* withTransaction rolls back on that error and on any other, a lost connection
\* included.
Rollback(r) ==
    /\ stage[r] = "insert"
    /\ Finish(r)
    /\ snap' = [snap EXCEPT ![r] = {}]
    /\ UNCHANGED <<links, token, hadRoles, hadPerms, calm>>

Others(r) == {q \in Requests \ {r} : stage[q] = "insert" /\ key[q] = key[r]}
Issuing == {q \in Requests : stage[q] \in {"rolesOf", "permissionsOf", "sign"}}

\* INSERT and COMMIT.  The rows this transaction deleted are gone for the
\* others that wait for them; the rows it inserted are not among theirs.
Commit(r) ==
    /\ stage[r] = "insert" /\ ~Conflict(r)
    /\ links' = [links EXCEPT ![key[r]] = Left(r) \union want[r]]
    /\ Goto(r, "idle")
    /\ key' = [key EXCEPT ![r] = NoKey] /\ want' = [want EXCEPT ![r] = {}]
    /\ snap' = [q \in Requests |->
           CASE q = r -> {} [] q \in Others(r) -> snap[q] \ snap[r] [] OTHER -> snap[q]]
    /\ since' = [q \in Requests |->
           CASE q = r -> {} [] q \in Others(r) -> since[q] \union want[r] [] OTHER -> since[q]]
    /\ hadRoles' = [q \in Requests |->
           hadRoles[q] \union IF q \in Issuing THEN links'[key[q]] ELSE {}]
    /\ hadPerms' = [q \in Requests |->
           hadPerms[q] \union IF q \in Issuing THEN Expand(links', key[q]) ELSE {}]
    /\ calm' = [q \in Requests |-> q \notin Issuing]
    /\ UNCHANGED <<token, roles, perms>>

-----------------------------------------------------------------------------
(* Issuing an access token: login, code exchange and refresh.              *)

BeginIssue(r, u) ==
    /\ stage[r] = "idle"
    /\ key' = [key EXCEPT ![r] = u]
    /\ hadRoles' = [hadRoles EXCEPT ![r] = links[u]]
    /\ hadPerms' = [hadPerms EXCEPT ![r] = Expand(links, u)]
    /\ Goto(r, "rolesOf")
    /\ UNCHANGED <<links, token, want, snap, roles, perms, since, calm>>

RolesOf(r) ==
    /\ stage[r] = "rolesOf"
    /\ roles' = [roles EXCEPT ![r] = links[key[r]]]
    /\ Goto(r, "permissionsOf")
    /\ UNCHANGED <<links, token, key, want, snap, perms, since, hadRoles, hadPerms, calm>>

\* Mutant of PermissionsOf: the roles claim is expanded by a cached copy of the seed.
PermissionsOfSeed(r) ==
    /\ stage[r] = "permissionsOf"
    /\ perms' = [perms EXCEPT ![r] = IF "admin" \in roles[r] THEN Permissions ELSE {}]
    /\ Goto(r, "sign")
    /\ UNCHANGED <<links, token, key, want, snap, roles, since, hadRoles, hadPerms, calm>>

\* permissionsOf reads the tables again.
PermissionsOf(r) ==
    /\ stage[r] = "permissionsOf"
    /\ perms' = [perms EXCEPT ![r] = Expand(links, key[r])]
    /\ Goto(r, "sign")
    /\ UNCHANGED <<links, token, key, want, snap, roles, since, hadRoles, hadPerms, calm>>

\* signAccessToken.  Bound: as many tokens alive as Tokens has.
SignAccessToken(r, t) ==
    /\ stage[r] = "sign" /\ token[t] = Unsigned
    /\ token' = [token EXCEPT ![t] =
           [sub |-> key[r], roles |-> roles[r], perms |-> perms[r]]]
    /\ Finish(r)
    /\ hadRoles' = Cleared(hadRoles, r, {}) /\ hadPerms' = Cleared(hadPerms, r, {})
    /\ calm' = Cleared(calm, r, TRUE)
    /\ UNCHANGED <<links, snap>>

\* ACCESS_TOKEN_TTL passes, see AccessTokens.
ExpireToken(t) ==
    /\ token[t] # Unsigned
    /\ token' = [token EXCEPT ![t] = Unsigned]
    /\ UNCHANGED <<links, stage, locals>>

RbacNext ==
    \/ \E r \in Requests :
          \/ \E t \in Tokens, k \in Keys : \E names \in SUBSET Names(k) : Replace(r, t, k, names)
          \/ Rollback(r) \/ Commit(r)
          \/ \E u \in Subjects : BeginIssue(r, u)
          \/ RolesOf(r) \/ PermissionsOf(r)
          \/ \E t \in Tokens : SignAccessToken(r, t)
    \/ \E t \in Tokens : ExpireToken(t)

RbacSpec == RbacInit /\ [][RbacNext]_rbacVars

-----------------------------------------------------------------------------
(* Properties.                                                             *)

\* Every variable has its type.
RbacTypeOK ==
    /\ links \in [Keys -> SUBSET (RoleNames \union Permissions)]
    /\ \A k \in Keys : links[k] \subseteq Names(k)
    /\ token \in [Tokens -> TokenClaims]
    /\ stage \in [Requests -> Labels] /\ key \in [Requests -> Keys \union {NoKey}]
    /\ want \in [Requests -> SUBSET (RoleNames \union Permissions)]
    /\ snap \in [Requests -> SUBSET (RoleNames \union Permissions)]
    /\ roles \in [Requests -> SUBSET RoleNames] /\ perms \in [Requests -> SUBSET Permissions]
    /\ since \in [Requests -> SUBSET (RoleNames \union Permissions)]
    /\ hadRoles \in [Requests -> SUBSET RoleNames] /\ hadPerms \in [Requests -> SUBSET Permissions]
    /\ calm \in [Requests -> BOOLEAN]

\* jwt.service.ts: "Expanded RBAC permissions (from roles) embedded for stateless
\* checks".  Whatever is replaced while a token is being issued, it carries only
\* roles and permissions the user had at some moment since the issue began; when
\* nothing was replaced it carries exactly those of the tables.
TokensAreTimely ==
    \A r \in Requests : stage[r] = "sign" =>
        /\ roles[r] \subseteq hadRoles[r] /\ perms[r] \subseteq hadPerms[r]
        /\ calm[r] => /\ roles[r] = links[key[r]]
                      /\ perms[r] = Expand(links, key[r])

\* openapi.yaml: "Replace a user's roles", "Replace a role's permissions".  A
\* replacement that commits leaves what it asked for and nothing that was there
\* before it: any other name was committed by a replacement of the same key that
\* overlapped with it.
OldRowsGo ==
    [][\A r \in Requests : stage[r] = "insert" /\ stage'[r] = "idle" /\ links' # links =>
          /\ want[r] \subseteq links'[key[r]]
          /\ links'[key[r]] \subseteq want[r] \union since[r]]_rbacVars

=============================================================================
