------------------------- MODULE AuthorizationProofs -------------------------
(***************************************************************************)
(* Proofs about what callers are allowed: the gateway and the documents    *)
(* routes (Documents), and the roles and permissions that tokens carry     *)
(* (Rbac).                                                                 *)
(*                                                                         *)
(* Documents, for every finite set of requests, all users and services,    *)
(* any inbound headers and number of documents, with and without a shared  *)
(* secret.                                                                 *)
(* Counted says that a creation in flight has a document left to create.   *)
(* Origin says which of the two ways a request took, so that its headers   *)
(* are the verified claims or come without the secret.  Tested says what   *)
(* is still true, while rows are written, of the row a delete was tested   *)
(* on.                                                                     *)
(*                                                                         *)
(* Rbac, for all sets of requests, users and tokens.  Replacing bounds     *)
(* the rows of a key that is being replaced by those the DELETE has seen   *)
(* and those committed since; Issues says how what an issue has read is    *)
(* related to the tables now and to all they have held.                    *)
(***************************************************************************)
EXTENDS Documents, Rbac, TLAPS, FiniteSetTheorems

-----------------------------------------------------------------------------
(* Documents: the inductive invariant.                                     *)

Creators == {q \in Requests : op[q] = "create"}

\* A request that is over has no route; the documents asked for fit.
Counted ==
    /\ born + Cardinality(Creators) <= MaxDocs
    /\ \A r \in Requests : pc[r] = "idle" => op[r] = "list"

Verified(r) ==
    /\ claims[r] \in Claims /\ headers[r].sent = claims[r]
    /\ "api.read" \in claims[r].scopes

Unverified(r) == claims[r] = NoClaims /\ headers[r].secret = FALSE

Origin == \A r \in Requests : Verified(r) \/ Unverified(r)

\* Nobody else becomes the owner of a document that somebody owned.
Tested ==
    \A r \in Requests :
        /\ pc[r] = "remove" => Admitted(r) /\ op[r] = "delete" /\ target[r] \in 1..born
        /\ pc[r] = "remove" /\ UserId(r) # NoOne => owner[target[r]] \in {UserId(r), NoOne}

IInv == TypeOK /\ Counted /\ Origin /\ Tested

-----------------------------------------------------------------------------

\* Claims, and the absence of claims, can be sent as headers.
LEMMA ClaimsAreSent ==
    /\ Claims \subseteq Sent /\ NoClaims \in Sent /\ NoClaims \notin Claims
    /\ \A cl \in Claims : cl.scopes \subseteq Scopes
  <1> USE DocumentsConstants DEF Claims, Sent, NoClaims
  <1>1. ASSUME NEW cl \in [user : Users, client : Services \union {NoOne}, scopes : SUBSET Scopes,
                           roles : SUBSET {"admin"}]
        PROVE  cl \in Sent /\ cl.user # NoOne /\ cl.scopes \subseteq Scopes
    BY DEF Roles
  <1>2. ASSUME NEW c \in Services, NEW ss \in SUBSET Scopes,
               NEW cl, cl = [user |-> c, client |-> c, scopes |-> ss, roles |-> {"service"}]
        PROVE  cl \in Sent /\ cl.user # NoOne /\ cl.scopes \subseteq Scopes
    BY <1>2 DEF Roles
  <1>3. NoClaims \in Sent /\ NoClaims.user = NoOne
    OBVIOUS
  <1> HIDE DEF Sent, NoClaims
  <1> QED
    BY <1>1, <1>2, <1>3

\* Who is creating a document when r takes up or finishes a creation.
LEMMA CreatorsChange ==
    ASSUME TypeOK, NEW r \in Requests, NEW o \in Ops, op' = [op EXCEPT ![r] = o],
           op[r] = "list" \/ o = "list"
    PROVE  /\ Cardinality(Creators) \in Nat /\ Cardinality(Creators)' \in Nat
           /\ op[r] = "create" => Cardinality(Creators)' = Cardinality(Creators) - 1
           /\ op[r] # "create" /\ o = "create" => Cardinality(Creators)' = Cardinality(Creators) + 1
           /\ op[r] # "create" /\ o # "create" => Cardinality(Creators)' = Cardinality(Creators)
  <1>1. IsFiniteSet(Creators) /\ IsFiniteSet(Creators')
    BY FS_Subset, DocumentsConstants DEF Creators
  <1>2. Cardinality(Creators) \in Nat /\ Cardinality(Creators)' \in Nat
    BY <1>1, FS_CardinalityType
  <1>3. CASE op[r] = "create"
    <2>1. Creators' = Creators \ {r} /\ r \in Creators
      BY <1>3 DEF Creators, TypeOK, Ops
    <2> QED
      BY <1>1, <1>2, <1>3, <2>1, FS_RemoveElement
  <1>4. CASE op[r] # "create" /\ o = "create"
    <2>1. Creators' = Creators \union {r} /\ r \notin Creators
      BY <1>4 DEF Creators, TypeOK, Ops
    <2> QED
      BY <1>1, <1>2, <1>4, <2>1, FS_AddElement
  <1>5. CASE op[r] # "create" /\ o # "create"
    <2>1. Creators' = Creators
      BY <1>5 DEF Creators, TypeOK, Ops
    <2> QED
      BY <1>2, <1>5, <2>1
  <1> QED
    BY <1>2, <1>3, <1>4, <1>5

\* No document and no request.
LEMMA IInvInit == Init => IInv
  <1> SUFFICES ASSUME Init PROVE IInv
    OBVIOUS
  <1>1. TypeOK
    BY ClaimsAreSent, DocumentsConstants DEF Init, TypeOK, Ops, Nothing, NoDoc
  <1>2. Counted
    <2>1. Creators = {}
      BY DEF Init, Creators
    <2> QED
      BY <2>1, FS_EmptySet, DocumentsConstants DEF Init, Counted
  <1>3. Origin /\ Tested
    BY DEF Init, Origin, Unverified, Nothing, Tested
  <1> QED
    BY <1>1, <1>2, <1>3 DEF IInv

\* The end of a request, with the rows as it leaves them.
LEMMA ReturnKeeps ==
    ASSUME IInv, NEW r \in Requests, Return(r), owner' = owner, born' = born
    PROVE  IInv'
  <1> USE DEF IInv
  <1>1. TypeOK'
    BY ClaimsAreSent DEF Return, TypeOK, Ops, Nothing, NoDoc
  <1>2. Counted'
    <2>1. op' = [op EXCEPT ![r] = "list"] /\ "list" \in Ops
      BY DEF Return, Ops
    <2>2. /\ Cardinality(Creators) \in Nat /\ Cardinality(Creators)' \in Nat
          /\ \/ Cardinality(Creators)' = Cardinality(Creators)
             \/ Cardinality(Creators)' = Cardinality(Creators) - 1
      BY <2>1, CreatorsChange
    <2>3. Cardinality(Creators)' <= Cardinality(Creators)
      BY <2>2
    <2> QED
      BY <2>2, <2>3, DocumentsConstants DEF Return, Counted, TypeOK
  <1>3. Origin'
    BY DEF Return, Origin, Verified, Unverified, TypeOK, Nothing
  <1>4. Tested'
    BY DEF Return, Tested, Admitted, FromGateway, HasIdentity, UserId, ClientId,
           TypeOK
  <1> QED
    BY <1>1, <1>2, <1>3, <1>4

\* Every action keeps the invariant.
LEMMA IInvNext ==
    ASSUME IInv, [Next]_vars
    PROVE  IInv'
  <1> USE DocumentsConstants DEF IInv
  <1>1. ASSUME NEW r \in Requests, NEW o \in Ops, NEW inbound \in Inbound,
               NEW cl \in Claims, ThroughGateway(r, o, inbound, cl)
        PROVE  IInv'
    <2>1. TypeOK'
      BY <1>1, ClaimsAreSent DEF ThroughGateway, TypeOK, Forward
    <2>2. Counted'
      <3>1. op' = [op EXCEPT ![r] = o] /\ op[r] = "list"
        BY <1>1 DEF ThroughGateway, Counted
      <3>2. Cardinality(Creators) \in Nat /\ Cardinality(Creators)' \in Nat
        BY <3>1, CreatorsChange
      <3>3. \/ Cardinality(Creators)' = Cardinality(Creators)
            \/ o = "create" /\ Cardinality(Creators)' = Cardinality(Creators) + 1
        BY <3>1, CreatorsChange
      <3>4. o = "create" => born + Cardinality(Creators) < MaxDocs
        BY <1>1 DEF ThroughGateway, Room, Creators
      <3> QED
        BY <1>1, <3>2, <3>3, <3>4 DEF ThroughGateway, Counted, TypeOK
    <2>3. Origin'
      BY <1>1 DEF ThroughGateway, Origin, Verified, Unverified, Forward, TypeOK
    <2>4. Tested'
      BY <1>1
         DEF ThroughGateway, Tested, Admitted, FromGateway, HasIdentity, UserId,
             ClientId, TypeOK
    <2> QED
      BY <2>1, <2>2, <2>3, <2>4
  <1>2. ASSUME NEW r \in Requests, NEW o \in Ops, NEW inbound \in Inbound,
               Direct(r, o, inbound)
        PROVE  IInv'
    <2>1. TypeOK'
      BY <1>2, ClaimsAreSent DEF Direct, TypeOK
    <2>2. Counted'
      <3>1. op' = [op EXCEPT ![r] = o] /\ op[r] = "list"
        BY <1>2 DEF Direct, Counted
      <3>2. Cardinality(Creators) \in Nat /\ Cardinality(Creators)' \in Nat
        BY <3>1, CreatorsChange
      <3>3. \/ Cardinality(Creators)' = Cardinality(Creators)
            \/ o = "create" /\ Cardinality(Creators)' = Cardinality(Creators) + 1
        BY <3>1, CreatorsChange
      <3>4. o = "create" => born + Cardinality(Creators) < MaxDocs
        BY <1>2 DEF Direct, Room, Creators
      <3> QED
        BY <1>2, <3>2, <3>3, <3>4 DEF Direct, Counted, TypeOK
    <2>3. Origin'
      BY <1>2 DEF Direct, Origin, Verified, Unverified, TypeOK
    <2>4. Tested'
      BY <1>2
         DEF Direct, Tested, Admitted, FromGateway, HasIdentity, UserId, ClientId,
             TypeOK
    <2> QED
      BY <2>1, <2>2, <2>3, <2>4
  <1>3. ASSUME NEW r \in Requests, Refuse(r)
        PROVE  IInv'
    BY <1>3, ReturnKeeps DEF Refuse
  <1>4. ASSUME NEW r \in Requests, List(r)
        PROVE  IInv'
    BY <1>4, ReturnKeeps DEF List
  <1>5. ASSUME NEW r \in Requests, Create(r)
        PROVE  IInv'
    <2>1. /\ op' = [op EXCEPT ![r] = "list"] /\ op[r] = "create" /\ born' = born + 1
          /\ owner' = [owner EXCEPT ![born + 1] = UserId(r)] /\ UserId(r) \in Users
      BY <1>5 DEF Create, Return, Admitted, UserId
    <2>2. born + 1 <= MaxDocs /\ Counted'
      <3>1. /\ Cardinality(Creators) \in Nat /\ Cardinality(Creators)' \in Nat
            /\ Cardinality(Creators)' = Cardinality(Creators) - 1
        BY <2>1, CreatorsChange DEF Ops
      <3> QED
        BY <1>5, <2>1, <3>1 DEF Create, Return, Counted, TypeOK
    <2>3. TypeOK'
      <3>1. /\ owner' \in [Docs -> Users \union {NoOne}] /\ born' \in 0..MaxDocs
            /\ \A d \in Docs : d > born' => owner'[d] = NoOne
        BY <2>1, <2>2 DEF TypeOK, Docs
      <3>2. /\ pc' \in [Requests -> {"idle", "arrived", "remove"}]
            /\ op' \in [Requests -> Ops] /\ claims' \in [Requests -> Claims \union {NoClaims}]
            /\ headers' \in [Requests -> [sent : Sent, secret : BOOLEAN]]
            /\ target' \in [Requests -> Docs \union {NoDoc}]
        BY <1>5, ClaimsAreSent DEF Create, Return, TypeOK, Ops, Nothing
      <3> QED
        BY <3>1, <3>2 DEF TypeOK
    <2>4. Origin'
      BY <1>5 DEF Create, Return, Origin, Verified, Unverified, TypeOK, Nothing
    <2>5. \A d \in 1..born : owner'[d] = owner[d]
      BY <2>1, <2>2 DEF TypeOK, Docs
    <2>6. /\ \A q \in Requests : pc'[q] = "remove" =>
                q # r /\ pc'[q] = pc[q] /\ headers'[q] = headers[q] /\ op'[q] = op[q]
                      /\ target'[q] = target[q]
          /\ born' = born + 1 /\ born \in Nat
      BY <1>5 DEF Create, Return, TypeOK
    <2>7. \A q \in Requests : pc'[q] = "remove" =>
             Admitted(q)' = Admitted(q) /\ UserId(q)' = UserId(q)
      BY <2>6 DEF Admitted, FromGateway, HasIdentity, UserId, ClientId
    <2>8. Tested'
      BY <2>5, <2>6, <2>7 DEF Tested
    <2> QED
      BY <2>2, <2>3, <2>4, <2>8
  <1>6. ASSUME NEW r \in Requests, Remove(r)
        PROVE  IInv'
    <2>1. TypeOK'
      BY <1>6, ClaimsAreSent DEF Remove, Return, TypeOK, Ops, Nothing, NoDoc, Docs
    <2>2. Counted'
      <3>1. op' = [op EXCEPT ![r] = "list"] /\ "list" \in Ops /\ op[r] # "create"
        BY <1>6 DEF Remove, Return, Ops, Tested
      <3>2. /\ Cardinality(Creators) \in Nat /\ Cardinality(Creators)' \in Nat
            /\ Cardinality(Creators)' = Cardinality(Creators)
        BY <3>1, CreatorsChange
      <3> QED
        BY <1>6, <3>2 DEF Remove, Return, Counted, TypeOK
    <2>3. Origin'
      BY <1>6 DEF Remove, Return, Origin, Verified, Unverified, TypeOK, Nothing
    <2>4. Tested'
      BY <1>6
         DEF Remove, Return, Tested, Admitted, FromGateway, HasIdentity, UserId,
         ClientId, TypeOK, Docs
    <2> QED
      BY <2>1, <2>2, <2>3, <2>4
  <1>7. ASSUME NEW r \in Requests, NEW d \in Docs, FindById(r, d)
        PROVE  IInv'
    <2>1. CASE Return(r)
      BY <1>7, <2>1, ReturnKeeps DEF FindById
    <2>2. CASE /\ Deletable(r, d)
               /\ target' = [target EXCEPT ![r] = d]
               /\ pc' = [pc EXCEPT ![r] = "remove"]
               /\ UNCHANGED <<op, claims, headers>>
      <3>1. d \in 1..born
        BY <2>2 DEF Deletable, TypeOK, Docs
      <3>2. TypeOK' /\ Counted' /\ Origin'
        BY <1>7, <2>2
           DEF FindById, TypeOK, Counted, Creators, Origin, Verified, Unverified
      <3>3. Tested'
        BY <1>7, <2>2, <3>1 DEF FindById, Deletable, Tested, Admitted, FromGateway,
           HasIdentity, UserId, ClientId, TypeOK
      <3> QED
        BY <3>2, <3>3
    <2> QED
      BY <1>7, <2>1, <2>2 DEF FindById
  <1>8. CASE UNCHANGED vars
    BY <1>8
       DEF vars, TypeOK, Counted, Creators, Origin, Verified, Unverified, Tested,
       Admitted, FromGateway, HasIdentity, UserId, ClientId
  <1> HIDE DEF IInv
  <1> QED
    BY <1>1, <1>2, <1>3, <1>4, <1>5, <1>6, <1>7, <1>8 DEF Next

\* The invariant of the gateway and the resource API together.
THEOREM Invariance == Spec => []IInv
  <1>1. Init => IInv
    BY IInvInit
  <1>2. IInv /\ [Next]_vars => IInv'
    BY IInvNext
  <1> QED
    BY <1>1, <1>2, PTL DEF Spec

\* Documents belong to users, and everything else keeps its type.
THEOREM TypeCorrect == Spec => []TypeOK
  <1>1. IInv => TypeOK
    BY DEF IInv
  <1> QED
    BY <1>1, Invariance, PTL

\* In one state: a request the guards let through carries verified claims.
LEMMA AdmittedIsVerified ==
    ASSUME IInv, SharedSecret, NEW r \in Requests, Admitted(r)
    PROVE  Verified(r)
  BY DEF IInv, Origin, Unverified, Admitted, FromGateway

\* A route works with the identity the gateway verified, whatever headers a
\* request came with and whichever way it took.
THEOREM IdentityFromClaims == Spec => []IdentityIsVerified
  <1>1. IInv => IdentityIsVerified
    BY AdmittedIsVerified, ClaimsAreSent
       DEF IdentityIsVerified, Verified, UserId, ClientId
  <1> QED
    BY <1>1, Invariance, PTL

\* The test on the row findById returned still holds when remove deletes it.
THEOREM DeletesAreEntitled == Spec => OnlyEntitledDelete
  <1>1. ASSUME IInv, [Next]_vars
        PROVE  [SharedSecret => \A d \in Docs : owner[d] # NoOne /\ owner'[d] = NoOne =>
                  \E r \in Requests :
                      /\ pc[r] = "remove" /\ target[r] = d /\ claims[r].scopes = Scopes
                      /\ claims[r].user \in Users =>
                            claims[r].user = owner[d] \/ "admin" \in claims[r].roles]_vars
    <2> SUFFICES ASSUME SharedSecret, NEW d \in Docs, owner[d] # NoOne, owner'[d] = NoOne
                 PROVE  \E r \in Requests :
                            /\ pc[r] = "remove" /\ target[r] = d /\ claims[r].scopes = Scopes
                            /\ claims[r].user \in Users =>
                                  claims[r].user = owner[d] \/ "admin" \in claims[r].roles
      OBVIOUS
    <2>1. ASSUME NEW r \in Requests, Create(r)
          PROVE  FALSE
      BY <1>1, <2>1, DocumentsConstants DEF Create, Admitted, IInv, TypeOK, Docs
    <2>2. PICK r \in Requests : Remove(r)
      BY <1>1, <2>1
         DEF Next, vars, ThroughGateway, Direct, Refuse, List, FindById
    <2>3. pc[r] = "remove" /\ target[r] = d
      BY <1>1, <2>2 DEF Remove, IInv, TypeOK
    <2>4. Admitted(r) /\ Verified(r) /\ op[r] = "delete"
      BY <1>1, <2>3, AdmittedIsVerified DEF IInv, Tested
    <2>5. claims[r].scopes = Scopes
      BY <2>4, ClaimsAreSent DEF Verified, Admitted, Needs, Scopes
    <2>6. ASSUME claims[r].user \in Users
          PROVE  claims[r].user = owner[d]
      <3>1. UserId(r) = claims[r].user /\ UserId(r) # NoOne
        BY <2>4, <2>6, DocumentsConstants DEF Verified, UserId
      <3> QED
        BY <1>1, <2>3, <2>4, <3>1 DEF IInv, Tested, Verified
    <2> QED
      BY <2>3, <2>5, <2>6
  <1> QED
    BY <1>1, Invariance, PTL DEF Spec, OnlyEntitledDelete

-----------------------------------------------------------------------------
(* Roles and permissions.                                                  *)

\* A replacement that has deleted its rows: any that are there now were deleted
\* by it or committed since by another of the same key.
Replacing ==
    \A r \in Requests : stage[r] = "insert" =>
        /\ key[r] \in Keys /\ want[r] \subseteq Names(key[r])
        /\ links[key[r]] \subseteq snap[r] \union since[r]

\* An issue in progress: what the user has now it has had since the issue began,
\* and what was read is still what the tables say unless something was committed.
Issues ==
    \A r \in Requests : stage[r] \in {"rolesOf", "permissionsOf", "sign"} =>
        /\ key[r] \in Subjects
        /\ links[key[r]] \subseteq hadRoles[r] /\ Expand(links, key[r]) \subseteq hadPerms[r]
        /\ stage[r] # "rolesOf" =>
              roles[r] \subseteq hadRoles[r] /\ (calm[r] => roles[r] = links[key[r]])
        /\ stage[r] = "sign" =>
              perms[r] \subseteq hadPerms[r] /\ (calm[r] => perms[r] = Expand(links, key[r]))

RbacInv == RbacTypeOK /\ Replacing /\ Issues

-----------------------------------------------------------------------------

\* What a user's roles expand to are permissions.
LEMMA ExpandsToPermissions ==
    ASSUME NEW tables \in [Keys -> SUBSET (RoleNames \union Permissions)],
           \A k \in Keys : tables[k] \subseteq Names(k), NEW u \in Subjects
    PROVE  Expand(tables, u) \subseteq Permissions /\ tables[u] \subseteq RoleNames
  <1>1. u \in Keys /\ Names(u) = RoleNames
    BY DEF Keys, Names
  <1>2. \A x \in RoleNames : x \in Keys /\ Names(x) = Permissions
    BY RbacConstants DEF Keys, Names
  <1> QED
    BY <1>1, <1>2 DEF Expand

\* The seed.
LEMMA RbacInitInv ==
    ASSUME RbacInit
    PROVE  RbacInv
  <1>1. links \in [Keys -> SUBSET (RoleNames \union Permissions)]
    BY DEF RbacInit, RoleNames, Permissions
  <1>2. \A k \in Keys : links[k] \subseteq Names(k)
    BY RbacConstants DEF RbacInit, Keys, Names, RoleNames, Permissions
  <1>3. token \in [Tokens -> TokenClaims]
    BY DEF RbacInit, Unsigned, TokenClaims
  <1>4. RbacTypeOK
    BY <1>1, <1>2, <1>3 DEF RbacInit, RbacTypeOK, Labels
  <1> QED
    BY <1>4 DEF RbacInv, Replacing, Issues, RbacInit

\* Every step keeps the invariant.
LEMMA RbacNextInv ==
    ASSUME RbacInv, [RbacNext]_rbacVars
    PROVE  RbacInv'
  <1> USE DEF Goto, Finish, Cleared, locals
  <1>t. RbacTypeOK /\ Replacing /\ Issues
    BY DEF RbacInv
  <1>k. Subjects \subseteq Keys
    BY DEF Keys
  <1>1. ASSUME NEW r \in Requests, NEW t \in Tokens, NEW k \in Keys,
               NEW names \in SUBSET Names(k), Replace(r, t, k, names)
        PROVE  RbacInv'
    <2>1. names \subseteq RoleNames \union Permissions
      BY DEF Names
    <2>2. RbacTypeOK'
      BY <1>t, <1>1, <2>1 DEF Replace, RbacTypeOK, Labels
    <2>3. Replacing'
      BY <1>t, <1>1 DEF Replace, RbacTypeOK, Replacing
    <2>4. Issues'
      BY <1>t, <1>1 DEF Replace, RbacTypeOK, Issues
    <2> QED
      BY <2>2, <2>3, <2>4 DEF RbacInv
  <1>2. ASSUME NEW r \in Requests, Rollback(r)
        PROVE  RbacInv'
    <2>1. RbacTypeOK'
      BY <1>t, <1>2 DEF Rollback, RbacTypeOK, Labels
    <2>2. Replacing' /\ Issues'
      BY <1>t, <1>2 DEF Rollback, RbacTypeOK, Replacing, Issues
    <2> QED
      BY <2>1, <2>2 DEF RbacInv
  <1>3. ASSUME NEW r \in Requests, Commit(r)
        PROVE  RbacInv'
    <2>1. /\ stage[r] = "insert" /\ stage' = [stage EXCEPT ![r] = "idle"]
          /\ links' = [links EXCEPT ![key[r]] = (links[key[r]] \ snap[r]) \union want[r]]
          /\ key' = [key EXCEPT ![r] = NoKey] /\ want' = [want EXCEPT ![r] = {}]
          /\ UNCHANGED <<token, roles, perms>>
      BY <1>3 DEF Commit, Left
    <2>2. /\ key[r] \in Keys /\ want[r] \subseteq Names(key[r])
          /\ links[key[r]] \subseteq snap[r] \union since[r]
      BY <1>t, <2>1 DEF Replacing
    <2>3. /\ links' \in [Keys -> SUBSET (RoleNames \union Permissions)]
          /\ \A k \in Keys : links'[k] \subseteq Names(k)
      BY <1>t, <2>1, <2>2 DEF RbacTypeOK, Names
    <2>4. /\ snap' \in [Requests -> SUBSET (RoleNames \union Permissions)]
          /\ since' \in [Requests -> SUBSET (RoleNames \union Permissions)]
      BY <1>t, <1>3 DEF Commit, RbacTypeOK
    <2>5. ASSUME NEW q \in Requests, stage[q] \in {"rolesOf", "permissionsOf", "sign"}
          PROVE  /\ key[q] \in Subjects /\ q # r /\ q \in Issuing
                 /\ links'[key[q]] \subseteq RoleNames
                 /\ Expand(links', key[q]) \subseteq Permissions
      BY <1>t, <2>1, <2>3, <2>5, ExpandsToPermissions DEF Issues, Issuing
    <2>6. /\ hadRoles' \in [Requests -> SUBSET RoleNames]
          /\ hadPerms' \in [Requests -> SUBSET Permissions]
          /\ \A q \in Requests :
                /\ hadRoles[q] \subseteq hadRoles'[q] /\ hadPerms[q] \subseteq hadPerms'[q]
                /\ q \in Issuing => /\ links'[key[q]] \subseteq hadRoles'[q]
                                       /\ Expand(links', key[q]) \subseteq hadPerms'[q]
      BY <1>t, <1>3, <2>5 DEF Commit, RbacTypeOK, Issuing
    <2>7. /\ calm' \in [Requests -> BOOLEAN]
          /\ \A q \in Requests : q \in Issuing => ~calm'[q]
      BY <1>3 DEF Commit
    <2>8. RbacTypeOK'
      BY <1>t, <2>1, <2>3, <2>4, <2>6, <2>7 DEF RbacTypeOK, Labels
    <2>9. Replacing'
      <3> SUFFICES ASSUME NEW q \in Requests, stage'[q] = "insert"
                   PROVE  /\ key'[q] \in Keys /\ want'[q] \subseteq Names(key'[q])
                          /\ links'[key'[q]] \subseteq snap'[q] \union since'[q]
        BY DEF Replacing, Names
      <3>1. q # r /\ stage[q] = "insert" /\ key'[q] = key[q] /\ want'[q] = want[q]
        BY <1>t, <2>1 DEF RbacTypeOK
      <3>2. /\ key[q] \in Keys /\ want[q] \subseteq Names(key[q])
            /\ links[key[q]] \subseteq snap[q] \union since[q]
        BY <1>t, <3>1 DEF Replacing
      <3>3. CASE key[q] = key[r]
        <4>1. snap'[q] = snap[q] \ snap[r] /\ since'[q] = since[q] \union want[r]
          BY <1>3, <3>1, <3>3 DEF Commit, Others
        <4>2. links'[key[q]] = (links[key[q]] \ snap[r]) \union want[r]
          BY <1>t, <2>1, <2>2, <3>3 DEF RbacTypeOK
        <4> QED
          BY <3>1, <3>2, <4>1, <4>2
      <3>4. CASE key[q] # key[r]
        <4>1. snap'[q] = snap[q] /\ since'[q] = since[q]
          BY <1>3, <3>1, <3>4 DEF Commit, Others
        <4>2. links'[key[q]] = links[key[q]]
          BY <1>t, <2>1, <3>2, <3>4 DEF RbacTypeOK
        <4> QED
          BY <3>1, <3>2, <4>1, <4>2
      <3> QED
        BY <3>3, <3>4
    <2>10. Issues'
      <3>1. \A q \in Requests : stage'[q] \in {"rolesOf", "permissionsOf", "sign"} =>
               /\ stage'[q] = stage[q] /\ key'[q] = key[q] /\ q \in Issuing
        BY <1>t, <2>1 DEF RbacTypeOK, Issuing
      <3>2. UNCHANGED <<roles, perms>>
        BY <2>1
      <3> QED
        BY <1>t, <2>6, <2>7, <3>1, <3>2 DEF Issues
    <2> QED
      BY <2>8, <2>9, <2>10 DEF RbacInv
  <1>4. ASSUME NEW r \in Requests, NEW u \in Subjects, BeginIssue(r, u)
        PROVE  RbacInv'
    <2>1. links[u] \subseteq RoleNames /\ Expand(links, u) \subseteq Permissions
      BY <1>t, ExpandsToPermissions DEF RbacTypeOK
    <2>2. RbacTypeOK'
      BY <1>t, <1>k, <1>4, <2>1 DEF BeginIssue, RbacTypeOK, Labels
    <2>3. Replacing'
      BY <1>t, <1>4 DEF BeginIssue, RbacTypeOK, Replacing
    <2>4. Issues'
      BY <1>t, <1>4 DEF BeginIssue, RbacTypeOK, Issues
    <2> QED
      BY <2>2, <2>3, <2>4 DEF RbacInv
  <1>5. ASSUME NEW r \in Requests, RolesOf(r)
        PROVE  RbacInv'
    <2>1. key[r] \in Subjects /\ links[key[r]] \subseteq RoleNames
      BY <1>t, <1>5, ExpandsToPermissions DEF RolesOf, Issues, RbacTypeOK
    <2>2. RbacTypeOK'
      BY <1>t, <1>5, <2>1 DEF RolesOf, RbacTypeOK, Labels
    <2>3. Replacing' /\ Issues'
      BY <1>t, <1>5 DEF RolesOf, RbacTypeOK, Replacing, Issues
    <2> QED
      BY <2>2, <2>3 DEF RbacInv
  <1>6. ASSUME NEW r \in Requests, PermissionsOf(r)
        PROVE  RbacInv'
    <2>1. key[r] \in Subjects /\ Expand(links, key[r]) \subseteq Permissions
      BY <1>t, <1>6, ExpandsToPermissions DEF PermissionsOf, Issues, RbacTypeOK
    <2>2. RbacTypeOK'
      BY <1>t, <1>6, <2>1 DEF PermissionsOf, RbacTypeOK, Labels
    <2>3. Replacing' /\ Issues'
      BY <1>t, <1>6 DEF PermissionsOf, RbacTypeOK, Replacing, Issues
    <2> QED
      BY <2>2, <2>3 DEF RbacInv
  <1>7. ASSUME NEW r \in Requests, NEW t \in Tokens, SignAccessToken(r, t)
        PROVE  RbacInv'
    <2>1. key[r] \in Subjects
      BY <1>t, <1>7 DEF SignAccessToken, Issues
    <2>2. token' \in [Tokens -> TokenClaims]
      BY <1>t, <1>7, <2>1 DEF SignAccessToken, RbacTypeOK, TokenClaims
    <2>3. RbacTypeOK'
      BY <1>t, <1>7, <2>2 DEF SignAccessToken, RbacTypeOK, Labels
    <2>4. Replacing' /\ Issues'
      BY <1>t, <1>7 DEF SignAccessToken, RbacTypeOK, Replacing, Issues
    <2> QED
      BY <2>3, <2>4 DEF RbacInv
  <1>8. ASSUME NEW t \in Tokens, ExpireToken(t)
        PROVE  RbacInv'
    <2>1. Unsigned \in TokenClaims
      BY DEF Unsigned, TokenClaims
    <2>2. RbacTypeOK'
      BY <1>t, <1>8, <2>1 DEF ExpireToken, RbacTypeOK
    <2> QED
      BY <1>t, <1>8, <2>2 DEF ExpireToken, RbacInv, Replacing, Issues
  <1>9. ASSUME UNCHANGED rbacVars
        PROVE  RbacInv'
    BY <1>9 DEF rbacVars, RbacInv, RbacTypeOK, Replacing, Issues
  <1> QED
    BY <1>1, <1>2, <1>3, <1>4, <1>5, <1>6, <1>7, <1>8, <1>9 DEF RbacNext

\* The invariant of roles, permissions and issues holds in every reachable state.
THEOREM RbacInvariance == RbacSpec => []RbacInv
  <1>1. RbacInv /\ [RbacNext]_rbacVars => RbacInv'
    BY RbacNextInv
  <1>2. RbacInit => RbacInv
    BY RbacInitInv
  <1> QED
    BY <1>1, <1>2, PTL DEF RbacSpec

\* Every variable of the RBAC tables and their readers keeps its type.
THEOREM RbacTypes == RbacSpec => []RbacTypeOK
  <1>1. RbacInv => RbacTypeOK
    BY DEF RbacInv
  <1> QED
    BY <1>1, RbacInvariance, PTL

\* rolesOf and permissionsOf are two statements, and any number of replacements
\* may commit between them: a token still carries nothing its user never had.
THEOREM ClaimsAreTimely == RbacSpec => []TokensAreTimely
  <1>1. RbacInv => TokensAreTimely
    BY DEF RbacInv, Issues, TokensAreTimely
  <1> QED
    BY <1>1, RbacInvariance, PTL

\* What a replacement that commits may leave, as an action.
Replaced ==
    \A r \in Requests : stage[r] = "insert" /\ stage'[r] = "idle" /\ links' # links =>
        /\ want[r] \subseteq links'[key[r]]
        /\ links'[key[r]] \subseteq want[r] \union since[r]

\* Only Commit writes the tables, and for one request.
LEMMA StepReplaces ==
    ASSUME RbacInv, [RbacNext]_rbacVars
    PROVE  [Replaced]_rbacVars
  <1>1. ASSUME NEW r \in Requests, Commit(r)
        PROVE  Replaced
    <2>1. /\ stage[r] = "insert" /\ stage' = [stage EXCEPT ![r] = "idle"]
          /\ links' = [links EXCEPT ![key[r]] = (links[key[r]] \ snap[r]) \union want[r]]
      BY <1>1 DEF Commit, Left, Goto
    <2>2. key[r] \in Keys /\ links[key[r]] \subseteq snap[r] \union since[r]
      BY <2>1 DEF RbacInv, Replacing
    <2>3. links'[key[r]] = (links[key[r]] \ snap[r]) \union want[r]
      BY <2>1, <2>2 DEF RbacInv, RbacTypeOK
    <2>4. \A q \in Requests : stage[q] = "insert" /\ stage'[q] = "idle" => q = r
      BY <2>1 DEF RbacInv, RbacTypeOK
    <2> QED
      BY <2>2, <2>3, <2>4 DEF Replaced
  <1>2. CASE links' = links
    BY <1>2 DEF Replaced
  <1>3. CASE links' # links
    BY <1>1, <1>3
       DEF RbacNext, rbacVars, Replace, Rollback, BeginIssue, RolesOf,
           PermissionsOf, SignAccessToken, ExpireToken
  <1> QED
    BY <1>2, <1>3

\* A replacement that commits leaves nothing that was there before it, at READ
\* COMMITTED and with any number of others on their way.
THEOREM ReplacementsReplace == RbacSpec => OldRowsGo
  <1>1. RbacInv /\ [RbacNext]_rbacVars => [Replaced]_rbacVars
    BY StepReplaces
  <1> QED
    BY <1>1, RbacInvariance, PTL DEF RbacSpec, OldRowsGo, Replaced

=============================================================================
