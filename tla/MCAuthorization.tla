--------------------------- MODULE MCAuthorization ---------------------------
(***************************************************************************)
(* Documents and Rbac on small sets.  They share no table and no request   *)
(* works on both, so it is enough to follow each of them while the other   *)
(* rests in its initial state.                                             *)
(***************************************************************************)
EXTENDS MCDocuments, Rbac

AuthorizationInit == Init /\ RbacInit

Apart ==
    \/ RbacInit /\ Next /\ UNCHANGED rbacVars
    \/ Init /\ RbacNext /\ UNCHANGED vars

AuthorizationSpec == AuthorizationInit /\ [][Apart]_<<vars, rbacVars>>

\* Requests are interchangeable.
OfRequests == Permutations(Requests)

=============================================================================
