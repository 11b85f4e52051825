----------------------------- MODULE MCDocuments -----------------------------
(* Documents on small sets, with interchangeable requests, users, services.  *)
EXTENDS Documents, TLC

\* Requests without identity headers, and with those of an administrator.
MCInbound ==
    {NoClaims} \union {[user |-> u, client |-> c, scopes |-> Scopes, roles |-> {"admin"}] :
                          u \in Users, c \in Services}

Symmetry ==
    Permutations(Requests) \union Permutations(Users) \union Permutations(Services)

=============================================================================
