------------------------------ MODULE MCClients ------------------------------
(* Clients on small sets.                                                   *)
EXTENDS Clients, TLC

Symmetry == Permutations(Requests) \union Permutations(Secrets)

=============================================================================
