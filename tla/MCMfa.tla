------------------------------- MODULE MCMfa -------------------------------
(* Instances of Mfa for TLC.                                                *)
EXTENDS Mfa, TLC

\* Identifiers are only compared with each other.
Symmetry == Permutations(Requests) \union Permutations(Secrets)
                \union Permutations(Challenges)
=============================================================================
