----------------------------- MODULE MCAccounts -----------------------------
(* Instances of Accounts for TLC.                                            *)
EXTENDS Accounts, TLC

\* Request slots and reset tokens are only compared with each other.
Symmetry == Permutations(Requests) \union Permutations(Resets)
=============================================================================
