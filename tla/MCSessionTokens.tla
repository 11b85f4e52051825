-------------------------- MODULE MCSessionTokens --------------------------
(* Instances of SessionTokens for TLC.                                      *)
EXTENDS SessionTokens, TLC

\* Identifiers are only compared with each other, never ordered.
Symmetry == Permutations(Requests) \union Permutations(Tokens)
                \union Permutations(Sessions) \union Permutations(Users)

\* Where symmetry would be unsound, with liveness: tokens, whose names mean
\* nothing, are used in one order.
InOrder == Fresh' = Fresh \/ Fresh' = Fresh \ {CHOOSE t \in Fresh : TRUE}

=============================================================================
