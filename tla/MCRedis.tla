------------------------------ MODULE MCRedis ------------------------------
(***************************************************************************)
(* AccessTokens and RateLimit on small sets.  They keep their state under  *)
(* different Redis keys and no command touches both, so it is enough to    *)
(* follow each of them while the other rests in its initial state.         *)
(***************************************************************************)
EXTENDS AccessTokens, RateLimit, TLC

RedisInit == Init /\ LimiterInit

Apart ==
    \/ LimiterInit /\ Next /\ UNCHANGED limiterVars
    \/ Init /\ LimiterNext /\ UNCHANGED vars

RedisSpec == RedisInit /\ [][Apart]_<<vars, limiterVars>>

\* Requests and tokens are interchangeable.
Symmetry == Permutations(Requests) \union Permutations(Jtis)

=============================================================================
