--------------------------- MODULE MCKeysAndCodes ---------------------------
(***************************************************************************)
(* SigningKeys and AuthCodes on small sets.  The key directory and the     *)
(* OAuth tables are disjoint and no step touches both, so it is enough to  *)
(* follow each of them while the other rests: keys while no code has been  *)
(* asked for, codes while there is no key and the clock, which means       *)
(* nothing to them, has reached its bound (so that no fairness of the      *)
(* other component is left waiting).                                       *)
(***************************************************************************)
EXTENDS SigningKeys, AuthCodes

MCKeys == 1..2

KeysRest ==
    /\ \A s \in Servers : pc[s] = "idle"
    /\ \A k \in Keys : createdAt[k] = 0
    /\ now = MaxNow

KeysAndCodesInit == Init /\ CodesInit

Apart ==
    \/ CodesInit /\ Next /\ UNCHANGED codesVars
    \/ KeysRest /\ CodesNext /\ UNCHANGED vars

KeysAndCodesSpec ==
    /\ KeysAndCodesInit /\ [][Apart]_<<vars, codesVars>>
    /\ Fairness /\ CodesFairness

=============================================================================
