---------------------------- MODULE MCSpaClient ----------------------------
(* SpaClient on small sets.  Tokens and sessions are taken in a fixed order,*)
(* so no symmetry is needed and liveness can be checked.                    *)
EXTENDS SpaClient
=============================================================================
