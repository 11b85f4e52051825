-------------------------- MODULE RefreshContract --------------------------
(***************************************************************************)
(* What refresh-token rotation promises to those who call it, without how: *)
(* no families, caches or statements.  A token is live, then spent; a      *)
(* session is open, then over; one refresh call is a handful of steps.     *)
(*                                                                         *)
(*   - a login opens a session and its first token; a login that needs a   *)
(*     second factor opens the session, and every call that proves the     *)
(*     factor while the session is open may add a first token;             *)
(*   - a live token is taken by one call only, and that call renews it by  *)
(*     one new token of the same session;                                  *)
(*   - a call that arrives after its session is over is never answered;    *)
(*   - a token that could be taken is never refused, and a call that is    *)
(*     refused leaves its session over (the two refusals that belong to    *)
(*     the OAuth token endpoint excepted).                                 *)
(*                                                                         *)
(* SessionTokens implements this specification (see its refinement         *)
(* mapping); SpaClient is the browser program that relies on it.           *)
(***************************************************************************)
CONSTANTS Requests, Sessions, Tokens, NoToken, NoSession,
          MayAbort   \* TRUE when calls may die half way

VARIABLES
    status,   \* of each session: "none", "open", "over"
    token,    \* of each token: "unborn", "live", "spent"
    owner,    \* the session of each token
    expired,  \* tokens past their lifetime
    held,     \* tokens somebody was answered with
    stepUp,   \* sessions opened for a second factor to complete
    signed,   \* sessions somebody got an access token for
    call      \* the call in each slot, see Idle

contractVars == <<status, token, owner, expired, held, stepUp, signed, call>>

\* sess: the session a login opened or a second factor completes.  tok: the
\* token a refresh presents.  new: the token created.  oauth: it came in at the
\* token endpoint.  late: it came in after its session was over.
Idle == [at |-> "idle", sess |-> NoSession, tok |-> NoToken, new |-> NoToken,
         oauth |-> FALSE, late |-> FALSE]

ContractInit ==
    /\ status = [s \in Sessions |-> "none"]
    /\ token = [t \in Tokens |-> "unborn"]
    /\ owner = [t \in Tokens |-> NoSession]
    /\ expired = {} /\ held = {} /\ stepUp = {} /\ signed = {}
    /\ call = [r \in Requests |-> Idle]

Usable(t) == t # NoToken /\ token[t] = "live" /\ t \notin expired
Over(s) == status[s] = "over"

At(r, l) == call[r].at = l
Done(r) == call' = [call EXCEPT ![r] = Idle]

\* The call in slot r goes on to stage l, with session s and new token n.
Move(r, l, s, n) ==
    call' = [call EXCEPT ![r] =
                [at |-> l, sess |-> s, tok |-> call[r].tok, new |-> n,
                 oauth |-> call[r].oauth, late |-> call[r].late]]

End(S) == status' = [s \in Sessions |->
              IF s \in S /\ status[s] = "open" THEN "over" ELSE status[s]]
Spend(T) == token' = [t \in Tokens |->
              IF t \in T /\ token[t] = "live" THEN "spent" ELSE token[t]]
Bear(r, n, s) ==
    /\ token[n] = "unborn"
    /\ token' = [token EXCEPT ![n] = "live"]
    /\ owner' = [owner EXCEPT ![n] = s]
    /\ Move(r, "renewed", call[r].sess, n)
    /\ UNCHANGED <<status, expired, held, stepUp, signed>>

-----------------------------------------------------------------------------

\* A login opens session s, then creates its first token.
Open(r, s) ==
    /\ At(r, "idle") /\ status[s] = "none"
    /\ status' = [status EXCEPT ![s] = "open"]
    /\ Move(r, "opening", s, call[r].new)
    /\ UNCHANGED <<token, owner, expired, held, stepUp, signed>>

\* A login opens session s and leaves it to a second factor.
Await(s) ==
    /\ status[s] = "none"
    /\ status' = [status EXCEPT ![s] = "open"]
    /\ stepUp' = stepUp \union {s}
    /\ UNCHANGED <<token, owner, expired, held, signed, call>>

\* A call proves the second factor session s was waiting for.
Prove(r, s) ==
    /\ At(r, "idle") /\ s \in stepUp
    /\ call' = [call EXCEPT ![r] =
                   [at |-> "opening", sess |-> s, tok |-> NoToken, new |-> NoToken,
                    oauth |-> FALSE, late |-> Over(s)]]
    /\ UNCHANGED <<status, token, owner, expired, held, stepUp, signed>>

Root(r, n) == At(r, "opening") /\ ~call[r].late /\ Bear(r, n, call[r].sess)

\* A refresh with token t comes in.
Ask(r, t, o) ==
    /\ At(r, "idle")
    /\ call' = [call EXCEPT ![r] =
                   [at |-> "asked", sess |-> NoSession, tok |-> t, new |-> NoToken,
                    oauth |-> o, late |-> t # NoToken /\ Over(owner[t])]]
    /\ UNCHANGED <<status, token, owner, expired, held, stepUp, signed>>

Take(r) ==
    /\ At(r, "asked") /\ Usable(call[r].tok)
    /\ Spend({call[r].tok})
    /\ Move(r, "taken", call[r].sess, call[r].new)
    /\ UNCHANGED <<status, owner, expired, held, stepUp, signed>>

Renew(r, n) == At(r, "taken") /\ Bear(r, n, owner[call[r].tok])

Answer(r) ==
    /\ At(r, "renewed") /\ ~call[r].late
    /\ held' = held \union {call[r].new}
    /\ signed' = signed \union {owner[call[r].new]}
    /\ Done(r)
    /\ UNCHANGED <<status, token, owner, expired, stepUp>>

\* The call is turned away; T are the tokens it takes along.
RefuseUnusable(r, T) ==
    /\ At(r, "asked") /\ ~Usable(call[r].tok)
    /\ LET known == {owner[t] : t \in {call[r].tok} \ {NoToken}}
       IN End(known) /\ Spend({t \in T : owner[t] \in known})
    /\ Done(r)
    /\ UNCHANGED <<owner, expired, held, stepUp, signed>>

RefuseRenewed(r, T) ==
    /\ At(r, "renewed") /\ call[r].tok # NoToken
    /\ call[r].oauth \/ Over(owner[call[r].tok])
    /\ Spend({t \in T : owner[t] = owner[call[r].tok]})
    /\ Done(r)
    /\ UNCHANGED <<status, owner, expired, held, stepUp, signed>>

RefuseOpening(r) ==
    /\ At(r, "opening") /\ Over(call[r].sess)
    /\ Done(r)
    /\ UNCHANGED <<status, token, owner, expired, held, stepUp, signed>>

-----------------------------------------------------------------------------
(* Everybody else: sessions end and tokens are withdrawn at any time, none *)
(* comes back.                                                             *)

Revoke(S, T) ==
    /\ End(S) /\ Spend(T)
    /\ UNCHANGED <<owner, expired, held, stepUp, signed, call>>

Expire(t) ==
    /\ t \notin expired
    /\ expired' = expired \union {t}
    /\ UNCHANGED <<status, token, owner, held, stepUp, signed, call>>

Crash(r) ==
    /\ MayAbort /\ ~At(r, "idle")
    /\ Done(r)
    /\ UNCHANGED <<status, token, owner, expired, held, stepUp, signed>>

\* What one step ends and withdraws.
Ended == {s \in Sessions : status'[s] # status[s]}
Withdrawn == {t \in Tokens : token'[t] # token[t]}

\* The calls that one step moves.
Moved == {r \in Requests : call'[r] # call[r]}

ContractNext ==
    \/ \E r \in Moved :
          \/ \E s \in Sessions : Open(r, s) \/ Prove(r, s)
          \/ \E n \in Tokens : Root(r, n) \/ Renew(r, n)
          \/ \E t \in held \union {NoToken}, o \in BOOLEAN : Ask(r, t, o)
          \/ Take(r) \/ Answer(r)
          \/ RefuseUnusable(r, Withdrawn) \/ RefuseRenewed(r, Withdrawn)
          \/ RefuseOpening(r)
          \/ Crash(r)
    \/ \E s \in Sessions : Await(s)
    \/ Revoke(Ended, Withdrawn)
    \/ \E t \in Tokens : Expire(t)

Contract == ContractInit /\ [][ContractNext]_contractVars

=============================================================================
