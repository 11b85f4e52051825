----------------------------- MODULE SpaClient -----------------------------
(***************************************************************************)
(* The single-page client: the tokens it keeps in localStorage, apiRequest *)
(* with its one refresh on 401, the account view's two parallel requests,  *)
(* sign-in and sign-out.  localStorage is shared by every tab, so the      *)
(* calls in flight may belong to different tabs.  The servers appear       *)
(* through RefreshContract, which SessionTokens implements; Requests are   *)
(* the calls of the browser.                                               *)
(*                                                                         *)
(* An access and a refresh token are always stored and removed together    *)
(* and come from the same answer, so the refresh token names the pair.     *)
(* Between two awaits a call runs alone: one action.                       *)
(***************************************************************************)
EXTENDS RefreshContract, Naturals, FiniteSets, FiniteSetsExt

CONSTANT Pair   \* the two calls of the account view

ASSUME PairOfCalls ==
    /\ Pair \subseteq Requests /\ MayAbort \in BOOLEAN
    /\ NoToken \notin Tokens /\ NoSession \notin Sessions

VARIABLES
    stored,   \* localStorage; NoToken when empty
    lapsed,   \* pairs whose access token is expired or denylisted
    caught,   \* the account view's catch handler has run
    \* each call's own variables
    pc,
    kind,
    bear,     \* the pair whose access token the request carries
    body,     \* the refresh token doLogout has read
    again,    \* allowRefresh is off
    got,      \* the pair in the answer received
    \* history
    user,     \* the session the user signed in to and has not signed out of
    mishaps   \* what has happened that the client does not guard against, see Mishaps

locals == <<pc, kind, bear, body, again, got>>
storage == <<stored, caught>>
history == <<user, mishaps>>
vars == <<contractVars, lapsed, storage, locals, history>>

\* view: the two requests of makeAccount.  act: enrolment and reload, whose
\* errors are only shown.  form: confirming or disabling TOTP, without refresh.
\* login: /auth/login and /mfa/verify.
Kinds == {"view", "act", "form", "login", "logout"}
Labels == {"idle", "sent", "denied", "refreshing", "tokens", "retry", "failed",
           "thrown", "opening", "welcome", "bye"}

\* overlap: two refreshes were under way together.  signin, signout: such a call
\* was under way together with another.  failure: a request failed, or the
\* session was ended from elsewhere.
Mishaps == {"overlap", "signin", "signout", "failure"}

InFlight == {c \in Requests : pc[c] # "idle"}
\* The call has read a refresh token and not yet stored its successor.
Refreshing == {c \in Requests : pc[c] \in {"refreshing", "tokens"}}
\* What a new call of kind k meets.
Crossed(k) ==
    {m \in {"signin", "signout"} : \E c \in InFlight :
        (IF m = "signin" THEN "login" ELSE "logout") \in {k, kind[c]}}

\* Bound: a call starts only when Tokens still holds what it may need.
Demand(c) == CASE kind[c] = "login" -> 2 [] kind[c] = "form" -> 0 [] OTHER -> 1
Unborn == {t \in Tokens : token[t] = "unborn"}
Room(n) == Cardinality(Unborn) >= n + MapThenSumSet(Demand, InFlight)

\* The names of tokens and sessions mean nothing: whichever comes next will do.
Any(S) == {CHOOSE x \in S : TRUE : y \in S}

Goto(c, l) == pc' = [pc EXCEPT ![c] = l]

\* The promise of the call settles.
Settle(c) ==
    /\ Goto(c, "idle")
    /\ kind' = [kind EXCEPT ![c] = "none"]
    /\ bear' = [bear EXCEPT ![c] = NoToken]
    /\ body' = [body EXCEPT ![c] = NoToken]
    /\ again' = [again EXCEPT ![c] = FALSE]
    /\ got' = [got EXCEPT ![c] = NoToken]

Init ==
    /\ ContractInit
    /\ stored = NoToken /\ caught = FALSE
    /\ lapsed = {}
    /\ pc = [c \in Requests |-> "idle"]
    /\ kind = [c \in Requests |-> "none"]
    /\ bear = [c \in Requests |-> NoToken]
    /\ body = [c \in Requests |-> NoToken]
    /\ again = [c \in Requests |-> FALSE]
    /\ got = [c \in Requests |-> NoToken]
    /\ user = NoSession /\ mishaps = {}

-----------------------------------------------------------------------------
(* What the user does.                                                     *)

\* fetch of apiRequest: the calls in C are sent with what getAccessToken reads.
Send(C, k, t) ==
    /\ pc' = [c \in Requests |-> IF c \in C THEN "sent" ELSE pc[c]]
    /\ kind' = [c \in Requests |-> IF c \in C THEN k ELSE kind[c]]
    /\ bear' = [c \in Requests |-> IF c \in C THEN t ELSE bear[c]]
    /\ again' = [c \in Requests |-> IF c \in C THEN k = "form" ELSE again[c]]
    /\ mishaps' = mishaps \union Crossed(k)
    /\ UNCHANGED <<contractVars, lapsed, got, user>>

\* The router lets only a browser with a token see the account view.
MakeAccount ==
    /\ Pair \intersect InFlight = {} /\ stored # NoToken /\ Room(2)
    /\ Send(Pair, "view", stored)
    /\ caught' = FALSE
    /\ UNCHANGED <<stored, body>>

Act(c, k) ==
    /\ c \notin InFlight /\ k \in {"act", "form"}
    /\ k = "form" \/ Room(1)
    /\ Send({c}, k, stored)
    /\ UNCHANGED <<storage, body>>

\* The login and MFA forms.  The router shows them to a browser without a token,
\* and leaves them on screen when another tab has signed in since.
SignIn(c) ==
    /\ c \notin InFlight /\ Room(2)
    /\ Send({c}, "login", NoToken)
    /\ UNCHANGED <<storage, body>>

\* doLogout with a token in storage; without one there is nothing to do.
DoLogout(c) ==
    /\ c \notin InFlight /\ stored # NoToken /\ Room(1)
    /\ Send({c}, "logout", stored)
    /\ body' = [body EXCEPT ![c] = stored]
    /\ UNCHANGED storage

-----------------------------------------------------------------------------
(* The servers.                                                            *)

Valid(t) == t # NoToken /\ t \notin lapsed

\* A request with a valid access token is answered.
Accept(c) ==
    /\ pc[c] = "sent" /\ Valid(bear[c]) /\ kind[c] # "logout"
    /\ Settle(c)
    /\ UNCHANGED <<contractVars, lapsed, storage, history>>

\* POST /auth/logout ends the session of the access token, the tokens in it and
\* the refresh token of the body; the access token itself stays valid.
AcceptLogout(c) ==
    /\ pc[c] = "sent" /\ Valid(bear[c]) /\ kind[c] = "logout"
    /\ LET s == owner[bear[c]] IN Revoke({s}, {t \in Tokens : owner[t] = s} \union {body[c]})
    /\ Goto(c, "bye")
    /\ UNCHANGED <<lapsed, storage, kind, bear, body, again, got, history>>

\* 401: no valid access token, or a wrong password or code.
Deny(c) ==
    /\ pc[c] = "sent" /\ (kind[c] = "login" \/ ~Valid(bear[c]))
    /\ Goto(c, "denied")
    /\ UNCHANGED <<contractVars, lapsed, storage, kind, bear, body, again, got, history>>

\* A right password: the login opens a session.
OpenSession(c) ==
    /\ pc[c] = "sent" /\ kind[c] = "login"
    /\ \E s \in Any({s \in Sessions : status[s] = "none"}) : Open(c, s)
    /\ Goto(c, "opening")
    /\ UNCHANGED <<lapsed, storage, kind, bear, body, again, got, history>>

\* The server goes on with a login or a refresh.
Serve(c) ==
    /\ Take(c) \/ \E n \in Any(Unborn) : Root(c, n) \/ Renew(c, n)
    /\ UNCHANGED <<lapsed, storage, locals, history>>

\* The answer to a login, or to a refresh, brings tokens.
Deliver(c) ==
    /\ Answer(c)
    /\ got' = [got EXCEPT ![c] = call[c].new]
    /\ Goto(c, IF pc[c] = "opening" THEN "welcome" ELSE "tokens")
    /\ UNCHANGED <<lapsed, storage, kind, bear, body, again, history>>

\* A refresh is turned away; reuse detection takes the whole family along.
Refuse(c) ==
    /\ RefuseUnusable(c, Tokens) \/ RefuseRenewed(c, Tokens)
    /\ Goto(c, "failed")
    /\ UNCHANGED <<lapsed, storage, kind, bear, body, again, got, history>>

-----------------------------------------------------------------------------
(* The rest of apiRequest.                                                 *)

\* A 401 with allowRefresh: tryRefresh reads the stored refresh token.
TryRefresh(c) ==
    /\ pc[c] = "denied" /\ ~again[c]
    /\ \/ /\ stored # NoToken
          /\ Ask(c, stored, FALSE)
          /\ mishaps' = mishaps \union (IF Refreshing = {} THEN {} ELSE {"overlap"})
          /\ Goto(c, "refreshing")
       \/ /\ stored = NoToken
          /\ Goto(c, "failed")
          /\ UNCHANGED <<contractVars, mishaps>>
    /\ UNCHANGED <<lapsed, storage, kind, bear, body, again, got, user>>

\* A 401 without: the error is thrown.
NoRefresh(c) ==
    /\ pc[c] = "denied" /\ again[c]
    /\ Goto(c, "thrown")
    /\ UNCHANGED <<contractVars, lapsed, storage, kind, bear, body, again, got, history>>

\* Mutant of SetTokens: the new refresh token is not stored.
SetTokensAccessOnly(c) == stored

\* What localStorage holds after setTokens.
SetTokens(c) == got[c]

StoreRefreshed(c) ==
    /\ pc[c] = "tokens"
    /\ stored' = SetTokens(c)
    /\ Goto(c, "retry")
    /\ UNCHANGED <<contractVars, lapsed, caught, kind, bear, body, again, got, history>>

\* Mutant of Retry: the retry may refresh again.
RetryForever(c) ==
    /\ pc[c] = "retry"
    /\ bear' = [bear EXCEPT ![c] = IF kind[c] = "login" THEN NoToken ELSE stored]
    /\ Goto(c, "sent")
    /\ UNCHANGED <<contractVars, lapsed, storage, kind, body, again, got, history>>

\* The request is sent once more with what is stored by then.
Retry(c) ==
    /\ pc[c] = "retry"
    /\ again' = [again EXCEPT ![c] = TRUE]
    /\ bear' = [bear EXCEPT ![c] = IF kind[c] = "login" THEN NoToken ELSE stored]
    /\ Goto(c, "sent")
    /\ UNCHANGED <<contractVars, lapsed, storage, kind, body, got, history>>

\* No refresh: the tokens are removed, the error's body awaited, the error thrown.
GiveUp(c) ==
    /\ pc[c] = "failed"
    /\ stored' = NoToken
    /\ Goto(c, "thrown")
    /\ UNCHANGED <<contractVars, lapsed, caught, kind, bear, body, again, got, history>>

-----------------------------------------------------------------------------
(* The callers of apiRequest.                                              *)

\* The first of the account view's requests to fail removes the tokens.
CatchView(c) ==
    /\ pc[c] = "thrown" /\ kind[c] = "view"
    /\ stored' = IF caught THEN stored ELSE NoToken
    /\ caught' = TRUE
    /\ Settle(c)
    /\ UNCHANGED <<contractVars, lapsed, history>>

\* The forms show the error.
CatchForm(c) ==
    /\ pc[c] = "thrown" /\ kind[c] \in {"act", "form", "login"}
    /\ Settle(c)
    /\ UNCHANGED <<contractVars, lapsed, storage, history>>

\* Mutant of Cleared: only a sign-out the server confirmed empties the storage.
ClearedIfConfirmed(c) == IF pc[c] = "bye" THEN NoToken ELSE stored

\* What doLogout leaves in storage, "regardless of server outcome".
Cleared(c) == NoToken

FinishLogout(c) ==
    /\ pc[c] \in {"bye", "thrown"} /\ kind[c] = "logout"
    /\ stored' = Cleared(c)
    /\ user' = NoSession
    /\ Settle(c)
    /\ UNCHANGED <<contractVars, lapsed, caught, mishaps>>

\* A login succeeded.  With MFA the first answer has no tokens: LoginHalf.
StoreLogin(c) ==
    /\ pc[c] = "welcome"
    /\ stored' = got[c]
    /\ user' = owner[got[c]]
    /\ Settle(c)
    /\ UNCHANGED <<contractVars, lapsed, caught, mishaps>>

LoginHalf(c) ==
    /\ pc[c] = "sent" /\ kind[c] = "login"
    /\ Settle(c)
    /\ UNCHANGED <<contractVars, lapsed, storage, history>>

-----------------------------------------------------------------------------
(* The environment.                                                        *)

\* An access token expires.  Its lifetime is long against one call: not while a
\* retry is about to use it or on its way with it.
Lapse(t) ==
    /\ t \in ({stored} \union {bear[c] : c \in InFlight}) \ (lapsed \union {NoToken})
    /\ \A c \in Requests : /\ got[c] # t
                           /\ again[c] => bear[c] # t
                           /\ pc[c] = "retry" => stored # t
    /\ lapsed' = lapsed \union {t}
    /\ UNCHANGED <<contractVars, storage, locals, history>>

\* Bound: one failure in a behaviour.
MayFail == MayAbort /\ "failure" \notin mishaps

\* The network or a server fails the request (fetch rejects, 5xx, 429), before
\* the server has seen it or on the way back.
Fail(c) ==
    /\ MayFail
    /\ \/ pc[c] \in {"sent", "bye", "welcome"} /\ Goto(c, "thrown")
       \/ pc[c] = "tokens" /\ Goto(c, "failed")
    /\ mishaps' = mishaps \union {"failure"}
    /\ UNCHANGED <<contractVars, lapsed, storage, kind, bear, body, again, got, user>>

\* The auth-server dies half way through a login or a refresh.
FailInside(c) ==
    /\ MayFail /\ Crash(c)
    /\ Goto(c, IF pc[c] = "opening" THEN "thrown" ELSE "failed")
    /\ mishaps' = mishaps \union {"failure"}
    /\ UNCHANGED <<lapsed, storage, kind, bear, body, again, got, user>>

\* The session is ended from elsewhere.
Elsewhere(s) ==
    /\ MayFail /\ status[s] = "open"
    /\ Revoke({s}, {t \in Tokens : owner[t] = s})
    /\ mishaps' = mishaps \union {"failure"}
    /\ UNCHANGED <<lapsed, storage, locals, user>>

Start ==
    \/ MakeAccount
    \/ \E c \in Requests : SignIn(c) \/ DoLogout(c) \/ \E k \in Kinds : Act(c, k)

Step(c) ==
    \/ Accept(c) \/ AcceptLogout(c) \/ Deny(c) \/ OpenSession(c)
    \/ Serve(c) \/ Deliver(c) \/ Refuse(c)
    \/ TryRefresh(c) \/ NoRefresh(c) \/ StoreRefreshed(c) \/ Retry(c) \/ GiveUp(c)
    \/ CatchView(c) \/ CatchForm(c) \/ FinishLogout(c) \/ StoreLogin(c) \/ LoginHalf(c)

Next ==
    \/ Start
    \/ \E c \in Requests : Step(c) \/ Fail(c) \/ FailInside(c)
    \/ \E t \in Tokens : Lapse(t)
    \/ \E s \in Sessions : Elsewhere(s)

Spec == Init /\ [][Next]_vars

\* The servers answer, the browser resumes every call.  Nobody has to click.
FairSpec == Spec /\ \A c \in Requests : WF_vars(Step(c))

-----------------------------------------------------------------------------
(* Properties.                                                             *)

\* Every variable of the client has its type.
TypeOK ==
    /\ stored \in Tokens \union {NoToken} /\ lapsed \subseteq Tokens
    /\ pc \in [Requests -> Labels] /\ kind \in [Requests -> Kinds \union {"none"}]
    /\ bear \in [Requests -> Tokens \union {NoToken}]
    /\ body \in [Requests -> Tokens \union {NoToken}]
    /\ got \in [Requests -> Tokens \union {NoToken}]
    /\ again \in [Requests -> BOOLEAN] /\ caught \in BOOLEAN
    /\ user \in Sessions \union {NoSession} /\ mishaps \subseteq Mishaps

Quiet == InFlight = {}

\* "On 401 the client attempts a refresh-token rotation once before giving up"
\* (api.ts): a user who signed in and has not signed out stays signed in through
\* any number of access token expiries, and the account view's parallel requests
\* do not disturb it, as long as no two refreshes overlap, no sign-in or sign-out
\* crosses another call, no request fails and nobody else ends the session.
StaysSignedIn ==
    Quiet /\ user # NoSession /\ mishaps = {} =>
        Usable(stored) /\ owner[stored] = user /\ ~Over(user)

\* doLogout: "clear locally regardless of server outcome".  After a sign-out that
\* crossed no other call nothing is left in storage, even if its request failed.
\* If no request failed, then whatever crossed it but a sign-in, a token that is
\* left in storage is of a session that is over.
SignedOutStaysOut ==
    Quiet /\ user = NoSession =>
        /\ mishaps \subseteq {"overlap", "failure"} => stored = NoToken
        /\ mishaps \subseteq {"overlap", "signout"} => stored = NoToken \/ Over(owner[stored])

\* Every call settles: it refreshes at most once, and a refused refresh ends it.
CallsSettle == \A c \in Requests : pc[c] # "idle" ~> pc[c] = "idle"

=============================================================================
