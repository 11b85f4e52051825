-------------------------- MODULE SpaClientProofs --------------------------
(***************************************************************************)
(* What a user of the single-page client may rely on, for any number of    *)
(* calls, tabs, sessions and tokens.                                       *)
(*                                                                         *)
(* StaysSignedIn and SignedOutStaysOut speak of a browser at rest.  What   *)
(* keeps them is what holds while calls are in flight, and each layer      *)
(* needs less to have happened than the one before it:                     *)
(*                                                                         *)
(*   Rows     whatever the browser keeps was answered to it by a server;   *)
(*   Frames   what each call has done by the statement it has reached;     *)
(*   Alone    while no sign-in or sign-out crossed a call: such a call is  *)
(*            alone, and signed out means empty storage;                   *)
(*   Ours     while no sign-in crossed a call and none failed: every token *)
(*            in use is of the user's session, or of one that is over, and *)
(*            a call only fails when that session is over;                 *)
(*   Calm     while nothing went wrong: one refresh at a time carries the  *)
(*            one usable token from storage through the server and back.   *)
(***************************************************************************)
EXTENDS SpaClient, TLAPS

Stages == {"idle", "opening", "asked", "taken", "renewed"}
Calls == [at : Stages, sess : Sessions \union {NoSession},
          tok : Tokens \union {NoToken}, new : Tokens \union {NoToken},
          oauth : BOOLEAN, late : BOOLEAN]

\* The servers' side has its types, and no refresh token outlives the behaviour.
ServerTypes ==
    /\ status \in [Sessions -> {"none", "open", "over"}]
    /\ token \in [Tokens -> {"unborn", "live", "spent"}]
    /\ owner \in [Tokens -> Sessions \union {NoSession}]
    /\ expired = {} /\ held \subseteq Tokens
    /\ call \in [Requests -> Calls]

\* What somebody was answered with, or nothing.
Known == held \union {NoToken}

\* A token that exists has a session, and the browser names only tokens it was given.
Rows ==
    /\ \A t \in Tokens : token[t] # "unborn" =>
          owner[t] \in Sessions /\ status[owner[t]] # "none"
    /\ \A t \in held : token[t] # "unborn"
    /\ lapsed \subseteq held /\ stored \in Known
    /\ user # NoSession => status[user] # "none"
    /\ \A c \in Requests : /\ bear[c] \in Known /\ body[c] \in Known
                           /\ got[c] \in Known \ lapsed /\ call[c].tok \in Known

\* Tokens on their way out of the server: created, and nobody has them yet.
Fresh ==
    /\ \A c \in Requests : call[c].at = "renewed" =>
          call[c].new \in Tokens \ held /\ token[call[c].new] # "unborn"
    /\ \A c, d \in Requests :
          /\ call[c].at = "renewed" /\ call[d].at = "renewed"
          /\ call[c].new = call[d].new
          => c = d

\* Where the browser's side of a call and the server's side may be together.
Frame(c) ==
    /\ pc[c] \notin {"opening", "refreshing"} => call[c] = Idle
    /\ pc[c] = "opening" =>
          /\ kind[c] = "login" /\ call[c].tok = NoToken
          /\ call[c].at \in {"opening", "renewed"}
    /\ call[c].at = "opening" =>
          call[c].sess \in Sessions /\ status[call[c].sess] # "none"
    /\ pc[c] = "refreshing" =>
          /\ call[c].tok \in Tokens /\ call[c].oauth = FALSE
          /\ call[c].at \in {"asked", "taken", "renewed"}
    /\ pc[c] \in {"tokens", "welcome"} => got[c] \in Tokens
    /\ pc[c] = "welcome" => kind[c] = "login"
    /\ pc[c] = "bye" => kind[c] = "logout"
Frames == \A c \in Requests : Frame(c)

\* The one retry carries an access token that has just been issued, so a 401 to it
\* means that there was none to send.
Retries ==
    \A c \in Requests :
        /\ pc[c] = "retry" => stored \notin lapsed
        /\ pc[c] \in {"sent", "denied"} /\ again[c] /\ kind[c] # "form" => bear[c] \notin lapsed
        /\ pc[c] = "denied" => kind[c] = "login" \/ ~Valid(bear[c])

-----------------------------------------------------------------------------

\* A call of kind k is under way with no other.
Solitary(k) ==
    \A c, d \in InFlight : c # d => kind[c] # k

Alone ==
    mishaps \intersect {"signin", "signout"} = {} =>
        /\ Solitary("login") /\ Solitary("logout")
        /\ user = NoSession => stored = NoToken /\ Refreshing = {}

\* The user has signed out, or the session is over.
Gone == user = NoSession \/ Over(user)

\* A token that is the user's, or no use to anybody.
Own(t) == t = NoToken \/ (IF user = NoSession THEN Over(owner[t]) ELSE owner[t] = user)

\* Every token the client may still store or send.
OwnTokens ==
    /\ Own(stored)
    /\ \A c \in Requests :
          /\ pc[c] = "sent" => Own(bear[c])
          /\ pc[c] = "refreshing" => Own(call[c].tok)
          /\ pc[c] = "refreshing" /\ call[c].at = "renewed" => Own(call[c].new)
          /\ pc[c] = "tokens" => Own(got[c])

\* What empties the storage, or is about to.
OnlyGoneFails ==
    /\ stored = NoToken => Gone
    /\ \A c \in Requests :
          /\ pc[c] \in {"failed", "bye"} => Gone
          /\ pc[c] = "thrown" /\ kind[c] \in {"view", "logout"} => Gone
          /\ pc[c] \in {"sent", "denied"} /\ kind[c] \in {"view", "logout"}
             /\ bear[c] = NoToken => Gone

Ours ==
    mishaps \intersect {"signin", "failure"} = {} =>
        Solitary("login") /\ OwnTokens /\ OnlyGoneFails

-----------------------------------------------------------------------------

\* The server has confirmed a sign-out that the browser has not finished.
Leaving == \E c \in Requests : pc[c] = "bye"

\* A login that is under way will bring a token of an open session.
LoginBrings ==
    \A c \in Requests :
        /\ call[c].at = "opening" => ~Over(call[c].sess)
        /\ pc[c] = "opening" /\ call[c].at = "renewed" =>
              Usable(call[c].new) /\ ~Over(owner[call[c].new])
        /\ pc[c] = "welcome" => Usable(got[c]) /\ ~Over(owner[got[c]])

\* The usable token is in storage, or wherever the one refresh has got it to.
OneUsable ==
    user # NoSession /\ ~Leaving =>
        /\ ~Over(user)
        /\ Refreshing = {} => Usable(stored)
        /\ \A c \in Requests :
              /\ pc[c] = "refreshing" /\ call[c].at = "asked" => Usable(call[c].tok)
              /\ pc[c] = "refreshing" /\ call[c].at = "renewed" => Usable(call[c].new)
              /\ pc[c] = "tokens" => Usable(got[c])

Calm ==
    mishaps = {} =>
        /\ \A c, d \in Refreshing : c = d
        /\ LoginBrings /\ OneUsable

IInv == TypeOK /\ ServerTypes /\ Rows /\ Fresh /\ Frames /\ Retries
        /\ Alone /\ Ours /\ Calm
-----------------------------------------------------------------------------
(* Proofs.                                                                 *)

\* Whichever name the model takes, it is one of those it may take.
LEMMA AnyIn ==
    ASSUME NEW X
    PROVE  Any(X) \subseteq X
  BY DEF Any

\* The browser takes no part in the step.
ServerOnly == UNCHANGED <<lapsed, storage, locals, history>>

\* The server's next step with a call.
LEMMA ServeCases ==
    ASSUME NEW c \in Requests, Serve(c)
    PROVE  ServerOnly /\ (Take(c) \/ \E n \in Unborn : Root(c, n) \/ Renew(c, n))
  BY AnyIn DEF Serve, ServerOnly

\* A call that starts beside a sign-in or a sign-out, or is one that starts beside
\* another call, is recorded.
LEMMA SendMeets ==
    ASSUME NEW C, NEW k, NEW t, Send(C, k, t), NEW d \in InFlight
    PROVE  /\ "login" \in {k, kind[d]} => "signin" \in mishaps'
           /\ "logout" \in {k, kind[d]} => "signout" \in mishaps'
  <1>1. \A m \in {"signin", "signout"} :
            (IF m = "signin" THEN "login" ELSE "logout") \in {k, kind[d]} => m \in Crossed(k)
    BY DEF Crossed
  <1>2. Crossed(k) \subseteq mishaps'
    BY DEF Send
  <1> QED
    BY <1>1, <1>2

\* The server's side of the call, once it is asked.
AskedBy(c, late) ==
    call' = [call EXCEPT ![c] =
                [at |-> "asked", sess |-> NoSession, tok |-> stored, new |-> NoToken,
                 oauth |-> FALSE, late |-> late]]

\* tryRefresh brings the stored token to the server.
LEMMA AskCall ==
    ASSUME NEW c \in Requests, TryRefresh(c), stored # NoToken
    PROVE  \E late \in BOOLEAN : AskedBy(c, late)
  <1> DEFINE over == stored # NoToken /\ Over(owner[stored])
  <1>1. over \in BOOLEAN
    BY Zenon
  <1>2. AskedBy(c, over)
    BY DEF TryRefresh, Ask, AskedBy
  <1> QED
    BY <1>1, <1>2

\* What tryRefresh does when there is a token, and when there is none.
Asks(c) ==
    /\ pc[c] = "denied" /\ ~again[c] /\ pc' = [pc EXCEPT ![c] = "refreshing"]
    /\ mishaps' \in {mishaps, mishaps \union {"overlap"}}
    /\ \A d \in Requests \ {c} : call'[d] = call[d]
    /\ call'[c].at = "asked" /\ call'[c].tok = stored
    /\ call'[c].new = NoToken /\ call'[c].oauth = FALSE
    /\ UNCHANGED <<status, token, owner, expired, held>>
    /\ UNCHANGED <<lapsed, storage, kind, bear, body, again, got, user>>

Cannot(c) ==
    /\ pc[c] = "denied" /\ ~again[c] /\ pc' = [pc EXCEPT ![c] = "failed"]
    /\ UNCHANGED <<contractVars, lapsed, storage, kind, bear, body, again, got, history>>

\* tryRefresh with a token to present.
LEMMA AskLocal ==
    ASSUME IInv, NEW c \in Requests, TryRefresh(c), stored # NoToken
    PROVE  Asks(c)
  <1>1. PICK late \in BOOLEAN : AskedBy(c, late)
    BY AskCall
  <1>2. /\ pc[c] = "denied" /\ ~again[c] /\ pc' = [pc EXCEPT ![c] = "refreshing"]
        /\ mishaps' \in {mishaps, mishaps \union {"overlap"}}
    BY DEF TryRefresh, Goto
  <1>3. /\ UNCHANGED <<status, token, owner, expired, held>>
        /\ UNCHANGED <<lapsed, storage, kind, bear, body, again, got, user>>
    BY DEF TryRefresh, Ask
  <1>4. /\ call'[c].at = "asked" /\ call'[c].tok = stored
        /\ call'[c].new = NoToken /\ call'[c].oauth = FALSE
    BY <1>1 DEF AskedBy, IInv, ServerTypes
  <1>5. \A d \in Requests \ {c} : call'[d] = call[d]
    BY <1>1 DEF AskedBy, IInv, ServerTypes
  <1> QED
    BY <1>2, <1>3, <1>4, <1>5 DEF Asks

\* tryRefresh without one.
LEMMA NoAskLocal ==
    ASSUME NEW c \in Requests, TryRefresh(c), stored = NoToken
    PROVE  Cannot(c)
  BY DEF TryRefresh, Goto, history, Cannot

\* A refresh that starts beside another one is recorded.
LEMMA AskOverlap ==
    ASSUME NEW c \in Requests, TryRefresh(c), stored # NoToken, mishaps' = {}
    PROVE  mishaps = {} /\ Refreshing = {}
  <1>1. mishaps' = mishaps \union (IF Refreshing = {} THEN {} ELSE {"overlap"})
    BY DEF TryRefresh
  <1> QED
    BY <1>1

\* The steps that concern the servers.
LEMMA ServerSteps ==
    ASSUME [Next]_vars
    PROVE  \/ UNCHANGED contractVars
           \/ \E s \in Sessions : Elsewhere(s)
           \/ \E c \in Requests :
                 \/ AcceptLogout(c) \/ OpenSession(c) \/ Deliver(c) \/ FailInside(c)
                 \/ Take(c) \/ RefuseUnusable(c, Tokens) \/ RefuseRenewed(c, Tokens)
                 \/ \E n \in Unborn : Root(c, n) \/ Renew(c, n)
                 \/ TryRefresh(c) /\ stored # NoToken
  <1>1. ASSUME NEW c \in Requests, Accept(c) \/ Deny(c) \/ NoRefresh(c)
                                    \/ StoreRefreshed(c) \/ Retry(c) \/ GiveUp(c)
        PROVE  UNCHANGED contractVars
    BY <1>1 DEF Accept, Deny, NoRefresh, StoreRefreshed, Retry, GiveUp
  <1>2. ASSUME NEW c \in Requests, CatchView(c) \/ CatchForm(c) \/ FinishLogout(c)
                                    \/ StoreLogin(c) \/ LoginHalf(c) \/ Fail(c)
        PROVE  UNCHANGED contractVars
    BY <1>2 DEF CatchView, CatchForm, FinishLogout, StoreLogin, LoginHalf, Fail
  <1>3. ASSUME NEW c \in Requests, TryRefresh(c), stored = NoToken
        PROVE  UNCHANGED contractVars
    BY <1>3 DEF TryRefresh
  <1>4. CASE Start \/ (\E t \in Tokens : Lapse(t)) \/ UNCHANGED vars
    BY <1>4 DEF Start, MakeAccount, SignIn, DoLogout, Act, Send, Lapse, vars
  <1> QED
    BY <1>1, <1>2, <1>3, <1>4, ServeCases DEF Next, Step, Refuse

\* Every action keeps the types.
LEMMA TypesNext ==
    ASSUME IInv, [Next]_vars
    PROVE  TypeOK'
  <1> USE PairOfCalls DEF IInv, TypeOK, ServerTypes, Labels, Kinds, Mishaps, Calls,
          Unborn, contractVars
  <1>1. ASSUME MakeAccount
        PROVE  TypeOK'
    BY <1>1 DEF MakeAccount, Send, Crossed, InFlight, storage
  <1>2. ASSUME NEW c \in Requests, NEW k \in Kinds, Act(c, k)
        PROVE  TypeOK'
    BY <1>2 DEF Act, Send, Crossed, InFlight, storage
  <1>3. ASSUME NEW c \in Requests, SignIn(c)
        PROVE  TypeOK'
    BY <1>3 DEF SignIn, Send, Crossed, InFlight, storage
  <1>4. ASSUME NEW c \in Requests, DoLogout(c)
        PROVE  TypeOK'
    BY <1>4 DEF DoLogout, Send, Crossed, InFlight, storage
  <1>5. ASSUME NEW c \in Requests, Accept(c)
        PROVE  TypeOK'
    BY <1>5 DEF Accept, Settle, Goto, storage, history
  <1>6. ASSUME NEW c \in Requests, AcceptLogout(c)
        PROVE  TypeOK'
    BY <1>6 DEF AcceptLogout, Goto, Revoke, End, Spend, storage, history
  <1>7. ASSUME NEW c \in Requests, Deny(c)
        PROVE  TypeOK'
    BY <1>7 DEF Deny, Goto, storage, history
  <1>8. ASSUME NEW c \in Requests, OpenSession(c)
        PROVE  TypeOK'
    BY <1>8, AnyIn DEF OpenSession, Open, Idle, Move, At, Goto, storage, history
  <1>9. ASSUME NEW c \in Requests, Take(c), ServerOnly
        PROVE  TypeOK'
    BY <1>9 DEF ServerOnly, Take, Spend, Move, At, storage, locals, history
  <1>10. ASSUME NEW c \in Requests, NEW n \in Unborn, Root(c, n), ServerOnly
         PROVE  TypeOK'
    BY <1>10 DEF ServerOnly, Root, Bear, Move, At, Unborn, storage, locals, history
  <1>11. ASSUME NEW c \in Requests, NEW n \in Unborn, Renew(c, n), ServerOnly
         PROVE  TypeOK'
    BY <1>11 DEF ServerOnly, Renew, Bear, Move, At, Unborn, storage, locals, history
  <1>12. ASSUME NEW c \in Requests, Deliver(c)
         PROVE  TypeOK'
    BY <1>12 DEF Deliver, Answer, Done, Idle, At, Goto, storage, history
  <1>13. ASSUME NEW c \in Requests, Refuse(c) /\ RefuseUnusable(c, Tokens)
         PROVE  TypeOK'
    BY <1>13 DEF Refuse, RefuseUnusable, End, Spend, Done, Idle, At, Goto, storage,
       history
  <1>14. ASSUME NEW c \in Requests, Refuse(c) /\ RefuseRenewed(c, Tokens)
         PROVE  TypeOK'
    BY <1>14 DEF Refuse, RefuseRenewed, Spend, Done, Idle, At, Goto, storage,
       history
  <1>15. ASSUME NEW c \in Requests, TryRefresh(c), stored # NoToken
         PROVE  TypeOK'
    <2>1. Asks(c)
      BY <1>15, AskLocal
    <2> QED
      BY <1>15, <2>1 DEF Asks, storage
  <1>16. ASSUME NEW c \in Requests, TryRefresh(c), stored = NoToken
         PROVE  TypeOK'
    <2>1. Cannot(c)
      BY <1>16, NoAskLocal
    <2> QED
      BY <1>16, <2>1 DEF Cannot, storage, history
  <1>17. ASSUME NEW c \in Requests, NoRefresh(c)
         PROVE  TypeOK'
    BY <1>17 DEF NoRefresh, Goto, storage, history
  <1>18. ASSUME NEW c \in Requests, StoreRefreshed(c)
         PROVE  TypeOK'
    BY <1>18 DEF StoreRefreshed, SetTokens, Goto, history
  <1>19. ASSUME NEW c \in Requests, Retry(c)
         PROVE  TypeOK'
    BY <1>19 DEF Retry, Goto, storage, history
  <1>20. ASSUME NEW c \in Requests, GiveUp(c)
         PROVE  TypeOK'
    BY <1>20 DEF GiveUp, Goto, history
  <1>21. ASSUME NEW c \in Requests, CatchView(c)
         PROVE  TypeOK'
    BY <1>21 DEF CatchView, Settle, Goto, history
  <1>22. ASSUME NEW c \in Requests, CatchForm(c)
         PROVE  TypeOK'
    BY <1>22 DEF CatchForm, Settle, Goto, storage, history
  <1>23. ASSUME NEW c \in Requests, FinishLogout(c)
         PROVE  TypeOK'
    BY <1>23 DEF FinishLogout, Cleared, Settle, Goto
  <1>24. ASSUME NEW c \in Requests, StoreLogin(c)
         PROVE  TypeOK'
    BY <1>24 DEF StoreLogin, Settle, Goto, Frames, Frame
  <1>25. ASSUME NEW c \in Requests, LoginHalf(c)
         PROVE  TypeOK'
    BY <1>25 DEF LoginHalf, Settle, Goto, storage, history
  <1>26. ASSUME NEW c \in Requests, Fail(c)
         PROVE  TypeOK'
    BY <1>26 DEF Fail, MayFail, Goto, storage
  <1>27. ASSUME NEW c \in Requests, FailInside(c)
         PROVE  TypeOK'
    BY <1>27 DEF FailInside, MayFail, Crash, Done, Idle, At, Goto, storage
  <1>28. ASSUME NEW t \in Tokens, Lapse(t)
         PROVE  TypeOK'
    BY <1>28 DEF Lapse, InFlight, storage, locals, history
  <1>29. ASSUME NEW s \in Sessions, Elsewhere(s)
         PROVE  TypeOK'
    BY <1>29 DEF Elsewhere, MayFail, Revoke, End, Spend, storage, locals
  <1>30. CASE UNCHANGED vars
    BY <1>30 DEF vars, storage, locals, history, contractVars
  <1> HIDE DEF TypeOK, IInv
  <1> QED
    BY <1>1, <1>2, <1>3, <1>4, <1>5, <1>6, <1>7, <1>8, <1>9, <1>10, <1>11, <1>12,
       <1>13, <1>14, <1>15, <1>16, <1>17, <1>18, <1>19, <1>20, <1>21, <1>22, <1>23,
       <1>24, <1>25, <1>26, <1>27, <1>28, <1>29, <1>30, ServeCases DEF Next, Start,
       Step, Refuse

\* Every action keeps the types of the servers' side.
LEMMA ServerTypesNext ==
    ASSUME IInv, [Next]_vars
    PROVE  ServerTypes'
  <1> USE PairOfCalls DEF IInv, TypeOK, ServerTypes, Labels, Kinds, Calls, Stages,
          Unborn, contractVars
  <1>1. ASSUME NEW c \in Requests, AcceptLogout(c)
        PROVE  ServerTypes'
    BY <1>1 DEF AcceptLogout, Revoke, End, Spend
  <1>2. ASSUME NEW c \in Requests, OpenSession(c)
        PROVE  ServerTypes'
    BY <1>2, AnyIn DEF OpenSession, Open, Idle, Move, At
  <1>3. ASSUME NEW c \in Requests, Take(c)
        PROVE  ServerTypes'
    BY <1>3 DEF Take, Spend, Move, At
  <1>4. ASSUME NEW c \in Requests, NEW n \in Unborn, Root(c, n)
        PROVE  ServerTypes'
    BY <1>4 DEF Root, Bear, Move, At, Unborn
  <1>5. ASSUME NEW c \in Requests, NEW n \in Unborn, Renew(c, n)
        PROVE  ServerTypes'
    BY <1>5 DEF Renew, Bear, Move, At, Unborn, Frames, Frame, Idle
  <1>6. ASSUME NEW c \in Requests, Deliver(c)
        PROVE  ServerTypes'
    BY <1>6 DEF Deliver, Answer, Done, Idle, At, Fresh
  <1>7. ASSUME NEW c \in Requests, RefuseUnusable(c, Tokens)
        PROVE  ServerTypes'
    BY <1>7 DEF RefuseUnusable, End, Spend, Done, Idle, At
  <1>8. ASSUME NEW c \in Requests, RefuseRenewed(c, Tokens)
        PROVE  ServerTypes'
    BY <1>8 DEF RefuseRenewed, Spend, Done, Idle, At
  <1>9. ASSUME NEW c \in Requests, TryRefresh(c), stored # NoToken
        PROVE  ServerTypes'
    <2>1. PICK late \in BOOLEAN : AskedBy(c, late)
      BY <1>9, AskCall
    <2> QED
      BY <1>9, <2>1 DEF AskedBy, TryRefresh, Ask
  <1>10. ASSUME NEW c \in Requests, FailInside(c)
         PROVE  ServerTypes'
    BY <1>10 DEF FailInside, Crash, Done, Idle, At
  <1>11. ASSUME NEW s \in Sessions, Elsewhere(s)
         PROVE  ServerTypes'
    BY <1>11 DEF Elsewhere, Revoke, End, Spend
  <1>12. CASE UNCHANGED contractVars
    BY <1>12 DEF contractVars
  <1> HIDE DEF ServerTypes, IInv
  <1> QED
    BY <1>1, <1>2, <1>3, <1>4, <1>5, <1>6, <1>7, <1>8, <1>9, <1>10, <1>11, <1>12,
       ServerSteps

\* Every action keeps the rows and what the browser knows of them.
LEMMA RowsNext ==
    ASSUME IInv, [Next]_vars
    PROVE  Rows'
  <1> USE PairOfCalls DEF IInv, TypeOK, ServerTypes, Calls, Rows, Known, Frames,
          Frame, Fresh, Unborn, contractVars
  <1>1. ASSUME MakeAccount
        PROVE  Rows'
    BY <1>1 DEF MakeAccount, Send, Crossed, InFlight, storage
  <1>2. ASSUME NEW c \in Requests, NEW k \in Kinds, Act(c, k)
        PROVE  Rows'
    BY <1>2 DEF Act, Send, Crossed, InFlight, storage
  <1>3. ASSUME NEW c \in Requests, SignIn(c)
        PROVE  Rows'
    BY <1>3 DEF SignIn, Send, Crossed, InFlight, storage
  <1>4. ASSUME NEW c \in Requests, DoLogout(c)
        PROVE  Rows'
    BY <1>4 DEF DoLogout, Send, Crossed, InFlight, storage
  <1>5. ASSUME NEW c \in Requests, Accept(c)
        PROVE  Rows'
    BY <1>5 DEF Accept, Settle, Goto, storage, history
  <1>6. ASSUME NEW c \in Requests, AcceptLogout(c)
        PROVE  Rows'
    BY <1>6 DEF AcceptLogout, Goto, Revoke, End, Spend, storage, history
  <1>7. ASSUME NEW c \in Requests, Deny(c)
        PROVE  Rows'
    BY <1>7 DEF Deny, Goto, storage, history
  <1>8. ASSUME NEW c \in Requests, OpenSession(c)
        PROVE  Rows'
    BY <1>8, AnyIn DEF OpenSession, Open, Idle, Move, At, Goto, storage, history
  <1>9. ASSUME NEW c \in Requests, Take(c), ServerOnly
        PROVE  Rows'
    BY <1>9 DEF ServerOnly, Take, Spend, Move, At, storage, locals, history
  <1>10. ASSUME NEW c \in Requests, NEW n \in Unborn, Root(c, n), ServerOnly
         PROVE  Rows'
    BY <1>10 DEF ServerOnly, Root, Bear, Move, At, Unborn, storage, locals, history
  <1>11. ASSUME NEW c \in Requests, NEW n \in Unborn, Renew(c, n), ServerOnly
         PROVE  Rows'
    BY <1>11 DEF ServerOnly, Renew, Bear, Move, At, Unborn, storage, locals, history, Idle
  <1>12. ASSUME NEW c \in Requests, Deliver(c)
         PROVE  Rows'
    BY <1>12 DEF Deliver, Answer, Done, Idle, At, Goto, storage, history
  <1>13. ASSUME NEW c \in Requests, Refuse(c) /\ RefuseUnusable(c, Tokens)
         PROVE  Rows'
    BY <1>13 DEF Refuse, RefuseUnusable, End, Spend, Done, Idle, At, Goto, storage,
       history
  <1>14. ASSUME NEW c \in Requests, Refuse(c) /\ RefuseRenewed(c, Tokens)
         PROVE  Rows'
    BY <1>14 DEF Refuse, RefuseRenewed, Spend, Done, Idle, At, Goto, storage,
       history
  <1>15. ASSUME NEW c \in Requests, TryRefresh(c), stored # NoToken
         PROVE  Rows'
    <2>1. Asks(c)
      BY <1>15, AskLocal
    <2> QED
      BY <1>15, <2>1 DEF Asks, storage
  <1>16. ASSUME NEW c \in Requests, TryRefresh(c), stored = NoToken
         PROVE  Rows'
    <2>1. Cannot(c)
      BY <1>16, NoAskLocal
    <2> QED
      BY <1>16, <2>1 DEF Cannot, storage, history
  <1>17. ASSUME NEW c \in Requests, NoRefresh(c)
         PROVE  Rows'
    BY <1>17 DEF NoRefresh, Goto, storage, history
  <1>18. ASSUME NEW c \in Requests, StoreRefreshed(c)
         PROVE  Rows'
    BY <1>18 DEF StoreRefreshed, SetTokens, Goto, history
  <1>19. ASSUME NEW c \in Requests, Retry(c)
         PROVE  Rows'
    BY <1>19 DEF Retry, Goto, storage, history
  <1>20. ASSUME NEW c \in Requests, GiveUp(c)
         PROVE  Rows'
    BY <1>20 DEF GiveUp, Goto, history
  <1>21. ASSUME NEW c \in Requests, CatchView(c)
         PROVE  Rows'
    BY <1>21 DEF CatchView, Settle, Goto, history
  <1>22. ASSUME NEW c \in Requests, CatchForm(c)
         PROVE  Rows'
    BY <1>22 DEF CatchForm, Settle, Goto, storage, history
  <1>23. ASSUME NEW c \in Requests, FinishLogout(c)
         PROVE  Rows'
    BY <1>23 DEF FinishLogout, Cleared, Settle, Goto
  <1>24. ASSUME NEW c \in Requests, StoreLogin(c)
         PROVE  Rows'
    BY <1>24 DEF StoreLogin, Settle, Goto
  <1>25. ASSUME NEW c \in Requests, LoginHalf(c)
         PROVE  Rows'
    BY <1>25 DEF LoginHalf, Settle, Goto, storage, history
  <1>26. ASSUME NEW c \in Requests, Fail(c)
         PROVE  Rows'
    BY <1>26 DEF Fail, MayFail, Goto, storage
  <1>27. ASSUME NEW c \in Requests, FailInside(c)
         PROVE  Rows'
    BY <1>27 DEF FailInside, MayFail, Crash, Done, Idle, At, Goto, storage
  <1>28. ASSUME NEW t \in Tokens, Lapse(t)
         PROVE  Rows'
    BY <1>28 DEF Lapse, InFlight, storage, locals, history
  <1>29. ASSUME NEW s \in Sessions, Elsewhere(s)
         PROVE  Rows'
    BY <1>29 DEF Elsewhere, MayFail, Revoke, End, Spend, storage, locals
  <1>30. CASE UNCHANGED vars
    BY <1>30 DEF vars, storage, locals, history, contractVars
  <1> HIDE DEF Rows, IInv
  <1> QED
    BY <1>1, <1>2, <1>3, <1>4, <1>5, <1>6, <1>7, <1>8, <1>9, <1>10, <1>11, <1>12,
       <1>13, <1>14, <1>15, <1>16, <1>17, <1>18, <1>19, <1>20, <1>21, <1>22, <1>23,
       <1>24, <1>25, <1>26, <1>27, <1>28, <1>29, <1>30, ServeCases DEF Next, Start,
       Step, Refuse

\* Every action leaves the tokens on their way to one call each.
LEMMA FreshNext ==
    ASSUME IInv, [Next]_vars
    PROVE  Fresh'
  <1> USE PairOfCalls DEF IInv, TypeOK, ServerTypes, Calls, Rows, Known, Fresh,
          Unborn, contractVars
  <1>1. ASSUME NEW c \in Requests, AcceptLogout(c)
        PROVE  Fresh'
    BY <1>1 DEF AcceptLogout, Revoke, End, Spend
  <1>2. ASSUME NEW c \in Requests, OpenSession(c)
        PROVE  Fresh'
    BY <1>2, AnyIn DEF OpenSession, Open, Idle, Move, At
  <1>3. ASSUME NEW c \in Requests, Take(c)
        PROVE  Fresh'
    BY <1>3 DEF Take, Spend, Move, At
  <1>4. ASSUME NEW c \in Requests, NEW n \in Unborn, Root(c, n)
        PROVE  Fresh'
    BY <1>4 DEF Root, Bear, Move, At, Unborn
  <1>5. ASSUME NEW c \in Requests, NEW n \in Unborn, Renew(c, n)
        PROVE  Fresh'
    BY <1>5 DEF Renew, Bear, Move, At, Unborn
  <1>6. ASSUME NEW c \in Requests, Deliver(c)
        PROVE  Fresh'
    BY <1>6 DEF Deliver, Answer, Done, Idle, At
  <1>7. ASSUME NEW c \in Requests, RefuseUnusable(c, Tokens)
        PROVE  Fresh'
    BY <1>7 DEF RefuseUnusable, End, Spend, Done, Idle, At
  <1>8. ASSUME NEW c \in Requests, RefuseRenewed(c, Tokens)
        PROVE  Fresh'
    BY <1>8 DEF RefuseRenewed, Spend, Done, Idle, At
  <1>9. ASSUME NEW c \in Requests, TryRefresh(c), stored # NoToken
        PROVE  Fresh'
    <2>1. PICK late \in BOOLEAN : AskedBy(c, late)
      BY <1>9, AskCall
    <2> QED
      BY <1>9, <2>1 DEF AskedBy, TryRefresh, Ask
  <1>10. ASSUME NEW c \in Requests, FailInside(c)
         PROVE  Fresh'
    BY <1>10 DEF FailInside, Crash, Done, Idle, At
  <1>11. ASSUME NEW s \in Sessions, Elsewhere(s)
         PROVE  Fresh'
    BY <1>11 DEF Elsewhere, Revoke, End, Spend
  <1>12. CASE UNCHANGED contractVars
    BY <1>12 DEF contractVars
  <1> HIDE DEF Fresh, IInv
  <1> QED
    BY <1>1, <1>2, <1>3, <1>4, <1>5, <1>6, <1>7, <1>8, <1>9, <1>10, <1>11, <1>12,
       ServerSteps

\* Every action leads to a statement whose facts hold.
LEMMA FramesNext ==
    ASSUME IInv, [Next]_vars
    PROVE  Frames'
  <1> USE PairOfCalls DEF IInv, TypeOK, ServerTypes, Rows, Known, Fresh, Frames,
          Frame, Unborn, Idle, contractVars
  <1>1. ASSUME MakeAccount
        PROVE  Frames'
    BY <1>1 DEF MakeAccount, Send, Crossed, InFlight, storage
  <1>2. ASSUME NEW c \in Requests, NEW k \in Kinds, Act(c, k)
        PROVE  Frames'
    BY <1>2 DEF Act, Send, Crossed, InFlight, storage
  <1>3. ASSUME NEW c \in Requests, SignIn(c)
        PROVE  Frames'
    BY <1>3 DEF SignIn, Send, Crossed, InFlight, storage
  <1>4. ASSUME NEW c \in Requests, DoLogout(c)
        PROVE  Frames'
    BY <1>4 DEF DoLogout, Send, Crossed, InFlight, storage
  <1>5. ASSUME NEW c \in Requests, Accept(c)
        PROVE  Frames'
    BY <1>5 DEF Accept, Settle, Goto, storage, history
  <1>6. ASSUME NEW c \in Requests, AcceptLogout(c)
        PROVE  Frames'
    BY <1>6 DEF AcceptLogout, Goto, Revoke, End, Spend, storage, history
  <1>7. ASSUME NEW c \in Requests, Deny(c)
        PROVE  Frames'
    BY <1>7 DEF Deny, Goto, storage, history
  <1>8. ASSUME NEW c \in Requests, OpenSession(c)
        PROVE  Frames'
    BY <1>8, AnyIn DEF OpenSession, Open, Idle, Move, At, Goto, storage, history
  <1>9. ASSUME NEW c \in Requests, Take(c), ServerOnly
        PROVE  Frames'
    <2>1. pc[c] = "refreshing"
      BY <1>9 DEF Take, Move, At
    <2>2. UNCHANGED <<pc, kind, got, status>>
      BY <1>9 DEF ServerOnly, locals, Take, Move, At
    <2>3. \A d \in Requests \ {c} : call'[d] = call[d]
      BY <1>9 DEF Take, Move, At
    <2>4. call'[c].at = "taken" /\ call'[c].tok = call[c].tok /\ call'[c].oauth = call[c].oauth
      BY <1>9 DEF Take, Move, At
    <2>5. ASSUME NEW d \in Requests \ {c}
          PROVE  Frame(d)'
      <3> HIDE DEF Idle
      <3> QED
        BY <2>2, <2>3
    <2>6. Frame(c)'
      BY <2>1, <2>2, <2>4
    <2> HIDE DEF Frame
    <2> QED
      BY <2>5, <2>6
  <1>10. ASSUME NEW c \in Requests, NEW n \in Unborn, Root(c, n), ServerOnly
         PROVE  Frames'
    <2>1. pc[c] = "opening"
      BY <1>10 DEF Root, Bear, Move, At
    <2>2. UNCHANGED <<pc, kind, got, status>>
      BY <1>10 DEF ServerOnly, locals, Root, Bear, Move, At
    <2>3. \A d \in Requests \ {c} : call'[d] = call[d]
      BY <1>10 DEF Root, Bear, Move, At
    <2>4. call'[c].at = "renewed" /\ call'[c].tok = call[c].tok /\ call'[c].oauth = call[c].oauth
      BY <1>10 DEF Root, Bear, Move, At
    <2>5. ASSUME NEW d \in Requests \ {c}
          PROVE  Frame(d)'
      <3> HIDE DEF Idle
      <3> QED
        BY <2>2, <2>3
    <2>6. Frame(c)'
      BY <2>1, <2>2, <2>4
    <2> HIDE DEF Frame
    <2> QED
      BY <2>5, <2>6
  <1>11. ASSUME NEW c \in Requests, NEW n \in Unborn, Renew(c, n), ServerOnly
         PROVE  Frames'
    <2>1. pc[c] = "refreshing"
      BY <1>11 DEF Renew, Bear, Move, At
    <2>2. UNCHANGED <<pc, kind, got, status>>
      BY <1>11 DEF ServerOnly, locals, Renew, Bear, Move, At
    <2>3. \A d \in Requests \ {c} : call'[d] = call[d]
      BY <1>11 DEF Renew, Bear, Move, At
    <2>4. call'[c].at = "renewed" /\ call'[c].tok = call[c].tok /\ call'[c].oauth = call[c].oauth
      BY <1>11 DEF Renew, Bear, Move, At
    <2>5. ASSUME NEW d \in Requests \ {c}
          PROVE  Frame(d)'
      <3> HIDE DEF Idle
      <3> QED
        BY <2>2, <2>3
    <2>6. Frame(c)'
      BY <2>1, <2>2, <2>4
    <2> HIDE DEF Frame
    <2> QED
      BY <2>5, <2>6
  <1>12. ASSUME NEW c \in Requests, Deliver(c)
         PROVE  Frames'
    BY <1>12 DEF Deliver, Answer, Done, Idle, At, Goto, storage, history
  <1>13. ASSUME NEW c \in Requests, Refuse(c) /\ RefuseUnusable(c, Tokens)
         PROVE  Frames'
    BY <1>13 DEF Refuse, RefuseUnusable, End, Spend, Done, Idle, At, Goto, storage,
       history
  <1>14. ASSUME NEW c \in Requests, Refuse(c) /\ RefuseRenewed(c, Tokens)
         PROVE  Frames'
    BY <1>14 DEF Refuse, RefuseRenewed, Spend, Done, Idle, At, Goto, storage,
       history
  <1>15. ASSUME NEW c \in Requests, TryRefresh(c), stored # NoToken
         PROVE  Frames'
    <2>1. Asks(c)
      BY <1>15, AskLocal
    <2>2. ASSUME NEW d \in Requests \ {c}
          PROVE  Frame(d)'
      <3> HIDE DEF Idle
      <3> QED
        BY <2>1 DEF Asks
    <2>3. Frame(c)'
      BY <1>15, <2>1 DEF Asks, storage
    <2> HIDE DEF Frame
    <2> QED
      BY <2>2, <2>3
  <1>16. ASSUME NEW c \in Requests, TryRefresh(c), stored = NoToken
         PROVE  Frames'
    <2>1. Cannot(c)
      BY <1>16, NoAskLocal
    <2> QED
      BY <1>16, <2>1 DEF Cannot, storage, history
  <1>17. ASSUME NEW c \in Requests, NoRefresh(c)
         PROVE  Frames'
    BY <1>17 DEF NoRefresh, Goto, storage, history
  <1>18. ASSUME NEW c \in Requests, StoreRefreshed(c)
         PROVE  Frames'
    BY <1>18 DEF StoreRefreshed, SetTokens, Goto, history
  <1>19. ASSUME NEW c \in Requests, Retry(c)
         PROVE  Frames'
    BY <1>19 DEF Retry, Goto, storage, history
  <1>20. ASSUME NEW c \in Requests, GiveUp(c)
         PROVE  Frames'
    BY <1>20 DEF GiveUp, Goto, history
  <1>21. ASSUME NEW c \in Requests, CatchView(c)
         PROVE  Frames'
    BY <1>21 DEF CatchView, Settle, Goto, history
  <1>22. ASSUME NEW c \in Requests, CatchForm(c)
         PROVE  Frames'
    BY <1>22 DEF CatchForm, Settle, Goto, storage, history
  <1>23. ASSUME NEW c \in Requests, FinishLogout(c)
         PROVE  Frames'
    BY <1>23 DEF FinishLogout, Cleared, Settle, Goto
  <1>24. ASSUME NEW c \in Requests, StoreLogin(c)
         PROVE  Frames'
    BY <1>24 DEF StoreLogin, Settle, Goto
  <1>25. ASSUME NEW c \in Requests, LoginHalf(c)
         PROVE  Frames'
    BY <1>25 DEF LoginHalf, Settle, Goto, storage, history
  <1>26. ASSUME NEW c \in Requests, Fail(c)
         PROVE  Frames'
    BY <1>26 DEF Fail, MayFail, Goto, storage
  <1>27. ASSUME NEW c \in Requests, FailInside(c)
         PROVE  Frames'
    BY <1>27 DEF FailInside, MayFail, Crash, Done, Idle, At, Goto, storage
  <1>28. ASSUME NEW t \in Tokens, Lapse(t)
         PROVE  Frames'
    BY <1>28 DEF Lapse, InFlight, storage, locals, history
  <1>29. ASSUME NEW s \in Sessions, Elsewhere(s)
         PROVE  Frames'
    BY <1>29 DEF Elsewhere, MayFail, Revoke, End, Spend, storage, locals
  <1>30. CASE UNCHANGED vars
    BY <1>30 DEF vars, storage, locals, history, contractVars
  <1> HIDE DEF Frames, IInv
  <1> QED
    BY <1>1, <1>2, <1>3, <1>4, <1>5, <1>6, <1>7, <1>8, <1>9, <1>10, <1>11, <1>12,
       <1>13, <1>14, <1>15, <1>16, <1>17, <1>18, <1>19, <1>20, <1>21, <1>22, <1>23,
       <1>24, <1>25, <1>26, <1>27, <1>28, <1>29, <1>30, ServeCases DEF Next, Start,
       Step, Refuse

\* Every action keeps what is known of retries.
LEMMA RetriesNext ==
    ASSUME IInv, [Next]_vars
    PROVE  Retries'
  <1> USE PairOfCalls DEF IInv, TypeOK, Rows, Known, Retries, Valid, contractVars
  <1>1. ASSUME MakeAccount
        PROVE  Retries'
    BY <1>1 DEF MakeAccount, Send, Crossed, InFlight, storage
  <1>2. ASSUME NEW c \in Requests, NEW k \in Kinds, Act(c, k)
        PROVE  Retries'
    BY <1>2 DEF Act, Send, Crossed, InFlight, storage
  <1>3. ASSUME NEW c \in Requests, SignIn(c)
        PROVE  Retries'
    BY <1>3 DEF SignIn, Send, Crossed, InFlight, storage
  <1>4. ASSUME NEW c \in Requests, DoLogout(c)
        PROVE  Retries'
    BY <1>4 DEF DoLogout, Send, Crossed, InFlight, storage
  <1>5. ASSUME NEW c \in Requests, Accept(c)
        PROVE  Retries'
    BY <1>5 DEF Accept, Settle, Goto, storage, history
  <1>6. ASSUME NEW c \in Requests, AcceptLogout(c)
        PROVE  Retries'
    BY <1>6 DEF AcceptLogout, Goto, Revoke, End, Spend, storage, history
  <1>7. ASSUME NEW c \in Requests, Deny(c)
        PROVE  Retries'
    BY <1>7 DEF Deny, Goto, storage, history
  <1>8. ASSUME NEW c \in Requests, OpenSession(c)
        PROVE  Retries'
    BY <1>8, AnyIn DEF OpenSession, Open, Idle, Move, At, Goto, storage, history
  <1>9. ASSUME NEW c \in Requests, Take(c), ServerOnly
        PROVE  Retries'
    BY <1>9 DEF ServerOnly, Take, Spend, Move, At, storage, locals, history
  <1>10. ASSUME NEW c \in Requests, NEW n \in Unborn, Root(c, n), ServerOnly
         PROVE  Retries'
    BY <1>10 DEF ServerOnly, Root, Bear, Move, At, Unborn, storage, locals, history
  <1>11. ASSUME NEW c \in Requests, NEW n \in Unborn, Renew(c, n), ServerOnly
         PROVE  Retries'
    BY <1>11 DEF ServerOnly, Renew, Bear, Move, At, Unborn, storage, locals, history
  <1>12. ASSUME NEW c \in Requests, Deliver(c)
         PROVE  Retries'
    BY <1>12 DEF Deliver, Answer, Done, Idle, At, Goto, storage, history
  <1>13. ASSUME NEW c \in Requests, Refuse(c) /\ RefuseUnusable(c, Tokens)
         PROVE  Retries'
    BY <1>13 DEF Refuse, RefuseUnusable, End, Spend, Done, Idle, At, Goto, storage,
       history
  <1>14. ASSUME NEW c \in Requests, Refuse(c) /\ RefuseRenewed(c, Tokens)
         PROVE  Retries'
    BY <1>14 DEF Refuse, RefuseRenewed, Spend, Done, Idle, At, Goto, storage,
       history
  <1>15. ASSUME NEW c \in Requests, TryRefresh(c), stored # NoToken
         PROVE  Retries'
    <2>1. Asks(c)
      BY <1>15, AskLocal
    <2> QED
      BY <1>15, <2>1 DEF Asks, storage
  <1>16. ASSUME NEW c \in Requests, TryRefresh(c), stored = NoToken
         PROVE  Retries'
    <2>1. Cannot(c)
      BY <1>16, NoAskLocal
    <2> QED
      BY <1>16, <2>1 DEF Cannot, storage, history
  <1>17. ASSUME NEW c \in Requests, NoRefresh(c)
         PROVE  Retries'
    BY <1>17 DEF NoRefresh, Goto, storage, history
  <1>18. ASSUME NEW c \in Requests, StoreRefreshed(c)
         PROVE  Retries'
    BY <1>18 DEF StoreRefreshed, SetTokens, Goto, history
  <1>19. ASSUME NEW c \in Requests, Retry(c)
         PROVE  Retries'
    BY <1>19 DEF Retry, Goto, storage, history
  <1>20. ASSUME NEW c \in Requests, GiveUp(c)
         PROVE  Retries'
    BY <1>20 DEF GiveUp, Goto, history
  <1>21. ASSUME NEW c \in Requests, CatchView(c)
         PROVE  Retries'
    BY <1>21 DEF CatchView, Settle, Goto, history
  <1>22. ASSUME NEW c \in Requests, CatchForm(c)
         PROVE  Retries'
    BY <1>22 DEF CatchForm, Settle, Goto, storage, history
  <1>23. ASSUME NEW c \in Requests, FinishLogout(c)
         PROVE  Retries'
    BY <1>23 DEF FinishLogout, Cleared, Settle, Goto
  <1>24. ASSUME NEW c \in Requests, StoreLogin(c)
         PROVE  Retries'
    BY <1>24 DEF StoreLogin, Settle, Goto
  <1>25. ASSUME NEW c \in Requests, LoginHalf(c)
         PROVE  Retries'
    BY <1>25 DEF LoginHalf, Settle, Goto, storage, history
  <1>26. ASSUME NEW c \in Requests, Fail(c)
         PROVE  Retries'
    BY <1>26 DEF Fail, MayFail, Goto, storage
  <1>27. ASSUME NEW c \in Requests, FailInside(c)
         PROVE  Retries'
    BY <1>27 DEF FailInside, MayFail, Crash, Done, Idle, At, Goto, storage
  <1>28. ASSUME NEW t \in Tokens, Lapse(t)
         PROVE  Retries'
    BY <1>28 DEF Lapse, InFlight, storage, locals, history
  <1>29. ASSUME NEW s \in Sessions, Elsewhere(s)
         PROVE  Retries'
    BY <1>29 DEF Elsewhere, MayFail, Revoke, End, Spend, storage, locals
  <1>30. CASE UNCHANGED vars
    BY <1>30 DEF vars, storage, locals, history, contractVars
  <1> HIDE DEF Retries, IInv
  <1> QED
    BY <1>1, <1>2, <1>3, <1>4, <1>5, <1>6, <1>7, <1>8, <1>9, <1>10, <1>11, <1>12,
       <1>13, <1>14, <1>15, <1>16, <1>17, <1>18, <1>19, <1>20, <1>21, <1>22, <1>23,
       <1>24, <1>25, <1>26, <1>27, <1>28, <1>29, <1>30, ServeCases DEF Next, Start,
       Step, Refuse

\* Every action leaves sign-in and sign-out alone, or is a mishap.
LEMMA AloneNext ==
    ASSUME IInv, [Next]_vars
    PROVE  Alone'
  <1> USE PairOfCalls DEF IInv, TypeOK, ServerTypes, Rows, Known, Frames, Frame,
          Alone, Solitary, InFlight, Refreshing, contractVars
  <1>1. ASSUME MakeAccount
        PROVE  Alone'
    <2>1. \A d \in InFlight :
             /\ "login" \in {"view", kind[d]} => "signin" \in mishaps'
             /\ "logout" \in {"view", kind[d]} => "signout" \in mishaps'
      <3> HIDE DEF InFlight
      <3> QED
        BY <1>1, SendMeets DEF MakeAccount
    <2> QED
      BY <1>1, <2>1 DEF MakeAccount, Send, storage
  <1>2. ASSUME NEW c \in Requests, NEW k \in Kinds, Act(c, k)
        PROVE  Alone'
    <2>1. \A d \in InFlight :
             /\ "login" \in {k, kind[d]} => "signin" \in mishaps'
             /\ "logout" \in {k, kind[d]} => "signout" \in mishaps'
      <3> HIDE DEF InFlight
      <3> QED
        BY <1>2, SendMeets DEF Act
    <2> QED
      BY <1>2, <2>1 DEF Act, Send, storage
  <1>3. ASSUME NEW c \in Requests, SignIn(c)
        PROVE  Alone'
    <2>1. \A d \in InFlight :
             /\ "login" \in {"login", kind[d]} => "signin" \in mishaps'
             /\ "logout" \in {"login", kind[d]} => "signout" \in mishaps'
      <3> HIDE DEF InFlight
      <3> QED
        BY <1>3, SendMeets DEF SignIn
    <2> QED
      BY <1>3, <2>1 DEF SignIn, Send, storage
  <1>4. ASSUME NEW c \in Requests, DoLogout(c)
        PROVE  Alone'
    <2>1. \A d \in InFlight :
             /\ "login" \in {"logout", kind[d]} => "signin" \in mishaps'
             /\ "logout" \in {"logout", kind[d]} => "signout" \in mishaps'
      <3> HIDE DEF InFlight
      <3> QED
        BY <1>4, SendMeets DEF DoLogout
    <2> QED
      BY <1>4, <2>1 DEF DoLogout, Send, storage
  <1>5. ASSUME NEW c \in Requests, Accept(c)
        PROVE  Alone'
    BY <1>5 DEF Accept, Settle, Goto, storage, history
  <1>6. ASSUME NEW c \in Requests, AcceptLogout(c)
        PROVE  Alone'
    BY <1>6 DEF AcceptLogout, Goto, Revoke, End, Spend, storage, history
  <1>7. ASSUME NEW c \in Requests, Deny(c)
        PROVE  Alone'
    BY <1>7 DEF Deny, Goto, storage, history
  <1>8. ASSUME NEW c \in Requests, OpenSession(c)
        PROVE  Alone'
    BY <1>8, AnyIn DEF OpenSession, Open, Idle, Move, At, Goto, storage, history
  <1>9. ASSUME NEW c \in Requests, Take(c), ServerOnly
        PROVE  Alone'
    BY <1>9 DEF ServerOnly, Take, Spend, Move, At, storage, locals, history
  <1>10. ASSUME NEW c \in Requests, NEW n \in Unborn, Root(c, n), ServerOnly
         PROVE  Alone'
    BY <1>10 DEF ServerOnly, Root, Bear, Move, At, Unborn, storage, locals, history
  <1>11. ASSUME NEW c \in Requests, NEW n \in Unborn, Renew(c, n), ServerOnly
         PROVE  Alone'
    BY <1>11 DEF ServerOnly, Renew, Bear, Move, At, Unborn, storage, locals, history
  <1>12. ASSUME NEW c \in Requests, Deliver(c)
         PROVE  Alone'
    BY <1>12 DEF Deliver, Answer, Done, Idle, At, Goto, storage, history
  <1>13. ASSUME NEW c \in Requests, Refuse(c) /\ RefuseUnusable(c, Tokens)
         PROVE  Alone'
    BY <1>13 DEF Refuse, RefuseUnusable, End, Spend, Done, Idle, At, Goto, storage,
       history
  <1>14. ASSUME NEW c \in Requests, Refuse(c) /\ RefuseRenewed(c, Tokens)
         PROVE  Alone'
    BY <1>14 DEF Refuse, RefuseRenewed, Spend, Done, Idle, At, Goto, storage,
       history
  <1>15. ASSUME NEW c \in Requests, TryRefresh(c), stored # NoToken
         PROVE  Alone'
    <2>1. Asks(c)
      BY <1>15, AskLocal
    <2> QED
      BY <1>15, <2>1 DEF Asks, storage
  <1>16. ASSUME NEW c \in Requests, TryRefresh(c), stored = NoToken
         PROVE  Alone'
    <2>1. Cannot(c)
      BY <1>16, NoAskLocal
    <2> QED
      BY <1>16, <2>1 DEF Cannot, storage, history
  <1>17. ASSUME NEW c \in Requests, NoRefresh(c)
         PROVE  Alone'
    BY <1>17 DEF NoRefresh, Goto, storage, history
  <1>18. ASSUME NEW c \in Requests, StoreRefreshed(c)
         PROVE  Alone'
    BY <1>18 DEF StoreRefreshed, SetTokens, Goto, history
  <1>19. ASSUME NEW c \in Requests, Retry(c)
         PROVE  Alone'
    BY <1>19 DEF Retry, Goto, storage, history
  <1>20. ASSUME NEW c \in Requests, GiveUp(c)
         PROVE  Alone'
    BY <1>20 DEF GiveUp, Goto, history
  <1>21. ASSUME NEW c \in Requests, CatchView(c)
         PROVE  Alone'
    BY <1>21 DEF CatchView, Settle, Goto, history
  <1>22. ASSUME NEW c \in Requests, CatchForm(c)
         PROVE  Alone'
    BY <1>22 DEF CatchForm, Settle, Goto, storage, history
  <1>23. ASSUME NEW c \in Requests, FinishLogout(c)
         PROVE  Alone'
    BY <1>23 DEF FinishLogout, Cleared, Settle, Goto
  <1>24. ASSUME NEW c \in Requests, StoreLogin(c)
         PROVE  Alone'
    BY <1>24 DEF StoreLogin, Settle, Goto
  <1>25. ASSUME NEW c \in Requests, LoginHalf(c)
         PROVE  Alone'
    BY <1>25 DEF LoginHalf, Settle, Goto, storage, history
  <1>26. ASSUME NEW c \in Requests, Fail(c)
         PROVE  Alone'
    BY <1>26 DEF Fail, MayFail, Goto, storage
  <1>27. ASSUME NEW c \in Requests, FailInside(c)
         PROVE  Alone'
    BY <1>27 DEF FailInside, MayFail, Crash, Done, Idle, At, Goto, storage
  <1>28. ASSUME NEW t \in Tokens, Lapse(t)
         PROVE  Alone'
    BY <1>28 DEF Lapse, InFlight, storage, locals, history
  <1>29. ASSUME NEW s \in Sessions, Elsewhere(s)
         PROVE  Alone'
    BY <1>29 DEF Elsewhere, MayFail, Revoke, End, Spend, storage, locals
  <1>30. CASE UNCHANGED vars
    BY <1>30 DEF vars, storage, locals, history, contractVars
  <1> HIDE DEF Alone, IInv
  <1> QED
    BY <1>1, <1>2, <1>3, <1>4, <1>5, <1>6, <1>7, <1>8, <1>9, <1>10, <1>11, <1>12,
       <1>13, <1>14, <1>15, <1>16, <1>17, <1>18, <1>19, <1>20, <1>21, <1>22, <1>23,
       <1>24, <1>25, <1>26, <1>27, <1>28, <1>29, <1>30, ServeCases DEF Next, Start,
       Step, Refuse

\* Every action keeps to the user's session, or is a mishap.
LEMMA OursNext ==
    ASSUME IInv, [Next]_vars
    PROVE  Ours'
  <1> USE PairOfCalls DEF IInv, TypeOK, ServerTypes, Rows, Known, Fresh, Frames,
          Frame, Retries, Valid, Ours, Solitary, InFlight, OwnTokens, Own,
          OnlyGoneFails, Gone, Over, contractVars
  <1>1. ASSUME MakeAccount
        PROVE  Ours'
    <2>1. \A d \in InFlight :
             /\ "login" \in {"view", kind[d]} => "signin" \in mishaps'
             /\ "logout" \in {"view", kind[d]} => "signout" \in mishaps'
      <3> HIDE DEF InFlight
      <3> QED
        BY <1>1, SendMeets DEF MakeAccount
    <2> QED
      BY <1>1, <2>1 DEF MakeAccount, Send, storage
  <1>2. ASSUME NEW c \in Requests, NEW k \in Kinds, Act(c, k)
        PROVE  Ours'
    <2>1. \A d \in InFlight : kind[d] = "login" => "signin" \in mishaps'
      <3> HIDE DEF InFlight
      <3> QED
        BY <1>2, SendMeets DEF Act
    <2>2. UNCHANGED <<status, owner, call, stored, user, got>> /\ mishaps \subseteq mishaps'
      BY <1>2 DEF Act, Send, storage
    <2>3. pc[c] = "idle" /\ pc'[c] = "sent" /\ bear'[c] = stored /\ kind'[c] \in {"act", "form"}
      BY <1>2 DEF Act, Send
    <2>4. \A d \in Requests \ {c} :
             pc'[d] = pc[d] /\ bear'[d] = bear[d] /\ kind'[d] = kind[d]
      BY <1>2 DEF Act, Send
    <2> SUFFICES ASSUME mishaps' \intersect {"signin", "failure"} = {}
                 PROVE  Ours'
      OBVIOUS
    <2>5. Solitary("login")'
      BY <2>1, <2>2, <2>3, <2>4
    <2>6. OwnTokens'
      BY <2>2, <2>3, <2>4
    <2>7. OnlyGoneFails'
      BY <2>2, <2>3, <2>4
    <2> QED
      BY <2>5, <2>6, <2>7
  <1>3. ASSUME NEW c \in Requests, SignIn(c)
        PROVE  Ours'
    <2>1. \A d \in InFlight :
             /\ "login" \in {"login", kind[d]} => "signin" \in mishaps'
             /\ "logout" \in {"login", kind[d]} => "signout" \in mishaps'
      <3> HIDE DEF InFlight
      <3> QED
        BY <1>3, SendMeets DEF SignIn
    <2> QED
      BY <1>3, <2>1 DEF SignIn, Send, storage
  <1>4. ASSUME NEW c \in Requests, DoLogout(c)
        PROVE  Ours'
    <2>1. \A d \in InFlight :
             /\ "login" \in {"logout", kind[d]} => "signin" \in mishaps'
             /\ "logout" \in {"logout", kind[d]} => "signout" \in mishaps'
      <3> HIDE DEF InFlight
      <3> QED
        BY <1>4, SendMeets DEF DoLogout
    <2> QED
      BY <1>4, <2>1 DEF DoLogout, Send, storage
  <1>5. ASSUME NEW c \in Requests, Accept(c)
        PROVE  Ours'
    BY <1>5 DEF Accept, Settle, Goto, storage, history
  <1>6. ASSUME NEW c \in Requests, AcceptLogout(c)
        PROVE  Ours'
    BY <1>6 DEF AcceptLogout, Goto, Revoke, End, Spend, storage, history
  <1>7. ASSUME NEW c \in Requests, Deny(c)
        PROVE  Ours'
    BY <1>7 DEF Deny, Goto, storage, history
  <1>8. ASSUME NEW c \in Requests, OpenSession(c)
        PROVE  Ours'
    BY <1>8, AnyIn DEF OpenSession, Open, Idle, Move, At, Goto, storage, history
  <1>9. ASSUME NEW c \in Requests, Take(c), ServerOnly
        PROVE  Ours'
    BY <1>9 DEF ServerOnly, Take, Spend, Move, At, storage, locals, history
  <1>10. ASSUME NEW c \in Requests, NEW n \in Unborn, Root(c, n), ServerOnly
         PROVE  Ours'
    <2>1. pc[c] = "opening"
      BY <1>10 DEF Root, At, Idle
    <2>2. UNCHANGED <<pc, kind, bear, got, stored, user, mishaps, status>>
      BY <1>10 DEF ServerOnly, Root, Bear, locals, history, storage
    <2>3. \A d \in Requests \ {c} : call'[d] = call[d]
      BY <1>10 DEF Root, Bear, Move
    <2>4. \A t \in Tokens \ {n} : owner'[t] = owner[t]
      BY <1>10 DEF Root, Bear
    <2>5. \A t \in held : t # n
      BY <1>10 DEF Unborn
    <2>6. \A d \in Requests : call[d].at = "renewed" => call[d].new # n
      BY <1>10 DEF Unborn
    <2> SUFFICES ASSUME mishaps \intersect {"signin", "failure"} = {}
                 PROVE  Ours'
      BY <2>2
    <2>8. \A t \in Known : Own(t) => Own(t)'
      BY <2>2, <2>4, <2>5
    <2>9. OwnTokens'
      BY <2>1, <2>2, <2>3, <2>4, <2>5, <2>6, <2>8
    <2>10. Solitary("login")' /\ OnlyGoneFails'
      BY <2>2
    <2> QED
      BY <2>9, <2>10
  <1>11. ASSUME NEW c \in Requests, NEW n \in Unborn, Renew(c, n), ServerOnly
         PROVE  Ours'
    <2>1. pc[c] = "refreshing"
      BY <1>11 DEF Renew, At, Idle
    <2>2. UNCHANGED <<pc, kind, bear, got, stored, user, mishaps, status>>
      BY <1>11 DEF ServerOnly, Renew, Bear, locals, history, storage
    <2>3. \A d \in Requests \ {c} : call'[d] = call[d]
      BY <1>11 DEF Renew, Bear, Move
    <2>4. \A t \in Tokens \ {n} : owner'[t] = owner[t]
      BY <1>11 DEF Renew, Bear
    <2>5. \A t \in held : t # n
      BY <1>11 DEF Unborn
    <2>6. \A d \in Requests : call[d].at = "renewed" => call[d].new # n
      BY <1>11 DEF Unborn
    <2>7. /\ call'[c].tok = call[c].tok /\ call'[c].new = n
          /\ owner'[n] = owner[call[c].tok] /\ call[c].tok \in held
      BY <1>11, <2>1 DEF Renew, Bear, Move, Unborn
    <2> SUFFICES ASSUME mishaps \intersect {"signin", "failure"} = {}
                 PROVE  Ours'
      BY <2>2
    <2>8. \A t \in Known : Own(t) => Own(t)'
      BY <2>2, <2>4, <2>5
    <2>9. OwnTokens'
      BY <2>1, <2>2, <2>3, <2>4, <2>5, <2>6, <2>7, <2>8
    <2>10. Solitary("login")' /\ OnlyGoneFails'
      BY <2>2
    <2> QED
      BY <2>9, <2>10
  <1>12. ASSUME NEW c \in Requests, Deliver(c)
         PROVE  Ours'
    BY <1>12 DEF Deliver, Answer, Done, Idle, At, Goto, storage, history
  <1>13. ASSUME NEW c \in Requests, Refuse(c) /\ RefuseUnusable(c, Tokens)
         PROVE  Ours'
    <2> SUFFICES ASSUME mishaps \intersect {"signin", "failure"} = {}
                 PROVE  Ours'
      BY <1>13 DEF Refuse, history
    <2>1. pc[c] = "refreshing" /\ call[c].tok \in held
      BY <1>13 DEF RefuseUnusable, At, Idle
    <2>2. pc' = [pc EXCEPT ![c] = "failed"]
          /\ UNCHANGED <<kind, bear, got, stored, user, mishaps, owner>>
      BY <1>13 DEF Refuse, RefuseUnusable, Goto, history, storage
    <2>3. \A d \in Requests \ {c} : call'[d] = call[d]
      BY <1>13 DEF RefuseUnusable, Done
    <2>4. status'[owner[call[c].tok]] = "over" /\ \A s \in Sessions : Over(s) => Over(s)'
      BY <1>13, <2>1 DEF RefuseUnusable, End
    <2>5. Gone'
      BY <2>1, <2>2, <2>4
    <2>6. \A t \in Tokens : token[t] # "unborn" => (Own(t) => Own(t)')
      BY <2>2, <2>4
    <2>7. OwnTokens'
      BY <2>1, <2>2, <2>3, <2>6
    <2>8. Solitary("login")'
      BY <2>1, <2>2
    <2>9. OnlyGoneFails'
      <3> HIDE DEF Gone
      <3> QED
        BY <2>5
    <2> QED
      BY <2>7, <2>8, <2>9
  <1>14. ASSUME NEW c \in Requests, Refuse(c) /\ RefuseRenewed(c, Tokens)
         PROVE  Ours'
    BY <1>14 DEF Refuse, RefuseRenewed, Spend, Done, Idle, At, Goto, storage,
       history
  <1>15. ASSUME NEW c \in Requests, TryRefresh(c), stored # NoToken
         PROVE  Ours'
    <2>1. Asks(c)
      BY <1>15, AskLocal
    <2> QED
      BY <1>15, <2>1 DEF Asks, storage
  <1>16. ASSUME NEW c \in Requests, TryRefresh(c), stored = NoToken
         PROVE  Ours'
    <2>1. Cannot(c)
      BY <1>16, NoAskLocal
    <2> QED
      BY <1>16, <2>1 DEF Cannot, storage, history
  <1>17. ASSUME NEW c \in Requests, NoRefresh(c)
         PROVE  Ours'
    BY <1>17 DEF NoRefresh, Goto, storage, history
  <1>18. ASSUME NEW c \in Requests, StoreRefreshed(c)
         PROVE  Ours'
    BY <1>18 DEF StoreRefreshed, SetTokens, Goto, history
  <1>19. ASSUME NEW c \in Requests, Retry(c)
         PROVE  Ours'
    BY <1>19 DEF Retry, Goto, storage, history
  <1>20. ASSUME NEW c \in Requests, GiveUp(c)
         PROVE  Ours'
    BY <1>20 DEF GiveUp, Goto, history
  <1>21. ASSUME NEW c \in Requests, CatchView(c)
         PROVE  Ours'
    BY <1>21 DEF CatchView, Settle, Goto, history
  <1>22. ASSUME NEW c \in Requests, CatchForm(c)
         PROVE  Ours'
    BY <1>22 DEF CatchForm, Settle, Goto, storage, history
  <1>23. ASSUME NEW c \in Requests, FinishLogout(c)
         PROVE  Ours'
    BY <1>23 DEF FinishLogout, Cleared, Settle, Goto
  <1>24. ASSUME NEW c \in Requests, StoreLogin(c)
         PROVE  Ours'
    BY <1>24 DEF StoreLogin, Settle, Goto
  <1>25. ASSUME NEW c \in Requests, LoginHalf(c)
         PROVE  Ours'
    BY <1>25 DEF LoginHalf, Settle, Goto, storage, history
  <1>26. ASSUME NEW c \in Requests, Fail(c)
         PROVE  Ours'
    BY <1>26 DEF Fail, MayFail, Goto, storage
  <1>27. ASSUME NEW c \in Requests, FailInside(c)
         PROVE  Ours'
    BY <1>27 DEF FailInside, MayFail, Crash, Done, Idle, At, Goto, storage
  <1>28. ASSUME NEW t \in Tokens, Lapse(t)
         PROVE  Ours'
    BY <1>28 DEF Lapse, InFlight, storage, locals, history
  <1>29. ASSUME NEW s \in Sessions, Elsewhere(s)
         PROVE  Ours'
    BY <1>29 DEF Elsewhere, MayFail, Revoke, End, Spend, storage, locals
  <1>30. CASE UNCHANGED vars
    BY <1>30 DEF vars, storage, locals, history, contractVars
  <1> HIDE DEF Ours, IInv
  <1> QED
    BY <1>1, <1>2, <1>3, <1>4, <1>5, <1>6, <1>7, <1>8, <1>9, <1>10, <1>11, <1>12,
       <1>13, <1>14, <1>15, <1>16, <1>17, <1>18, <1>19, <1>20, <1>21, <1>22, <1>23,
       <1>24, <1>25, <1>26, <1>27, <1>28, <1>29, <1>30, ServeCases DEF Next, Start,
       Step, Refuse

\* While nothing went wrong, no refresh is turned away.
LEMMA NoRefusal ==
    ASSUME IInv, NEW c \in Requests, mishaps = {},
           RefuseUnusable(c, Tokens) \/ RefuseRenewed(c, Tokens)
    PROVE  FALSE
  <1> USE DEF IInv, Frames, Frame
  <1>1. pc[c] = "refreshing"
    BY DEF RefuseUnusable, RefuseRenewed, At, Idle
  <1>2. user # NoSession
    BY <1>1 DEF Alone, Refreshing
  <1>3. ~Leaving
    BY <1>1 DEF Leaving, Alone, Solitary, InFlight
  <1>4. ~Over(user) /\ (call[c].at = "asked" => Usable(call[c].tok))
    BY <1>1, <1>2, <1>3 DEF Calm, OneUsable
  <1>5. owner[call[c].tok] = user
    BY <1>1, <1>2, PairOfCalls DEF Ours, OwnTokens, Own
  <1> QED
    BY <1>1, <1>4, <1>5 DEF RefuseUnusable, RefuseRenewed, At

\* Every action hands the usable token on, or is a mishap.
LEMMA CalmNext ==
    ASSUME IInv, [Next]_vars
    PROVE  Calm'
  <1> USE PairOfCalls DEF IInv, TypeOK, ServerTypes, Rows, Known, Fresh, Frames,
          Frame, Alone, Ours, Calm, Solitary, InFlight, Refreshing, OwnTokens, Own,
          OnlyGoneFails, Gone, Over, Leaving, LoginBrings, OneUsable, Usable,
          contractVars
  <1>1. ASSUME MakeAccount
        PROVE  Calm'
    <2>1. UNCHANGED <<status, token, owner, expired, call, stored, user, got>>
          /\ mishaps \subseteq mishaps'
      BY <1>1 DEF MakeAccount, Send, storage
    <2>2. \A d \in Requests : pc'[d] # pc[d] => pc[d] = "idle" /\ pc'[d] = "sent"
      BY <1>1 DEF MakeAccount, Send
    <2> QED
      BY <2>1, <2>2
  <1>2. ASSUME NEW c \in Requests, NEW k \in Kinds, Act(c, k)
        PROVE  Calm'
    <2>1. UNCHANGED <<status, token, owner, expired, call, stored, user, got>>
          /\ mishaps \subseteq mishaps'
      BY <1>2 DEF Act, Send, storage
    <2>2. \A d \in Requests : pc'[d] # pc[d] => pc[d] = "idle" /\ pc'[d] = "sent"
      BY <1>2 DEF Act, Send
    <2> QED
      BY <2>1, <2>2
  <1>3. ASSUME NEW c \in Requests, SignIn(c)
        PROVE  Calm'
    <2>1. UNCHANGED <<status, token, owner, expired, call, stored, user, got>>
          /\ mishaps \subseteq mishaps'
      BY <1>3 DEF SignIn, Send, storage
    <2>2. \A d \in Requests : pc'[d] # pc[d] => pc[d] = "idle" /\ pc'[d] = "sent"
      BY <1>3 DEF SignIn, Send
    <2> QED
      BY <2>1, <2>2
  <1>4. ASSUME NEW c \in Requests, DoLogout(c)
        PROVE  Calm'
    <2>1. UNCHANGED <<status, token, owner, expired, call, stored, user, got>>
          /\ mishaps \subseteq mishaps'
      BY <1>4 DEF DoLogout, Send, storage
    <2>2. \A d \in Requests : pc'[d] # pc[d] => pc[d] = "idle" /\ pc'[d] = "sent"
      BY <1>4 DEF DoLogout, Send
    <2> QED
      BY <2>1, <2>2
  <1>5. ASSUME NEW c \in Requests, Accept(c)
        PROVE  Calm'
    BY <1>5 DEF Accept, Settle, Goto, storage, history
  <1>6. ASSUME NEW c \in Requests, AcceptLogout(c)
        PROVE  Calm'
    <2> SUFFICES ASSUME mishaps = {}
                 PROVE  Calm'
      BY <1>6 DEF AcceptLogout, history
    <2>1. pc[c] = "sent" /\ pc' = [pc EXCEPT ![c] = "bye"] /\ UNCHANGED <<call, got>>
      BY <1>6 DEF AcceptLogout, Goto, Revoke
    <2>2. \A d \in Requests : d # c => pc[d] = "idle"
      BY <1>6, <2>1 DEF AcceptLogout
    <2>3. pc'[c] = "bye"
      BY <2>1
    <2>4. \A d \in Requests : pc'[d] \in {"bye", "idle"}
      BY <2>1, <2>2
    <2>5. \A d \in Requests : call'[d].at = "idle"
      BY <2>1, <2>2 DEF Idle
    <2> QED
      BY <2>3, <2>4, <2>5
  <1>7. ASSUME NEW c \in Requests, Deny(c)
        PROVE  Calm'
    BY <1>7 DEF Deny, Goto, storage, history
  <1>8. ASSUME NEW c \in Requests, OpenSession(c)
        PROVE  Calm'
    BY <1>8, AnyIn DEF OpenSession, Open, Idle, Move, At, Goto, storage, history
  <1>9. ASSUME NEW c \in Requests, Take(c), ServerOnly
        PROVE  Calm'
    <2> SUFFICES ASSUME mishaps = {}
                 PROVE  Calm'
      BY <1>9 DEF ServerOnly, history
    <2>1. pc[c] = "refreshing"
      BY <1>9 DEF Take, At, Idle
    <2>2. UNCHANGED <<pc, user, status, stored>>
      BY <1>9 DEF ServerOnly, Take, locals, history, storage
    <2>3. \A d \in Requests \ {c} : call'[d] = call[d]
      BY <1>9 DEF Take, Move
    <2>4. call'[c].at = "taken"
      BY <1>9 DEF Take, Move
    <2>5. \A d \in Requests \ {c} : pc[d] \notin {"refreshing", "tokens"}
      BY <2>1
    <2>6. \A d \in Requests \ {c} : pc[d] \notin {"opening", "welcome"}
      BY <2>1
    <2>7. \A d \in Requests \ {c} : call'[d].at = "idle"
      BY <2>3, <2>5, <2>6 DEF Idle
    <2> QED
      BY <2>1, <2>2, <2>4, <2>5, <2>6, <2>7
  <1>10. ASSUME NEW c \in Requests, NEW n \in Unborn, Root(c, n), ServerOnly
         PROVE  Calm'
    <2> SUFFICES ASSUME mishaps = {}
                 PROVE  Calm'
      BY <1>10 DEF ServerOnly, history
    <2>1. pc[c] = "opening"
      BY <1>10 DEF Root, At, Idle
    <2>2. UNCHANGED <<pc, user, status, stored, got, expired>>
      BY <1>10 DEF ServerOnly, Root, Bear, locals, history, storage
    <2>3. /\ \A d \in Requests \ {c} : call'[d] = call[d]
          /\ call'[c].at = "renewed" /\ call'[c].new = n
      BY <1>10 DEF Root, Bear, Move
    <2>4. /\ \A t \in Tokens \ {n} : token'[t] = token[t] /\ owner'[t] = owner[t]
          /\ token'[n] = "live" /\ owner'[n] = call[c].sess /\ n # NoToken
      BY <1>10 DEF Root, Bear, Unborn
    <2>5. call[c].at = "opening" /\ ~Over(call[c].sess)
      BY <1>10 DEF Root, At
    <2>6. \A d \in Requests \ {c} : pc[d] = "idle"
      BY <2>1
    <2>7. LoginBrings'
      <3>1. \A d \in Requests \ {c} : pc'[d] = "idle" /\ call'[d].at = "idle"
        BY <2>2, <2>3, <2>6 DEF Idle
      <3> QED
        BY <2>1, <2>2, <2>3, <2>4, <2>5, <3>1
    <2>8. Refreshing = {} /\ Refreshing' = {}
      BY <2>1, <2>2, <2>6
    <2>9. user # NoSession /\ ~Leaving => Usable(stored)'
      BY <2>2, <2>4, <2>8, <1>10 DEF Unborn
    <2> QED
      BY <2>2, <2>7, <2>8, <2>9
  <1>11. ASSUME NEW c \in Requests, NEW n \in Unborn, Renew(c, n), ServerOnly
         PROVE  Calm'
    <2> SUFFICES ASSUME mishaps = {}
                 PROVE  Calm'
      BY <1>11 DEF ServerOnly, history
    <2>1. pc[c] = "refreshing"
      BY <1>11 DEF Renew, At, Idle
    <2>2. UNCHANGED <<pc, user, status, stored, got, expired>>
      BY <1>11 DEF ServerOnly, Renew, Bear, locals, history, storage
    <2>3. /\ \A d \in Requests \ {c} : call'[d] = call[d]
          /\ call'[c].at = "renewed" /\ call'[c].new = n
      BY <1>11 DEF Renew, Bear, Move
    <2>4. token'[n] = "live" /\ n # NoToken
      BY <1>11 DEF Renew, Bear, Unborn
    <2>5. \A d \in Requests \ {c} : pc[d] \notin {"refreshing", "tokens", "opening", "welcome"}
      BY <2>1
    <2>6. \A d \in Requests \ {c} : call'[d].at = "idle"
      BY <2>3, <2>5 DEF Idle
    <2> QED
      BY <2>1, <2>2, <2>3, <2>4, <2>5, <2>6
  <1>12. ASSUME NEW c \in Requests, Deliver(c)
         PROVE  Calm'
    BY <1>12 DEF Deliver, Answer, Done, Idle, At, Goto, storage, history
  <1>13. ASSUME NEW c \in Requests, Refuse(c) /\ RefuseUnusable(c, Tokens)
         PROVE  Calm'
    <2> HIDE DEF IInv
    <2> QED
      BY <1>13, NoRefusal DEF Refuse, history, Calm
  <1>14. ASSUME NEW c \in Requests, Refuse(c) /\ RefuseRenewed(c, Tokens)
         PROVE  Calm'
    <2> HIDE DEF IInv
    <2> QED
      BY <1>14, NoRefusal DEF Refuse, history, Calm
  <1>15. ASSUME NEW c \in Requests, TryRefresh(c), stored # NoToken
         PROVE  Calm'
    <2> SUFFICES ASSUME mishaps' = {}
                 PROVE  Calm'
      OBVIOUS
    <2>1. mishaps = {} /\ Refreshing = {}
      <3> HIDE DEF Refreshing
      <3> QED
        BY <1>15, AskOverlap
    <2>2. Asks(c)
      BY <1>15, AskLocal
    <2>3. LoginBrings'
      BY <2>1, <2>2 DEF Asks, storage
    <2>4. Refreshing' = {c} /\ Leaving' = Leaving
      BY <2>1, <2>2 DEF Asks
    <2>5. OneUsable'
      BY <2>1, <2>2, <2>4 DEF Asks, storage
    <2> QED
      BY <2>3, <2>4, <2>5
  <1>16. ASSUME NEW c \in Requests, TryRefresh(c), stored = NoToken
         PROVE  Calm'
    <2>1. Cannot(c)
      BY <1>16, NoAskLocal
    <2> QED
      BY <1>16, <2>1 DEF Cannot, storage, history
  <1>17. ASSUME NEW c \in Requests, NoRefresh(c)
         PROVE  Calm'
    BY <1>17 DEF NoRefresh, Goto, storage, history
  <1>18. ASSUME NEW c \in Requests, StoreRefreshed(c)
         PROVE  Calm'
    BY <1>18 DEF StoreRefreshed, SetTokens, Goto, history
  <1>19. ASSUME NEW c \in Requests, Retry(c)
         PROVE  Calm'
    BY <1>19 DEF Retry, Goto, storage, history
  <1>20. ASSUME NEW c \in Requests, GiveUp(c)
         PROVE  Calm'
    BY <1>20 DEF GiveUp, Goto, history
  <1>21. ASSUME NEW c \in Requests, CatchView(c)
         PROVE  Calm'
    BY <1>21 DEF CatchView, Settle, Goto, history
  <1>22. ASSUME NEW c \in Requests, CatchForm(c)
         PROVE  Calm'
    BY <1>22 DEF CatchForm, Settle, Goto, storage, history
  <1>23. ASSUME NEW c \in Requests, FinishLogout(c)
         PROVE  Calm'
    BY <1>23 DEF FinishLogout, Cleared, Settle, Goto
  <1>24. ASSUME NEW c \in Requests, StoreLogin(c)
         PROVE  Calm'
    BY <1>24 DEF StoreLogin, Settle, Goto
  <1>25. ASSUME NEW c \in Requests, LoginHalf(c)
         PROVE  Calm'
    BY <1>25 DEF LoginHalf, Settle, Goto, storage, history
  <1>26. ASSUME NEW c \in Requests, Fail(c)
         PROVE  Calm'
    BY <1>26 DEF Fail, MayFail, Goto, storage
  <1>27. ASSUME NEW c \in Requests, FailInside(c)
         PROVE  Calm'
    BY <1>27 DEF FailInside, MayFail, Crash, Done, Idle, At, Goto, storage
  <1>28. ASSUME NEW t \in Tokens, Lapse(t)
         PROVE  Calm'
    BY <1>28 DEF Lapse, InFlight, storage, locals, history
  <1>29. ASSUME NEW s \in Sessions, Elsewhere(s)
         PROVE  Calm'
    BY <1>29 DEF Elsewhere, MayFail, Revoke, End, Spend, storage, locals
  <1>30. CASE UNCHANGED vars
    BY <1>30 DEF vars, storage, locals, history, contractVars
  <1> HIDE DEF Calm, IInv
  <1> QED
    BY <1>1, <1>2, <1>3, <1>4, <1>5, <1>6, <1>7, <1>8, <1>9, <1>10, <1>11, <1>12,
       <1>13, <1>14, <1>15, <1>16, <1>17, <1>18, <1>19, <1>20, <1>21, <1>22, <1>23,
       <1>24, <1>25, <1>26, <1>27, <1>28, <1>29, <1>30, ServeCases DEF Next, Start,
       Step, Refuse


\* A browser that has never signed in.
LEMMA InitInv ==
    ASSUME Init
    PROVE  IInv
  <1> USE PairOfCalls DEF Init, ContractInit
  <1>1. TypeOK /\ ServerTypes
    BY DEF TypeOK, Labels, Kinds, Mishaps, ServerTypes, Calls, Stages, Idle
  <1>2. Rows /\ Fresh
    BY DEF Rows, Known, Fresh, Idle
  <1>3. Frames /\ Retries
    BY DEF Frames, Frame, Retries, Idle
  <1>4. Alone
    BY DEF Alone, Solitary, InFlight, Refreshing
  <1>5. Ours
    BY DEF Ours, Solitary, InFlight, OwnTokens, Own, OnlyGoneFails, Gone
  <1>6. Calm
    BY DEF Calm, Refreshing, LoginBrings, OneUsable, Idle
  <1> QED
    BY <1>1, <1>2, <1>3, <1>4, <1>5, <1>6 DEF IInv

\* The invariant of the browser's calls.
THEOREM Invariance == Spec => []IInv
  <1>1. Init => IInv
    BY InitInv
  <1>2. IInv /\ [Next]_vars => IInv'
    <2> SUFFICES ASSUME IInv, [Next]_vars
                 PROVE  IInv'
      OBVIOUS
    <2>1. TypeOK' /\ ServerTypes'
      BY TypesNext, ServerTypesNext
    <2>2. Rows' /\ Fresh' /\ Frames' /\ Retries'
      BY RowsNext, FreshNext, FramesNext, RetriesNext
    <2>3. Alone' /\ Ours' /\ Calm'
      BY AloneNext, OursNext, CalmNext
    <2> QED
      BY <2>1, <2>2, <2>3 DEF IInv
  <1> QED
    BY <1>1, <1>2, PTL DEF Spec

\* Storage and the variables of every call keep their types.
THEOREM TypeCorrect == Spec => []TypeOK
  <1>1. IInv => TypeOK
    BY DEF IInv
  <1> QED
    BY <1>1, Invariance, PTL

\* apiRequest's one refresh keeps a user signed in through any number of expiries,
\* by any number of calls in any number of tabs, while none of the four mishaps
\* has happened.
THEOREM StaysIn == Spec => []StaysSignedIn
  <1>1. IInv => StaysSignedIn
    <2> SUFFICES ASSUME IInv, Quiet, user # NoSession, mishaps = {}
                 PROVE  Usable(stored) /\ owner[stored] = user /\ ~Over(user)
      BY DEF StaysSignedIn
    <2>1. ~Leaving /\ Refreshing = {}
      BY DEF Quiet, InFlight, Leaving, Refreshing
    <2>2. Usable(stored) /\ ~Over(user)
      BY <2>1 DEF IInv, Calm, OneUsable
    <2>3. Own(stored)
      BY DEF IInv, Ours, OwnTokens
    <2> QED
      BY <2>2, <2>3 DEF Own, Usable
  <1> QED
    BY <1>1, Invariance, PTL

\* doLogout leaves nothing in storage that signs anybody in: not after a failed
\* request unless another call crossed it, and not after a crossing unless a
\* request failed.
THEOREM StaysOut == Spec => []SignedOutStaysOut
  <1>1. IInv => SignedOutStaysOut
    <2> SUFFICES ASSUME IInv, user = NoSession
                 PROVE  /\ mishaps \subseteq {"overlap", "failure"} => stored = NoToken
                        /\ mishaps \subseteq {"overlap", "signout"} =>
                              stored = NoToken \/ Over(owner[stored])
      BY DEF SignedOutStaysOut
    <2>1. mishaps \subseteq {"overlap", "failure"} => stored = NoToken
      BY DEF IInv, Alone
    <2>2. mishaps \subseteq {"overlap", "signout"} => Own(stored)
      BY DEF IInv, Ours, OwnTokens
    <2> QED
      BY <2>1, <2>2 DEF Own
  <1> QED
    BY <1>1, Invariance, PTL

-----------------------------------------------------------------------------
(* The browser and the contract.                                           *)

\* Ending sessions and withdrawing tokens is the contract's Revoke, whichever
\* they are.
LEMMA RevokeIsRevoke ==
    ASSUME NEW S, NEW T, ServerTypes, Revoke(S, T)
    PROVE  Revoke(Ended, Withdrawn)
  <1>1. End(Ended)
    BY DEF ServerTypes, Revoke, End, Ended
  <1>2. Spend(Withdrawn)
    BY DEF ServerTypes, Revoke, Spend, Withdrawn
  <1> QED
    BY <1>1, <1>2 DEF Revoke

\* A call whose stage changes is one of those that move.
LEMMA StageMoves ==
    ASSUME NEW c \in Requests, call'[c].at # call[c].at
    PROVE  c \in Moved
  BY DEF Moved

\* Every step of the browser is one the contract of refresh-token rotation allows
\* its callers and grants them, or none of the contract's business.
LEMMA ContractStep ==
    ASSUME IInv, [Next]_vars
    PROVE  [ContractNext]_contractVars
  <1> USE DEF IInv, ServerTypes
  <1>1. CASE UNCHANGED contractVars
    BY <1>1
  <1>2. ASSUME NEW c \in Requests, OpenSession(c)
        PROVE  ContractNext
    <2>1. PICK s \in Sessions : Open(c, s)
      BY <1>2, AnyIn DEF OpenSession
    <2>2. c \in Moved
      BY <2>1, StageMoves DEF Open, Move, At
    <2> QED
      BY <2>1, <2>2 DEF ContractNext
  <1>3. ASSUME NEW c \in Requests, Take(c)
        PROVE  ContractNext
    <2>1. c \in Moved
      BY <1>3, StageMoves DEF Take, Move, At
    <2> QED
      BY <1>3, <2>1 DEF ContractNext
  <1>4. ASSUME NEW c \in Requests, NEW n \in Unborn, Root(c, n) \/ Renew(c, n)
        PROVE  ContractNext
    <2>1. c \in Moved
      BY <1>4, StageMoves DEF Root, Renew, Bear, Move, At
    <2> QED
      BY <1>4, <2>1 DEF ContractNext, Unborn
  <1>5. ASSUME NEW c \in Requests, Deliver(c)
        PROVE  ContractNext
    <2>1. Answer(c)
      BY <1>5 DEF Deliver
    <2>2. c \in Moved
      BY <2>1, StageMoves DEF Answer, Done, Idle, At
    <2> QED
      BY <2>1, <2>2 DEF ContractNext
  <1>6. ASSUME NEW c \in Requests, RefuseUnusable(c, Tokens)
        PROVE  ContractNext
    <2>1. c \in Moved
      BY <1>6, StageMoves DEF RefuseUnusable, Done, Idle, At
    <2>2. RefuseUnusable(c, Withdrawn)
      BY <1>6 DEF RefuseUnusable, Spend, Withdrawn
    <2> QED
      BY <2>1, <2>2 DEF ContractNext
  <1>7. ASSUME NEW c \in Requests, RefuseRenewed(c, Tokens)
        PROVE  ContractNext
    <2>1. c \in Moved
      BY <1>7, StageMoves DEF RefuseRenewed, Done, Idle, At
    <2>2. RefuseRenewed(c, Withdrawn)
      BY <1>7 DEF RefuseRenewed, Spend, Withdrawn
    <2> QED
      BY <2>1, <2>2 DEF ContractNext
  <1>8. ASSUME NEW c \in Requests, TryRefresh(c), stored # NoToken
        PROVE  ContractNext
    <2>1. Ask(c, stored, FALSE) /\ stored \in held \union {NoToken}
      BY <1>8 DEF TryRefresh, Rows, Known
    <2>2. c \in Moved
      BY <2>1, StageMoves DEF Ask, At
    <2> QED
      BY <2>1, <2>2 DEF ContractNext
  <1>9. ASSUME NEW c \in Requests, FailInside(c)
        PROVE  ContractNext
    <2>1. Crash(c)
      BY <1>9 DEF FailInside
    <2>2. c \in Moved
      BY <2>1, StageMoves DEF Crash, Done, Idle, At
    <2> QED
      BY <2>1, <2>2 DEF ContractNext
  <1>10. ASSUME NEW c \in Requests, AcceptLogout(c)
         PROVE  ContractNext
    BY <1>10, RevokeIsRevoke DEF AcceptLogout, ContractNext
  <1>11. ASSUME NEW s \in Sessions, Elsewhere(s)
         PROVE  ContractNext
    BY <1>11, RevokeIsRevoke DEF Elsewhere, ContractNext
  <1> QED
    BY <1>1, <1>2, <1>3, <1>4, <1>5, <1>6, <1>7, <1>8, <1>9, <1>10, <1>11, ServerSteps

\* The browser and its servers together behave as RefreshContract says: the client
\* only ever asks with a token that a server has answered with, and its model of
\* the servers does nothing the contract, which SessionTokens implements, does not
\* allow.
THEOREM ClientKeepsContract == Spec => Contract
  <1>1. Init => ContractInit
    BY DEF Init
  <1>2. IInv /\ [Next]_vars => [ContractNext]_contractVars
    BY ContractStep
  <1> QED
    BY <1>1, <1>2, Invariance, PTL DEF Spec, Contract

=============================================================================
