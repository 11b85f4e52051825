------------------------ MODULE SessionTokensProofs ------------------------
(***************************************************************************)
(* Proofs about SessionTokens, for every set of requests, sessions,        *)
(* tokens, users and clients, with and without aborts and expiry.          *)
(*                                                                         *)
(* The inductive invariant IInv has three layers, each proved from the     *)
(* ones before: Base (types, the foreign keys of the two tables, what a    *)
(* handler's local variables hold at each statement), Chain (rotation)     *)
(* and Verdict (what the cache and a handler's copy of the session row     *)
(* say about the row itself).  Aftermath adds what a handler between two   *)
(* statements still owes: on it rest the theorem about logout and the      *)
(* refinement of RefreshContract.                                          *)
(***************************************************************************)
EXTENDS SessionTokens, TLAPS

\* Rows: an issued token belongs to an existing session and to a family whose
\* root was issued; a token not yet issued occurs in no column.
Rows ==
    /\ \A t \in Tokens : tokStatus[t] # "none" =>
          /\ tokSession[t] \in Sessions
          /\ sessStatus[tokSession[t]] # "none"
          /\ tokFamily[t] \in Tokens
          /\ tokStatus[tokFamily[t]] # "none"
    /\ \A t \in Tokens : tokStatus[t] = "none" =>
          tokFamily[t] = NoToken /\ tokPrev[t] = NoToken
    /\ \A t \in Tokens : tokPrev[t] # NoToken => tokStatus[tokPrev[t]] # "none"
    /\ \A t \in held : tokStatus[t] # "none"

\* The statements that use the token presented, the session addressed, the
\* ones shared by refreshes (with a token) and answered challenges (without),
\* and the ones after the insertion of the token to be returned.
TokenLabels == {"issueNext", "reuseFamily", "reuseSession", "auditReuse", "mismatch",
                "revokeByToken"}
SessionLabels == {"issueRoot", "createChallenge", "answered", "attemptBack",
                  "revokeSession", "revokeTokens", "dropCache"}
CheckLabels == {"findById", "loadFresh", "setCache", "sessionDead"}
IssuedLabels == {"findById", "loadFresh", "setCache", "respond"}

Frames ==
    \A r \in Requests :
        /\ tok[r] # NoToken => tokStatus[tok[r]] # "none"
        /\ pc[r] \in TokenLabels => tok[r] # NoToken
        /\ pc[r] \in SessionLabels => sess[r] \in Sessions /\ sessStatus[sess[r]] # "none"
        /\ pc[r] \in CheckLabels \union {"respond"} /\ tok[r] = NoToken =>
              sess[r] \in Sessions /\ sessStatus[sess[r]] # "none"
        /\ pc[r] \in IssuedLabels /\ (pc[r] = "respond" \/ tok[r] # NoToken) =>
              nxt[r] \in Tokens /\ tokStatus[nxt[r]] # "none"
        /\ pc[r] \in {"issueRoot", "answered"} => tok[r] = NoToken
        /\ pc[r] = "idle" => tok[r] = NoToken /\ late[r] = FALSE

\* access tokens and challenges name sessions that exist
AccessRows ==
    /\ \A s \in access : sessStatus[s] # "none"
    /\ \A s \in challenged : sessStatus[s] # "none"

Base == TypeOK /\ Rows /\ Frames /\ AccessRows

\* A token an insert is pending for, and every token with a successor, is spent.
Spent ==
    /\ \A r \in Requests : pc[r] = "issueNext" =>
          /\ tokStatus[tok[r]] # "active"
          /\ \A u \in Tokens : tokPrev[u] # tok[r]
    /\ \A u \in Tokens : tokPrev[u] # NoToken => tokStatus[tokPrev[u]] # "active"

Chain == OneLivePerFamily /\ SingleSuccessor /\ Spent

\* Once something says a session is revoked, it is; a handler that arrived late
\* knows nothing else.
Verdict ==
    /\ \A s \in Sessions : cache[s] = "revoked" => sessStatus[s] = "revoked"
    /\ \A r \in Requests : pc[r] = "setCache" =>
          /\ seen[r] # "none"
          /\ seen[r] = "revoked" => sessStatus[Subject(r)] = "revoked"
          /\ late[r] => seen[r] = "revoked"
    /\ \A r \in Requests : late[r] =>
          Subject(r) \in Sessions /\ sessStatus[Subject(r)] = "revoked"
    /\ NoMintAfterRevocation
    /\ LiveSessionNotRefused

IInv == Base /\ Chain /\ Verdict

-----------------------------------------------------------------------------

\* The initial state, with empty tables and no request, satisfies everything.
LEMMA IInvInit == Init => IInv
  <1> SUFFICES ASSUME Init PROVE IInv
    OBVIOUS
  <1> USE NullsAreNew DEF Init
  <1>1. Base
    BY DEF Base, TypeOK, Rows, Frames, AccessRows, SessionStates, Reasons,
           TokenStates, Labels, TokenLabels, SessionLabels, IssuedLabels, CheckLabels
  <1>2. Chain
    BY DEF Chain, OneLivePerFamily, SingleSuccessor, Spent, Issued
  <1>3. Verdict
    BY DEF Verdict, NoMintAfterRevocation, LiveSessionNotRefused, Subject
  <1> QED
    BY <1>1, <1>2, <1>3 DEF IInv

\* Every step keeps the types, the foreign keys and the handlers' frames.
LEMMA BaseNext ==
    ASSUME Base, [Next]_vars
    PROVE  Base'
  <1> USE NullsAreNew DEF Base, TypeOK, Rows, Frames, AccessRows, TokenLabels,
          SessionLabels, IssuedLabels, CheckLabels, SessionStates, Reasons, TokenStates,
          Labels, sessionRow, redis, tokenKeys, outside, locals
  <1>1. ASSUME NEW r \in Requests, Start(r)
        PROVE  Base'
    <2>1. CASE \E u \in Users, s \in Sessions, c \in Clients \union {NoClient} : CreateSession(r, u, s, c)
      BY <2>1 DEF CreateSession, NewSession, Goto
    <2>2. CASE \E t \in held \union {NoToken}, c \in Clients \union {NoClient} : Refresh(r, t, c)
      BY <2>2 DEF Refresh, Goto
    <2>3. CASE \E s \in Sessions, t \in held \union {NoToken} : Logout(r, s, t)
      BY <2>3 DEF Logout, Goto
    <2>4. CASE \E t \in held : RevokeRefresh(r, t)
      BY <2>4 DEF RevokeRefresh, Goto
    <2>5. CASE \E u \in Users : RevokeAll(r, u)
      BY <2>5 DEF RevokeAll, Goto
    <2>6. CASE \E u \in Users, s \in Sessions : CreateStepUp(r, u, s)
      BY <2>6 DEF CreateStepUp, NewSession, Goto
    <2>7. CASE \E s \in Sessions : RightCode(r, s)
      BY <2>7 DEF RightCode, Answer, Goto
    <2>8. CASE \E s \in Sessions : WrongCode(r, s)
      BY <2>8 DEF WrongCode, Answer, Goto
    <2> QED
      BY <1>1, <2>1, <2>2, <2>3, <2>4, <2>5, <2>6, <2>7, <2>8 DEF Start
  <1>2. ASSUME NEW r \in Requests, Step(r)
        PROVE  Base'
    <2>1. CASE \E n \in Tokens : IssueRoot(r, n)
      BY <2>1 DEF IssueRoot, Issue, Goto, Fresh
    <2>2. CASE Respond(r)
      <3>1. TypeOK'
        BY <2>2 DEF Respond, Return, Goto, Subject
      <3>2. Rows'
        BY <2>2 DEF Respond, Return, Goto, Subject
      <3>3. Frames'
        BY <2>2 DEF Respond, Return, Goto, Subject
      <3>4. AccessRows'
        BY <2>2 DEF Respond, Return, Goto, Subject
      <3> QED
        BY <3>1, <3>2, <3>3, <3>4
    <2>3. CASE Consume(r)
      BY <2>3 DEF Consume, Goto, Consumable
    <2>4. CASE UnknownToken(r)
      BY <2>4 DEF UnknownToken, Return, Goto
    <2>5. CASE KnownToken(r)
      BY <2>5 DEF KnownToken, Goto
    <2>6. CASE ReuseFamily(r)
      BY <2>6 DEF ReuseFamily, RevokeTokens, Goto
    <2>7. CASE ReuseSession(r)
      <3>1. /\ RevokeSessions({tokSession[tok[r]]}, "refresh_token_reuse")
            /\ UNCHANGED <<tokStatus, tokenKeys, expired, redis, outside>>
            /\ pc[r] = "reuseSession"
        BY <2>7 DEF ReuseSession
      <3>2. CASE Goto(r, "auditReuse") /\ UNCHANGED locals
        BY <3>1, <3>2 DEF RevokeSessions, Goto
      <3>3. CASE Return(r)
        BY <3>1, <3>3 DEF RevokeSessions, Return, Goto
      <3> QED
        BY <2>7, <3>2, <3>3 DEF ReuseSession
    <2>8. CASE AuditReuse(r)
      BY <2>8 DEF AuditReuse, Return, Goto
    <2>9. CASE \E n \in Tokens : IssueNext(r, n)
      BY <2>9 DEF IssueNext, Issue, Goto, Fresh
    <2>10. CASE ClientMismatch(r)
      BY <2>10 DEF ClientMismatch, RevokeTokens, Return, Goto
    <2>11. CASE FindById(r)
      BY <2>11 DEF FindById, Subject, Goto
    <2>12. CASE LoadFresh(r)
      BY <2>12 DEF LoadFresh, Subject, Goto
    <2>13. CASE SetCache(r)
      BY <2>13 DEF SetCache, Accepted, Subject, Goto
    <2>14. CASE SessionDead(r)
      BY <2>14 DEF SessionDead, RevokeTokens, Return, Goto
    <2>15. CASE ScopeExceeded(r)
      BY <2>15 DEF ScopeExceeded, Return, Goto
    <2>16. CASE RevokeSession(r)
      BY <2>16 DEF RevokeSession, RevokeSessions, Goto
    <2>17. CASE RevokeSessionTokens(r)
      BY <2>17 DEF RevokeSessionTokens, RevokeTokens, Goto
    <2>18. CASE DropCache(r)
      <3>1. /\ cache' = [cache EXCEPT ![sess[r]] = "none"]
            /\ UNCHANGED <<sessionRow, tokStatus, tokenKeys, expired, challenged, outside>>
            /\ pc[r] = "dropCache"
        BY <2>18 DEF DropCache
      <3>2. CASE Return(r)
        BY <3>1, <3>2 DEF Return, Goto
      <3>3. CASE tok[r] # NoToken /\ Goto(r, "revokeByToken") /\ UNCHANGED locals
        BY <3>1, <3>3 DEF Goto
      <3> QED
        BY <2>18, <3>2, <3>3 DEF DropCache
    <2>19. CASE RevokeByToken(r)
      BY <2>19 DEF RevokeByToken, RevokeTokens, Return, Goto
    <2>20. CASE RevokeAllSessions(r)
      BY <2>20 DEF RevokeAllSessions, RevokeSessions, Goto
    <2>21. CASE RevokeAllTokens(r)
      BY <2>21 DEF RevokeAllTokens, RevokeTokens, Goto
    <2>22. CASE DropAllCache(r)
      BY <2>22 DEF DropAllCache, Return, Goto
    <2>23. CASE CreateChallenge(r)
      BY <2>23 DEF CreateChallenge, Return, Goto
    <2>24. CASE DeleteChallenge(r)
      BY <2>24 DEF DeleteChallenge, Goto
    <2>25. CASE WriteAttempt(r)
      BY <2>25 DEF WriteAttempt, Return, Goto
    <2> HIDE DEF Base
    <2> QED
      BY <1>2, <2>1, <2>2, <2>3, <2>4, <2>5, <2>6, <2>7, <2>8, <2>9, <2>10,
         <2>11, <2>12, <2>13, <2>14, <2>15, <2>16, <2>17, <2>18, <2>19, <2>20,
         <2>21, <2>22, <2>23, <2>24, <2>25 DEF Step
  <1>3. ASSUME NEW r \in Requests, Abort(r)
        PROVE  Base'
    BY <1>3 DEF Abort, Return, Goto
  <1>4. ASSUME NEW t \in Tokens, ExpireToken(t)
        PROVE  Base'
    BY <1>4 DEF ExpireToken
  <1>5. ASSUME NEW s \in Sessions, ExpireCache(s)
        PROVE  Base'
    BY <1>5 DEF ExpireCache
  <1>7. ASSUME NEW s \in Sessions, LoseChallenge(s)
        PROVE  Base'
    BY <1>7 DEF LoseChallenge
  <1>6. CASE UNCHANGED vars
    BY <1>6 DEF vars
  <1> QED
    BY <1>1, <1>2, <1>3, <1>4, <1>5, <1>6, <1>7 DEF Next

\* Every step keeps the families linear.  Consume is the only step that makes a
\* request an inserter, and it takes the one active token away in the same
\* statement.
LEMMA ChainNext ==
    ASSUME Base, Chain, [Next]_vars
    PROVE  Chain'
  <1> USE NullsAreNew DEF Chain, OneLivePerFamily, SingleSuccessor, Spent,
          Issued, FamilyOf, Base, TypeOK, Rows, Frames, AccessRows,
          TokenLabels, SessionLabels, IssuedLabels, CheckLabels, sessionRow, redis, tokenKeys,
          outside, locals
  <1>1. ASSUME NEW r \in Requests, Start(r)
        PROVE  Chain'
    <2>1. CASE \E u \in Users, s \in Sessions, c \in Clients \union {NoClient} : CreateSession(r, u, s, c)
      BY <2>1 DEF CreateSession, NewSession, Goto
    <2>2. CASE \E t \in held \union {NoToken}, c \in Clients \union {NoClient} : Refresh(r, t, c)
      BY <2>2 DEF Refresh, Goto
    <2>3. CASE \E s \in Sessions, t \in held \union {NoToken} : Logout(r, s, t)
      BY <2>3 DEF Logout, Goto
    <2>4. CASE \E t \in held : RevokeRefresh(r, t)
      BY <2>4 DEF RevokeRefresh, Goto
    <2>5. CASE \E u \in Users : RevokeAll(r, u)
      BY <2>5 DEF RevokeAll, Goto
    <2>6. CASE \E u \in Users, s \in Sessions : CreateStepUp(r, u, s)
      BY <2>6 DEF CreateStepUp, NewSession, Goto
    <2>7. CASE \E s \in Sessions : RightCode(r, s)
      BY <2>7 DEF RightCode, Answer, Goto
    <2>8. CASE \E s \in Sessions : WrongCode(r, s)
      BY <2>8 DEF WrongCode, Answer, Goto
    <2> QED
      BY <1>1, <2>1, <2>2, <2>3, <2>4, <2>5, <2>6, <2>7, <2>8 DEF Start
  <1>2. ASSUME NEW r \in Requests, Step(r)
        PROVE  Chain'
    <2>1. CASE \E n \in Tokens : IssueRoot(r, n)
      BY <2>1 DEF IssueRoot, Issue, Goto, Fresh
    <2>2. CASE Respond(r)
      BY <2>2 DEF Respond, Return, Goto, Subject
    <2>3. CASE Consume(r)
      <3>1. CASE Consumable(tok[r])
        <4>1. /\ tok[r] \in Tokens /\ tokStatus[tok[r]] = "active"
              /\ tokStatus' = [tokStatus EXCEPT ![tok[r]] = "rotated"]
              /\ pc' = [pc EXCEPT ![r] = "issueNext"]
              /\ UNCHANGED <<tokenKeys, locals>>
          BY <2>3, <3>1 DEF Consume, Goto, Consumable
        <4>2. OneLivePerFamily'
          BY <4>1
        <4>3. SingleSuccessor'
          BY <4>1
        <4>4. Spent'
          BY <4>1
        <4> QED
          BY <4>2, <4>3, <4>4
      <3>2. CASE ~Consumable(tok[r])
        <4>1. /\ pc' = [pc EXCEPT ![r] = "known"]
              /\ UNCHANGED <<tokStatus, tokenKeys, locals>>
          BY <2>3, <3>2 DEF Consume, Goto
        <4> QED
          BY <4>1
      <3> QED
        BY <3>1, <3>2
    <2>4. CASE UnknownToken(r)
      BY <2>4 DEF UnknownToken, Return, Goto
    <2>5. CASE KnownToken(r)
      BY <2>5 DEF KnownToken, Goto
    <2>6. CASE ReuseFamily(r)
      BY <2>6 DEF ReuseFamily, RevokeTokens, Goto
    <2>7. CASE ReuseSession(r)
      <3>1. /\ RevokeSessions({tokSession[tok[r]]}, "refresh_token_reuse")
            /\ UNCHANGED <<tokStatus, tokenKeys, expired, redis, outside>>
            /\ pc[r] = "reuseSession"
        BY <2>7 DEF ReuseSession
      <3>2. CASE Goto(r, "auditReuse") /\ UNCHANGED locals
        BY <3>1, <3>2 DEF RevokeSessions, Goto
      <3>3. CASE Return(r)
        BY <3>1, <3>3 DEF RevokeSessions, Return, Goto
      <3> QED
        BY <2>7, <3>2, <3>3 DEF ReuseSession
    <2>8. CASE AuditReuse(r)
      BY <2>8 DEF AuditReuse, Return, Goto
    <2>9. CASE \E n \in Tokens : IssueNext(r, n)
      BY <2>9 DEF IssueNext, Issue, Goto, Fresh
    <2>10. CASE ClientMismatch(r)
      BY <2>10 DEF ClientMismatch, RevokeTokens, Return, Goto
    <2>11. CASE FindById(r)
      BY <2>11 DEF FindById, Subject, Goto
    <2>12. CASE LoadFresh(r)
      BY <2>12 DEF LoadFresh, Subject, Goto
    <2>13. CASE SetCache(r)
      BY <2>13 DEF SetCache, Accepted, Subject, Goto
    <2>14. CASE SessionDead(r)
      BY <2>14 DEF SessionDead, RevokeTokens, Return, Goto
    <2>15. CASE ScopeExceeded(r)
      BY <2>15 DEF ScopeExceeded, Return, Goto
    <2>16. CASE RevokeSession(r)
      BY <2>16 DEF RevokeSession, RevokeSessions, Goto
    <2>17. CASE RevokeSessionTokens(r)
      BY <2>17 DEF RevokeSessionTokens, RevokeTokens, Goto
    <2>18. CASE DropCache(r)
      <3>1. /\ cache' = [cache EXCEPT ![sess[r]] = "none"]
            /\ UNCHANGED <<sessionRow, tokStatus, tokenKeys, expired, challenged, outside>>
            /\ pc[r] = "dropCache"
        BY <2>18 DEF DropCache
      <3>2. CASE Return(r)
        BY <3>1, <3>2 DEF Return, Goto
      <3>3. CASE tok[r] # NoToken /\ Goto(r, "revokeByToken") /\ UNCHANGED locals
        BY <3>1, <3>3 DEF Goto
      <3> QED
        BY <2>18, <3>2, <3>3 DEF DropCache
    <2>19. CASE RevokeByToken(r)
      BY <2>19 DEF RevokeByToken, RevokeTokens, Return, Goto
    <2>20. CASE RevokeAllSessions(r)
      BY <2>20 DEF RevokeAllSessions, RevokeSessions, Goto
    <2>21. CASE RevokeAllTokens(r)
      BY <2>21 DEF RevokeAllTokens, RevokeTokens, Goto
    <2>22. CASE DropAllCache(r)
      BY <2>22 DEF DropAllCache, Return, Goto
    <2>23. CASE CreateChallenge(r)
      BY <2>23 DEF CreateChallenge, Return, Goto
    <2>24. CASE DeleteChallenge(r)
      BY <2>24 DEF DeleteChallenge, Goto
    <2>25. CASE WriteAttempt(r)
      BY <2>25 DEF WriteAttempt, Return, Goto
    <2> HIDE DEF Chain
    <2> QED
      BY <1>2, <2>1, <2>2, <2>3, <2>4, <2>5, <2>6, <2>7, <2>8, <2>9, <2>10,
         <2>11, <2>12, <2>13, <2>14, <2>15, <2>16, <2>17, <2>18, <2>19, <2>20,
         <2>21, <2>22, <2>23, <2>24, <2>25 DEF Step
  <1>3. ASSUME NEW r \in Requests, Abort(r)
        PROVE  Chain'
    BY <1>3 DEF Abort, Return, Goto
  <1>4. ASSUME NEW t \in Tokens, ExpireToken(t)
        PROVE  Chain'
    BY <1>4 DEF ExpireToken
  <1>5. ASSUME NEW s \in Sessions, ExpireCache(s)
        PROVE  Chain'
    BY <1>5 DEF ExpireCache
  <1>7. ASSUME NEW s \in Sessions, LoseChallenge(s)
        PROVE  Chain'
    BY <1>7 DEF LoseChallenge
  <1>6. CASE UNCHANGED vars
    BY <1>6 DEF vars
  <1> QED
    BY <1>1, <1>2, <1>3, <1>4, <1>5, <1>6, <1>7 DEF Next

\* Every step keeps the verdicts true: sessions are never un-revoked, and only
\* what loadFresh read reaches the cache.
LEMMA VerdictNext ==
    ASSUME Base, Verdict, [Next]_vars
    PROVE  Verdict'
  <1> USE NullsAreNew DEF Verdict, NoMintAfterRevocation,
          LiveSessionNotRefused, Subject, SessionStates, FamilyOf, Base, TypeOK, Rows,
          Frames, AccessRows, TokenLabels, SessionLabels, IssuedLabels, CheckLabels,
          sessionRow, redis, tokenKeys, outside, locals
  <1>1. ASSUME NEW r \in Requests, Start(r)
        PROVE  Verdict'
    <2>1. CASE \E u \in Users, s \in Sessions, c \in Clients \union {NoClient} : CreateSession(r, u, s, c)
      BY <2>1 DEF CreateSession, NewSession, Goto
    <2>2. CASE \E t \in held \union {NoToken}, c \in Clients \union {NoClient} : Refresh(r, t, c)
      BY <2>2 DEF Refresh, Goto
    <2>3. CASE \E s \in Sessions, t \in held \union {NoToken} : Logout(r, s, t)
      BY <2>3 DEF Logout, Goto
    <2>4. CASE \E t \in held : RevokeRefresh(r, t)
      BY <2>4 DEF RevokeRefresh, Goto
    <2>5. CASE \E u \in Users : RevokeAll(r, u)
      BY <2>5 DEF RevokeAll, Goto
    <2>6. CASE \E u \in Users, s \in Sessions : CreateStepUp(r, u, s)
      BY <2>6 DEF CreateStepUp, NewSession, Goto
    <2>7. CASE \E s \in Sessions : RightCode(r, s)
      BY <2>7 DEF RightCode, Answer, Goto
    <2>8. CASE \E s \in Sessions : WrongCode(r, s)
      BY <2>8 DEF WrongCode, Answer, Goto
    <2> QED
      BY <1>1, <2>1, <2>2, <2>3, <2>4, <2>5, <2>6, <2>7, <2>8 DEF Start
  <1>2. ASSUME NEW r \in Requests, Step(r)
        PROVE  Verdict'
    <2>1. CASE \E n \in Tokens : IssueRoot(r, n)
      BY <2>1 DEF IssueRoot, Issue, Goto, Fresh
    <2>2. CASE Respond(r)
      BY <2>2 DEF Respond, Return, Goto, Subject
    <2>3. CASE Consume(r)
      BY <2>3 DEF Consume, Goto, Consumable
    <2>4. CASE UnknownToken(r)
      BY <2>4 DEF UnknownToken, Return, Goto
    <2>5. CASE KnownToken(r)
      BY <2>5 DEF KnownToken, Goto
    <2>6. CASE ReuseFamily(r)
      BY <2>6 DEF ReuseFamily, RevokeTokens, Goto
    <2>7. CASE ReuseSession(r)
      BY <2>7 DEF ReuseSession, RevokeSessions, Return, Goto
    <2>8. CASE AuditReuse(r)
      BY <2>8 DEF AuditReuse, Return, Goto
    <2>9. CASE \E n \in Tokens : IssueNext(r, n)
      BY <2>9 DEF IssueNext, Issue, Goto, Fresh
    <2>10. CASE ClientMismatch(r)
      BY <2>10 DEF ClientMismatch, RevokeTokens, Return, Goto
    <2>11. CASE FindById(r)
      BY <2>11 DEF FindById, Subject, Goto
    <2>12. CASE LoadFresh(r)
      BY <2>12 DEF LoadFresh, Subject, Goto
    <2>13. CASE SetCache(r)
      BY <2>13 DEF SetCache, Accepted, Subject, Goto
    <2>14. CASE SessionDead(r)
      BY <2>14 DEF SessionDead, RevokeTokens, Return, Goto
    <2>15. CASE ScopeExceeded(r)
      BY <2>15 DEF ScopeExceeded, Return, Goto
    <2>16. CASE RevokeSession(r)
      BY <2>16 DEF RevokeSession, RevokeSessions, Goto
    <2>17. CASE RevokeSessionTokens(r)
      BY <2>17 DEF RevokeSessionTokens, RevokeTokens, Goto
    <2>18. CASE DropCache(r)
      BY <2>18 DEF DropCache, Return, Goto
    <2>19. CASE RevokeByToken(r)
      BY <2>19 DEF RevokeByToken, RevokeTokens, Return, Goto
    <2>20. CASE RevokeAllSessions(r)
      BY <2>20 DEF RevokeAllSessions, RevokeSessions, Goto
    <2>21. CASE RevokeAllTokens(r)
      BY <2>21 DEF RevokeAllTokens, RevokeTokens, Goto
    <2>22. CASE DropAllCache(r)
      BY <2>22 DEF DropAllCache, Return, Goto
    <2>23. CASE CreateChallenge(r)
      BY <2>23 DEF CreateChallenge, Return, Goto
    <2>24. CASE DeleteChallenge(r)
      BY <2>24 DEF DeleteChallenge, Goto
    <2>25. CASE WriteAttempt(r)
      BY <2>25 DEF WriteAttempt, Return, Goto
    <2> HIDE DEF Verdict
    <2> QED
      BY <1>2, <2>1, <2>2, <2>3, <2>4, <2>5, <2>6, <2>7, <2>8, <2>9, <2>10,
         <2>11, <2>12, <2>13, <2>14, <2>15, <2>16, <2>17, <2>18, <2>19, <2>20,
         <2>21, <2>22, <2>23, <2>24, <2>25 DEF Step
  <1>3. ASSUME NEW r \in Requests, Abort(r)
        PROVE  Verdict'
    BY <1>3 DEF Abort, Return, Goto
  <1>4. ASSUME NEW t \in Tokens, ExpireToken(t)
        PROVE  Verdict'
    BY <1>4 DEF ExpireToken
  <1>5. ASSUME NEW s \in Sessions, ExpireCache(s)
        PROVE  Verdict'
    BY <1>5 DEF ExpireCache
  <1>7. ASSUME NEW s \in Sessions, LoseChallenge(s)
        PROVE  Verdict'
    BY <1>7 DEF LoseChallenge
  <1>6. CASE UNCHANGED vars
    BY <1>6 DEF vars
  <1> QED
    BY <1>1, <1>2, <1>3, <1>4, <1>5, <1>6, <1>7 DEF Next

\* No step undoes a revocation or a rotation: the statements that write a status
\* either insert a new row or move an existing one forward.
LEMMA StepNeverUndoes ==
    ASSUME Base, [Next]_vars
    PROVE  NeverUndone
  <1> USE NullsAreNew DEF NeverUndone, sessionRow
  <1>t. tokStatus \in [Tokens -> TokenStates] /\ sessStatus \in [Sessions -> SessionStates]
    BY DEF Base, TypeOK
  <1>0. CASE UNCHANGED <<sessStatus, sessReason, tokStatus>>
    BY <1>0
  <1>1. ASSUME NEW r \in Requests, Start(r)
        PROVE  NeverUndone
    <2>1. CASE \E u \in Users, s \in Sessions, c \in Clients \union {NoClient} :
                  CreateSession(r, u, s, c)
      BY <1>t, <2>1 DEF CreateSession, NewSession
    <2>2. CASE \E u \in Users, s \in Sessions : CreateStepUp(r, u, s)
      BY <1>t, <2>2 DEF CreateStepUp, NewSession
    <2> QED
      BY <1>0, <1>1, <2>1, <2>2
         DEF Start, RightCode, WrongCode, Answer, Refresh, Logout, RevokeRefresh, RevokeAll
  <1>2. ASSUME NEW r \in Requests, Step(r)
        PROVE  NeverUndone
    <2>1. CASE \E n \in Tokens : IssueRoot(r, n) \/ IssueNext(r, n)
      BY <1>t, <2>1 DEF IssueRoot, IssueNext, Issue, Fresh
    <2>2. CASE Consume(r)
      BY <1>t, <2>2 DEF Consume, Consumable
    <2>3. CASE ReuseFamily(r) \/ ClientMismatch(r) \/ SessionDead(r) \/ RevokeByToken(r)
      BY <1>t, <2>3
         DEF ReuseFamily, ClientMismatch, SessionDead, RevokeByToken, RevokeTokens
    <2>4. CASE RevokeSessionTokens(r) \/ RevokeAllTokens(r)
      BY <1>t, <2>4 DEF RevokeSessionTokens, RevokeAllTokens, RevokeTokens
    <2>5. CASE ReuseSession(r)
      BY <1>t, <2>5 DEF ReuseSession, RevokeSessions
    <2>6. CASE RevokeSession(r) \/ RevokeAllSessions(r)
      BY <1>t, <2>6 DEF RevokeSession, RevokeAllSessions, RevokeSessions
    <2> QED
      BY <1>0, <1>2, <2>1, <2>2, <2>3, <2>4, <2>5, <2>6
         DEF Step, Respond, UnknownToken, KnownToken, AuditReuse, FindById, LoadFresh,
             SetCache, ScopeExceeded, DropCache, DropAllCache,
             CreateChallenge, DeleteChallenge, WriteAttempt
  <1>3. ASSUME NEW r \in Requests, Abort(r)
        PROVE  NeverUndone
    BY <1>0, <1>3 DEF Abort
  <1>4. CASE \/ \E t \in Tokens : ExpireToken(t)
             \/ \E s \in Sessions : ExpireCache(s) \/ LoseChallenge(s)
    BY <1>0, <1>4 DEF ExpireToken, ExpireCache, LoseChallenge
  <1>5. CASE UNCHANGED vars
    BY <1>0, <1>5 DEF vars
  <1> QED
    BY <1>1, <1>2, <1>3, <1>4, <1>5 DEF Next

-----------------------------------------------------------------------------

\* The inductive invariant holds in every reachable state.
THEOREM Invariance == Spec => []IInv
  <1>1. IInv /\ [Next]_vars => IInv'
    BY BaseNext, ChainNext, VerdictNext DEF IInv
  <1> QED
    BY <1>1, IInvInit, PTL DEF Spec

\* Every variable keeps its type; in particular no token is returned that was
\* not issued, and no session is addressed that does not exist.
THEOREM TypeCorrect == Spec => []TypeOK
  <1>1. IInv => TypeOK
    BY DEF IInv, Base
  <1> QED
    BY <1>1, Invariance, PTL

\* Refresh-token rotation is single use under every interleaving of consume:
\* no family ever has two active tokens.
THEOREM RotationIsSingleUse == Spec => []OneLivePerFamily
  <1>1. IInv => OneLivePerFamily
    BY DEF IInv, Chain
  <1> QED
    BY <1>1, Invariance, PTL

\* previous_token_id links every family into a chain.
THEOREM FamiliesAreChains == Spec => []SingleSuccessor
  <1>1. IInv => SingleSuccessor
    BY DEF IInv, Chain
  <1> QED
    BY <1>1, Invariance, PTL

\* A refresh that arrives after its session was revoked is never answered with
\* an access token.
THEOREM NoLateMint == Spec => []NoMintAfterRevocation
  <1>1. IInv => NoMintAfterRevocation
    BY DEF IInv, Verdict
  <1> QED
    BY <1>1, Invariance, PTL

\* findById turns a refresh away only when the session is over in the database.
THEOREM NoFalseRefusal == Spec => []LiveSessionNotRefused
  <1>1. IInv => LiveSessionNotRefused
    BY DEF IInv, Verdict
  <1> QED
    BY <1>1, Invariance, PTL

\* No step brings back what another one revoked or spent.
THEOREM RevocationsStay == Spec => RevocationIsFinal
  <1>1. IInv /\ [Next]_vars => [NeverUndone]_vars
    BY StepNeverUndoes DEF IInv
  <1> QED
    BY <1>1, Invariance, PTL DEF Spec, RevocationIsFinal

-----------------------------------------------------------------------------
(* Logins and logouts: what is still to come while a                       *)
(* handler is between two statements.                                      *)

\* What the contract of RefreshContract needs to know of a handler beyond Base:
\* a slot that serves no login and no refresh has issued nothing, the token
\* to be returned belongs to the session the access token will name, and a
\* token once found unusable stays so.  Only sessions opened for a second
\* factor have challenges.
ReuseLabels == {"known", "reuseFamily", "reuseSession", "auditReuse"}

Slots ==
    /\ \A r \in Requests :
          /\ pc[r] = "idle" => sess[r] = NoSession
          /\ ~IsCall(r) => nxt[r] = NoToken /\ late[r] = FALSE
          /\ pc[r] \in CheckLabels \union {"answered", "issueRoot"} /\ tok[r] = NoToken =>
                nxt[r] = NoToken
          /\ pc[r] \in IssuedLabels /\ (pc[r] = "respond" \/ tok[r] # NoToken) =>
                tokSession[nxt[r]] = Subject(r)
          /\ pc[r] \in ReuseLabels => ~Consumable(tok[r])
          /\ pc[r] = "auditReuse" => sessStatus[tokSession[tok[r]]] = "revoked"
          /\ pc[r] = "mismatch" => cli[r] # NoClient
          /\ pc[r] \in {"createChallenge", "attemptBack"} => sess[r] \in stepUp
    /\ \A t, u \in Issued : tokFamily[t] = tokFamily[u] => tokSession[t] = tokSession[u]
    /\ challenged \subseteq stepUp

\* A session with a token has a root, so a session somebody got an access token
\* for has one; logouts are of such sessions only.
LogoutLabels == {"revokeSession", "revokeTokens", "dropCache"}

Openings ==
    /\ \A t \in Issued : \E u \in Tokens : Root(u) /\ tokSession[u] = tokSession[t]
    /\ \A s \in access : \E u \in Tokens : Root(u) /\ tokSession[u] = s
    /\ \A r \in Requests : pc[r] \in LogoutLabels => sess[r] \in access
    /\ \A s \in Sessions :
          /\ sessReason[s] = "logout" => s \in access
          /\ sessReason[s] # "none" => sessStatus[s] = "revoked"

\* t is not the only root of its session.
Twin(t) == Root(t) /\ \E u \in InSession(tokSession[t]) \ {t} : Root(u)

\* An active token of a session that was logged out is about to be revoked by
\* the logout, or is one of two roots, or is on its way to a refresh that will
\* be refused.
LoggedOut ==
    ~MayAbort => \A t \in Tokens :
        tokStatus[t] = "active" /\ sessReason[tokSession[t]] = "logout" =>
            \/ \E r \in Requests : pc[r] = "revokeTokens" /\ sess[r] = tokSession[t]
            \/ Twin(t)
            \/ /\ t \notin held
               /\ \A q \in Requests : nxt[q] = t =>
                     pc[q] # "respond" /\ ~(pc[q] = "setCache" /\ seen[q] = "active")

Aftermath == Slots /\ Openings /\ LoggedOut

\* Every step keeps the slots: a token's session and a family's session never
\* change, and no statement makes a spent token active.
LEMMA SlotsNext ==
    ASSUME Base, Slots, [Next]_vars
    PROVE  Slots'
  <1> USE NullsAreNew DEF
          Slots, ReuseLabels, Issued, IsCall, Subject, Consumable, FamilyOf,
          SessionStates, Base, TypeOK, Rows, Frames, AccessRows, TokenLabels,
          SessionLabels, IssuedLabels, CheckLabels, sessionRow, redis, tokenKeys, outside, locals
  <1>1. ASSUME NEW r \in Requests, Start(r)
        PROVE  Slots'
    <2>1. CASE \E u \in Users, s \in Sessions, c \in Clients \union {NoClient} :
                  CreateSession(r, u, s, c)
      BY <2>1 DEF CreateSession, NewSession, Goto
    <2>2. CASE \E t \in held \union {NoToken}, c \in Clients \union {NoClient} : Refresh(r, t, c)
      BY <2>2 DEF Refresh, Goto
    <2>3. CASE \E s \in Sessions, t \in held \union {NoToken} : Logout(r, s, t)
      BY <2>3 DEF Logout, Goto
    <2>4. CASE \E t \in held : RevokeRefresh(r, t)
      BY <2>4 DEF RevokeRefresh, Goto
    <2>5. CASE \E u \in Users : RevokeAll(r, u)
      BY <2>5 DEF RevokeAll, Goto
    <2>6. CASE \E u \in Users, s \in Sessions : CreateStepUp(r, u, s)
      BY <2>6 DEF CreateStepUp, NewSession, Goto
    <2>7. CASE \E s \in Sessions : RightCode(r, s)
      BY <2>7 DEF RightCode, Answer, Goto
    <2>8. CASE \E s \in Sessions : WrongCode(r, s)
      BY <2>8 DEF WrongCode, Answer, Goto
    <2> QED
      BY <1>1, <2>1, <2>2, <2>3, <2>4, <2>5, <2>6, <2>7, <2>8 DEF Start
  <1>2. ASSUME NEW r \in Requests, Step(r)
        PROVE  Slots'
    <2>1. CASE \E n \in Tokens : IssueRoot(r, n)
      BY <2>1 DEF IssueRoot, Issue, Goto, Fresh
    <2>2. CASE Respond(r)
      BY <2>2 DEF Respond, Return, Goto, Subject
    <2>3. CASE Consume(r)
      BY <2>3 DEF Consume, Goto, Consumable
    <2>4. CASE UnknownToken(r)
      BY <2>4 DEF UnknownToken, Return, Goto
    <2>5. CASE KnownToken(r)
      BY <2>5 DEF KnownToken, Goto
    <2>6. CASE ReuseFamily(r)
      BY <2>6 DEF ReuseFamily, RevokeTokens, Goto
    <2>7. CASE ReuseSession(r)
      <3>1. /\ RevokeSessions({tokSession[tok[r]]}, "refresh_token_reuse")
            /\ UNCHANGED <<tokStatus, tokenKeys, expired, redis, outside>>
            /\ pc[r] = "reuseSession"
        BY <2>7 DEF ReuseSession
      <3>2. CASE cli[r] = NoClient /\ Goto(r, "auditReuse") /\ UNCHANGED locals
        BY <3>1, <3>2 DEF RevokeSessions, Goto
      <3>3. CASE cli[r] # NoClient /\ Return(r)
        BY <3>1, <3>3 DEF RevokeSessions, Return, Goto
      <3> QED
        BY <2>7, <3>2, <3>3 DEF ReuseSession
    <2>8. CASE AuditReuse(r)
      BY <2>8 DEF AuditReuse, Return, Goto
    <2>9. CASE \E n \in Tokens : IssueNext(r, n)
      BY <2>9 DEF IssueNext, Issue, Goto, Fresh
    <2>10. CASE ClientMismatch(r)
      BY <2>10 DEF ClientMismatch, RevokeTokens, Return, Goto
    <2>11. CASE FindById(r)
      BY <2>11 DEF FindById, Subject, Goto
    <2>12. CASE LoadFresh(r)
      BY <2>12 DEF LoadFresh, Subject, Goto
    <2>13. CASE SetCache(r)
      BY <2>13 DEF SetCache, Accepted, Subject, Goto
    <2>14. CASE SessionDead(r)
      BY <2>14 DEF SessionDead, RevokeTokens, Return, Goto
    <2>15. CASE ScopeExceeded(r)
      BY <2>15 DEF ScopeExceeded, Return, Goto
    <2>16. CASE RevokeSession(r)
      BY <2>16 DEF RevokeSession, RevokeSessions, Goto
    <2>17. CASE RevokeSessionTokens(r)
      BY <2>17 DEF RevokeSessionTokens, RevokeTokens, Goto
    <2>18. CASE DropCache(r)
      <3>1. /\ cache' = [cache EXCEPT ![sess[r]] = "none"]
            /\ UNCHANGED <<sessionRow, tokStatus, tokenKeys, expired, challenged, outside>>
            /\ pc[r] = "dropCache"
        BY <2>18 DEF DropCache
      <3>2. CASE Return(r)
        BY <3>1, <3>2 DEF Return, Goto
      <3>3. CASE tok[r] # NoToken /\ Goto(r, "revokeByToken") /\ UNCHANGED locals
        BY <3>1, <3>3 DEF Goto
      <3> QED
        BY <2>18, <3>2, <3>3 DEF DropCache
    <2>19. CASE RevokeByToken(r)
      BY <2>19 DEF RevokeByToken, RevokeTokens, Return, Goto
    <2>20. CASE RevokeAllSessions(r)
      BY <2>20 DEF RevokeAllSessions, RevokeSessions, Goto
    <2>21. CASE RevokeAllTokens(r)
      BY <2>21 DEF RevokeAllTokens, RevokeTokens, Goto
    <2>22. CASE DropAllCache(r)
      BY <2>22 DEF DropAllCache, Return, Goto
    <2>23. CASE CreateChallenge(r)
      BY <2>23 DEF CreateChallenge, Return, Goto
    <2>24. CASE DeleteChallenge(r)
      BY <2>24 DEF DeleteChallenge, Goto
    <2>25. CASE WriteAttempt(r)
      BY <2>25 DEF WriteAttempt, Return, Goto
    <2> HIDE DEF Slots
    <2> QED
      BY <1>2, <2>1, <2>2, <2>3, <2>4, <2>5, <2>6, <2>7, <2>8, <2>9, <2>10,
      <2>11, <2>12, <2>13, <2>14, <2>15, <2>16, <2>17, <2>18, <2>19, <2>20,
      <2>21, <2>22, <2>23, <2>24, <2>25 DEF Step
  <1>3. ASSUME NEW r \in Requests, Abort(r)
        PROVE  Slots'
    BY <1>3 DEF Abort, Return, Goto
  <1>4. ASSUME NEW t \in Tokens, ExpireToken(t)
        PROVE  Slots'
    BY <1>4 DEF ExpireToken
  <1>5. ASSUME NEW s \in Sessions, ExpireCache(s)
        PROVE  Slots'
    BY <1>5 DEF ExpireCache
  <1>7. ASSUME NEW s \in Sessions, LoseChallenge(s)
        PROVE  Slots'
    BY <1>7 DEF LoseChallenge
  <1>6. CASE UNCHANGED vars
    BY <1>6 DEF vars
  <1> QED
    BY <1>1, <1>2, <1>3, <1>4, <1>5, <1>6, <1>7 DEF Next

\* Every step keeps the openings: a session id is new when a login takes it, and
\* nothing but that login's own answer makes it known.
LEMMA OpeningsNext ==
    ASSUME Base, Slots, Openings, [Next]_vars
    PROVE  Openings'
  <1> USE NullsAreNew DEF
          Openings, LogoutLabels, Issued, Root, Subject, SessionStates,
          Reasons, Base, TypeOK, Rows, Frames, AccessRows, TokenLabels,
          SessionLabels, IssuedLabels, CheckLabels, sessionRow, redis, tokenKeys, outside, locals
  <1>1. ASSUME NEW r \in Requests, Start(r)
        PROVE  Openings'
    <2>1. CASE \E u \in Users, s \in Sessions, c \in Clients \union {NoClient} :
                  CreateSession(r, u, s, c)
      BY <2>1 DEF CreateSession, NewSession, Goto
    <2>2. CASE \E t \in held \union {NoToken}, c \in Clients \union {NoClient} : Refresh(r, t, c)
      BY <2>2 DEF Refresh, Goto
    <2>3. CASE \E s \in Sessions, t \in held \union {NoToken} : Logout(r, s, t)
      BY <2>3 DEF Logout, Goto
    <2>4. CASE \E t \in held : RevokeRefresh(r, t)
      BY <2>4 DEF RevokeRefresh, Goto
    <2>5. CASE \E u \in Users : RevokeAll(r, u)
      BY <2>5 DEF RevokeAll, Goto
    <2>6. CASE \E u \in Users, s \in Sessions : CreateStepUp(r, u, s)
      BY <2>6 DEF CreateStepUp, NewSession, Goto
    <2>7. CASE \E s \in Sessions : RightCode(r, s)
      BY <2>7 DEF RightCode, Answer, Goto
    <2>8. CASE \E s \in Sessions : WrongCode(r, s)
      BY <2>8 DEF WrongCode, Answer, Goto
    <2> QED
      BY <1>1, <2>1, <2>2, <2>3, <2>4, <2>5, <2>6, <2>7, <2>8 DEF Start
  <1>2. ASSUME NEW r \in Requests, Step(r)
        PROVE  Openings'
    <2>1. CASE \E n \in Tokens : IssueRoot(r, n)
      BY <2>1 DEF IssueRoot, Issue, Goto, Fresh
    <2>2. CASE Respond(r)
      <3>1. tokSession[nxt[r]] = Subject(r) /\ nxt[r] \in Issued
        BY <2>2 DEF Respond, Slots
      <3>2. PICK u \in Tokens : Root(u) /\ tokSession[u] = Subject(r)
        BY <3>1
      <3>3. /\ access' = access \union {Subject(r)}
            /\ pc' = [pc EXCEPT ![r] = "idle"]
            /\ sess' = [sess EXCEPT ![r] = NoSession]
            /\ UNCHANGED <<sessionRow, tokStatus, tokenKeys>>
        BY <2>2 DEF Respond, Return, Goto
      <3> QED
        BY <3>2, <3>3
    <2>3. CASE Consume(r)
      BY <2>3 DEF Consume, Goto, Consumable
    <2>4. CASE UnknownToken(r)
      BY <2>4 DEF UnknownToken, Return, Goto
    <2>5. CASE KnownToken(r)
      BY <2>5 DEF KnownToken, Goto
    <2>6. CASE ReuseFamily(r)
      BY <2>6 DEF ReuseFamily, RevokeTokens, Goto
    <2>7. CASE ReuseSession(r)
      <3>1. /\ RevokeSessions({tokSession[tok[r]]}, "refresh_token_reuse")
            /\ UNCHANGED <<tokStatus, tokenKeys, expired, redis, outside>>
            /\ pc[r] = "reuseSession"
        BY <2>7 DEF ReuseSession
      <3>2. CASE cli[r] = NoClient /\ Goto(r, "auditReuse") /\ UNCHANGED locals
        BY <3>1, <3>2 DEF RevokeSessions, Goto
      <3>3. CASE cli[r] # NoClient /\ Return(r)
        BY <3>1, <3>3 DEF RevokeSessions, Return, Goto
      <3> QED
        BY <2>7, <3>2, <3>3 DEF ReuseSession
    <2>8. CASE AuditReuse(r)
      BY <2>8 DEF AuditReuse, Return, Goto
    <2>9. ASSUME NEW n \in Tokens, IssueNext(r, n)
          PROVE  Openings'
      <3>1. tok[r] \in Issued /\ tokStatus[n] = "none"
        BY <2>9 DEF IssueNext, Fresh
      <3>2. PICK u \in Tokens : Root(u) /\ tokSession[u] = tokSession[tok[r]]
        BY <3>1
      <3>3. /\ tokStatus' = [tokStatus EXCEPT ![n] = "active"]
            /\ tokSession' = [tokSession EXCEPT ![n] = tokSession[tok[r]]]
            /\ tokPrev' = [tokPrev EXCEPT ![n] = tok[r]]
            /\ \E l \in {"findById", "mismatch"} : pc' = [pc EXCEPT ![r] = l]
            /\ UNCHANGED <<sessionRow, access, sess>>
        BY <2>9 DEF IssueNext, Issue, Goto
      <3>4. \A v \in Tokens : Root(v) => Root(v)' /\ tokSession'[v] = tokSession[v]
        BY <3>1, <3>3
      <3>5. Issued' = Issued \union {n} /\ tokSession'[n] = tokSession[tok[r]]
        BY <3>3
      <3>6. \A v \in Issued : tokSession'[v] = tokSession[v]
        BY <3>1, <3>3
      <3>7. \A v \in Issued' : \E w \in Tokens : Root(w)' /\ tokSession'[w] = tokSession'[v]
        <4> HIDE DEF Issued, Root
        <4> QED
          BY <3>2, <3>4, <3>5, <3>6
      <3>8. \A v \in access' : \E w \in Tokens : Root(w)' /\ tokSession'[w] = v
        <4> HIDE DEF Root
        <4> QED
          BY <3>3, <3>4
      <3>9. \A q \in Requests : pc'[q] \in LogoutLabels => sess'[q] \in access'
        BY <3>3
      <3> QED
        BY <3>3, <3>7, <3>8, <3>9
    <2>10. CASE ClientMismatch(r)
      BY <2>10 DEF ClientMismatch, RevokeTokens, Return, Goto
    <2>11. CASE FindById(r)
      BY <2>11 DEF FindById, Subject, Goto
    <2>12. CASE LoadFresh(r)
      BY <2>12 DEF LoadFresh, Subject, Goto
    <2>13. CASE SetCache(r)
      BY <2>13 DEF SetCache, Accepted, Subject, Goto
    <2>14. CASE SessionDead(r)
      BY <2>14 DEF SessionDead, RevokeTokens, Return, Goto
    <2>15. CASE ScopeExceeded(r)
      BY <2>15 DEF ScopeExceeded, Return, Goto
    <2>16. CASE RevokeSession(r)
      BY <2>16 DEF RevokeSession, RevokeSessions, Goto
    <2>17. CASE RevokeSessionTokens(r)
      BY <2>17 DEF RevokeSessionTokens, RevokeTokens, Goto
    <2>18. CASE DropCache(r)
      <3>1. /\ cache' = [cache EXCEPT ![sess[r]] = "none"]
            /\ UNCHANGED <<sessionRow, tokStatus, tokenKeys, expired, challenged, outside>>
            /\ pc[r] = "dropCache"
        BY <2>18 DEF DropCache
      <3>2. CASE Return(r)
        BY <3>1, <3>2 DEF Return, Goto
      <3>3. CASE tok[r] # NoToken /\ Goto(r, "revokeByToken") /\ UNCHANGED locals
        BY <3>1, <3>3 DEF Goto
      <3> QED
        BY <2>18, <3>2, <3>3 DEF DropCache
    <2>19. CASE RevokeByToken(r)
      BY <2>19 DEF RevokeByToken, RevokeTokens, Return, Goto
    <2>20. CASE RevokeAllSessions(r)
      BY <2>20 DEF RevokeAllSessions, RevokeSessions, Goto
    <2>21. CASE RevokeAllTokens(r)
      BY <2>21 DEF RevokeAllTokens, RevokeTokens, Goto
    <2>22. CASE DropAllCache(r)
      BY <2>22 DEF DropAllCache, Return, Goto
    <2>23. CASE CreateChallenge(r)
      BY <2>23 DEF CreateChallenge, Return, Goto
    <2>24. CASE DeleteChallenge(r)
      BY <2>24 DEF DeleteChallenge, Goto
    <2>25. CASE WriteAttempt(r)
      BY <2>25 DEF WriteAttempt, Return, Goto
    <2> HIDE DEF Openings
    <2> QED
      BY <1>2, <2>1, <2>2, <2>3, <2>4, <2>5, <2>6, <2>7, <2>8, <2>9, <2>10,
      <2>11, <2>12, <2>13, <2>14, <2>15, <2>16, <2>17, <2>18, <2>19, <2>20,
      <2>21, <2>22, <2>23, <2>24, <2>25 DEF Step
  <1>3. ASSUME NEW r \in Requests, Abort(r)
        PROVE  Openings'
    BY <1>3 DEF Abort, Return, Goto
  <1>4. ASSUME NEW t \in Tokens, ExpireToken(t)
        PROVE  Openings'
    BY <1>4 DEF ExpireToken
  <1>5. ASSUME NEW s \in Sessions, ExpireCache(s)
        PROVE  Openings'
    BY <1>5 DEF ExpireCache
  <1>7. ASSUME NEW s \in Sessions, LoseChallenge(s)
        PROVE  Openings'
    BY <1>7 DEF LoseChallenge
  <1>6. CASE UNCHANGED vars
    BY <1>6 DEF vars
  <1> QED
    BY <1>1, <1>2, <1>3, <1>4, <1>5, <1>6, <1>7 DEF Next

\* Every step keeps LoggedOut: a logout ends the session before it revokes the
\* tokens, so a refresh that renews one in between reads the session as revoked.
LEMMA LoggedOutNext ==
    ASSUME Base, Slots, Openings, LoggedOut, [Next]_vars
    PROVE  LoggedOut'
  <1> USE NullsAreNew DEF
          LoggedOut, Twin, Openings, LogoutLabels, Issued, Root, InSession,
          Subject, Base, TypeOK, Rows, Frames, AccessRows, TokenLabels,
          SessionLabels, IssuedLabels, CheckLabels, sessionRow, redis, tokenKeys, outside, locals
  <1>1. ASSUME NEW r \in Requests, Start(r)
        PROVE  LoggedOut'
    <2>1. CASE \E u \in Users, s \in Sessions, c \in Clients \union {NoClient} :
                  CreateSession(r, u, s, c)
      BY <2>1 DEF CreateSession, NewSession, Goto
    <2>2. CASE \E t \in held \union {NoToken}, c \in Clients \union {NoClient} : Refresh(r, t, c)
      BY <2>2 DEF Refresh, Goto
    <2>3. CASE \E s \in Sessions, t \in held \union {NoToken} : Logout(r, s, t)
      BY <2>3 DEF Logout, Goto
    <2>4. CASE \E t \in held : RevokeRefresh(r, t)
      BY <2>4 DEF RevokeRefresh, Goto
    <2>5. CASE \E u \in Users : RevokeAll(r, u)
      BY <2>5 DEF RevokeAll, Goto
    <2>6. CASE \E u \in Users, s \in Sessions : CreateStepUp(r, u, s)
      BY <2>6 DEF CreateStepUp, NewSession, Goto
    <2>7. CASE \E s \in Sessions : RightCode(r, s)
      BY <2>7 DEF RightCode, Answer, Goto
    <2>8. CASE \E s \in Sessions : WrongCode(r, s)
      BY <2>8 DEF WrongCode, Answer, Goto
    <2> QED
      BY <1>1, <2>1, <2>2, <2>3, <2>4, <2>5, <2>6, <2>7, <2>8 DEF Start
  <1>2. ASSUME NEW r \in Requests, Step(r)
        PROVE  LoggedOut'
    <2>1. ASSUME NEW n \in Tokens, IssueRoot(r, n)
          PROVE  LoggedOut'
      <3>1. /\ pc[r] = "issueRoot" /\ tokStatus[n] = "none"
            /\ tokStatus' = [tokStatus EXCEPT ![n] = "active"]
            /\ tokSession' = [tokSession EXCEPT ![n] = sess[r]]
            /\ tokPrev' = [tokPrev EXCEPT ![n] = NoToken]
            /\ nxt' = [nxt EXCEPT ![r] = n]
            /\ pc' = [pc EXCEPT ![r] = "respond"]
            /\ UNCHANGED <<sessReason, held, sess, seen>>
        BY <2>1 DEF IssueRoot, Issue, Goto, Fresh
      <3>2. \A t \in Tokens : Root(t) => t # n /\ Root(t)' /\ tokSession'[t] = tokSession[t]
        BY <3>1
      <3>3. Root(n)' /\ tokSession'[n] = sess[r]
        BY <3>1
      <3>4. \A t \in Tokens : Twin(t) => Twin(t)'
        <4> HIDE DEF Root
        <4> QED
          BY <3>2
      <3>5. sessReason[sess[r]] = "logout" => Twin(n)'
        <4> SUFFICES ASSUME sessReason[sess[r]] = "logout" PROVE Twin(n)'
          OBVIOUS
        <4>1. PICK u \in Tokens : Root(u) /\ tokSession[u] = sess[r]
          BY <3>1
        <4> HIDE DEF Root
        <4> QED
          BY <3>2, <3>3, <4>1
      <3>6. ASSUME NEW t \in Tokens, t # n
            PROVE  /\ tokStatus'[t] = tokStatus[t] /\ tokSession'[t] = tokSession[t]
                   /\ \A q \in Requests : nxt'[q] = t => nxt[q] = t /\ pc'[q] = pc[q]
                   /\ \A q \in Requests : pc[q] = "revokeTokens" => pc'[q] = "revokeTokens"
        BY <3>1, <3>6
      <3> HIDE DEF Twin
      <3> QED
        BY <3>1, <3>3, <3>4, <3>5, <3>6
    <2>2. CASE Respond(r)
      BY <2>2 DEF Respond, Return, Goto, Subject
    <2>3. CASE Consume(r)
      BY <2>3 DEF Consume, Goto, Consumable
    <2>4. CASE UnknownToken(r)
      BY <2>4 DEF UnknownToken, Return, Goto
    <2>5. CASE KnownToken(r)
      BY <2>5 DEF KnownToken, Goto
    <2>6. CASE ReuseFamily(r)
      BY <2>6 DEF ReuseFamily, RevokeTokens, Goto
    <2>7. CASE ReuseSession(r)
      <3>1. /\ RevokeSessions({tokSession[tok[r]]}, "refresh_token_reuse")
            /\ UNCHANGED <<tokStatus, tokenKeys, expired, redis, outside>>
            /\ pc[r] = "reuseSession"
        BY <2>7 DEF ReuseSession
      <3>2. CASE cli[r] = NoClient /\ Goto(r, "auditReuse") /\ UNCHANGED locals
        BY <3>1, <3>2 DEF RevokeSessions, Goto
      <3>3. CASE cli[r] # NoClient /\ Return(r)
        BY <3>1, <3>3 DEF RevokeSessions, Return, Goto
      <3> QED
        BY <2>7, <3>2, <3>3 DEF ReuseSession
    <2>8. CASE AuditReuse(r)
      BY <2>8 DEF AuditReuse, Return, Goto
    <2>9. ASSUME NEW n \in Tokens, IssueNext(r, n)
          PROVE  LoggedOut'
      <3>1. /\ pc[r] = "issueNext" /\ tokStatus[n] = "none" /\ n \notin held
            /\ tokStatus' = [tokStatus EXCEPT ![n] = "active"]
            /\ tokSession' = [tokSession EXCEPT ![n] = tokSession[tok[r]]]
            /\ tokPrev' = [tokPrev EXCEPT ![n] = tok[r]]
            /\ nxt' = [nxt EXCEPT ![r] = n]
            /\ \E l \in {"findById", "mismatch"} : pc' = [pc EXCEPT ![r] = l]
            /\ UNCHANGED <<sessReason, held, sess, seen>>
        BY <2>9 DEF IssueNext, Issue, Goto, Fresh
      <3>2. \A t \in Tokens : Root(t) => t # n /\ Root(t)' /\ tokSession'[t] = tokSession[t]
        BY <3>1
      <3>3. \A t \in Tokens : Twin(t) => Twin(t)'
        <4> HIDE DEF Root
        <4> QED
          BY <3>2
      <3>4. \A q \in Requests : nxt'[q] = n =>
               pc'[q] # "respond" /\ ~(pc'[q] = "setCache" /\ seen'[q] = "active")
        BY <3>1 DEF Slots
      <3>5. ASSUME NEW t \in Tokens, t # n
            PROVE  /\ tokStatus'[t] = tokStatus[t] /\ tokSession'[t] = tokSession[t]
                   /\ \A q \in Requests : nxt'[q] = t => nxt[q] = t /\ pc'[q] = pc[q]
                   /\ \A q \in Requests : pc[q] = "revokeTokens" => pc'[q] = "revokeTokens"
        BY <3>1, <3>5
      <3> HIDE DEF Twin
      <3> QED
        BY <3>1, <3>3, <3>4, <3>5
    <2>10. CASE ClientMismatch(r)
      BY <2>10 DEF ClientMismatch, RevokeTokens, Return, Goto
    <2>11. CASE FindById(r)
      BY <2>11 DEF FindById, Subject, Goto
    <2>12. CASE LoadFresh(r)
      <3>1. nxt[r] \in Tokens => tokSession[nxt[r]] = Subject(r)
        BY <2>12 DEF LoadFresh, Slots
      <3>2. /\ pc[r] = "loadFresh"
            /\ seen' = [seen EXCEPT ![r] = sessStatus[Subject(r)]]
            /\ pc' = [pc EXCEPT ![r] = "setCache"]
            /\ UNCHANGED <<sessionRow, tokStatus, tokenKeys, held, sess, nxt>>
        BY <2>12 DEF LoadFresh, Goto
      <3>3. \A s \in Sessions : sessReason[s] = "logout" => sessStatus[s] # "active"
        OBVIOUS
      <3>4. \A t \in Tokens : Twin(t)' <=> Twin(t)
        BY <3>2
      <3>5. ASSUME NEW t \in Tokens, ~MayAbort,
                   tokStatus[t] = "active", sessReason[tokSession[t]] = "logout",
                   nxt[r] = t
            PROVE  seen'[r] # "active"
        <4>1. tokSession[t] = Subject(r) /\ tokSession[t] \in Sessions
          BY <3>1, <3>5
        <4> QED
          BY <3>2, <3>3, <3>5, <4>1
      <3> HIDE DEF Twin
      <3> QED
        BY <3>2, <3>4, <3>5
    <2>13. CASE SetCache(r)
      BY <2>13 DEF SetCache, Accepted, Subject, Goto
    <2>14. CASE SessionDead(r)
      BY <2>14 DEF SessionDead, RevokeTokens, Return, Goto
    <2>15. CASE ScopeExceeded(r)
      BY <2>15 DEF ScopeExceeded, Return, Goto
    <2>16. CASE RevokeSession(r)
      BY <2>16 DEF RevokeSession, RevokeSessions, Goto
    <2>17. CASE RevokeSessionTokens(r)
      BY <2>17 DEF RevokeSessionTokens, RevokeTokens, Goto
    <2>18. CASE DropCache(r)
      <3>1. /\ cache' = [cache EXCEPT ![sess[r]] = "none"]
            /\ UNCHANGED <<sessionRow, tokStatus, tokenKeys, expired, challenged, outside>>
            /\ pc[r] = "dropCache"
        BY <2>18 DEF DropCache
      <3>2. CASE Return(r)
        BY <3>1, <3>2 DEF Return, Goto
      <3>3. CASE tok[r] # NoToken /\ Goto(r, "revokeByToken") /\ UNCHANGED locals
        BY <3>1, <3>3 DEF Goto
      <3> QED
        BY <2>18, <3>2, <3>3 DEF DropCache
    <2>19. CASE RevokeByToken(r)
      BY <2>19 DEF RevokeByToken, RevokeTokens, Return, Goto
    <2>20. CASE RevokeAllSessions(r)
      BY <2>20 DEF RevokeAllSessions, RevokeSessions, Goto
    <2>21. CASE RevokeAllTokens(r)
      BY <2>21 DEF RevokeAllTokens, RevokeTokens, Goto
    <2>22. CASE DropAllCache(r)
      BY <2>22 DEF DropAllCache, Return, Goto
    <2>23. CASE CreateChallenge(r)
      BY <2>23 DEF CreateChallenge, Return, Goto
    <2>24. CASE DeleteChallenge(r)
      BY <2>24 DEF DeleteChallenge, Goto
    <2>25. CASE WriteAttempt(r)
      BY <2>25 DEF WriteAttempt, Return, Goto
    <2> HIDE DEF LoggedOut
    <2> QED
      BY <1>2, <2>1, <2>2, <2>3, <2>4, <2>5, <2>6, <2>7, <2>8, <2>9, <2>10,
      <2>11, <2>12, <2>13, <2>14, <2>15, <2>16, <2>17, <2>18, <2>19, <2>20,
      <2>21, <2>22, <2>23, <2>24, <2>25 DEF Step
  <1>3. ASSUME NEW r \in Requests, Abort(r)
        PROVE  LoggedOut'
    BY <1>3 DEF Abort, Return, Goto
  <1>4. ASSUME NEW t \in Tokens, ExpireToken(t)
        PROVE  LoggedOut'
    BY <1>4 DEF ExpireToken
  <1>5. ASSUME NEW s \in Sessions, ExpireCache(s)
        PROVE  LoggedOut'
    BY <1>5 DEF ExpireCache
  <1>7. ASSUME NEW s \in Sessions, LoseChallenge(s)
        PROVE  LoggedOut'
    BY <1>7 DEF LoseChallenge
  <1>6. CASE UNCHANGED vars
    BY <1>6 DEF vars
  <1> QED
    BY <1>1, <1>2, <1>3, <1>4, <1>5, <1>6, <1>7 DEF Next

-----------------------------------------------------------------------------
(* The refinement.  Every statement is one step of RefreshContract for the *)
(* call it belongs to, or a revocation, or changes nothing the contract    *)
(* speaks of.                                                              *)

\* Only the local variables of the request in slot r change.
Only(r) == \A q \in Requests \ {r} :
    /\ pc'[q] = pc[q] /\ tok'[q] = tok[q] /\ nxt'[q] = nxt[q]
    /\ cli'[q] = cli[q] /\ sess'[q] = sess[q] /\ late'[q] = late[q]

\* A step of one request moves one call of the contract at most.
LEMMA OneCallMoves ==
    ASSUME NEW r \in Requests, Only(r)
    PROVE  /\ ContractCall' = [ContractCall EXCEPT ![r] = CallOf(r)']
           /\ ContractCall[r] = CallOf(r)
           /\ CallOf(r)' # CallOf(r) => r \in Promise!Moved
           /\ CallOf(r)' = CallOf(r) => ContractCall' = ContractCall
  <1>1. \A q \in Requests \ {r} : CallOf(q)' = CallOf(q)
    BY DEF Only, CallOf, IsCall, Stage
  <1>2. ContractCall' = [ContractCall EXCEPT ![r] = CallOf(r)']
    BY <1>1 DEF ContractCall
  <1> QED
    BY <1>2 DEF ContractCall, Promise!Moved

\* A handler that returns leaves an idle slot of the contract behind.
LEMMA ReturnIsDone ==
    ASSUME Base, NEW r \in Requests, Return(r)
    PROVE  Only(r) /\ CallOf(r)' = Promise!Idle /\ Promise!Done(r)
  <1>1. Only(r) /\ CallOf(r)' = Promise!Idle
    BY DEF Return, Goto, Only, CallOf, IsCall, Promise!Idle, Base, TypeOK
  <1> QED
    BY <1>1, OneCallMoves DEF Promise!Done

\* A call that is under way is not idle to the contract.
LEMMA CallIsNotIdle ==
    ASSUME NEW r \in Requests, IsCall(r)
    PROVE  /\ CallOf(r).at # "idle"
           /\ CallOf(r) # Promise!Idle
  BY DEF CallOf, IsCall, Stage, Promise!Idle

\* The statuses of sessions and tokens move forward as the contract allows.
SessionsEnd == \A s \in Sessions :
    sessStatus'[s] # sessStatus[s] => sessStatus[s] = "active" /\ sessStatus'[s] = "revoked"
TokensSpend == \A t \in Tokens : tokStatus'[t] # tokStatus[t] =>
    /\ tokStatus[t] \in {"active", "rotated"}
    /\ tokStatus'[t] \in {"rotated", "revoked"}

LEMMA EndsAndSpends ==
    ASSUME Base, Base'
    PROVE  /\ SessionsEnd => Promise!End(Promise!Ended)
           /\ TokensSpend => Promise!Spend(Promise!Withdrawn)
           /\ UNCHANGED sessStatus => UNCHANGED ContractStatus
           /\ UNCHANGED tokStatus => UNCHANGED ContractToken
  <1>1. SessionsEnd => Promise!End(Promise!Ended)
    BY DEF SessionsEnd, Promise!End, Promise!Ended, ContractStatus, Base, TypeOK,
           SessionStates
  <1>2. TokensSpend => Promise!Spend(Promise!Withdrawn)
    BY DEF TokensSpend, Promise!Spend, Promise!Withdrawn, ContractToken, Base,
           TypeOK,
           TokenStates
  <1>3. UNCHANGED sessStatus => UNCHANGED ContractStatus
    BY DEF ContractStatus
  <1>4. UNCHANGED tokStatus => UNCHANGED ContractToken
    BY DEF ContractToken
  <1> QED
    BY <1>1, <1>2, <1>3, <1>4

\* A statement that moves no call, and hands nothing out, is a revocation of the
\* contract (of nothing, perhaps).
LEMMA QuietStep ==
    ASSUME Base, Base', SessionsEnd, TokensSpend, UNCHANGED ContractCall,
           UNCHANGED <<tokSession, expired, held, stepUp, access>>
    PROVE  Promise!ContractNext
  BY EndsAndSpends DEF Promise!ContractNext, Promise!Revoke

\* Logins and refreshes: the steps that move a call.
LEMMA CallSteps ==
    ASSUME Base, Base', Verdict, Slots, NEW r \in Requests
    PROVE  /\ \A u \in Users, s \in Sessions, c \in Clients \union {NoClient} :
                 CreateSession(r, u, s, c) => Promise!ContractNext
           /\ \A n \in Tokens : IssueRoot(r, n) => Promise!ContractNext
           /\ Respond(r) => Promise!ContractNext
           /\ \A t \in held \union {NoToken}, c \in Clients \union {NoClient} :
                 Refresh(r, t, c) => Promise!ContractNext
           /\ Consume(r) => Promise!ContractNext
           /\ \A n \in Tokens : IssueNext(r, n) => Promise!ContractNext
           /\ \A s \in Sessions : RightCode(r, s) => Promise!ContractNext
  <1> USE NullsAreNew DEF sessionRow, redis, tokenKeys, outside, locals, Goto
  <1>t. TypeOK /\ TypeOK'
    BY DEF Base
  <1>c. ContractCall[r] = CallOf(r)
    BY DEF ContractCall
  <1>1. ASSUME NEW u \in Users, NEW s \in Sessions, NEW c \in Clients \union {NoClient},
               CreateSession(r, u, s, c)
        PROVE  Promise!ContractNext
    <2>1. Only(r) /\ UNCHANGED <<ContractToken, tokSession, expired, held, stepUp, access>>
      BY <1>1, EndsAndSpends DEF CreateSession, NewSession, Only
    <2>2. CallOf(r) = Promise!Idle
      BY <1>1 DEF CreateSession, CallOf, IsCall, Promise!Idle, Slots
    <2>3. CallOf(r)' = [at |-> "opening", sess |-> s, tok |-> CallOf(r).tok, new |-> CallOf(r).new,
                       oauth |-> CallOf(r).oauth, late |-> CallOf(r).late]
      BY <1>1, <1>t
         DEF CreateSession, NewSession, CallOf, IsCall, Stage, Slots, Base, Frames, TypeOK
    <2>4. ContractStatus[s] = "none" /\ ContractStatus' = [ContractStatus EXCEPT ![s] = "open"]
      BY <1>1, <1>t DEF CreateSession, NewSession, ContractStatus, TypeOK
    <2>5. Promise!Open(r, s)
      BY <1>c, <2>1, <2>2, <2>3, <2>4, OneCallMoves
         DEF Promise!Open, Promise!Move, Promise!At, Promise!Idle
    <2>6. r \in Promise!Moved
      BY <2>1, <2>2, <2>3, OneCallMoves DEF Promise!Idle
    <2> QED
      BY <2>5, <2>6 DEF Promise!ContractNext
  <1>2. ASSUME NEW n \in Tokens, IssueRoot(r, n)
        PROVE  Promise!ContractNext
    <2>1. Only(r) /\ UNCHANGED <<ContractStatus, expired, held, stepUp, access>>
      BY <1>2, EndsAndSpends DEF IssueRoot, Issue, Only
    <2>2. CallOf(r).at = "opening" /\ CallOf(r).sess = sess[r] /\ CallOf(r).late = FALSE
      BY <1>2, <1>t
         DEF IssueRoot, CallOf, IsCall, Stage, Verdict, NoMintAfterRevocation, TypeOK
    <2>3. CallOf(r)' = [at |-> "renewed", sess |-> CallOf(r).sess, tok |-> CallOf(r).tok, new |-> n,
                       oauth |-> CallOf(r).oauth, late |-> CallOf(r).late]
      BY <1>2, <1>t DEF IssueRoot, Issue, CallOf, IsCall, Stage, TypeOK
    <2>4. ContractToken[n] = "unborn" /\ ContractToken' = [ContractToken EXCEPT ![n] = "live"]
      BY <1>2, <1>t DEF IssueRoot, Issue, Fresh, ContractToken, TypeOK
    <2>5. tokSession' = [tokSession EXCEPT ![n] = sess[r]]
      BY <1>2 DEF IssueRoot, Issue
    <2>6. Promise!Root(r, n)
      <3>1. Promise!At(r, "opening")
        BY <1>c, <2>2 DEF Promise!At
      <3>2. Promise!Move(r, "renewed", CallOf(r).sess, n)
        BY <1>c, <2>1, <2>3, OneCallMoves DEF Promise!Move
      <3> QED
        BY <1>c, <2>1, <2>2, <2>4, <2>5, <3>1, <3>2 DEF Promise!Root, Promise!Bear
    <2>7. r \in Promise!Moved
      BY <2>1, <2>2, <2>3, OneCallMoves DEF CallOf
    <2> QED
      BY <2>6, <2>7 DEF Promise!ContractNext
  <1>3. ASSUME Respond(r)
        PROVE  Promise!ContractNext
    <2>1. /\ Return(r) /\ pc[r] = "respond"
          /\ UNCHANGED <<ContractStatus, ContractToken, tokSession, expired, stepUp>>
      BY <1>3, EndsAndSpends DEF Respond
    <2>2. CallOf(r).at = "renewed" /\ CallOf(r).late = FALSE /\ CallOf(r).new = nxt[r]
      BY <2>1, <1>t
         DEF CallOf, IsCall, Stage, Verdict, NoMintAfterRevocation, TypeOK
    <2>3. tokSession[nxt[r]] = Subject(r)
      BY <2>1 DEF Slots, IssuedLabels
    <2>4. Promise!Answer(r)
      BY <1>3, <1>c, <2>1, <2>2, <2>3, ReturnIsDone
         DEF Respond, Promise!Answer, Promise!At
    <2>5. r \in Promise!Moved
      BY <2>1, <2>2, ReturnIsDone, OneCallMoves DEF Promise!Idle
    <2> QED
      BY <2>4, <2>5 DEF Promise!ContractNext
  <1>4. ASSUME NEW t \in held \union {NoToken}, NEW c \in Clients \union {NoClient},
               Refresh(r, t, c)
        PROVE  Promise!ContractNext
    <2>1. /\ Only(r)
          /\ UNCHANGED <<ContractStatus, ContractToken, tokSession, expired, held, stepUp, access>>
      BY <1>4, EndsAndSpends DEF Refresh, Only
    <2>2. CallOf(r) = Promise!Idle
      BY <1>4, <1>t DEF Refresh, CallOf, IsCall, Promise!Idle, Slots, TypeOK
    <2>3. PICK o \in BOOLEAN : o = (t # NoToken /\ c # NoClient)
      OBVIOUS
    <2>4. PICK l \in BOOLEAN : l = (t # NoToken /\ Promise!Over(tokSession[t]))
      OBVIOUS
    <2>5. late'[r] = l
      <3>1. CASE t = NoToken
        BY <1>4, <1>t, <2>4, <3>1 DEF Refresh, TypeOK
      <3>2. CASE t # NoToken
        <4>1. tokSession[t] \in Sessions
          BY <1>4, <3>2, <1>t DEF Base, Rows, TypeOK
        <4>2. (sessStatus[tokSession[t]] = "revoked") <=> Promise!Over(tokSession[t])
          BY <4>1, <1>t
             DEF Promise!Over, ContractStatus, TypeOK, SessionStates, Base, Rows
        <4> QED
          BY <1>4, <1>t, <2>4, <3>2, <4>2 DEF Refresh, TypeOK
      <3> QED
        BY <3>1, <3>2
    <2>6. CallOf(r)' = [at |-> "asked", sess |-> NoSession, tok |-> t, new |-> NoToken,
                       oauth |-> o, late |-> l]
      <3>1. pc'[r] = "consume" /\ tok'[r] = t /\ cli'[r] = c /\ sess'[r] = NoSession /\ nxt'[r] = NoToken
        BY <1>4, <1>t DEF Refresh, TypeOK, Slots, IsCall
      <3> QED
        BY <2>3, <2>5, <3>1 DEF CallOf, IsCall, Stage, Promise!Idle
    <2>7. Promise!Ask(r, t, o)
      BY <1>c, <2>1, <2>2, <2>3, <2>4, <2>6, OneCallMoves
         DEF Promise!Ask, Promise!At, Promise!Idle
    <2>8. r \in Promise!Moved
      BY <2>1, <2>2, <2>6, OneCallMoves DEF Promise!Idle
    <2> QED
      BY <2>7, <2>8 DEF Promise!ContractNext
  <1>5. ASSUME Consume(r)
        PROVE  Promise!ContractNext
    <2>1. /\ Only(r) /\ pc[r] = "consume"
          /\ UNCHANGED <<ContractStatus, tokSession, expired, held, stepUp, access>>
      BY <1>5, <1>t, EndsAndSpends DEF Consume, Only, TypeOK
    <2>2. CallOf(r).at = "asked" /\ CallOf(r).tok = tok[r]
      BY <2>1 DEF CallOf, IsCall, Stage
    <2>3. CASE Consumable(tok[r])
      <3>1. /\ tok[r] \in Tokens /\ tokStatus[tok[r]] = "active" /\ tok[r] \notin expired
            /\ tok[r] # NoToken
        BY <2>3, <1>t DEF Consumable, TypeOK
      <3>2. Promise!Usable(tok[r])
        BY <3>1 DEF Promise!Usable, ContractToken
      <3>3. Promise!Spend({tok[r]})
        BY <1>5, <2>3, <3>1, <1>t DEF Consume, Promise!Spend, ContractToken, TypeOK
      <3>4. CallOf(r)' = [at |-> "taken", sess |-> CallOf(r).sess, tok |-> CallOf(r).tok, new |-> CallOf(r).new,
                         oauth |-> CallOf(r).oauth, late |-> CallOf(r).late]
        BY <1>5, <2>3, <1>t DEF Consume, CallOf, IsCall, Stage, TypeOK
      <3>5. Promise!Take(r)
        BY <1>c, <2>1, <2>2, <3>2, <3>3, <3>4, OneCallMoves
           DEF Promise!Take, Promise!Move, Promise!At
      <3>6. r \in Promise!Moved
        BY <2>1, <2>2, <3>4, OneCallMoves DEF CallOf
      <3> QED
        BY <3>5, <3>6 DEF Promise!ContractNext
    <2>4. CASE ~Consumable(tok[r])
      <3>1. CallOf(r)' = CallOf(r)
        BY <1>5, <2>4, <1>t DEF Consume, CallOf, IsCall, Stage, TypeOK
      <3>2. SessionsEnd /\ TokensSpend
        BY <1>5, <2>4 DEF Consume, SessionsEnd, TokensSpend
      <3> QED
        BY <2>1, <3>1, <3>2, OneCallMoves, QuietStep
    <2> QED
      BY <2>3, <2>4
  <1>6. ASSUME NEW n \in Tokens, IssueNext(r, n)
        PROVE  Promise!ContractNext
    <2>1. Only(r) /\ UNCHANGED <<ContractStatus, expired, held, stepUp, access>>
      BY <1>6, EndsAndSpends DEF IssueNext, Issue, Only
    <2>2. CallOf(r).at = "taken" /\ CallOf(r).tok = tok[r]
      BY <1>6 DEF IssueNext, CallOf, IsCall, Stage
    <2>3. CallOf(r)' = [at |-> "renewed", sess |-> CallOf(r).sess, tok |-> CallOf(r).tok, new |-> n,
                       oauth |-> CallOf(r).oauth, late |-> CallOf(r).late]
      <3>1. /\ pc'[r] \in {"findById", "mismatch"} /\ pc[r] = "issueNext" /\ nxt'[r] = n
            /\ UNCHANGED <<tok, cli, sess, late>>
            /\ tok[r] # NoToken
        BY <1>6, <1>t DEF IssueNext, Issue, TypeOK, Base, Frames, TokenLabels
      <3> QED
        BY <3>1 DEF CallOf, IsCall, Stage
    <2>4. ContractToken[n] = "unborn" /\ ContractToken' = [ContractToken EXCEPT ![n] = "live"]
      BY <1>6, <1>t DEF IssueNext, Issue, Fresh, ContractToken, TypeOK
    <2>5. tokSession' = [tokSession EXCEPT ![n] = tokSession[tok[r]]]
      BY <1>6 DEF IssueNext, Issue
    <2>6. Promise!Renew(r, n)
      <3>1. Promise!At(r, "taken")
        BY <1>c, <2>2 DEF Promise!At
      <3>2. Promise!Move(r, "renewed", CallOf(r).sess, n)
        BY <1>c, <2>1, <2>3, OneCallMoves DEF Promise!Move
      <3> QED
        BY <1>c, <2>1, <2>2, <2>4, <2>5, <3>1, <3>2 DEF Promise!Renew, Promise!Bear
    <2>7. r \in Promise!Moved
      BY <2>1, <2>2, <2>3, OneCallMoves DEF CallOf
    <2> QED
      BY <2>6, <2>7 DEF Promise!ContractNext
  <1>7. ASSUME NEW s \in Sessions, RightCode(r, s)
        PROVE  Promise!ContractNext
    <2>1. /\ Only(r)
          /\ UNCHANGED <<ContractStatus, ContractToken, tokSession, expired, held, stepUp, access>>
      BY <1>7, EndsAndSpends DEF RightCode, Answer, Only, redis
    <2>2. CallOf(r) = Promise!Idle
      BY <1>7, <1>t DEF RightCode, Answer, CallOf, IsCall, Promise!Idle, Slots, TypeOK
    <2>3. s \in stepUp /\ sessStatus[s] # "none"
      BY <1>7 DEF RightCode, Answer, Slots, Base, AccessRows
    <2>4. PICK l \in BOOLEAN : l = Promise!Over(s)
      BY DEF Promise!Over
    <2>5. late'[r] = l
      BY <1>7, <1>t, <2>4
         DEF RightCode, Promise!Over, ContractStatus, TypeOK, SessionStates
    <2>6. CallOf(r)' = [at |-> "opening", sess |-> s, tok |-> NoToken, new |-> NoToken,
                       oauth |-> FALSE, late |-> l]
      <3>1. /\ pc'[r] = "answered" /\ tok'[r] = NoToken /\ sess'[r] = s /\ nxt'[r] = NoToken
        BY <1>7, <1>t DEF RightCode, Answer, TypeOK, Slots, IsCall, Base, Frames
      <3> QED
        BY <2>5, <3>1 DEF CallOf, IsCall, Stage
    <2>7. Promise!Prove(r, s)
      BY <1>c, <2>1, <2>2, <2>3, <2>4, <2>6, OneCallMoves
         DEF Promise!Prove, Promise!At, Promise!Idle
    <2>8. r \in Promise!Moved
      BY <2>1, <2>2, <2>6, OneCallMoves DEF Promise!Idle
    <2> QED
      BY <2>7, <2>8 DEF Promise!ContractNext
  <1> QED
    BY <1>1, <1>2, <1>3, <1>4, <1>5, <1>6, <1>7

\* Refusals: the handler returns without an answer.
LEMMA RefusalSteps ==
    ASSUME Base, Base', Verdict, Slots, NEW r \in Requests
    PROVE  /\ UnknownToken(r) => Promise!ContractNext
           /\ ReuseSession(r) => Promise!ContractNext
           /\ AuditReuse(r) => Promise!ContractNext
           /\ ClientMismatch(r) => Promise!ContractNext
           /\ SessionDead(r) => Promise!ContractNext
           /\ ScopeExceeded(r) => Promise!ContractNext
           /\ Abort(r) => Promise!ContractNext
  <1> USE NullsAreNew DEF sessionRow, redis, tokenKeys, outside, locals, Goto
  <1>t. TypeOK /\ TypeOK'
    BY DEF Base
  <1>c. ContractCall[r] = CallOf(r)
    BY DEF ContractCall
  <1>k. ASSUME tok[r] # NoToken
        PROVE  /\ tok[r] \in Tokens /\ tokStatus[tok[r]] # "none"
               /\ tokSession[tok[r]] \in Sessions
    BY <1>k, <1>t DEF Base, Frames, Rows, TypeOK
  <1>m. ASSUME Return(r), IsCall(r)
        PROVE  r \in Promise!Moved
    BY <1>m, ReturnIsDone, OneCallMoves, CallIsNotIdle
  <1>u. ASSUME pc[r] \in ReuseLabels
        PROVE  IsCall(r) /\ CallOf(r).at = "asked" /\ CallOf(r).tok = tok[r] /\ ~Promise!Usable(tok[r])
    <2>1. IsCall(r) /\ CallOf(r).at = "asked" /\ CallOf(r).tok = tok[r]
      BY <1>u DEF ReuseLabels, CallOf, IsCall, Stage
    <2>2. ~Consumable(tok[r])
      BY <1>u DEF Slots
    <2>3. ~Promise!Usable(tok[r])
      BY <2>2, <1>k, <1>t
         DEF Promise!Usable, Consumable, ContractToken, TypeOK, TokenStates
    <2> QED
      BY <2>1, <2>3
  <1>1. ASSUME UnknownToken(r)
        PROVE  Promise!ContractNext
    <2>1. /\ pc[r] \in ReuseLabels /\ tok[r] = NoToken /\ Return(r)
          /\ UNCHANGED <<sessStatus, tokStatus, tokSession, expired, held, stepUp, access>>
      BY <1>1 DEF UnknownToken, ReuseLabels
    <2>2. Promise!End({}) /\ Promise!Spend({})
      BY <2>1, EndsAndSpends
         DEF Promise!End, Promise!Spend, ContractStatus, ContractToken
    <2>3. Promise!RefuseUnusable(r, Promise!Withdrawn)
      <3>1. {tokSession[t] : t \in {tok[r]} \ {NoToken}} = {}
        BY <2>1
      <3>2. {t \in Promise!Withdrawn : tokSession[t] \in {}} = {}
        OBVIOUS
      <3> QED
        BY <1>c, <1>u, <2>1, <2>2, <3>1, <3>2, ReturnIsDone
           DEF Promise!RefuseUnusable, Promise!At
    <2> QED
      BY <1>m, <1>u, <2>1, <2>3 DEF Promise!ContractNext
  <1>2. ASSUME ReuseSession(r)
        PROVE  Promise!ContractNext
    <2>1. /\ pc[r] = "reuseSession" /\ tok[r] # NoToken
          /\ RevokeSessions({tokSession[tok[r]]}, "refresh_token_reuse")
          /\ UNCHANGED <<tokStatus, tokSession, expired, held, stepUp, access>>
      BY <1>2 DEF ReuseSession, Base, Frames, TokenLabels
    <2>2. CASE cli[r] = NoClient /\ Goto(r, "auditReuse") /\ UNCHANGED locals
      <3>1. Only(r) /\ CallOf(r)' = CallOf(r)
        BY <2>1, <2>2, <1>t DEF Only, CallOf, IsCall, Stage, TypeOK
      <3>2. SessionsEnd /\ TokensSpend
        BY <2>1 DEF RevokeSessions, SessionsEnd, TokensSpend
      <3> QED
        BY <2>1, <3>1, <3>2, OneCallMoves, QuietStep
    <2>3. CASE cli[r] # NoClient /\ Return(r)
      <3>1. Promise!End({tokSession[tok[r]]})
        BY <2>1, <1>t
           DEF RevokeSessions, Promise!End, ContractStatus, TypeOK, SessionStates
      <3>2. UNCHANGED ContractToken /\ Promise!Withdrawn = {}
        BY <2>1, EndsAndSpends DEF Promise!Withdrawn
      <3>3. {tokSession[t] : t \in {tok[r]} \ {NoToken}} = {tokSession[tok[r]]}
        BY <2>1
      <3>4. Promise!Spend({t \in Promise!Withdrawn : tokSession[t] \in {tokSession[tok[r]]}})
        BY <3>2 DEF Promise!Spend, ContractToken
      <3>5. Promise!RefuseUnusable(r, Promise!Withdrawn)
        BY <1>c, <1>u, <2>1, <2>3, <3>1, <3>3, <3>4, ReturnIsDone
           DEF Promise!RefuseUnusable, Promise!At, ReuseLabels
      <3> QED
        BY <1>m, <1>u, <2>1, <2>3, <3>5 DEF Promise!ContractNext, ReuseLabels
    <2> QED
      BY <1>2, <2>2, <2>3 DEF ReuseSession
  <1>3. ASSUME AuditReuse(r)
        PROVE  Promise!ContractNext
    <2>1. /\ pc[r] = "auditReuse" /\ tok[r] # NoToken /\ Return(r)
          /\ sessStatus[tokSession[tok[r]]] = "revoked"
          /\ UNCHANGED <<sessStatus, tokStatus, tokSession, expired, held, stepUp, access>>
      BY <1>3 DEF AuditReuse, Base, Frames, TokenLabels, Slots
    <2>2. Promise!End({tokSession[tok[r]]})
      BY <2>1, <1>k, EndsAndSpends DEF Promise!End, ContractStatus
    <2>3. UNCHANGED ContractToken /\ Promise!Withdrawn = {}
      BY <2>1, EndsAndSpends DEF Promise!Withdrawn
    <2>4. {tokSession[t] : t \in {tok[r]} \ {NoToken}} = {tokSession[tok[r]]}
      BY <2>1
    <2>5. Promise!Spend({t \in Promise!Withdrawn : tokSession[t] \in {tokSession[tok[r]]}})
      BY <2>3 DEF Promise!Spend, ContractToken
    <2>6. Promise!RefuseUnusable(r, Promise!Withdrawn)
      BY <1>c, <1>u, <2>1, <2>2, <2>4, <2>5, ReturnIsDone
         DEF Promise!RefuseUnusable, Promise!At, ReuseLabels
    <2> QED
      BY <1>m, <1>u, <2>1, <2>6 DEF Promise!ContractNext, ReuseLabels
  <1>4. ASSUME \/ ClientMismatch(r) \/ ScopeExceeded(r)
               \/ SessionDead(r) /\ tok[r] # NoToken
        PROVE  Promise!ContractNext
    <2>1. /\ pc[r] \in {"mismatch", "sessionDead", "respond"} /\ tok[r] # NoToken /\ Return(r)
          /\ UNCHANGED <<sessStatus, tokSession, expired, held, stepUp, access>>
      BY <1>4
         DEF ClientMismatch, SessionDead, ScopeExceeded, Base, Frames, TokenLabels
    <2>2. IsCall(r) /\ CallOf(r).at = "renewed" /\ CallOf(r).tok = tok[r]
      BY <2>1 DEF IsCall, CallOf, Stage
    <2>3. CallOf(r).oauth = TRUE \/ Promise!Over(tokSession[tok[r]])
      <3>1. CASE SessionDead(r)
        BY <3>1, <2>1, <1>k
           DEF SessionDead, Verdict, LiveSessionNotRefused, Subject, Promise!Over,
                                ContractStatus
      <3>2. CASE ClientMismatch(r) \/ ScopeExceeded(r)
        BY <3>2, <2>1, <2>2 DEF ClientMismatch, ScopeExceeded, Slots, CallOf
      <3> QED
        BY <1>4, <3>1, <3>2
    <2>4. /\ TokensSpend
          /\ \A t \in Tokens : tokStatus'[t] # tokStatus[t] => tokSession[t] = tokSession[tok[r]]
      <3>1. CASE SessionDead(r)
        <4>1. RevokeTokens(FamilyOf(tokFamily[tok[r]]), {"active", "rotated"})
          BY <3>1, <2>1 DEF SessionDead
        <4> QED
          BY <4>1, <2>1, <1>k DEF RevokeTokens, FamilyOf, TokensSpend, Slots, Issued
      <3>2. CASE ClientMismatch(r)
        BY <3>2 DEF ClientMismatch, RevokeTokens, TokensSpend
      <3>3. CASE ScopeExceeded(r)
        BY <3>3 DEF ScopeExceeded, TokensSpend
      <3> QED
        BY <1>4, <3>1, <3>2, <3>3
    <2>5. {t \in Promise!Withdrawn : tokSession[t] = tokSession[tok[r]]} = Promise!Withdrawn
      BY <2>4 DEF Promise!Withdrawn, ContractToken
    <2>6. Promise!RefuseRenewed(r, Promise!Withdrawn)
      BY <1>c, <2>1, <2>2, <2>3, <2>4, <2>5, ReturnIsDone, EndsAndSpends
         DEF Promise!RefuseRenewed, Promise!At
    <2> QED
      BY <1>m, <2>1, <2>2, <2>6 DEF Promise!ContractNext
  <1>5. ASSUME Abort(r)
        PROVE  Promise!ContractNext
    <2>1. /\ MayAbort /\ pc[r] # "idle" /\ Return(r)
          /\ UNCHANGED <<sessStatus, tokStatus, tokSession, expired, held, stepUp, access>>
      BY <1>5 DEF Abort
    <2>2. CASE IsCall(r)
      <3>1. Promise!Crash(r)
        BY <1>c, <2>1, <2>2, ReturnIsDone, CallIsNotIdle, EndsAndSpends
           DEF Promise!Crash, Promise!At
      <3> QED
        BY <1>m, <2>1, <2>2, <3>1 DEF Promise!ContractNext
    <2>3. CASE ~IsCall(r)
      <3>1. CallOf(r) = Promise!Idle
        BY <2>3 DEF CallOf, Promise!Idle, Slots
      <3>2. UNCHANGED ContractCall
        BY <2>1, <3>1, ReturnIsDone, OneCallMoves
      <3>3. SessionsEnd /\ TokensSpend
        BY <2>1 DEF SessionsEnd, TokensSpend
      <3> QED
        BY <2>1, <3>2, <3>3, QuietStep
    <2> QED
      BY <2>2, <2>3
  <1>6. ASSUME SessionDead(r), tok[r] = NoToken
        PROVE  Promise!ContractNext
    <2>1. /\ pc[r] = "sessionDead" /\ Return(r)
          /\ UNCHANGED <<sessStatus, tokStatus, tokSession, expired, held, stepUp, access>>
      BY <1>6, <1>t DEF SessionDead, RevokeTokens, TypeOK
    <2>2. IsCall(r) /\ CallOf(r).at = "opening" /\ CallOf(r).sess = sess[r]
      BY <1>6, <2>1 DEF IsCall, CallOf, Stage
    <2>3. Promise!Over(sess[r])
      BY <1>6, <2>1 DEF Base, Frames, CheckLabels, Verdict, LiveSessionNotRefused,
         Subject, Promise!Over, ContractStatus
    <2>4. Promise!RefuseOpening(r)
      BY <1>c, <2>1, <2>2, <2>3, ReturnIsDone, EndsAndSpends
         DEF Promise!RefuseOpening, Promise!At
    <2> QED
      BY <1>m, <2>1, <2>2, <2>4 DEF Promise!ContractNext
  <1> QED
    BY <1>1, <1>2, <1>3, <1>4, <1>5, <1>6

\* The other statements move no call: they revoke, or they only read and cache.
LEMMA QuietSteps ==
    ASSUME Base, Base', Slots, NEW r \in Requests
    PROVE  /\ \A s \in Sessions, t \in held \union {NoToken} :
                 Logout(r, s, t) => Promise!ContractNext
           /\ \A t \in held : RevokeRefresh(r, t) => Promise!ContractNext
           /\ \A u \in Users : RevokeAll(r, u) => Promise!ContractNext
           /\ \A s \in Sessions : WrongCode(r, s) => Promise!ContractNext
           /\ CreateChallenge(r) \/ DeleteChallenge(r) \/ WriteAttempt(r)
                 => Promise!ContractNext
           /\ KnownToken(r) \/ FindById(r) \/ LoadFresh(r) \/ SetCache(r)
                 => Promise!ContractNext
           /\ ReuseFamily(r) \/ RevokeSession(r) \/ RevokeSessionTokens(r)
                 => Promise!ContractNext
           /\ DropCache(r) \/ RevokeByToken(r) => Promise!ContractNext
           /\ RevokeAllSessions(r) \/ RevokeAllTokens(r) \/ DropAllCache(r)
                 => Promise!ContractNext
  <1> USE DEF sessionRow, redis, tokenKeys, outside, locals, Goto
  <1>t. TypeOK /\ TypeOK'
    BY DEF Base
  <1>q. ASSUME Only(r), CallOf(r)' = CallOf(r), SessionsEnd, TokensSpend,
               UNCHANGED <<tokSession, expired, held, stepUp, access>>
        PROVE  Promise!ContractNext
    BY <1>q, OneCallMoves, QuietStep
  \* a slot that is no call before and after
  <1>i. ASSUME ~IsCall(r), ~IsCall(r)', UNCHANGED <<nxt, late>>
        PROVE  CallOf(r)' = CallOf(r)
    BY <1>i DEF CallOf
  <1>e. ASSUME ~IsCall(r)
        PROVE  CallOf(r) = Promise!Idle
    BY <1>e DEF CallOf, Promise!Idle, Slots
  <1>1. ASSUME NEW s \in Sessions, NEW t \in held \union {NoToken}, Logout(r, s, t)
        PROVE  Promise!ContractNext
    <2>1. Only(r) /\ SessionsEnd /\ TokensSpend /\ UNCHANGED <<tokSession, expired, held, stepUp, access>>
      BY <1>1 DEF Logout, Only, SessionsEnd, TokensSpend
    <2>2. CallOf(r)' = CallOf(r)
      BY <1>1, <1>t, <1>i DEF Logout, IsCall, TypeOK
    <2> QED
      BY <1>q, <2>1, <2>2
  <1>2. ASSUME NEW t \in held, RevokeRefresh(r, t)
        PROVE  Promise!ContractNext
    <2>1. Only(r) /\ SessionsEnd /\ TokensSpend /\ UNCHANGED <<tokSession, expired, held, stepUp, access>>
      BY <1>2 DEF RevokeRefresh, Only, SessionsEnd, TokensSpend
    <2>2. CallOf(r)' = CallOf(r)
      BY <1>2, <1>t, <1>i DEF RevokeRefresh, IsCall, TypeOK
    <2> QED
      BY <1>q, <2>1, <2>2
  <1>3. ASSUME NEW u \in Users, RevokeAll(r, u)
        PROVE  Promise!ContractNext
    <2>1. Only(r) /\ SessionsEnd /\ TokensSpend /\ UNCHANGED <<tokSession, expired, held, stepUp, access>>
      BY <1>3 DEF RevokeAll, Only, SessionsEnd, TokensSpend
    <2>2. CallOf(r)' = CallOf(r)
      BY <1>3, <1>t, <1>i DEF RevokeAll, IsCall, TypeOK
    <2> QED
      BY <1>q, <2>1, <2>2
  <1>4. ASSUME KnownToken(r) \/ FindById(r) \/ LoadFresh(r) \/ SetCache(r)
        PROVE  Promise!ContractNext
    <2>1. Only(r) /\ SessionsEnd /\ TokensSpend /\ UNCHANGED <<tokSession, expired, held, stepUp, access>>
      BY <1>4, <1>t
         DEF KnownToken, FindById, LoadFresh, SetCache, Only, SessionsEnd,
             TokensSpend, TypeOK
    <2>2. UNCHANGED <<tok, nxt, cli, sess, late>>
      BY <1>4 DEF KnownToken, FindById, LoadFresh, SetCache
    <2>3. /\ IsCall(r) /\ IsCall(r)'
          /\ Stage(r)' = Stage(r)
      BY <1>4, <1>t
         DEF KnownToken, FindById, LoadFresh, SetCache, Accepted, IsCall, Stage, TypeOK
    <2>4. CallOf(r)' = CallOf(r)
      BY <2>2, <2>3 DEF CallOf
    <2> QED
      BY <1>q, <2>1, <2>4
  <1>5. ASSUME ReuseFamily(r)
        PROVE  Promise!ContractNext
    <2>1. Only(r) /\ SessionsEnd /\ TokensSpend /\ UNCHANGED <<tokSession, expired, held, stepUp, access>>
      BY <1>5, <1>t
         DEF ReuseFamily, RevokeTokens, Only, SessionsEnd, TokensSpend, TypeOK
    <2>2. CallOf(r)' = CallOf(r)
      BY <1>5, <1>t DEF ReuseFamily, CallOf, IsCall, Stage, TypeOK
    <2> QED
      BY <1>q, <2>1, <2>2
  <1>6. ASSUME RevokeSession(r) \/ RevokeSessionTokens(r) \/ RevokeAllSessions(r) \/ RevokeAllTokens(r)
        PROVE  Promise!ContractNext
    <2>1. UNCHANGED locals /\ ~IsCall(r) /\ ~IsCall(r)' /\ Only(r)
      BY <1>6, <1>t
         DEF RevokeSession, RevokeSessionTokens, RevokeAllSessions, RevokeAllTokens,
                        IsCall, Only, TypeOK
    <2>2. SessionsEnd /\ TokensSpend /\ UNCHANGED <<tokSession, expired, held, stepUp, access>>
      BY <1>6
         DEF RevokeSession, RevokeSessionTokens, RevokeAllSessions, RevokeAllTokens,
                  RevokeSessions, RevokeTokens, SessionsEnd, TokensSpend
    <2> QED
      BY <1>i, <1>q, <2>1, <2>2
  <1>7. ASSUME DropCache(r) \/ RevokeByToken(r) \/ DropAllCache(r)
        PROVE  Promise!ContractNext
    <2>1. /\ ~IsCall(r)
          /\ SessionsEnd /\ TokensSpend /\ UNCHANGED <<tokSession, expired, held, stepUp, access>>
      BY <1>7 DEF DropCache, RevokeByToken, DropAllCache, RevokeTokens, IsCall,
                  SessionsEnd, TokensSpend
    <2>2. CASE Return(r)
      BY <1>e, <1>q, <2>1, <2>2, ReturnIsDone
    <2>3. CASE Goto(r, "revokeByToken") /\ UNCHANGED locals
      <3>1. Only(r) /\ ~IsCall(r)'
        BY <2>3, <1>t DEF Only, IsCall, TypeOK
      <3> QED
        BY <1>i, <1>q, <2>1, <2>3, <3>1
    <2> QED
      BY <1>7, <2>2, <2>3 DEF DropCache, RevokeByToken, DropAllCache
  <1>8. ASSUME NEW s \in Sessions, WrongCode(r, s)
        PROVE  Promise!ContractNext
    <2>1. /\ Only(r) /\ SessionsEnd /\ TokensSpend
          /\ UNCHANGED <<tokSession, expired, held, stepUp, access>>
      BY <1>8 DEF WrongCode, Answer, Only, SessionsEnd, TokensSpend
    <2>2. CallOf(r)' = CallOf(r)
      BY <1>8, <1>t, <1>i DEF WrongCode, Answer, IsCall, TypeOK
    <2> QED
      BY <1>q, <2>1, <2>2
  <1>9. ASSUME CreateChallenge(r) \/ WriteAttempt(r)
        PROVE  Promise!ContractNext
    <2>1. /\ ~IsCall(r) /\ Return(r)
          /\ SessionsEnd /\ TokensSpend /\ UNCHANGED <<tokSession, expired, held, stepUp, access>>
      BY <1>9 DEF CreateChallenge, WriteAttempt, IsCall, SessionsEnd, TokensSpend
    <2> QED
      BY <1>e, <1>q, <2>1, ReturnIsDone
  <1>10. ASSUME DeleteChallenge(r)
         PROVE  Promise!ContractNext
    <2>1. /\ Only(r) /\ SessionsEnd /\ TokensSpend
          /\ UNCHANGED <<tokSession, expired, held, stepUp, access>>
      BY <1>10, <1>t DEF DeleteChallenge, Only, SessionsEnd, TokensSpend, TypeOK
    <2>2. CallOf(r)' = CallOf(r)
      BY <1>10, <1>t DEF DeleteChallenge, CallOf, IsCall, Stage, TypeOK, Base, Frames
    <2> QED
      BY <1>q, <2>1, <2>2
  <1> QED
    BY <1>1, <1>2, <1>3, <1>4, <1>5, <1>6, <1>7, <1>8, <1>9, <1>10

\* A login that asks for a second factor opens a session and moves no call.
LEMMA StepUpOpens ==
    ASSUME Base, Base', Slots, NEW r \in Requests, NEW u \in Users, NEW s \in Sessions,
           CreateStepUp(r, u, s)
    PROVE  Promise!ContractNext
  <1> USE DEF sessionRow, tokenKeys, outside, locals, Goto
  <1>t. TypeOK /\ TypeOK'
    BY DEF Base
  <1>1. Only(r) /\ UNCHANGED <<ContractToken, tokSession, expired, held, access>>
    BY EndsAndSpends DEF CreateStepUp, NewSession, Only
  <1>2. CallOf(r)' = CallOf(r)
    BY <1>t DEF CreateStepUp, NewSession, CallOf, IsCall, TypeOK
  <1>3. ContractStatus[s] = "none" /\ ContractStatus' = [ContractStatus EXCEPT ![s] = "open"]
    BY <1>t DEF CreateStepUp, NewSession, ContractStatus, TypeOK
  <1>4. Promise!Await(s)
    BY <1>1, <1>2, <1>3, OneCallMoves DEF CreateStepUp, Promise!Await
  <1> QED
    BY <1>4 DEF Promise!ContractNext

\* Every step of the code is a step of the contract, or changes nothing it sees.
LEMMA StepKeepsContract ==
    ASSUME Base, Base', Verdict, Slots, [Next]_vars
    PROVE  [Promise!ContractNext]_(Promise!contractVars)
  <1>1. ASSUME NEW r \in Requests, Start(r)
        PROVE  Promise!ContractNext
    BY <1>1, CallSteps, QuietSteps, StepUpOpens DEF Start
  <1>2. ASSUME NEW r \in Requests, Step(r)
        PROVE  Promise!ContractNext
    BY <1>2, CallSteps, RefusalSteps, QuietSteps DEF Step
  <1>3. ASSUME NEW r \in Requests, Abort(r)
        PROVE  Promise!ContractNext
    BY <1>3, RefusalSteps
  <1>4. ASSUME NEW t \in Tokens, ExpireToken(t)
        PROVE  Promise!ContractNext
    <2>1. UNCHANGED <<sessStatus, tokStatus, tokSession, held, stepUp, access, pc, locals>>
      BY <1>4 DEF ExpireToken, sessionRow, redis, tokenKeys, outside
    <2>2. UNCHANGED <<ContractStatus, ContractToken, ContractCall>>
      BY <2>1
         DEF ContractStatus, ContractToken, ContractCall, CallOf, IsCall, Stage, locals
    <2>3. Promise!Expire(t)
      BY <1>4, <2>1, <2>2 DEF ExpireToken, Promise!Expire
    <2> QED
      BY <2>3 DEF Promise!ContractNext
  <1>5. CASE (\E s \in Sessions : ExpireCache(s) \/ LoseChallenge(s)) \/ UNCHANGED vars
    <2>1. UNCHANGED <<sessStatus, tokStatus, tokSession, expired, held, stepUp, access, pc, locals>>
      BY <1>5 DEF ExpireCache, LoseChallenge, sessionRow, redis, tokenKeys, outside, vars
    <2>2. UNCHANGED <<ContractStatus, ContractToken, ContractCall>>
      BY <2>1
         DEF ContractStatus, ContractToken, ContractCall, CallOf, IsCall, Stage, locals
    <2> QED
      BY <2>1, <2>2 DEF Promise!contractVars
  <1> QED
    BY <1>1, <1>2, <1>3, <1>4, <1>5 DEF Next

\* Empty tables and idle slots are the contract's initial state.
LEMMA InitKeepsContract == Init => Promise!ContractInit
  <1> SUFFICES ASSUME Init PROVE Promise!ContractInit
    OBVIOUS
  <1>1. \A r \in Requests : CallOf(r) = Promise!Idle
    BY DEF Init, CallOf, IsCall, Promise!Idle
  <1>2. ContractStatus = [s \in Sessions |-> "none"]
    BY DEF Init, ContractStatus
  <1>3. ContractToken = [t \in Tokens |-> "unborn"]
    BY DEF Init, ContractToken
  <1>4. ContractCall = [r \in Requests |-> Promise!Idle]
    BY <1>1 DEF ContractCall
  <1> QED
    BY <1>2, <1>3, <1>4 DEF Init, Promise!ContractInit

\* The facts about slots, openings and logouts hold initially.
LEMMA AftermathInit == Init => Aftermath
  <1> SUFFICES ASSUME Init PROVE Aftermath
    OBVIOUS
  <1> USE NullsAreNew DEF Init
  <1>1. Slots
    BY DEF Slots, Issued, IsCall, IssuedLabels, ReuseLabels
  <1>2. Openings
    BY DEF Openings, LogoutLabels, Issued
  <1>3. LoggedOut
    BY DEF LoggedOut
  <1> QED
    BY <1>1, <1>2, <1>3 DEF Aftermath

-----------------------------------------------------------------------------

\* What holds of slots, openings and logouts holds in every reachable state.
THEOREM AftermathHolds == Spec => []Aftermath
  <1>1. IInv /\ Aftermath /\ [Next]_vars => Aftermath'
    BY SlotsNext, OpeningsNext, LoggedOutNext DEF IInv, Aftermath
  <1> QED
    BY <1>1, AftermathInit, Invariance, PTL DEF Spec

\* SessionRepository.revoke is thorough however it interleaves with refreshes
\* and with answers to login challenges: unless a request dies half way, once
\* nothing is in flight an active refresh token that a client holds of a
\* logged-out session is a second root, inserted by a second answer.
THEOREM LogoutIsThorough == Spec => [](~MayAbort => LogoutLeavesNoLiveToken)
  <1>1. IInv /\ Aftermath => (~MayAbort => LogoutLeavesNoLiveToken)
    BY DEF IInv, Base, TypeOK, Aftermath, LoggedOut, LogoutLeavesNoLiveToken, Twin,
           Quiet, InFlight
  <1> QED
    BY <1>1, Invariance, AftermathHolds, PTL

\* The statements of the refresh-token service, in every interleaving, with or
\* without clients, deaths and expiry, implement the contract callers rely on.
THEOREM RotationKeepsContract == Spec => KeepsContract
  <1>1. /\ IInv /\ IInv' /\ Aftermath /\ [Next]_vars
              => [Promise!ContractNext]_(Promise!contractVars)
    BY StepKeepsContract DEF IInv, Aftermath
  <1> QED
    BY <1>1, InitKeepsContract, Invariance, AftermathHolds, PTL
       DEF Spec, KeepsContract, Promise!Contract

=============================================================================
