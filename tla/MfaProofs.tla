------------------------------ MODULE MfaProofs ------------------------------
(***************************************************************************)
(* Proofs about Mfa, for every finite set of requests, any secrets and     *)
(* challenges.                                                             *)
(*                                                                         *)
(* Frames says what the requests hold; Proved and Revoked are about        *)
(* enrolment and late answers.  Paid relates the bursts of answers to the  *)
(* attempts that the challenge, and the answers under way, have counted.   *)
(***************************************************************************)
EXTENDS Mfa, TLAPS

\* Statements at which a session revoked before the request began may be met.
AnswerLabels == {"tooMany", "check", "putBack", "markPassed", "consume", "findSession"}
ChallengeLabels == AnswerLabels \union {"createChallenge", "issue"}

Frames ==
    \A r \in Requests :
        /\ chal[r] \in sessions \union {NoChallenge}
        /\ pc[r] \in ChallengeLabels => chal[r] \in sessions
        /\ pc[r] \in {"check", "putBack"} => read[r] < MaxAttempts
        /\ pc[r] = "createChallenge" =>
              /\ chal[r] \notin live
              /\ \A q \in Requests : chal[q] = chal[r] => q = r

\* A pending activation, like an active method, is of a secret that was proved.
Proved ==
    /\ ActiveSecretProved
    /\ \A r \in Requests : pc[r] = "activate" /\ ~swapped => secret \in known

Revoked ==
    \A r \in Requests : late[r] => pc[r] \in AnswerLabels /\ chal[r] \in revoked

\* Between bursts a challenge has counted an attempt for each of them.  During one
\* it may lack that burst's, which whatever an answer under way writes back counts.
PaidFor(c) ==
    /\ bursts[c] <= MaxAttempts
    /\ c \notin sessions => bursts[c] = 0
    /\ \A r \in Requests : chal[r] = c =>
          /\ pc[r] = "createChallenge" => bursts[c] = 0
          /\ pc[r] \in {"check", "putBack"} => bursts[c] <= read[r] + 1
    /\ c \in live =>
          /\ bursts[c] <= attempts[c] + 1
          /\ (\A r \in Requests : ~Answering(r, c)) => bursts[c] <= attempts[c]

Paid == \A c \in Challenges : PaidFor(c)

Base == TypeOK /\ Frames /\ Proved /\ Revoked
IInv == Base /\ Paid

-----------------------------------------------------------------------------

\* No method, no challenge and no request.
LEMMA IInvInit == Init => IInv
  <1> SUFFICES ASSUME Init PROVE IInv
    OBVIOUS
  <1> USE MfaConstants DEF Init
  <1>1. TypeOK
    <2>1. attempts \in [Challenges -> 0..MaxAttempts] /\ read \in [Requests -> 0..MaxAttempts]
      BY DEF MaxAttempts
    <2>2. required \in BOOLEAN /\ swapped \in BOOLEAN /\ late \in [Requests -> BOOLEAN]
      OBVIOUS
    <2> QED
      BY <2>1, <2>2 DEF TypeOK, Labels
  <1>2. Frames /\ Proved /\ Revoked
    BY DEF Frames, ChallengeLabels, AnswerLabels, Proved, ActiveSecretProved,
           Revoked
  <1>3. Paid
    BY DEF Paid, PaidFor, MaxAttempts
  <1> QED
    BY <1>1, <1>2, <1>3 DEF IInv, Base

\* The end of a request disturbs nothing.
LEMMA ReturnKeeps ==
    ASSUME Base, NEW r \in Requests, Return(r), required' \in BOOLEAN,
           UNCHANGED <<status, secret, redis, rows, history>>
    PROVE  Base'
  <1> USE MfaConstants DEF Base, redis, rows, history, Return, Goto
  <1>1. TypeOK'
    <2>1. late' \in [Requests -> BOOLEAN]
      BY DEF TypeOK
    <2>2. pc' \in [Requests -> Labels] /\ read' \in [Requests -> 0..MaxAttempts]
      BY DEF TypeOK, Labels, MaxAttempts
    <2> QED
      BY <2>1, <2>2 DEF TypeOK
  <1>2. Frames'
    BY DEF TypeOK, Frames, ChallengeLabels, AnswerLabels
  <1>3. Proved' /\ Revoked'
    BY DEF TypeOK, Proved, ActiveSecretProved, Revoked
  <1> QED
    BY <1>1, <1>2, <1>3

\* Every action keeps types, frames, and what is known about secrets and sessions.
LEMMA BaseNext ==
    ASSUME Base, [Next]_vars
    PROVE  Base'
  <1> USE MfaConstants DEF Base, TypeOK, Frames, Proved, ActiveSecretProved, Revoked,
          ChallengeLabels, AnswerLabels, Labels, MaxAttempts, method, redis, rows,
          locals, history, Goto
  <1>1. ASSUME NEW r \in Requests, NEW x \in Secrets, BeginEnroll(r, x)
        PROVE  Base'
    BY <1>1 DEF BeginEnroll
  <1>2. ASSUME NEW r \in Requests, NEW x \in Secrets, ConfirmEnroll(r, x)
        PROVE  Base'
    BY <1>2 DEF ConfirmEnroll
  <1>3. ASSUME NEW r \in Requests, NEW x \in Secrets, Disable(r, x)
        PROVE  Base'
    BY <1>3 DEF Disable
  <1>4. ASSUME NEW r \in Requests, Activate(r)
        PROVE  Base'
    BY <1>4 DEF Activate
  <1>5. ASSUME NEW r \in Requests, Require(r)
        PROVE  Base'
    BY <1>5, ReturnKeeps DEF Require
  <1>6. ASSUME NEW r \in Requests, DisableMethod(r)
        PROVE  Base'
    BY <1>6 DEF DisableMethod
  <1>7. ASSUME NEW r \in Requests, Unrequire(r)
        PROVE  Base'
    <2>1. required' \in BOOLEAN /\ Return(r) /\ UNCHANGED <<status, secret, redis, rows, history>>
      BY <1>7 DEF Unrequire
    <2> HIDE DEF Base
    <2> QED
      BY <2>1, ReturnKeeps
  <1>8. ASSUME NEW r \in Requests, LoginNeedsFactor(r)
        PROVE  Base'
    BY <1>8 DEF LoginNeedsFactor
  <1>9. ASSUME NEW r \in Requests, CreateSession(r)
        PROVE  Base'
    <2>1. CASE Return(r) /\ UNCHANGED sessions
      BY <1>9, <2>1, ReturnKeeps DEF CreateSession
    <2>2. CASE \E c \in Unused : /\ sessions' = sessions \union {c}
                                  /\ chal' = [chal EXCEPT ![r] = c]
                                  /\ Goto(r, "createChallenge")
                                  /\ UNCHANGED <<given, read, late>>
      BY <1>9, <2>2 DEF CreateSession, Unused
    <2> QED
      BY <1>9, <2>1, <2>2 DEF CreateSession
  <1>10. ASSUME NEW r \in Requests, CreateLoginChallenge(r)
         PROVE  Base'
    BY <1>10 DEF CreateLoginChallenge, Return
  <1>11. ASSUME NEW r \in Requests, NEW c \in Challenges,
                NEW x \in Secrets \union {NoSecret}, VerifyLoginChallenge(r, c, x)
         PROVE  Base'
    BY <1>11 DEF VerifyLoginChallenge, Exhausted
  <1>12. ASSUME NEW r \in Requests, TooManyAttempts(r)
         PROVE  Base'
    BY <1>12 DEF TooManyAttempts, Return
  <1>13. ASSUME NEW r \in Requests, CheckCode(r)
         PROVE  Base'
    BY <1>13 DEF CheckCode
  <1>14. ASSUME NEW r \in Requests, PutBack(r)
         PROVE  Base'
    BY <1>14 DEF PutBack, Return
  <1>15. ASSUME NEW r \in Requests, MarkPassed(r)
         PROVE  Base'
    BY <1>15 DEF MarkPassed
  <1>16. ASSUME NEW r \in Requests, ConsumeChallenge(r)
         PROVE  Base'
    BY <1>16 DEF ConsumeChallenge
  <1>17. ASSUME NEW r \in Requests, FindSession(r)
         PROVE  Base'
    <2>1. CASE Return(r)
      BY <1>17, <2>1, ReturnKeeps DEF FindSession
    <2>2. CASE chal[r] \notin revoked /\ Goto(r, "issue") /\ UNCHANGED locals
      BY <1>17, <2>2 DEF FindSession
    <2> QED
      BY <1>17, <2>1, <2>2 DEF FindSession
  <1>18. ASSUME NEW r \in Requests, Issue(r)
         PROVE  Base'
    BY <1>18 DEF Issue, Return
  <1>19. ASSUME NEW c \in Challenges, ExpireChallenge(c)
         PROVE  Base'
    BY <1>19 DEF ExpireChallenge
  <1>20. CASE RevokeSessions
    BY <1>20 DEF RevokeSessions
  <1>21. CASE UNCHANGED vars
    BY <1>21 DEF vars
  <1> HIDE DEF Base
  <1> QED
    BY <1>1, <1>2, <1>3, <1>4, <1>5, <1>6, <1>7, <1>8, <1>9, <1>10, <1>11, <1>12,
       <1>13, <1>14, <1>15, <1>16, <1>17, <1>18, <1>19, <1>20, <1>21
       DEF Next, Request

-----------------------------------------------------------------------------
(* Every burst is paid for.                                                *)

\* A step that begins no burst, and leaves the challenge and the answers under
\* way as they were, or deletes it.
Undisturbed(c) ==
    /\ bursts'[c] = bursts[c]
    /\ c \in sessions => c \in sessions'
    /\ \A r \in Requests : chal'[r] = c =>
          /\ pc'[r] = "createChallenge" =>
                c \notin sessions \/ (chal[r] = c /\ pc[r] = "createChallenge")
          /\ pc'[r] \in {"check", "putBack"} =>
                chal[r] = c /\ pc[r] \in {"check", "putBack"} /\ read'[r] = read[r]
    /\ c \in live' =>
          /\ c \in live /\ attempts'[c] = attempts[c]
          /\ \A r \in Requests : Answering(r, c) => Answering(r, c)'

\* Such a step keeps the account of c.
LEMMA UndisturbedKeeps ==
    ASSUME NEW c \in Challenges, PaidFor(c), Undisturbed(c)
    PROVE  PaidFor(c)'
  BY DEF PaidFor, Undisturbed

\* A new challenge has no bursts behind it.
LEMMA CreateOwesNothing ==
    ASSUME Base, NEW a \in Requests, CreateLoginChallenge(a),
           NEW c \in Challenges, chal[a] = c, PaidFor(c)
    PROVE  PaidFor(c)'
  <1>1. bursts'[c] = 0 /\ attempts'[c] = 0 /\ sessions' = sessions
    BY DEF CreateLoginChallenge, PaidFor, Base, TypeOK, redis, rows, history
  <1>2. \A r \in Requests : chal'[r] # c
    BY MfaConstants DEF CreateLoginChallenge, Return, Base, TypeOK, Frames
  <1> QED
    BY <1>1, <1>2 DEF PaidFor, MaxAttempts

\* An answer that finds no other under way begins a burst, within the attempts
\* that are left; one that joins a burst holds a count no older than the burst.
LEMMA ReadIsPaid ==
    ASSUME Base, NEW a \in Requests, NEW c \in Challenges,
           NEW x \in Secrets \union {NoSecret}, VerifyLoginChallenge(a, c, x), PaidFor(c)
    PROVE  PaidFor(c)'
  <1>1. /\ c \in live /\ live' = live /\ attempts' = attempts /\ sessions' = sessions
        /\ attempts[c] \in 0..MaxAttempts /\ bursts[c] \in Nat /\ c \in sessions
        /\ read'[a] = attempts[c] /\ chal'[a] = c /\ pc[a] = "idle"
        /\ \A r \in Requests \ {a} :
              chal'[r] = chal[r] /\ pc'[r] = pc[r] /\ read'[r] = read[r]
    BY DEF VerifyLoginChallenge, Base, TypeOK, Goto, redis, rows
  <1>2. CASE Exhausted(attempts[c])
    <2>1. bursts' = bursts /\ pc'[a] = "tooMany"
      BY <1>2 DEF VerifyLoginChallenge, Base, TypeOK, Goto
    <2>2. \A r \in Requests : Answering(r, c) => Answering(r, c)'
      BY <1>1 DEF Answering
    <2> QED
      BY <1>1, <2>1, <2>2 DEF PaidFor
  <1>3. CASE ~Exhausted(attempts[c])
    <2>1. pc'[a] = "check" /\ attempts[c] < MaxAttempts
      BY <1>1, <1>3 DEF VerifyLoginChallenge, Base, TypeOK, Goto, Exhausted, MaxAttempts
    <2>2. Answering(a, c)'
      BY <1>1, <2>1 DEF Answering
    <2>3. CASE \E q \in Requests : Answering(q, c)
      <3>1. bursts' = bursts
        BY <2>3 DEF VerifyLoginChallenge
      <3> QED
        BY <1>1, <2>1, <2>2, <3>1 DEF PaidFor
    <2>4. CASE \A q \in Requests : ~Answering(q, c)
      <3>1. bursts'[c] = bursts[c] + 1 /\ bursts[c] <= attempts[c]
        BY <1>1, <1>3, <2>4 DEF VerifyLoginChallenge, PaidFor, Base, TypeOK
      <3>2. \A r \in Requests \ {a} : chal[r] = c =>
               pc[r] \notin {"createChallenge", "check", "putBack"}
        BY <1>1, <2>4 DEF Answering, Base, Frames
      <3> QED
        BY <1>1, <2>1, <2>2, <3>1, <3>2 DEF PaidFor, MaxAttempts
    <2> QED
      BY <2>3, <2>4
  <1> QED
    BY <1>2, <1>3

\* Whatever an answer writes back counts the burst it belongs to.
LEMMA WriteIsPaid ==
    ASSUME Base, NEW a \in Requests, PutBack(a),
           NEW c \in Challenges, chal[a] = c, PaidFor(c)
    PROVE  PaidFor(c)'
  <1>1. /\ bursts' = bursts /\ sessions' = sessions /\ attempts'[c] = read[a] + 1
        /\ bursts[c] \in Nat /\ read[a] \in 0..MaxAttempts /\ bursts[c] <= read[a] + 1
    BY DEF PutBack, PaidFor, Base, TypeOK, rows, history, MaxAttempts
  <1>2. \A r \in Requests : chal'[r] = c =>
           chal[r] = c /\ pc'[r] = pc[r] /\ read'[r] = read[r]
    BY MfaConstants DEF PutBack, Return, Goto, Base, TypeOK
  <1> QED
    BY <1>1, <1>2 DEF PaidFor, MaxAttempts

\* Every other action leaves the account of c undisturbed, and so do these three
\* when they are about another challenge.
LEMMA OthersDisturbNothing ==
    ASSUME Base, [Next]_vars, NEW c \in Challenges
    PROVE  \/ Undisturbed(c)
           \/ \E a \in Requests : /\ chal[a] = c
                                  /\ CreateLoginChallenge(a) \/ PutBack(a)
           \/ \E a \in Requests, x \in Secrets \union {NoSecret} : VerifyLoginChallenge(a, c, x)
  <1> USE MfaConstants DEF Base, TypeOK, Frames, ChallengeLabels, AnswerLabels, Undisturbed,
          Answering, Goto, method, redis, rows, locals, history
  <1>1. ASSUME NEW a \in Requests, NEW x \in Secrets, BeginEnroll(a, x)
        PROVE  Undisturbed(c)
    BY <1>1 DEF BeginEnroll
  <1>2. ASSUME NEW a \in Requests, NEW x \in Secrets, ConfirmEnroll(a, x)
        PROVE  Undisturbed(c)
    BY <1>2 DEF ConfirmEnroll
  <1>3. ASSUME NEW a \in Requests, NEW x \in Secrets, Disable(a, x)
        PROVE  Undisturbed(c)
    BY <1>3 DEF Disable
  <1>4. ASSUME NEW a \in Requests, Activate(a)
        PROVE  Undisturbed(c)
    BY <1>4 DEF Activate
  <1>5. ASSUME NEW a \in Requests, Require(a)
        PROVE  Undisturbed(c)
    BY <1>5 DEF Require, Return
  <1>6. ASSUME NEW a \in Requests, DisableMethod(a)
        PROVE  Undisturbed(c)
    BY <1>6 DEF DisableMethod
  <1>7. ASSUME NEW a \in Requests, Unrequire(a)
        PROVE  Undisturbed(c)
    BY <1>7 DEF Unrequire, Return
  <1>8. ASSUME NEW a \in Requests, LoginNeedsFactor(a)
        PROVE  Undisturbed(c)
    BY <1>8 DEF LoginNeedsFactor
  <1>9. ASSUME NEW a \in Requests, CreateSession(a)
        PROVE  Undisturbed(c)
    BY <1>9 DEF CreateSession, Return, Unused
  <1>10. ASSUME NEW a \in Requests, TooManyAttempts(a)
        PROVE  Undisturbed(c)
    BY <1>10 DEF TooManyAttempts, Return
  <1>11. ASSUME NEW a \in Requests, MarkPassed(a)
        PROVE  Undisturbed(c)
    BY <1>11 DEF MarkPassed
  <1>12. ASSUME NEW a \in Requests, ConsumeChallenge(a)
        PROVE  Undisturbed(c)
    BY <1>12 DEF ConsumeChallenge
  <1>13. ASSUME NEW a \in Requests, FindSession(a)
        PROVE  Undisturbed(c)
    BY <1>13 DEF FindSession, Return
  <1>14. ASSUME NEW a \in Requests, Issue(a)
        PROVE  Undisturbed(c)
    BY <1>14 DEF Issue, Return
  <1>15. ASSUME NEW a \in Requests, CreateLoginChallenge(a), chal[a] # c
         PROVE  Undisturbed(c)
    BY <1>15 DEF CreateLoginChallenge, Return
  <1>16. ASSUME NEW a \in Requests, CheckCode(a)
         PROVE  Undisturbed(c)
    BY <1>16 DEF CheckCode
  <1>17. ASSUME NEW a \in Requests, PutBack(a), chal[a] # c
         PROVE  Undisturbed(c)
    BY <1>17 DEF PutBack, Return
  <1>18. ASSUME NEW a \in Requests, NEW d \in Challenges, NEW x \in Secrets \union {NoSecret},
                VerifyLoginChallenge(a, d, x), d # c
         PROVE  Undisturbed(c)
    BY <1>18 DEF VerifyLoginChallenge
  <1>19. ASSUME NEW d \in Challenges, ExpireChallenge(d)
         PROVE  Undisturbed(c)
    BY <1>19 DEF ExpireChallenge
  <1>20. CASE RevokeSessions \/ UNCHANGED vars
    BY <1>20 DEF RevokeSessions, vars
  <1> HIDE DEF Base, Undisturbed
  <1> QED
    BY <1>1, <1>2, <1>3, <1>4, <1>5, <1>6, <1>7, <1>8, <1>9, <1>10, <1>11, <1>12,
       <1>13, <1>14, <1>15, <1>16, <1>17, <1>18, <1>19, <1>20 DEF Next, Request

\* Every burst has cost an attempt.
LEMMA PaidNext ==
    ASSUME Base, Paid, [Next]_vars
    PROVE  Paid'
  <1> SUFFICES ASSUME NEW c \in Challenges PROVE PaidFor(c)'
    BY DEF Paid
  <1>1. PaidFor(c)
    BY DEF Paid
  <1> QED
    BY <1>1, OthersDisturbNothing, UndisturbedKeeps, CreateOwesNothing, ReadIsPaid, WriteIsPaid

\* The invariant of MfaService and completeMfaChallenge.
THEOREM Invariance == Spec => []IInv
  <1>1. Init => IInv
    BY IInvInit
  <1>2. IInv /\ [Next]_vars => IInv'
    BY BaseNext, PaidNext DEF IInv
  <1> QED
    BY <1>1, <1>2, PTL DEF Spec

\* Rows, challenges and requests keep their types; the attempts stay within 3.
THEOREM TypeCorrect == Spec => []TypeOK
  <1>1. IInv => TypeOK
    BY DEF IInv, Base
  <1> QED
    BY <1>1, Invariance, PTL

\* The secret of an active method was proved, unless enrolments crossed.
THEOREM EnrolmentsAreProved == Spec => []ActiveSecretProved
  <1>1. IInv => ActiveSecretProved
    BY DEF IInv, Base, Proved
  <1> QED
    BY <1>1, Invariance, PTL

\* completeMfaChallenge gives no tokens for a session revoked before it began.
THEOREM RevokedYieldsNoTokens == Spec => []NoTokensAfterRevocation
  <1>1. IInv => NoTokensAfterRevocation
    BY DEF IInv, Base, Revoked, AnswerLabels, NoTokensAfterRevocation
  <1> QED
    BY <1>1, Invariance, PTL

\* However many answers to one challenge overlap, and however late each writes
\* the counter back, the challenge takes at most three bursts of them.
THEOREM BurstsAreCounted == Spec => []ThreeBursts
  <1>1. IInv => ThreeBursts
    BY DEF IInv, Paid, PaidFor, ThreeBursts
  <1> QED
    BY <1>1, Invariance, PTL

=============================================================================
