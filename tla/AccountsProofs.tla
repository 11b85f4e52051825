---------------------------- MODULE AccountsProofs ----------------------------
(***************************************************************************)
(* Proofs about Accounts, for every finite set of requests, any reset      *)
(* tokens, limits and durations.                                           *)
(*                                                                         *)
(* The invariant: Once (a reset token is consumed before it is applied,    *)
(* and by one request), Gates (how the status can be what a login needs),  *)
(* OldSessions (who still owes the revocation) and Counts (how many        *)
(* failures the logins in flight can add without one of them locking).     *)
(***************************************************************************)
EXTENDS Accounts, TLAPS, FiniteSetTheorems

\* A token not yet used has set nothing, and of the requests that consumed one
\* at most one still has to apply it.
Once ==
    /\ \A k \in Resets : applied[k] <= 1 /\ (reset[k] # "used" => applied[k] = 0)
    /\ \A r \in Requests : pc[r] = "updateHash" =>
          token[r] \in Resets /\ reset[token[r]] = "used" /\ applied[token[r]] = 0
    /\ \A r, q \in Requests :
          pc[r] = "updateHash" /\ pc[q] = "updateHash" /\ token[r] = token[q] => r = q

\* On an account that was never locked, only a vouched one is active, and a
\* barred one stays disabled.
Gates ==
    /\ status = "locked" => everLocked
    /\ ~everLocked =>
          /\ status = "active" => vouched
          /\ barred => status = "disabled"
          /\ open # {} => vouched
          /\ \A r \in Requests : pc[r] = "risk" => vouched
          /\ \A r \in Requests : ~lateBar[r]
    /\ \A r \in Requests : pc[r] = "markVerified" => vouched

\* Whatever belongs to an old password is still to be revoked.
OldSessions ==
    ~crashed /\ ~straddled =>
        /\ open \subseteq {pwd} \/ \E q \in Requests : pc[q] = "revokeAll"
        /\ \A r \in Requests : pc[r] = "risk" /\ guess[r] # pwd =>
              \E q \in Requests : pc[q] = "revokeAll"

\* Failures still to be recorded, and those of them that will not lock.
Recorders == {r \in Requests : pc[r] = "recordFailed"}
Low == {r \in Recorders : ~ReachesLimit(count[r] + 1)}

Counts ==
    /\ failed + Cardinality(Recorders) <= MaxCount
    /\ ~crashed /\ lockedUntil = 0 =>
          \/ \E q \in Requests : pc[q] = "lockUntil"
          \/ failed + Cardinality(Low) <= MaxFailedLogins + Cardinality(Requests) - 2
    /\ \A r \in Requests : pc[r] = "lockUntil" => until[r] > 0

Rest == TypeOK /\ Once /\ Gates /\ OldSessions
IInv == Rest /\ Counts

-----------------------------------------------------------------------------
(* The failures in flight.                                                 *)

\* The sets counted are finite, and no larger than the requests.
LEMMA Sizes ==
    /\ IsFiniteSet(Recorders) /\ Cardinality(Recorders) \in Nat
    /\ IsFiniteSet(Low) /\ Cardinality(Low) \in Nat
    /\ Cardinality(Requests) \in Nat \ {0}
    /\ Cardinality(Low) <= Cardinality(Requests)
  <1>1. Recorders \in SUBSET Requests /\ Low \in SUBSET Requests
    BY DEF Recorders, Low
  <1>2. IsFiniteSet(Recorders) /\ IsFiniteSet(Low) /\ Cardinality(Low) <= Cardinality(Requests)
    BY <1>1, FS_Subset, AccountConstants
  <1> QED
    BY <1>2, FS_CardinalityType, FS_EmptySet, AccountConstants

\* Somebody who records no failure leaves room for one more than the others.
LEMMA LowLeavesOut ==
    ASSUME NEW r \in Requests, r \notin Low
    PROVE  Cardinality(Low) <= Cardinality(Requests) - 1
  <1>1. Low \in SUBSET (Requests \ {r})
    BY DEF Low, Recorders
  <1>2. /\ IsFiniteSet(Requests \ {r})
        /\ Cardinality(Requests \ {r}) = Cardinality(Requests) - 1
    BY FS_RemoveElement, AccountConstants
  <1> QED
    BY <1>1, <1>2, FS_Subset

\* A step of a request that records no failure and sets no lock.
LEMMA CountsKept ==
    ASSUME TypeOK, Counts, NEW r \in Requests,
           pc[r] \notin {"recordFailed", "lockUntil"},
           NEW l \in Labels \ {"recordFailed", "lockUntil"}, pc' = [pc EXCEPT ![r] = l],
           \A q \in Requests \ {r} : count'[q] = count[q] /\ until'[q] = until[q],
           crashed => crashed',
           \/ failed' = failed /\ lockedUntil' = lockedUntil
           \/ failed' = 0 /\ lockedUntil' = 0
    PROVE  Counts'
  <1>1. Recorders' = Recorders
    BY DEF Recorders, TypeOK
  <1>2. Low' = Low /\ r \notin Low
    BY <1>1 DEF Low, Recorders
  <1>3. Cardinality(Low) <= Cardinality(Requests) - 1
    BY <1>2, LowLeavesOut
  <1>4. \A q \in Requests : pc'[q] = "lockUntil" <=> pc[q] = "lockUntil"
    BY DEF TypeOK
  <1>5. \A q \in Requests : pc'[q] = "lockUntil" => until'[q] > 0
    BY <1>4 DEF Counts
  <1> QED
    BY <1>1, <1>2, <1>3, <1>4, <1>5, Sizes, AccountConstants DEF Counts, TypeOK

-----------------------------------------------------------------------------

\* No account and no request.
LEMMA IInvInit == Init => IInv
  <1> SUFFICES ASSUME Init PROVE IInv
    OBVIOUS
  <1> USE AccountConstants DEF Init
  <1>1. TypeOK
    <2>1. status \in Statuses /\ failed \in 0..MaxCount /\ lockedUntil \in Nat /\ now \in Nat
      BY DEF Statuses
    <2>2. hasRole \in BOOLEAN /\ verification \in TokenStates /\ reset \in [Resets -> TokenStates]
      BY DEF TokenStates
    <2>3. open \subseteq Passwords /\ pwd \in Passwords /\ guess \in [Requests -> Passwords]
          /\ token \in [Requests -> Passwords] /\ pc \in [Requests -> Labels]
      BY DEF Passwords, Labels
    <2> QED
      BY <2>1, <2>2, <2>3 DEF TypeOK
  <1>2. Once /\ Gates /\ OldSessions
    BY DEF Once, Gates, OldSessions
  <1>3. Counts
    <2>1. Recorders = {} /\ Low = {}
      BY DEF Recorders, Low
    <2> QED
      BY <2>1, FS_EmptySet, Sizes DEF Counts
  <1> QED
    BY <1>1, <1>2, <1>3 DEF IInv, Rest

\* Every action keeps the invariant.
LEMMA IInvNext ==
    ASSUME IInv, [Next]_vars
    PROVE  IInv'
  <1> USE AccountConstants DEF row, tokens, locals, history, Goto
  <1>a. TypeOK /\ Once /\ Gates /\ OldSessions /\ Counts
    BY DEF IInv, Rest
  <1>1. ASSUME NEW r \in Requests, Register(r)
        PROVE  IInv'
    <2>1. Rest'
      BY <1>a, <1>1
         DEF Rest, Register, TypeOK, Once, Gates, OldSessions, Statuses, Passwords,
             TokenStates, Labels
    <2>2. Counts'
      BY <1>a, <1>1, CountsKept DEF Register, Labels, TypeOK
    <2> QED
      BY <2>1, <2>2 DEF IInv
  <1>2. ASSUME NEW r \in Requests, Create(r)
        PROVE  IInv'
    <2>1. Rest'
      BY <1>a, <1>2
         DEF Rest, Create, TypeOK, Once, Gates, OldSessions, Statuses, Passwords,
             TokenStates, Labels
    <2>2. Counts'
      BY <1>a, <1>2, CountsKept DEF Create, Labels, TypeOK
    <2> QED
      BY <2>1, <2>2 DEF IInv
  <1>3. ASSUME NEW r \in Requests, AddRole(r)
        PROVE  IInv'
    <2>1. Rest'
      BY <1>a, <1>3
         DEF Rest, AddRole, TypeOK, Once, Gates, OldSessions, Statuses, Passwords,
             TokenStates, Labels
    <2>2. Counts'
      BY <1>a, <1>3, CountsKept DEF AddRole, Labels, TypeOK
    <2> QED
      BY <2>1, <2>2 DEF IInv
  <1>4. ASSUME NEW r \in Requests, IssueVerification(r)
        PROVE  IInv'
    <2>1. Rest'
      BY <1>a, <1>4
         DEF Rest, IssueVerification, TypeOK, Once, Gates, OldSessions, Statuses,
             Passwords, TokenStates, Labels
    <2>2. Counts'
      BY <1>a, <1>4, CountsKept DEF IssueVerification, Labels, TypeOK
    <2> QED
      BY <2>1, <2>2 DEF IInv
  <1>5. ASSUME NEW r \in Requests, VerifyEmail(r)
        PROVE  IInv'
    <2>1. Rest'
      BY <1>a, <1>5
         DEF Rest, VerifyEmail, TypeOK, Once, Gates, OldSessions, Statuses,
             Passwords, TokenStates, Labels
    <2>2. Counts'
      BY <1>a, <1>5, CountsKept DEF VerifyEmail, Labels, TypeOK
    <2> QED
      BY <2>1, <2>2 DEF IInv
  <1>6. ASSUME NEW r \in Requests, MarkVerified(r)
        PROVE  IInv'
    <2>1. Rest'
      BY <1>a, <1>6
         DEF Rest, MarkVerified, TypeOK, Once, Gates, OldSessions, Statuses,
             Passwords, TokenStates, Labels
    <2>2. Counts'
      BY <1>a, <1>6, CountsKept DEF MarkVerified, Labels, TypeOK
    <2> QED
      BY <2>1, <2>2 DEF IInv
  <1>7. ASSUME NEW r \in Requests, NEW p \in Passwords, LoginAccepted(r, p)
        PROVE  IInv'
    <2>1. Rest'
      BY <1>a, <1>7
         DEF Rest, LoginAccepted, MayTry, PasswordAccepted, TypeOK, Once, Gates,
             OldSessions, Statuses, Passwords, TokenStates, Labels
    <2>2. Counts'
      BY <1>a, <1>7, CountsKept DEF LoginAccepted, Labels, TypeOK
    <2> QED
      BY <2>1, <2>2 DEF IInv
  <1>8. ASSUME NEW r \in Requests, RiskDenied(r)
        PROVE  IInv'
    <2>1. Rest'
      BY <1>a, <1>8
         DEF Rest, RiskDenied, Return, TypeOK, Once, Gates, OldSessions, Statuses,
             Passwords, TokenStates, Labels
    <2>2. Counts'
      BY <1>a, <1>8, CountsKept DEF RiskDenied, Return, Labels, TypeOK
    <2> QED
      BY <2>1, <2>2 DEF IInv
  <1>9. ASSUME NEW r \in Requests, OpenSession(r)
        PROVE  IInv'
    <2>1. Rest'
      BY <1>a, <1>9
         DEF Rest, OpenSession, TypeOK, Once, Gates, OldSessions, Statuses,
             Passwords, TokenStates, Labels
    <2>2. Counts'
      BY <1>a, <1>9, CountsKept DEF OpenSession, Labels, TypeOK
    <2> QED
      BY <2>1, <2>2 DEF IInv
  <1>10. ASSUME NEW r \in Requests, IssueTokens(r)
        PROVE  IInv'
    <2>1. Rest'
      BY <1>a, <1>10
         DEF Rest, IssueTokens, TypeOK, Once, Gates, OldSessions, Statuses,
             Passwords, TokenStates, Labels
    <2>2. Counts'
      BY <1>a, <1>10, CountsKept DEF IssueTokens, Labels, TypeOK
    <2> QED
      BY <2>1, <2>2 DEF IInv
  <1>11. ASSUME NEW r \in Requests, ClearLockAndFailures(r)
        PROVE  IInv'
    <2>1. Rest'
      BY <1>a, <1>11
         DEF Rest, ClearLockAndFailures, Return, TypeOK, Once, Gates, OldSessions,
             Statuses, Passwords, TokenStates, Labels
    <2>2. Counts'
      BY <1>a, <1>11, CountsKept DEF ClearLockAndFailures, Return, Labels, TypeOK
    <2> QED
      BY <2>1, <2>2 DEF IInv
  <1>12. ASSUME NEW r \in Requests, ForgotPassword(r)
        PROVE  IInv'
    <2>1. Rest'
      BY <1>a, <1>12
         DEF Rest, ForgotPassword, TypeOK, Once, Gates, OldSessions, Statuses,
             Passwords, TokenStates, Labels
    <2>2. Counts'
      BY <1>a, <1>12, CountsKept DEF ForgotPassword, Labels, TypeOK
    <2> QED
      BY <2>1, <2>2 DEF IInv
  <1>13. ASSUME NEW r \in Requests, IssuePasswordReset(r)
        PROVE  IInv'
    <2>1. Rest'
      BY <1>a, <1>13
         DEF Rest, IssuePasswordReset, TypeOK, Once, Gates, OldSessions, Statuses,
             Passwords, TokenStates, Labels
    <2>2. Counts'
      BY <1>a, <1>13, CountsKept DEF IssuePasswordReset, Labels, TypeOK
    <2> QED
      BY <2>1, <2>2 DEF IInv
  <1>14. ASSUME NEW r \in Requests, NEW k \in Resets, ResetPassword(r, k)
        PROVE  IInv'
    <2>1. Rest'
      BY <1>a, <1>14
         DEF Rest, ResetPassword, ResetUsable, TypeOK, Once, Gates, OldSessions,
             Statuses, Passwords, TokenStates, Labels
    <2>2. Counts'
      BY <1>a, <1>14, CountsKept DEF ResetPassword, Labels, TypeOK
    <2> QED
      BY <2>1, <2>2 DEF IInv
  <1>15. ASSUME NEW r \in Requests, UpdatePasswordHash(r)
        PROVE  IInv'
    <2>1. Rest'
      BY <1>a, <1>15
         DEF Rest, UpdatePasswordHash, TypeOK, Once, Gates, OldSessions, Statuses,
             Passwords, TokenStates, Labels
    <2>2. Counts'
      BY <1>a, <1>15, CountsKept DEF UpdatePasswordHash, Labels, TypeOK
    <2> QED
      BY <2>1, <2>2 DEF IInv
  <1>16. ASSUME NEW r \in Requests, RevokeAllForUser(r)
        PROVE  IInv'
    <2>1. Rest'
      BY <1>a, <1>16
         DEF Rest, RevokeAllForUser, Return, TypeOK, Once, Gates, OldSessions,
             Statuses, Passwords, TokenStates, Labels
    <2>2. Counts'
      BY <1>a, <1>16, CountsKept DEF RevokeAllForUser, Return, Labels, TypeOK
    <2> QED
      BY <2>1, <2>2 DEF IInv
  <1>17. ASSUME NEW r \in Requests, NEW p \in Passwords, LoginRejected(r, p)
         PROVE  IInv'
    <2>1. Rest'
      BY <1>a, <1>17
         DEF Rest, LoginRejected, TypeOK, Once, Gates, OldSessions, Statuses,
             Passwords, TokenStates, Labels
    <2>2. Recorders' = Recorders \union {r} /\ r \notin Recorders
      BY <1>a, <1>17 DEF LoginRejected, Recorders, TypeOK
    <2>3. Cardinality(Recorders)' = Cardinality(Recorders) + 1
      BY <2>2, FS_AddElement, Sizes
    <2>4. Cardinality(Recorders) <= Cardinality(InFlight) /\ Cardinality(InFlight) \in Nat
      <3>1. IsFiniteSet(InFlight) /\ Recorders \in SUBSET InFlight
        BY FS_Subset DEF InFlight, Recorders
      <3> QED
        BY <3>1, FS_Subset, FS_CardinalityType
    <2>5. failed' + Cardinality(Recorders)' <= MaxCount
      BY <1>a, <1>17, <2>3, <2>4, Sizes DEF LoginRejected, TypeOK
    <2>6. \/ Low' = Low
          \/ failed + 1 < MaxFailedLogins
      BY <1>a, <1>17, <2>2 DEF LoginRejected, Low, ReachesLimit, Recorders, TypeOK
    <2>7. Cardinality(Low)' <= Cardinality(Requests) /\ Cardinality(Low)' \in Nat
      <3>1. Low' \in SUBSET Requests
        BY DEF Low, Recorders
      <3> QED
        BY <3>1, FS_Subset, FS_CardinalityType
    <2>8. Counts'
      BY <1>a, <1>17, <2>5, <2>6, <2>7, Sizes DEF Counts, LoginRejected, TypeOK
    <2> QED
      BY <2>1, <2>8 DEF IInv
  <1>18. ASSUME NEW r \in Requests, RecordFailedLogin(r)
         PROVE  IInv'
    <2>1. Recorders' = Recorders \ {r} /\ r \in Recorders
      BY <1>a, <1>18 DEF RecordFailedLogin, Return, Recorders, TypeOK
    <2>2. Cardinality(Recorders)' = Cardinality(Recorders) - 1
      BY <2>1, FS_RemoveElement, Sizes
    <2>3. failed' = failed + 1 /\ failed' + Cardinality(Recorders)' <= MaxCount
      BY <1>a, <1>18, <2>2, Sizes DEF RecordFailedLogin, Counts, TypeOK
    <2>4. failed' \in 0..MaxCount
      <3>1. Cardinality(Recorders)' \in Nat
        BY <2>1, FS_RemoveElement, FS_CardinalityType, Sizes
      <3> QED
        BY <1>a, <2>3, <3>1 DEF TypeOK
    <2>5. CASE /\ ReachesLimit(count[r] + 1)
               /\ until' = [until EXCEPT ![r] = now + Lockout]
               /\ Goto(r, "lockUntil")
               /\ UNCHANGED <<guess, count, token, lateBar>>
      <3>1. Rest'
        BY <1>a, <1>18, <2>4, <2>5
           DEF Rest, RecordFailedLogin, TypeOK, Once, Gates, OldSessions, Statuses,
               Passwords, TokenStates, Labels
      <3>2. Counts'
        BY <1>a, <1>18, <2>3, <2>5 DEF Counts, RecordFailedLogin, TypeOK
      <3> QED
        BY <3>1, <3>2 DEF IInv
    <2>6. CASE ~ReachesLimit(count[r] + 1) /\ Return(r)
      <3>1. Rest'
        BY <1>a, <1>18, <2>4, <2>6
           DEF Rest, RecordFailedLogin, Return, TypeOK, Once, Gates, OldSessions,
               Statuses, Passwords, TokenStates, Labels
      <3>2. Low' = Low \ {r} /\ r \in Low
        BY <1>a, <2>1, <2>6 DEF Low, Return, Recorders, TypeOK
      <3>3. Cardinality(Low)' = Cardinality(Low) - 1
        BY <3>2, FS_RemoveElement, Sizes
      <3>4. /\ \A q \in Requests : pc'[q] = "lockUntil" <=> pc[q] = "lockUntil"
            /\ \A q \in Requests \ {r} : until'[q] = until[q]
        <4>1. pc[r] = "recordFailed"
          BY <2>1 DEF Recorders
        <4> QED
          BY <1>a, <2>6, <4>1 DEF Return, TypeOK
      <3>5. UNCHANGED <<lockedUntil, crashed>>
        BY <1>18 DEF RecordFailedLogin
      <3>6. failed' + Cardinality(Low)' = failed + Cardinality(Low)
        BY <1>a, <2>3, <3>3, Sizes DEF TypeOK
      <3>7. Counts'
        <4>1. \A q \in Requests : pc'[q] = "lockUntil" => until'[q] > 0
          BY <1>a, <2>1, <3>4 DEF Counts, Recorders
        <4> QED
          BY <1>a, <2>3, <3>4, <3>5, <3>6, <4>1 DEF Counts
      <3> QED
        BY <3>1, <3>7 DEF IInv
    <2> QED
      BY <1>18, <2>5, <2>6 DEF RecordFailedLogin
  <1>19. ASSUME NEW r \in Requests, LockUntil(r)
         PROVE  IInv'
    <2>1. lockedUntil' \in Nat \ {0}
      BY <1>a, <1>19 DEF LockUntil, Counts, TypeOK
    <2>2. Rest'
      <3>1. TypeOK'
        <4>1. status' \in Statuses /\ everLocked' \in BOOLEAN
          BY <1>a, <1>19 DEF LockUntil, TypeOK, Statuses
        <4>2. UNCHANGED <<failed, pwd, hasRole, verification, reset, open, now, vouched, barred,
                          due, crashed, straddled, applied>>
          BY <1>19 DEF LockUntil, tokens
        <4>3. /\ pc' \in [Requests -> Labels] /\ guess' \in [Requests -> Passwords]
              /\ count' \in [Requests -> Nat] /\ until' \in [Requests -> Nat]
              /\ token' \in [Requests -> Passwords] /\ lateBar' \in [Requests -> BOOLEAN]
          BY <1>a, <1>19 DEF LockUntil, Return, Goto, TypeOK, Passwords, Labels
        <4> QED
          BY <1>a, <2>1, <4>1, <4>2, <4>3 DEF TypeOK
      <3>2. Once' /\ OldSessions'
        BY <1>a, <1>19 DEF LockUntil, Return, Once, OldSessions, TypeOK
      <3>3. Gates'
        BY <1>a, <1>19 DEF LockUntil, Return, Gates, TypeOK
      <3> QED
        BY <3>1, <3>2, <3>3 DEF Rest
    <2>3. Recorders' = Recorders
      BY <1>a, <1>19 DEF LockUntil, Return, Recorders, TypeOK
    <2>4. Counts'
      BY <1>a, <1>19, <2>1, <2>3 DEF LockUntil, Return, Counts, TypeOK
    <2> QED
      BY <2>2, <2>4 DEF IInv
  <1>20. ASSUME NEW r \in Requests, Abort(r)
         PROVE  IInv'
    <2>1. Rest'
      BY <1>a, <1>20
         DEF Rest, Abort, Return, TypeOK, Once, Gates, OldSessions, Statuses,
             Passwords, TokenStates, Labels
    <2>2. Recorders' \in SUBSET Recorders
      BY <1>a, <1>20 DEF Abort, Return, Recorders, TypeOK
    <2>3. Cardinality(Recorders)' <= Cardinality(Recorders) /\ Cardinality(Recorders)' \in Nat
      BY <2>2, Sizes, FS_Subset, FS_CardinalityType
    <2>4. Counts'
      BY <1>a, <1>20, <2>3, Sizes DEF Abort, Return, Counts, TypeOK
    <2> QED
      BY <2>1, <2>4 DEF IInv
  <1>21. ASSUME NEW st \in {"active", "disabled"}, SetUserStatus(st)
         PROVE  IInv'
    <2>1. Rest'
      <3>1. TypeOK'
        BY <1>a, <1>21 DEF SetUserStatus, TypeOK, Statuses
      <3>2. Once' /\ OldSessions'
        BY <1>a, <1>21 DEF SetUserStatus, Once, OldSessions
      <3>3. Gates'
        BY <1>a, <1>21 DEF SetUserStatus, Gates
      <3> QED
        BY <3>1, <3>2, <3>3 DEF Rest
    <2>2. Recorders' = Recorders /\ Low' = Low
      BY <1>21 DEF SetUserStatus, Recorders, Low
    <2>3. Counts'
      BY <1>a, <1>21, <2>2 DEF SetUserStatus, Counts
    <2> QED
      BY <2>1, <2>3 DEF IInv
  <1>22. CASE Tick
    BY <1>a, <1>22
       DEF IInv, Rest, Tick, Counts, Recorders, Low, TypeOK, Once, Gates,
           OldSessions, Statuses, Passwords, TokenStates, Labels
  <1>23. CASE UNCHANGED vars
    BY <1>a, <1>23
       DEF IInv, Rest, vars, Counts, Recorders, Low, TypeOK, Once, Gates,
           OldSessions, Statuses, Passwords, TokenStates, Labels
  <1> QED
    BY <1>1, <1>2, <1>3, <1>4, <1>5, <1>6, <1>7, <1>8, <1>9, <1>10, <1>11, <1>12,
       <1>13, <1>14, <1>15, <1>16, <1>17, <1>18, <1>19, <1>20, <1>21, <1>22, <1>23
       DEF Next, Request, Environment

\* The invariant of an account.
THEOREM Invariance == Spec => []IInv
  <1>1. Init => IInv
    BY IInvInit
  <1>2. IInv /\ [Next]_vars => IInv'
    BY IInvNext
  <1> QED
    BY <1>1, <1>2, PTL DEF Spec

\* The row and the requests keep their types; the counter keeps within the
\* attempts made.
THEOREM TypeCorrect == Spec => []TypeOK
  <1>1. IInv => TypeOK
    BY DEF IInv, Rest
  <1> QED
    BY <1>1, Invariance, PTL

\* consumePasswordReset's UPDATE makes a token work once.
THEOREM ResetsWorkOnce == Spec => []ResetTokenWorksOnce
  <1>1. IInv => ResetTokenWorksOnce
    BY DEF IInv, Rest, Once, ResetTokenWorksOnce
  <1> QED
    BY <1>1, Invariance, PTL

\* The status gates of login hold for an account that was never locked.
THEOREM GatesHold == Spec => []StatusGates
  <1>1. IInv => StatusGates
    BY DEF IInv, Rest, Gates, StatusGates
  <1> QED
    BY <1>1, Invariance, PTL

\* A reset ends the sessions of the old password, but for a login in flight.
THEOREM OldSessionsEnd == Spec => []ResetEndsOldSessions
  <1>1. IInv => ResetEndsOldSessions
    BY DEF IInv, Rest, OldSessions, ResetEndsOldSessions, Quiet, InFlight
  <1> QED
    BY <1>1, Invariance, PTL

\* With n logins at a time, the lock comes at most n - 1 failures late.
THEOREM LockIsReached == Spec => []LockoutReached
  <1>1. ASSUME IInv, Quiet, ~crashed, lockedUntil = 0
        PROVE  failed < MaxFailedLogins + Cardinality(Requests) - 1
    <2>1. Low = {} /\ \A q \in Requests : pc[q] # "lockUntil"
      BY <1>1 DEF Quiet, InFlight, Low, Recorders
    <2> QED
      BY <1>1, <2>1, FS_EmptySet, Sizes, AccountConstants
         DEF IInv, Counts, Rest, TypeOK
  <1>2. IInv => LockoutReached
    BY <1>1, Sizes, AccountConstants DEF LockoutReached, IInv, Rest, TypeOK
  <1> QED
    BY <1>2, Invariance, PTL

\* The end computed last is in the row, or a login is about to write it.
LockDue ==
    ~crashed => \/ lockedUntil >= due
                \/ \E q \in Requests : pc[q] = "lockUntil" /\ until[q] >= due

\* Every step keeps LockDue: the end of a lock only moves back, unless it is
\* lifted, and then nothing is due.
LEMMA LockDueNext ==
    ASSUME TypeOK, LockDue, [Next]_vars
    PROVE  LockDue'
  <1> USE DEF LockDue, row, locals, history, Goto
  <1>t. TypeOK
    OBVIOUS
  <1>1. ASSUME NEW r \in Requests, RecordFailedLogin(r)
        PROVE  LockDue'
    <2>1. CASE ~ReachesLimit(count[r] + 1)
      BY <1>1, <1>t, <2>1 DEF RecordFailedLogin, Return, TypeOK
    <2>2. CASE ReachesLimit(count[r] + 1)
      <3>1. /\ pc' = [pc EXCEPT ![r] = "lockUntil"]
            /\ until' = [until EXCEPT ![r] = now + Lockout]
            /\ due' = now + Lockout
        BY <1>1, <2>2 DEF RecordFailedLogin
      <3> QED
        BY <3>1, <1>t, AccountConstants DEF TypeOK
    <2> QED
      BY <2>1, <2>2
  <1>2. ASSUME NEW r \in Requests, LockUntil(r)
        PROVE  LockDue'
    BY <1>2, <1>t DEF LockUntil, Return, TypeOK
  <1>3. ASSUME NEW r \in Requests, ClearLockAndFailures(r) \/ UpdatePasswordHash(r)
        PROVE  LockDue'
    BY <1>3 DEF ClearLockAndFailures, UpdatePasswordHash
  <1>4. ASSUME NEW r \in Requests, Abort(r)
        PROVE  LockDue'
    BY <1>4 DEF Abort
  \* everything else leaves the lock and the logins that are about to lock alone
  <1>5. ASSUME UNCHANGED <<lockedUntil, due, crashed>>,
               \A q \in Requests : pc[q] = "lockUntil" =>
                   pc'[q] = "lockUntil" /\ until'[q] = until[q]
        PROVE  LockDue'
    BY <1>5
  <1>6. ASSUME NEW r \in Requests,
               \/ Register(r) \/ Create(r) \/ AddRole(r) \/ IssueVerification(r)
               \/ VerifyEmail(r) \/ MarkVerified(r)
        PROVE  LockDue'
    BY <1>5, <1>6, <1>t DEF Register, Create, AddRole, IssueVerification, VerifyEmail,
       MarkVerified, TypeOK
  <1>7. ASSUME NEW r \in Requests, NEW p \in Passwords,
               LoginAccepted(r, p) \/ LoginRejected(r, p)
        PROVE  LockDue'
    BY <1>5, <1>7, <1>t DEF LoginAccepted, LoginRejected, TypeOK
  <1>8. ASSUME NEW r \in Requests, RiskDenied(r) \/ OpenSession(r) \/ IssueTokens(r)
        PROVE  LockDue'
    BY <1>5, <1>8, <1>t DEF RiskDenied, OpenSession, IssueTokens, Return, TypeOK
  <1>9. ASSUME NEW r \in Requests,
               \/ ForgotPassword(r) \/ IssuePasswordReset(r) \/ RevokeAllForUser(r)
               \/ \E k \in Resets : ResetPassword(r, k)
        PROVE  LockDue'
    BY <1>5, <1>9, <1>t DEF ForgotPassword, IssuePasswordReset, RevokeAllForUser,
       ResetPassword, Return, TypeOK
  <1>10. CASE Environment \/ UNCHANGED vars
    BY <1>5, <1>10 DEF Environment, SetUserStatus, Tick, vars
  <1> QED
    BY <1>1, <1>2, <1>3, <1>4, <1>6, <1>7, <1>8, <1>9, <1>10 DEF Next, Request

\* lockUntil's condition on locked_until settles the order of the writes: once
\* quiet, a lock lasts as long as the last failure to reach the limit asked for.
THEOREM LocksLast == Spec => []LockLastsItsTime
  <1>1. Init => LockDue
    BY DEF Init, LockDue
  <1>2. TypeOK /\ LockDue /\ [Next]_vars => LockDue'
    BY LockDueNext
  <1>3. LockDue => LockLastsItsTime
    BY DEF LockDue, LockLastsItsTime, Quiet, InFlight
  <1> QED
    BY <1>1, <1>2, <1>3, TypeCorrect, PTL DEF Spec

=============================================================================
