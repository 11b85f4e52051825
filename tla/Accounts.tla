------------------------------ MODULE Accounts ------------------------------
(***************************************************************************)
(* The life of one user account: registration and email verification       *)
(* (UserService), login with its lockout counter (AuthService.login),      *)
(* forgotten and reset passwords, and the administrator's status switch.   *)
(* Accounts do not share rows, so one account stands for each of them.     *)
(*                                                                         *)
(* A login works on the row it read at its start while other requests go   *)
(* on writing that row: one awaited statement is one action.  Requests     *)
(* that are refused at their first read change nothing and are left out.   *)
(***************************************************************************)
EXTENDS Naturals, FiniteSets

CONSTANTS
    Requests,         \* slots for requests in flight
    Resets,           \* password-reset tokens, each with the password it sets
    Initial,          \* the password given at registration
    MaxFailedLogins,  \* MAX_FAILED_LOGINS
    Lockout,          \* LOCKOUT_MINUTES, in ticks
    MaxTime,          \* bound on the clock
    MaxCount          \* bound on failed_login_count

Passwords == Resets \union {Initial}

ASSUME AccountConstants ==
    /\ IsFiniteSet(Requests) /\ Requests # {}
    /\ Initial \notin Resets
    /\ MaxFailedLogins \in Nat \ {0} /\ Lockout \in Nat \ {0}
    /\ MaxTime \in Nat /\ MaxCount \in Nat

VARIABLES
    \* the row in users
    status,       \* "absent" before registration
    failed,       \* failed_login_count
    lockedUntil,  \* locked_until; 0 is NULL
    pwd,          \* the password password_hash was made from
    hasRole,      \* the implicit 'user' role
    \* the rows in email_verifications and password_reset_tokens
    verification, \* the emailed token: "none", "sent" or "used"
    reset,
    open,         \* passwords that active sessions were opened with
    now,          \* the clock
    \* the requests' own variables
    pc,
    guess,        \* the password presented
    count,        \* the failed_login_count that login read
    until,        \* the lock's end that login computed
    token,        \* the reset token consumed
    \* history
    vouched,      \* the email was verified, or an administrator activated the account
    barred,       \* the administrator's last word was 'disabled'
    lateBar,      \* the account was barred when the login began
    everLocked,
    due,          \* the lock's end computed last, since a lock was last lifted
    crashed,      \* some request died on its way
    straddled,    \* a reset revoked the sessions with a login on the old password in flight
    applied       \* how often each reset token has set the password

row     == <<status, failed, lockedUntil, pwd, hasRole>>
tokens  == <<verification, reset>>
locals  == <<guess, count, until, token, lateBar>>
history == <<vouched, barred, everLocked, due, crashed, straddled, applied>>
vars == <<row, tokens, open, now, pc, locals, history>>

Statuses == {"absent", "pending_verification", "active", "locked", "disabled"}
TokenStates == {"none", "sent", "used"}
Labels == {"idle", "create", "addRole", "issueVerification", "markVerified",
           "recordFailed", "lockUntil", "risk", "issue", "clearLock",
           "issueReset", "updateHash", "revokeAll"}

InFlight == {r \in Requests : pc[r] # "idle"}

Goto(r, l) == pc' = [pc EXCEPT ![r] = l]

Return(r) ==
    /\ Goto(r, "idle")
    /\ guess' = [guess EXCEPT ![r] = Initial]
    /\ count' = [count EXCEPT ![r] = 0]
    /\ until' = [until EXCEPT ![r] = 0]
    /\ token' = [token EXCEPT ![r] = Initial]
    /\ lateBar' = [lateBar EXCEPT ![r] = FALSE]

Init ==
    /\ status = "absent" /\ failed = 0 /\ lockedUntil = 0
    /\ pwd = Initial /\ hasRole = FALSE
    /\ verification = "none" /\ reset = [k \in Resets |-> "none"]
    /\ open = {} /\ now = 1
    /\ pc = [r \in Requests |-> "idle"]
    /\ guess = [r \in Requests |-> Initial]
    /\ count = [r \in Requests |-> 0]
    /\ until = [r \in Requests |-> 0]
    /\ token = [r \in Requests |-> Initial]
    /\ vouched = FALSE /\ barred = FALSE /\ everLocked = FALSE
    /\ due = 0 /\ crashed = FALSE /\ straddled = FALSE
    /\ lateBar = [r \in Requests |-> FALSE]
    /\ applied = [k \in Resets |-> 0]

-----------------------------------------------------------------------------
(* UserService.register and verifyEmail.                                   *)

\* findByEmail finds nobody; the password is then hashed.
Register(r) ==
    /\ pc[r] = "idle" /\ status = "absent"
    /\ Goto(r, "create")
    /\ UNCHANGED <<row, tokens, open, now, locals, history>>

\* UserRepository.create: the unique email lets the first of two inserts win.
Create(r) ==
    /\ pc[r] = "create"
    /\ \/ /\ status = "absent"
          /\ status' = "pending_verification"
          /\ Goto(r, "addRole")
       \/ /\ status # "absent"
          /\ Goto(r, "idle")
          /\ UNCHANGED status
    /\ UNCHANGED <<failed, lockedUntil, pwd, hasRole, tokens, open, now, locals, history>>

AddRole(r) ==
    /\ pc[r] = "addRole"
    /\ hasRole' = TRUE
    /\ Goto(r, "issueVerification")
    /\ UNCHANGED <<status, failed, lockedUntil, pwd, tokens, open, now, locals, history>>

\* issueEmailVerification; the token is mailed.
IssueVerification(r) ==
    /\ pc[r] = "issueVerification"
    /\ verification' = "sent"
    /\ Goto(r, "idle")
    /\ UNCHANGED <<row, reset, open, now, locals, history>>

\* consumeEmailVerification: single use, by the UPDATE that matches.
VerifyEmail(r) ==
    /\ pc[r] = "idle" /\ verification = "sent"
    /\ verification' = "used"
    /\ vouched' = TRUE
    /\ Goto(r, "markVerified")
    /\ UNCHANGED <<row, reset, open, now, locals, barred, everLocked, due, crashed,
                   straddled, applied>>

\* markVerified: only an account still pending becomes active.
MarkVerified(r) ==
    /\ pc[r] = "markVerified"
    /\ status' = IF status = "pending_verification" THEN "active" ELSE status
    /\ Goto(r, "idle")
    /\ UNCHANGED <<failed, lockedUntil, pwd, hasRole, tokens, open, now, locals, history>>

-----------------------------------------------------------------------------
(* AuthService.login.                                                      *)

\* The status gates, on the row findByEmail returned.
MayTry == status \notin {"absent", "disabled"} /\ ~(lockedUntil > now)

\* Mutant of PasswordAccepted: an unverified address may log in.
PasswordAcceptedPending(p) == p = pwd

\* verifyPassword succeeds and the address is verified.
PasswordAccepted(p) == p = pwd /\ status # "pending_verification"

\* Password and status are good: on to the risk evaluation.
LoginAccepted(r, p) ==
    /\ pc[r] = "idle" /\ MayTry /\ PasswordAccepted(p)
    /\ guess' = [guess EXCEPT ![r] = p]
    /\ lateBar' = [lateBar EXCEPT ![r] = barred]
    /\ Goto(r, "risk")
    /\ UNCHANGED <<row, tokens, open, now, count, until, token, history>>

\* Wrong password.  Bound: the counter stays within MaxCount.
LoginRejected(r, p) ==
    /\ pc[r] = "idle" /\ MayTry /\ p # pwd
    /\ failed + Cardinality(InFlight) < MaxCount
    /\ count' = [count EXCEPT ![r] = failed]
    /\ Goto(r, "recordFailed")
    /\ UNCHANGED <<row, tokens, open, now, guess, until, token, lateBar, history>>

\* Mutant of ReachesLimit: the limit is one failure later.
ReachesLimitLate(n) == n >= MaxFailedLogins + 1

ReachesLimit(n) == n >= MaxFailedLogins

\* recordFailedLogin increments the row; the decision to lock is made on the
\* count read at the start.
RecordFailedLogin(r) ==
    /\ pc[r] = "recordFailed"
    /\ failed' = failed + 1
    /\ \/ /\ ReachesLimit(count[r] + 1)
          /\ until' = [until EXCEPT ![r] = now + Lockout]
          /\ due' = now + Lockout
          /\ Goto(r, "lockUntil")
          /\ UNCHANGED <<guess, count, token, lateBar>>
       \/ ~ReachesLimit(count[r] + 1) /\ Return(r) /\ UNCHANGED due
    /\ UNCHANGED <<status, lockedUntil, pwd, hasRole, tokens, open, now, vouched, barred,
                   everLocked, crashed, straddled, applied>>

\* Mutant of LockUntil: the lock is written whatever it was before.
LockUntilAlways(r) ==
    /\ pc[r] = "lockUntil"
    /\ lockedUntil' = until[r] /\ status' = "locked" /\ everLocked' = TRUE
    /\ Return(r)
    /\ UNCHANGED <<failed, pwd, hasRole, tokens, open, now, vouched, barred, due, crashed,
                   straddled, applied>>

\* lockUntil: the status becomes 'locked' whatever it was.
LockUntil(r) ==
    /\ pc[r] = "lockUntil"
    /\ \/ /\ lockedUntil < until[r]
          /\ lockedUntil' = until[r] /\ status' = "locked" /\ everLocked' = TRUE
       \/ /\ lockedUntil >= until[r]
          /\ UNCHANGED <<lockedUntil, status, everLocked>>
    /\ Return(r)
    /\ UNCHANGED <<failed, pwd, hasRole, tokens, open, now, vouched, barred, due, crashed,
                   straddled, applied>>

\* The risk engine denies the login, or asks for a factor nobody enrolled.
RiskDenied(r) ==
    /\ pc[r] = "risk"
    /\ Return(r)
    /\ UNCHANGED <<row, tokens, open, now, history>>

\* sessions.create, on the way to tokens or to an MFA challenge.
OpenSession(r) ==
    /\ pc[r] = "risk"
    /\ open' = open \union {guess[r]}
    /\ Goto(r, "issue")
    /\ UNCHANGED <<row, tokens, now, locals, history>>

\* issueSessionTokensForSession: user, roles and permissions are read and the
\* tokens issued (see SessionTokens); a login that needs a second factor gets
\* here when completeMfaChallenge does (see Mfa), or never.
IssueTokens(r) ==
    /\ pc[r] = "issue"
    /\ Goto(r, "clearLock")
    /\ UNCHANGED <<row, tokens, open, now, locals, history>>

\* clearLockAndFailures
ClearLockAndFailures(r) ==
    /\ pc[r] = "clearLock"
    /\ failed' = 0 /\ lockedUntil' = 0 /\ due' = 0
    /\ status' = IF status = "locked" THEN "active" ELSE status
    /\ Return(r)
    /\ UNCHANGED <<pwd, hasRole, tokens, open, now, vouched, barred, everLocked, crashed,
                   straddled, applied>>

-----------------------------------------------------------------------------
(* Forgotten passwords and the administrator.                              *)

ForgotPassword(r) ==
    /\ pc[r] = "idle" /\ status \notin {"absent", "disabled"}
    /\ Goto(r, "issueReset")
    /\ UNCHANGED <<row, tokens, open, now, locals, history>>

\* issuePasswordReset.  Bound: as many tokens as Resets has.
IssuePasswordReset(r) ==
    /\ pc[r] = "issueReset"
    /\ \/ \E k \in Resets : reset[k] = "none" /\ reset' = [reset EXCEPT ![k] = "sent"]
       \/ (\A k \in Resets : reset[k] # "none") /\ UNCHANGED reset
    /\ Goto(r, "idle")
    /\ UNCHANGED <<row, verification, open, now, locals, history>>

\* Mutant of ResetUsable: used_at IS NULL is not asked for.
ResetUsableAgain(k) == reset[k] # "none"

ResetUsable(k) == reset[k] = "sent"

\* consumePasswordReset: single use, by the UPDATE that matches.
ResetPassword(r, k) ==
    /\ pc[r] = "idle" /\ ResetUsable(k)
    /\ reset' = [reset EXCEPT ![k] = "used"]
    /\ token' = [token EXCEPT ![r] = k]
    /\ Goto(r, "updateHash")
    /\ UNCHANGED <<row, verification, open, now, guess, count, until, lateBar, history>>

\* Mutant of UpdatePasswordHash: the handler ends here and the sessions stay.
UpdatePasswordHashOnly(r) ==
    /\ pc[r] = "updateHash"
    /\ pwd' = token[r] /\ failed' = 0 /\ lockedUntil' = 0 /\ due' = 0
    /\ applied' = [applied EXCEPT ![token[r]] = @ + 1]
    /\ Return(r)
    /\ UNCHANGED <<status, hasRole, tokens, open, now, vouched, barred, everLocked,
                   crashed, straddled>>

\* updatePasswordHash: the counter and the lock go, the status stays.
UpdatePasswordHash(r) ==
    /\ pc[r] = "updateHash"
    /\ pwd' = token[r] /\ failed' = 0 /\ lockedUntil' = 0 /\ due' = 0
    /\ applied' = [applied EXCEPT ![token[r]] = @ + 1]
    /\ Goto(r, "revokeAll")
    /\ UNCHANGED <<status, hasRole, tokens, open, now, locals, vouched, barred, everLocked,
                   crashed, straddled>>

\* sessions.revokeAllForUser
RevokeAllForUser(r) ==
    /\ pc[r] = "revokeAll"
    /\ open' = {}
    /\ straddled' = (straddled \/ \E q \in Requests : pc[q] = "risk" /\ guess[q] # pwd)
    /\ Return(r)
    /\ UNCHANGED <<row, tokens, now, vouched, barred, everLocked, due, crashed, applied>>

\* RbacRepository.setUserStatus from PUT /admin/users/:id/status
SetUserStatus(st) ==
    /\ status # "absent"
    /\ status' = st
    /\ barred' = (st = "disabled")
    /\ vouched' = (vouched \/ st = "active")
    /\ UNCHANGED <<failed, lockedUntil, pwd, hasRole, tokens, open, now, pc, locals,
                   everLocked, due, crashed, straddled, applied>>

Tick ==
    /\ now < MaxTime
    /\ now' = now + 1
    /\ UNCHANGED <<row, tokens, open, pc, locals, history>>

\* The process dies or a statement fails.
Abort(r) ==
    /\ pc[r] # "idle"
    /\ crashed' = TRUE
    /\ Return(r)
    /\ UNCHANGED <<row, tokens, open, now, vouched, barred, everLocked, due, straddled,
                   applied>>

Request(r) ==
    \/ Register(r) \/ Create(r) \/ AddRole(r) \/ IssueVerification(r)
    \/ VerifyEmail(r) \/ MarkVerified(r)
    \/ \E p \in Passwords : LoginAccepted(r, p) \/ LoginRejected(r, p)
    \/ RecordFailedLogin(r) \/ LockUntil(r)
    \/ RiskDenied(r) \/ OpenSession(r) \/ IssueTokens(r) \/ ClearLockAndFailures(r)
    \/ ForgotPassword(r) \/ IssuePasswordReset(r)
    \/ (\E k \in Resets : ResetPassword(r, k)) \/ UpdatePasswordHash(r) \/ RevokeAllForUser(r)

Environment ==
    \/ \E st \in {"active", "disabled"} : SetUserStatus(st)
    \/ Tick

Next == (\E r \in Requests : Request(r) \/ Abort(r)) \/ Environment

Spec == Init /\ [][Next]_vars

-----------------------------------------------------------------------------
(* Properties.                                                             *)

\* Every variable has its type, and each failure is counted once: the counter
\* stays within the attempts that were made.
TypeOK ==
    /\ status \in Statuses /\ failed \in 0..MaxCount /\ lockedUntil \in Nat /\ pwd \in Passwords
    /\ hasRole \in BOOLEAN
    /\ verification \in TokenStates /\ reset \in [Resets -> TokenStates]
    /\ open \subseteq Passwords /\ now \in Nat
    /\ pc \in [Requests -> Labels] /\ guess \in [Requests -> Passwords]
    /\ count \in [Requests -> Nat] /\ until \in [Requests -> Nat]
    /\ token \in [Requests -> Passwords]
    /\ vouched \in BOOLEAN /\ barred \in BOOLEAN /\ everLocked \in BOOLEAN
    /\ due \in Nat /\ crashed \in BOOLEAN /\ straddled \in BOOLEAN
    /\ lateBar \in [Requests -> BOOLEAN]
    /\ applied \in [Resets -> Nat]

Quiet == InFlight = {}

\* How far concurrent guesses can get past MAX_FAILED_LOGINS: every login
\* decides on a count that misses at most the other logins in flight, so as long
\* as none of them died before lockUntil the lock comes that much late at most.
LockoutReached ==
    Quiet /\ ~crashed /\ failed >= MaxFailedLogins + Cardinality(Requests) - 1
        => lockedUntil # 0

\* Logins that reach the limit together compute different ends for the lock and
\* write them in any order, among logins and resets that lift it.  Once none is
\* in flight the lock reaches to the last end computed since it was lifted: no
\* write of an earlier end has cut it short, unless a login died before its own.
LockLastsItsTime == Quiet /\ ~crashed => lockedUntil >= due

\* A reset token changes the password at most once, however often and however
\* concurrently it is presented.
ResetTokenWorksOnce == \A k \in Resets : applied[k] <= 1

\* The status gates of login on an account that was never locked: it has a
\* session only after its address was verified or an administrator activated it,
\* and a login that begins while it is disabled opens none.
StatusGates ==
    ~everLocked =>
        /\ open # {} => vouched
        /\ \A r \in Requests : lateBar[r] => pc[r] \notin {"issue", "clearLock"}

\* openapi.yaml, /auth/reset-password: "Password updated, all sessions revoked".
\* Unless a request died, or a login that had verified the old password was
\* still in flight while the reset revoked the sessions, no session opened with
\* an old password is active once no request is in flight.
ResetEndsOldSessions ==
    Quiet /\ ~crashed /\ ~straddled => open \subseteq {pwd}

=============================================================================
