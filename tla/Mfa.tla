-------------------------------- MODULE Mfa --------------------------------
(***************************************************************************)
(* TOTP as a second factor: MfaService (enrolment, confirmation, login     *)
(* challenges in Redis, switching it off), the login that creates a        *)
(* challenge and AuthService.completeMfaChallenge.  One user, whose        *)
(* mfa_methods row is unique; the session and the challenge a login        *)
(* creates have the same name here.                                        *)
(*                                                                         *)
(* The challenge is read, changed and written back by separate Redis       *)
(* commands; one awaited command or statement is one action.  A six-digit  *)
(* code is represented by the secret it was computed from.                 *)
(***************************************************************************)
EXTENDS Naturals, FiniteSets

CONSTANTS
    Requests,    \* slots for requests in flight
    Secrets,     \* TOTP secrets generateSecret may return
    NoSecret,    \* no row; as a code: one that fits no secret
    Challenges,  \* login challenges, and their sessions
    NoChallenge,
    MaxChecks    \* bound on the codes tried per challenge

ASSUME MfaConstants ==
    /\ IsFiniteSet(Requests)
    /\ NoSecret \notin Secrets /\ NoChallenge \notin Challenges /\ MaxChecks \in Nat

VARIABLES
    status,       \* mfa_methods.status; "none" without a row
    secret,       \* mfa_methods.secret_encrypted
    required,     \* users.mfa_required
    live,         \* challenges with a value in Redis
    attempts,     \* the attempts field of that value
    sessions,     \* session rows
    revoked,      \* revoked sessions
    passed,       \* sessions with mfa_passed
    issued,       \* how many token pairs a session was given
    \* the requests' own variables
    pc,
    chal,         \* the challenge presented
    given,        \* the code presented
    read,         \* the attempts read from the challenge
    \* history
    checks,       \* codes checked per challenge
    bursts,       \* per challenge, answers begun while no other was under way
    known,        \* secrets somebody proved possession of while enrolling
    swapped,      \* an enrolment began between the check and the activation of another
    late          \* the session was revoked when the request began

method == <<status, secret, required>>
redis  == <<live, attempts>>
rows   == <<sessions, revoked, passed, issued>>
locals == <<chal, given, read, late>>
history == <<checks, bursts, known, swapped>>
vars == <<method, redis, rows, pc, locals, history>>

Labels == {"idle", "activate", "require", "disable", "unrequire",
           "createSession", "createChallenge", "tooMany", "check", "putBack",
           "markPassed", "consume", "findSession", "issue"}

\* verifyLoginChallenge: "Max 3 attempts"
MaxAttempts == 3

InFlight == {r \in Requests : pc[r] # "idle"}
Unused == {c \in Challenges : c \notin sessions}

Goto(r, l) == pc' = [pc EXCEPT ![r] = l]

Return(r) ==
    /\ Goto(r, "idle")
    /\ chal' = [chal EXCEPT ![r] = NoChallenge]
    /\ given' = [given EXCEPT ![r] = NoSecret]
    /\ read' = [read EXCEPT ![r] = 0]
    /\ late' = [late EXCEPT ![r] = FALSE]

Init ==
    /\ status = "none" /\ secret = NoSecret /\ required = FALSE
    /\ live = {} /\ attempts = [c \in Challenges |-> 0]
    /\ sessions = {} /\ revoked = {} /\ passed = {}
    /\ issued = [c \in Challenges |-> 0]
    /\ pc = [r \in Requests |-> "idle"]
    /\ chal = [r \in Requests |-> NoChallenge]
    /\ given = [r \in Requests |-> NoSecret]
    /\ read = [r \in Requests |-> 0]
    /\ late = [r \in Requests |-> FALSE]
    /\ checks = [c \in Challenges |-> 0] /\ bursts = [c \in Challenges |-> 0]
    /\ known = {}
    /\ swapped = FALSE

-----------------------------------------------------------------------------
(* Enrolment.                                                              *)

\* beginEnroll: the upsert puts a new secret in the user's one row, pending,
\* whatever the row was.  A model value nobody refers to any more stands for a
\* new secret.
BeginEnroll(r, x) ==
    /\ pc[r] = "idle"
    /\ x # secret /\ \A q \in Requests : given[q] # x
    /\ secret' = x /\ status' = "pending"
    /\ known' = known \ {x}
    /\ swapped' = (swapped \/ \E q \in Requests : pc[q] = "activate")
    /\ UNCHANGED <<required, redis, rows, pc, locals, checks, bursts>>

\* Mutant of ConfirmEnroll: the pending row is activated without a code.
ConfirmEnrollUnchecked(r, x) ==
    /\ pc[r] = "idle"
    /\ status = "pending"
    /\ known' = known \union ({x} \intersect {secret})
    /\ Goto(r, "activate")
    /\ UNCHANGED <<method, redis, rows, locals, checks, bursts, swapped>>

\* confirmEnroll: the pending row is read and the code checked against it.
ConfirmEnroll(r, x) ==
    /\ pc[r] = "idle"
    /\ status = "pending" /\ x = secret
    /\ known' = known \union {x}
    /\ Goto(r, "activate")
    /\ UNCHANGED <<method, redis, rows, locals, checks, bursts, swapped>>

\* confirmEnroll: UPDATE by user, not by the secret or status that was read.
Activate(r) ==
    /\ pc[r] = "activate"
    /\ status' = "active"
    /\ Goto(r, "require")
    /\ UNCHANGED <<secret, required, redis, rows, locals, history>>

Require(r) ==
    /\ pc[r] = "require"
    /\ required' = TRUE
    /\ Return(r)
    /\ UNCHANGED <<status, secret, redis, rows, history>>

\* disable: the active row is read and the code checked against it.
Disable(r, x) ==
    /\ pc[r] = "idle"
    /\ status = "active" /\ x = secret
    /\ Goto(r, "disable")
    /\ UNCHANGED <<method, redis, rows, locals, history>>

DisableMethod(r) ==
    /\ pc[r] = "disable"
    /\ status' = "disabled"
    /\ Goto(r, "unrequire")
    /\ UNCHANGED <<secret, required, redis, rows, locals, history>>

Unrequire(r) ==
    /\ pc[r] = "unrequire"
    /\ required' = FALSE
    /\ Return(r)
    /\ UNCHANGED <<status, secret, redis, rows, history>>

-----------------------------------------------------------------------------
(* A login that meets an active method.                                    *)

\* hasActiveMethod
LoginNeedsFactor(r) ==
    /\ pc[r] = "idle"
    /\ status = "active"
    /\ Goto(r, "createSession")
    /\ UNCHANGED <<method, redis, rows, locals, history>>

\* sessions.create with mfaPassed false.  Bound: as many as Challenges.
CreateSession(r) ==
    /\ pc[r] = "createSession"
    /\ \/ \E c \in Unused : /\ sessions' = sessions \union {c}
                            /\ chal' = [chal EXCEPT ![r] = c]
                            /\ Goto(r, "createChallenge")
                            /\ UNCHANGED <<given, read, late>>
       \/ Unused = {} /\ Return(r) /\ UNCHANGED sessions
    /\ UNCHANGED <<method, redis, revoked, passed, issued, history>>

CreateLoginChallenge(r) ==
    /\ pc[r] = "createChallenge"
    /\ live' = live \union {chal[r]}
    /\ attempts' = [attempts EXCEPT ![chal[r]] = 0]
    /\ Return(r)
    /\ UNCHANGED <<method, rows, history>>

-----------------------------------------------------------------------------
(* verifyLoginChallenge and completeMfaChallenge.                          *)

Exhausted(n) == n >= MaxAttempts

\* r has read challenge c and will write it back, or has answered it and will
\* delete it.
Answering(r, c) ==
    chal[r] = c /\ pc[r] \in {"check", "putBack", "markPassed", "consume"}

\* The challenge is read.  Bound: MaxChecks codes per challenge.
VerifyLoginChallenge(r, c, x) ==
    /\ pc[r] = "idle"
    /\ c \in live
    /\ checks[c] + Cardinality(InFlight) < MaxChecks
    /\ chal' = [chal EXCEPT ![r] = c]
    /\ given' = [given EXCEPT ![r] = x]
    /\ read' = [read EXCEPT ![r] = attempts[c]]
    /\ late' = [late EXCEPT ![r] = c \in revoked]
    /\ Goto(r, IF Exhausted(attempts[c]) THEN "tooMany" ELSE "check")
    /\ bursts' = IF Exhausted(attempts[c]) \/ \E q \in Requests : Answering(q, c)
                    THEN bursts ELSE [bursts EXCEPT ![c] = @ + 1]
    /\ UNCHANGED <<method, redis, rows, checks, known, swapped>>

TooManyAttempts(r) ==
    /\ pc[r] = "tooMany"
    /\ live' = live \ {chal[r]}
    /\ Return(r)
    /\ UNCHANGED <<method, attempts, rows, history>>

\* The active method is read and the code checked against its secret.
CodeFits(r) == status = "active" /\ given[r] = secret

CheckCode(r) ==
    /\ pc[r] = "check"
    /\ checks' = [checks EXCEPT ![chal[r]] = @ + 1]
    /\ Goto(r, IF CodeFits(r) THEN "markPassed" ELSE "putBack")
    /\ UNCHANGED <<method, redis, rows, locals, bursts, known, swapped>>

\* Mutant of PutBack: the attempt is not counted.
PutBackUncounted(r) ==
    /\ pc[r] = "putBack"
    /\ live' = live \union {chal[r]}
    /\ attempts' = [attempts EXCEPT ![chal[r]] = read[r]]
    /\ Return(r)
    /\ UNCHANGED <<method, rows, history>>

\* setJson with one attempt more than was read, and a new TTL; a challenge that
\* has been deleted since is back.
PutBack(r) ==
    /\ pc[r] = "putBack"
    /\ live' = live \union {chal[r]}
    /\ attempts' = [attempts EXCEPT ![chal[r]] = read[r] + 1]
    /\ Return(r)
    /\ UNCHANGED <<method, rows, history>>

\* UPDATE sessions SET mfa_passed; last_used_at is written and never read.
MarkPassed(r) ==
    /\ pc[r] = "markPassed"
    /\ passed' = passed \union {chal[r]}
    /\ Goto(r, "consume")
    /\ UNCHANGED <<method, redis, sessions, revoked, issued, locals, history>>

ConsumeChallenge(r) ==
    /\ pc[r] = "consume"
    /\ live' = live \ {chal[r]}
    /\ Goto(r, "findSession")
    /\ UNCHANGED <<method, attempts, rows, locals, history>>

\* Mutant of FindSession: the session's status is not looked at.
FindSessionAnyway(r) ==
    /\ pc[r] = "findSession"
    /\ Goto(r, "issue")
    /\ UNCHANGED <<method, redis, rows, locals, history>>

\* completeMfaChallenge: sessions.findById, see SessionTokens.
FindSession(r) ==
    /\ pc[r] = "findSession"
    /\ \/ chal[r] \notin revoked /\ Goto(r, "issue") /\ UNCHANGED locals
       \/ chal[r] \in revoked /\ Return(r)
    /\ UNCHANGED <<method, redis, rows, history>>

\* issueSessionTokensForSession
Issue(r) ==
    /\ pc[r] = "issue"
    /\ issued' = [issued EXCEPT ![chal[r]] = @ + 1]
    /\ Return(r)
    /\ UNCHANGED <<method, redis, sessions, revoked, passed, history>>

\* MFA_CHALLENGE_TTL passes.
ExpireChallenge(c) ==
    /\ c \in live
    /\ live' = live \ {c}
    /\ UNCHANGED <<method, attempts, rows, pc, locals, history>>

\* revokeAllForUser by another request of the user.
RevokeSessions ==
    /\ revoked # sessions
    /\ revoked' = sessions
    /\ UNCHANGED <<method, redis, sessions, passed, issued, pc, locals, history>>

Request(r) ==
    \/ \E x \in Secrets : BeginEnroll(r, x) \/ ConfirmEnroll(r, x) \/ Disable(r, x)
    \/ Activate(r) \/ Require(r) \/ DisableMethod(r) \/ Unrequire(r)
    \/ LoginNeedsFactor(r) \/ CreateSession(r) \/ CreateLoginChallenge(r)
    \/ \E c \in Challenges, x \in Secrets \union {NoSecret} : VerifyLoginChallenge(r, c, x)
    \/ TooManyAttempts(r) \/ CheckCode(r) \/ PutBack(r) \/ MarkPassed(r)
    \/ ConsumeChallenge(r) \/ FindSession(r) \/ Issue(r)

Next ==
    \/ \E r \in Requests : Request(r)
    \/ \E c \in Challenges : ExpireChallenge(c)
    \/ RevokeSessions

Spec == Init /\ [][Next]_vars

-----------------------------------------------------------------------------
(* Properties.                                                             *)

\* Every variable has its type.
TypeOK ==
    /\ status \in {"none", "pending", "active", "disabled"}
    /\ secret \in Secrets \union {NoSecret} /\ required \in BOOLEAN
    /\ live \subseteq sessions /\ attempts \in [Challenges -> 0..MaxAttempts]
    /\ sessions \subseteq Challenges /\ revoked \subseteq sessions
    /\ passed \subseteq sessions /\ issued \in [Challenges -> Nat]
    /\ pc \in [Requests -> Labels]
    /\ chal \in [Requests -> Challenges \union {NoChallenge}]
    /\ given \in [Requests -> Secrets \union {NoSecret}]
    /\ read \in [Requests -> 0..MaxAttempts] /\ late \in [Requests -> BOOLEAN]
    /\ checks \in [Challenges -> Nat] /\ bursts \in [Challenges -> Nat]
    /\ known \subseteq Secrets
    /\ swapped \in BOOLEAN

\* The attempts are counted per burst: however many answers to a challenge
\* overlap, and whichever of them writes it last, each burst of them costs at
\* least one of the three attempts, a deleted challenge that a stalled answer
\* brings back included.  So answers that do not overlap are at most three.
ThreeBursts == \A c \in Challenges : bursts[c] <= MaxAttempts

\* mfa.service.ts:97, of verifyLoginChallenge: "Max 3 attempts."  Not so for
\* answers that overlap: a stalled one winds the counter back.
ThreeAttempts == \A c \in Challenges : checks[c] <= MaxAttempts

\* A challenge answered after its session was revoked yields no tokens.
NoTokensAfterRevocation == \A r \in Requests : late[r] => pc[r] # "issue"

\* mfa.service.ts: enrolment is confirmed "by proving possession of the device".
\* Unless another enrolment replaced the secret between the check of a code and
\* the activation, the secret of an active method has been proved.
ActiveSecretProved == status = "active" /\ ~swapped => secret \in known

=============================================================================
