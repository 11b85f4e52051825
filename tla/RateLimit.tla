------------------------------ MODULE RateLimit ------------------------------
(***************************************************************************)
(* rateLimitMiddleware over RedisService.incrementWindow: the fixed-window *)
(* counter of one bucket and identity.  INCR, EXPIRE and TTL are separate  *)
(* awaited Redis commands, so requests interleave between them, and a      *)
(* process that dies (or a command that fails) leaves the rest undone.     *)
(***************************************************************************)
EXTENDS Slots, Integers, FiniteSets

CONSTANTS
    Limit,      \* options.limit
    Window,     \* options.windowSeconds
    MaxLife,    \* bound on the windows that are opened
    MaxCount    \* bound on the counter

ASSUME LimitConstants ==
    /\ IsFiniteSet(Requests)
    /\ Limit \in Nat \ {0} /\ Window \in Nat \ {0} /\ MaxLife \in Nat /\ MaxCount \in Nat

VARIABLES
    count,      \* the value at the key; 0 when there is no key
    left,       \* seconds the key has left; 0 when it has no expiry
    \* the requests' own variables
    step,
    got,        \* the count INCR returned
    window,     \* history: the life of the key that INCR counted in
    \* history
    life,       \* how many lives the key has had
    told,       \* the last Retry-After sent; 1 before the first
    crashed,    \* some request died on its way
    admitted    \* requests passed on to the handler, by life of the key

counted == <<got, window>>
history == <<life, told, crashed, admitted>>
limiterVars == <<count, left, step, counted, history>>

Steps == {"idle", "expire", "decide", "ttl"}
Lives == 0..MaxLife

StepTo(r, l) == step' = [step EXCEPT ![r] = l]

Leave(r) ==
    /\ StepTo(r, "idle")
    /\ got' = [got EXCEPT ![r] = 0]
    /\ window' = [window EXCEPT ![r] = 0]

LimiterInit ==
    /\ count = 0 /\ left = 0
    /\ step = [r \in Requests |-> "idle"]
    /\ got = [r \in Requests |-> 0]
    /\ window = [r \in Requests |-> 0]
    /\ life = 0 /\ told = 1 /\ crashed = FALSE
    /\ admitted = [w \in Lives |-> 0]

-----------------------------------------------------------------------------

\* Mutant of OpensWindow: no count is ever the first.
OpensWindowNever(n) == n = 0

\* incrementWindow: only the request that created the key sets its expiry.
OpensWindow(n) == n = 1

\* INCR keeps the expiry of a key that has one and creates the key without.
\* Bounds: MaxCount requests to a window, MaxLife windows.
Increment(r) ==
    /\ step[r] = "idle" /\ count < MaxCount /\ life < MaxLife
    /\ count' = count + 1
    /\ got' = [got EXCEPT ![r] = count + 1]
    /\ window' = [window EXCEPT ![r] = life]
    /\ StepTo(r, IF OpensWindow(count + 1) THEN "expire" ELSE "decide")
    /\ UNCHANGED <<left, history>>

\* EXPIRE
SetExpiry(r) ==
    /\ step[r] = "expire"
    /\ left' = IF count = 0 THEN 0 ELSE Window
    /\ StepTo(r, "decide")
    /\ UNCHANGED <<count, counted, history>>

\* Mutant of OverLimit: one request more.
OverLimitLate(n) == n > Limit + 1

OverLimit(n) == n > Limit

\* next(): the request goes on to its handler.
Admit(r) ==
    /\ step[r] = "decide" /\ ~OverLimit(got[r])
    /\ admitted' = [admitted EXCEPT ![window[r]] = @ + 1]
    /\ Leave(r)
    /\ UNCHANGED <<count, left, life, told, crashed>>

Reject(r) ==
    /\ step[r] = "decide" /\ OverLimit(got[r])
    /\ StepTo(r, "ttl")
    /\ UNCHANGED <<count, left, counted, history>>

\* TTL of the key: -2 without a key, -1 without an expiry.
TtlOf == CASE count = 0 -> -2 [] count # 0 /\ left = 0 -> -1 [] OTHER -> left

\* The Retry-After that a 429 carries.
RetryAfter == IF TtlOf > 0 THEN TtlOf ELSE Window

\* 429; the counter stays.
TooManyRequests(r) ==
    /\ step[r] = "ttl"
    /\ told' = RetryAfter
    /\ Leave(r)
    /\ UNCHANGED <<count, left, life, crashed, admitted>>

\* Time passes; Redis drops a key whose expiry has come.
Second ==
    /\ \/ left = 0 /\ UNCHANGED <<count, left, life>>
       \/ left > 1 /\ left' = left - 1 /\ UNCHANGED <<count, life>>
       \/ left = 1 /\ count' = 0 /\ left' = 0 /\ life' = life + 1
    /\ UNCHANGED <<step, counted, told, crashed, admitted>>

\* The process dies or a command fails.
Abort(r) ==
    /\ step[r] # "idle"
    /\ crashed' = TRUE
    /\ Leave(r)
    /\ UNCHANGED <<count, left, life, told, admitted>>

Step(r) == SetExpiry(r) \/ Admit(r) \/ Reject(r) \/ TooManyRequests(r)

LimiterNext ==
    \/ \E r \in Requests : Increment(r) \/ Step(r) \/ Abort(r)
    \/ Second

LimiterSpec == LimiterInit /\ [][LimiterNext]_limiterVars

-----------------------------------------------------------------------------
(* Properties.                                                             *)

\* Every variable has its type, and a client is never told to wait less than a
\* second or longer than the window, even while the key comes and goes.
LimiterTypeOK ==
    /\ count \in 0..MaxCount /\ left \in 0..Window
    /\ step \in [Requests -> Steps] /\ got \in [Requests -> 0..MaxCount]
    /\ life \in Lives /\ window \in [Requests -> Lives]
    /\ admitted \in [Lives -> Nat]
    /\ told \in 1..Window /\ crashed \in BOOLEAN

\* At most Limit requests pass in one life of the key, late deciders of an
\* earlier life included.
LimitHolds == \A w \in Lives : admitted[w] <= Limit

\* rate-limit.middleware.ts: "Atomicity: INCR + EXPIRE via incrementWindow".
\* As long as no process died between the two commands, a counter has an expiry
\* once no request is in flight, so a client that was turned away is let in
\* again.
CounterExpires ==
    ~crashed /\ (\A r \in Requests : step[r] = "idle") /\ count # 0 => left # 0

=============================================================================
