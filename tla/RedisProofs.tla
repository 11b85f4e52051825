----------------------------- MODULE RedisProofs -----------------------------
(***************************************************************************)
(* Proofs about the two users of keys that expire in Redis: the denylist   *)
(* (AccessTokens) and the rate limiter (RateLimit).                        *)
(*                                                                         *)
(* AccessTokens, for every TTL, tolerance and resolution of the clock, and *)
(* any number of tokens and requests.  All of it rests on what rounding    *)
(* does: the entry written by revokeUntil ends no earlier than the token's *)
(* exp, whatever part of a second it was written in, and less than a       *)
(* second after exp or exactly one second from now.  Covered says the      *)
(* former of every revoked token, EntriesPurge the latter of every entry.  *)
(*                                                                         *)
(* RateLimit, for every limit, window and finite set of requests.          *)
(* Admissions counts: each request that passes, or is going to, took one   *)
(* of the first Limit counts of its life of the key, whenever it decides.  *)
(* Expiries says who sets the expiry of a key that has none.               *)
(***************************************************************************)
EXTENDS AccessTokens, RateLimit, TLAPS, FiniteSetTheorems

-----------------------------------------------------------------------------
(* Access tokens: the inductive invariant.                                 *)

\* A handler in flight holds a signed token, one that was revoked if it is late;
\* a token that is not signed yet has no entry.
Frames ==
    /\ \A r \in Requests :
          /\ pc[r] # "idle" => jti[r] \in Signed
          /\ late[r] => jti[r] \in revoked
    /\ \A j \in Jtis : exp[j] = 0 => denyEnd[j] = 0

\* The entry of a revoked token lasts as long as the token.
Covered == \A j \in revoked : denyEnd[j] >= Q * exp[j]

IInv == TypeOK /\ Frames /\ Covered /\ EntriesPurge

-----------------------------------------------------------------------------
(* Rounding.                                                               *)

\* Division rounds down, to within one divisor.
LEMMA Rounding ==
    ASSUME NEW d \in Nat \ {0}, NEW a \in Int
    PROVE  /\ a \div d \in Int
           /\ d * (a \div d) <= a
           /\ a < d * (a \div d) + d
  OBVIOUS

\* Multiples of d are at least d apart.
LEMMA Multiples ==
    ASSUME NEW d \in Nat \ {0}, NEW x \in Int, NEW y \in Int, d * x < d * y + d
    PROVE  x <= y
  <1> SUFFICES ASSUME x >= y + 1 PROVE FALSE
    OBVIOUS
  <1>1. x - (y + 1) \in Nat
    OBVIOUS
  <1>2. d * (x - (y + 1)) >= 0
    BY <1>1
  <1>3. d * (x - (y + 1)) = d * x - (d * y + d)
    OBVIOUS
  <1> QED
    BY <1>2, <1>3

\* A later clock is not in an earlier second.
LEMMA SecondsGrow ==
    ASSUME NEW a \in Nat
    PROVE  a \div Q \in Nat /\ a \div Q <= (a + 1) \div Q
  <1>q. Q \in Nat \ {0}
    BY TokenConstants
  <1> DEFINE x == a \div Q
             y == (a + 1) \div Q
  <1>1. x \in Int /\ Q * x <= a /\ a < Q * x + Q
    BY <1>q, Rounding
  <1>2. y \in Int /\ Q * y <= a + 1 /\ a + 1 < Q * y + Q
    BY <1>q, Rounding
  <1> HIDE DEF x, y
  <1>3. Q * x \in Int /\ Q * y \in Int
    BY <1>q, <1>1, <1>2
  <1>4. Q * x < Q * y + Q
    BY <1>q, <1>1, <1>2, <1>3
  <1>5. x <= y
    BY <1>q, <1>1, <1>2, <1>4, Multiples
  <1>6. Q * 0 < Q * x + Q
    BY <1>q, <1>1, <1>3
  <1>7. 0 <= x
    BY <1>q, <1>1, <1>6, Multiples
  <1> QED
    BY <1>1, <1>5, <1>7 DEF x, y

\* The entry written by revokeUntil: a positive number of seconds, so that it has
\* an end, which is not before exp, and soon after it or a second from now.
LEMMA EntryIsExact ==
    ASSUME TypeOK, NEW j \in Jtis
    PROVE  LET end == EntryEnd(j, EntryTtl(j)) IN
           /\ end \in 0..Forever
           /\ end >= Q * exp[j]
           /\ end < Q * (exp[j] + 1) \/ end <= now + Q
  <1>q. /\ Q \in Nat \ {0} /\ Ttl \in Nat \ {0} /\ MaxTime \in Nat
        /\ now \in Nat /\ now <= MaxTime
        /\ exp[j] \in Nat /\ exp[j] <= now \div Q + Ttl
    BY TokenConstants DEF TypeOK
  <1> DEFINE e == exp[j]
             ahead == Q * e - now + Q - 1
             seconds == ahead \div Q
             end == EntryEnd(j, EntryTtl(j))
  <1>0. Q * e \in Int /\ ahead \in Int
    BY <1>q
  <1>1. seconds \in Int /\ Q * seconds <= ahead /\ ahead < Q * seconds + Q
    BY <1>q, <1>0, Rounding
  <1>2. EntryTtl(j) = IF seconds < 1 THEN 1 ELSE seconds
    BY DEF EntryTtl
  \* exp is at most Ttl seconds away
  <1>3. Q * e <= now + Q * Ttl
    <2> DEFINE w == now \div Q
    <2>1. w \in Int /\ Q * w <= now
      BY <1>q, Rounding
    <2> HIDE DEF w
    <2>2. w + Ttl - e \in Nat
      BY <1>q, <2>1 DEF w
    <2>3. Q * (w + Ttl - e) >= 0
      BY <1>q, <2>2
    <2>4. Q * (w + Ttl - e) = Q * w + Q * Ttl - Q * e
      BY <1>q, <2>1
    <2> QED
      BY <1>q, <2>1, <2>3, <2>4
  <1>4. Forever = MaxTime + Q * Ttl + 2 * Q /\ Q * Ttl \in Nat
    BY <1>q DEF Forever
  <1>5. Q * (e + 1) = Q * e + Q
    BY <1>q
  <1> HIDE DEF seconds, e
  <1>6. CASE seconds < 1
    <2>1. end = now + Q
      BY <1>2, <1>6, <1>q DEF EntryEnd
    <2>2. Q * (1 - seconds) >= Q
      <3>1. -seconds \in Nat
        BY <1>1, <1>6
      <3>2. Q * (-seconds) >= 0
        BY <1>q, <3>1
      <3>3. Q * (1 - seconds) = Q + Q * (-seconds)
        BY <1>q, <1>1
      <3> QED
        BY <1>q, <3>1, <3>2, <3>3
    <2>3. Q * (1 - seconds) = Q - Q * seconds /\ Q * seconds \in Int
      BY <1>q, <1>1
    <2>4. ahead < Q
      BY <1>q, <1>0, <1>1, <2>2, <2>3
    <2>5. Q * e <= now
      BY <1>q, <1>0, <2>4
    <2> HIDE DEF end, ahead
    <2> QED
      BY <1>q, <1>0, <1>4, <2>1, <2>5 DEF e, end
  <1>7. CASE seconds >= 1
    <2>1. end = now + Q * seconds
      BY <1>1, <1>2, <1>7 DEF EntryEnd
    <2>2. Q * seconds \in Int
      BY <1>q, <1>1
    <2>3. Q * seconds <= Q * e - now + Q - 1 /\ Q * seconds >= Q * e - now
      BY <1>q, <1>0, <1>1, <2>2
    <2> HIDE DEF end, ahead
    <2>4. end < Q * e + Q /\ end >= Q * e
      BY <1>q, <1>0, <2>1, <2>2, <2>3
    <2>5. end \in 0..Forever
      <3>1. end \in Int /\ Q * e >= 0
        BY <1>q, <2>1, <2>2 DEF e
      <3> QED
        BY <1>q, <1>0, <1>3, <1>4, <2>4, <3>1
    <2> QED
      BY <1>5, <2>4, <2>5 DEF e, end
  <1> QED
    BY <1>1, <1>6, <1>7

-----------------------------------------------------------------------------

LEMMA IInvInit == Init => IInv
  <1> SUFFICES ASSUME Init PROVE IInv
    OBVIOUS
  <1>1. 0 \div Q \in Nat /\ Forever \in Nat
    BY TokenConstants, SecondsGrow DEF Forever
  <1> QED
    BY <1>1, TokenConstants
       DEF Init, IInv, TypeOK, Frames, Covered, EntriesPurge, Signed, Labels

\* A step of a handler that writes neither table: the request moves on or returns.
Moves(r, l) == Goto(r, l) /\ UNCHANGED locals

LEMMA HandlerMoves ==
    ASSUME IInv, NEW r \in Requests, NEW l \in Labels, pc[r] # "idle",
           Moves(r, l) \/ Return(r), UNCHANGED <<now, exp, denyEnd, revoked>>
    PROVE  IInv'
  <1>1. CASE Moves(r, l)
    BY <1>1, TokenConstants
       DEF Moves, Goto, IInv, TypeOK, Frames, Covered, EntriesPurge, Signed, Forever, locals
  <1>2. CASE Return(r)
    <2>1. TypeOK'
      BY <1>2, TokenConstants DEF Return, Goto, IInv, TypeOK, Signed, Forever, Labels
    <2>2. Frames'
      BY <1>2, TokenConstants DEF Return, Goto, IInv, TypeOK, Frames, Signed
    <2>3. Covered' /\ EntriesPurge'
      BY DEF IInv, Covered, EntriesPurge, Signed
    <2> QED
      BY <2>1, <2>2, <2>3 DEF IInv
  <1> QED
    BY <1>1, <1>2

\* Every step keeps the invariant.
LEMMA IInvNext ==
    ASSUME IInv, [Next]_vars
    PROVE  IInv'
  <1>q. Q \in Nat \ {0} /\ Ttl \in Nat \ {0} /\ MaxTime \in Nat
    BY TokenConstants
  <1>t. TypeOK /\ Frames /\ Covered /\ EntriesPurge
    BY DEF IInv
  <1>n. now \in Nat /\ now \div Q \in Nat
    BY <1>t, SecondsGrow DEF TypeOK
  <1>1. CASE Tick
    <2>1. /\ now' = now + 1 /\ now < MaxTime
          /\ UNCHANGED <<exp, denyEnd, pc, locals, revoked>>
      BY <1>1 DEF Tick
    <2>2. now \div Q <= now' \div Q /\ now' \div Q \in Int
      BY <1>n, <2>1, SecondsGrow, now + 1 \in Nat
    <2>3. \A j \in Jtis : exp'[j] <= now' \div Q + Ttl
      BY <1>n, <1>q, <1>t, <2>1, <2>2 DEF TypeOK
    <2>4. TypeOK'
      BY <1>n, <1>q, <1>t, <2>1, <2>3 DEF TypeOK, Signed, locals, Forever
    <2>5. Frames' /\ Covered'
      BY <1>t, <2>1 DEF Frames, Covered, Signed, locals
    <2>6. EntriesPurge'
      BY <1>n, <1>q, <1>t, <2>1 DEF EntriesPurge, Signed, TypeOK
    <2> QED
      BY <2>4, <2>5, <2>6 DEF IInv
  <1>2. ASSUME NEW j \in Jtis, SignAccessToken(j)
        PROVE  IInv'
    <2>1. /\ exp[j] = 0 /\ exp' = [exp EXCEPT ![j] = now \div Q + Ttl]
          /\ UNCHANGED <<now, denyEnd, pc, locals, revoked>>
      BY <1>2 DEF SignAccessToken
    <2>2. j \notin revoked /\ denyEnd[j] = 0
      BY <1>t, <2>1 DEF TypeOK, Signed, Frames
    <2>3. /\ exp' \in [Jtis -> Nat] /\ exp'[j] \in Nat \ {0} /\ exp'[j] <= now \div Q + Ttl
          /\ \A i \in Jtis : i # j => exp'[i] = exp[i]
      BY <1>n, <1>q, <1>t, <2>1 DEF TypeOK
    <2>4. TypeOK'
      BY <1>t, <2>1, <2>2, <2>3 DEF TypeOK, Signed, locals
    <2>5. Frames'
      BY <1>t, <2>1, <2>2, <2>3 DEF TypeOK, Frames, Signed, locals
    <2>6. Covered'
      BY <1>t, <2>1, <2>2, <2>3 DEF TypeOK, Covered, Signed
    <2>7. denyEnd[j] <= now + Q
      BY <1>n, <1>q, <2>2
    <2>8. EntriesPurge'
      BY <1>t, <2>1, <2>3, <2>7 DEF EntriesPurge, Signed
    <2> QED
      BY <2>4, <2>5, <2>6, <2>8 DEF IInv
  <1>3. ASSUME NEW r \in Requests, NEW j \in Jtis, NEW l \in {"useClaims", "revokeClaims"},
               Present(r, j, l)
        PROVE  IInv'
    <2>1. /\ pc[r] = "idle" /\ j \in Signed /\ pc' = [pc EXCEPT ![r] = l]
          /\ jti' = [jti EXCEPT ![r] = j] /\ late' = [late EXCEPT ![r] = j \in revoked]
          /\ UNCHANGED <<now, exp, denyEnd, revoked>>
      BY <1>3 DEF Present, Goto
    <2>2. TypeOK'
      BY <1>t, <2>1 DEF TypeOK, Signed, Labels
    <2>3. Frames'
      BY <1>t, <2>1 DEF TypeOK, Frames, Signed
    <2>4. Covered' /\ EntriesPurge'
      BY <1>t, <2>1 DEF Covered, EntriesPurge, Signed
    <2> QED
      BY <2>2, <2>3, <2>4 DEF IInv
  <1>4. ASSUME NEW r \in Requests,
               \/ VerifyClaims(r, "useClaims", "useDenylist")
               \/ VerifyClaims(r, "revokeClaims", "revokeDenylist")
               \/ CheckDenylist(r, "useDenylist", "serve")
               \/ CheckDenylist(r, "revokeDenylist", "revokeUntil")
               \/ Serve(r)
        PROVE  IInv'
    <2>1. /\ pc[r] # "idle" /\ UNCHANGED <<now, exp, denyEnd, revoked>>
          /\ \E l \in Labels : Moves(r, l) \/ Return(r)
      BY <1>4 DEF VerifyClaims, CheckDenylist, Serve, Moves, Labels
    <2> QED
      BY <2>1, HandlerMoves
  <1>5. ASSUME NEW r \in Requests, RevokeUntil(r)
        PROVE  IInv'
    <2>1. PICK j \in Signed : j = jti[r]
      BY <1>5, <1>t DEF RevokeUntil, Frames
    <2>2. PICK end : end = EntryEnd(j, EntryTtl(j))
      OBVIOUS
    <2>3. /\ end \in 0..Forever /\ end >= Q * exp[j]
          /\ end < Q * (exp[j] + 1) \/ end <= now + Q
      BY <1>t, <2>1, <2>2, EntryIsExact DEF Signed
    <2>4. /\ denyEnd' = [denyEnd EXCEPT ![j] = end] /\ revoked' = revoked \union {j}
          /\ Return(r) /\ UNCHANGED <<now, exp>>
      BY <1>5, <2>1, <2>2 DEF RevokeUntil
    <2>5. TypeOK'
      BY <1>t, <2>1, <2>3, <2>4 DEF TypeOK, Return, Goto, Signed, Labels
    <2>6. Frames'
      BY <1>t, <2>1, <2>4 DEF TypeOK, Frames, Return, Goto, Signed
    <2>7. Covered'
      BY <1>t, <2>1, <2>3, <2>4 DEF TypeOK, Covered, Signed
    <2>8. EntriesPurge'
      BY <1>t, <2>1, <2>3, <2>4 DEF TypeOK, EntriesPurge, Signed
    <2> QED
      BY <2>5, <2>6, <2>7, <2>8 DEF IInv
  <1>6. CASE UNCHANGED vars
    BY <1>6, <1>t DEF vars, locals, IInv, TypeOK, Frames, Covered, EntriesPurge, Signed
  <1> QED
    BY <1>1, <1>2, <1>3, <1>4, <1>5, <1>6 DEF Next

\* A request that passes the denylist although its token was revoked before it
\* began has come at or after exp.
AirtightStep ==
    \A r \in Requests :
        pc[r] = "useDenylist" /\ pc'[r] = "serve" /\ late[r] => now >= Q * exp[jti[r]]

LEMMA StepIsAirtight ==
    ASSUME IInv, [Next]_vars
    PROVE  AirtightStep
  <1> SUFFICES ASSUME NEW r \in Requests, pc[r] = "useDenylist", pc'[r] = "serve", late[r]
               PROVE  now >= Q * exp[jti[r]]
    BY DEF AirtightStep
  <1>t. pc \in [Requests -> Labels]
    BY DEF IInv, TypeOK
  <1>1. CheckDenylist(r, "useDenylist", "serve")
    BY <1>t DEF Next, Tick, SignAccessToken, Present, VerifyClaims, CheckDenylist, Serve,
                RevokeUntil, Return, Goto, vars
  <1>2. ~Listed(jti[r])
    BY <1>1, <1>t DEF CheckDenylist, Return, Goto
  <1>3. PICK j \in revoked : j = jti[r]
    BY DEF IInv, Frames
  <1>4. denyEnd[j] >= Q * exp[j] /\ denyEnd[j] \in Int /\ exp[j] \in Nat /\ now \in Nat
    BY <1>3 DEF IInv, Covered, TypeOK, Signed
  <1>5. Q * exp[j] \in Int
    BY <1>4, TokenConstants
  <1> QED
    BY <1>2, <1>3, <1>4, <1>5 DEF Listed

-----------------------------------------------------------------------------

\* The inductive invariant holds in every reachable state.
THEOREM Invariance == Spec => []IInv
  <1>1. IInv /\ [Next]_vars => IInv'
    BY IInvNext
  <1> QED
    BY <1>1, IInvInit, PTL DEF Spec

\* Every variable keeps its type, and no token lives longer than its TTL.
THEOREM TypeCorrect == Spec => []TypeOK
  <1>1. IInv => TypeOK
    BY DEF IInv
  <1> QED
    BY <1>1, Invariance, PTL

\* Denylist entries purge themselves: none outlasts its token by a second,
\* unless it was written in the last one.
THEOREM DenylistIsBounded == Spec => []EntriesPurge
  <1>1. IInv => EntriesPurge
    BY DEF IInv
  <1> QED
    BY <1>1, Invariance, PTL

\* Revocation is airtight up to the token's expiry, for every resolution of the
\* clock and every TTL.
THEOREM RevocationIsAirtight == Spec => RevokedUntilExpiry
  <1>1. IInv /\ [Next]_vars => [AirtightStep]_vars
    BY StepIsAirtight
  <1> QED
    BY <1>1, Invariance, PTL DEF Spec, RevokedUntilExpiry, AirtightStep

-----------------------------------------------------------------------------
(* The rate limiter.                                                       *)

\* Requests that INCR counted in life w of the key and that will pass.
Passing(w) ==
    {r \in Requests : step[r] \in {"expire", "decide"} /\ window[r] = w /\ ~OverLimit(got[r])}

\* Each request that passes took one of the first Limit counts of its window.
Admissions ==
    /\ \A w \in Lives : admitted[w] + Cardinality(Passing(w)) <= Limit
    /\ admitted[life] + Cardinality(Passing(life)) <= count
    /\ \A w \in Lives : w > life => admitted[w] = 0 /\ Passing(w) = {}

\* A key without an expiry is new, and whoever created it is about to set one.
Expiries ==
    /\ left # 0 => count # 0
    /\ count # 0 => life < MaxLife
    /\ ~crashed /\ count # 0 /\ left = 0 => \E r \in Requests : step[r] = "expire"

LimiterInv == LimiterTypeOK /\ Admissions /\ Expiries

-----------------------------------------------------------------------------

\* The requests that will pass are finitely many.
LEMMA PassingIsFinite ==
    ASSUME NEW w
    PROVE  IsFiniteSet(Passing(w)) /\ Cardinality(Passing(w)) \in Nat
  <1>1. Passing(w) \in SUBSET Requests
    BY DEF Passing
  <1>2. IsFiniteSet(Requests)
    BY LimitConstants
  <1> QED
    BY <1>1, <1>2, FS_Subset, FS_CardinalityType

\* A step of request r to a statement after the decision: it no longer passes,
\* or it did not before.
LEMMA PassingShrinks ==
    ASSUME LimiterTypeOK, Admissions, NEW r \in Requests,
           NEW l \in {"idle", "ttl"}, step' = [step EXCEPT ![r] = l],
           \A q \in Requests \ {r} : got'[q] = got[q] /\ window'[q] = window[q],
           UNCHANGED <<count, life, admitted>>
    PROVE  Admissions'
  <1>1. ASSUME NEW w
        PROVE  /\ Passing(w)' \subseteq Passing(w)
               /\ Cardinality(Passing(w)') \in Nat
               /\ Cardinality(Passing(w)') <= Cardinality(Passing(w))
    <2>1. Passing(w)' \subseteq Passing(w)
      BY DEF Passing, LimiterTypeOK, OverLimit
    <2> QED
      BY <2>1, PassingIsFinite, FS_Subset, FS_CardinalityType
  <1>2. \A w \in Lives : Cardinality(Passing(w)) \in Nat /\ admitted[w] \in Nat
    BY PassingIsFinite DEF LimiterTypeOK
  <1>3. life \in Lives /\ count \in Nat /\ Limit \in Nat
    BY LimitConstants DEF LimiterTypeOK
  <1> QED
    BY <1>1, <1>2, <1>3 DEF Admissions, Lives

\* No key, no request: nothing is counted.
LEMMA LimiterInitInv ==
    ASSUME LimiterInit
    PROVE  LimiterInv
  <1>1. LimiterTypeOK
    <2>1. /\ count \in 0..MaxCount /\ left \in 0..Window /\ told \in 1..Window
          /\ step \in [Requests -> Steps] /\ got \in [Requests -> 0..MaxCount]
          /\ life \in Lives /\ window \in [Requests -> Lives]
          /\ admitted \in [Lives -> Nat]
      BY LimitConstants DEF LimiterInit, Lives, Steps
    <2>2. crashed \in BOOLEAN
      BY DEF LimiterInit
    <2> QED
      BY <2>1, <2>2 DEF LimiterTypeOK
  <1>2. \A w : Passing(w) = {}
    BY DEF LimiterInit, Passing
  <1>3. Cardinality({}) = 0
    BY FS_EmptySet
  <1>4. Admissions
    <2>1. life \in Lives /\ Limit \in Nat /\ count = 0
      BY <1>1, LimitConstants DEF LimiterTypeOK, LimiterInit
    <2>2. \A w \in Lives : admitted[w] = 0
      BY DEF LimiterInit
    <2>3. \A w : Cardinality(Passing(w)) = 0
      BY <1>2, <1>3, Zenon
    <2>4. \A w \in Lives : admitted[w] + Cardinality(Passing(w)) = 0
      BY <2>2, <2>3
    <2> QED
      BY <1>2, <2>1, <2>2, <2>4 DEF Admissions
  <1> QED
    BY <1>1, <1>4 DEF LimiterInv, Expiries, LimiterInit

\* Every step of the limiter keeps the invariant.
LEMMA LimiterNextInv ==
    ASSUME LimiterInv, [LimiterNext]_limiterVars
    PROVE  LimiterInv'
  <1> USE DEF StepTo, Leave, counted, history
  <1>t. LimiterTypeOK /\ Admissions /\ Expiries
    BY DEF LimiterInv
  <1>n. /\ count \in Nat /\ Limit \in Nat /\ life \in Lives
        /\ \A w \in Lives : Cardinality(Passing(w)) \in Nat /\ admitted[w] \in Nat
    BY <1>t, PassingIsFinite, LimitConstants DEF LimiterTypeOK
  <1>1. ASSUME NEW r \in Requests, Increment(r)
        PROVE  LimiterInv'
    <2>1. /\ count' = count + 1 /\ count < MaxCount /\ life < MaxLife
          /\ step[r] = "idle"
          /\ step' = [step EXCEPT ![r] = IF count + 1 = 1 THEN "expire" ELSE "decide"]
          /\ got' = [got EXCEPT ![r] = count + 1] /\ window' = [window EXCEPT ![r] = life]
          /\ UNCHANGED <<left, life, told, crashed, admitted>>
      BY <1>1, <1>n DEF Increment, OpensWindow
    <2>2. LimiterTypeOK'
      BY <1>t, <2>1, LimitConstants DEF LimiterTypeOK, Steps
    <2>3. ASSUME NEW w
          PROVE  Passing(w)' = IF w = life /\ count + 1 <= Limit
                               THEN Passing(w) \union {r} ELSE Passing(w)
      BY <1>t, <1>n, <2>1 DEF Passing, LimiterTypeOK, OverLimit
    <2>4. r \notin Passing(life)
      BY <2>1 DEF Passing
    <2>5. Cardinality(Passing(life) \union {r}) = Cardinality(Passing(life)) + 1
      BY <2>4, PassingIsFinite, FS_AddElement
    <2>6. Admissions'
      <3>1. ASSUME NEW w \in Lives, w # life
            PROVE  Passing(w)' = Passing(w)
        BY <2>3, <3>1
      <3>2. ASSUME NEW w \in Lives, w = life
            PROVE  /\ admitted[w] + Cardinality(Passing(w)') <= Limit
                   /\ admitted[w] + Cardinality(Passing(w)') <= count + 1
        <4>1. \/ Passing(w)' = Passing(w)
              \/ count + 1 <= Limit /\ Passing(w)' = Passing(w) \union {r}
          BY <2>3
        <4>2. /\ admitted[w] + Cardinality(Passing(w)) <= Limit
              /\ admitted[w] + Cardinality(Passing(w)) <= count
              /\ admitted[w] \in Nat /\ Cardinality(Passing(w)) \in Nat
          BY <1>t, <1>n, <3>2 DEF Admissions
        <4>3. Cardinality(Passing(w) \union {r}) = Cardinality(Passing(w)) + 1
          BY <2>5, <3>2
        <4>4. count \in Nat /\ Limit \in Nat
          BY <1>n
        <4>5. CASE Passing(w)' = Passing(w)
          BY <4>2, <4>4, <4>5
        <4>6. CASE count + 1 <= Limit /\ Passing(w)' = Passing(w) \union {r}
          BY <4>2, <4>3, <4>4, <4>6
        <4> QED
          BY <4>1, <4>5, <4>6
      <3>3. \A w \in Lives : admitted[w] + Cardinality(Passing(w)') <= Limit
        BY <1>t, <3>1, <3>2 DEF Admissions
      <3>4. \A w \in Lives : w > life => admitted[w] = 0 /\ Passing(w)' = {}
        BY <1>t, <1>n, <3>1 DEF Admissions, Lives
      <3>5. admitted'[life'] + Cardinality(Passing(life)') <= count'
        BY <1>n, <2>1, <3>2
      <3> QED
        BY <2>1, <3>3, <3>4, <3>5 DEF Admissions
    <2>7. Expiries'
      BY <1>t, <1>n, <2>1 DEF Expiries, LimiterTypeOK
    <2> QED
      BY <2>2, <2>6, <2>7 DEF LimiterInv
  <1>2. ASSUME NEW r \in Requests, SetExpiry(r)
        PROVE  LimiterInv'
    <2>1. LimiterTypeOK'
      BY <1>t, <1>2, LimitConstants DEF SetExpiry, LimiterTypeOK, Steps
    <2>2. \A w : Passing(w)' = Passing(w)
      BY <1>t, <1>2 DEF SetExpiry, Passing, LimiterTypeOK, OverLimit
    <2>3. Admissions'
      BY <1>t, <1>2, <2>2 DEF SetExpiry, Admissions
    <2>4. Expiries'
      BY <1>t, <1>2, LimitConstants DEF SetExpiry, Expiries
    <2> QED
      BY <2>1, <2>3, <2>4 DEF LimiterInv
  <1>3. ASSUME NEW r \in Requests, Admit(r)
        PROVE  LimiterInv'
    <2>1. LimiterTypeOK'
      BY <1>t, <1>3, LimitConstants DEF Admit, LimiterTypeOK, Steps, Lives
    <2>2. r \in Passing(window[r]) /\ window[r] \in Lives
      BY <1>t, <1>3 DEF Admit, Passing, LimiterTypeOK
    <2>3. ASSUME NEW w
          PROVE  Passing(w)' = IF w = window[r] THEN Passing(w) \ {r} ELSE Passing(w)
      BY <1>t, <1>3 DEF Admit, Passing, LimiterTypeOK, OverLimit
    <2>4. Cardinality(Passing(window[r]) \ {r}) = Cardinality(Passing(window[r])) - 1
      BY <2>2, PassingIsFinite, FS_RemoveElement
    <2>5. ASSUME NEW w \in Lives
          PROVE  admitted'[w] + Cardinality(Passing(w)') = admitted[w] + Cardinality(Passing(w))
      <3>1. admitted' = [admitted EXCEPT ![window[r]] = admitted[window[r]] + 1]
            /\ admitted \in [Lives -> Nat]
        BY <1>t, <1>3 DEF Admit, LimiterTypeOK
      <3>2. CASE w = window[r]
        <4>1. admitted'[w] = admitted[w] + 1
              /\ Cardinality(Passing(w)') = Cardinality(Passing(w)) - 1
          BY <2>3, <2>4, <3>1, <3>2
        <4> QED
          BY <1>n, <4>1
      <3>3. CASE w # window[r]
        BY <2>3, <3>1, <3>3
      <3> QED
        BY <3>2, <3>3
    <2>6. \A w \in Lives : w > life => w # window[r]
      BY <1>t, <2>2 DEF Admissions
    <2>7. Admissions'
      BY <1>t, <1>n, <1>3, <2>3, <2>5, <2>6 DEF Admit, Admissions, LimiterTypeOK
    <2>8. Expiries'
      BY <1>t, <1>3 DEF Admit, Expiries, LimiterTypeOK
    <2> QED
      BY <2>1, <2>7, <2>8 DEF LimiterInv
  <1>4. ASSUME NEW r \in Requests, Reject(r)
        PROVE  LimiterInv'
    <2>1. LimiterTypeOK'
      BY <1>t, <1>4 DEF Reject, LimiterTypeOK, Steps
    <2>2. Admissions'
      BY <1>t, <1>4, PassingShrinks DEF Reject
    <2>3. Expiries'
      BY <1>t, <1>4 DEF Reject, Expiries, LimiterTypeOK
    <2> QED
      BY <2>1, <2>2, <2>3 DEF LimiterInv
  <1>5. ASSUME NEW r \in Requests, TooManyRequests(r)
        PROVE  LimiterInv'
    <2>1. RetryAfter \in 1..Window
      BY <1>t, LimitConstants DEF RetryAfter, TtlOf, LimiterTypeOK
    <2>2. LimiterTypeOK'
      BY <1>t, <1>5, <2>1, LimitConstants DEF TooManyRequests, LimiterTypeOK, Steps, Lives
    <2>3. Admissions'
      BY <1>t, <1>5, PassingShrinks DEF TooManyRequests, LimiterTypeOK
    <2>4. Expiries'
      BY <1>t, <1>5 DEF TooManyRequests, Expiries, LimiterTypeOK
    <2> QED
      BY <2>2, <2>3, <2>4 DEF LimiterInv
  <1>6. ASSUME NEW r \in Requests, Abort(r)
        PROVE  LimiterInv'
    <2>1. LimiterTypeOK'
      BY <1>t, <1>6, LimitConstants DEF Abort, LimiterTypeOK, Steps, Lives
    <2>2. Admissions'
      BY <1>t, <1>6, PassingShrinks DEF Abort, LimiterTypeOK
    <2>3. Expiries'
      BY <1>t, <1>6 DEF Abort, Expiries
    <2> QED
      BY <2>1, <2>2, <2>3 DEF LimiterInv
  <1>7. ASSUME Second
        PROVE  LimiterInv'
    <2>1. \A w : Passing(w)' = Passing(w)
      BY <1>7 DEF Second, Passing, OverLimit
    <2>2. CASE left # 1
      <3>1. UNCHANGED <<count, life, admitted>> /\ left' \in 0..Window /\ (left' = 0 <=> left = 0)
        BY <1>t, <1>7, <2>2, LimitConstants DEF Second, LimiterTypeOK
      <3>2. LimiterTypeOK'
        BY <1>t, <1>7, <3>1 DEF Second, LimiterTypeOK
      <3>3. Admissions' /\ Expiries'
        BY <1>t, <1>7, <2>1, <3>1 DEF Second, Admissions, Expiries
      <3> QED
        BY <3>2, <3>3 DEF LimiterInv
    <2>3. CASE left = 1
      <3>1. count' = 0 /\ left' = 0 /\ life' = life + 1 /\ life < MaxLife /\ admitted' = admitted
        BY <1>t, <1>7, <2>3 DEF Second, Expiries
      <3>2. life + 1 \in Lives /\ life + 1 > life
        BY <1>n, <3>1, LimitConstants DEF Lives
      <3>3. LimiterTypeOK'
        BY <1>t, <1>7, <3>1, <3>2, LimitConstants DEF Second, LimiterTypeOK
      <3>4. admitted[life + 1] = 0 /\ Passing(life + 1) = {} /\ Cardinality({}) = 0
        BY <1>t, <3>2, FS_EmptySet DEF Admissions
      <3>5. Admissions'
        BY <1>t, <1>n, <2>1, <3>1, <3>2, <3>4 DEF Admissions, Lives
      <3>6. Expiries'
        BY <3>1 DEF Expiries
      <3> QED
        BY <3>3, <3>5, <3>6 DEF LimiterInv
    <2> QED
      BY <2>2, <2>3
  <1>8. ASSUME UNCHANGED limiterVars
        PROVE  LimiterInv'
    BY <1>t, <1>8 DEF limiterVars, LimiterInv, LimiterTypeOK, Admissions, Expiries, Passing
  <1> QED
    BY <1>1, <1>2, <1>3, <1>4, <1>5, <1>6, <1>7, <1>8 DEF LimiterNext, Step

\* The invariant of the limiter holds in every reachable state.
THEOREM LimiterInvariance == LimiterSpec => []LimiterInv
  <1>1. LimiterInv /\ [LimiterNext]_limiterVars => LimiterInv'
    BY LimiterNextInv
  <1>2. LimiterInit => LimiterInv
    BY LimiterInitInv
  <1> QED
    BY <1>1, <1>2, PTL DEF LimiterSpec

\* A window admits at most its limit, whatever part of it has passed when a
\* request that was counted decides.
THEOREM LimitIsKept == LimiterSpec => []LimitHolds
  <1>1. LimiterInv => LimitHolds
    <2> SUFFICES ASSUME LimiterInv, NEW w \in Lives
                 PROVE  admitted[w] <= Limit
      BY DEF LimitHolds
    <2>1. /\ admitted[w] + Cardinality(Passing(w)) <= Limit
          /\ admitted[w] \in Nat /\ Limit \in Nat
      BY LimitConstants DEF LimiterInv, Admissions, LimiterTypeOK
    <2> QED
      BY <2>1, PassingIsFinite
  <1> QED
    BY <1>1, LimiterInvariance, PTL

\* Every variable of the limiter keeps its type: no Retry-After is shorter than
\* a second or longer than the window.
THEOREM LimiterTypes == LimiterSpec => []LimiterTypeOK
  <1>1. LimiterInv => LimiterTypeOK
    BY DEF LimiterInv
  <1> QED
    BY <1>1, LimiterInvariance, PTL

\* INCR and EXPIRE are two commands, but unless a process dies in between no
\* counter is left without an expiry.
THEOREM CountersExpire == LimiterSpec => []CounterExpires
  <1>1. LimiterInv => CounterExpires
    BY DEF LimiterInv, Expiries, CounterExpires
  <1> QED
    BY <1>1, LimiterInvariance, PTL

=============================================================================
