----------------------------- MODULE SigningKeys -----------------------------
(***************************************************************************)
(* LocalKeyProvider, the JWKS route and the gateway's RemoteTokenVerifier. *)
(* Signing keys are files in a directory that several processes share (an  *)
(* auth-server, its successor while it is restarted, scripts/generate-keys)*)
(* and a gateway holds a copy of the public keys fetched by HTTP.          *)
(*                                                                         *)
(* The provider is synchronous code, so within a process nothing comes     *)
(* between its statements; every file-system call is an action because     *)
(* another process may act in between, and because a process may be killed *)
(* there.  A file is opened (it exists and is empty) and written in two    *)
(* calls.  A signature and its token are the kid in the token's header.    *)
(***************************************************************************)
EXTENDS Naturals

CONSTANTS
    Servers,    \* processes with a LocalKeyProvider on the same directory
    Keys,       \* kids; numbers, because ties are ordered by kid
    Cooldown,   \* jose: no second fetch for an unknown kid within this time
    CacheAge,   \* cacheMaxAge
    MaxNow      \* bound: keys are made before this time

ASSUME KeysAreNumbers == Keys \subseteq Nat \ {0}
ASSUME TimesAreOrdered ==
    /\ Cooldown \in Nat \ {0} /\ CacheAge \in Nat /\ Cooldown <= CacheAge
    /\ MaxNow \in Nat \ {0}

VARIABLES
    now,
    \* KMS_KEY_DIR
    files,      \* signing keys whose file is complete
    torn,       \* signing keys whose file is empty
    createdAt,
    \* each process
    rotateSeq,
    pc,
    goal,       \* "sign" or "rotate"
    kid,        \* the key in hand; 0 for none
    \* the gateway: jose's createRemoteJWKSet
    jwks,       \* the kids in the local copy
    age,        \* time since the copy was made; CacheAge when stale or none
    fetch,      \* the one pending fetch: "none", "sent" or "answered"
    answer,     \* the kids it was answered with
    waiting,    \* the kids of the tokens whose check awaits it
    \* history
    signed,     \* kids of the tokens in circulation
    latest,     \* the key made last
    makers      \* how many processes, counted anew after a restart, have made keys

dir == <<files, torn, createdAt>>
process == <<rotateSeq, pc, goal, kid>>
gateway == <<jwks, age, fetch, answer, waiting>>
history == <<signed, latest, makers>>
vars == <<now, dir, process, gateway, history>>

Labels == {"idle", "list", "rotate", "open", "write", "sign"}

Goto(s, l) == pc' = [pc EXCEPT ![s] = l]

Return(s) ==
    /\ Goto(s, "idle")
    /\ goal' = [goal EXCEPT ![s] = "none"]
    /\ kid' = [kid EXCEPT ![s] = 0]

\* A kid contains a fingerprint and random digits: it is new.
Unused == {k \in Keys : createdAt[k] = 0}

\* The comparison of listSigningKeyFiles: newest first, then by kid.
Precedes(k, l) ==
    createdAt[k] > createdAt[l] \/ (createdAt[k] = createdAt[l] /\ k > l)

\* files[0] of the sorted listing
Current == CHOOSE k \in files : \A l \in files \ {k} : Precedes(k, l)

Init ==
    /\ now = 1
    /\ files = {} /\ torn = {}
    /\ createdAt = [k \in Keys |-> 0]
    /\ rotateSeq = [s \in Servers |-> 0]
    /\ pc = [s \in Servers |-> "idle"]
    /\ goal = [s \in Servers |-> "none"]
    /\ kid = [s \in Servers |-> 0]
    /\ jwks = {} /\ age = CacheAge /\ fetch = "none" /\ answer = {} /\ waiting = {}
    /\ signed = {} /\ latest = 0 /\ makers = 0

-----------------------------------------------------------------------------
(* Signing: JwtService.signAccessToken and getCurrentSigningKey.           *)

SignAccessToken(s) ==
    /\ pc[s] = "idle"
    /\ goal' = [goal EXCEPT ![s] = "sign"]
    /\ Goto(s, "list")
    /\ UNCHANGED <<now, dir, rotateSeq, kid, gateway, history>>

\* listSigningKeyFiles parses every file: an empty one makes it throw.
GetCurrentSigningKey(s) ==
    /\ pc[s] = "list"
    /\ \/ torn # {} /\ Return(s)
       \/ /\ torn = {} /\ files = {}
          /\ Goto(s, "rotate") /\ UNCHANGED <<goal, kid>>
       \/ /\ torn = {} /\ files # {}
          /\ kid' = [kid EXCEPT ![s] = Current]
          /\ Goto(s, "sign") /\ UNCHANGED goal
    /\ UNCHANGED <<now, dir, rotateSeq, gateway, history>>

\* The key is imported and the token signed, some awaits later.
Sign(s) ==
    /\ pc[s] = "sign"
    /\ signed' = signed \union {kid[s]}
    /\ Return(s)
    /\ UNCHANGED <<now, dir, rotateSeq, gateway, latest, makers>>

-----------------------------------------------------------------------------
(* Rotation.                                                               *)

\* A caller of the interface asks for a new key.
BeginRotation(s) ==
    /\ pc[s] = "idle" /\ now < MaxNow /\ Unused # {}
    /\ goal' = [goal EXCEPT ![s] = "rotate"]
    /\ Goto(s, "rotate")
    /\ UNCHANGED <<now, dir, rotateSeq, kid, gateway, history>>

\* Mutant of Stamp: the plain clock.
StampOfClock(s) == now

\* Date.now() + this.rotateSeq++
Stamp(s) == now + rotateSeq[s]

RotateSigningKey(s, k) ==
    /\ pc[s] = "rotate" /\ k \in Unused
    /\ createdAt' = [createdAt EXCEPT ![k] = Stamp(s)]
    /\ rotateSeq' = [rotateSeq EXCEPT ![s] = @ + 1]
    /\ kid' = [kid EXCEPT ![s] = k]
    /\ Goto(s, "open")
    /\ makers' = IF rotateSeq[s] = 0 THEN makers + 1 ELSE makers
    /\ UNCHANGED <<now, files, torn, goal, gateway, signed, latest>>

\* The private key is wrapped; writeFileSync creates the file...
OpenKeyFile(s) ==
    /\ pc[s] = "open"
    /\ torn' = torn \union {kid[s]}
    /\ Goto(s, "write")
    /\ UNCHANGED <<now, files, createdAt, rotateSeq, goal, kid, gateway, history>>

\* Mutant of WriteKeyFile: the new key takes the place of the old ones.
WriteOnlyKeyFile(s) ==
    /\ pc[s] = "write"
    /\ torn' = torn \ {kid[s]}
    /\ files' = {kid[s]}
    /\ latest' = kid[s]
    /\ \/ goal[s] = "sign" /\ Goto(s, "list") /\ UNCHANGED <<goal, kid>>
       \/ goal[s] = "rotate" /\ Return(s)
    /\ UNCHANGED <<now, createdAt, rotateSeq, gateway, signed, makers>>

\* ... and writes it.  getCurrentSigningKey then starts over.
WriteKeyFile(s) ==
    /\ pc[s] = "write"
    /\ torn' = torn \ {kid[s]}
    /\ files' = files \union {kid[s]}
    /\ latest' = kid[s]
    /\ \/ goal[s] = "sign" /\ Goto(s, "list") /\ UNCHANGED <<goal, kid>>
       \/ goal[s] = "rotate" /\ Return(s)
    /\ UNCHANGED <<now, createdAt, rotateSeq, gateway, signed, makers>>

\* The process ends, at any point, and is started again.  What it has cached
\* or counted is gone; what it has written stays.
Restart(s) ==
    /\ Return(s)
    /\ rotateSeq' = [rotateSeq EXCEPT ![s] = 0]
    /\ UNCHANGED <<now, dir, gateway, history>>

-----------------------------------------------------------------------------
(* Verification.                                                           *)

\* Mutant of ListPublicKeys: only the current key is published.
ListCurrentKey == IF files = {} THEN {} ELSE {Current}

\* listPublicKeys, the body of /.well-known/jwks.json.
ListPublicKeys == files

\* JwtService.verifyAccessToken on the auth-server: getPublicKey by kid.
Verifies(k) == torn = {} /\ k \in files

\* The JWKS route answers the gateway's fetch, or fails on an empty file; then
\* the checks that wait fail with it and the copy stays as it was.
ServeJwks ==
    /\ fetch = "sent"
    /\ \/ /\ torn = {}
          /\ fetch' = "answered" /\ answer' = ListPublicKeys
          /\ UNCHANGED waiting
       \/ /\ torn # {}
          /\ fetch' = "none" /\ waiting' = {}
          /\ UNCHANGED answer
    /\ UNCHANGED <<now, dir, process, jwks, age, history>>

\* The answer arrives: the copy is replaced and dated by its arrival.  The
\* checks that waited look once more; a kid that is still not there is refused,
\* for the copy is too young to be fetched again.
Reload ==
    /\ fetch = "answered"
    /\ jwks' = answer /\ age' = 0
    /\ fetch' = "none" /\ answer' = {} /\ waiting' = {}
    /\ UNCHANGED <<now, dir, process, history>>

\* Mutant of NeedsFetch: the keys are fetched once and for all.
NeedsFetchOnce(k) == jwks = {}

\* A copy older than cacheMaxAge is always fetched anew, a younger one for a
\* kid it does not have, except while coolingDown().
NeedsFetch(k) == age = CacheAge \/ (k \notin jwks /\ age >= Cooldown)

\* RemoteTokenVerifier.verify of a token signed with k.  A check that needs no
\* fetch is decided at once, and changes nothing: accepted when k is in the
\* copy, UNKNOWN_SIGNING_KEY otherwise.  A pending fetch is shared.
Verify(k) ==
    /\ k \in signed /\ NeedsFetch(k)
    /\ waiting' = waiting \union {k}
    /\ fetch' = IF fetch = "none" THEN "sent" ELSE fetch
    /\ UNCHANGED <<now, dir, process, jwks, age, answer, history>>

\* Time passes.  After MaxNow only the age of the copy matters.
Tick ==
    /\ now' = IF now < MaxNow THEN now + 1 ELSE now
    /\ age' = IF age < CacheAge THEN age + 1 ELSE age
    /\ UNCHANGED <<dir, process, jwks, fetch, answer, waiting, history>>

-----------------------------------------------------------------------------

Step(s) ==
    \/ GetCurrentSigningKey(s) \/ Sign(s)
    \/ \E k \in Keys : RotateSigningKey(s, k)
    \/ OpenKeyFile(s) \/ WriteKeyFile(s)

Next ==
    \/ \E s \in Servers : SignAccessToken(s) \/ BeginRotation(s) \/ Step(s) \/ Restart(s)
    \/ \E k \in Keys : Verify(k)
    \/ ServeJwks \/ Reload
    \/ Tick

Spec == Init /\ [][Next]_vars

\* Synchronous code goes on to its end (unless the process is killed), a
\* fetch is answered, and time passes.  Nobody has to ask for anything.
Fairness ==
    /\ \A s \in Servers : WF_vars(Step(s))
    /\ WF_vars(ServeJwks) /\ WF_vars(Reload)
    /\ WF_vars(Tick)

FairSpec == Spec /\ Fairness

-----------------------------------------------------------------------------
(* Properties.                                                             *)

\* Every variable has its type.
TypeOK ==
    /\ now \in 1..MaxNow
    /\ files \subseteq Keys /\ torn \subseteq Keys
    /\ createdAt \in [Keys -> Nat]
    /\ rotateSeq \in [Servers -> Nat]
    /\ pc \in [Servers -> Labels]
    /\ goal \in [Servers -> {"none", "sign", "rotate"}]
    /\ kid \in [Servers -> Keys \union {0}]
    /\ jwks \subseteq Keys /\ age \in 0..CacheAge
    /\ fetch \in {"none", "sent", "answered"} /\ answer \subseteq Keys
    /\ waiting \subseteq Keys
    /\ signed \subseteq Keys /\ latest \in Keys \union {0}
    /\ makers \in Nat

Writing(k) == \E s \in Servers : pc[s] = "write" /\ kid[s] = k

\* A process died between opening and writing a key file: no listing, and so
\* no signature and no verification, succeeds until somebody removes it.
Stuck == \E k \in torn : ~Writing(k)

\* "Old keys remain for verification" (kms.types.ts): through rotations, first
\* starts of two processes at once and restarts, the auth-server can verify
\* every token it has signed, but for the moment another process is writing a
\* key file and unless one died doing so.
OldKeysVerify ==
    \A k \in signed : Verifies(k) \/ (\E l \in torn : Writing(l)) \/ Stuck

\* "Generates and persists a NEW current signing key": as long as one process
\* makes the keys and is not restarted, the key it made last is the current one,
\* however many it makes in one millisecond.
NewestSigns ==
    makers = 1 /\ files # {} => Current = latest

\* The gateway's copy only grows, whatever is fetched when: a token it has
\* accepted is not refused later for its key.
GatewayForgetsNoKey == [][jwks \subseteq jwks']_vars

\* "New kids are fetched automatically" (remote-token-verifier.ts): a token whose
\* bearer tries again whenever that may help is accepted in the end, although
\* its key is unknown while the copy is young, fetches fail while a key file is
\* being written, and an answer may be older than the key.
RetriedTokenAccepted ==
    \A k \in Keys : WF_vars(Verify(k)) => (k \in signed ~> (k \in jwks \/ Stuck))

=============================================================================
