-------------------------- MODULE SigningKeysProofs --------------------------
(***************************************************************************)
(* Proofs about SigningKeys, for any number of processes on one key        *)
(* directory, any number of keys, and every interleaving of signing,       *)
(* rotation, death and restart with the gateway's fetches.                 *)
(*                                                                         *)
(* The inductive invariant has three parts besides the types.  Directory:  *)
(* what is signed with, fetched or about to be used is a complete file,    *)
(* and the sorted listing has a first element, so that Current is one of   *)
(* the files.  Copies: the gateway's copy and the answer on its way are    *)
(* ordered by inclusion.  Sequence: as long as one process makes the keys, *)
(* their stamps increase.                                                  *)
(***************************************************************************)
EXTENDS SigningKeys, TLAPS

Making == {"open", "write"}

\* The listing of the set F, sorted, has a first element.
HasFirst(F) == F = {} \/ \E k \in F : \A l \in F \ {k} : Precedes(k, l)

Directory ==
    /\ \A k \in files : createdAt[k] > 0
    /\ HasFirst(files)
    /\ signed \subseteq files
    /\ \A s \in Servers :
          /\ pc[s] = "sign" => kid[s] \in files
          /\ pc[s] \in Making => kid[s] \in Keys /\ createdAt[kid[s]] > 0 /\ rotateSeq[s] > 0

Copies ==
    /\ jwks \subseteq files
    /\ fetch = "answered" => jwks \subseteq answer /\ answer \subseteq files

Sequence ==
    /\ makers = 0 =>
          /\ files = {}
          /\ \A k \in Keys : createdAt[k] = 0
          /\ \A s \in Servers : rotateSeq[s] = 0
    /\ makers = 1 =>
          /\ \A s, q \in Servers : rotateSeq[s] > 0 /\ rotateSeq[q] > 0 => s = q
          /\ \A s \in Servers, k \in Keys : rotateSeq[s] > 0 => createdAt[k] < now + rotateSeq[s]
          /\ \A s \in Servers : pc[s] \in Making =>
                \A k \in files : k # kid[s] => createdAt[k] < createdAt[kid[s]]
          /\ files # {} => /\ latest \in files
                           /\ \A k \in files \ {latest} : createdAt[k] < createdAt[latest]

IInv == TypeOK /\ Directory /\ Copies /\ Sequence

-----------------------------------------------------------------------------
(* The order of the listing.                                               *)

\* Sorting puts one of the files first.
LEMMA CurrentIsAFile ==
    ASSUME Directory, files # {}
    PROVE  Current \in files /\ \A l \in files \ {Current} : Precedes(Current, l)
  BY DEF Directory, HasFirst, Current

\* One more file leaves the listing with a first element: it comes before the
\* old one or after it.
LEMMA FirstStays ==
    ASSUME KeysAreNumbers, createdAt \in [Keys -> Nat], NEW F \in SUBSET Keys, NEW n \in Keys,
           HasFirst(F)
    PROVE  HasFirst(F \union {n})
  <1>1. CASE F = {} \/ n \in F
    BY <1>1 DEF HasFirst
  <1>2. CASE F # {} /\ n \notin F
    <2>1. PICK k \in F : \A l \in F \ {k} : Precedes(k, l)
      BY <1>2 DEF HasFirst
    <2>2. n \in Nat /\ createdAt[n] \in Nat /\ \A l \in F : l \in Nat /\ createdAt[l] \in Nat
      BY KeysAreNumbers
    <2>3. CASE Precedes(k, n)
      <3>1. \A l \in (F \union {n}) \ {k} : Precedes(k, l)
        BY <2>1, <2>3
      <3> QED
        BY <3>1 DEF HasFirst
    <2>4. CASE ~Precedes(k, n)
      <3>1. Precedes(n, k)
        BY <1>2, <2>2, <2>4 DEF Precedes
      <3>2. \A l \in F \ {k} : Precedes(n, l)
        BY <2>1, <2>2, <3>1 DEF Precedes
      <3>3. \A l \in (F \union {n}) \ {n} : Precedes(n, l)
        BY <3>1, <3>2
      <3> QED
        BY <3>3 DEF HasFirst
    <2> QED
      BY <2>3, <2>4
  <1> QED
    BY <1>1, <1>2

\* While the key made last has the largest stamp it is the current one.
LEMMA LatestIsCurrent ==
    ASSUME IInv, makers = 1, files # {}
    PROVE  Current = latest
  <1>1. Current \in files /\ \A l \in files \ {Current} : Precedes(Current, l)
    BY CurrentIsAFile DEF IInv
  <1>2. latest \in files /\ \A k \in files \ {latest} : createdAt[k] < createdAt[latest]
    BY DEF IInv, Sequence
  <1>3. \A k \in files : createdAt[k] \in Nat
    BY DEF IInv, TypeOK
  <1> QED
    BY <1>1, <1>2, <1>3 DEF Precedes

-----------------------------------------------------------------------------

\* An empty directory satisfies everything.
LEMMA IInvInit == Init => IInv
  <1> SUFFICES ASSUME Init PROVE IInv
    OBVIOUS
  <1> USE KeysAreNumbers, TimesAreOrdered DEF Init
  <1>1. TypeOK
    BY DEF TypeOK, Labels
  <1>2. Directory
    BY DEF Directory, HasFirst, Making
  <1>3. Copies
    BY DEF Copies
  <1>4. Sequence
    BY DEF Sequence
  <1> QED
    BY <1>1, <1>2, <1>3, <1>4 DEF IInv

\* Every step keeps the invariant.
LEMMA IInvNext ==
    ASSUME IInv, [Next]_vars
    PROVE  IInv'
  <1> USE KeysAreNumbers, TimesAreOrdered DEF dir, process, gateway, history, Labels, Goto
  <1>t. TypeOK /\ Directory /\ Copies /\ Sequence
    BY DEF IInv
  <1>1. ASSUME NEW s \in Servers, SignAccessToken(s) \/ BeginRotation(s)
        PROVE  IInv'
    <2>1. TypeOK'
      BY <1>1, <1>t DEF SignAccessToken, BeginRotation, TypeOK
    <2>2. Directory' /\ Sequence'
      <3>1. CASE SignAccessToken(s)
        BY <3>1, <1>t DEF SignAccessToken, TypeOK, Directory, HasFirst, Precedes, Sequence,
                          Making
      <3>2. CASE BeginRotation(s)
        BY <3>2, <1>t DEF BeginRotation, TypeOK, Directory, HasFirst, Precedes, Sequence,
                          Making
      <3> QED
        BY <1>1, <3>1, <3>2
    <2>3. Copies'
      BY <1>1, <1>t DEF SignAccessToken, BeginRotation, Copies
    <2> QED
      BY <2>1, <2>2, <2>3 DEF IInv
  <1>2. ASSUME NEW s \in Servers, GetCurrentSigningKey(s)
        PROVE  IInv'
    <2>1. /\ pc[s] = "list" /\ UNCHANGED <<now, dir, rotateSeq, gateway, history>>
      BY <1>2 DEF GetCurrentSigningKey
    <2>2. CASE Return(s)
      <3>1. TypeOK'
        BY <2>1, <2>2, <1>t DEF Return, TypeOK
      <3>2. Directory' /\ Sequence'
        BY <2>1, <2>2, <1>t DEF Return, TypeOK, Directory, HasFirst, Precedes, Sequence, Making
      <3>3. Copies'
        BY <2>1, <1>t DEF Copies
      <3> QED
        BY <3>1, <3>2, <3>3 DEF IInv
    <2>3. CASE Goto(s, "rotate") /\ UNCHANGED <<goal, kid>>
      <3>1. TypeOK'
        BY <2>1, <2>3, <1>t DEF TypeOK
      <3>2. Directory' /\ Sequence'
        BY <2>1, <2>3, <1>t DEF TypeOK, Directory, HasFirst, Precedes, Sequence, Making
      <3>3. Copies'
        BY <2>1, <1>t DEF Copies
      <3> QED
        BY <3>1, <3>2, <3>3 DEF IInv
    <2>4. CASE /\ files # {} /\ kid' = [kid EXCEPT ![s] = Current]
               /\ Goto(s, "sign") /\ UNCHANGED goal
      <3>0. PICK c \in files : c = Current
        BY <2>4, <1>t, CurrentIsAFile
      <3>1. TypeOK'
        BY <2>1, <2>4, <3>0, <1>t DEF TypeOK
      <3>2. Directory' /\ Sequence'
        BY <2>1, <2>4, <3>0, <1>t DEF TypeOK, Directory, HasFirst, Precedes, Sequence, Making
      <3>3. Copies'
        BY <2>1, <1>t DEF Copies
      <3> QED
        BY <3>1, <3>2, <3>3 DEF IInv
    <2> QED
      BY <1>2, <2>2, <2>3, <2>4 DEF GetCurrentSigningKey
  <1>3. ASSUME NEW s \in Servers, Sign(s)
        PROVE  IInv'
    <2>1. TypeOK'
      BY <1>3, <1>t DEF Sign, Return, TypeOK, Directory
    <2>2. Directory'
      BY <1>3, <1>t DEF Sign, Return, TypeOK, Directory, HasFirst, Precedes, Making
    <2>3. Sequence'
      BY <1>3, <1>t DEF Sign, Return, TypeOK, Sequence, Making
    <2>4. Copies'
      BY <1>3, <1>t DEF Sign, Copies
    <2> QED
      BY <2>1, <2>2, <2>3, <2>4 DEF IInv
  <1>4. ASSUME NEW s \in Servers, NEW k \in Keys, RotateSigningKey(s, k)
        PROVE  IInv'
    <2>1. /\ pc[s] = "rotate" /\ createdAt[k] = 0 /\ k \notin files
          /\ createdAt' = [createdAt EXCEPT ![k] = now + rotateSeq[s]]
          /\ rotateSeq' = [rotateSeq EXCEPT ![s] = rotateSeq[s] + 1]
          /\ kid' = [kid EXCEPT ![s] = k] /\ pc' = [pc EXCEPT ![s] = "open"]
          /\ makers' = IF rotateSeq[s] = 0 THEN makers + 1 ELSE makers
          /\ UNCHANGED <<now, files, torn, goal, gateway, signed, latest>>
      BY <1>4, <1>t DEF RotateSigningKey, Unused, Stamp, Directory, TypeOK
    <2>2. now \in Nat \ {0} /\ rotateSeq[s] \in Nat
      BY <1>t DEF TypeOK
    <2>3. TypeOK'
      BY <2>1, <2>2, <1>t DEF TypeOK
    <2>4. HasFirst(files)'
      BY <2>1, <1>t DEF TypeOK, Directory, HasFirst, Precedes
    <2>5. Directory'
      BY <2>1, <2>2, <2>4, <1>t DEF TypeOK, Directory, Making
    <2>6. Sequence'
      <3>0. makers \in Nat /\ \A q \in Servers : rotateSeq[q] \in Nat
        BY <1>t DEF TypeOK
      \* the first key of all
      <3>1. CASE makers = 0
        <4>1. rotateSeq[s] = 0 /\ makers' = 1 /\ files' = {}
          BY <2>1, <3>1, <1>t DEF Sequence
        <4>2. \A q \in Servers : q # s => rotateSeq'[q] = 0 /\ pc'[q] \notin Making
          BY <2>1, <3>1, <1>t DEF Sequence, Directory, TypeOK
        <4>3. \A j \in Keys : createdAt'[j] < now' + rotateSeq'[s]
          BY <2>1, <2>2, <3>1, <1>t DEF Sequence, TypeOK
        <4> QED
          BY <4>1, <4>2, <4>3 DEF Sequence
      \* the next key of the only maker
      <3>2. CASE makers = 1 /\ rotateSeq[s] > 0
        <4>1. makers' = 1
          BY <2>1, <3>2
        <4>2. \A q \in Servers : q # s => rotateSeq'[q] = 0 /\ pc'[q] \notin Making
          BY <2>1, <3>0, <3>2, <1>t DEF Sequence, Directory, TypeOK
        <4>3. \A j \in Keys : createdAt[j] < now + rotateSeq[s]
          BY <3>2, <1>t DEF Sequence
        <4>4. \A j \in Keys : createdAt'[j] < now' + rotateSeq'[s]
          BY <2>1, <2>2, <4>3, <1>t DEF TypeOK
        <4>5. \A j \in files' : j # k => createdAt'[j] < createdAt'[k]
          BY <2>1, <2>2, <4>3, <1>t DEF TypeOK
        <4>6. kid'[s] = k
          BY <2>1, <1>t DEF TypeOK
        <4>7. files' # {} => /\ latest' \in files'
                             /\ \A j \in files' \ {latest'} : createdAt'[j] < createdAt'[latest']
          BY <2>1, <3>2, <1>t DEF Sequence, TypeOK
        <4> QED
          BY <4>1, <4>2, <4>4, <4>5, <4>6, <4>7 DEF Sequence
      \* a second maker
      <3>3. CASE makers > 1 \/ (makers = 1 /\ rotateSeq[s] = 0)
        <4>1. makers' > 1
          BY <2>1, <3>0, <3>3
        <4> QED
          BY <4>1 DEF Sequence
      <3> QED
        BY <3>0, <3>1, <3>2, <3>3
    <2>7. Copies'
      BY <2>1, <1>t DEF Copies
    <2> QED
      BY <2>3, <2>5, <2>6, <2>7 DEF IInv
  <1>5. ASSUME NEW s \in Servers, OpenKeyFile(s)
        PROVE  IInv'
    <2>1. TypeOK'
      BY <1>5, <1>t DEF OpenKeyFile, TypeOK, Directory, Making
    <2>2. Directory'
      <3>1. HasFirst(files)'
        BY <1>5, <1>t DEF OpenKeyFile, Directory, HasFirst, Precedes
      <3>2. /\ UNCHANGED <<files, createdAt, rotateSeq, signed, kid>>
            /\ pc' = [pc EXCEPT ![s] = "write"] /\ pc[s] = "open"
        BY <1>5 DEF OpenKeyFile
      <3> QED
        BY <3>1, <3>2, <1>t DEF TypeOK, Directory, Making
    <2>3. Sequence'
      BY <1>5, <1>t DEF OpenKeyFile, TypeOK, Sequence, Making
    <2>4. Copies'
      BY <1>5, <1>t DEF OpenKeyFile, Copies
    <2> QED
      BY <2>1, <2>2, <2>3, <2>4 DEF IInv
  <1>6. ASSUME NEW s \in Servers, WriteKeyFile(s)
        PROVE  IInv'
    <2>1. /\ pc[s] = "write" /\ files' = files \union {kid[s]} /\ torn' = torn \ {kid[s]}
          /\ latest' = kid[s]
          /\ UNCHANGED <<now, createdAt, rotateSeq, gateway, signed, makers>>
          /\ kid[s] \in Keys /\ createdAt[kid[s]] > 0 /\ rotateSeq[s] > 0
      BY <1>6, <1>t DEF WriteKeyFile, Directory, Making
    <2>2. \/ goal' = goal /\ kid' = kid /\ pc' = [pc EXCEPT ![s] = "list"]
          \/ /\ goal' = [goal EXCEPT ![s] = "none"] /\ kid' = [kid EXCEPT ![s] = 0]
             /\ pc' = [pc EXCEPT ![s] = "idle"]
      BY <1>6 DEF WriteKeyFile, Return
    <2>3. TypeOK'
      BY <2>1, <2>2, <1>t DEF TypeOK
    <2>4. HasFirst(files \union {kid[s]})
      BY <2>1, <1>t, FirstStays DEF TypeOK, Directory
    <2>5. HasFirst(files)'
      BY <2>1, <2>4 DEF HasFirst, Precedes
    <2>6. Directory'
      BY <2>1, <2>2, <2>5, <1>t DEF TypeOK, Directory, Making
    <2>7. Sequence'
      BY <2>1, <2>2, <1>t DEF TypeOK, Directory, Sequence, Making
    <2>8. Copies'
      BY <2>1, <1>t DEF Copies
    <2> QED
      BY <2>3, <2>6, <2>7, <2>8 DEF IInv
  <1>7. ASSUME NEW s \in Servers, Restart(s)
        PROVE  IInv'
    <2>1. TypeOK'
      BY <1>7, <1>t DEF Restart, Return, TypeOK
    <2>2. Directory'
      BY <1>7, <1>t DEF Restart, Return, TypeOK, Directory, HasFirst, Precedes, Making
    <2>3. Sequence'
      BY <1>7, <1>t DEF Restart, Return, TypeOK, Sequence, Making
    <2>4. Copies'
      BY <1>7, <1>t DEF Restart, Copies
    <2> QED
      BY <2>1, <2>2, <2>3, <2>4 DEF IInv
  <1>8. ASSUME NEW k \in Keys, Verify(k)
        PROVE  IInv'
    BY <1>8, <1>t DEF Verify, IInv, TypeOK, Directory, HasFirst, Precedes, Copies, Sequence
  <1>9. CASE ServeJwks
    BY <1>9, <1>t DEF ServeJwks, ListPublicKeys, IInv, TypeOK, Directory, HasFirst, Precedes,
                      Copies, Sequence
  <1>10. CASE Reload
    BY <1>10, <1>t DEF Reload, IInv, TypeOK, Directory, HasFirst, Precedes, Copies, Sequence
  <1>11. CASE Tick
    <2>1. TypeOK'
      BY <1>11, <1>t DEF Tick, TypeOK
    <2>2. Directory' /\ Copies'
      BY <1>11, <1>t DEF Tick, Directory, HasFirst, Precedes, Copies
    <2>3. now' >= now /\ now \in Nat /\ now' \in Nat
      BY <1>11, <1>t DEF Tick, TypeOK
    <2>4. Sequence'
      BY <1>11, <2>3, <1>t DEF Tick, TypeOK, Sequence
    <2> QED
      BY <2>1, <2>2, <2>4 DEF IInv
  <1>12. CASE UNCHANGED vars
    BY <1>12, <1>t DEF vars, IInv, TypeOK, Directory, HasFirst, Precedes, Copies, Sequence
  <1> QED
    BY <1>1, <1>2, <1>3, <1>4, <1>5, <1>6, <1>7, <1>8, <1>9, <1>10, <1>11, <1>12
       DEF Next, Step

\* No step takes a key out of the gateway's copy: only Reload writes it, and the
\* answer was read from a directory that only grows.
LEMMA CopyGrows ==
    ASSUME IInv, [Next]_vars
    PROVE  jwks \subseteq jwks'
  <1>1. CASE Reload
    BY <1>1 DEF Reload, IInv, Copies
  <1>2. CASE UNCHANGED jwks
    BY <1>2
  <1> QED
    BY <1>1, <1>2
       DEF Next, Step, SignAccessToken, BeginRotation, GetCurrentSigningKey, Sign,
           RotateSigningKey, OpenKeyFile, WriteKeyFile, Restart, Verify, ServeJwks, Tick,
           gateway, vars

-----------------------------------------------------------------------------

\* The inductive invariant holds in every reachable state.
THEOREM Invariance == Spec => []IInv
  <1>1. IInv /\ [Next]_vars => IInv'
    BY IInvNext
  <1> QED
    BY <1>1, IInvInit, PTL DEF Spec

\* Every variable keeps its type.
THEOREM TypeCorrect == Spec => []TypeOK
  <1>1. IInv => TypeOK
    BY DEF IInv
  <1> QED
    BY <1>1, Invariance, PTL

\* Through rotations, concurrent first starts and restarts the auth-server can
\* verify what it has signed, but for a key file that is empty at the moment.
THEOREM SignaturesVerify == Spec => []OldKeysVerify
  <1>1. IInv => OldKeysVerify
    BY DEF IInv, Directory, OldKeysVerify, Verifies, Stuck, Writing
  <1> QED
    BY <1>1, Invariance, PTL

\* As long as one process makes the keys and is not restarted, rotation takes
\* effect: the key made last signs, however many are made in one millisecond.
THEOREM RotationTakesEffect == Spec => []NewestSigns
  <1>1. IInv => NewestSigns
    BY LatestIsCurrent DEF NewestSigns
  <1> QED
    BY <1>1, Invariance, PTL

\* The gateway never forgets a key it has known.
THEOREM GatewayRemembers == Spec => GatewayForgetsNoKey
  <1>1. IInv /\ [Next]_vars => [jwks \subseteq jwks']_vars
    BY CopyGrows
  <1> QED
    BY <1>1, Invariance, PTL DEF Spec, GatewayForgetsNoKey

=============================================================================
