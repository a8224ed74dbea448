--------------------------- MODULE IdentityProofs ---------------------------
(* Proofs about the components of Identity: the inductive invariant of each, which
   stands at the end of its module, and the properties it implies. *)
EXTENDS Identity, Sequences, FiniteSetTheorems, TLAPS

-----------------------------------------------------------------------------
(* ApiKeys: the bootstrap credential and the caches of key rows. *)

LEMMA KeysInitIInv ==
    ASSUME Keys!ConstantsAreLegal, Keys!Init
    PROVE  Keys!IInv
<1>1. Keys!TypeInv
  BY DEF Keys!Init, Keys!TypeInv, Keys!Rows, Keys!Mint
<1>2. Keys!Holding
  BY DEF Keys!ConstantsAreLegal, Keys!Init, Keys!Holding
<1>3. Keys!Minting
  BY DEF Keys!Init, Keys!Minting, Keys!Minted
<1>4. Keys!Keeping
  BY DEF Keys!Init, Keys!Keeping
<1> QED
  BY <1>1, <1>2, <1>3, <1>4 DEF Keys!IInv

\* The steps of a minting request before its insertion succeeds.
LEMMA KeysPrepareStep ==
    ASSUME Keys!ConstantsAreLegal, Keys!IInv, NEW k \in ApiKey,
           \/ Keys!BootstrapAuth(k) \/ Keys!BootstrapGone(k) \/ Keys!BootstrapFree(k)
           \/ Keys!InsertState(k) /\ keyConsumed
    PROVE  Keys!IInv'
<1>1. /\ keyMint[k] \notin {"held", "minted"}
      /\ \E s \in Keys!Mint \ {"held", "minted"} : keyMint' = [keyMint EXCEPT ![k] = s]
      /\ UNCHANGED <<keyNow, keyRow, keyConsumed, keyHolder, keyCache>>
  BY DEF Keys!BootstrapAuth, Keys!BootstrapGone, Keys!BootstrapFree, Keys!InsertState,
     Keys!Mints, Keys!Mint
<1>2. Keys!TypeInv'
  BY <1>1 DEF Keys!IInv, Keys!TypeInv
<1>3. Keys!Holding'
  BY <1>1 DEF Keys!IInv, Keys!TypeInv, Keys!Holding
<1>4. Keys!Minted' = Keys!Minted
  BY <1>1 DEF Keys!IInv, Keys!TypeInv, Keys!Minted
<1>5. Keys!Minting' /\ Keys!Keeping'
  BY <1>1, <1>4 DEF Keys!IInv, Keys!Minting, Keys!Keeping
<1> QED
  BY <1>2, <1>3, <1>5 DEF Keys!IInv

LEMMA KeysInsertStep ==
    ASSUME Keys!ConstantsAreLegal, Keys!IInv, NEW k \in ApiKey, Keys!InsertState(k),
           ~keyConsumed
    PROVE  Keys!IInv'
<1>1. /\ keyMint[k] = "free" /\ keyMint' = [keyMint EXCEPT ![k] = "held"]
      /\ keyHolder = Nobody /\ keyHolder' = k
      /\ UNCHANGED <<keyNow, keyRow, keyConsumed, keyCache>>
  BY DEF Keys!InsertState, Keys!Mints
<1>2. Keys!TypeInv'
  BY <1>1 DEF Keys!IInv, Keys!TypeInv, Keys!Mint
<1>3. Keys!Holding'
  BY <1>1 DEF Keys!ConstantsAreLegal, Keys!IInv, Keys!TypeInv, Keys!Holding
<1>4. Keys!Minted' = Keys!Minted
  BY <1>1 DEF Keys!IInv, Keys!TypeInv, Keys!Minted
<1>5. Keys!Minting' /\ Keys!Keeping'
  BY <1>1, <1>4 DEF Keys!IInv, Keys!Minting, Keys!Keeping
<1> QED
  BY <1>2, <1>3, <1>5 DEF Keys!IInv

LEMMA KeysEndMintStep ==
    ASSUME Keys!ConstantsAreLegal, Keys!IInv, NEW k \in ApiKey, Keys!EndMint(k)
    PROVE  Keys!IInv'
<1>1. /\ keyMint[k] = "held" /\ keyHolder = k /\ ~keyConsumed /\ keyHolder' = Nobody
      /\ UNCHANGED keyNow
  BY DEF Keys!ConstantsAreLegal, Keys!EndMint, Keys!Mints, Keys!IInv, Keys!Holding
<1>2. /\ keyCache' \in [KeyWorker -> [ApiKey -> Keys!CacheEntry \cup {Nobody}]] /\
             Keys!Keeping'
  <2>1. CASE keyCache' = keyCache
    BY <2>1 DEF Keys!IInv, Keys!TypeInv, Keys!Keeping
  <2>2. CASE \E w \in KeyWorker :
                 keyCache' = [keyCache EXCEPT ![w] = [x \in ApiKey |-> Nobody]]
    BY <2>2 DEF Keys!IInv, Keys!TypeInv, Keys!Keeping
  <2> QED
    BY <2>1, <2>2 DEF Keys!EndMint
<1>3. CASE /\ keyMint' = [keyMint EXCEPT ![k] = "minted"] /\ keyConsumed' = TRUE
           /\ keyRow' = [keyRow EXCEPT ![k] = "enabled"]
  <2>1. Keys!TypeInv'
    BY <1>1, <1>2, <1>3 DEF Keys!IInv, Keys!TypeInv, Keys!Mint, Keys!Rows
  <2>2. Keys!Holding'
    BY <1>1, <1>3 DEF Keys!ConstantsAreLegal, Keys!IInv, Keys!TypeInv, Keys!Holding
  <2>3. Keys!Minted = {} /\ Keys!Minted' = {k}
    BY <1>1, <1>3 DEF Keys!IInv, Keys!TypeInv, Keys!Minting, Keys!Minted
  <2>4. Keys!Minting'
    BY <1>3, <2>3 DEF Keys!Minting
  <2> QED
    BY <1>2, <2>1, <2>2, <2>4 DEF Keys!IInv
<1>4. CASE keyMint' = [keyMint EXCEPT ![k] = "failed"] /\ UNCHANGED <<keyConsumed, keyRow>>
  <2>1. Keys!TypeInv'
    BY <1>1, <1>2, <1>4 DEF Keys!IInv, Keys!TypeInv, Keys!Mint
  <2>2. Keys!Holding'
    BY <1>1, <1>4 DEF Keys!ConstantsAreLegal, Keys!IInv, Keys!TypeInv, Keys!Holding
  <2>3. Keys!Minted' = Keys!Minted
    BY <1>1, <1>4 DEF Keys!IInv, Keys!TypeInv, Keys!Minted
  <2>4. Keys!Minting'
    BY <1>4, <2>3 DEF Keys!IInv, Keys!Minting
  <2> QED
    BY <1>2, <2>1, <2>2, <2>4 DEF Keys!IInv
<1> QED
  BY <1>3, <1>4 DEF Keys!EndMint, Keys!Mints

\* The steps that leave the bootstrap credential alone.
LEMMA KeysOtherStep ==
    ASSUME Keys!IInv, UNCHANGED <<keyConsumed, keyHolder, keyMint>>, keyNow' \in Nat,
           keyRow' \in [ApiKey -> Keys!Rows],
           keyCache' \in [KeyWorker -> [ApiKey -> Keys!CacheEntry \cup {Nobody}]],
           Keys!Keeping'
    PROVE  Keys!IInv'
<1>1. Keys!TypeInv' /\ Keys!Holding'
  BY DEF Keys!IInv, Keys!TypeInv, Keys!Holding
<1>2. Keys!Minting'
  BY DEF Keys!IInv, Keys!Minting, Keys!Minted
<1> QED
  BY <1>1, <1>2 DEF Keys!IInv

LEMMA KeysKeepStep ==
    ASSUME Keys!ConstantsAreLegal, Keys!IInv, NEW q \in KeyUse, Keys!Hit(q) \/ Keys!Miss(q) \/
               Keys!Arrive(q)
    PROVE  Keys!IInv'
<1>1. WorkerOfUse[q] \in KeyWorker /\ KeyOfUse[q] \in ApiKey /\ KeyCacheTtl \in Nat
  BY DEF Keys!ConstantsAreLegal
<1>2. UNCHANGED <<keyNow, keyRow, keyConsumed, keyHolder, keyMint>>
  BY DEF Keys!Hit, Keys!Miss, Keys!Arrive, Keys!minting
<1>3. \/ keyCache' = keyCache
      \/ \E e \in {Nobody, [until |-> keyNow + KeyCacheTtl, stored |-> keyNow]} :
             keyCache' = [keyCache EXCEPT ![WorkerOfUse[q]][KeyOfUse[q]] = e]
  BY DEF Keys!Hit, Keys!Miss, Keys!Arrive, Keys!Keep
<1>4. CASE keyCache' = keyCache
  BY <1>2, <1>4, KeysOtherStep DEF Keys!IInv, Keys!TypeInv, Keys!Keeping
<1>5. ASSUME NEW e \in {Nobody, [until |-> keyNow + KeyCacheTtl, stored |-> keyNow]},
             keyCache' = [keyCache EXCEPT ![WorkerOfUse[q]][KeyOfUse[q]] = e]
      PROVE  Keys!IInv'
  <2>1. e # Nobody => e \in Keys!CacheEntry /\ e.until = e.stored + KeyCacheTtl
    BY <1>1 DEF Keys!IInv, Keys!TypeInv, Keys!CacheEntry
  <2>2. e \in Keys!CacheEntry \cup {Nobody}
    BY <2>1
  <2>3. keyCache' \in [KeyWorker -> [ApiKey -> Keys!CacheEntry \cup {Nobody}]]
    BY <1>1, <1>5, <2>2 DEF Keys!IInv, Keys!TypeInv
  <2>4. Keys!Keeping'
    BY <1>1, <1>5, <2>1 DEF Keys!IInv, Keys!TypeInv, Keys!Keeping
  <2> QED
    BY <1>2, <2>3, <2>4, KeysOtherStep DEF Keys!IInv, Keys!TypeInv
<1> QED
  BY <1>3, <1>4, <1>5

LEMMA KeysRevocationStep ==
    ASSUME Keys!IInv, NEW w \in KeyWorker, NEW k \in ApiKey, Keys!Evict(w, k) \/
               Keys!Revoke(w, k) \/ Keys!Clear(w, k)
    PROVE  Keys!IInv'
<1>1. UNCHANGED <<keyNow, keyConsumed, keyHolder, keyMint>>
  BY DEF Keys!Evict, Keys!Revoke, Keys!Clear, Keys!minting
<1>2. keyRow' \in [ApiKey -> Keys!Rows]
  BY DEF Keys!Evict, Keys!Revoke, Keys!Clear, Keys!IInv, Keys!TypeInv, Keys!Rows
<1>3. \/ keyCache' = keyCache
      \/ keyCache' = [keyCache EXCEPT ![w][k] = Nobody]
      \/ keyCache' = [keyCache EXCEPT ![w] = [x \in ApiKey |-> Nobody]]
  BY DEF Keys!Evict, Keys!Revoke, Keys!Clear
<1>4. keyCache' \in [KeyWorker -> [ApiKey -> Keys!CacheEntry \cup {Nobody}]] /\ Keys!Keeping'
  <2>1. CASE keyCache' = keyCache
    BY <2>1 DEF Keys!IInv, Keys!TypeInv, Keys!Keeping
  <2>2. CASE keyCache' = [keyCache EXCEPT ![w][k] = Nobody]
    BY <2>2 DEF Keys!IInv, Keys!TypeInv, Keys!Keeping
  <2>3. CASE keyCache' = [keyCache EXCEPT ![w] = [x \in ApiKey |-> Nobody]]
    BY <2>3 DEF Keys!IInv, Keys!TypeInv, Keys!Keeping
  <2> QED
    BY <1>3, <2>1, <2>2, <2>3
<1> QED
  BY <1>1, <1>2, <1>4, KeysOtherStep DEF Keys!IInv, Keys!TypeInv

LEMMA KeysStepIInv ==
    ASSUME Keys!ConstantsAreLegal, Keys!IInv, [Keys!Next]_Keys!vars
    PROVE  Keys!IInv'
<1>1. CASE UNCHANGED Keys!vars
  BY <1>1, KeysOtherStep DEF Keys!vars, Keys!minting, Keys!IInv, Keys!TypeInv, Keys!Keeping
<1>2. CASE \E k \in ApiKey :
               \/ Keys!BootstrapAuth(k) \/ Keys!BootstrapGone(k) \/ Keys!BootstrapFree(k)
                          \/ Keys!InsertState(k) \/ Keys!EndMint(k)
  BY <1>2, KeysPrepareStep, KeysInsertStep, KeysEndMintStep
<1>3. CASE \E q \in KeyUse : Keys!Hit(q) \/ Keys!Miss(q) \/ Keys!Arrive(q)
  BY <1>3, KeysKeepStep
<1>4. CASE \E w \in KeyWorker, k \in ApiKey :
               Keys!Evict(w, k) \/ Keys!Revoke(w, k) \/ Keys!Clear(w, k)
  BY <1>4, KeysRevocationStep
<1>5. CASE Keys!Tick
  BY <1>5, KeysOtherStep DEF Keys!Tick, Keys!minting, Keys!IInv, Keys!TypeInv, Keys!Keeping
<1> QED
  BY <1>1, <1>2, <1>3, <1>4, <1>5 DEF Keys!Next, Keys!Finished

\* The inductive invariant of the bootstrap credential and of the key cache.
THEOREM KeysInvariance == Keys!Spec => []Keys!IInv
<1> Keys!ConstantsAreLegal
  BY KeysAreLegal
<1>1. Keys!Init => Keys!IInv
  BY KeysInitIInv
<1>2. Keys!IInv /\ [Keys!Next]_Keys!vars => Keys!IInv'
  BY KeysStepIInv
<1> QED
  BY <1>1, <1>2, PTL DEF Keys!Spec

\* However many requests present the bootstrap credential at once, and whichever of their
\* transactions fail, at most one key is minted and the credential is consumed with it.
THEOREM KeysBootstrapCorrect == Keys!Spec => []BootstrapMintsOnce
<1> Keys!ConstantsAreLegal
  BY KeysAreLegal
<1>1. Keys!IInv => BootstrapMintsOnce
  BY DEF Keys!IInv, Keys!Minting, Keys!Minted, BootstrapMintsOnce, Keys!BootstrapMintsOnce
<1> QED
  BY <1>1, KeysInvariance, PTL

\* A revoked key is accepted from the cache only before the end of the time to live that
\* began when its row was stored: a hit does not prolong it.
THEOREM KeysRevocationCorrect == Keys!Spec => []Keys!RevocationIsBounded
<1> Keys!ConstantsAreLegal
  BY KeysAreLegal
<1>1. Keys!IInv => Keys!RevocationIsBounded
  BY DEF Keys!IInv, Keys!Keeping, Keys!RevocationIsBounded, Keys!Cached
<1> QED
  BY <1>1, KeysInvariance, PTL

-----------------------------------------------------------------------------
(* Jwks: the signing keys of an issuer. *)

LEMMA IssuerTyped ==
    Issuer!ConstantsAreLegal /\ Issuer!IInv /\ [Issuer!Next]_Issuer!vars => Issuer!TypeInv'
<1> SUFFICES ASSUME Issuer!ConstantsAreLegal, Issuer!IInv, [Issuer!Next]_Issuer!vars
             PROVE  Issuer!TypeInv'
  OBVIOUS
<1> USE DEF Issuer!IInv, Issuer!TypeInv, Issuer!Stage
<1>1. ASSUME NEW t \in Jwt, Issuer!Verify(t)
      PROVE  Issuer!TypeInv'
  <2>1. CASE Issuer!Begin(t)
    BY <2>1 DEF Issuer!Begin, Issuer!Moves
  <2>2. CASE Issuer!Look(t)
    BY <2>2 DEF Issuer!Look, Issuer!Moves, Issuer!Take
  <2>3. CASE Issuer!Lock(t)
    BY <2>3 DEF Issuer!Lock, Issuer!Moves, Issuer!Take
  <2>4. CASE Issuer!IssuerAnswers(t)
    BY <2>4 DEF Issuer!IssuerAnswers, Issuer!Moves, Issuer!Take
  <2>5. CASE Issuer!Store(t)
    BY <2>5 DEF Issuer!Store, Issuer!Moves
  <2>6. CASE Issuer!FetchFails(t)
    BY <2>6 DEF Issuer!FetchFails, Issuer!Moves
  <2>7. CASE Issuer!Decide(t)
    BY <2>7 DEF Issuer!Decide, Issuer!Moves
  <2> QED
    BY <1>1, <2>1, <2>2, <2>3, <2>4, <2>5, <2>6, <2>7 DEF Issuer!Verify
<1>2. CASE Issuer!Rotate
  BY <1>2 DEF Issuer!Rotate
<1>3. CASE Issuer!Expire
  BY <1>3 DEF Issuer!Expire
<1>4. CASE UNCHANGED Issuer!vars
  BY <1>4 DEF Issuer!vars
<1> QED
  BY <1>1, <1>2, <1>3, <1>4 DEF Issuer!Next, Issuer!Finished

LEMMA IssuerInductive ==
    Issuer!ConstantsAreLegal /\ Issuer!IInv /\ [Issuer!Next]_Issuer!vars => Issuer!IInv'
<1> SUFFICES ASSUME Issuer!ConstantsAreLegal, Issuer!IInv, [Issuer!Next]_Issuer!vars
             PROVE  Issuer!IInv'
  OBVIOUS
<1>t. Issuer!TypeInv /\ Issuer!TypeInv'
  BY IssuerTyped DEF Issuer!IInv
<1> USE <1>t DEF Issuer!ConstantsAreLegal
<1>1. ASSUME NEW t \in Jwt, Issuer!Verify(t)
      PROVE  Issuer!IInv'
  <2> USE DEF Issuer!IInv, Issuer!TypeInv, Issuer!Locking, Issuer!Holding, Issuer!Looking,
      Issuer!Fresh, Issuer!Again, Issuer!Fetching, Issuer!Stage
  <2>1. CASE Issuer!Begin(t)
    BY <2>1 DEF Issuer!Begin, Issuer!Moves
  <2>2. CASE Issuer!Look(t)
    BY <2>2 DEF Issuer!Look, Issuer!Moves, Issuer!Take
  <2>3. CASE Issuer!Lock(t)
    BY <2>3 DEF Issuer!Lock, Issuer!Moves, Issuer!Take
  <2>4. CASE Issuer!IssuerAnswers(t)
    BY <2>4 DEF Issuer!IssuerAnswers, Issuer!Moves, Issuer!Take
  <2>5. CASE Issuer!Store(t)
    BY <2>5 DEF Issuer!Store, Issuer!Moves
  <2>6. CASE Issuer!FetchFails(t)
    BY <2>6 DEF Issuer!FetchFails, Issuer!Moves
  <2>7. CASE Issuer!Decide(t)
    BY <2>7 DEF Issuer!Decide, Issuer!Moves
  <2> QED
    BY <1>1, <2>1, <2>2, <2>3, <2>4, <2>5, <2>6, <2>7 DEF Issuer!Verify
<1>2. CASE Issuer!Rotate
  BY <1>2 DEF Issuer!Rotate, Issuer!IInv, Issuer!TypeInv, Issuer!Locking, Issuer!Holding,
     Issuer!Looking, Issuer!Fresh, Issuer!Again, Issuer!Fetching
<1>3. CASE Issuer!Expire
  BY <1>3 DEF Issuer!Expire, Issuer!IInv, Issuer!TypeInv, Issuer!Locking, Issuer!Holding,
     Issuer!Looking, Issuer!Fresh, Issuer!Again, Issuer!Fetching
<1>4. CASE UNCHANGED Issuer!vars
  BY <1>4 DEF Issuer!vars, Issuer!IInv, Issuer!Locking, Issuer!Holding, Issuer!Looking,
     Issuer!Fresh, Issuer!Again, Issuer!Fetching
<1> QED
  BY <1>1, <1>2, <1>3, <1>4 DEF Issuer!Next, Issuer!Finished

\* A key published before the verification of a token begins is found, and one fetch
\* runs at a time, for any tokens and any rotations of the issuer's keys.
THEOREM IssuerFound == Issuer!Spec => []PublishedKeysAreFound
<1> Issuer!ConstantsAreLegal
  BY IssuerIsLegal
<1>1. Issuer!Init => Issuer!IInv
  BY DEF Issuer!ConstantsAreLegal, Issuer!Init, Issuer!IInv, Issuer!TypeInv, Issuer!Locking,
     Issuer!Holding, Issuer!Looking, Issuer!Fresh, Issuer!Again,
         Issuer!Fetching, Issuer!Stage
<1>2. Issuer!IInv /\ [Issuer!Next]_Issuer!vars => Issuer!IInv'
  BY IssuerInductive
<1>3. Issuer!IInv => PublishedKeysAreFound
  BY DEF Issuer!ConstantsAreLegal, Issuer!IInv, Issuer!Locking, PublishedKeysAreFound,
     Issuer!PublishedKeysAreFound
<1> QED
  BY <1>1, <1>2, <1>3, PTL DEF Issuer!Spec

-----------------------------------------------------------------------------
(* Sessions: the founder and the sessions. *)

LEMMA SignInsInductive ==
    SignIns!ConstantsAreLegal /\ SignIns!IInv /\ [SignIns!Next]_SignIns!vars => SignIns!IInv'
<1> SUFFICES ASSUME SignIns!ConstantsAreLegal, SignIns!IInv, [SignIns!Next]_SignIns!vars
             PROVE  SignIns!IInv'
  OBVIOUS
<1> USE DEF SignIns!ConstantsAreLegal, SignIns!IInv, SignIns!TypeOK
<1>1. ASSUME NEW q \in Setup, SignIns!FindFree(q) \/ SignIns!Claim(q)
      PROVE  SignIns!IInv'
  BY <1>1 DEF SignIns!FindFree, SignIns!Claim, SignIns!Moves, SignIns!Session
<1>2. ASSUME NEW q \in SignIn, SignIns!ReadMember(q) \/ SignIns!Mismatch(q)
      PROVE  SignIns!IInv'
  BY <1>2 DEF SignIns!ReadMember, SignIns!Mismatch, SignIns!Moves, SignIns!Session
<1>3. ASSUME NEW q \in SignIns!Session, SignIns!Open(q)
      PROVE  SignIns!IInv'
  BY <1>3 DEF SignIns!Open, SignIns!Opened, SignIns!Moves, SignIns!Row
<1>4. ASSUME NEW q \in Client, SignIns!Authenticate(q)
      PROVE  SignIns!IInv'
  BY <1>4 DEF SignIns!Authenticate, SignIns!Moves
<1>5. ASSUME NEW q \in Client, SignIns!TouchRow(q)
      PROVE  SignIns!IInv'
  <2> USE DEF SignIns!TouchRow, SignIns!Moves
  <2>1. sessionRow' \in [SignIns!Session -> SignIns!Row \cup {Nobody}]
    <3>1. ASSUME sessionRow[SessionOf[q]] # Nobody
          PROVE  [sessionRow[SessionOf[q]] EXCEPT !.last = sessionNow, !.idle =
                     sessionNow + Idle] \in SignIns!Row
      <4>1. sessionRow[SessionOf[q]] \in SignIns!Row /\ sessionNow \in Nat /\
                sessionNow + Idle \in Nat
        BY <1>5, <3>1
      <4> QED
        BY ONLY <4>1 DEF SignIns!Row
    <3> QED
      BY <1>5, <3>1
  <2>2. \A s \in SignIns!Session : sessionRow[s] = Nobody => sessionRow'[s] = Nobody
    BY <1>5
  <2> QED
    BY <1>5, <2>1, <2>2
<1>6. ASSUME NEW q \in Client, SignIns!SignOut(q)
      PROVE  SignIns!IInv'
  <2>1. sessionRow' \in [SignIns!Session -> SignIns!Row \cup {Nobody}]
    BY <1>6 DEF SignIns!SignOut, SignIns!Row
  <2>2. \A s \in SignIns!Session : sessionRow[s] = Nobody => sessionRow'[s] = Nobody
    BY <1>6 DEF SignIns!SignOut
  <2> QED
    BY <1>6, <2>1, <2>2 DEF SignIns!SignOut, SignIns!Moves
<1>7. CASE SignIns!Disable
  BY <1>7 DEF SignIns!Disable, SignIns!Row
<1>8. CASE SignIns!Enable \/ SignIns!Tick \/ UNCHANGED SignIns!vars
  BY <1>8 DEF SignIns!Enable, SignIns!Tick, SignIns!vars
<1> QED
  BY <1>1, <1>2, <1>3, <1>4, <1>5, <1>6, <1>7, <1>8 DEF SignIns!Next, SignIns!Finished,
     SignIns!Session

\* No step takes the place of the founder, or brings back a revoked session, whatever
\* the clients, the bounds of time and the steps before it.
THEOREM SignInsSettled == SignIns!Spec => SettledStaysSettled
<1> SignIns!ConstantsAreLegal
  BY SignInsAreLegal
<1> DEFINE Keeps == /\ sessionFounder # Nobody => sessionFounder' = sessionFounder
                    /\ \A s \in SignIns!Session :
                           sessionRow[s] # Nobody /\ sessionRow[s].revoked =>
                           sessionRow'[s] = Nobody \/ sessionRow'[s].revoked
<1>1. SignIns!Init => SignIns!IInv
  BY DEF SignIns!ConstantsAreLegal, SignIns!Init, SignIns!IInv, SignIns!TypeOK
<1>2. SignIns!IInv /\ [SignIns!Next]_SignIns!vars => SignIns!IInv'
  BY SignInsInductive
<1>3. SignIns!IInv /\ [SignIns!Next]_SignIns!vars => [Keeps]_SignIns!vars
  <2> SUFFICES ASSUME SignIns!IInv, SignIns!Next
               PROVE  Keeps
    BY DEF Keeps
  <2> USE DEF SignIns!ConstantsAreLegal, SignIns!IInv, SignIns!TypeOK
  <2>1. ASSUME NEW q \in Setup, SignIns!FindFree(q) \/ SignIns!Claim(q)
        PROVE  Keeps
    BY <2>1 DEF SignIns!FindFree, SignIns!Claim
  <2>2. ASSUME NEW q \in SignIn, SignIns!ReadMember(q) \/ SignIns!Mismatch(q)
        PROVE  Keeps
    BY <2>2 DEF SignIns!ReadMember, SignIns!Mismatch
  <2>3. ASSUME NEW q \in SignIns!Session, SignIns!Open(q)
        PROVE  Keeps
    BY <2>3 DEF SignIns!Open, SignIns!Moves
  <2>4. ASSUME NEW q \in Client, SignIns!Authenticate(q)
        PROVE  Keeps
    BY <2>4 DEF SignIns!Authenticate
  <2>5. ASSUME NEW q \in Client, SignIns!TouchRow(q)
        PROVE  Keeps
    BY <2>5 DEF SignIns!TouchRow, SignIns!Row
  <2>6. ASSUME NEW q \in Client, SignIns!SignOut(q)
        PROVE  Keeps
    BY <2>6 DEF SignIns!SignOut, SignIns!Row
  <2>7. CASE SignIns!Disable
    BY <2>7 DEF SignIns!Disable, SignIns!Row
  <2>8. CASE SignIns!Enable \/ SignIns!Tick \/ SignIns!Finished
    BY <2>8 DEF SignIns!Enable, SignIns!Tick, SignIns!Finished, SignIns!vars
  <2> QED
    BY <2>1, <2>2, <2>3, <2>4, <2>5, <2>6, <2>7, <2>8 DEF SignIns!Next, SignIns!Session
<1> QED
  BY <1>1, <1>2, <1>3, PTL DEF SignIns!Spec, SettledStaysSettled, SignIns!SettledStaysSettled

-----------------------------------------------------------------------------
(* Members: invitations and roles. *)

LEMMA TeamKinds ==
    ASSUME Team!ConstantsAreLegal
    PROVE  /\ \A i \in Invite :
                  i \in Team!Job /\ Caller[i] \in Staff /\ Caller[i] \in Team!User
           /\ \A a \in Acceptance : a \in Team!Job /\ a \in Team!User /\ Invited[a] \in Invite
           /\ \A c \in Change : c \in Team!Job /\ Subject[c] \in Team!User
           /\ \A w \in Rewrite : w \in Team!Job
           /\ \A q \in Invite \cup Change \cup Rewrite : q \notin Acceptance /\ Names[q] \in Role
           /\ \A q \in Acceptance \cup Change \cup Rewrite : q \notin Invite
BY DEF Team!ConstantsAreLegal, Team!Job, Team!User

LEMMA TeamAccessKept ==
    ASSUME NEW u, memberRoles'[u] = memberRoles[u], memberDef' = memberDef
    PROVE  Team!AccessOf(u)' = Team!AccessOf(u)
BY DEF Team!AccessOf

LEMMA TeamInitIInv ==
    ASSUME Team!ConstantsAreLegal, Team!Init
    PROVE  Team!IInv
<1>1. Team!TypeInv
  BY DEF Team!ConstantsAreLegal, Team!Init, Team!TypeInv, Team!Stage
<1>2. \A q \in Team!Job : memberStage[q] = "new"
  BY DEF Team!Init
<1>3. Team!Fresh /\ Team!Presented /\ Team!Checked
  BY <1>2, TeamKinds DEF Team!Init, Team!Fresh, Team!Presented, Team!Checked
<1>4. Team!Enrolled = {}
  BY <1>2, TeamKinds DEF Team!Enrolled
<1> QED
  BY <1>1, <1>3, <1>4 DEF Team!IInv, Team!Spent, Team!InvitationsAreSingleUse

\* A step that leaves alone what the creator of i may do and what i was made for.
TeamUnmoved(i) ==
    /\ Caller[i] \in memberActive => Caller[i] \in memberActive'
    /\ Team!AccessOf(Caller[i])' = Team!AccessOf(Caller[i])
    /\ memberDef'[Names[i]] = memberDef[Names[i]]
    /\ memberPrint'[i] = memberPrint[i]

\* Steps that leave members, roles and their definitions alone.
LEMMA TeamMembersKept ==
    ASSUME UNCHANGED Team!members, NEW i \in Invite, memberPrint'[i] = memberPrint[i]
    PROVE  TeamUnmoved(i)
BY TeamAccessKept DEF TeamUnmoved, Team!members

LEMMA TeamReadKept ==
    ASSUME NEW a \in Acceptance, Team!ReadStands(a), TeamUnmoved(Invited[a]),
           memberStage'[a] = memberStage[a], memberAccess'[a] = memberAccess[a]
    PROVE  Team!ReadStands(a)'
BY DEF Team!ReadStands, TeamUnmoved, Team!Permits, Team!Within

\* A step that is not of an acceptance and takes no authority away from the creator of an
\* invitation that stays pending.
LEMMA TeamOtherStep ==
    ASSUME Team!ConstantsAreLegal, Team!IInv, Team!TypeInv', Team!Fresh',
           \A a \in Acceptance :
               memberStage'[a] = memberStage[a] /\ memberAccess'[a] = memberAccess[a],
           \A i \in Invite : memberInvitation[i] # "none" =>
               memberInvitation'[i] \in {memberInvitation[i], "used"},
           \A i \in Invite :
               memberInvitation[i] = "pending" /\ memberInvitation'[i] = "pending"
                   => TeamUnmoved(i)
    PROVE  Team!IInv'
<1>1. Team!Enrolled' = Team!Enrolled
  BY DEF Team!Enrolled
<1>2. Team!Spent' /\ Team!InvitationsAreSingleUse'
  <2>1. \A a \in Team!Enrolled : memberInvitation'[Invited[a]] = "used"
    BY TeamKinds DEF Team!IInv, Team!Spent, Team!Enrolled
  <2> QED
    BY <1>1, <2>1 DEF Team!IInv, Team!Spent, Team!InvitationsAreSingleUse
<1>3. Team!Presented'
  BY TeamKinds DEF Team!IInv, Team!Presented
<1>4. ASSUME NEW a \in Acceptance, memberInvitation'[Invited[a]] = "pending"
      PROVE  Team!ReadStands(a)'
  <2>1. Invited[a] \in Invite
    BY TeamKinds
  <2>2. CASE memberInvitation[Invited[a]] = "pending"
    BY <1>4, <2>1, <2>2, TeamReadKept DEF Team!IInv, Team!Checked
  <2>3. CASE memberInvitation[Invited[a]] # "pending"
    \* It becomes pending now, and nobody has presented it.
    <3>1. memberInvitation[Invited[a]] = "none"
      BY <1>4, <2>1, <2>3 DEF Team!IInv, Team!TypeInv
    <3>2. memberStage'[a] \notin {"accessing", "accessed", "checked"}
      BY <3>1 DEF Team!IInv, Team!Presented
    <3> QED
      BY <3>2 DEF Team!ReadStands
  <2> QED
    BY <2>2, <2>3
<1>5. Team!Checked'
  BY <1>4 DEF Team!Checked
<1> QED
  BY <1>2, <1>3, <1>5 DEF Team!IInv

LEMMA TeamBeginStep ==
    ASSUME Team!ConstantsAreLegal, Team!IInv, NEW q \in Invite \cup Change \cup Rewrite,
           Team!Begin(q)
    PROVE  Team!IInv'
<1>1. memberStage[q] = "new" /\ memberStage' = [memberStage EXCEPT ![q] = "permitted"]
      /\ memberAccess' = [memberAccess EXCEPT ![q] = Team!AccessOf(Caller[q])]
      /\ UNCHANGED <<Team!members, memberInvitation, memberPrint>>
  BY DEF Team!Begin, Team!Moves
<1>2. q \in Team!Job /\ q \notin Acceptance
  BY TeamKinds DEF Team!Job
<1>3. Team!TypeInv'
  BY <1>1, <1>2 DEF Team!IInv, Team!TypeInv, Team!Stage, Team!members
<1>4. Team!Fresh'
  BY <1>1, <1>2, TeamKinds DEF Team!IInv, Team!TypeInv, Team!Fresh
<1>5. \A a \in Acceptance :
          memberStage'[a] = memberStage[a] /\ memberAccess'[a] = memberAccess[a]
  BY <1>1, <1>2, TeamKinds DEF Team!IInv, Team!TypeInv
<1> QED
  BY <1>1, <1>3, <1>4, <1>5, TeamMembersKept, TeamOtherStep

LEMMA TeamFailStep ==
    ASSUME Team!ConstantsAreLegal, Team!IInv, NEW q \in Team!Job, Team!Fail(q)
    PROVE  Team!IInv'
<1>1. memberStage[q] # "done" /\ memberStage' = [memberStage EXCEPT ![q] = "refused"]
      /\ UNCHANGED <<Team!members, memberInvitation, memberPrint, memberAccess>>
  BY DEF Team!Fail
<1>2. Team!TypeInv'
  BY <1>1 DEF Team!IInv, Team!TypeInv, Team!Stage, Team!members
<1>3. \A x \in Team!Job : memberStage'[x] = memberStage[x] \/ memberStage'[x] = "refused"
  BY <1>1 DEF Team!IInv, Team!TypeInv
<1>4. Team!Fresh' /\ Team!Presented'
  BY <1>1, <1>3, TeamKinds DEF Team!IInv, Team!Fresh, Team!Presented
<1>5. Team!Enrolled' = Team!Enrolled
  BY <1>1, TeamKinds DEF Team!IInv, Team!TypeInv, Team!Enrolled
<1>6. Team!Spent' /\ Team!InvitationsAreSingleUse'
  BY <1>1, <1>5 DEF Team!IInv, Team!Spent, Team!InvitationsAreSingleUse
<1>7. ASSUME NEW a \in Acceptance, memberInvitation'[Invited[a]] = "pending"
      PROVE  Team!ReadStands(a)'
  <2>1. CASE memberStage'[a] = memberStage[a]
    BY <1>1, <1>7, <2>1, TeamKinds, TeamMembersKept, TeamReadKept DEF Team!IInv, Team!Checked
  <2>2. CASE memberStage'[a] = "refused"
    BY <2>2 DEF Team!ReadStands
  <2> QED
    BY <1>3, <2>1, <2>2, TeamKinds
<1>8. Team!Checked'
  BY <1>7 DEF Team!Checked
<1> QED
  BY <1>2, <1>4, <1>6, <1>8 DEF Team!IInv

LEMMA TeamInviteStep ==
    ASSUME Team!ConstantsAreLegal, Team!IInv, NEW i \in Invite,
           Team!ListRoles(i) \/ Team!InsertInvitation(i) \/ Team!Expire(i)
    PROVE  Team!IInv'
<1>1. i \in Team!Job /\ i \notin Acceptance /\ UNCHANGED <<Team!members, memberAccess>>
  BY TeamKinds DEF Team!ListRoles, Team!InsertInvitation, Team!Expire, Team!ConstantsAreLegal
<1>2. CASE Team!ListRoles(i)
  <2>1. /\ memberStage[i] = "permitted" /\ memberStage' = [memberStage EXCEPT ![i] = "listed"]
        /\ memberInvitation' = memberInvitation
        /\ memberPrint' = [memberPrint EXCEPT ![i] = memberDef[Names[i]]]
    BY <1>2 DEF Team!ListRoles, Team!Moves
  <2>2. Team!TypeInv'
    <3>1. memberPrint' = [j \in Invite |-> memberPrint'[j]]
      BY <2>1 DEF Team!IInv, Team!TypeInv
    <3> QED
      BY <1>1, <2>1, <3>1 DEF Team!IInv, Team!TypeInv, Team!Stage, Team!members
  <2>3. Team!Fresh'
    BY <1>1, <2>1, TeamKinds DEF Team!IInv, Team!TypeInv, Team!Fresh
  <2>4. \A a \in Acceptance : memberStage'[a] = memberStage[a]
    BY <1>1, <2>1, TeamKinds DEF Team!IInv, Team!TypeInv
  <2>5. memberInvitation[i] = "none"
    BY <2>1 DEF Team!IInv, Team!Fresh
  <2>6. \A j \in Invite : j # i => memberPrint'[j] = memberPrint[j]
    BY <2>1 DEF Team!IInv, Team!TypeInv
  <2> QED
    BY <1>1, <2>1, <2>2, <2>3, <2>4, <2>5, <2>6, TeamMembersKept, TeamOtherStep
<1>3. CASE Team!InsertInvitation(i)
  <2>1. /\ memberStage[i] = "listed" /\ memberStage' = [memberStage EXCEPT ![i] = "done"]
        /\ memberInvitation' = [memberInvitation EXCEPT ![i] = "pending"]
        /\ memberPrint' = memberPrint
    BY <1>3 DEF Team!InsertInvitation, Team!Moves
  <2>2. Team!TypeInv'
    BY <1>1, <2>1 DEF Team!IInv, Team!TypeInv, Team!Stage, Team!members
  <2>3. Team!Fresh'
    BY <1>1, <2>1, TeamKinds DEF Team!IInv, Team!TypeInv, Team!Fresh
  <2>4. \A a \in Acceptance : memberStage'[a] = memberStage[a]
    BY <1>1, <2>1, TeamKinds DEF Team!IInv, Team!TypeInv
  <2>5. memberInvitation[i] = "none"
    BY <2>1 DEF Team!IInv, Team!Fresh
  <2>6. \A j \in Invite : j # i => memberInvitation'[j] = memberInvitation[j]
    BY <2>1 DEF Team!IInv, Team!TypeInv
  <2> QED
    BY <1>1, <2>1, <2>2, <2>3, <2>4, <2>5, <2>6, TeamMembersKept, TeamOtherStep
<1>4. CASE Team!Expire(i)
  <2>1. UNCHANGED <<memberStage, memberInvitation, memberPrint>>
    BY <1>4 DEF Team!Expire
  <2>2. Team!TypeInv' /\ Team!Fresh'
    BY <1>1, <2>1 DEF Team!IInv, Team!TypeInv, Team!Fresh, Team!members
  <2> QED
    BY <1>1, <2>1, <2>2, TeamMembersKept, TeamOtherStep
<1> QED
  BY <1>2, <1>3, <1>4

\* Before its last step an acceptance only reads; what it reads is so at that moment.
LEMMA TeamReadStep ==
    ASSUME Team!ConstantsAreLegal, Team!IInv, NEW a \in Acceptance,
           \/ Team!Present(a) \/ Team!ReadInvitation(a)
           \/ Team!ReadCreator(a) \/ Team!ReadAccess(a) \/ Team!ReadGiven(a)
    PROVE  Team!IInv'
<1> USE DEF Team!Present, Team!ReadInvitation, Team!ReadCreator, Team!ReadAccess, Team!ReadGiven
<1>1. /\ a \in Team!Job /\ a \notin Invite /\ Invited[a] \in Invite
      /\ UNCHANGED <<Team!members, memberInvitation, memberPrint>>
  BY TeamKinds
<1>2. \E s \in {"hashing", "read", "accessing", "accessed", "checked"} :
          /\ memberStage[a] # "done" /\ memberStage' = [memberStage EXCEPT ![a] = s]
          /\ memberInvitation[Invited[a]] # "none"
  BY DEF Team!Moves, Team!IInv, Team!Presented
<1>3. \A b \in Acceptance \ {a} : memberAccess'[b] = memberAccess[b]
  BY TeamKinds DEF Team!IInv, Team!TypeInv
<1>4. Team!TypeInv'
  BY <1>1, <1>2 DEF Team!IInv, Team!TypeInv, Team!Stage, Team!members
<1>5. \A q \in Team!Job \ {a} : memberStage'[q] = memberStage[q]
  BY <1>2 DEF Team!IInv, Team!TypeInv
<1>6. Team!Fresh' /\ Team!Presented'
  BY <1>1, <1>2, <1>5, TeamKinds DEF Team!IInv, Team!TypeInv, Team!Fresh, Team!Presented
<1>7. Team!Enrolled' = Team!Enrolled
  BY <1>1, <1>2, <1>5, TeamKinds DEF Team!IInv, Team!TypeInv, Team!Enrolled
<1>8. Team!Spent' /\ Team!InvitationsAreSingleUse'
  BY <1>1, <1>7 DEF Team!IInv, Team!Spent, Team!InvitationsAreSingleUse
<1>9. ASSUME memberInvitation[Invited[a]] = "pending"
      PROVE  Team!ReadStands(a)'
  <2>1. Team!ReadStands(a)
    BY <1>9 DEF Team!IInv, Team!Checked
  <2>2. TeamUnmoved(Invited[a])
    BY <1>1, TeamMembersKept
  <2>3. CASE Team!Present(a) \/ Team!ReadInvitation(a)
    BY <1>1, <2>3 DEF Team!ReadStands, Team!Moves, Team!IInv, Team!TypeInv
  <2>4. CASE Team!ReadCreator(a)
    <3>1. memberStage'[a] = "accessing"
      BY <1>1, <2>4 DEF Team!Moves, Team!IInv, Team!TypeInv
    <3> QED
      BY <1>1, <2>4, <3>1 DEF Team!ReadStands, Team!members
  <2>5. CASE Team!ReadAccess(a)
    <3>1. memberStage[a] = "accessing" /\ memberStage'[a] = "accessed"
      BY <1>1, <2>5 DEF Team!Moves, Team!IInv, Team!TypeInv
    <3>2. memberAccess'[a] = Team!AccessOf(Caller[Invited[a]])
      BY <1>1, <2>5 DEF Team!IInv, Team!TypeInv
    <3> QED
      BY <2>1, <2>2, <2>5, <3>1, <3>2 DEF Team!ReadStands, TeamUnmoved, Team!Permits
  <2>6. CASE Team!ReadGiven(a)
    <3>1. memberStage[a] = "accessed" /\ memberStage'[a] = "checked" /\ memberAccess' = memberAccess
      BY <1>1, <2>6 DEF Team!Moves, Team!IInv, Team!TypeInv
    <3> QED
      BY <2>1, <2>2, <2>6, <3>1 DEF Team!ReadStands, TeamUnmoved, Team!Permits, Team!Within
  <2> QED
    BY <2>3, <2>4, <2>5, <2>6
<1>10. ASSUME NEW b \in Acceptance \ {a}, memberInvitation[Invited[b]] = "pending"
       PROVE  Team!ReadStands(b)'
  <2>1. Team!ReadStands(b) /\ TeamUnmoved(Invited[b])
    BY <1>1, <1>10, TeamKinds, TeamMembersKept DEF Team!IInv, Team!Checked
  <2> QED
    BY <1>3, <1>5, <2>1, TeamKinds, TeamReadKept
<1>11. Team!Checked'
  BY <1>1, <1>9, <1>10 DEF Team!Checked
<1> QED
  BY <1>4, <1>6, <1>8, <1>11 DEF Team!IInv

LEMMA TeamConsumeStep ==
    ASSUME Team!ConstantsAreLegal, Team!IInv, NEW a \in Acceptance, Team!Consume(a)
    PROVE  Team!IInv'
<1>1. /\ a \in Team!Job /\ a \in Team!User /\ a \notin Invite /\ a \notin Staff
      /\ Invited[a] \in Invite /\ Names[Invited[a]] \in Role
  BY TeamKinds DEF Team!ConstantsAreLegal
<1>2. /\ memberInvitation[Invited[a]] = "pending" /\ memberStage[a] = "checked"
      /\ memberStage' = [memberStage EXCEPT ![a] = "done"]
      /\ memberInvitation' = [memberInvitation EXCEPT ![Invited[a]] = "used"]
      /\ memberActive' = memberActive \cup {a}
      /\ memberRoles' = [memberRoles EXCEPT ![a] = {Names[Invited[a]]}]
      /\ UNCHANGED <<memberDef, memberPrint, memberAccess>>
  BY DEF Team!Consume, Team!Moves
<1>3. Team!TypeInv'
  BY <1>1, <1>2 DEF Team!IInv, Team!TypeInv, Team!Stage
<1>4. /\ \A q \in Team!Job \ {a} : memberStage'[q] = memberStage[q]
      /\ memberStage'[a] = "done"
      /\ \A i \in Invite \ {Invited[a]} : memberInvitation'[i] = memberInvitation[i]
      /\ memberInvitation'[Invited[a]] = "used"
  BY <1>1, <1>2 DEF Team!IInv, Team!TypeInv
<1>5. Team!Fresh' /\ Team!Presented'
  BY <1>1, <1>2, <1>4, TeamKinds DEF Team!IInv, Team!TypeInv, Team!Fresh, Team!Presented
<1>6. Team!Enrolled' = Team!Enrolled \cup {a}
  BY <1>1, <1>4, TeamKinds DEF Team!Enrolled
<1>7. \A b \in Team!Enrolled : Invited[b] # Invited[a]
  BY <1>2 DEF Team!IInv, Team!Spent
<1>8. Team!Spent' /\ Team!InvitationsAreSingleUse'
  BY <1>4, <1>6, <1>7, TeamKinds DEF Team!IInv, Team!Spent, Team!InvitationsAreSingleUse,
     Team!Enrolled
<1>9. ASSUME NEW b \in Acceptance, memberInvitation'[Invited[b]] = "pending"
      PROVE  Team!ReadStands(b)'
  <2>1. Invited[b] \in Invite /\ Invited[b] # Invited[a] /\ b # a /\ Team!ReadStands(b)
    BY <1>1, <1>4, <1>9, TeamKinds DEF Team!IInv, Team!Checked
  <2>2. Caller[Invited[b]] \in Staff /\ Caller[Invited[b]] \in Team!User
    BY <2>1, TeamKinds
  <2>3. memberRoles'[Caller[Invited[b]]] = memberRoles[Caller[Invited[b]]]
    BY <1>1, <1>2, <2>2 DEF Team!IInv, Team!TypeInv
  <2>4. Team!AccessOf(Caller[Invited[b]])' = Team!AccessOf(Caller[Invited[b]])
    BY <1>2, <2>3, TeamAccessKept
  <2>5. TeamUnmoved(Invited[b])
    BY <1>2, <2>4 DEF TeamUnmoved
  <2> QED
    BY <1>2, <1>4, <2>1, <2>5, TeamKinds, TeamReadKept
<1>10. Team!Checked'
  BY <1>9 DEF Team!Checked
<1> QED
  BY <1>3, <1>5, <1>8, <1>10 DEF Team!IInv

LEMMA TeamChangeStep ==
    ASSUME Team!ConstantsAreLegal, Team!IInv, NEW c \in Change, Team!Check(c) \/
               Team!Replace(c)
    PROVE  Team!IInv'
<1>1. c \in Team!Job /\ c \notin Acceptance /\ c \notin Invite /\ Subject[c] \in Team!User /\
          Names[c] \in Role
  BY TeamKinds
<1>2. \E s \in Team!Stage : memberStage' = [memberStage EXCEPT ![c] = s]
  BY DEF Team!Check, Team!Replace, Team!Moves, Team!Stage
<1>3. /\ \A q \in Invite \cup Acceptance : memberStage'[q] = memberStage[q]
      /\ memberAccess' = memberAccess
  BY <1>1, <1>2, TeamKinds DEF Team!IInv, Team!TypeInv, Team!Check, Team!Replace
<1>4. CASE Team!Check(c)
  <2>1. UNCHANGED <<Team!members, memberInvitation, memberPrint>>
    BY <1>4 DEF Team!Check
  <2>2. Team!TypeInv' /\ Team!Fresh'
    BY <1>1, <1>2, <1>3, <2>1 DEF Team!IInv, Team!TypeInv, Team!Fresh, Team!members
  <2> QED
    BY <1>3, <2>1, <2>2, TeamMembersKept, TeamOtherStep
<1>5. CASE Team!Replace(c)
  <2>1. /\ memberRoles' = [memberRoles EXCEPT ![Subject[c]] = {Names[c]}]
        /\ memberActive' \in {memberActive \cup {Subject[c]}, memberActive \ {Subject[c]}}
        /\ UNCHANGED <<memberDef, memberPrint>>
        /\ memberInvitation' = [i \in Invite |-> IF Caller[i] =
               Subject[c] /\ memberInvitation[i] = "pending"
                                           THEN "used" ELSE memberInvitation[i]]
    BY <1>5 DEF Team!Replace, Team!Revoked
  <2>2. Team!TypeInv'
    BY <1>1, <1>2, <1>3, <2>1 DEF Team!IInv, Team!TypeInv
  <2>3. Team!Fresh'
    BY <1>3, <2>1 DEF Team!IInv, Team!Fresh
  <2>4. ASSUME NEW i \in Invite, memberInvitation[i] = "pending", memberInvitation'[i] =
                   "pending"
        PROVE  TeamUnmoved(i)
    <3>1. Caller[i] # Subject[c] /\ Caller[i] \in Team!User
      BY <2>1, <2>4, TeamKinds
    <3>2. memberRoles'[Caller[i]] = memberRoles[Caller[i]] /\ (Caller[i] \in memberActive' <=>
              Caller[i] \in memberActive)
      BY <1>1, <2>1, <3>1 DEF Team!IInv, Team!TypeInv
    <3>3. Team!AccessOf(Caller[i])' = Team!AccessOf(Caller[i])
      BY <2>1, <3>2, TeamAccessKept
    <3> QED
      BY <2>1, <3>2, <3>3 DEF TeamUnmoved
  <2>5. \A i \in Invite : memberInvitation[i] # "none" =>
            memberInvitation'[i] \in {memberInvitation[i], "used"}
    BY <2>1
  <2> QED
    BY <1>3, <2>2, <2>3, <2>4, <2>5, TeamOtherStep
<1> QED
  BY <1>4, <1>5

LEMMA TeamRewriteStep ==
    ASSUME Team!ConstantsAreLegal, Team!IInv, NEW w \in Rewrite, Team!ReadRole(w) \/
               Team!SaveRole(w)
    PROVE  Team!IInv'
<1>1. w \in Team!Job /\ w \notin Acceptance /\ w \notin Invite
  BY TeamKinds
<1>2. \E s \in Team!Stage : memberStage' = [memberStage EXCEPT ![w] = s]
  BY DEF Team!ReadRole, Team!SaveRole, Team!Moves, Team!Stage
<1>3. /\ \A q \in Invite \cup Acceptance : memberStage'[q] = memberStage[q]
      /\ memberAccess' = memberAccess
  BY <1>1, <1>2, TeamKinds DEF Team!IInv, Team!TypeInv, Team!ReadRole, Team!SaveRole
<1>4. CASE Team!ReadRole(w)
  <2>1. UNCHANGED <<Team!members, memberInvitation, memberPrint>>
    BY <1>4 DEF Team!ReadRole
  <2>2. Team!TypeInv' /\ Team!Fresh'
    BY <1>1, <1>2, <1>3, <2>1 DEF Team!IInv, Team!TypeInv, Team!Fresh, Team!members
  <2> QED
    BY <1>3, <2>1, <2>2, TeamMembersKept, TeamOtherStep
<1>5. CASE Team!SaveRole(w)
  <2>1. /\ UNCHANGED <<memberRoles, memberPrint>>
        /\ memberInvitation' = [i \in Invite |-> IF memberInvitation[i] =
               "pending" THEN "used" ELSE memberInvitation[i]]
    BY <1>5 DEF Team!SaveRole, Team!Revoked
  <2>2. Team!TypeInv'
    BY <1>1, <1>2, <1>3, <2>1 DEF Team!IInv, Team!TypeInv
  <2>3. Team!Fresh'
    BY <1>3, <2>1 DEF Team!IInv, Team!Fresh
  <2>4. \A i \in Invite : /\ memberInvitation'[i] # "pending"
                          /\ memberInvitation[i] # "none" =>
                                 memberInvitation'[i] \in {memberInvitation[i], "used"}
    BY <2>1
  <2> QED
    BY <1>3, <2>2, <2>3, <2>4, TeamOtherStep
<1> QED
  BY <1>4, <1>5

LEMMA TeamStutterStep ==
    ASSUME Team!IInv, UNCHANGED Team!vars
    PROVE  Team!IInv'
<1>1. UNCHANGED <<Team!members, memberInvitation, memberPrint, memberStage, memberAccess>>
  BY DEF Team!vars, Team!members
<1>2. Team!TypeInv' /\ Team!Fresh' /\ Team!Presented' /\ Team!Enrolled' = Team!Enrolled
  BY <1>1 DEF Team!members, Team!IInv, Team!TypeInv, Team!Fresh, Team!Presented, Team!Enrolled
<1>3. Team!Spent' /\ Team!InvitationsAreSingleUse'
  BY <1>1, <1>2 DEF Team!IInv, Team!Spent, Team!InvitationsAreSingleUse
<1>4. Team!Checked'
  BY <1>1, TeamAccessKept DEF Team!members, Team!IInv, Team!Checked, Team!ReadStands,
     Team!Permits, Team!Within
<1> QED
  BY <1>2, <1>3, <1>4 DEF Team!IInv

LEMMA TeamStepIInv ==
    ASSUME Team!ConstantsAreLegal, Team!IInv, [Team!Next]_Team!vars
    PROVE  Team!IInv'
<1>1. CASE UNCHANGED Team!vars
  BY <1>1, TeamStutterStep
<1>2. CASE \E q \in Invite \cup Change \cup Rewrite : Team!Begin(q)
  BY <1>2, TeamBeginStep
<1>3. CASE \E q \in Team!Job : Team!Fail(q)
  BY <1>3, TeamFailStep
<1>4. CASE \E i \in Invite : Team!ListRoles(i) \/ Team!InsertInvitation(i) \/ Team!Expire(i)
  BY <1>4, TeamInviteStep
<1>5. CASE \E a \in Acceptance :
               \/ Team!Present(a) \/ Team!ReadInvitation(a)
               \/ Team!ReadCreator(a) \/ Team!ReadAccess(a) \/ Team!ReadGiven(a) \/ Team!Consume(a)
  BY <1>5, TeamReadStep, TeamConsumeStep
<1>6. CASE \E c \in Change : Team!Check(c) \/ Team!Replace(c)
  BY <1>6, TeamChangeStep
<1>7. CASE \E w \in Rewrite : Team!ReadRole(w) \/ Team!SaveRole(w)
  BY <1>7, TeamRewriteStep
<1> QED
  BY <1>1, <1>2, <1>3, <1>4, <1>5, <1>6, <1>7 DEF Team!Next, Team!Finished

\* The inductive invariant of invitations.
THEOREM TeamInvariance == Team!Spec => []Team!IInv
<1> Team!ConstantsAreLegal
  BY TeamIsLegal
<1>1. Team!Init => Team!IInv
  BY TeamInitIInv
<1>2. Team!IInv /\ [Team!Next]_Team!vars => Team!IInv'
  BY TeamStepIInv
<1> QED
  BY <1>1, <1>2, PTL DEF Team!Spec

\* However many requests present an invitation, and whatever is revoked or redefined
\* meanwhile, it enrols at most one member.
THEOREM TeamInvitationsCorrect == Team!Spec => []InvitationsAreSingleUse
<1> Team!ConstantsAreLegal
  BY TeamIsLegal
<1>1. Team!IInv => InvitationsAreSingleUse
  BY DEF Team!IInv, InvitationsAreSingleUse, Team!InvitationsAreSingleUse
<1> QED
  BY <1>1, TeamInvariance, PTL

\* Only the last step of an acceptance enrols its member.
LEMMA TeamEnrolledBy ==
    ASSUME Team!ConstantsAreLegal, Team!IInv, [Team!Next]_Team!vars,
           NEW a \in Team!Enrolled' \ Team!Enrolled
    PROVE  Team!Consume(a)
<1>1. a \in Acceptance /\ a \in Team!Job /\ memberStage'[a] = "done" /\ memberStage[a] # "done"
  BY TeamKinds DEF Team!Enrolled
<1>2. \A q \in Team!Job, s \in Team!Stage \ {"done"} :
          memberStage' # [memberStage EXCEPT ![q] = s]
  BY <1>1 DEF Team!IInv, Team!TypeInv
<1>3. \A q \in Team!Job : memberStage' = [memberStage EXCEPT ![q] = "done"] => q = a
  BY <1>1 DEF Team!IInv, Team!TypeInv
<1>4. memberStage' # memberStage
  BY <1>1
<1>5. \A q \in Team!Job : Team!Moves(q, "checked", "done") => q = a
  BY <1>3 DEF Team!Moves
<1>6. \A q \in Invite \cup Change \cup Rewrite : ~Team!Begin(q)
  BY <1>2, TeamKinds DEF Team!Begin, Team!Moves, Team!Stage, Team!Job
<1>7. \A q \in Team!Job : ~Team!Fail(q)
  BY <1>2 DEF Team!Fail, Team!Stage
<1>8. \A i \in Invite : ~Team!ListRoles(i) /\ ~Team!InsertInvitation(i) /\ ~Team!Expire(i)
  BY <1>1, <1>2, <1>3, <1>4, TeamKinds DEF Team!ListRoles, Team!InsertInvitation, Team!Expire,
     Team!Moves, Team!Stage
<1>9. \A b \in Acceptance :
          /\ ~Team!Present(b) /\ ~Team!ReadInvitation(b)
          /\ ~Team!ReadCreator(b) /\ ~Team!ReadAccess(b) /\ ~Team!ReadGiven(b)
          /\ Team!Consume(b) => b = a
  BY <1>2, <1>5, TeamKinds DEF Team!Present, Team!ReadInvitation, Team!ReadCreator,
     Team!ReadAccess, Team!ReadGiven, Team!Consume, Team!Moves, Team!Stage
<1>10. \A c \in Change : ~Team!Check(c) /\ ~Team!Replace(c)
  BY <1>1, <1>2, <1>5, TeamKinds DEF Team!Check, Team!Replace, Team!Moves, Team!Stage
<1>11. \A w \in Rewrite : ~Team!ReadRole(w) /\ ~Team!SaveRole(w)
  BY <1>1, <1>2, <1>5, TeamKinds DEF Team!ReadRole, Team!SaveRole, Team!Moves, Team!Stage
<1> QED
  BY <1>4, <1>6, <1>7, <1>8, <1>9, <1>10, <1>11 DEF Team!Next, Team!Finished, Team!vars

\* A member is enrolled only while the creator of the invitation is active and could give
\* that role as it is defined: everything that takes this away revokes the invitation, in
\* the transaction that takes it.
THEOREM TeamAuthorityCorrect == Team!Spec => EnrolledWithinAuthority
<1> Team!ConstantsAreLegal
  BY TeamIsLegal
<1> DEFINE Within1 == \A a \in Team!Enrolled' \ Team!Enrolled :
                LET i == Invited[a]
                IN /\ Caller[i] \in memberActive
                   /\ Team!Permits(Team!AccessOf(Caller[i]))
                   /\ memberDef[Names[i]] = memberPrint[i]
                   /\ Team!Within(memberDef[Names[i]], Team!AccessOf(Caller[i]))
<1>1. ASSUME Team!IInv, [Team!Next]_Team!vars
      PROVE  Within1
  <2> SUFFICES ASSUME NEW a \in Team!Enrolled' \ Team!Enrolled
               PROVE  /\ Caller[Invited[a]] \in memberActive
                      /\ Team!Permits(Team!AccessOf(Caller[Invited[a]]))
                      /\ memberDef[Names[Invited[a]]] = memberPrint[Invited[a]]
                      /\ Team!Within(memberDef[Names[Invited[a]]],
                                     Team!AccessOf(Caller[Invited[a]]))
    OBVIOUS
  <2>1. Team!Consume(a) /\ a \in Acceptance
    BY <1>1, TeamEnrolledBy DEF Team!Enrolled
  <2>2. Team!ReadStands(a) /\ memberStage[a] = "checked"
    BY <1>1, <2>1 DEF Team!Consume, Team!Moves, Team!IInv, Team!Checked
  <2> QED
    BY <2>2 DEF Team!ReadStands, Team!Permits, Team!Within
<1> HIDE DEF Within1
<1>2. Team!IInv /\ [Team!Next]_Team!vars => [Within1]_Team!vars
  BY <1>1
<1>3. Team!Spec => [][Within1]_Team!vars
  BY <1>2, TeamInvariance, PTL DEF Team!Spec
<1> QED
  BY <1>3 DEF EnrolledWithinAuthority, Team!EnrolledWithinAuthority, Within1

-----------------------------------------------------------------------------
(* Forwarding: the address a request counts for. *)

LEMMA HopsInductive ==
    Hops!ConstantsAreLegal /\ Hops!IInv /\ [Hops!Next]_Hops!vars => Hops!IInv'
<1> SUFFICES ASSUME Hops!ConstantsAreLegal, Hops!IInv, [Hops!Next]_Hops!vars
             PROVE  Hops!IInv'
  OBVIOUS
<1> USE DEF Hops!ConstantsAreLegal, Hops!IInv
<1>1. CASE Hops!Send
  <2>1. hopChain' \in Seq(HopAddress \cup {Junk})
    BY <1>1 DEF Hops!Send, Hops!BoundedSeq, Hops!SeqOf
  <2> QED
    BY <1>1, <2>1 DEF Hops!Send
<1>2. CASE Hops!Forward
  <2>1. /\ hopClient # Nobody /\ hopHops' = hopHops + 1 /\ hopPeer' \in Trusted
        /\ hopClient' = hopClient /\ hopPeer \in HopAddress
        /\ hopChain' = Append(hopChain, hopPeer) /\ hopChain \in Seq(HopAddress \cup {Junk})
    BY <1>2 DEF Hops!Forward
  <2>2. /\ hopChain' \in Seq(HopAddress \cup {Junk})
        /\ Len(hopChain') = Len(hopChain) + 1 /\ DOMAIN hopChain' = 1..Len(hopChain')
        /\ hopChain'[Len(hopChain')] = hopPeer /\ DOMAIN hopChain = 1..Len(hopChain)
        /\ \A j \in DOMAIN hopChain : hopChain'[j] = hopChain[j]
    BY <2>1
  <2>3. \E i \in DOMAIN hopChain' :
            /\ hopChain'[i] = hopClient
            /\ \A j \in DOMAIN hopChain' : j > i => hopChain'[j] \in Trusted
    <3>1. CASE hopHops = 0
      BY <2>1, <2>2, <3>1
    <3>2. CASE hopHops > 0
      <4>1. PICK i \in DOMAIN hopChain :
                /\ hopChain[i] = hopClient /\ hopPeer \in Trusted
                /\ \A j \in DOMAIN hopChain : j > i => hopChain[j] \in Trusted
        BY <2>1, <3>2
      <4>2. /\ hopChain'[i] = hopClient /\ i \in DOMAIN hopChain'
            /\ \A j \in DOMAIN hopChain' : j > i => hopChain'[j] \in Trusted
        BY <4>1, <2>2
      <4> QED
        BY <4>2
    <3> QED
      BY <3>1, <3>2
  <2> QED
    BY <2>1, <2>2, <2>3
<1>3. CASE UNCHANGED Hops!vars
  BY <1>3 DEF Hops!vars
<1> QED
  BY <1>1, <1>2, <1>3 DEF Hops!Next

\* Behind a proxy, the last entry that no proxy stands for is the client.
LEMMA HopsLastOutside ==
  ASSUME Hops!ConstantsAreLegal, Hops!IInv, hopClient # Nobody
  PROVE  Hops!ClientIp(hopPeer, hopChain) = hopClient
<1> USE DEF Hops!ConstantsAreLegal, Hops!IInv
<1>1. CASE hopHops = 0
  BY <1>1 DEF Hops!ClientIp
<1>2. CASE hopHops > 0
  <2>1. PICK i \in DOMAIN hopChain :
            /\ hopChain[i] = hopClient
            /\ \A j \in DOMAIN hopChain : j > i => hopChain[j] \in Trusted
    BY <1>2
  <2>2. i \in Hops!Outside(hopChain) /\ \A j \in Hops!Outside(hopChain) : j <= i
    BY <2>1 DEF Hops!Outside
  <2>3. \A k \in Hops!Outside(hopChain) : (\A j \in Hops!Outside(hopChain) : j <= k) => k = i
    BY <2>2 DEF Hops!Outside
  <2>4. (CHOOSE k \in Hops!Outside(hopChain) : \A j \in Hops!Outside(hopChain) : j <= k) = i
    BY <2>2, <2>3
  <2>5. hopPeer \in Trusted /\ hopChain # <<>>
    BY <1>2, <2>1
  <2> QED
    BY <2>1, <2>2, <2>4, <2>5 DEF Hops!ClientIp
<1> QED
  BY <1>1, <1>2 DEF Hops!IInv

\* A request counts for the address of its client, whatever it claims in the header and
\* however many trusted proxies it passes.
THEOREM HopsJudged == Hops!Spec => []ForgedHeaderIsIgnored
<1> Hops!ConstantsAreLegal
  BY HopsAreLegal
<1>1. Hops!Init => Hops!IInv
  BY DEF Hops!Init, Hops!IInv
<1>2. Hops!IInv /\ [Hops!Next]_Hops!vars => Hops!IInv'
  BY HopsInductive
<1>3. Hops!IInv => ForgedHeaderIsIgnored
  BY HopsLastOutside DEF Hops!ConstantsAreLegal, Hops!IInv, ForgedHeaderIsIgnored,
     Hops!ForgedHeaderIsIgnored, Hops!Admitted, Hops!IpAllowed
<1> QED
  BY <1>1, <1>2, <1>3, PTL DEF Hops!Spec

=============================================================================
