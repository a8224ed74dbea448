------------------------------ MODULE ApiKeys ------------------------------
(***************************************************************************)
(* API keys of one application: the bootstrap credential that mints the    *)
(* first one, the cache of key rows on every worker, and revocation.       *)
(*                                                                         *)
(* A key is named for the request that mints it.  A transaction of the     *)
(* database holds the row of the bootstrap state from its insertion to its *)
(* end.  A row is read at one moment and its answer used at a later one.   *)
(***************************************************************************)
EXTENDS Integers, FiniteSets

CONSTANTS
    Key,
    Request,      \* requests that authenticate with a key
    KeyOf,        \* KeyOf[q]: the key of a request
    Worker,
    WorkerOf,     \* WorkerOf[q]: the worker that serves a request
    Ttl,          \* api_key_cache_ttl_seconds
    MaxTime,      \* bound: ticks
    None

\* What the constants must be.
ConstantsAreLegal ==
    /\ KeyOf \in [Request -> Key] /\ WorkerOf \in [Request -> Worker]
    /\ {Ttl, MaxTime} \subseteq Nat /\ None \notin Nat \cup Key

VARIABLES
    now,
    row,          \* the committed row of a key
    consumed,     \* the committed bootstrap state
    holder,       \* the transaction that has inserted the bootstrap state
    mint,         \* where the request that mints a key is
    cache,        \* _api_key_auth_cache of a worker: until when a row is kept
    stage,        \* where an authentication is
    got,          \* the row it has read
    revoker       \* the worker that has committed a revocation and not cleared

minting == <<consumed, holder, mint>>
vars == <<now, row, minting, cache, stage, got, revoker>>

Rows == {"absent", "enabled", "revoked"}

Init ==
    /\ now = 0
    /\ row = [k \in Key |-> "absent"]
    /\ consumed = FALSE /\ holder = None
    /\ mint = [k \in Key |-> "new"]
    /\ cache = [w \in Worker |-> [k \in Key |-> None]]
    /\ stage = [q \in Request |-> "new"]
    /\ got = [q \in Request |-> "absent"]
    /\ revoker = [k \in Key |-> None]

-----------------------------------------------------------------------------
(* The bootstrap credential. *)

Mints(k, from, to) ==
    /\ mint[k] = from
    /\ mint' = [mint EXCEPT ![k] = to]

\* authenticate_request: available, or refused.
BootstrapAuth(k) ==
    /\ Mints(k, "new", IF consumed THEN "refused" ELSE "allowed")
    /\ UNCHANGED <<now, row, consumed, holder, cache, stage, got, revoker>>

\* _consume_bootstrap_in_transaction finds the state consumed.
BootstrapGone(k) ==
    /\ consumed
    /\ Mints(k, "allowed", "refused")
    /\ UNCHANGED <<now, row, consumed, holder, cache, stage, got, revoker>>

\* It finds no row, which its FOR UPDATE cannot lock.
BootstrapFree(k) ==
    /\ ~consumed
    /\ Mints(k, "allowed", "free")
    /\ UNCHANGED <<now, row, consumed, holder, cache, stage, got, revoker>>

FaultyInsertState(k) ==
    /\ holder = None
    /\ Mints(k, "free", "held") /\ holder' = k
    /\ UNCHANGED <<now, row, consumed, cache, stage, got, revoker>>

\* The insertion of the row waits for another one and fails behind it.
InsertState(k) ==
    /\ holder = None
    /\ IF consumed THEN Mints(k, "free", "refused") /\ UNCHANGED holder
                   ELSE Mints(k, "free", "held") /\ holder' = k
    /\ UNCHANGED <<now, row, consumed, cache, stage, got, revoker>>

\* The key and the state are committed, or neither is; the cache of the
\* worker, which cannot know the new key, is cleared.
EndMint(k) ==
    /\ \/ Mints(k, "held", "minted") /\ consumed' = TRUE /\ row' = [row EXCEPT ![k] = "enabled"]
       \/ Mints(k, "held", "failed") /\ UNCHANGED <<consumed, row>>
    /\ holder' = None
    /\ cache' \in {cache} \cup {[cache EXCEPT ![w] = [x \in Key |-> None]] : w \in Worker}
    /\ UNCHANGED <<now, stage, got, revoker>>

-----------------------------------------------------------------------------
(* Authentication. *)

Moves(q, from, to) ==
    /\ stage[q] = from
    /\ stage' = [stage EXCEPT ![q] = to]

Cached(w, k) == cache[w][k] # None /\ cache[w][k].until > now

Entry(q) == cache[WorkerOf[q]][KeyOf[q]]
Keep(q, e) == cache' = [cache EXCEPT ![WorkerOf[q]][KeyOf[q]] = e]

\* _cached_api_key_row has the row, which is one of an enabled key.
Hit(q) ==
    /\ Cached(WorkerOf[q], KeyOf[q])
    /\ Moves(q, "new", "accepted")
    /\ UNCHANGED <<now, row, minting, cache, got, revoker>>

\* It has none, or drops one that is over: the database is read.
Miss(q) ==
    /\ ~Cached(WorkerOf[q], KeyOf[q])
    /\ Moves(q, "new", "read")
    /\ got' = [got EXCEPT ![q] = row[KeyOf[q]]]
    /\ Keep(q, None)
    /\ UNCHANGED <<now, row, minting, revoker>>

\* The row arrives; an enabled one is stored.
Arrive(q) ==
    /\ IF got[q] = "enabled"
       THEN /\ Moves(q, "read", "accepted")
            /\ Keep(q, [until |-> now + Ttl, stored |-> now])
       ELSE Moves(q, "read", "refused") /\ UNCHANGED cache
    /\ UNCHANGED <<now, row, minting, got, revoker>>

\* Other keys fill the cache beyond its bound, or a key expires.
Evict(w, k) ==
    /\ cache[w][k] # None
    /\ cache' = [cache EXCEPT ![w][k] = None]
    /\ UNCHANGED <<now, row, minting, stage, got, revoker>>

-----------------------------------------------------------------------------
(* Revocation. *)

Revoke(w, k) ==
    /\ row[k] = "enabled"
    /\ row' = [row EXCEPT ![k] = "revoked"]
    /\ revoker' = [revoker EXCEPT ![k] = w]
    /\ UNCHANGED <<now, minting, cache, stage, got>>

\* clear_api_key_auth_cache, on the worker that served the revocation.
Clear(w, k) ==
    /\ revoker[k] = w
    /\ revoker' = [revoker EXCEPT ![k] = None]
    /\ cache' = [cache EXCEPT ![w] = [x \in Key |-> None]]
    /\ UNCHANGED <<now, row, minting, stage, got>>

Tick ==
    /\ now < MaxTime
    /\ now' = now + 1
    /\ UNCHANGED <<row, minting, cache, stage, got, revoker>>

Finished ==
    /\ \A q \in Request : stage[q] \in {"accepted", "refused"}
    /\ \A k \in Key : mint[k] \in {"refused", "minted", "failed"}
    /\ UNCHANGED vars

Next ==
    \/ \E k \in Key : \/ BootstrapAuth(k) \/ BootstrapGone(k) \/ BootstrapFree(k)
                      \/ InsertState(k) \/ EndMint(k)
    \/ \E q \in Request : Hit(q) \/ Miss(q) \/ Arrive(q)
    \/ \E w \in Worker, k \in Key : Evict(w, k) \/ Revoke(w, k) \/ Clear(w, k)
    \/ Tick \/ Finished

Spec == Init /\ [][Next]_vars

-----------------------------------------------------------------------------
(* Properties. *)

\* However many requests present the bootstrap credential at once, it mints
\* one key, and it is consumed exactly when it has.
BootstrapMintsOnce ==
    /\ \A j, k \in Key : mint[j] = "minted" /\ mint[k] = "minted" => j = k
    /\ consumed <=> \E k \in Key : mint[k] = "minted"

\* A revoked key is accepted only where its row, read before, was stored less
\* than the time to live ago: no use of it prolongs that.
RevocationIsBounded ==
    \A w \in Worker, k \in Key :
        Cached(w, k) /\ row[k] = "revoked" => now < cache[w][k].stored + Ttl

-----------------------------------------------------------------------------
(* The inductive invariant behind the properties. *)

Mint == {"new", "refused", "allowed", "free", "held", "minted", "failed"}
CacheEntry == [until : Nat, stored : Nat]

TypeInv ==
    /\ now \in Nat
    /\ row \in [Key -> Rows]
    /\ consumed \in BOOLEAN
    /\ holder \in Key \cup {None}
    /\ mint \in [Key -> Mint]
    /\ cache \in [Worker -> [Key -> CacheEntry \cup {None}]]

\* One transaction at a time holds the row of the bootstrap state, and only as long as
\* none has committed it.
Holding ==
    /\ \A k \in Key : mint[k] = "held" <=> holder = k
    /\ consumed => holder = None

Minted == {k \in Key : mint[k] = "minted"}

\* The state is consumed exactly by the one request that has minted.
Minting ==
    /\ consumed <=> Minted # {}
    /\ \A j, k \in Minted : j = k

\* A row is kept for its time to live from the moment it was stored.
Keeping ==
    \A w \in Worker, k \in Key : cache[w][k] # None => cache[w][k].until = cache[w][k].stored + Ttl

\* The inductive invariant.
IInv == TypeInv /\ Holding /\ Minting /\ Keeping

=============================================================================
