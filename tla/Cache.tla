------------------------------- MODULE Cache -------------------------------
(***************************************************************************)
(* framework/cache.py, and the handlers of framework/routers/project.py    *)
(* that read through it and invalidate it, for one namespace.              *)
(*                                                                         *)
(* A read builds its key from the generation of the namespace, looks the   *)
(* key up, and loads the value from the database under a lock of its own   *)
(* worker if there is nothing fresh; a write bumps the generation after    *)
(* its commit.  A key is its generation: reads of other rows never meet.   *)
(*                                                                         *)
(* Abstracted: a value is the number of writes it includes; time, so that  *)
(* an entry may turn stale or vanish (TTL, LRU bound, Redis eviction) at   *)
(* any moment; the distributed lock, which times out on both sides and     *)
(* only ever adds a second look, so that taking it may succeed or fail.    *)
(* Entries that do not parse as JSON are left out.                         *)
(***************************************************************************)
EXTENDS Naturals, FiniteSets

CONSTANTS
    Backend,      \* "memory", "redis" or "tiered"
    Worker,       \* processes, each with its CacheManager
    Redis,        \* the shared server
    Request,      \* read requests in flight
    Writer,       \* write requests in flight
    Host,         \* Host[x]: the worker that serves request x
    StaleServed,  \* stale_ttl > 0
    FailOpen,     \* cache.fail_open
    MaxWrites,    \* bound on the commits and on the generation
    None

Key == 0..MaxWrites
Refresh == Worker \X Key              \* background refreshes
Task == Request \cup Refresh
Node == Worker \cup {Redis}

ASSUME BackendIsKnown == Backend \in {"memory", "redis", "tiered"}
ASSUME RedisIsNoWorker == Redis \notin Worker
ASSUME HostIsWorker == Host \in [Request \cup Writer -> Worker]
ASSUME OptionsAreBoolean == StaleServed \in BOOLEAN /\ FailOpen \in BOOLEAN
ASSUME MaxWritesIsNat == MaxWrites \in Nat
ASSUME TasksDiffer == Request \cap Refresh = {}
ASSUME NoneIsNothing == None \notin Task \cup Nat

VARIABLES
    db,           \* writes committed
    gen,          \* gen[n]: the generation counter kept by n
    acked,        \* acked[n]: last write acknowledged after a bump of gen[n]
    local,        \* local[w][k]: entry in the memory of w
    shared,       \* shared[k]: entry in Redis
    pc, key,      \* where a task is, and its cache key
    stage,        \* which of the three lookups of a read it is at
    got,          \* entry Redis answered
    val,          \* value loaded or returned
    lockOf,       \* the lock the task registered for, named by its creator
    registry,     \* registry[w][k]: _locks
    refreshing,   \* refreshing[w]: _refreshing
    floor,        \* floor[r]: writes acknowledged when read r began
    wpc, wnum     \* progress of a write, and its number

dbVars == <<db, wpc, wnum>>
storeVars == <<local, shared>>
lockVars == <<lockOf, registry, refreshing>>
vars == <<db, gen, acked, local, shared, pc, key, stage, got, val, lockOf, registry,
          refreshing, floor, wpc, wnum>>

Entry == [val : Nat, fresh : BOOLEAN]
Idle == [lock |-> None, users |-> 0]

On(t) == IF t \in Request THEN Host[t] ELSE t[1]
Counter(w) == IF Backend = "memory" THEN w ELSE Redis
Remote == Backend # "memory"

Goto(t, label) == pc' = [pc EXCEPT ![t] = label]

-----------------------------------------------------------------------------
(* The lock registry: _lock_for and _release_lock. *)

Users(w, k) == {t \in Task : lockOf[t] # None /\ On(t) = w /\ key[t] = k}

Register(t) ==
    LET w == On(t)  k == key[t]  entry == registry[w][k] IN
    /\ registry' = [registry EXCEPT ![w][k] =
            IF entry.users = 0 THEN [lock |-> t, users |-> 1]
            ELSE [entry EXCEPT !.users = @ + 1]]
    /\ lockOf' = [lockOf EXCEPT ![t] = IF entry.users = 0 THEN t ELSE entry.lock]
    /\ Goto(t, "wait")

\* Faulty: the entry is dropped while other tasks use the lock.
UnregisterAll(t) ==
    /\ IF lockOf[t] = None THEN UNCHANGED registry
       ELSE registry' = [registry EXCEPT ![On(t)][key[t]] = Idle]
    /\ lockOf' = [lockOf EXCEPT ![t] = None]

Unregister(t) ==
    /\ LET w == On(t)  k == key[t]  entry == registry[w][k] IN
       IF lockOf[t] = None \/ entry.lock # lockOf[t] THEN UNCHANGED registry
       ELSE registry' = [registry EXCEPT ![w][k] =
                IF entry.users = 1 THEN Idle ELSE [entry EXCEPT !.users = @ - 1]]
    /\ lockOf' = [lockOf EXCEPT ![t] = None]

\* The finally clause of _refresh.
EndRefresh(t, label) ==
    refreshing' = IF t \in Refresh THEN [refreshing EXCEPT ![t[1]] = @ \ {t[2]}] ELSE refreshing

\* A task leaves _load_locked, or get_or_set_json, with an answer or an error.
Leave(t, label) ==
    /\ Unregister(t)
    /\ EndRefresh(t, label)
    /\ Goto(t, IF t \in Request THEN label ELSE "idle")
    /\ key' = [key EXCEPT ![t] = None]
    /\ stage' = [stage EXCEPT ![t] = "first"]

Return(t, v) ==
    /\ Leave(t, "done")
    /\ val' = [val EXCEPT ![t] = IF t \in Request THEN v ELSE 0]

Fail(t) ==
    /\ Leave(t, "error")
    /\ val' = [val EXCEPT ![t] = 0]

-----------------------------------------------------------------------------
(* Reads. *)

Begin(r) ==
    /\ pc[r] = "idle"
    /\ Goto(r, "key")
    /\ floor' = [floor EXCEPT ![r] = acked[Counter(Host[r])]]
    /\ UNCHANGED <<dbVars, gen, acked, storeVars, key, stage, got, val, lockVars>>

\* make_key reads the generation.
MakeKey(r) ==
    /\ pc[r] = "key"
    /\ key' = [key EXCEPT ![r] = gen[Counter(Host[r])]]
    /\ Goto(r, "get")
    /\ UNCHANGED <<dbVars, gen, acked, storeVars, stage, got, val, lockVars, floor>>

\* Without the generation the key is one nobody else uses: nothing is found
\* under it and nobody waits for its lock.
KeyFails(r) ==
    /\ pc[r] = "key" /\ Remote
    /\ Goto(r, IF FailOpen THEN "load" ELSE "error")
    /\ UNCHANGED <<dbVars, gen, acked, storeVars, key, stage, got, val, lockVars, floor>>

\* A stale answer is served, and refreshed in the background unless a refresh
\* of this key is on its way.
ServeStale(t, e) ==
    LET w == On(t)  k == key[t] IN
    /\ val' = [val EXCEPT ![t] = e.val]
    /\ IF k \in refreshing[w]
       THEN /\ Goto(t, "done")
            /\ key' = [key EXCEPT ![t] = None]
            /\ UNCHANGED refreshing
       ELSE /\ refreshing' = [refreshing EXCEPT ![w] = @ \cup {k}]
            /\ pc' = [pc EXCEPT ![t] = "done", ![<<w, k>>] = "start"]
            /\ key' = [key EXCEPT ![t] = None, ![<<w, k>>] = k]
    /\ UNCHANGED <<stage, lockOf, registry>>

Usable(e) == e # None /\ e.fresh
Stale(e) == e # None /\ ~e.fresh

\* What get_or_set_json and _load_locked do with the entry they found.
Decide(t, e) ==
    \/ Usable(e) /\ Return(t, e.val)
    \/ stage[t] = "first" /\ Stale(e) /\ StaleServed /\ ServeStale(t, e)
    \/ stage[t] = "first" /\ ~Usable(e) /\ ~(Stale(e) /\ StaleServed)
        /\ Register(t) /\ UNCHANGED <<key, stage, val, refreshing>>
    \/ stage[t] = "locked" /\ ~Usable(e) /\ Goto(t, IF Remote THEN "dlock" ELSE "load")
        /\ UNCHANGED <<key, stage, val, lockVars>>
    \/ stage[t] = "again" /\ ~Usable(e) /\ Goto(t, "load") /\ UNCHANGED <<key, stage, val, lockVars>>

\* Faulty: the memory of the worker answers for any generation.
LookAnyGeneration(t) ==
    /\ pc[t] = "get"
    /\ \E k \in Key : LET e == local[On(t)][k] IN
        IF e = None /\ Remote
        THEN Goto(t, "remote") /\ UNCHANGED <<key, stage, val, lockVars>>
        ELSE Decide(t, e)
    /\ UNCHANGED <<dbVars, gen, acked, storeVars, got, floor>>

\* The memory of the worker answers at once; otherwise Redis is asked.
Look(t) ==
    LET e == local[On(t)][key[t]] IN
    /\ pc[t] = "get"
    /\ IF e = None /\ Remote
       THEN Goto(t, "remote") /\ UNCHANGED <<key, stage, val, lockVars>>
       ELSE Decide(t, e)
    /\ UNCHANGED <<dbVars, gen, acked, storeVars, got, floor>>

Fetch(t) ==
    /\ pc[t] = "remote"
    /\ got' = [got EXCEPT ![t] = shared[key[t]]]
    /\ Goto(t, "reply")
    /\ UNCHANGED <<dbVars, gen, acked, storeVars, key, stage, val, lockVars, floor>>

FetchFails(t) ==
    /\ pc[t] = "remote"
    /\ IF FailOpen THEN Decide(t, None) ELSE Fail(t)
    /\ UNCHANGED <<dbVars, gen, acked, storeVars, got, floor>>

\* The answer of Redis is kept in the memory of a tiered cache.
Reply(t) ==
    /\ pc[t] = "reply"
    /\ local' = IF Backend = "tiered" /\ got[t] # None
                THEN [local EXCEPT ![On(t)][key[t]] = got[t]] ELSE local
    /\ got' = [got EXCEPT ![t] = None]
    /\ Decide(t, got[t])
    /\ UNCHANGED <<dbVars, gen, acked, shared, floor>>

StartRefresh(t) ==
    /\ pc[t] = "start"
    /\ Register(t)
    /\ UNCHANGED <<dbVars, gen, acked, storeVars, key, stage, got, val, refreshing, floor>>

Acquire(t) ==
    /\ pc[t] = "wait"
    /\ \A u \in Users(On(t), key[t]) : lockOf[u] = lockOf[t] => pc[u] = "wait"
    /\ Goto(t, "get")
    /\ stage' = [stage EXCEPT ![t] = "locked"]
    /\ UNCHANGED <<dbVars, gen, acked, storeVars, key, got, val, lockVars, floor>>

\* With the distributed lock the key is looked up once more.
LockRemote(t) ==
    /\ pc[t] = "dlock"
    /\ \/ Goto(t, "get") /\ stage' = [stage EXCEPT ![t] = "again"]
       \/ Goto(t, "load") /\ UNCHANGED stage
    /\ UNCHANGED <<dbVars, gen, acked, storeVars, key, got, val, lockVars, floor>>

Load(t) ==
    /\ pc[t] = "load"
    /\ IF key[t] = None THEN Return(t, db)
       ELSE /\ Goto(t, IF Backend = "redis" THEN "push" ELSE "store")
            /\ val' = [val EXCEPT ![t] = db]
            /\ UNCHANGED <<key, stage, lockVars>>
    /\ UNCHANGED <<dbVars, gen, acked, storeVars, got, floor>>

\* Faulty: a load that failed is tried again.
LoadRetries(t) ==
    /\ pc[t] = "load"
    /\ IF key[t] = None THEN Fail(t)
                        ELSE Goto(t, "get") /\ UNCHANGED <<key, stage, val, lockVars>>
    /\ UNCHANGED <<dbVars, gen, acked, storeVars, got, floor>>

LoadFails(t) ==
    /\ pc[t] = "load"
    /\ Fail(t)
    /\ UNCHANGED <<dbVars, gen, acked, storeVars, got, floor>>

Loaded(t) == [val |-> val[t], fresh |-> TRUE]

Store(t) ==
    /\ pc[t] = "store"
    /\ local' = [local EXCEPT ![On(t)][key[t]] = Loaded(t)]
    /\ IF Remote THEN Goto(t, "push") /\ UNCHANGED <<key, stage, val, lockVars>>
       ELSE Return(t, val[t])
    /\ UNCHANGED <<dbVars, gen, acked, shared, got, floor>>

Push(t) ==
    /\ pc[t] = "push"
    /\ shared' = [shared EXCEPT ![key[t]] = Loaded(t)]
    /\ Return(t, val[t])
    /\ UNCHANGED <<dbVars, gen, acked, local, got, floor>>

PushFails(t) ==
    /\ pc[t] = "push"
    /\ IF FailOpen THEN Return(t, val[t]) ELSE Fail(t)
    /\ UNCHANGED <<dbVars, gen, acked, storeVars, got, floor>>

Answer(r) ==
    /\ pc[r] \in {"done", "error"}
    /\ Goto(r, "idle")
    /\ val' = [val EXCEPT ![r] = 0]
    /\ floor' = [floor EXCEPT ![r] = 0]
    /\ UNCHANGED <<dbVars, gen, acked, storeVars, key, stage, got, lockVars>>

-----------------------------------------------------------------------------
(* Writes: commit, read the row back, invalidate, answer. *)

Commit(x) ==
    /\ wpc[x] = "idle"
    /\ db < MaxWrites
    /\ db' = db + 1
    /\ wpc' = [wpc EXCEPT ![x] = "committed"]
    /\ wnum' = [wnum EXCEPT ![x] = db + 1]
    /\ UNCHANGED <<gen, acked, storeVars, pc, key, stage, got, val, lockVars, floor>>

Done(x) ==
    /\ wpc' = [wpc EXCEPT ![x] = "idle"]
    /\ wnum' = [wnum EXCEPT ![x] = 0]

\* The committed row cannot be read back: the client gets an error.
ReadBackFails(x) ==
    /\ wpc[x] = "committed"
    /\ Done(x)
    /\ UNCHANGED <<db, gen, acked, storeVars, pc, key, stage, got, val, lockVars, floor>>

Later(m, n) == IF m < n THEN n ELSE m

\* Faulty: the counter is left alone.
InvalidateNothing(x) ==
    /\ wpc[x] = "committed"
    /\ acked' = [acked EXCEPT ![Counter(Host[x])] = Later(@, wnum[x])]
    /\ Done(x)
    /\ UNCHANGED <<db, gen, storeVars, pc, key, stage, got, val, lockVars, floor>>

Invalidate(x) ==
    LET n == Counter(Host[x]) IN
    /\ wpc[x] = "committed"
    /\ gen[n] < MaxWrites
    /\ gen' = [gen EXCEPT ![n] = @ + 1]
    /\ acked' = [acked EXCEPT ![n] = Later(@, wnum[x])]
    /\ Done(x)
    /\ UNCHANGED <<db, storeVars, pc, key, stage, got, val, lockVars, floor>>

\* Redis fails, before or after it counted: the write is answered all the same,
\* or refused when the cache fails closed.
InvalidateFails(x) ==
    LET n == Counter(Host[x]) IN
    /\ wpc[x] = "committed" /\ Remote
    /\ Done(x)
    /\ \/ UNCHANGED gen
       \/ gen[n] < MaxWrites /\ gen' = [gen EXCEPT ![n] = @ + 1]
    /\ UNCHANGED <<db, acked, storeVars, pc, key, stage, got, val, lockVars, floor>>

-----------------------------------------------------------------------------
(* Time: entries turn stale and vanish. *)

\* An entry outlives its freshness only where stale ones are served.
Aged(e) == {None} \cup IF StaleServed THEN {[e EXCEPT !.fresh = FALSE]} ELSE {}

Age ==
    /\ \/ \E w \in Worker, k \in Key :
            /\ local[w][k] # None
            /\ \E e \in Aged(local[w][k]) : local' = [local EXCEPT ![w][k] = e]
            /\ UNCHANGED shared
       \/ \E k \in Key :
            /\ shared[k] # None
            /\ \E e \in Aged(shared[k]) : shared' = [shared EXCEPT ![k] = e]
            /\ UNCHANGED local
    /\ UNCHANGED <<dbVars, gen, acked, pc, key, stage, got, val, lockVars, floor>>

-----------------------------------------------------------------------------
Init ==
    /\ db = 0
    /\ gen = [n \in Node |-> 0] /\ acked = [n \in Node |-> 0]
    /\ local = [w \in Worker |-> [k \in Key |-> None]]
    /\ shared = [k \in Key |-> None]
    /\ pc = [t \in Task |-> "idle"]
    /\ key = [t \in Task |-> None]
    /\ stage = [t \in Task |-> "first"]
    /\ got = [t \in Task |-> None]
    /\ val = [t \in Task |-> 0]
    /\ lockOf = [t \in Task |-> None]
    /\ registry = [w \in Worker |-> [k \in Key |-> Idle]]
    /\ refreshing = [w \in Worker |-> {}]
    /\ floor = [r \in Request |-> 0]
    /\ wpc = [x \in Writer |-> "idle"] /\ wnum = [x \in Writer |-> 0]

TaskStep(t) ==
    \/ Look(t) \/ Fetch(t) \/ FetchFails(t) \/ Reply(t)
    \/ StartRefresh(t) \/ Acquire(t) \/ LockRemote(t)
    \/ Load(t) \/ LoadFails(t) \/ Store(t) \/ Push(t) \/ PushFails(t)

RequestStep(r) == Begin(r) \/ MakeKey(r) \/ KeyFails(r) \/ Answer(r)

WriterStep(x) == Commit(x) \/ ReadBackFails(x) \/ Invalidate(x) \/ InvalidateFails(x)

Next ==
    \/ \E t \in Task : TaskStep(t)
    \/ \E r \in Request : RequestStep(r)
    \/ \E x \in Writer : WriterStep(x)
    \/ Age

Spec == Init /\ [][Next]_vars

-----------------------------------------------------------------------------
(* Invariants. *)

PC == {"idle", "key", "start", "get", "remote", "reply", "wait", "dlock", "load", "store",
       "push", "done", "error"}

StoreTypeOK ==
    /\ db \in Nat
    /\ gen \in [Node -> Key] /\ acked \in [Node -> Nat]
    /\ local \in [Worker -> [Key -> Entry \cup {None}]]
    /\ shared \in [Key -> Entry \cup {None}]
    /\ got \in [Task -> Entry \cup {None}]
    /\ floor \in [Request -> Nat]
    /\ wpc \in [Writer -> {"idle", "committed"}] /\ wnum \in [Writer -> Nat]

TaskTypeOK ==
    /\ pc \in [Task -> PC]
    /\ key \in [Task -> Key \cup {None}]
    /\ stage \in [Task -> {"first", "locked", "again"}]
    /\ val \in [Task -> Nat]
    /\ lockOf \in [Task -> Task \cup {None}]
    /\ registry \in [Worker -> [Key -> [lock : Task \cup {None}, users : Nat]]]
    /\ refreshing \in [Worker -> SUBSET Key]

\* Every variable ranges over its type; a lock never has less than no users.
TypeOK == StoreTypeOK /\ TaskTypeOK

\* A read that began after a write was acknowledged and its namespace was
\* invalidated never answers with a value that misses this write, whatever
\* other reads, background refreshes and slow answers of Redis fill in between
\* ("Mutation paths invalidate the resource namespace").
ReadsFollowWrites == \A r \in Request : pc[r] = "done" => val[r] >= floor[r]

Loading(t) == pc[t] \in {"load", "store", "push"} /\ key[t] # None

\* "Cache single-flight reduces stampedes": one worker never loads one key
\* twice at the same time, foreground reads and refreshes together.
SingleFlight ==
    \A t, u \in Task :
        (t # u /\ Loading(t) /\ Loading(u) /\ On(t) = On(u)) => key[t] # key[u]

\* "The registry contains only keys currently participating in a load": its
\* users are counted exactly, and they all share its lock.
RegistryIsExact ==
    \A w \in Worker, k \in Key :
        /\ registry[w][k].users = Cardinality(Users(w, k))
        /\ \A t \in Users(w, k) : lockOf[t] = registry[w][k].lock

\* The key of a refresh is registered as long as the refresh runs and no
\* longer: a lost one would never be refreshed again, however stale.
RefreshIsTracked ==
    \A w \in Worker, k \in Key : k \in refreshing[w] <=> pc[<<w, k>>] # "idle"

\* "Mutation paths invalidate the resource namespace": when no write is under
\* way, each committed write was acknowledged with a new generation.
MutationsInvalidate ==
    (\A x \in Writer : wpc[x] = "idle") => \A x \in Writer : acked[Counter(Host[x])] = db

-----------------------------------------------------------------------------
(* The mapping under which the cache implements FreshReads. *)

Fresh == INSTANCE FreshReads WITH
    Keeper <- Node,
    Reader <- Request,
    KeeperOf <- [r \in Request |-> Counter(Host[r])],
    Nothing <- None,
    committed <- db,
    known <- acked,
    since <- [r \in Request |-> IF pc[r] = "idle" THEN None ELSE floor[r]],
    answer <- [r \in Request |-> IF pc[r] = "done" THEN val[r] ELSE None]

\* A cached resource is as fresh as FreshReads promises: the read-through, the
\* stale answers, the refreshes and the faults of Redis add no other outcome.
ImplementsFreshReads == Fresh!Spec

-----------------------------------------------------------------------------
(* Liveness.  Awaits of the event loop end, Redis and the database answer or *)
(* fail, and an asyncio lock is granted in the order it was asked for.       *)

Fairness ==
    \A t \in Task :
        /\ WF_vars(TaskStep(t))
        /\ SF_vars(Acquire(t))
        /\ t \in Request => WF_vars(MakeKey(t) \/ KeyFails(t))

FairSpec == Spec /\ Fairness

\* Every read is answered: nobody waits for a lock that was dropped or leaked.
ReadsEnd == \A r \in Request : (pc[r] = "key") ~> (pc[r] \in {"done", "error"})

\* Every background refresh ends, so that the next one can start.
RefreshesEnd == \A t \in Refresh : (pc[t] = "start") ~> (pc[t] = "idle")

=============================================================================
