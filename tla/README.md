# JSON API Forge in TLA+

JSON API Forge (v0.5.1) turns directories of JSON files into HTTP APIs: one
FastAPI process per worker, an asyncio event loop in each, SQL databases behind
SQLAlchemy, and optionally Redis and MongoDB shared by the workers. This
directory holds TLA+ models of the parts of it where the order of events
matters, the TLC configurations that check them and TLAPS proofs of the results
that matter most. Line numbers below are those of the sources under
`src/framework/`.

    tlc -workers 2 -config MCServices.cfg MCServices # model-check an instance
    tlapm ReloadProofs.tla                           # check the proofs

## 1. The system

| Part | State it keeps | Operations | Talks to |
|---|---|---|---|
| Live reload (`reload.py`) | generations (current, candidate, retired), the signature last seen, in-flight counts and idle events | watcher, `reload_now`, request dispatch, lifespan of a generation, shutdown | configuration loader, application factory, runtime manager |
| Runtime manager (`runtime.py`) | one runtime per project with its lease count, the projects a generation borrows | construct, `start`, `close` | database registry, cache, limiter, data sources, event hub (opened and closed together) |
| Cache (`cache.py`) | generation counters, entries in memory and Redis, key locks, refresh tasks | `make_key`, `get_or_set_json`, `invalidate_namespace` | Redis; called by the router |
| Project router (`routers/project.py`) | none | reads through the cache; writes that commit, then invalidate and publish | cache, crud, operations, events, rate limiter |
| SQL resources (`crud.py`, `responses.py`) | rows | list, read, create, update, delete, restore | database |
| SQL operations (`operations.py`) | idempotency ledger | `execute_operation`, `execute_idempotent_operation` | database |
| Editor identity (`editor_identity.py`) | users, memberships, invitations, sessions, login throttle, calls | founder bootstrap, sign-in, invite and accept, grant, revoke, call transactions | control database |
| Editor API (`editor_api.py`) | documents on disk with a digest, attachments, action limiter | optimistic document writes, project creation, call WebSocket | editor identity, files |
| Call client (`editor_call_client.py`) | peers of one browser | hello, offer, answer, hangup | call WebSocket |
| Editor database browser (`editor_database.py`) | none | read-only queries | database |
| Concurrency gate, request protection (`protection.py`) | active and waiting requests | enter, exit, limit, wait, reject | middleware of the factory |
| Rate limiters (`rate_limit.py`) | token buckets, overflow buckets | `allow` | Redis script |
| Audit writer (`audit.py`) | bounded queue, drop count, writer task | `enqueue`, batch, retry, close | database |
| Event hubs (`events.py`) | subscribers and their bounded queues, listeners | publish, subscribe | Redis |
| File data sources (`datasources.py`) | JSON files, asyncio and file locks | read, read-modify-write with atomic replacement | files, outbound HTTP |
| Outbound HTTP (`services/http_client.py`) | circuit per host, pools of connections | request with retries | remote services |
| Media (`media.py`) | files, asset rows, usage rows | reserve quota, store, deduplicate, delete | database, files |
| Credentials (`security.py`) | key rows and their cache, JWKS cache, bootstrap flag | authenticate, create, rotate, revoke, bootstrap | database, Redis |
| MongoDB resources (`mongo.py`) | documents | list, read, create, update, delete | MongoDB, cache |
| Database registry (`db.py`, `schema.py`) | engines, migrated tables | open all or roll back, close | databases |
| Application factory (`factory.py`, `hooks.py`, `observability.py`) | middleware and lifespan of a generation | build, start, close, time requests out | everything above |
| Configuration loader (`config.py`, `settings.py`) | none | load resiliently, quarantine conflicts | files |
| Validation, domain packs, CLI, WSGI bridge, TypeScript client | none shared between steps | | |

How they interact. A request reaches `ReloadingForge.__call__`, which pins the
current *generation* and counts the request in it. The generation's middleware
applies the concurrency gate, the limits and a timeout; the router of the project
runs the handler with the *runtime* of that project; a read goes through the
cache to the database, a write commits and then bumps the cache generation of its
namespace and publishes an event. Meanwhile the watcher may build the next
generation, which borrows the runtimes of unchanged projects under a *lease*, and
several worker processes share the databases, Redis, the configuration
directories and the data files.

### What is hard, and what makes each part correct

* **Reload.** Every `await` of `reload_now` is a window in which requests begin
  and end, files change, old generations close and the shutdown cancels the
  watcher. Correct means: a request never runs on a closed runtime; leases are
  counted exactly; nothing is leaked; a bad edit neither takes a running project
  down nor lets another project take its route; no edit is lost; generations
  drain in bounded number; the shutdown ends.
* **Cache.** The generation in a key is read before the value is loaded, a
  write commits before it invalidates, two writes may invalidate out of order,
  a slow answer of Redis may fill a worker's memory late, Redis may fail at each
  call. Correct means: a read never misses a write acknowledged before it began;
  a worker never loads one key twice at once; locks and refreshes are given back
  whatever fails.
* **Calls.** Signals of one call are exchanged through a database by workers
  that poll it. Correct means: a ticket opens one connection; nobody reads a
  signal addressed to somebody else, twice, or out of order; what was sent to a
  participant reaches it.
* **Operations.** A retried request must run once and be answered the same, while
  rows of the ledger expire and are swept by anyone; invalidations and hooks
  follow the commit outside its transaction.
* **Front door.** A request passes the checks, waits at the gate, runs its handler
  in a task of its own and may be given up at every await. Correct means: the
  gate counts who is inside; no free slot goes unused while somebody waits;
  everybody is answered, once.
* **Documents, media, data sources.** A digest or a quota is checked and then
  relied on; a file and a row are written one after the other; two locks of
  different reach are taken, by threads that outlive their requests. Correct
  means: no mutation overwrites another unseen; what is on disk loads; a row has
  its file; the rows of an owner stay within the quota.
* **Identity and credentials.** Single use of invitations, tickets, the founder's
  claim and the bootstrap; authority that is withdrawn between a check and a
  commit; a session that is renewed while it is revoked; a key set older than
  the token it must verify.
* **Limiters, audit, events, outbound calls.** Bounded resources: a token, an
  event, a failure must not be lost or counted twice at a limit, under
  cancellation, or when a shared service fails.

`PROJECT.json` lists each of these hazards at its line, with the properties that
catch it or the reason why none does.

## 2. Modules

| Module | Models |
|---|---|
| `RuntimeManager` | `runtime.py`: construct, start, failed start and close of the runtimes of a generation, with leases |
| `Reload` (extends it) | `reload.py` composed with the runtime manager and what a reload sees of the loader |
| `ReloadInv`, `ReloadProofs` | inductive invariant of Reload; its proofs |
| `MCReload` | TLC instances |
| `Cache` | `cache.py` and the handlers of the router that read through it and invalidate it |
| `FreshReads` | abstract: what a cached resource promises |
| `CacheInv`, `CacheProofs` | inductive invariant and refinement mapping of Cache; their proofs |
| `MCCache` | TLC instances |
| `Calls` | the call WebSocket of the Editor: tickets, participants, the signal table and one handler per connection, with the page it talks to |
| `SignalLog` | abstract: one numbered log and its readers |
| `CallsInv`, `CallsProofs` | inductive invariants and refinement mapping of Calls; their proofs |
| `MCCalls` | TLC instances |
| `Operations` | the ledger of idempotent SQL operations, its sweep and the handler that calls it |
| `OnceOnly` | abstract: what an idempotency key promises |
| `OperationsInv`, `OperationsProofs` | inductive invariants and refinement mapping of Operations; their proofs |
| `MCOperations` | TLC instances |
| `FrontDoor`, `FrontDoorProofs` | the middleware of a request: checks, concurrency gate, time-out, handler, audit; its proofs |
| `Forwarding` | the address a request is judged by, behind proxies |
| `RateLimit` | token buckets in memory and in Redis |
| `Audit` | the audit writer |
| `Events` | one event channel: both hubs and the endpoints of its clients |
| `Outbound` | calls of one host by two clients: validation, circuits, retries, connections |
| `DataFile` | mutations of one JSON file |
| `Media` | uploads, deletions, quota |
| `ApiKeys` | bootstrap credential, key cache, revocation |
| `Jwks` | the cached key set of an issuer |
| `Sessions` | founder, sign-in, sessions |
| `Members` | invitations, memberships, roles |
| `Documents` | saves and creation of editor projects |
| `GraphCheck` | the acceptance of a Forge graph |
| `Identity`, `IdentityProofs` | ApiKeys, Jwks, Sessions, Members and Forwarding side by side; their proofs |
| `Storage`, `StorageProofs` | DataFile, Media, Documents and GraphCheck side by side; their proofs |
| `Traffic`, `TrafficProofs` | RateLimit, Outbound, Events and Audit side by side; their proofs |
| `MCDocuments` | an instance of Documents |
| `MCServices`, `MCLive`, `MCCaches` | runs of several instances, one at a time |

`Identity`, `Storage` and `Traffic` instantiate each of their components with
constants and variables of its own (`Keys`, `Issuer`, `SignIns`, `Team`, `Hops`;
`Data`, `Shelf`, `Editor`, `Graph`; `Limiter`, `Calling`, `Hub`, `Trail`), assume
of the constants what the component's `ConstantsAreLegal` says, and name its
properties. The components share no state, so that nothing is said of their
product: the run `services` takes one of them at a time, and the theorems are
about the specification of each.

### 2.1 Reload and RuntimeManager

*Correspondence.* `rl` is the await at which the reloading coroutine is
suspended: `boot` and `booting` (constructor and `start`), `idle` (watcher
asleep), `prune` (walking `_retired`, `reload_now` 120-131), `scan` (reading the
signature), `load` (loading the configuration), `start` (`candidate.start()`),
`confirm` (the second signature), `discard` (`candidate.close()`), `dead`. Its
locals are `sig`, `cand`, `second`, `why`, `broken`, `todo`. One action is the
code between two awaits; `Load` for example builds the candidate, which runs the
constructor of its runtime manager (`Construct`). The runtime that generation *h*
created for application *a* is named `<<h, a>>`, `runtimeOf[g][a] = h` says that
*g* borrows it; `leases`, `leasedBy`, `toStart`, `toClose` follow `runtime.py`
93-166 project by project. `serving[q]` is the generation a request has pinned
(`__call__` 242-250); the in-flight count of a generation is the number of its
requests. `halt` is the progress of `close()` 106-115; `Shutdown` cancels the
watcher at whatever await it has reached, with the `except` and `finally` paths of that
await.

*Environment.* Files change at any moment (`Edit`), a scan or a load may raise,
a runtime may fail to open, requests begin and end at any time.

*Abstractions.* A signature is the number of edits so far: the scan compares
times and sizes and is taken to notice every edit. The content of an application
is a version, which claims one route, or does not parse. The services of one runtime are one
resource. A second operator-driven reload waits for the lock of the first one and is the
next `Call`. Debouncing only delays.

### 2.2 Cache

*Correspondence.* One namespace. A value is the number of writes it includes; a
key is the generation it was built from, as reads of other rows share nothing.
`pc[t]` is the await of a foreground read or of a background refresh
(`get_or_set_json` 281-293, `_load_locked` 237-268, `_refresh` 270-279):
`key` (reading the generation), `get` (memory) and `remote`, `reply` (Redis and
its answer on its way), `wait` (key lock), `dlock` (distributed lock), `load`,
`store` (memory), `push` (Redis). `registry` is `_locks` with its user counts
(152-177), `refreshing` is `_refreshing`. A write is `Commit`, then
`Invalidate`, `InvalidateFails` or `ReadBackFails` (`routers/project.py` 317-412 and
`crud.py` 295-366). `Backend` selects the memory, Redis or tiered store,
`FailOpen` what a failure of Redis does.

*Environment.* Redis fails at each call and a bump may fail after it counted;
an entry may turn stale or vanish at any time (`Age`), which covers every TTL
and size bound.

*Abstract specification.* `FreshReads` has only committed writes, what each
counter has acknowledged, and reads that answer with anything between what was
acknowledged when they began and what is committed now. `ImplementsFreshReads`
states that Cache implements it, under the mapping at the end of `Cache`. "Acknowledged"
means answered after a bump that succeeded; with `fail_open` a bump that failed
is answered too, and nothing is promised about it.

### 2.3 Calls

*Correspondence.* One call. `pc[c]` is the await of `call_socket`
(`editor_api.py` 1201-1326) at which the handler of connection *c* is: `new` and
`claim` (the select and the update of `consume_call_ticket`), `authorize`,
`join` and `joining` (`join_call` before its commit), `sequence`, `hello`,
`announce` (first signal), `loop` (receive), `sending` (a signal of the client),
`poll`, `hangup` and `hungup` (told to hang up: signal, then delete), `leave` and
`delete` (the `finally` clause), `gone`, `refused`. The tables are `used`,
`participants` with `stale`, and `signals` with `expired`; locals of a handler are
`mail` (the message it inserts), `cursor`, and `number` (its uncommitted row).
`client` and `out` are the page of `editor_call_client.py`: `closed`, `asking` (for the
camera), `ready`, `failed`, and the packets it has to send. `before[c]`
is history: the rows that were stored when *c* read its first cursor.

*Databases.* On SQLite a write transaction is one action and a new row gets the
number above the highest one that is left (`Post`; the column is an integer primary key without
AUTOINCREMENT). On PostgreSQL the number comes from a sequence when the row is
inserted (`Insert`) and the row is seen when it commits (`CommitPost`,
`CommitJoin`), so that rows may appear out of order.

*Environment.* A client hangs up, disconnects or sends at any time; a worker may
die, or a handler fail outside its `try` (`Abort`); signals with numbers up to
`MaxExpired` expire, oldest first; rows of handlers that ended turn stale at any time, those of living ones
only unless `Timely`.

*Abstractions.* A session description is its kind, and ICE candidates travel as answers do. Signals of other
calls would only keep numbers up. Limits of the socket are departures.

*Abstract specification.* `SignalLog` is a log to which rows are added behind
everything that was added or passed, and whose readers are handed each later
row meant for them once. `ImplementsSignalLog` states that on SQLite, while nothing
expires, `signals`, `cursor` and `got` are such a log.

### 2.4 Operations

*Correspondence.* One operation. `pc[r]` is where the handler of client *r* is
in `execute_idempotent_operation` (`operations.py` 261-354): `idle`, `sweep`
(select expired rows), `purge` (delete them by number), `forget` (delete the
expired row of its own key), `insert` (the unique row), `run` (the statements
and the update that completes the row), `commit`, `finish` (invalidations and answer,
`routers/project.py` 689-700), `lookup` (the answer after an `IntegrityError`).
`rows` is the committed ledger; `doomed[r]` and `draft[r]` are what the open
transaction of *r* has deleted and inserted; `start[r]` is `now` of the code, from
which the cutoff is computed. `last[k]` is history, the latest run of a key.
A client repeats its request after any outcome.

*Databases.* On SQLite a transaction begins with its first write, which takes
the lock that `writer` holds: the select of the sweep runs before, and an inserted
row gets the number above the highest one left. On PostgreSQL (read committed) a
statement waits for a transaction that has deleted the row it wants to delete (`Unlocked`) or
holds the key it inserts (`Undisputed`), and a sequence never repeats a number: the
model gives one that no row has and no sweep remembers, which is all that can be
told of it.

*Environment.* The throttle and the batch of the sweep let it select any of the
expired rows. `Fail` is every way to leave early: a refused row count or size, an
error, a deadlock broken by the database, a timeout, a dead worker; the transaction is rolled back.
A statement may violate a constraint of its own (`ExecuteConflicts`), which the code takes for a lost
race.

*Abstractions.* Statements are their result. Clocks of the workers agree; time
passes at any moment. The answer "still in progress" needs a committed
`pending` row, which no transaction leaves.

*Abstract specification.* `OnceOnly` lets a key run again only when its latest run lies more
than the retention time back, and every other answer is that of the latest run, which
had the same input. `ImplementsOnceOnly` states that the ledger of PostgreSQL
implements it.

### 2.5 FrontDoor

*Correspondence.* `stage[r]` is where the middleware `protection_and_context`
(`factory.py` 262-368) is with request *r*: `new`, `preauth` (the limit before
authentication), `gate`, `waiting` (in `Condition.wait`), `inside`, `leaving`
(the answer is known, `__aexit__` has not run), `answered`. `handler[r]` is the
task that Starlette's `call_next` starts: body, authentication, work, stream.
`active` is `_active`; `queue` and `notified` are the waiters of the condition,
as `notify(1)` takes the first one and it runs later. `TimeOut` gives a request up
and frees its slot while `handler[r]` goes on: the gate bounds requests, not handlers.

*External.* What `Condition.wait` does with a notification whose waiter is cancelled
depends on Python: `Renotifies` (3.13, the image of the Dockerfile) passes it to another waiter. Under
`FALSE` (3.10 to 3.12) `NoSlotIsWasted` fails: a waiter that times out with a
notification in hand leaves a slot unused until the next request leaves.

### 2.6 Forwarding, RateLimit

`Forwarding`: a client writes a header, each proxy appends who called it
(external), and `ClientIp` walks the chain from its end (`protection.py` 47-84).

`RateLimit`: one pair of limits. `buckets` and `overflow` are the tables of
`MemoryRateLimiter`, cleaned at `nextCleanup` as the first step of a check, or the keys of
Redis with their expiry. `ideal` is history: what each identity would hold in a
table without bounds, charged for what passed. Tokens are scaled by the window to stay integral.

### 2.7 Audit, Events

`Audit`: `writer` is the await of `_run` (`audit.py` 103-131), `batch` and
`attempt` its locals, `unfinished` what `Queue.join` waits for, `closing` the
progress of `close` with its time-out and cancellation. `dropped` counts by event, so that one
that is counted twice is seen; a write may fail after it took effect.

`Events`: one channel on one worker. `members` are `_subscribers` and
`_websockets`, `queue` and `hand` what waits for a client and what its sender
sends, `listener` and `wire` the Redis listener and what it has not read.
`offered` is history. `Heartbeat` is the time-out of `wait_for` around `anext`
(`routers/project.py` 942) with what cancellation does to the generator; `Break`
is the end of the stream that follows.

### 2.8 Outbound, DataFile, Media

`Outbound`: the manager has two clients, one for the sources that may reach private
networks (`Trusting`) and one for all others (`datasources.py` 144); each has the
`CircuitState` of the host (`failures`, `openedAt`) and a pool of connections kept
alive (`kept`). `stage`, `attempt`, `began` are of a call in
`ResilientHTTPClient.request` (`services/http_client.py` 162-210). An attempt takes a
kept connection (`Reuse`) or opens one: `Resolve` resolves the name anew, to any
addresses, and refuses them all where one is blocked, and `Dial` tries one after
another; `via[c]` is the address the request is sent to. Whether a connection is kept after
an answer is the choice of httpx; the limits of the pool only make it wait or
open anew and are left out. What a source demands of its URL apart from its addresses is checked once and left out.

`DataFile`: `lock` is the asyncio lock of a worker, `fileLock` the lock file,
`thread` the thread in `_mutate_file_sync` (`datasources.py` 189-231), which goes on when
its request is cancelled. `expected` is history: the mutations applied in the order of their replacements.

`Media`: `files`, `rows` and `used` are the store, the asset table and the usage
row of an owner. An upload stores its file, looks for a duplicate, sums and
creates the usage row when there is none, reserves, and inserts its row; a failure of
the last step, or of its answer, removes the file (`routers/project.py`). A quota that is switched off
and on again leaves a stale usage row, and a deletion between the sum and the insertion leaves one that is too
high; both are on the safe side of the quota, which is all `QuotaHolds` asks.

### 2.9 ApiKeys, Jwks

`ApiKeys`: `mint[k]` is a request that mints key *k* with the bootstrap
credential; its transaction inserts the state row (`holder`), which others wait for, and commits or
fails. `stage[q]` is an authentication (`security.py` 363-428), which reads the row,
and stores what it read at a later step, after whatever `Revoke` and `Clear` did. `cache` is one per worker.

`Jwks`: a set of keys is its newest one; `have[t]` is the set that the
verification of token *t* works with, `looks` its calls of `_get_jwks`, `due` is
history. The lock and the fetch behind it are shared by all tokens of a worker.

### 2.10 Sessions, Members

`Sessions`: `row[s]` is the session row, `seen[q]` the one an authentication has
read before it renews it (`editor_identity.py` 695-723). Time is a counter; 60 seconds
(`Touch`) are two ticks. With `editor_session_idle_seconds` at its minimum of 60 a session in use
ends all the same, as it is not renewed earlier; and one opened by a sign-in that
raced a disabling is usable again once the member is enabled. Neither is promised otherwise.

`Members`: requests resolve the access of their caller (`Begin`) and run their
transaction later. An acceptance reads the creator, its access and the role in
three steps (`ReadCreator`, `ReadAccess`, `ReadGiven`) and any other request may
come between them. The checks of a change, on which no property rests, are one step, and so
are what a transaction writes and its commit. On PostgreSQL this leaves out the
invitation that is committed between the update that revokes the pending ones and its
commit, and outlives it; an acceptance that read before that commit is like one that
came first. A role is a rank and a set of grants; `print[i]` stands for the
fingerprint stored with an invitation.

### 2.11 Documents, GraphCheck

`Documents`: `stage[q]` is the await or the step of `write_document` and
`create_project` (`editor_api.py` 476-606). `lock` is `_write_lock` of a worker,
`fileLock` the lock file of the project, `thread` the executor thread that acquired it:
`filelock` keeps its state by thread, so that `Release` in another one frees
nothing. `Loads` is the set of contents with which the project loads, any
set the start is in.

`GraphCheck`: `_validate_graph_document` (209-312), by the relations between
nodes and edges; every order of the elimination.

## 3. Runs

| Run | Question | Instance |
|---|---|---|
| `reload` | Do bad edits and route conflicts leave running projects alone, is no runtime leaked or closed under a request? | 2 applications, 2 versions with different routes, any content incl. malformed and missing, 3 generations, 2 requests, 1 edit (340,000 states) |
| `reload_live` | Is no edit missed, do edits settle, shutdowns end? | 1 application, 5 generations, 1 request, 2 edits |
| `cache` | Fresh reads and single flight within a worker, and the refinement of `FreshReads` across workers | *memory*: 1 worker, 2 reads and their refreshes, 1 write, stale answers (438,000 states); *tiered*: 2 workers, a Redis that fails, 2 reads, 1 write (334,000 states) |
| `cache_readback` | Is every committed write invalidated? (no) | 1 worker, 1 write |
| `calls_sqlite` | Does one side offer, is the log read without gaps, and does everything arrive, on SQLite? | 2 connections, 1 signal per page, rows stale at any time |
| `calls_postgres` | Does a ticket open one connection, and are signals delivered once and in order when commits are not? | 2 connections with one ticket or their own, 1 signal per page, the first signal may expire |
| `calls_expiry` | Are signals delivered across the expiry of others? (no) | 2 connections, SQLite, signals expire |
| `operations_sqlite` | Does a committed run keep its row on SQLite? (no) | 2 clients with keys of their own, 4 ticks |
| `services` | The safety of the small components, and of Operations on PostgreSQL | see below |
| `live` | Are requests answered, reads ended, audit events settled; is the gate exact? | *door*, *rejecting*: 3 requests, a gate of one slot that waits or rejects; *cache*: 2 reads of one worker, tiered; *audit*: 3 events, a queue and batches of two, one retry |
| `event_stream` | Does a connected SSE client stay subscribed? (no) | 1 SSE and 1 socket client |
| `document_lock` | Is the lock of a project given back? (no) | 2 saves in 1 worker, 2 threads |

*Runs of several instances.* Components that share no state are run one at a time
in one state space: `part` is chosen initially and says which instance takes
steps, the others keep one initial state. States add up and do not multiply, each instance
behaves as in a run of its own, and a property speaks of the instance that runs. Such a run
instantiates the module that declares the constants and never one that extends
it: TLC evaluates definitions without variables once, and would take those of an
extended module with the constants of the run instead of those of the instance.

*The instances of `services`* (about 1.2 million states). *operations*: 3
clients, 2 keys, 2 inputs, 1 tick, which is one expiry. *keys*: 2 minting requests, 2 authentications
on one worker, a revocation. *issuer*: tokens of three keys that are published
one after the other. *signIns*: 2 set-ups, 2 clients of one session that is renewed after two
ticks, idle after four and over after six. *team*: an invitation that is
accepted twice, a change of its creator, two rewrites of roles. *hops*: 2
clients, one denied, 2 trusted proxies. *data*: a creation, an update, a
deletion and a replacement in 2 workers. *shelf*: 3 uploads of 2 owners and 2
deletions under a quota of 2. *editor*: 3 saves of 2 documents and 2 creations in 2 workers, 2
threads. *graph*: every graph of up to 3 nodes, 2 inputs each, 4 edges.
*limiter*, *sharedLimiter*: 3 identities, a table of one bucket, a burst of two.
*calling*: 3 calls, one of them repeatable and one of a source that may reach
private networks, a public and a private address, circuits that open at two failures
for one tick. *hub*, *sharedHub*: an SSE client and two sockets with
queues and quotas of one, 2 events. *trail*: 3 events, a queue and batches of two, one retry.

*Bounds and why they suffice.* Three generations are the least with a current,
a draining and a candidate one; the drain bound of two is left to the proofs; `Gen` also bounds the number of builds, after which reloads stop being
enabled (`Fresh`), so that liveness has five. Two applications are the least that can contend for a route or be
split into a failing and an unchanged one. `MaxEdits` bounds `stamp`. In the
cache, two reads and a refresh are three users of one lock; one write gives two
generations, the old and the new key; invalidations of two writes out of order are left to the proofs. `MaxWrites` bounds the commits and the generation counter. Every property of Calls relates two
connections, so two suffice; the filter by addressee between three is left to the
proofs. Pages of one signal make the page limit bind. No counter of Calls needs a bound: a handler sends
finitely many signals, as its page does; `MaxExpired` keeps the run
over PostgreSQL small, in which only the first signal expires. In Operations two clients share a key with different inputs and a third
one sweeps their rows; with `Ttl` 0 one tick is a life, so that `MaxTime` 1 has a run, its
expiry and the next run of the same key. `MaxId` exceeds the numbers that rows, drafts and sweeps can hold at a time.
In the other modules each capacity (gate, queue, batch, table, circuit, quota)
is one or two and is contended by one actor more: three requests are one inside, one notified and one
queued; three identities are one bucket in the table and two that share the overflow. `MaxTime`
(RateLimit, Outbound, ApiKeys, Sessions) covers a refill, a reset or a life and the next one; `MaxKid`,
`MaxEvents`, `MaxOutages`, `MaxEdges`, `MaxForged` and `MaxHops` bound what the environment does.

Deadlock is checked in every run: `Halted` is the only final state of Reload,
Cache and Operations can always take another request, and the others may stop
(`Over`, `Finished`) only when nothing is left to do. Symmetry permutes requests, and is not
used in runs with temporal properties about single requests.

*Mutants.* Before each definition that a property depends on stands a faulty
variant, a plausible bug of that code. `PROJECT.json` pairs each property with
one; under it TLC finds the property violated.

### Fairness

*Reload.* The event loop runs every ready coroutine, so the coroutine of
`reload_now`, the boot, the close tasks of retired generations and the shutdown
are weakly fair; a scan is strongly fair, which says that a directory that can be
read again and again is eventually read (`ScanFails` may always compete). Every
request is taken to end: `close()` and the drain wait for requests without a
timeout, so nothing is promised otherwise. Edits and shutdown are not fair.

*Cache.* Awaits of tasks end, as database and Redis calls answer or raise;
`asyncio.Lock` wakes its waiters first in, first out, hence the strong fairness
of `Acquire`.

*Calls.* A handler is weakly fair: its statements return or raise, and its receive
times out after 200 ms. The page, departures and time are not fair.

*FrontDoor.* What the event loop and the timers do on their own (`Prompt`) is weakly fair: a
ready coroutine runs, a time-out fires. No handler is: a hanging one is given up.

*Audit.* The writer is weakly fair while it works, as a commit answers or raises,
and so are the time-out and the cancellation of `close`. Submissions and the shutdown are not.

## 4. Proofs

Every safety property that a passing run checks is also a theorem, for all values
of the constants that the named assumptions allow (of the cache, the refinement that the run checks
of the tiered backend is proved for all). The theorems have the form of their module:
`Spec => []Inv` or `Spec => [][A]_vars`, from an inductive invariant that TLC has
checked first on the instance of the run.

*Reload* (`ReloadProofs`, theorem `Invariance`). `LeasesCountHolders` is not
inductive: that a lease count reaches zero only with its last holder needs that
one generation never leases twice (`Disjoint`), that generations not built yet own
nothing (`UnusedIsBlank`), and that a disposed runtime was closing. That
requests are served by open runtimes needs that the generation that serves holds
a lease on all it uses (`Ready`, `Progress`), and for a candidate that whatever
it still has to start is its own or is held by the current generation
(`Startable`), which stays so as only a switch changes the current one and only
after the candidate started. `IInv` is their conjunction; each action has a lemma
`...Safe`. Cited from it: `TypeCorrect`, `LeasesCorrect`, `ServedCorrect`,
`BorrowedCorrect`. `DrainingCorrect` uses `DrainInv` (the retired list bounds what
is alive), `RoutesCorrect` uses `RoutesInv` (loader and ownership check produce
conflict-free configurations only).

`KeepersCorrect` (`NoOrphanRuntime`) rests on `KeepInv`: what a generation leases,
or is disposing of, is in its list of runtimes to close; a runtime that opens is
in the list of its own generation; only living and abandoned generations have such
a list. The hard step is a lease returned while another generation holds one: the
keeper then changes, and `LeasesCountHolders` names the next one. `EditsCorrect`
(`NoLostEdit`) rests on `EditInv`: a candidate whose signature is the present one
was built from the present files, application by application, or lists the
application as an issue and keeps what the current generation has.
`TakeoversCorrect` needs no more than `RoutesInv` and the ownership check in
`Build`: a switch is the only step that changes the current generation
(`OnlySwitchSwitches`), and to one that was built so.

*Cache* (`CacheProofs`, theorem `Invariance`). The heart is `Fit[n][k]`, the set of values that
may be stored under key *k* of counter *n*: at least what was acknowledged when *k* was
the current key, and at least what any read using *k* relies on. All entries
(`KeptFit`) and all values carried by tasks (`CarriedFit`) fit; a bump makes the
constraint of the old key vanish rather than break, which is why a late store
under an old key is harmless. Cited from it: `TypeCorrect`, `ReadsCorrect`, `RefreshesCorrect`, and
`Refines`, the refinement of `FreshReads` step by step, for every backend.

`SingleFlightCorrect` rests on a second invariant, `LockInv`: a task is registered for the
lock of its key from the moment it waits until it leaves (`Registered`), the
registry counts exactly the registered tasks and they share its lock
(`RegistryIsExact`), and of those of one key all but one wait
(`OneHoldsTheLock`). Counting is what makes it inductive: the entry of a lock is
replaced only when the count, a cardinality, says that nobody shares it.

*Calls* (`CallsProofs`, theorem `Invariance`). `TicketOnce` holds because whoever
passed the update left its ticket `used` (`Spent`), for any number of connections. That one side offers needs that only
handlers past their join are listed or known as peers (`Entrants`). These and
`Control` (which locals are set at which await) make `IInv`, which holds on both
databases. On SQLite without expiry (`Serial`, `MaxExpired = 0`) `LogInv` adds that numbers are unique, a
cursor is zero or the number of a stored row, and nothing is skipped, also by handlers that have
ended; a new row then lies above every cursor, which is what `Refines` and
`LogCorrect` rest on. `DeliveriesCorrect` (`DeliveredInOrder`) holds on both databases, from the one fact that
the cursor of a handler has reached all its client was sent (`SentIsRead`). Without these two assumptions they are false: with
expiry as the run `calls_expiry` shows, and on PostgreSQL as a signal that commits after one
with a higher number was read stays behind the cursor.

*Operations* (`OperationsProofs`, theorem `Invariance` for both databases,
`LedgerInvariance` for PostgreSQL). That a sweep deletes nothing that lives needs that the
numbers it remembers belong to rows that are over, or to none (`SweptIsOver`), which stays so as new rows get
other numbers (`DraftsAreNew`). That a key does not run beside itself needs that whoever has inserted
its row has deleted every other row of the key, which no one else has (`DraftIsAlone`,
`DoomedIsOver`), and that deleted rows were over (`LatestRows`, `DraftIsLater`). `LedgerInv` is
their conjunction with `LedgerKeepsRuns` and `RunsAreApart`; `Refines` maps each action to
a step of `OnceOnly` or a stutter. On SQLite `SweptIsOver` fails, as the run
`operations_sqlite` shows.

*FrontDoor* (`FrontDoorProofs`). The counter is the number of requests inside
(`GateCorrect`). `SlotsCorrect` is the hard one: with `Renotifies`, whenever somebody is queued, `active` and the
notifications under way fill the limit. It needs that a notified waiter is a
waiting one, counted once (`WaitersCorrect`), so that a waiter that leaves with
a notification passes it on or nobody is queued. It is stated under that assumption only.

*Identity* (`IdentityProofs`). Of ApiKeys: at most one transaction holds the state
row, and none once it is consumed (`Holding`); consumed and minted go together
(`Minting`), hence `KeysBootstrapCorrect`. `KeysRevocationCorrect` needs only that an entry was stored
before its end by its time to live (`Keeping`), also an entry stored after the
cache was cleared. Of Jwks: `IssuerFound` needs to follow a token
through its second look: from then on what is cached, fetched or taken is no older
than the keys of the time when it began (`Fresh`), because the cache is empty
while somebody fetches (`Locking`). Of Sessions: `SignInsSettled` needs that a
request that may still open a session has none. Of Members: an accepted
invitation is used, and the update that consumes it sees it pending, hence
once (`TeamInvitationsCorrect`). That the creator still has the authority at the
commit (`TeamAuthorityCorrect`) is not an invariant of the acceptance alone: as
long as the invitation is pending, what an acceptance has read of its creator and
role stands (`Checked`, with `ReadStands`), because whoever changes them revokes the invitation in the
same step. Of Forwarding: past a
proxy the header holds the client, followed by trusted proxies only, which is
what the walk from its end passes over (`HopsJudged`).

*Storage* (`StorageProofs`). Of DataFile: who reads, writes or has replaced the
file holds its lock, so that what was read is still there when it is replaced
(`DataLossless`). Of Media: `ShelfQuotaCorrect` needs that the usage row of an owner is
never less than the bytes of its rows, and of the moment before there is one that the sum an upload
has taken is not less either (`Unused`); bytes are counted as the cardinality of a set,
so that the facts about finite sets apply. `ShelfFilesCorrect` needs that an upload keeps its file
until its row is there, and that a deletion whose row is gone is of a finished upload (`Working`).
Of Documents: among the saves of living workers the one past
its acquisition owns the file lock (`LockIsHeld`); so what it compared
(`ComparisonHolds`) and staged (`CopyLoads`) is still so when it replaces the
document. A lock that is not given back only makes this truer. `EditorCreationCorrect`
holds without the lock, as a directory can be published once. Of GraphCheck:
`GraphDecided` says that a graph of any size is accepted if and only if no set of its nodes
loops, that is, has in each node an edge from the set; the invariant `Left` relates the counters of the
elimination to the set of nodes that have left: every loop keeps a node, and a
counter is the number of predecessors that remain.

*Traffic* (`TrafficProofs`). Of RateLimit: in a table without bounds a caller has
as many tokens as its bucket here, or a full one (`Dominated`); an evicted bucket was last used so long ago that the
refill alone fills it (`KeptUntilFull`), which is where rate, burst and the safe
idle time meet. Of Outbound: nothing under way passed the circuit in the future
(`Past`); what a public call may still dial and what the pool of its client keeps
is public (`PublicPool`), hence `CallingConnectionsCorrect`. Of Events: what was sent, held and queued for a client is one ascending
line, and the wire is ahead of all lines (`LinesAscend`, `WireIsAhead`). Of Audit: an
event is in one place at a time, and was not counted while it waits (`OnePlace`,
`NotCounted`), except in the queue once the join of `close` is over.

*Assumptions.* The named ASSUMEs of Reload (`NoneIsNothing`, `GenIsFinite`,
`GenIsNotEmpty`, `ContentsAreFiles`, `ClaimsRoutes`, `MalformedIsNoVersion`,
`MaxEditsIsNat`), Cache (`BackendIsKnown`, `RedisIsNoWorker`, `HostIsWorker`,
`OptionsAreBoolean`, `MaxWritesIsNat`, `TasksDiffer`, `NoneIsNothing`), Calls
(`ConnIsFinite`, `TicketsAreGiven`, `DatabaseIsKnown`, `MaxExpiredIsNat`,
`TimelyIsBoolean`, `BatchIsPositive`, `NoneIsNothing`), Operations
(`KeysAreGiven`, `DatabaseIsKnown`, `BoundsAreNat`, `NoneIsNothing`) and
FrontDoor (`RequestsAreFinite`, `LimitIsPositive`, `SwitchesAreBoolean`), which
TLC evaluates in their runs. `Identity`, `Storage` and `Traffic` assume `ConstantsAreLegal` of
each of their components, which TLC evaluates in the run `services`. The theorems of
Operations about the ledger are for PostgreSQL (`~Serial`), those of Calls about the log for
SQLite without expiry, `SlotsCorrect` for `Renotifies`; where the hypothesis fails
a run shows that the conclusion does, or section 2 says so.

*Proved, and checked by no run*: `BorrowedStillOpen`, `DrainingIsBounded`,
`RefreshIsTracked`, `RegistryIsExact`, `WaitersAreTracked`, `RevocationIsBounded`, `CreatedOnce`,
and the type invariants.

*Only model-checked.* All liveness (`EditsSettle`, `ShutdownEnds`, `ReadsEnd`,
`SignalsArrive`, `AllAnswered`, `EventsAreSettled`): the provers have no rule for fairness, as they cannot
expand ENABLED.

## 5. Where code and documents differ

* `MutationsInvalidate` (run `cache_readback`): an update that committed but whose
  row cannot be read back answers with an error and skips the invalidation
  (`crud.py` 343-349); docs/03-Performance-and-Cache.md:5.
* `NoSignalSkipped` (run `calls_expiry`): SQLite numbers start again when all
  signals have expired and been deleted (`editor_identity.py` 1540), below the cursors of the participants;
  docs/42-Editor-Control-Plane.md:73.
* `LedgerKeepsRuns` (run `operations_sqlite`): on SQLite a sweep selects numbers of expired
  rows outside the write lock and deletes them later (`operations.py` 274-291); if another request
  has deleted those rows and committed a run under one of the numbers in between, the fresh row goes
  and a retry runs again; docs/17-Transactions-Idempotency-and-Consistency.md:5.
* `StreamsStaySubscribed` (run `event_stream`): the time-out of a heartbeat cancels the
  generator of the subscription (`routers/project.py` 942, `events.py` 63), so that an SSE
  stream that was silent for 15 seconds gets no event any more and breaks off; docs/cPanelGuide.md:18.
* `LockIsGivenBack` (run `document_lock`): the file lock of a project is acquired in
  one thread and may be released in another (`editor_api.py` 398 and 547), where
  `filelock` finds nothing to release; the project then stays busy until the
  worker ends; docs/42-Editor-Control-Plane.md:79.

Noted without a run, as no document promises otherwise: the gate frees the slot of a
request whose handler goes on after its time-out (`factory.py` 325), while
docs/40-Rate-Limiting-Overload-and-High-RPS.md:7 speaks of bounding in-flight work; a row of a revoked key can be cached
after the cache was cleared (`security.py` 398), for one time to live, the window
that KNOWN_LIMITATIONS.md:5 concedes to other workers; and the items under Sessions and Media in section 2.

## 6. Plan

What remains worth doing, in this order.

1. Operations composed with Cache: a worker that stops between the commit of an
   idempotent operation and its invalidations (`routers/project.py` 689).
2. The sign-in throttle (`editor_identity.py` 624) and attachments (`editor_api.py`).
3. Pure algorithms against reference definitions: cursor pagination with null
   fields (`crud.py`), delegation of permissions (`security.py`).
4. A proof of `SwitchKeepsAppsUp` of Reload, that a switch takes a running
   application down only if its directory is gone: it needs, beside `IInv`, where the runtimes of a
   candidate come from until the switch.

Questions no run asks: an edit between the load and the signature of
the boot (`reload.py` 78); a shutdown while the watcher awaits `candidate.close()` (`reload.py` 177);
signals that commit in another order than their numbers (`editor_identity.py` 1561), which a cursor passes over on
PostgreSQL; a replay of an expired row after a statement violated a constraint
(`operations.py` 331); a channel whose Redis listener died and that no publisher or new client revives.

## 7. Not modelled

Functions of one request without state (validation, safe expressions, claims and
permissions, the building of statements), schema reflection, read-only browsing, domain packs, one-shot
commands, the WSGI adapter and the generated client have nothing a model checker would add. What each
partly modelled component lacks is said in the `note` of its entry in `PROJECT.json`.
