----------------------------- MODULE RateLimit -----------------------------
(***************************************************************************)
(* The token buckets of rate_limit.py: the bounded table of one worker,    *)
(* with its clean-up and its overflow buckets, or the keys of Redis, which *)
(* expire.  A check does not await while it holds the lock, and the script *)
(* of Redis is atomic: each is one step.                                   *)
(*                                                                         *)
(* Tokens are counted in units of which a request costs Window, so that    *)
(* the refill of a tick is Rate units.                                     *)
(***************************************************************************)
EXTENDS Integers, FiniteSets

CONSTANTS
    Identity,
    Shared,           \* TRUE: RedisRateLimiter, FALSE: MemoryRateLimiter
    Rate, Window,     \* limit and window_seconds
    Burst,            \* burst or limit
    IdleTtl,          \* idle_ttl_seconds
    CleanupInterval,  \* cleanup_interval_seconds
    MaxBuckets,       \* max_buckets
    MaxTime           \* bound: ticks

\* What the constants must be.
ConstantsAreLegal ==
    /\ {Rate, Window, Burst, CleanupInterval, MaxBuckets, MaxTime} \subseteq Nat \ {0}
    /\ IdleTtl \in Nat

VARIABLES
    now,
    buckets,      \* the buckets in the table, or the keys of Redis
    overflow,     \* the overflow bucket of these limits, if there is one
    nextCleanup,
    ideal         \* what every identity would hold in a table without bounds

vars == <<now, buckets, overflow, nextCleanup, ideal>>

Capacity == Burst * Window
Ceil(a, b) == (a + b - 1) \div b
Least(a, b) == IF a < b THEN a ELSE b

FaultySafeIdle == IF Shared THEN Window ELSE IdleTtl

\* How long an unused bucket is kept: until it is full again, at least.
SafeIdle ==
    LET refilled == Ceil(Capacity, Rate)
    IN IF Shared THEN refilled + Window
       ELSE IF IdleTtl > refilled THEN IdleTtl ELSE refilled

Fresh == [tokens |-> Capacity, updated |-> now, safe |-> now + SafeIdle]

\* The bucket as it is now, before the request is taken from it.
Refilled(b) ==
    [tokens |-> Least(Capacity, b.tokens + (now - b.updated) * Rate),
     updated |-> now, safe |-> now + SafeIdle]

Passes(b) == b.tokens >= Window
Charged(b) == IF Passes(b) THEN [b EXCEPT !.tokens = @ - Window] ELSE b

Init ==
    /\ now = 0
    /\ buckets = <<>>
    /\ overflow = <<>>
    /\ nextCleanup = CleanupInterval
    /\ ideal = [i \in Identity |-> [tokens |-> Capacity, updated |-> 0]]

Keep(t, S) == [i \in S |-> t[i]]

\* _cleanup_locked: only once in an interval.
Cleaned ==
    IF now < nextCleanup THEN buckets
    ELSE Keep(buckets, {i \in DOMAIN buckets : buckets[i].safe > now})

IdealNow(i) == Least(Capacity, ideal[i].tokens + (now - ideal[i].updated) * Rate)

Charge(i, b) ==
    ideal' = IF Passes(b) THEN [ideal EXCEPT ![i] = [tokens |-> IdealNow(i) - Window, updated |-> now]]
                          ELSE ideal

Put(t, i, b) == [j \in DOMAIN t \cup {i} |-> IF j = i THEN b ELSE t[j]]

\* A check that finds or makes a bucket of its own.
CheckOwn(i) ==
    LET t == IF Shared THEN buckets ELSE Cleaned
        b == Refilled(IF i \in DOMAIN t THEN t[i] ELSE Fresh)
    IN /\ i \in DOMAIN t \/ Shared \/ Cardinality(DOMAIN t) < MaxBuckets
       /\ buckets' = Put(t, i, Charged(b))
       /\ Charge(i, b)
       /\ UNCHANGED overflow

\* The table is full: new identities share the overflow bucket of their limits.
CheckOverflow(i) ==
    LET b == Refilled(IF overflow = <<>> THEN Fresh ELSE overflow[1])
    IN /\ ~Shared /\ i \notin DOMAIN Cleaned
       /\ Cardinality(DOMAIN Cleaned) >= MaxBuckets
       /\ buckets' = Cleaned
       /\ overflow' = <<Charged(b)>>
       /\ UNCHANGED ideal

Check(i) ==
    /\ CheckOwn(i) \/ CheckOverflow(i)
    /\ nextCleanup' = IF Shared \/ now < nextCleanup THEN nextCleanup ELSE now + CleanupInterval
    /\ UNCHANGED now

\* Redis expires a key.
Expire(i) ==
    /\ Shared /\ i \in DOMAIN buckets /\ buckets[i].safe <= now
    /\ buckets' = Keep(buckets, DOMAIN buckets \ {i})
    /\ UNCHANGED <<now, overflow, nextCleanup, ideal>>

Tick == now < MaxTime /\ now' = now + 1 /\ UNCHANGED <<buckets, overflow, nextCleanup, ideal>>

Next == (\E i \in Identity : Check(i) \/ Expire(i)) \/ Tick
Spec == Init /\ [][Next]_vars

-----------------------------------------------------------------------------
(* Properties. *)

\* To forget a bucket, by a clean-up, for room or by the expiry of its key,
\* gives nobody a token: a caller with a bucket of its own never gets more
\* than from a table without bounds.
EvictionGivesNothing == \A i \in Identity : ideal[i].tokens >= 0

-----------------------------------------------------------------------------
(* The inductive invariant behind the properties. *)

Bucket == [tokens : Nat, updated : Nat, safe : Nat]

TypeOK ==
    /\ now \in Nat
    /\ DOMAIN buckets \subseteq Identity
    /\ \A i \in DOMAIN buckets : buckets[i] \in Bucket
    /\ ideal \in [Identity -> [tokens : Nat, updated : Nat]]

\* A bucket is safe to forget once the refill since its last use could fill it.
KeptUntilFull ==
    \A i \in DOMAIN buckets : /\ buckets[i].updated <= now
                              /\ buckets[i].safe = buckets[i].updated + SafeIdle

\* The tokens of a bucket at this time, if there were no capacity.
Potential(b) == b.tokens + (now - b.updated) * Rate

\* In a table without bounds a caller has at least what its bucket holds, and a full
\* bucket if it has none here.
Dominated ==
    \A i \in Identity :
        \/ Potential(ideal[i]) >= Capacity
        \/ i \in DOMAIN buckets /\ Potential(ideal[i]) >= Potential(buckets[i])

IInv == TypeOK /\ KeptUntilFull /\ Dominated

=============================================================================
