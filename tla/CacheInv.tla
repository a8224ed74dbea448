------------------------------ MODULE CacheInv ------------------------------
(***************************************************************************)
(* The inductive invariant behind the theorems of CacheProofs.             *)
(***************************************************************************)
EXTENDS Cache

CounterOf(t) == Counter(On(t))

(* Values. *)

\* Fit[n][k]: the values that may be kept under key k of counter n.  They miss
\* nothing that was acknowledged when k became the current key, nor before a
\* read that uses k began.
Fit == [n \in Node |-> [k \in Key |->
    {v \in Nat :
        /\ k <= gen[n] /\ v <= db
        /\ k = gen[n] => acked[n] <= v
        /\ \A r \in Request : (CounterOf(r) = n /\ key[r] = k) => floor[r] <= v}]]

KeptFit ==
    /\ \A w \in Worker, k \in Key : local[w][k] # None => local[w][k].val \in Fit[Counter(w)][k]
    /\ \A k \in Key : shared[k] # None => shared[k].val \in Fit[Redis][k]

CarriedFit ==
    \A t \in Task :
        /\ got[t] # None => key[t] # None /\ got[t].val \in Fit[CounterOf(t)][key[t]]
        /\ pc[t] \in {"store", "push"} => val[t] \in Fit[CounterOf(t)][key[t]]

Bounds ==
    /\ \A n \in Node : acked[n] <= db
    /\ \A x \in Writer : wnum[x] <= db
    /\ \A r \in Request : floor[r] <= acked[CounterOf(r)]
    /\ \A t \in Task : key[t] # None => key[t] <= gen[CounterOf(t)]
    /\ \A r \in Request : pc[r] = "done" => val[r] \in floor[r] .. db

(* Tasks. *)

Control ==
    \A t \in Task :
        /\ pc[t] \in {"idle", "key", "done", "error"} => key[t] = None
        /\ key[t] = None => pc[t] \in {"idle", "key", "done", "error", "load"}
        /\ t \in Refresh => pc[t] \notin {"key", "done", "error"} /\ key[t] \in {None, t[2]}
        /\ t \in Refresh /\ pc[t] = "load" => key[t] # None
        /\ pc[t] \in {"remote", "reply", "dlock", "push"} => Remote
        /\ pc[t] # "reply" => got[t] = None
        /\ t \in Refresh /\ pc[t] \in {"get", "remote", "reply"} => stage[t] # "first"

\* A lock nobody uses is not in the registry.
IdleLocks ==
    \A w \in Worker, k \in Key : registry[w][k].users = 0 => registry[w][k].lock = None

IInv == RefreshIsTracked /\ IdleLocks /\ TypeOK /\ KeptFit /\ CarriedFit /\ Bounds /\ Control

(* The locks. *)

\* A task is registered for the lock of its key from the moment it waits for
\* the lock until it leaves.
Registered(t) ==
    /\ lockOf[t] # None => key[t] # None /\ (pc[t] = "wait" \/ stage[t] # "first")
    /\ (pc[t] \in {"wait", "dlock", "load", "store", "push"} \/ stage[t] # "first")
            => (key[t] # None => lockOf[t] # None)
    /\ stage[t] # "first" => key[t] # None /\ pc[t] # "start"

\* Of the tasks registered for one key of one worker all but one wait.
OneHoldsTheLock ==
    \A t, u \in Task :
        (/\ t # u /\ lockOf[t] # None /\ lockOf[u] # None
         /\ On(t) = On(u) /\ key[t] = key[u])
            => pc[t] = "wait" \/ pc[u] = "wait"

LockInv ==
    /\ \A t \in Task : Registered(t)
    /\ \A w \in Worker, k \in Key : IsFiniteSet(Users(w, k))
    /\ RegistryIsExact
    /\ OneHoldsTheLock

=============================================================================
