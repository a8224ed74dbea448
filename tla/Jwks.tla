-------------------------------- MODULE Jwks --------------------------------
(***************************************************************************)
(* The signing keys of an external issuer on one worker: the cache of      *)
(* _get_jwks, its lock, and the second look at an unknown key.             *)
(*                                                                         *)
(* The issuer publishes its keys one after the other, and a set of keys is *)
(* known by its newest one.  An entry may expire at any time.              *)
(***************************************************************************)
EXTENDS Naturals

CONSTANTS
    Token,
    KidOf,        \* KidOf[t]: the key that signed a token
    MaxKid,       \* bound: keys published
    None

\* What the constants must be.
ConstantsAreLegal ==
    /\ MaxKid \in Nat \ {0} /\ None \notin Nat \cup Token
    /\ KidOf \in [Token -> 1..MaxKid]

VARIABLES
    published,    \* the newest key of the issuer
    cached,       \* the newest key of the cached set, or None
    lock,         \* who holds the lock of the cache entry
    stage,        \* where the verification of a token is
    have,         \* the newest key of the set it works with
    looks,        \* the calls of _get_jwks it has made
    due           \* the newest key when the verification began

vars == <<published, cached, lock, stage, have, looks, due>>

Init ==
    /\ published = 1 /\ cached = None /\ lock = None
    /\ stage = [t \in Token |-> "new"]
    /\ have = [t \in Token |-> None]
    /\ looks = [t \in Token |-> 0]
    /\ due = [t \in Token |-> None]

Moves(t, from, to) ==
    /\ stage[t] = from
    /\ stage' = [stage EXCEPT ![t] = to]

Take(t, k) == have' = [have EXCEPT ![t] = k]

Begin(t) ==
    /\ Moves(t, "new", "look")
    /\ due' = [due EXCEPT ![t] = published]
    /\ UNCHANGED <<published, cached, lock, have, looks>>

\* _get_jwks before its lock.
Look(t) ==
    /\ looks' = [looks EXCEPT ![t] = @ + 1]
    /\ IF cached # None THEN Moves(t, "look", "have") /\ Take(t, cached)
                        ELSE Moves(t, "look", "locking") /\ UNCHANGED have
    /\ UNCHANGED <<published, cached, lock, due>>

\* Behind the lock the cache is looked at again.
Lock(t) ==
    /\ lock = None
    /\ IF cached # None
       THEN Moves(t, "locking", "have") /\ Take(t, cached) /\ UNCHANGED lock
       ELSE Moves(t, "locking", "asking") /\ lock' = t /\ UNCHANGED have
    /\ UNCHANGED <<published, cached, looks, due>>

\* The issuer answers with what it publishes now; the answer is on its way.
IssuerAnswers(t) ==
    /\ Moves(t, "asking", "fetched")
    /\ Take(t, published)
    /\ UNCHANGED <<published, cached, lock, looks, due>>

Store(t) ==
    /\ Moves(t, "fetched", "have")
    /\ cached' = have[t]
    /\ lock' = None
    /\ UNCHANGED <<published, have, looks, due>>

\* The fetch fails, or its answer is no set of keys: 503.
FetchFails(t) ==
    /\ \E s \in {"asking", "fetched"} : Moves(t, s, "unavailable")
    /\ lock' = None
    /\ UNCHANGED <<published, cached, have, looks, due>>

FaultyDecide(t) ==
    /\ stage[t] = "have"
    /\ \/ KidOf[t] <= have[t] /\ Moves(t, "have", "verified")
       \/ KidOf[t] > have[t] /\ looks[t] = 1 /\ Moves(t, "have", "look")
       \/ KidOf[t] > have[t] /\ looks[t] = 2 /\ Moves(t, "have", "unknown")
    /\ UNCHANGED <<published, cached, lock, have, looks, due>>

\* _decode_jwks_token: an unknown key drops the entry and looks once more.
Decide(t) ==
    /\ \/ KidOf[t] <= have[t] /\ Moves(t, "have", "verified") /\ UNCHANGED cached
       \/ KidOf[t] > have[t] /\ looks[t] = 1 /\ Moves(t, "have", "look") /\ cached' = None
       \/ KidOf[t] > have[t] /\ looks[t] = 2 /\ Moves(t, "have", "unknown") /\ UNCHANGED cached
    /\ UNCHANGED <<published, lock, have, looks, due>>

Rotate ==
    /\ published < MaxKid
    /\ published' = published + 1
    /\ UNCHANGED <<cached, lock, stage, have, looks, due>>

Expire ==
    /\ cached # None
    /\ cached' = None
    /\ UNCHANGED <<published, lock, stage, have, looks, due>>

Finished ==
    /\ \A t \in Token : stage[t] \in {"verified", "unknown", "unavailable"}
    /\ UNCHANGED vars

Verify(t) ==
    \/ Begin(t) \/ Look(t) \/ Lock(t) \/ IssuerAnswers(t)
    \/ Store(t) \/ FetchFails(t) \/ (stage[t] = "have" /\ Decide(t))

Next == (\E t \in Token : Verify(t)) \/ Rotate \/ Expire \/ Finished
Spec == Init /\ [][Next]_vars

-----------------------------------------------------------------------------
(* Properties. *)

Fetching(t) == stage[t] \in {"asking", "fetched"}

\* A token whose key was published before its verification began is never
\* refused for an unknown key, though the sets of other verifications, older
\* than the key, are stored and read meanwhile; and one fetch runs at a time.
PublishedKeysAreFound ==
    /\ \A t \in Token : stage[t] = "unknown" => KidOf[t] > due[t]
    /\ \A t, u \in Token : Fetching(t) /\ Fetching(u) => t = u

-----------------------------------------------------------------------------
(* The inductive invariant behind the properties. *)

Stage == {"new", "look", "locking", "asking", "fetched", "have", "verified", "unknown",
          "unavailable"}

TypeInv ==
    /\ published \in Nat
    /\ cached \in Nat \cup {None}
    /\ lock \in Token \cup {None}
    /\ stage \in [Token -> Stage]
    /\ have \in [Token -> Nat \cup {None}]
    /\ looks \in [Token -> Nat]
    /\ due \in [Token -> Nat \cup {None}]

\* Who fetches holds the lock, and nothing is cached meanwhile.
Locking ==
    /\ \A t \in Token : Fetching(t) <=> lock = t
    /\ lock # None => cached = None

\* The set a token has fetched, or works with.
Holding(t) ==
    /\ stage[t] = "new" <=> due[t] = None
    /\ due[t] # None => due[t] <= published
    /\ stage[t] \in {"fetched", "have"} => have[t] # None

\* A token that has looked twice, or looks for the second time.
Again(t) ==
    \/ looks[t] = 1 /\ stage[t] = "look"
    \/ looks[t] = 2 /\ stage[t] \in {"locking", "asking", "fetched", "have"}

\* Once a token looks again, what is cached, on its way or taken is no older than the
\* keys of the time when it began.
Fresh(t) ==
    /\ Again(t) \/ stage[t] = "have" =>
           \A u \in Token : stage[u] = "fetched" => due[t] <= have[u]
    /\ Again(t) /\ cached # None => due[t] <= cached
    /\ looks[t] = 2 /\ stage[t] = "have" => due[t] <= have[t]

Looking(t) ==
    /\ stage[t] = "new" => looks[t] = 0
    /\ stage[t] = "look" => looks[t] \in {0, 1}
    /\ stage[t] \in {"locking", "asking", "fetched", "have"} => looks[t] \in {1, 2}

IInv ==
    /\ TypeInv
    /\ Locking
    /\ \A t \in Token : Holding(t) /\ Looking(t) /\ Fresh(t)
    /\ \A t \in Token : stage[t] = "unknown" => KidOf[t] > due[t]

=============================================================================
