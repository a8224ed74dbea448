--------------------------- MODULE TrafficProofs ----------------------------
(* Proofs about the components of Traffic: the inductive invariant of each, which
   stands at the end of its module, and the properties it implies. *)
EXTENDS Traffic, SequenceTheorems, TLAPS

-----------------------------------------------------------------------------
(* RateLimit: buckets and evictions. *)

LEMMA LimiterRounding ==
  ASSUME NEW a \in Nat, NEW b \in Nat \ {0}
  PROVE  Limiter!Ceil(a, b) \in Nat /\ Limiter!Ceil(a, b) * b >= a
<1> DEFINE n == a + b - 1
<1>1. n \in Nat /\ n \div b \in Int /\ n % b \in 0..(b - 1)
  OBVIOUS
<1>2. n = b * (n \div b) + (n % b)
  OBVIOUS
<1> HIDE DEF n
<1> DEFINE q == n \div b
           r == n % b
<1>3. q \in Int /\ r \in 0..(b - 1) /\ n = b * q + r
  BY <1>1, <1>2
<1> HIDE DEF q, r
<1>4. n = a + b - 1
  BY DEF n
<1>5. b * q >= a
  BY <1>3, <1>4
<1>6. q >= 0
  <2> SUFFICES ASSUME q <= -1
               PROVE  FALSE
    BY <1>3
  <2>1. b * q <= -b
    BY <1>3
  <2> QED
    BY <1>3, <1>5, <2>1
<1>7. q * b = b * q /\ q \in Nat
  BY <1>3, <1>6
<1>8. Limiter!Ceil(a, b) = q
  BY DEF Limiter!Ceil, q, n
<1> QED
  BY <1>5, <1>7, <1>8

\* The refill of the time for which a bucket is kept fills it.
LEMMA LimiterIdleIsEnough ==
  ASSUME Limiter!ConstantsAreLegal
  PROVE  /\ Limiter!Capacity \in Nat /\ Limiter!SafeIdle \in Nat /\ Rate \in Nat
         /\ \A d \in Nat : d >= Limiter!SafeIdle => d * Rate >= Limiter!Capacity
<1>1. /\ Limiter!Capacity \in Nat /\ Rate \in Nat \ {0} /\ Window \in Nat
      /\ IdleTtl \in Nat
  BY DEF Limiter!ConstantsAreLegal, Limiter!Capacity
<1>2. Limiter!Ceil(Limiter!Capacity, Rate) \in Nat /\
          Limiter!Ceil(Limiter!Capacity, Rate) * Rate >= Limiter!Capacity
  BY <1>1, LimiterRounding
<1>3. Limiter!SafeIdle \in Nat /\ Limiter!SafeIdle >= Limiter!Ceil(Limiter!Capacity, Rate)
  BY <1>1, <1>2 DEF Limiter!SafeIdle
<1> DEFINE full == Limiter!Ceil(Limiter!Capacity, Rate)
<1>4. full \in Nat /\ full * Rate >= Limiter!Capacity /\ Limiter!SafeIdle >= full
  BY <1>2, <1>3
<1> HIDE DEF full
<1>5. ASSUME NEW d \in Nat, d >= Limiter!SafeIdle
      PROVE  d * Rate >= Limiter!Capacity
  <2>1. d >= full
    BY <1>3, <1>4, <1>5
  <2>2. d * Rate >= full * Rate
    BY <1>1, <1>4, <2>1
  <2> QED
    BY <1>1, <1>4, <2>2
<1> QED
  BY <1>1, <1>3, <1>5

\* The refill of a bucket at this time, by its potential.
LEMMA LimiterRefilling ==
  ASSUME Limiter!ConstantsAreLegal, rateNow \in Nat,
         NEW b, b.tokens \in Nat, b.updated \in Nat, b.updated <= rateNow
  PROVE  /\ Limiter!Potential(b) \in Nat
         /\ Limiter!Refilled(b) \in Limiter!Bucket
         /\ Limiter!Refilled(b).updated = rateNow /\ Limiter!Refilled(b).safe =
                rateNow + Limiter!SafeIdle
         /\ Limiter!Refilled(b).tokens = Limiter!Least(Limiter!Capacity, Limiter!Potential(b))
<1>1. Limiter!Capacity \in Nat /\ Limiter!SafeIdle \in Nat /\ Rate \in Nat
  BY LimiterIdleIsEnough
<1>2. (rateNow - b.updated) * Rate \in Nat
  <2>1. rateNow - b.updated \in Nat
    OBVIOUS
  <2> QED
    BY <1>1, <2>1
<1>3. Limiter!Potential(b) \in Nat
  BY <1>2 DEF Limiter!Potential
<1>4. Limiter!Least(Limiter!Capacity, Limiter!Potential(b)) \in Nat
  BY <1>1, <1>3 DEF Limiter!Least
<1>5. Limiter!Refilled(b) = [tokens |-> Limiter!Least(Limiter!Capacity, Limiter!Potential(b)),
      updated |-> rateNow,
                     safe |-> rateNow + Limiter!SafeIdle]
  BY DEF Limiter!Refilled, Limiter!Potential
<1> QED
  BY <1>1, <1>3, <1>4, <1>5 DEF Limiter!Bucket

\* What a clean-up or an expiry forgets was full.
LEMMA LimiterForgetting ==
  ASSUME Limiter!ConstantsAreLegal, Limiter!IInv,
         NEW S \in SUBSET DOMAIN rateBuckets,
         \A i \in DOMAIN rateBuckets \ S : rateBuckets[i].safe <= rateNow
  PROVE  \A i \in RateIdentity \ S : Limiter!Potential(rateIdeal[i]) >= Limiter!Capacity
<1>1. ASSUME NEW i \in RateIdentity \ S
      PROVE  Limiter!Potential(rateIdeal[i]) >= Limiter!Capacity
  <2>1. CASE i \in DOMAIN rateBuckets
    <3>1. /\ rateBuckets[i].tokens \in Nat /\ rateBuckets[i].updated \in Nat /\ rateNow \in Nat
          /\ rateBuckets[i].updated <= rateNow /\
                 rateBuckets[i].updated + Limiter!SafeIdle <= rateNow
      BY <1>1, <2>1 DEF Limiter!IInv, Limiter!TypeOK, Limiter!KeptUntilFull, Limiter!Bucket
    <3>2. Limiter!Capacity \in Nat /\ Limiter!SafeIdle \in Nat /\ Rate \in Nat
      BY LimiterIdleIsEnough
    <3>3. rateNow - rateBuckets[i].updated \in Nat /\
              rateNow - rateBuckets[i].updated >= Limiter!SafeIdle
      BY <3>1, <3>2
    <3>4. (rateNow - rateBuckets[i].updated) * Rate >= Limiter!Capacity
      BY <3>3, LimiterIdleIsEnough
    <3>5. (rateNow - rateBuckets[i].updated) * Rate \in Int
      BY <3>2, <3>3
    <3>6. Limiter!Potential(rateBuckets[i]) >= Limiter!Capacity /\
              Limiter!Potential(rateBuckets[i]) \in Int
      BY <3>1, <3>2, <3>4, <3>5 DEF Limiter!Potential
    <3>7. rateIdeal[i].tokens \in Nat /\ rateIdeal[i].updated \in Nat
      BY <1>1 DEF Limiter!IInv, Limiter!TypeOK
    <3>8. Limiter!Potential(rateIdeal[i]) \in Int
      BY <3>1, <3>2, <3>7 DEF Limiter!Potential
    <3>9. \/ Limiter!Potential(rateIdeal[i]) >= Limiter!Capacity
          \/ Limiter!Potential(rateIdeal[i]) >= Limiter!Potential(rateBuckets[i])
      BY <1>1 DEF Limiter!IInv, Limiter!Dominated
    <3> QED
      BY <3>2, <3>6, <3>8, <3>9
  <2>2. CASE i \notin DOMAIN rateBuckets
    BY <1>1, <2>2 DEF Limiter!IInv, Limiter!Dominated
  <2> QED
    BY <2>1, <2>2
<1> QED
  BY <1>1

\* A table that keeps buckets and forgets only full ones keeps the invariant.
LEMMA LimiterKeepStep ==
  ASSUME Limiter!ConstantsAreLegal, Limiter!IInv,
         NEW S \in SUBSET DOMAIN rateBuckets,
         \A i \in DOMAIN rateBuckets \ S : rateBuckets[i].safe <= rateNow,
         DOMAIN rateBuckets' = S, \A i \in S : rateBuckets'[i] = rateBuckets[i],
         UNCHANGED <<rateNow, rateIdeal>>
  PROVE  Limiter!IInv'
<1>1. /\ DOMAIN rateBuckets' = S /\ S \subseteq RateIdentity
      /\ \A i \in S : rateBuckets'[i] = rateBuckets[i] /\ i \in DOMAIN rateBuckets
      /\ \A i \in RateIdentity \ S : Limiter!Potential(rateIdeal[i]) >= Limiter!Capacity
  BY LimiterForgetting DEF Limiter!IInv, Limiter!TypeOK
<1>2. rateNow' = rateNow /\ rateIdeal' = rateIdeal
  OBVIOUS
<1>3. Limiter!TypeOK' /\ Limiter!KeptUntilFull'
  <2>1. Limiter!SafeIdle' = Limiter!SafeIdle
    BY DEF Limiter!SafeIdle, Limiter!Capacity
  <2> QED
    BY <1>1, <1>2, <2>1 DEF Limiter!IInv, Limiter!TypeOK, Limiter!KeptUntilFull
<1>4. Limiter!Dominated'
  <2> SUFFICES ASSUME NEW i \in RateIdentity
               PROVE  \/ Limiter!Potential(rateIdeal[i]) >= Limiter!Capacity
                      \/ /\ i \in DOMAIN rateBuckets'
                         /\ Limiter!Potential(rateIdeal[i]) >= Limiter!Potential(rateBuckets'[i])
    BY <1>2 DEF Limiter!Dominated, Limiter!Potential, Limiter!Capacity
  <2> QED
    BY <1>1 DEF Limiter!IInv, Limiter!Dominated
<1> QED
  BY <1>3, <1>4 DEF Limiter!IInv

\* The clean-up keeps what it may not forget yet.
LEMMA LimiterCleaning ==
  ASSUME Limiter!ConstantsAreLegal, Limiter!IInv
  PROVE  \E S \in SUBSET DOMAIN rateBuckets :
             /\ \A i \in DOMAIN rateBuckets \ S : rateBuckets[i].safe <= rateNow
             /\ DOMAIN Limiter!Cleaned = S /\ \A i \in S : Limiter!Cleaned[i] = rateBuckets[i]
<1>1. CASE rateNow < rateNextCleanup
  BY <1>1 DEF Limiter!Cleaned
<1>2. CASE ~(rateNow < rateNextCleanup)
  <2> DEFINE S == {i \in DOMAIN rateBuckets : rateBuckets[i].safe > rateNow}
  <2>1. DOMAIN Limiter!Cleaned = S /\ \A i \in S : Limiter!Cleaned[i] = rateBuckets[i]
    BY <1>2 DEF Limiter!Cleaned, Limiter!Keep
  <2>2. \A i \in DOMAIN rateBuckets \ S : rateBuckets[i].safe <= rateNow
    BY DEF Limiter!IInv, Limiter!TypeOK, Limiter!Bucket
  <2> QED
    BY <2>1, <2>2
<1> QED
  BY <1>1, <1>2

\* A request is taken from a bucket which the ideal one dominates.
LEMMA LimiterOwnStep ==
  ASSUME Limiter!ConstantsAreLegal, Limiter!IInv, NEW i \in RateIdentity, Limiter!CheckOwn(i),
         rateNow' = rateNow
  PROVE  Limiter!IInv'
<1> DEFINE t == IF SharedRates THEN rateBuckets ELSE Limiter!Cleaned
           a == IF i \in DOMAIN t THEN t[i] ELSE Limiter!Fresh
           b == Limiter!Refilled(a)
<1>1. /\ rateBuckets' = Limiter!Put(t, i, Limiter!Charged(b))
      /\ Limiter!Charge(i, b)
  BY DEF Limiter!CheckOwn
<1>2. PICK S \in SUBSET DOMAIN rateBuckets :
          /\ DOMAIN t = S /\ S \subseteq RateIdentity
          /\ \A j \in S : t[j] = rateBuckets[j]
          /\ \A j \in RateIdentity \ S : Limiter!Potential(rateIdeal[j]) >= Limiter!Capacity
  <2>1. CASE SharedRates
    <3>1. DOMAIN t = DOMAIN rateBuckets /\ \A j \in DOMAIN rateBuckets : t[j] = rateBuckets[j]
      BY <2>1
    <3> QED
      BY <3>1 DEF Limiter!IInv, Limiter!TypeOK, Limiter!Dominated
  <2>2. CASE ~SharedRates
    <3>1. PICK S \in SUBSET DOMAIN rateBuckets :
              /\ \A j \in DOMAIN rateBuckets \ S : rateBuckets[j].safe <= rateNow
              /\ DOMAIN Limiter!Cleaned = S /\ \A j \in S : Limiter!Cleaned[j] = rateBuckets[j]
      BY LimiterCleaning
    <3> QED
      BY <2>2, <3>1, LimiterForgetting DEF Limiter!IInv, Limiter!TypeOK
  <2> QED
    BY <2>1, <2>2
<1>3. /\ Limiter!Capacity \in Nat /\ Limiter!SafeIdle \in Nat /\ Rate \in Nat
      /\ Window \in Nat /\ Window > 0 /\ rateNow \in Nat
  BY LimiterIdleIsEnough DEF Limiter!IInv, Limiter!TypeOK, Limiter!ConstantsAreLegal
<1>4. /\ a.tokens \in Nat /\ a.updated \in Nat /\ a.updated <= rateNow
      /\ Limiter!Potential(rateIdeal[i]) >= Limiter!Capacity \/
             Limiter!Potential(rateIdeal[i]) >= Limiter!Potential(a)
  <2>1. /\ i \in DOMAIN t => a = t[i]
        /\ i \notin DOMAIN t => a = Limiter!Fresh
    OBVIOUS
  <2> HIDE DEF t, a
  <2>2. CASE i \in DOMAIN t
    BY <1>2, <2>1, <2>2 DEF Limiter!IInv, Limiter!TypeOK, Limiter!KeptUntilFull,
       Limiter!Dominated, Limiter!Bucket
  <2>3. CASE i \notin DOMAIN t
    BY <1>2, <1>3, <2>1, <2>3 DEF Limiter!Fresh
  <2> QED
    BY <2>2, <2>3
<1> HIDE DEF t, a
<1>5. /\ Limiter!Potential(a) \in Nat /\ b \in Limiter!Bucket
      /\ b.updated = rateNow /\ b.safe = rateNow + Limiter!SafeIdle
      /\ b.tokens = Limiter!Least(Limiter!Capacity, Limiter!Potential(a))
  BY <1>3, <1>4, LimiterRefilling
<1>6. /\ rateIdeal[i].tokens \in Nat /\ rateIdeal[i].updated \in Nat
      /\ rateIdeal \in [RateIdentity -> [tokens : Nat, updated : Nat]]
  BY DEF Limiter!IInv, Limiter!TypeOK
<1>7. Limiter!Potential(rateIdeal[i]) \in Int /\ Limiter!IdealNow(i) =
          Limiter!Least(Limiter!Capacity, Limiter!Potential(rateIdeal[i]))
  BY <1>3, <1>6 DEF Limiter!Potential, Limiter!IdealNow
<1>8. Limiter!IdealNow(i) \in Int /\ Limiter!IdealNow(i) >= b.tokens /\ b.tokens \in Nat
  BY <1>3, <1>4, <1>5, <1>7 DEF Limiter!Least, Limiter!Bucket
<1> DEFINE c == Limiter!Charged(b)
<1> HIDE DEF b
<1>9. /\ c \in Limiter!Bucket /\ c.updated = rateNow /\ c.safe = rateNow + Limiter!SafeIdle
      /\ Limiter!Passes(b) => c.tokens = b.tokens - Window /\ b.tokens >= Window
      /\ ~Limiter!Passes(b) => c.tokens = b.tokens
  BY <1>3, <1>5, <1>8 DEF Limiter!Charged, Limiter!Passes, Limiter!Bucket
<1>10. /\ rateBuckets' = Limiter!Put(t, i, c) /\ Limiter!Charge(i, b)
  BY <1>1
<1> HIDE DEF c
<1>11. /\ DOMAIN rateBuckets' = S \cup {i} /\ rateBuckets'[i] = c
       /\ \A j \in S \ {i} : rateBuckets'[j] = rateBuckets[j]
  BY <1>2, <1>10 DEF Limiter!Put
<1>12. /\ rateIdeal' \in [RateIdentity -> [tokens : Nat, updated : Nat]]
       /\ \A j \in RateIdentity \ {i} : rateIdeal'[j] = rateIdeal[j]
       /\ Limiter!Passes(b) =>
              rateIdeal'[i] = [tokens |-> Limiter!IdealNow(i) - Window, updated |-> rateNow]
       /\ ~Limiter!Passes(b) => rateIdeal'[i] = rateIdeal[i]
  <2>1. CASE Limiter!Passes(b)
    <3>1. Limiter!IdealNow(i) - Window \in Nat
      BY <1>3, <1>8, <1>9, <2>1
    <3>2. rateIdeal' = [rateIdeal EXCEPT ![i] =
              [tokens |-> Limiter!IdealNow(i) - Window, updated |-> rateNow]]
      BY <1>10, <2>1 DEF Limiter!Charge
    <3> QED
      BY <1>3, <1>6, <2>1, <3>1, <3>2
  <2>2. CASE ~Limiter!Passes(b)
    BY <1>6, <1>10, <2>2 DEF Limiter!Charge
  <2> QED
    BY <2>1, <2>2
<1>13. Limiter!Potential(rateIdeal'[i]) >= Limiter!Capacity \/
           Limiter!Potential(rateIdeal'[i]) >= Limiter!Potential(c)
  <2>1. Limiter!Potential(c) = c.tokens /\ c.tokens \in Nat
    BY <1>3, <1>9 DEF Limiter!Potential, Limiter!Bucket
  <2>2. CASE Limiter!Passes(b)
    <3>1. Limiter!Potential(rateIdeal'[i]) = Limiter!IdealNow(i) - Window
      BY <1>3, <1>8, <1>12, <2>2 DEF Limiter!Potential
    <3> QED
      BY <1>3, <1>8, <1>9, <2>1, <2>2, <3>1
  <2>3. CASE ~Limiter!Passes(b)
    BY <1>3, <1>4, <1>5, <1>7, <1>9, <1>12, <2>1, <2>3 DEF Limiter!Least
  <2> QED
    BY <2>2, <2>3
<1>14. Limiter!TypeOK' /\ Limiter!KeptUntilFull'
  <2>1. Limiter!SafeIdle' = Limiter!SafeIdle
    BY DEF Limiter!SafeIdle, Limiter!Capacity
  <2>2. \A j \in DOMAIN rateBuckets' : j = i \/ j \in S \ {i}
    BY <1>11
  <2>3. Limiter!TypeOK'
    BY <1>2, <1>3, <1>9, <1>11, <1>12, <2>2 DEF Limiter!IInv, Limiter!TypeOK
  <2>4. Limiter!KeptUntilFull'
    BY <1>2, <1>3, <1>9, <1>11, <2>1, <2>2 DEF Limiter!IInv, Limiter!KeptUntilFull
  <2> QED
    BY <2>3, <2>4
<1>15. Limiter!Dominated'
  <2> SUFFICES ASSUME NEW j \in RateIdentity
               PROVE  \/ Limiter!Potential(rateIdeal'[j]) >= Limiter!Capacity
                      \/ /\ j \in DOMAIN rateBuckets'
                         /\ Limiter!Potential(rateIdeal'[j]) >= Limiter!Potential(rateBuckets'[j])
    BY DEF Limiter!Dominated, Limiter!Potential, Limiter!Capacity
  <2>1. CASE j = i
    BY <1>11, <1>13, <2>1
  <2>2. CASE j # i
    BY <1>2, <1>11, <1>12, <2>2 DEF Limiter!IInv, Limiter!Dominated
  <2> QED
    BY <2>1, <2>2
<1> QED
  BY <1>14, <1>15 DEF Limiter!IInv

\* A bucket and its ideal gain the same in a tick.
LEMMA LimiterTickStep ==
  ASSUME Limiter!ConstantsAreLegal, Limiter!IInv, Limiter!Tick
  PROVE  Limiter!IInv'
<1>1. rateNow' = rateNow + 1 /\ rateNow \in Nat /\ Rate \in Nat /\ Limiter!Capacity \in Nat
      /\ rateBuckets' = rateBuckets /\ rateIdeal' = rateIdeal
  BY LimiterIdleIsEnough DEF Limiter!IInv, Limiter!TypeOK, Limiter!Tick
<1>2. Limiter!TypeOK' /\ Limiter!KeptUntilFull'
  <2>1. Limiter!SafeIdle' = Limiter!SafeIdle
    BY DEF Limiter!SafeIdle, Limiter!Capacity
  <2> QED
    BY <1>1, <2>1 DEF Limiter!IInv, Limiter!TypeOK, Limiter!KeptUntilFull, Limiter!Bucket
<1>3. \A b : b.tokens \in Nat /\ b.updated \in Nat =>
                 b.tokens + (rateNow' - b.updated) * Rate = Limiter!Potential(b) + Rate
  <2> SUFFICES ASSUME NEW b, b.tokens \in Nat, b.updated \in Nat
               PROVE  b.tokens + (rateNow' - b.updated) * Rate = Limiter!Potential(b) + Rate
    OBVIOUS
  <2> DEFINE n == b.tokens
             u == b.updated
  <2>1. n \in Nat /\ u \in Nat /\ Limiter!Potential(b) = n + (rateNow - u) * Rate
    BY DEF Limiter!Potential
  <2> HIDE DEF n, u
  <2>2. n + (rateNow' - u) * Rate = (n + (rateNow - u) * Rate) + Rate
    BY <1>1, <2>1
  <2> QED
    BY <2>1, <2>2 DEF n, u
<1>4. ASSUME NEW b, b.tokens \in Nat, b.updated \in Nat
      PROVE  Limiter!Potential(b) \in Int
  BY <1>1, <1>4 DEF Limiter!Potential
<1>5. Limiter!Dominated'
  <2> SUFFICES ASSUME NEW i \in RateIdentity
               PROVE  \/ Limiter!Potential(rateIdeal[i])' >= Limiter!Capacity
                      \/ /\ i \in DOMAIN rateBuckets
                         /\ Limiter!Potential(rateIdeal[i])' >= Limiter!Potential(rateBuckets[i])'
    BY <1>1 DEF Limiter!Dominated, Limiter!Capacity
  <2>1. /\ Limiter!Potential(rateIdeal[i])' = Limiter!Potential(rateIdeal[i]) + Rate
        /\ Limiter!Potential(rateIdeal[i]) \in Int
    <3>1. rateIdeal[i].tokens \in Nat /\ rateIdeal[i].updated \in Nat
      BY DEF Limiter!IInv, Limiter!TypeOK
    <3>2. Limiter!Potential(rateIdeal[i])' =
              rateIdeal[i].tokens + (rateNow' - rateIdeal[i].updated) * Rate
      BY <1>1 DEF Limiter!Potential
    <3> QED
      BY <1>3, <1>4, <3>1, <3>2
  <2>2. CASE Limiter!Potential(rateIdeal[i]) >= Limiter!Capacity
    BY <1>1, <2>1, <2>2
  <2>3. CASE i \in DOMAIN rateBuckets /\
                 Limiter!Potential(rateIdeal[i]) >= Limiter!Potential(rateBuckets[i])
    <3>1. rateBuckets[i].tokens \in Nat /\ rateBuckets[i].updated \in Nat
      BY <2>3 DEF Limiter!IInv, Limiter!TypeOK, Limiter!Bucket
    <3>2. Limiter!Potential(rateBuckets[i])' =
              rateBuckets[i].tokens + (rateNow' - rateBuckets[i].updated) * Rate
      BY <1>1 DEF Limiter!Potential
    <3>3. Limiter!Potential(rateBuckets[i])' = Limiter!Potential(rateBuckets[i]) + Rate
      BY <1>3, <3>1, <3>2
    <3> QED
      BY <1>1, <1>4, <2>1, <2>3, <3>1, <3>3
  <2> QED
    BY <2>2, <2>3 DEF Limiter!IInv, Limiter!Dominated
<1> QED
  BY <1>2, <1>5 DEF Limiter!IInv

\* No step gives a caller more than a table without bounds would.
LEMMA LimiterInductive ==
  ASSUME Limiter!ConstantsAreLegal
  PROVE  Limiter!IInv /\ [Limiter!Next]_Limiter!vars => Limiter!IInv'
<1> SUFFICES ASSUME Limiter!IInv, [Limiter!Next]_Limiter!vars
             PROVE  Limiter!IInv'
  OBVIOUS
<1>1. ASSUME NEW i \in RateIdentity, Limiter!Check(i)
      PROVE  Limiter!IInv'
  <2>1. CASE Limiter!CheckOwn(i)
    BY <1>1, <2>1, LimiterOwnStep DEF Limiter!Check
  <2>2. CASE Limiter!CheckOverflow(i)
    BY <1>1, <2>2, LimiterCleaning, LimiterKeepStep DEF Limiter!Check, Limiter!CheckOverflow
  <2> QED
    BY <1>1, <2>1, <2>2 DEF Limiter!Check
<1>2. ASSUME NEW i \in RateIdentity, Limiter!Expire(i)
      PROVE  Limiter!IInv'
  BY <1>2, LimiterKeepStep DEF Limiter!Expire, Limiter!Keep
<1>3. CASE UNCHANGED Limiter!vars
  BY <1>3 DEF Limiter!vars, Limiter!IInv, Limiter!TypeOK, Limiter!KeptUntilFull,
     Limiter!Dominated, Limiter!Potential
<1> QED
  BY <1>1, <1>2, <1>3, LimiterTickStep DEF Limiter!Next

\* Of any limits, times and orders of requests, no clean-up, overflow or expiry gives a
\* caller with a bucket of its own more than a table without bounds.
THEOREM LimiterEvictionCorrect == Limiter!Spec => []EvictionGivesNothing
<1> Limiter!ConstantsAreLegal
  BY LimiterIsLegal
<1>1. Limiter!Init => Limiter!IInv
  <2> SUFFICES ASSUME Limiter!Init
               PROVE  Limiter!IInv
    OBVIOUS
  <2>1. Limiter!Capacity \in Nat /\ Rate \in Nat
    BY LimiterIdleIsEnough
  <2>2. DOMAIN rateBuckets = {}
    BY DEF Limiter!Init
  <2> QED
    BY <2>1, <2>2 DEF Limiter!Init, Limiter!IInv, Limiter!TypeOK, Limiter!KeptUntilFull,
       Limiter!Dominated, Limiter!Potential
<1>2. Limiter!IInv /\ [Limiter!Next]_Limiter!vars => Limiter!IInv'
  BY LimiterInductive
<1>3. Limiter!IInv => EvictionGivesNothing
  BY DEF Limiter!IInv, Limiter!TypeOK, EvictionGivesNothing, Limiter!EvictionGivesNothing
<1> QED
  BY <1>1, <1>2, <1>3, PTL DEF Limiter!Spec

-----------------------------------------------------------------------------
(* Outbound: the circuits and the connections. *)

\* What follows a failed attempt keeps the circuit closed below the threshold only, and
\* a circuit that opens does so now.
LEMMA CallingFail ==
    ASSUME Calling!ConstantsAreLegal, Calling!TypeOK, Calling!Past, Calling!CircuitProtects,
           NEW c \in Calling!UnderWay, Calling!Fail(c), UNCHANGED <<callNow, callBegan>>
    PROVE  /\ Calling!Past' /\ Calling!CircuitProtects'
           /\ callFailures' \in [Calling!HttpClient -> Nat]
           /\ callOpenedAt' \in [Calling!HttpClient -> Nat \cup {Null}]
           /\ \E s \in {"failed", "sleeping"} : callStage' = [callStage EXCEPT ![c] = s]
<1>1. PICK s \in {"failed", "sleeping"} : callStage' = [callStage EXCEPT ![c] = s]
  BY DEF Calling!Fail, Calling!Goto
<1>2. Calling!UnderWay' \subseteq Calling!UnderWay /\ c \in Call
  BY <1>1 DEF Calling!UnderWay, Calling!TypeOK
<1>3. Calling!ClientOf(c) \in Calling!HttpClient
  BY DEF Calling!ClientOf, Calling!HttpClient
<1> DEFINE k == Calling!ClientOf(c)
<1>4. /\ callFailures' = [callFailures EXCEPT ![k] = @ + 1]
      /\ callOpenedAt' = [callOpenedAt EXCEPT ![k] =
             IF callFailures[k] + 1 >= Threshold THEN callNow ELSE @]
  BY DEF Calling!Fail
<1>5. /\ callFailures' \in [Calling!HttpClient -> Nat]
      /\ callOpenedAt' \in [Calling!HttpClient -> Nat \cup {Null}]
  BY <1>3, <1>4 DEF Calling!TypeOK
<1>6. \A j \in Calling!HttpClient : callOpenedAt'[j] \in {callOpenedAt[j], callNow}
  BY <1>3, <1>4 DEF Calling!TypeOK
<1>7. callNow # Null /\ callNow \in Nat
  BY DEF Calling!TypeOK, Calling!ConstantsAreLegal
<1>8. Calling!Past'
  BY <1>2, <1>5, <1>6, <1>7 DEF Calling!Past, Calling!TypeOK
<1>9. \A j \in Calling!HttpClient : callFailures'[j] >= Threshold => callOpenedAt'[j] # Null
  BY <1>3, <1>4, <1>7 DEF Calling!CircuitProtects, Calling!TypeOK, Calling!ConstantsAreLegal
<1>10. ASSUME NEW d \in Calling!UnderWay', callOpenedAt'[Calling!ClientOf(d)] # Null
       PROVE  callBegan[d] <= callOpenedAt'[Calling!ClientOf(d)]
  <2>1. Calling!ClientOf(d) \in Calling!HttpClient /\ d \in Calling!UnderWay
    BY <1>2 DEF Calling!ClientOf, Calling!HttpClient
  <2> QED
    BY <1>6, <1>10, <2>1 DEF Calling!Past, Calling!CircuitProtects
<1>11. Calling!CircuitProtects'
  BY <1>9, <1>10 DEF Calling!CircuitProtects, Calling!ClientOf
<1> QED
  BY <1>1, <1>5, <1>8, <1>11

\* The steps of one call that leave the circuits alone.
LEMMA CallingCircuitKept ==
    ASSUME Calling!Past, Calling!CircuitProtects, UNCHANGED Calling!circuit,
           Calling!UnderWay' \subseteq Calling!UnderWay, UNCHANGED <<callNow, callBegan>>
    PROVE  Calling!Past' /\ Calling!CircuitProtects'
BY DEF Calling!Past, Calling!CircuitProtects, Calling!circuit, Calling!ClientOf

\* One lemma for each kind of step.

LEMMA CallingBeginStep ==
    ASSUME Calling!ConstantsAreLegal, Calling!IInv, NEW c \in Call, Calling!Begin(c)
    PROVE  Calling!IInv'
<1> DEFINE k == Calling!ClientOf(c)
<1>1. k \in Calling!HttpClient
  BY DEF Calling!ClientOf, Calling!HttpClient
<1>2. /\ callStage[c] = "valid" /\ UNCHANGED <<callNow, callKept, callTodo, callVia>>
      /\ \E s \in {"failed", "sending"} : callStage' = [callStage EXCEPT ![c] = s]
  BY DEF Calling!Begin, Calling!Goto, Calling!connection
<1>3. Calling!PublicCallsStayPublic' /\ Calling!PublicPool' /\ DOMAIN callStage' = Call
  BY <1>2 DEF Calling!IInv, Calling!TypeOK, Calling!PublicCallsStayPublic, Calling!PublicPool
<1>4. CASE Calling!OpenNow(k)
  <2>1. callStage' = [callStage EXCEPT ![c] = "failed"] /\ UNCHANGED <<Calling!circuit, callBegan>>
    BY <1>4 DEF Calling!Begin, Calling!Goto
  <2>2. Calling!UnderWay' \subseteq Calling!UnderWay
    BY <1>2, <2>1 DEF Calling!IInv, Calling!TypeOK, Calling!UnderWay
  <2>3. Calling!Past' /\ Calling!CircuitProtects'
    BY <1>2, <2>1, <2>2, CallingCircuitKept DEF Calling!IInv
  <2> QED
    BY <1>2, <1>3, <2>1, <2>3 DEF Calling!IInv, Calling!TypeOK, Calling!circuit
<1>5. CASE ~Calling!OpenNow(k)
  <2>1. /\ callStage' = [callStage EXCEPT ![c] = "sending"]
        /\ callBegan' = [callBegan EXCEPT ![c] = callNow]
        /\ callOpenedAt' = [callOpenedAt EXCEPT ![k] = Null]
        /\ callFailures' =
               [callFailures EXCEPT ![k] = IF callOpenedAt[k] = Null THEN @ ELSE 0]
    BY <1>5 DEF Calling!Begin, Calling!Goto
  <2>2. Calling!UnderWay' = Calling!UnderWay \cup {c}
    BY <1>2, <2>1 DEF Calling!IInv, Calling!TypeOK, Calling!UnderWay
  <2>3. Calling!TypeOK'
    BY <1>1, <1>2, <1>3, <2>1 DEF Calling!IInv, Calling!TypeOK
  <2>4. callNow # Null
    BY DEF Calling!IInv, Calling!TypeOK, Calling!ConstantsAreLegal
  <2>5. Calling!Past'
    BY <1>1, <1>2, <2>1, <2>2, <2>4 DEF Calling!IInv, Calling!TypeOK, Calling!Past, Calling!UnderWay
  <2>6. \A j \in Calling!HttpClient : callFailures'[j] >= Threshold => callOpenedAt'[j] # Null
    BY <1>1, <2>1 DEF Calling!IInv, Calling!TypeOK, Calling!CircuitProtects,
       Calling!ConstantsAreLegal
  <2>7. \A d \in Calling!UnderWay' : callOpenedAt'[Calling!ClientOf(d)] # Null =>
            callBegan'[d] <= callOpenedAt'[Calling!ClientOf(d)]
    <3> SUFFICES ASSUME NEW d \in Calling!UnderWay', callOpenedAt'[Calling!ClientOf(d)] # Null
                 PROVE  callBegan'[d] <= callOpenedAt'[Calling!ClientOf(d)]
      OBVIOUS
    <3>1. Calling!ClientOf(d) \in Calling!HttpClient /\ Calling!ClientOf(d) # k
      BY <1>1, <2>1 DEF Calling!IInv, Calling!TypeOK, Calling!ClientOf, Calling!HttpClient
    <3>2. d # c /\ d \in Calling!UnderWay /\ d \in Call
      BY <2>2, <3>1 DEF Calling!UnderWay
    <3> QED
      BY <2>1, <3>1, <3>2 DEF Calling!IInv, Calling!TypeOK, Calling!CircuitProtects
  <2>8. Calling!CircuitProtects'
    BY <2>6, <2>7 DEF Calling!CircuitProtects, Calling!ClientOf
  <2> QED
    BY <1>3, <2>3, <2>5, <2>8 DEF Calling!IInv
<1> QED
  BY <1>4, <1>5

\* Steps that end an attempt, or give the call up.
LEMMA CallingEndStep ==
    ASSUME Calling!ConstantsAreLegal, Calling!IInv, NEW c \in Call,
           c \in Calling!UnderWay, UNCHANGED <<callNow, callBegan>>,
           Calling!Fail(c) \/ Calling!Succeed(c) \/ Calling!GiveUp(c)
    PROVE  /\ Calling!Past' /\ Calling!CircuitProtects'
           /\ callFailures' \in [Calling!HttpClient -> Nat]
           /\ callOpenedAt' \in [Calling!HttpClient -> Nat \cup {Null}]
           /\ \E s \in {"failed", "sleeping", "ok"} : callStage' = [callStage EXCEPT ![c] = s]
<1>1. CASE Calling!Fail(c)
  BY <1>1, CallingFail DEF Calling!IInv
<1>2. CASE Calling!Succeed(c)
  <2>1. /\ callFailures' = [callFailures EXCEPT ![Calling!ClientOf(c)] = 0]
        /\ callStage' = [callStage EXCEPT ![c] = "ok"] /\ callOpenedAt' = callOpenedAt
    BY <1>2 DEF Calling!Succeed, Calling!Goto
  <2>2. Calling!UnderWay' \subseteq Calling!UnderWay
    BY <2>1 DEF Calling!IInv, Calling!TypeOK, Calling!UnderWay
  <2>3. \A k \in Calling!HttpClient : callFailures'[k] \in {0, callFailures[k]}
    BY <2>1 DEF Calling!IInv, Calling!TypeOK
  <2>4. Calling!Past'
    BY <2>1, <2>2 DEF Calling!IInv, Calling!Past
  <2>5. Calling!CircuitProtects'
    BY <2>1, <2>2, <2>3 DEF Calling!IInv, Calling!TypeOK, Calling!CircuitProtects, Calling!ClientOf,
       Calling!ConstantsAreLegal
  <2> QED
    BY <2>1, <2>3, <2>4, <2>5 DEF Calling!IInv, Calling!TypeOK
<1>3. CASE Calling!GiveUp(c)
  <2>1. callStage' = [callStage EXCEPT ![c] = "failed"] /\ UNCHANGED Calling!circuit
    BY <1>3 DEF Calling!GiveUp, Calling!Goto
  <2>2. Calling!UnderWay' \subseteq Calling!UnderWay
    BY <2>1 DEF Calling!IInv, Calling!TypeOK, Calling!UnderWay
  <2> QED
    BY <2>1, <2>2, CallingCircuitKept DEF Calling!IInv, Calling!TypeOK, Calling!circuit
<1> QED
  BY <1>1, <1>2, <1>3

LEMMA CallingEndedStep ==
    ASSUME Calling!IInv, NEW c \in Call, UNCHANGED <<callNow, callBegan>>,
           Calling!Past', Calling!CircuitProtects',
           callFailures' \in [Calling!HttpClient -> Nat],
           callOpenedAt' \in [Calling!HttpClient -> Nat \cup {Null}],
           \E s \in {"failed", "sleeping", "ok"} : callStage' = [callStage EXCEPT ![c] = s],
           callKept' \in [Calling!HttpClient -> SUBSET Address], callKept'["http"] \cap Private = {},
           callTodo' \in [Call -> SUBSET Address],
           \A d \in Call : callTodo'[d] \subseteq callTodo[d],
           callVia' \in [Call -> Address \cup {Null}],
           \A d \in Call \ {c} : callVia'[d] = callVia[d]
    PROVE  Calling!IInv'
<1>1. Calling!TypeOK'
  BY DEF Calling!IInv, Calling!TypeOK
<1>2. Calling!PublicCallsStayPublic' /\ Calling!PublicPool'
  BY DEF Calling!IInv, Calling!TypeOK, Calling!PublicCallsStayPublic, Calling!PublicPool
<1> QED
  BY <1>1, <1>2 DEF Calling!IInv

\* Steps that move a call on, over a connection of its client or a new one.
LEMMA CallingMoveStep ==
    ASSUME Calling!ConstantsAreLegal, Calling!IInv, NEW c \in Call, NEW s,
           callStage' = [callStage EXCEPT ![c] = s],
           s \in {"valid", "failed", "sending", "dialling", "sent"},
           s \in {"sending", "dialling", "sent"} => c \in Calling!UnderWay,
           UNCHANGED <<callNow, Calling!circuit, callBegan, callKept>>,
           callTodo' \in [Call -> SUBSET Address], callVia' \in [Call -> Address \cup {Null}],
           \A d \in Call \ {c} : callTodo'[d] = callTodo[d] /\ callVia'[d] = callVia[d],
           c \notin Trusting => callTodo'[c] \cap Private = {},
           s = "sent" => /\ callVia'[c] \in Address
                         /\ c \notin Trusting => callVia'[c] \notin Private
    PROVE  Calling!IInv'
<1>1. Calling!UnderWay' \subseteq Calling!UnderWay
  BY DEF Calling!IInv, Calling!TypeOK, Calling!UnderWay
<1>2. Calling!Past' /\ Calling!CircuitProtects'
  BY <1>1, CallingCircuitKept DEF Calling!IInv
<1>3. Calling!TypeOK'
  BY DEF Calling!IInv, Calling!TypeOK, Calling!circuit
<1>4. Calling!PublicCallsStayPublic' /\ Calling!PublicPool'
  BY DEF Calling!IInv, Calling!TypeOK, Calling!PublicCallsStayPublic, Calling!PublicPool
<1> QED
  BY <1>2, <1>3, <1>4 DEF Calling!IInv

LEMMA CallingReuseStep ==
    ASSUME Calling!ConstantsAreLegal, Calling!IInv, NEW c \in Call, Calling!Reuse(c)
    PROVE  Calling!IInv'
<1>1. PICK a \in callKept[Calling!ClientOf(c)] : callVia' = [callVia EXCEPT ![c] = a]
  BY DEF Calling!Reuse, Calling!Reusable
<1>2. /\ c \in Calling!UnderWay /\ callStage' = [callStage EXCEPT ![c] = "sent"]
      /\ UNCHANGED <<callNow, Calling!circuit, callBegan, callKept, callTodo>>
  BY DEF Calling!Reuse, Calling!Goto, Calling!UnderWay
<1>3. a \in Address /\ (c \notin Trusting => a \notin Private)
  BY <1>1 DEF Calling!ClientOf, Calling!HttpClient, Calling!IInv, Calling!TypeOK, Calling!PublicPool
<1> QED
  BY <1>1, <1>2, <1>3, CallingMoveStep DEF Calling!IInv, Calling!TypeOK, Calling!PublicPool

LEMMA CallingResolveStep ==
    ASSUME Calling!ConstantsAreLegal, Calling!IInv, NEW c \in Call, Calling!Resolve(c)
    PROVE  Calling!IInv'
<1>1. c \in Calling!UnderWay /\ UNCHANGED <<callNow, callBegan, callKept, callVia>>
  BY DEF Calling!Resolve, Calling!UnderWay
<1>2. PICK resolved \in SUBSET Address :
          IF Calling!Permits(c, resolved)
          THEN /\ callStage' = [callStage EXCEPT ![c] = "dialling"]
               /\ callTodo' = [callTodo EXCEPT ![c] = resolved]
               /\ UNCHANGED Calling!circuit
          ELSE Calling!Fail(c) /\ UNCHANGED callTodo
  BY DEF Calling!Resolve, Calling!Goto, Calling!circuit
<1>3. CASE Calling!Permits(c, resolved)
  <2>1. c \notin Trusting => resolved \cap Private = {}
    BY <1>3 DEF Calling!Permits
  <2> QED
    BY <1>1, <1>2, <1>3, <2>1, CallingMoveStep DEF Calling!IInv, Calling!TypeOK, Calling!PublicPool
<1>4. CASE ~Calling!Permits(c, resolved)
  BY <1>1, <1>2, <1>4, CallingEndStep, CallingEndedStep DEF Calling!IInv,
     Calling!TypeOK, Calling!PublicPool
<1> QED
  BY <1>3, <1>4

LEMMA CallingDialStep ==
    ASSUME Calling!ConstantsAreLegal, Calling!IInv, NEW c \in Call, Calling!Dial(c)
    PROVE  Calling!IInv'
<1>1. c \in Calling!UnderWay /\ UNCHANGED <<callNow, callBegan, callKept>>
  BY DEF Calling!Dial, Calling!UnderWay
<1>2. PICK a \in callTodo[c] :
          \/ /\ callStage' = [callStage EXCEPT ![c] = "sent"]
             /\ callVia' = [callVia EXCEPT ![c] = a] /\ callTodo' = [callTodo EXCEPT ![c] = {}]
             /\ UNCHANGED Calling!circuit
          \/ /\ callTodo' = [callTodo EXCEPT ![c] = @ \ {a}] /\ UNCHANGED callVia
             /\ Calling!Fail(c) \/ UNCHANGED <<Calling!circuit, callStage>>
  BY DEF Calling!Dial, Calling!Goto, Calling!circuit
<1>3. a \in Address /\ (c \notin Trusting => a \notin Private)
  BY DEF Calling!IInv, Calling!TypeOK, Calling!PublicPool
<1>4. CASE callStage' = [callStage EXCEPT ![c] = "sent"] /\ callVia' = [callVia EXCEPT ![c] = a]
           /\ callTodo' = [callTodo EXCEPT ![c] = {}] /\ UNCHANGED Calling!circuit
  BY <1>1, <1>3, <1>4, CallingMoveStep DEF Calling!IInv, Calling!TypeOK
<1>5. CASE callTodo' = [callTodo EXCEPT ![c] = @ \ {a}] /\ UNCHANGED callVia
  <2>1. /\ callTodo' \in [Call -> SUBSET Address]
        /\ \A d \in Call : callTodo'[d] \subseteq callTodo[d]
    BY <1>5 DEF Calling!IInv, Calling!TypeOK
  <2>2. CASE Calling!Fail(c)
    BY <1>1, <1>5, <2>1, <2>2, CallingEndStep, CallingEndedStep DEF Calling!IInv,
       Calling!TypeOK, Calling!PublicPool
  <2>3. CASE UNCHANGED <<Calling!circuit, callStage>>
    <3>1. Calling!UnderWay' = Calling!UnderWay
      BY <2>3 DEF Calling!UnderWay
    <3>2. Calling!Past' /\ Calling!CircuitProtects'
      BY <1>1, <2>3, <3>1, CallingCircuitKept DEF Calling!IInv
    <3>3. Calling!PublicCallsStayPublic' /\ Calling!PublicPool'
      BY <1>1, <1>5, <2>1, <2>3 DEF Calling!IInv, Calling!PublicCallsStayPublic, Calling!PublicPool
    <3> QED
      BY <1>1, <1>5, <2>1, <2>3, <3>2, <3>3 DEF Calling!IInv, Calling!TypeOK, Calling!circuit
  <2> QED
    BY <1>2, <2>2, <2>3, <1>4
<1> QED
  BY <1>2, <1>4, <1>5

LEMMA CallingReceiveStep ==
    ASSUME Calling!ConstantsAreLegal, Calling!IInv, NEW c \in Call, Calling!Receive(c)
    PROVE  Calling!IInv'
<1>1. /\ c \in Calling!UnderWay /\ callStage[c] = "sent"
      /\ UNCHANGED <<callNow, callBegan, callTodo>>
      /\ callVia' = [callVia EXCEPT ![c] = Null]
      /\ callKept' \in {callKept,
             [callKept EXCEPT ![Calling!ClientOf(c)] = @ \cup {callVia[c]}]}
      /\ Calling!Fail(c) \/ Calling!Succeed(c) \/ Calling!GiveUp(c)
  BY DEF Calling!Receive, Calling!UnderWay
<1>2. callVia[c] \in Address
  BY <1>1 DEF Calling!IInv, Calling!TypeOK
<1>3. c \notin Trusting => callVia[c] \notin Private
  BY <1>1 DEF Calling!IInv, Calling!PublicCallsStayPublic
<1>4. callKept' \in [Calling!HttpClient -> SUBSET Address] /\ callKept'["http"] \cap Private = {}
  BY <1>1, <1>2, <1>3 DEF Calling!IInv, Calling!TypeOK, Calling!PublicPool, Calling!HttpClient,
     Calling!ClientOf
<1>5. callVia' \in [Call -> Address \cup {Null}]
      /\ \A d \in Call \ {c} : callVia'[d] = callVia[d]
  BY <1>1 DEF Calling!IInv, Calling!TypeOK
<1> QED
  BY <1>1, <1>4, <1>5, CallingEndStep, CallingEndedStep DEF Calling!IInv, Calling!TypeOK

LEMMA CallingInductive ==
    Calling!ConstantsAreLegal /\ Calling!IInv /\ [Calling!Next]_Calling!vars => Calling!IInv'
<1> SUFFICES ASSUME Calling!ConstantsAreLegal, Calling!IInv, [Calling!Next]_Calling!vars
             PROVE  Calling!IInv'
  OBVIOUS
<1>1. ASSUME NEW c \in Call, Calling!Validate(c)
      PROVE  Calling!IInv'
  BY <1>1, CallingMoveStep DEF Calling!Validate, Calling!Goto, Calling!connection, Calling!IInv,
     Calling!TypeOK, Calling!PublicPool
<1>2. ASSUME NEW c \in Call, Calling!Reuse(c) \/ Calling!Resolve(c) \/ Calling!Dial(c)
                            \/ Calling!Receive(c) \/ Calling!Begin(c)
      PROVE  Calling!IInv'
  BY <1>2, CallingBeginStep, CallingReuseStep, CallingResolveStep, CallingDialStep,
     CallingReceiveStep
<1>3. ASSUME NEW c \in Call, Calling!Resume(c)
      PROVE  Calling!IInv'
  BY <1>3, CallingMoveStep DEF Calling!Resume, Calling!Goto, Calling!connection, Calling!UnderWay,
     Calling!IInv, Calling!TypeOK, Calling!PublicPool
<1>4. ASSUME NEW c \in Call, Calling!Cancel(c)
      PROVE  Calling!IInv'
  BY <1>4, CallingMoveStep DEF Calling!Cancel, Calling!GiveUp, Calling!Goto, Calling!UnderWay,
     Calling!IInv, Calling!TypeOK
<1>5. CASE Calling!Tick
  BY <1>5 DEF Calling!Tick, Calling!IInv, Calling!TypeOK, Calling!Past, Calling!CircuitProtects,
     Calling!PublicCallsStayPublic, Calling!PublicPool, Calling!UnderWay, Calling!circuit,
     Calling!connection, Calling!ClientOf, Calling!HttpClient
<1>6. CASE UNCHANGED Calling!vars
  BY <1>6 DEF Calling!vars, Calling!IInv, Calling!TypeOK, Calling!Past, Calling!CircuitProtects,
     Calling!PublicCallsStayPublic, Calling!PublicPool, Calling!UnderWay, Calling!ClientOf
<1> QED
  BY <1>1, <1>2, <1>3, <1>4, <1>5, <1>6 DEF Calling!Next, Calling!Finished

LEMMA CallingInvariance == Calling!ConstantsAreLegal => (Calling!Spec => []Calling!IInv)
<1> SUFFICES ASSUME Calling!ConstantsAreLegal
             PROVE  Calling!Spec => []Calling!IInv
  OBVIOUS
<1>1. Calling!Init => Calling!IInv
  BY DEF Calling!ConstantsAreLegal, Calling!Init, Calling!IInv, Calling!TypeOK, Calling!Past,
     Calling!CircuitProtects, Calling!PublicCallsStayPublic, Calling!PublicPool, Calling!UnderWay,
     Calling!HttpClient
<1>2. Calling!IInv /\ [Calling!Next]_Calling!vars => Calling!IInv'
  BY CallingInductive
<1> QED
  BY <1>1, <1>2, PTL DEF Calling!Spec

\* However the calls to a host are interleaved, a count at the threshold means an open
\* circuit, and no call that passes it after it opened is sending.
THEOREM CallingCircuitCorrect == Calling!Spec => []CircuitProtects
<1> Calling!ConstantsAreLegal
  BY CallingIsLegal
<1>1. Calling!IInv => CircuitProtects
  BY DEF Calling!IInv, CircuitProtects, Calling!CircuitProtects
<1> QED
  BY <1>1, CallingInvariance, PTL

\* A source that may not reach private networks sends nothing into one, whatever its name
\* resolves to each time and whatever connections other calls leave behind.
THEOREM CallingConnectionsCorrect == Calling!Spec => []PublicCallsStayPublic
<1> Calling!ConstantsAreLegal
  BY CallingIsLegal
<1>1. Calling!IInv => PublicCallsStayPublic
  BY DEF Calling!IInv, PublicCallsStayPublic, Calling!PublicCallsStayPublic
<1> QED
  BY <1>1, CallingInvariance, PTL

-----------------------------------------------------------------------------
(* Events: fan-out and queues. *)

(* Sequences of events. *)

LEMMA HubAscendingAppend ==
  ASSUME NEW s \in Seq(Nat), NEW e \in Nat, Hub!Ascending(s), \A n \in DOMAIN s : s[n] < e
  PROVE  Hub!Ascending(Append(s, e))
<1>1. /\ Len(s) \in Nat /\ DOMAIN s = 1..Len(s)
      /\ DOMAIN Append(s, e) = 1..(Len(s) + 1)
      /\ \A n \in 1..Len(s) : Append(s, e)[n] = s[n]
      /\ Append(s, e)[Len(s) + 1] = e
  OBVIOUS
<1> SUFFICES ASSUME NEW m \in DOMAIN Append(s, e), NEW n \in DOMAIN Append(s, e), m < n
             PROVE  Append(s, e)[m] < Append(s, e)[n]
  BY DEF Hub!Ascending
<1>2. m \in 1..Len(s)
  BY <1>1
<1>3. CASE n \in 1..Len(s)
  BY <1>1, <1>2, <1>3 DEF Hub!Ascending
<1>4. CASE n = Len(s) + 1
  BY <1>1, <1>2, <1>4
<1> QED
  BY <1>1, <1>3, <1>4

LEMMA HubAscendingTail ==
  ASSUME NEW s \in Seq(Nat), s # <<>>, Hub!Ascending(s)
  PROVE  /\ Tail(s) \in Seq(Nat) /\ Head(s) \in Nat /\ Hub!Ascending(Tail(s))
         /\ Head(s) = s[1] /\ 1 \in DOMAIN s
         /\ \A k \in DOMAIN Tail(s) : k + 1 \in DOMAIN s /\ Tail(s)[k] = s[k + 1]
         /\ \A k \in DOMAIN Tail(s) : Head(s) < Tail(s)[k]
<1>1. /\ Tail(s) \in Seq(Nat) /\ Head(s) \in Nat
      /\ Head(s) = s[1] /\ 1 \in DOMAIN s /\ DOMAIN s \subseteq Nat
      /\ DOMAIN Tail(s) = 1..(Len(s) - 1) /\ DOMAIN s = 1..Len(s) /\ Len(s) \in Nat
      /\ \A k \in 1..(Len(s) - 1) : Tail(s)[k] = s[k + 1]
  OBVIOUS
<1>2. \A k \in DOMAIN Tail(s) : k + 1 \in DOMAIN s /\ 1 < k + 1 /\ Tail(s)[k] = s[k + 1]
  BY <1>1
<1>3. Hub!Ascending(Tail(s))
  <2> SUFFICES ASSUME NEW m \in DOMAIN Tail(s), NEW n \in DOMAIN Tail(s), m < n
               PROVE  Tail(s)[m] < Tail(s)[n]
    BY DEF Hub!Ascending
  <2>1. m + 1 < n + 1 /\ m + 1 \in DOMAIN s /\ n + 1 \in DOMAIN s
    BY <1>1, <1>2
  <2>2. s[m + 1] < s[n + 1]
    BY <2>1 DEF Hub!Ascending
  <2> QED
    BY <1>2, <2>2
<1>4. \A k \in DOMAIN Tail(s) : Head(s) < Tail(s)[k]
  BY <1>1, <1>2 DEF Hub!Ascending
<1> QED
  BY <1>1, <1>2, <1>3, <1>4

LEMMA HubConcatAppend ==
  ASSUME NEW s \in Seq(Nat), NEW q \in Seq(Nat), NEW e \in Nat
  PROVE  s \o Append(q, e) = Append(s \o q, e)
<1>1. s \o q \in Seq(Nat) /\ <<e>> \in Seq(Nat)
  OBVIOUS
<1>2. Append(q, e) = q \o <<e>> /\ Append(s \o q, e) = (s \o q) \o <<e>>
  BY <1>1, AppendIsConcat
<1>3. ASSUME NEW d \in Seq(Nat)
      PROVE  (s \o q) \o d = s \o (q \o d)
  BY ConcatAssociative
<1>4. (s \o q) \o <<e>> = s \o (q \o <<e>>)
  BY <1>1, <1>3
<1> QED
  BY <1>2, <1>4

LEMMA HubLineTake ==
  ASSUME NEW s \in Seq(Nat), NEW q \in Seq(Nat), q # <<>>
  PROVE  (s \o <<>>) \o q = (s \o <<Head(q)>>) \o Tail(q)
<1>1. Head(q) \in Nat /\ Tail(q) \in Seq(Nat) /\ <<Head(q)>> \in Seq(Nat)
  OBVIOUS
<1>2. q = <<Head(q)>> \o Tail(q)
  <2>1. <<Head(q)>> \o Tail(q) \in Seq(Nat) /\ Len(<<Head(q)>> \o Tail(q)) = Len(q)
    BY <1>1
  <2>2. \A n \in 1..Len(q) : q[n] = (<<Head(q)>> \o Tail(q))[n]
    BY <1>1
  <2> QED
    BY <2>1, <2>2, SeqEqual
<1>3. s \o <<>> = s
  BY ConcatEmptySeq
<1> DEFINE h == <<Head(q)>>
           t == Tail(q)
<1>4. (s \o h) \o t = s \o (h \o t)
  <2>1. h \in Seq(Nat) /\ t \in Seq(Nat)
    BY <1>1
  <2> HIDE DEF h, t
  <2> QED
    BY <2>1, ConcatAssociative
<1> QED
  BY <1>2, <1>3, <1>4

LEMMA HubLineSend ==
  ASSUME NEW s \in Seq(Nat), NEW q \in Seq(Nat), NEW e \in Nat
  PROVE  (s \o <<e>>) \o q = (Append(s, e) \o <<>>) \o q
<1>1. Append(s, e) = s \o <<e>> /\ Append(s, e) \in Seq(Nat)
  BY AppendIsConcat
<1>2. Append(s, e) \o <<>> = Append(s, e)
  BY <1>1, ConcatEmptySeq
<1> QED
  BY <1>1, <1>2

LEMMA HubLineIsSeq ==
  ASSUME Hub!TypeOK, NEW c \in Subscriber
  PROVE  /\ Hub!Line(c) \in Seq(Nat) /\ hubSent[c] \in Seq(Nat) /\ hubQueue[c] \in Seq(Nat)
         /\ Hub!Carried(c) \in Seq(Nat)
<1>1. hubSent[c] \in Seq(Nat) /\ hubQueue[c] \in Seq(Nat) /\ hubHand[c] \in Nat \cup {Null}
  BY DEF Hub!TypeOK
<1>2. Hub!Carried(c) \in Seq(Nat)
  BY <1>1 DEF Hub!Carried
<1> QED
  BY <1>1, <1>2 DEF Hub!Line

-----------------------------------------------------------------------------
(* The steps. *)

\* A fan-out adds an event to the ends of lines, and counts the others.
LEMMA HubFanningOut ==
  ASSUME Hub!ConstantsAreLegal, Hub!IInv, NEW e \in Nat, Hub!FanOut(e)
  PROVE  /\ hubQueue' \in [Subscriber -> Seq(Nat)] /\ hubMissed' \in [Subscriber -> Nat]
         /\ hubOffered' \in [Subscriber -> Nat] /\
                UNCHANGED <<hubConn, hubMembers, hubHand, hubSent>>
         /\ Hub!Accounted'
         /\ \A c \in Subscriber :
                Hub!Line(c)' = Hub!Line(c) \/ Hub!Line(c)' = Append(Hub!Line(c), e)
<1>1. Hub!TypeOK
  BY DEF Hub!IInv
<1>2. /\ hubQueue' \in [Subscriber -> Seq(Nat)] /\ hubMissed' \in [Subscriber -> Nat]
      /\ hubOffered' \in [Subscriber -> Nat] /\
             UNCHANGED <<hubConn, hubMembers, hubHand, hubSent>>
  <2>1. \A c \in Subscriber :
            /\ hubQueue[c] \in Seq(Nat)
            /\ hubMissed[c] \in Nat /\ hubOffered[c] \in Nat
            /\ Append(hubQueue[c], e) \in Seq(Nat)
    BY <1>1 DEF Hub!TypeOK
  <2>2. hubQueue' \in [Subscriber -> Seq(Nat)]
    BY <2>1 DEF Hub!FanOut
  <2>3. hubMissed' \in [Subscriber -> Nat]
    BY <2>1 DEF Hub!FanOut
  <2>4. hubOffered' \in [Subscriber -> Nat]
    BY <2>1 DEF Hub!FanOut
  <2> QED
    BY <2>2, <2>3, <2>4 DEF Hub!FanOut
<1>3. ASSUME NEW c \in Subscriber
      PROVE  /\ hubOffered'[c] =
                    Len(hubSent'[c]) + Hub!Held(c)' + Len(hubQueue'[c]) + hubMissed'[c]
             /\ Hub!Line(c)' = Hub!Line(c) \/ Hub!Line(c)' = Append(Hub!Line(c), e)
  <2>1. /\ hubSent[c] \in Seq(Nat) /\ hubQueue[c] \in Seq(Nat) /\ Hub!Carried(c) \in Seq(Nat)
        /\ Len(hubSent[c]) \in Nat /\ Len(hubQueue[c]) \in Nat
        /\ Len(Append(hubQueue[c], e)) = Len(hubQueue[c]) + 1
        /\ hubMissed[c] \in Nat /\ hubOffered[c] \in Nat /\ Hub!Held(c) \in Nat
    BY <1>1, HubLineIsSeq DEF Hub!TypeOK, Hub!Held
  <2>2. hubSent'[c] = hubSent[c] /\ Hub!Carried(c)' = Hub!Carried(c) /\ Hub!Held(c)' =
            Hub!Held(c)
    BY <1>2 DEF Hub!Carried, Hub!Held
  <2>3. Hub!Line(c)' = (hubSent[c] \o Hub!Carried(c)) \o hubQueue'[c]
    BY <2>2 DEF Hub!Line
  <2>0. hubOffered[c] = Len(hubSent[c]) + Hub!Held(c) + Len(hubQueue[c]) + hubMissed[c]
    BY DEF Hub!IInv, Hub!Accounted
  <2>n. /\ Len(hubSent[c]) \in Nat /\ Len(hubQueue[c]) \in Nat
        /\ hubMissed[c] \in Nat /\ hubOffered[c] \in Nat /\ Hub!Held(c) \in Nat
    BY <2>1
  <2>p. PICK k \in Nat, h \in Nat, n \in Nat :
            k = Len(hubSent[c]) /\ h = Hub!Held(c) /\ n = Len(hubQueue[c])
    BY <2>n
  <2>s. hubOffered[c] = k + h + n + hubMissed[c]
    BY <2>0, <2>p
  <2>4. CASE c \in hubMembers /\ ~Hub!Full(c)
    <3>1. /\ hubQueue'[c] = Append(hubQueue[c], e) /\ hubMissed'[c] = hubMissed[c]
          /\ hubOffered'[c] = hubOffered[c] + 1
      BY <2>4 DEF Hub!FanOut
    <3>2. Hub!Line(c)' = (hubSent[c] \o Hub!Carried(c)) \o Append(hubQueue[c], e)
      BY <2>3, <3>1
    <3>3. @ = Append((hubSent[c] \o Hub!Carried(c)) \o hubQueue[c], e)
      <4>1. hubSent[c] \o Hub!Carried(c) \in Seq(Nat) /\ hubQueue[c] \in Seq(Nat)
        BY <2>1
      <4> QED
        BY <4>1, HubConcatAppend
    <3>4. Hub!Line(c)' = Append(Hub!Line(c), e)
      BY <3>2, <3>3 DEF Hub!Line
    <3>5. /\ Len(hubSent'[c]) = Len(hubSent[c]) /\ Len(hubQueue'[c]) = Len(hubQueue[c]) + 1
          /\ Hub!Held(c)' = Hub!Held(c)
      BY <2>1, <2>2, <3>1
    <3>6. hubOffered[c] + 1 = k + h + (n + 1) + hubMissed[c]
      BY <2>n, <2>s
    <3>7. hubOffered'[c] = Len(hubSent'[c]) + Hub!Held(c)' + Len(hubQueue'[c]) + hubMissed'[c]
      BY <2>p, <3>1, <3>5, <3>6
    <3> QED
      BY <3>4, <3>7
  <2>5. CASE c \in hubMembers /\ Hub!Full(c)
    <3>1. /\ hubQueue'[c] = hubQueue[c] /\ hubMissed'[c] = hubMissed[c] + 1
          /\ hubOffered'[c] = hubOffered[c] + 1
      BY <2>5 DEF Hub!FanOut
    <3>2. Hub!Line(c)' = Hub!Line(c)
      BY <2>3, <3>1 DEF Hub!Line
    <3>3. /\ Len(hubSent'[c]) = Len(hubSent[c]) /\ Len(hubQueue'[c]) = Len(hubQueue[c])
          /\ Hub!Held(c)' = Hub!Held(c)
      BY <2>2, <3>1
    <3>4. hubOffered[c] + 1 = k + h + n + (hubMissed[c] + 1)
      BY <2>n, <2>s
    <3>5. hubOffered'[c] = Len(hubSent'[c]) + Hub!Held(c)' + Len(hubQueue'[c]) + hubMissed'[c]
      BY <2>p, <3>1, <3>3, <3>4
    <3> QED
      BY <3>2, <3>5
  <2>6. CASE c \notin hubMembers
    <3>1. /\ hubQueue'[c] = hubQueue[c] /\ hubMissed'[c] = hubMissed[c] /\ hubOffered'[c] =
                 hubOffered[c]
      BY <2>6 DEF Hub!FanOut
    <3> QED
      BY <2>0, <2>1, <2>2, <2>3, <3>1 DEF Hub!Line
  <2> QED
    BY <2>4, <2>5, <2>6
<1> QED
  BY <1>2, <1>3 DEF Hub!Accounted

\* Lines that grow by an event above them all stay ascending.
LEMMA HubLinesGrow ==
  ASSUME Hub!ConstantsAreLegal, Hub!IInv, NEW e \in Nat,
         \A c \in Subscriber :
             Hub!Line(c)' = Hub!Line(c) \/ Hub!Line(c)' = Append(Hub!Line(c), e),
         \A c \in Subscriber : \A n \in DOMAIN Hub!Line(c) : Hub!Line(c)[n] < e,
         hubEvents' \in Nat, hubEvents' >= hubEvents, e <= hubEvents', hubWire' \in Seq(Nat),
         \A k \in DOMAIN hubWire' : e < hubWire'[k]
  PROVE  Hub!LinesAscend'
<1> SUFFICES ASSUME NEW c \in Subscriber
             PROVE  /\ Hub!Ascending(Hub!Line(c)')
                    /\ \A n \in DOMAIN Hub!Line(c)' :
                           /\ Hub!Line(c)'[n] <= hubEvents'
                           /\ \A k \in DOMAIN hubWire' : Hub!Line(c)'[n] < hubWire'[k]
  BY DEF Hub!LinesAscend, Hub!Ascending
<1> DEFINE s == Hub!Line(c)
           t == Hub!Line(c)'
<1>1. /\ s \in Seq(Nat) /\ Hub!Ascending(s) /\ hubEvents \in Nat
      /\ \A n \in DOMAIN s : s[n] \in Nat /\ s[n] <= hubEvents /\ s[n] < e
  BY HubLineIsSeq DEF Hub!IInv, Hub!TypeOK, Hub!LinesAscend
<1>2. t = s \/ t = Append(s, e)
  OBVIOUS
<1>3. \A k \in DOMAIN hubWire' : hubWire'[k] \in Nat
  OBVIOUS
<1> HIDE DEF s, t
<1>4. CASE t = s
  BY <1>1, <1>3, <1>4 DEF t
<1>5. CASE t = Append(s, e)
  <2>1. Hub!Ascending(t)
    BY <1>1, <1>5, HubAscendingAppend
  <2>2. \A n \in DOMAIN t : (n \in DOMAIN s /\ t[n] = s[n]) \/ t[n] = e
    BY <1>1, <1>5
  <2>3. \A n \in DOMAIN t : t[n] <= hubEvents' /\ \A k \in DOMAIN hubWire' : t[n] < hubWire'[k]
    BY <1>1, <1>3, <2>2
  <2> QED
    BY <2>1, <2>3 DEF t
<1> QED
  BY <1>2, <1>4, <1>5

LEMMA HubPublishStep ==
  ASSUME Hub!ConstantsAreLegal, Hub!IInv, Hub!Publish
  PROVE  Hub!IInv'
<1> DEFINE e == hubEvents + 1
<1>1. /\ hubEvents \in Nat /\ e \in Nat /\ hubEvents' = e /\ hubWire \in Seq(Nat)
      /\ \A c \in Subscriber : \A n \in DOMAIN Hub!Line(c) : Hub!Line(c)[n] < e
  <2>1. ASSUME NEW c \in Subscriber, NEW n \in DOMAIN Hub!Line(c)
        PROVE  Hub!Line(c)[n] < hubEvents + 1
    <3>1. Hub!Line(c)[n] <= hubEvents /\ Hub!Line(c) \in Seq(Nat) /\ hubEvents \in Nat
      BY HubLineIsSeq DEF Hub!IInv, Hub!TypeOK, Hub!LinesAscend
    <3>2. Hub!Line(c)[n] \in Nat
      BY <3>1
    <3> QED
      BY <3>1, <3>2
  <2> QED
    BY <2>1 DEF Hub!IInv, Hub!TypeOK, Hub!Publish
<1>2. CASE SharedHubs
  <2>1. /\ UNCHANGED Hub!client
        /\ hubWire' = hubWire \/ hubWire' = Append(hubWire, e)
    BY <1>1, <1>2 DEF Hub!Publish
  <2>2. hubWire' \in Seq(Nat) /\ Hub!Ascending(hubWire') /\ \A k \in DOMAIN hubWire' :
            hubWire'[k] <= hubEvents'
    <3>1. \A k \in DOMAIN hubWire :
              hubWire[k] \in Nat /\ hubWire[k] <= hubEvents /\ hubWire[k] < e
      BY <1>1 DEF Hub!IInv, Hub!WireIsAhead
    <3>2. CASE hubWire' = hubWire
      BY <1>1, <3>1, <3>2 DEF Hub!IInv, Hub!WireIsAhead
    <3>3. CASE hubWire' = Append(hubWire, e)
      <4>1. Hub!Ascending(hubWire')
        BY <1>1, <3>1, <3>3, HubAscendingAppend DEF Hub!IInv, Hub!WireIsAhead
      <4>2. \A k \in DOMAIN hubWire' :
                (k \in DOMAIN hubWire /\ hubWire'[k] = hubWire[k]) \/ hubWire'[k] = e
        BY <1>1, <3>3
      <4> QED
        BY <1>1, <3>1, <3>3, <4>1, <4>2
    <3> QED
      BY <2>1, <3>2, <3>3
  <2>3. \A k \in DOMAIN hubWire' :
            (k \in DOMAIN hubWire /\ hubWire'[k] = hubWire[k]) \/ hubWire'[k] = e
    BY <1>1, <2>1
  <2>4. UNCHANGED <<hubMembers, hubQueue, hubHand, hubSent, hubMissed, hubOffered>>
    BY <2>1 DEF Hub!client
  <2>5. Hub!TypeOK'
    BY <1>1, <2>2, <2>4 DEF Hub!IInv, Hub!TypeOK
  <2>6. Hub!Accounted'
    BY <2>4 DEF Hub!IInv, Hub!Accounted, Hub!Held
  <2>7. Hub!WireIsAhead'
    BY <1>2, <2>2 DEF Hub!WireIsAhead
  <2>8. Hub!LinesAscend'
    <3> SUFFICES ASSUME NEW c \in Subscriber
                 PROVE  /\ Hub!Ascending(Hub!Line(c))
                        /\ \A n \in DOMAIN Hub!Line(c) :
                               /\ Hub!Line(c)[n] <= hubEvents'
                               /\ \A k \in DOMAIN hubWire' : Hub!Line(c)[n] < hubWire'[k]
      BY <2>4 DEF Hub!LinesAscend, Hub!Line, Hub!Carried
    <3>1. \A n \in DOMAIN Hub!Line(c) : Hub!Line(c)[n] \in Nat
      BY HubLineIsSeq DEF Hub!IInv
    <3> QED
      BY <1>1, <2>3, <3>1 DEF Hub!IInv, Hub!LinesAscend
  <2> QED
    BY <2>5, <2>6, <2>7, <2>8 DEF Hub!IInv
<1>3. CASE ~SharedHubs
  <2>1. Hub!FanOut(e) /\ hubWire' = hubWire /\ hubWire = <<>>
    BY <1>1, <1>3 DEF Hub!Publish, Hub!shared, Hub!IInv, Hub!WireIsAhead
  <2>2. Hub!LinesAscend'
    BY <1>1, <2>1, HubFanningOut, HubLinesGrow
  <2>3. Hub!TypeOK' /\ Hub!Accounted'
    BY <1>1, <2>1, HubFanningOut DEF Hub!IInv, Hub!TypeOK
  <2>4. Hub!WireIsAhead'
    BY <1>1, <2>1 DEF Hub!WireIsAhead, Hub!Ascending
  <2> QED
    BY <2>2, <2>3, <2>4 DEF Hub!IInv
<1> QED
  BY <1>2, <1>3

LEMMA HubListenerTakesStep ==
  ASSUME Hub!ConstantsAreLegal, Hub!IInv, Hub!ListenerTakes
  PROVE  Hub!IInv'
<1> DEFINE e == Head(hubWire)
<1>1. /\ hubWire \in Seq(Nat) /\ hubWire # <<>> /\ Hub!Ascending(hubWire) /\ hubEvents \in Nat
      /\ hubWire' = Tail(hubWire) /\ hubEvents' = hubEvents /\ Hub!FanOut(e)
  BY DEF Hub!IInv, Hub!TypeOK, Hub!WireIsAhead, Hub!ListenerTakes
<1>2. /\ Tail(hubWire) \in Seq(Nat) /\ e \in Nat /\ Hub!Ascending(Tail(hubWire))
      /\ e = hubWire[1] /\ 1 \in DOMAIN hubWire
      /\ \A k \in DOMAIN Tail(hubWire) :
             k + 1 \in DOMAIN hubWire /\ Tail(hubWire)[k] = hubWire[k + 1]
      /\ \A k \in DOMAIN Tail(hubWire) : e < Tail(hubWire)[k]
  BY <1>1, HubAscendingTail
<1> HIDE DEF e
<1>3. /\ e <= hubEvents /\ \A c \in Subscriber : \A n \in DOMAIN Hub!Line(c) :
             Hub!Line(c)[n] < e
  BY <1>2 DEF Hub!IInv, Hub!WireIsAhead, Hub!LinesAscend
<1>4. Hub!LinesAscend'
  <2>1. \A c \in Subscriber :
            Hub!Line(c)' = Hub!Line(c) \/ Hub!Line(c)' = Append(Hub!Line(c), e)
    BY <1>1, <1>2, HubFanningOut
  <2>2. /\ hubEvents' \in Nat /\ hubEvents' >= hubEvents /\ e <= hubEvents'
        /\ hubWire' \in Seq(Nat)
        /\ \A k \in DOMAIN hubWire' : e < hubWire'[k]
    BY <1>1, <1>2, <1>3
  <2> QED
    BY <1>2, <1>3, <2>1, <2>2, HubLinesGrow
<1>5. Hub!TypeOK' /\ Hub!Accounted'
  BY <1>1, <1>2, HubFanningOut DEF Hub!IInv, Hub!TypeOK
<1>6. Hub!WireIsAhead'
  <2>1. ~SharedHubs => FALSE
    BY <1>1 DEF Hub!IInv, Hub!WireIsAhead
  <2>2. \A k \in DOMAIN hubWire' : hubWire'[k] <= hubEvents'
    BY <1>1, <1>2 DEF Hub!IInv, Hub!WireIsAhead
  <2> QED
    BY <1>1, <1>2, <2>1, <2>2 DEF Hub!WireIsAhead
<1> QED
  BY <1>4, <1>5, <1>6 DEF Hub!IInv

\* A step that leaves the lines and their counts alone, and at most empties the wire.
LEMMA HubQuietStep ==
  ASSUME Hub!IInv, UNCHANGED <<hubQueue, hubHand, hubSent, hubMissed, hubOffered, hubEvents>>,
         hubMembers' \subseteq Subscriber, hubWire' = hubWire \/ hubWire' = <<>>
  PROVE  Hub!IInv'
<1>1. hubWire' \in Seq(Nat) /\ \A k \in DOMAIN hubWire' :
          k \in DOMAIN hubWire /\ hubWire'[k] = hubWire[k]
  <2>1. CASE hubWire' = hubWire
    BY <2>1 DEF Hub!IInv, Hub!TypeOK
  <2>2. CASE hubWire' = <<>>
    BY <2>2
  <2> QED
    BY <2>1, <2>2
<1>2. Hub!TypeOK' /\ Hub!Accounted'
  BY <1>1 DEF Hub!IInv, Hub!TypeOK, Hub!Accounted, Hub!Held
<1>3. Hub!WireIsAhead'
  BY <1>1 DEF Hub!IInv, Hub!WireIsAhead, Hub!Ascending
<1>4. Hub!LinesAscend'
  <2> SUFFICES ASSUME NEW c \in Subscriber
               PROVE  /\ Hub!Ascending(Hub!Line(c))
                      /\ \A n \in DOMAIN Hub!Line(c) :
                             /\ Hub!Line(c)[n] <= hubEvents
                             /\ \A k \in DOMAIN hubWire' : Hub!Line(c)[n] < hubWire'[k]
    BY DEF Hub!LinesAscend, Hub!Line, Hub!Carried
  <2> QED
    BY <1>1 DEF Hub!IInv, Hub!LinesAscend
<1> QED
  BY <1>2, <1>3, <1>4 DEF Hub!IInv

\* A step of a client that moves its line on.
LEMMA HubMovingStep ==
  ASSUME Hub!ConstantsAreLegal, Hub!IInv, NEW c \in Subscriber, Hub!Take(c) \/ Hub!SendEvent(c)
  PROVE  Hub!IInv'
<1>1. /\ hubSent[c] \in Seq(Nat) /\ hubQueue[c] \in Seq(Nat)
      /\ hubHand[c] \in Nat \cup {Null}
      /\ Null \notin Nat
      /\ Len(hubSent[c]) \in Nat /\ Len(hubQueue[c]) \in Nat
      /\ hubMissed[c] \in Nat /\ hubOffered[c] \in Nat
  <2>1. /\ hubSent[c] \in Seq(Nat) /\ hubQueue[c] \in Seq(Nat)
        /\ hubHand[c] \in Nat \cup {Null}
        /\ hubMissed[c] \in Nat /\ hubOffered[c] \in Nat
    BY DEF Hub!IInv, Hub!TypeOK
  <2> QED
    BY <2>1 DEF Hub!ConstantsAreLegal
<1>2. /\ UNCHANGED <<hubMembers, hubMissed, hubOffered, hubEvents, hubWire>>
      /\ \A d \in Subscriber \ {c} : UNCHANGED <<hubQueue[d], hubHand[d], hubSent[d]>>
      /\ hubQueue' \in [Subscriber -> Seq(Nat)] /\ hubSent' \in [Subscriber -> Seq(Nat)]
      /\ hubHand' \in [Subscriber -> Nat \cup {Null}]
      /\ Hub!Line(c)' = Hub!Line(c)
      /\ Len(hubSent'[c]) + Hub!Held(c)' + Len(hubQueue'[c]) =
             Len(hubSent[c]) + Hub!Held(c) + Len(hubQueue[c])
  <2>1. CASE Hub!Take(c)
    <3>1. /\ hubHand[c] = Null /\ hubQueue[c] # <<>>
          /\ hubHand' = [hubHand EXCEPT ![c] = Head(hubQueue[c])]
          /\ hubQueue' = [hubQueue EXCEPT ![c] = Tail(hubQueue[c])]
          /\ UNCHANGED <<hubMembers, hubSent, hubMissed, hubOffered, hubEvents, hubWire>>
      BY <2>1 DEF Hub!Take, Hub!shared
    <3>2. /\ Head(hubQueue[c]) \in Nat /\ Tail(hubQueue[c]) \in Seq(Nat)
          /\ Len(Tail(hubQueue[c])) = Len(hubQueue[c]) - 1
      BY <1>1, <3>1
    <3>3. /\ hubQueue' \in [Subscriber -> Seq(Nat)]
          /\ hubHand' \in [Subscriber -> Nat \cup {Null}]
          /\ hubHand'[c] = Head(hubQueue[c]) /\ hubQueue'[c] =
                 Tail(hubQueue[c]) /\ hubSent'[c] = hubSent[c]
          /\ \A d \in Subscriber \ {c} : UNCHANGED <<hubQueue[d], hubHand[d], hubSent[d]>>
      BY <3>1, <3>2 DEF Hub!IInv, Hub!TypeOK
    <3>4. /\ Hub!Carried(c) = <<>> /\ Hub!Carried(c)' = <<Head(hubQueue[c])>>
          /\ Hub!Held(c) = 0 /\ Hub!Held(c)' = 1
      BY <1>1, <3>1, <3>2, <3>3 DEF Hub!Carried, Hub!Held
    <3>5. Hub!Line(c)' = Hub!Line(c)
      BY <1>1, <3>1, <3>3, <3>4, HubLineTake DEF Hub!Line
    <3> QED
      BY <1>1, <3>1, <3>2, <3>3, <3>4, <3>5 DEF Hub!IInv, Hub!TypeOK
  <2>2. CASE Hub!SendEvent(c)
    <3>1. /\ hubHand[c] # Null
          /\ hubSent' = [hubSent EXCEPT ![c] = Append(hubSent[c], hubHand[c])]
          /\ hubHand' = [hubHand EXCEPT ![c] = Null]
          /\ UNCHANGED <<hubMembers, hubQueue, hubMissed, hubOffered, hubEvents, hubWire>>
      BY <2>2 DEF Hub!SendEvent, Hub!shared
    <3>2. hubHand[c] \in Nat /\ Append(hubSent[c], hubHand[c]) \in Seq(Nat)
          /\ Len(Append(hubSent[c], hubHand[c])) = Len(hubSent[c]) + 1
      BY <1>1, <3>1
    <3>3. /\ hubSent' \in [Subscriber -> Seq(Nat)]
          /\ hubHand' \in [Subscriber -> Nat \cup {Null}]
          /\ hubHand'[c] = Null /\ hubSent'[c] =
                 Append(hubSent[c], hubHand[c]) /\ hubQueue'[c] = hubQueue[c]
          /\ \A d \in Subscriber \ {c} : UNCHANGED <<hubQueue[d], hubHand[d], hubSent[d]>>
      BY <3>1, <3>2 DEF Hub!IInv, Hub!TypeOK
    <3>4. /\ Hub!Carried(c) = <<hubHand[c]>> /\ Hub!Carried(c)' = <<>>
          /\ Hub!Held(c) = 1 /\ Hub!Held(c)' = 0
      BY <1>1, <3>1, <3>2, <3>3 DEF Hub!Carried, Hub!Held
    <3>5. /\ Hub!Line(c) = (hubSent[c] \o <<hubHand[c]>>) \o hubQueue[c]
          /\ Hub!Line(c)' = (Append(hubSent[c], hubHand[c]) \o <<>>) \o hubQueue[c]
      BY <3>3, <3>4 DEF Hub!Line
    <3>6. Hub!Line(c)' = Hub!Line(c)
      BY <1>1, <3>2, <3>5, HubLineSend
    <3> QED
      BY <1>1, <3>1, <3>2, <3>3, <3>4, <3>6 DEF Hub!IInv, Hub!TypeOK
  <2> QED
    BY <2>1, <2>2
<1>3. \A d \in Subscriber : Hub!Line(d)' = Hub!Line(d)
  BY <1>2 DEF Hub!Line, Hub!Carried
<1>4. Hub!TypeOK'
  BY <1>2 DEF Hub!IInv, Hub!TypeOK
<1>5. Hub!Accounted'
  <2> SUFFICES ASSUME NEW d \in Subscriber
               PROVE  hubOffered'[d] =
                          Len(hubSent'[d]) + Hub!Held(d)' + Len(hubQueue'[d]) + hubMissed'[d]
    BY DEF Hub!Accounted
  <2>1. CASE d = c
    <3>1. /\ Len(hubSent'[c]) \in Nat /\ Len(hubQueue'[c]) \in Nat
          /\ Hub!Held(c) \in Nat /\ Hub!Held(c)' \in Nat
      BY <1>2 DEF Hub!Held
    <3> QED
      BY <1>1, <1>2, <2>1, <3>1 DEF Hub!IInv, Hub!Accounted
  <2>2. CASE d # c
    BY <1>2, <2>2 DEF Hub!IInv, Hub!Accounted, Hub!Held
  <2> QED
    BY <2>1, <2>2
<1>6. Hub!WireIsAhead' /\ Hub!LinesAscend'
  BY <1>2, <1>3 DEF Hub!IInv, Hub!WireIsAhead, Hub!LinesAscend, Hub!Ascending
<1> QED
  BY <1>4, <1>5, <1>6 DEF Hub!IInv

\* Of any clients, kinds of hub, queue sizes, outages and orders, no event fanned out to
\* a member is lost in silence, sent twice or sent out of order.
LEMMA HubInductive ==
  ASSUME Hub!ConstantsAreLegal
  PROVE  Hub!IInv /\ [Hub!Next]_Hub!vars => Hub!IInv'
<1> SUFFICES ASSUME Hub!IInv, [Hub!Next]_Hub!vars
             PROVE  Hub!IInv'
  OBVIOUS
<1>0. hubMembers \subseteq Subscriber
  BY DEF Hub!IInv, Hub!TypeOK
<1>1. ASSUME NEW c \in Subscriber, Hub!Endpoint(c)
      PROVE  Hub!IInv'
  <2>1. CASE Hub!Take(c) \/ Hub!SendEvent(c)
    BY <2>1, HubMovingStep
  <2>2. CASE Hub!Open(c)
    BY <1>0, <2>2, HubQuietStep DEF Hub!Open, Hub!StartListener, Hub!shared
  <2>3. CASE Hub!Refuse(c) \/ Hub!Enter(c) \/ Hub!Accept(c)
    BY <1>0, <2>3, HubQuietStep DEF Hub!Refuse, Hub!Enter, Hub!Accept, Hub!shared
  <2>4. CASE Hub!SendFails(c) \/ Hub!Heartbeat(c) \/ Hub!Break(c) \/ Hub!Leave(c)
    BY <1>0, <2>4, HubQuietStep DEF Hub!SendFails, Hub!Heartbeat, Hub!Break, Hub!Leave,
       Hub!shared
  <2> QED
    BY <1>1, <2>1, <2>2, <2>3, <2>4 DEF Hub!Endpoint
<1>2. CASE Hub!PublisherEnsures \/ Hub!ListenerConnects \/ Hub!ListenerEnds
  BY <1>0, <1>2, HubQuietStep
  DEF Hub!PublisherEnsures, Hub!ListenerConnects, Hub!ListenerEnds, Hub!StartListener,
     Hub!client, Hub!shared
<1>3. CASE UNCHANGED Hub!vars
  BY <1>0, <1>3, HubQuietStep DEF Hub!vars, Hub!client, Hub!shared
<1> QED
  BY <1>1, <1>2, <1>3, HubPublishStep, HubListenerTakesStep DEF Hub!Next, Hub!Hub, Hub!Finished

\* Of any clients, kinds of hub, queue sizes, outages and orders of steps, every event
\* fanned out to a member is sent to it, held, queued or counted, and what it is sent
\* comes once and in order.
THEOREM HubDropsCorrect == Hub!Spec => []DropsAreCounted
<1> Hub!ConstantsAreLegal
  BY HubIsLegal
<1>1. Hub!Init => Hub!IInv
  <2> SUFFICES ASSUME Hub!Init
               PROVE  Hub!IInv
    OBVIOUS
  <2>1. Hub!TypeOK /\ Hub!WireIsAhead
    BY DEF Hub!Init, Hub!TypeOK, Hub!WireIsAhead, Hub!Ascending
  <2>2. \A c \in Subscriber : Hub!Line(c) = <<>>
    BY DEF Hub!Init, Hub!Line, Hub!Carried
  <2>3. Hub!LinesAscend
    BY <2>2 DEF Hub!LinesAscend, Hub!Ascending
  <2>4. Hub!Accounted
    BY DEF Hub!Init, Hub!Accounted, Hub!Held
  <2> QED
    BY <2>1, <2>3, <2>4 DEF Hub!IInv
<1>2. Hub!IInv /\ [Hub!Next]_Hub!vars => Hub!IInv'
  BY HubInductive
<1>3. Hub!IInv => DropsAreCounted
  BY DEF Hub!IInv, Hub!Accounted, Hub!LinesAscend, Hub!Line, Hub!Carried, DropsAreCounted,
     Hub!DropsAreCounted
<1> QED
  BY <1>1, <1>2, <1>3, PTL DEF Hub!Spec

-----------------------------------------------------------------------------
(* Audit: the queue and its writer. *)

LEMMA TrailContainsConcat ==
  ASSUME NEW s \in Seq(AuditEvent), NEW t \in Seq(AuditEvent), NEW e
  PROVE  Trail!Contains(s \o t, e) <=> Trail!Contains(s, e) \/ Trail!Contains(t, e)
<1>1. /\ Len(s \o t) = Len(s) + Len(t)
      /\ \A i \in 1..Len(s) : (s \o t)[i] = s[i]
      /\ \A i \in 1..Len(t) : (s \o t)[Len(s) + i] = t[i]
  OBVIOUS
<1>2. ASSUME NEW i \in 1..Len(s \o t), (s \o t)[i] = e
      PROVE  Trail!Contains(s, e) \/ Trail!Contains(t, e)
  <2>1. CASE i <= Len(s)
    BY <1>1, <1>2, <2>1 DEF Trail!Contains
  <2>2. CASE i > Len(s)
    <3>1. i - Len(s) \in 1..Len(t) /\ t[i - Len(s)] = e
      BY <1>1, <1>2, <2>2
    <3> QED
      BY <3>1 DEF Trail!Contains
  <2> QED
    BY <2>1, <2>2
<1>3. ASSUME NEW i \in 1..Len(s), s[i] = e
      PROVE  Trail!Contains(s \o t, e)
  BY <1>1, <1>3 DEF Trail!Contains
<1>4. ASSUME NEW i \in 1..Len(t), t[i] = e
      PROVE  Trail!Contains(s \o t, e)
  <2>1. Len(s) + i \in 1..Len(s \o t) /\ (s \o t)[Len(s) + i] = e
    BY <1>1, <1>4
  <2> QED
    BY <2>1 DEF Trail!Contains
<1> QED
  BY <1>2, <1>3, <1>4 DEF Trail!Contains

LEMMA TrailContainsAppend ==
  ASSUME NEW s \in Seq(AuditEvent), NEW x \in AuditEvent
  PROVE  /\ Append(s, x) \in Seq(AuditEvent) /\ Len(Append(s, x)) = Len(s) + 1
         /\ \A e : Trail!Contains(Append(s, x), e) <=> Trail!Contains(s, e) \/ e = x
         /\ Trail!Distinct(s) /\ ~Trail!Contains(s, x) => Trail!Distinct(Append(s, x))
<1>1. /\ Append(s, x) \in Seq(AuditEvent) /\ Len(Append(s, x)) = Len(s) + 1
      /\ \A i \in 1..Len(s) : Append(s, x)[i] = s[i]
      /\ Append(s, x)[Len(s) + 1] = x /\ Len(s) \in Nat
  OBVIOUS
<1>2. \A i : i \in 1..Len(Append(s, x)) <=> i \in 1..Len(s) \/ i = Len(s) + 1
  BY <1>1
<1>3. \A e : Trail!Contains(Append(s, x), e) <=> Trail!Contains(s, e) \/ e = x
  BY <1>1, <1>2 DEF Trail!Contains
<1>4. ASSUME Trail!Distinct(s), ~Trail!Contains(s, x)
      PROVE  Trail!Distinct(Append(s, x))
  BY <1>1, <1>2, <1>4 DEF Trail!Contains, Trail!Distinct
<1> QED
  BY <1>1, <1>3, <1>4

LEMMA TrailContainsTail ==
  ASSUME NEW s \in Seq(AuditEvent), s # <<>>
  PROVE  /\ Tail(s) \in Seq(AuditEvent) /\ Len(Tail(s)) = Len(s) - 1 /\ Head(s) \in AuditEvent
         /\ \A e : Trail!Contains(s, e) <=> Trail!Contains(Tail(s), e) \/ e = Head(s)
         /\ Trail!Distinct(s) => Trail!Distinct(Tail(s)) /\ ~Trail!Contains(Tail(s), Head(s))
<1>1. /\ Tail(s) \in Seq(AuditEvent) /\ Len(Tail(s)) = Len(s) - 1 /\ Head(s) \in AuditEvent
      /\ Head(s) = s[1] /\ Len(s) \in Nat /\ Len(s) > 0
      /\ \A i \in 1..Len(Tail(s)) : Tail(s)[i] = s[i + 1]
  OBVIOUS
<1>2. ASSUME NEW e, Trail!Contains(s, e)
      PROVE  Trail!Contains(Tail(s), e) \/ e = Head(s)
  <2>1. PICK i \in 1..Len(s) : s[i] = e
    BY <1>2 DEF Trail!Contains
  <2>2. CASE i # 1
    <3>1. i - 1 \in 1..Len(Tail(s)) /\ Tail(s)[i - 1] = e
      BY <1>1, <2>1, <2>2
    <3> QED
      BY <3>1 DEF Trail!Contains
  <2> QED
    BY <1>1, <2>1, <2>2
<1>3. \A i \in 1..Len(Tail(s)) : i + 1 \in 1..Len(s)
  BY <1>1
<1>4. \A e : Trail!Contains(Tail(s), e) \/ e = Head(s) => Trail!Contains(s, e)
  BY <1>1, <1>3 DEF Trail!Contains
<1>5. ASSUME Trail!Distinct(s)
      PROVE  Trail!Distinct(Tail(s)) /\ ~Trail!Contains(Tail(s), Head(s))
  BY <1>1, <1>3, <1>5 DEF Trail!Contains, Trail!Distinct
<1> QED
  BY <1>1, <1>2, <1>4, <1>5

\* A count adds one to the drops of what the sequence holds.
LEMMA TrailCounting ==
  ASSUME Trail!TypeOK, NEW s, Trail!Count(s)
  PROVE  /\ auditDropped' \in [AuditEvent -> Nat]
         /\ \A e \in AuditEvent :
                /\ Trail!Contains(s, e) => auditDropped'[e] = auditDropped[e] + 1
                /\ ~Trail!Contains(s, e) => auditDropped'[e] = auditDropped[e]
BY DEF Trail!TypeOK, Trail!Count

\* The ends of an attempt store the batch, or do not.
LEMMA TrailStoring ==
  ASSUME Trail!TypeOK, Trail!Store \/ UNCHANGED auditStored
  PROVE  /\ auditStored' \in [AuditEvent -> Nat]
         /\ \A e \in AuditEvent : auditStored'[e] >= auditStored[e]
         /\ Trail!Store => \A e \in AuditEvent : Trail!Contains(auditBatch, e) =>
                auditStored'[e] > 0
<1>0. auditStored \in [AuditEvent -> Nat]
  BY DEF Trail!TypeOK
<1>1. CASE Trail!Store
  <2>1. auditStored' \in [AuditEvent -> Nat]
    BY <1>0, <1>1 DEF Trail!Store
  <2>2. \A e \in AuditEvent :
            /\ auditStored'[e] >= auditStored[e]
            /\ Trail!Contains(auditBatch, e) => auditStored'[e] > 0
    BY <1>0, <1>1 DEF Trail!Store
  <2> QED
    BY <2>1, <2>2
<1>2. CASE ~Trail!Store
  <2>1. auditStored' = auditStored
    BY <1>2
  <2> QED
    BY <1>0, <1>2, <2>1
<1> QED
  BY <1>1, <1>2

LEMMA TrailContainsNothing == \A e : ~Trail!Contains(<<>>, e)
BY DEF Trail!Contains

LEMMA TrailSubmitStep ==
  ASSUME Trail!IInv, NEW e \in AuditEvent, Trail!Submit(e)
  PROVE  Trail!IInv'
<1>1. CASE Len(auditQueue) < MaxQueue
  <2>1. /\ auditQueue' = Append(auditQueue, e) /\ auditUnfinished' = auditUnfinished + 1
        /\ e \notin auditSubmitted /\ auditSubmitted' =
               auditSubmitted \cup {e} /\ auditClosing = "open"
        /\ UNCHANGED <<auditBatch, auditWriter, auditAttempt, auditStored, auditDropped,
           auditClosing>>
    BY <1>1 DEF Trail!Submit
  <2>2. ~Trail!Contains(auditQueue, e) /\ ~Trail!Contains(auditBatch, e)
    BY <2>1 DEF Trail!IInv, Trail!OnePlace
  <2>3. /\ auditQueue' \in Seq(AuditEvent) /\ Trail!Distinct(auditQueue')
        /\ Len(auditQueue') = Len(auditQueue) + 1
        /\ \A f : Trail!Contains(auditQueue', f) <=> Trail!Contains(auditQueue, f) \/ f = e
    BY <2>1, <2>2, TrailContainsAppend DEF Trail!IInv, Trail!TypeOK, Trail!OnePlace
  <2>4. Trail!TypeOK' /\ Trail!OnePlace'
    BY <2>1, <2>2, <2>3 DEF Trail!IInv, Trail!TypeOK, Trail!OnePlace
  <2>5. Trail!NotCounted' /\ Trail!Kept'
    BY <2>1, <2>2, <2>3 DEF Trail!IInv, Trail!TypeOK, Trail!NotCounted, Trail!Kept
  <2> QED
    BY <2>4, <2>5 DEF Trail!IInv
<1>2. CASE ~(Len(auditQueue) < MaxQueue)
  <2>1. /\ Trail!Count(<<e>>)
        /\ e \notin auditSubmitted /\ auditSubmitted' =
               auditSubmitted \cup {e} /\ auditClosing = "open"
        /\ UNCHANGED <<auditQueue, auditUnfinished, auditBatch, auditWriter, auditAttempt,
           auditStored, auditClosing>>
    BY <1>2 DEF Trail!Submit
  <2>2. \A f : Trail!Contains(<<e>>, f) <=> f = e
    BY DEF Trail!Contains
  <2>3. /\ auditDropped' \in [AuditEvent -> Nat] /\ auditDropped'[e] = auditDropped[e] + 1
        /\ \A f \in AuditEvent : f # e => auditDropped'[f] = auditDropped[f]
    BY <2>1, <2>2, TrailCounting DEF Trail!IInv
  <2>4. auditDropped[e] = 0 /\ ~Trail!Contains(auditQueue, e) /\ ~Trail!Contains(auditBatch, e)
    BY <2>1 DEF Trail!IInv, Trail!OnePlace, Trail!NotCounted
  <2>5. Trail!TypeOK' /\ Trail!OnePlace'
    BY <2>1, <2>3 DEF Trail!IInv, Trail!TypeOK, Trail!OnePlace
  <2>6. Trail!NotCounted' /\ Trail!Kept'
    BY <2>1, <2>3, <2>4 DEF Trail!IInv, Trail!TypeOK, Trail!NotCounted, Trail!Kept
  <2> QED
    BY <2>5, <2>6 DEF Trail!IInv
<1> QED
  BY <1>1, <1>2

LEMMA TrailTakeStep ==
  ASSUME Trail!IInv, Trail!Take, auditClosing \in {"open", "joining"}
  PROVE  Trail!IInv'
<1> DEFINE h == Head(auditQueue)
<1>1. /\ auditQueue # <<>> /\ auditQueue' = Tail(auditQueue)
      /\ auditBatch' = Append(auditBatch, h)
      /\ UNCHANGED <<auditWriter, auditAttempt, auditUnfinished, auditSubmitted, auditStored,
         auditDropped, auditClosing>>
  BY DEF Trail!Take
<1>2. /\ auditQueue' \in Seq(AuditEvent) /\ h \in AuditEvent
      /\ Len(auditQueue') = Len(auditQueue) - 1
      /\ Trail!Distinct(auditQueue') /\ ~Trail!Contains(auditQueue', h)
      /\ \A e : Trail!Contains(auditQueue, e) <=> Trail!Contains(auditQueue', e) \/ e = h
  BY <1>1, TrailContainsTail DEF Trail!IInv, Trail!TypeOK, Trail!OnePlace
<1>3. /\ auditBatch' \in Seq(AuditEvent) /\ Len(auditBatch') = Len(auditBatch) + 1
      /\ \A e : Trail!Contains(auditBatch', e) <=> Trail!Contains(auditBatch, e) \/ e = h
  BY <1>1, <1>2, TrailContainsAppend DEF Trail!IInv, Trail!TypeOK
<1> HIDE DEF h
<1>4. Trail!TypeOK'
  BY <1>1, <1>2, <1>3 DEF Trail!IInv, Trail!TypeOK
<1>5. Trail!OnePlace'
  <2>1. Len(auditQueue) \in Nat /\ Len(auditBatch) \in Nat
    BY DEF Trail!IInv, Trail!TypeOK
  <2> QED
    BY <1>1, <1>2, <1>3, <2>1 DEF Trail!IInv, Trail!OnePlace
<1>6. Trail!NotCounted'
  BY <1>1, <1>2, <1>3 DEF Trail!IInv, Trail!NotCounted
<1>7. Trail!Kept'
  BY <1>1, <1>2, <1>3 DEF Trail!IInv, Trail!Kept
<1> QED
  BY <1>4, <1>5, <1>6, <1>7 DEF Trail!IInv

\* The batch ends: stored, or counted.
LEMMA TrailEndStep ==
  ASSUME Trail!ConstantsAreLegal, Trail!IInv, Trail!EndBatch, UNCHANGED <<auditQueue,
         auditSubmitted>>,
         Trail!Store \/ UNCHANGED auditStored,
         Trail!Count(auditBatch) \/ (Trail!Store /\ UNCHANGED auditDropped),
         auditWriter' \in {"waiting", "ended"},
         \/ auditClosing \in {"open", "joining"} /\ auditClosing' = auditClosing
         \/ auditClosing = "cancelling" /\ auditClosing' = "closed" /\ Trail!Count(auditBatch)
  PROVE  Trail!IInv'
<1>1. /\ auditUnfinished' = auditUnfinished - Len(auditBatch)
      /\ auditBatch' = <<>> /\ auditAttempt' = 0
      /\ \A e : ~Trail!Contains(auditBatch', e)
  BY TrailContainsNothing DEF Trail!EndBatch
<1>2. /\ auditStored' \in [AuditEvent -> Nat]
      /\ \A e \in AuditEvent : auditStored'[e] >= auditStored[e]
      /\ Trail!Store => \A e \in AuditEvent : Trail!Contains(auditBatch, e) =>
             auditStored'[e] > 0
  BY TrailStoring DEF Trail!IInv
<1>3. /\ auditDropped' \in [AuditEvent -> Nat]
      /\ \A e \in AuditEvent : ~Trail!Contains(auditBatch, e) =>
             auditDropped'[e] = auditDropped[e]
      /\ \A e \in AuditEvent : Trail!Contains(auditBatch, e) =>
             \/ auditDropped'[e] = auditDropped[e] + 1
             \/ auditDropped'[e] =
                    auditDropped[e] /\ auditStored'[e] > 0 /\ auditClosing' # "closed"
  BY <1>2, TrailCounting DEF Trail!IInv, Trail!TypeOK
<1>4. auditUnfinished' = Len(auditQueue) /\ Len(auditQueue) \in Nat /\ Len(auditBatch) \in Nat
  BY <1>1 DEF Trail!IInv, Trail!TypeOK, Trail!OnePlace
<1>5. Trail!TypeOK' /\ Trail!OnePlace'
  BY <1>1, <1>2, <1>3, <1>4 DEF Trail!IInv, Trail!TypeOK, Trail!OnePlace
<1>6. \A e \in AuditEvent : Trail!Contains(auditBatch, e) =>
          auditDropped[e] = 0 /\ e \in auditSubmitted
  BY DEF Trail!IInv, Trail!NotCounted, Trail!OnePlace
<1>7. \A e \in AuditEvent : Trail!Contains(auditQueue, e) => auditDropped'[e] = auditDropped[e]
  BY <1>3 DEF Trail!IInv, Trail!OnePlace
<1>8. Trail!NotCounted'
  BY <1>1, <1>3, <1>6, <1>7 DEF Trail!IInv, Trail!NotCounted
<1>9. ASSUME NEW e \in auditSubmitted
      PROVE  /\ auditDropped'[e] <= 1
             /\ \/ auditStored'[e] > 0 \/ auditDropped'[e] = 1
                \/ auditClosing' # "closed" /\ Trail!Contains(auditQueue, e)
  <2>1. /\ e \in AuditEvent /\ auditDropped[e] \in Nat /\ auditDropped[e] <= 1
        /\ auditStored[e] \in Nat /\ auditStored'[e] \in Nat /\
               auditStored'[e] >= auditStored[e]
    BY <1>2, <1>9 DEF Trail!IInv, Trail!TypeOK, Trail!Kept
  <2>2. CASE Trail!Contains(auditBatch, e)
    BY <1>3, <1>6, <2>1, <2>2
  <2>3. CASE ~Trail!Contains(auditBatch, e)
    <3>1. auditDropped'[e] = auditDropped[e]
      BY <1>3, <2>1, <2>3
    <3>2. auditStored[e] > 0 \/ auditDropped[e] = 1 \/ Trail!Contains(auditQueue, e)
      BY <1>9, <2>3 DEF Trail!IInv, Trail!Kept
    <3>3. auditClosing = "cancelling" /\ Trail!Contains(auditQueue, e) => auditDropped[e] = 1
      BY <2>1 DEF Trail!IInv, Trail!NotCounted
    <3> QED
      BY <2>1, <3>1, <3>2, <3>3
  <2> QED
    BY <2>2, <2>3
<1>10. Trail!Kept'
  BY <1>9 DEF Trail!Kept
<1> QED
  BY <1>5, <1>8, <1>10 DEF Trail!IInv

LEMMA TrailJoinStep ==
  ASSUME Trail!IInv, Trail!JoinEnds
  PROVE  Trail!IInv'
<1>1. /\ auditClosing = "joining" /\ auditClosing' = "cancelling"
      /\ UNCHANGED <<auditQueue, auditBatch, auditWriter, auditAttempt, auditUnfinished,
         auditSubmitted, auditStored>>
      /\ (auditUnfinished = 0 /\ UNCHANGED auditDropped) \/ Trail!Count(auditQueue)
  BY DEF Trail!JoinEnds
<1>2. CASE auditUnfinished = 0 /\ UNCHANGED auditDropped
  <2>1. \A e : ~Trail!Contains(auditQueue, e) /\ ~Trail!Contains(auditBatch, e)
    <3>1. Len(auditQueue) = 0 /\ Len(auditBatch) = 0
      BY <1>2 DEF Trail!IInv, Trail!TypeOK, Trail!OnePlace
    <3> QED
      BY <3>1 DEF Trail!Contains
  <2> QED
    BY <1>1, <1>2, <2>1 DEF Trail!IInv, Trail!TypeOK, Trail!OnePlace, Trail!NotCounted,
       Trail!Kept
<1>3. CASE Trail!Count(auditQueue)
  <2>1. /\ auditDropped' \in [AuditEvent -> Nat]
        /\ \A e \in AuditEvent :
               /\ Trail!Contains(auditQueue, e) => auditDropped'[e] = auditDropped[e] + 1
               /\ ~Trail!Contains(auditQueue, e) => auditDropped'[e] = auditDropped[e]
    BY <1>3, TrailCounting DEF Trail!IInv
  <2>2. \A e \in AuditEvent : Trail!Contains(auditQueue, e) =>
            auditDropped[e] = 0 /\ ~Trail!Contains(auditBatch, e) /\ e \in auditSubmitted
    BY <1>1 DEF Trail!IInv, Trail!OnePlace, Trail!NotCounted
  <2>3. Trail!TypeOK' /\ Trail!OnePlace'
    BY <1>1, <2>1 DEF Trail!IInv, Trail!TypeOK, Trail!OnePlace
  <2>4. Trail!NotCounted'
    BY <1>1, <2>1, <2>2 DEF Trail!IInv, Trail!NotCounted
  <2>5. Trail!Kept'
    BY <1>1, <2>1, <2>2 DEF Trail!IInv, Trail!TypeOK, Trail!Kept
  <2> QED
    BY <2>3, <2>4, <2>5 DEF Trail!IInv
<1> QED
  BY <1>1, <1>2, <1>3

LEMMA TrailInductive ==
    Trail!ConstantsAreLegal /\ Trail!IInv /\ [Trail!Next]_Trail!vars => Trail!IInv'
<1> SUFFICES ASSUME Trail!ConstantsAreLegal, Trail!IInv, [Trail!Next]_Trail!vars
             PROVE  Trail!IInv'
  OBVIOUS
<1>1. CASE auditClosing \in {"open", "joining"} /\ Trail!Write
  <2> USE DEF Trail!IInv, Trail!TypeOK
  <2>1. CASE Trail!Flush \/ Trail!Retry
    BY <2>1 DEF Trail!Flush, Trail!Retry, Trail!OnePlace, Trail!NotCounted, Trail!Kept
  <2>2. CASE Trail!WriteSucceeds
    BY <1>1, <2>2, TrailEndStep DEF Trail!WriteSucceeds
  <2>3. CASE Trail!WriteFails /\ auditAttempt < WriteRetries
    <3>1. /\ auditWriter' = "backoff" /\ auditAttempt' = auditAttempt + 1
          /\ UNCHANGED <<auditQueue, auditBatch, auditUnfinished, auditSubmitted, auditDropped,
             auditClosing>>
          /\ Trail!Store \/ UNCHANGED auditStored
      BY <2>3 DEF Trail!WriteFails
    <3>2. auditStored' \in [AuditEvent -> Nat] /\ \A e \in AuditEvent :
              auditStored'[e] >= auditStored[e]
      BY <3>1, TrailStoring
    <3> QED
      BY <3>1, <3>2 DEF Trail!OnePlace, Trail!NotCounted, Trail!Kept
  <2>4. CASE Trail!WriteFails /\ ~(auditAttempt < WriteRetries)
    BY <1>1, <2>4, TrailEndStep DEF Trail!WriteFails
  <2> QED
    BY <1>1, <2>1, <2>2, <2>3, <2>4, TrailTakeStep DEF Trail!Write
<1>2. CASE Trail!Close
  BY <1>2 DEF Trail!Close, Trail!IInv, Trail!TypeOK, Trail!OnePlace, Trail!NotCounted,
     Trail!Kept
<1>3. CASE Trail!Cancelled
  BY <1>3, TrailEndStep DEF Trail!Cancelled
<1>4. CASE UNCHANGED Trail!vars
  BY <1>4 DEF Trail!vars, Trail!IInv, Trail!TypeOK, Trail!OnePlace, Trail!NotCounted,
     Trail!Kept
<1> QED
  BY <1>1, <1>2, <1>3, <1>4, TrailSubmitStep, TrailJoinStep DEF Trail!Next, Trail!Shutdown,
     Trail!Finished

\* Of any events, batches, failures and shutdowns, no event is lost in silence and none
\* is counted twice.
THEOREM TrailLossless == Trail!Spec => []NoSilentLoss
<1> Trail!ConstantsAreLegal
  BY TrailIsLegal
<1>1. Trail!Init => Trail!IInv
  BY TrailContainsNothing DEF Trail!Init, Trail!IInv, Trail!TypeOK, Trail!OnePlace,
     Trail!NotCounted, Trail!Kept, Trail!Distinct
<1>2. Trail!IInv /\ [Trail!Next]_Trail!vars => Trail!IInv'
  BY TrailInductive
<1>3. Trail!IInv => NoSilentLoss
  BY TrailContainsConcat DEF Trail!IInv, Trail!TypeOK, Trail!Kept, NoSilentLoss,
     Trail!NoSilentLoss
<1> QED
  BY <1>1, <1>2, <1>3, PTL DEF Trail!Spec

=============================================================================
