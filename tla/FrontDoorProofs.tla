-------------------------- MODULE FrontDoorProofs --------------------------
(***************************************************************************)
(* Proofs about FrontDoor: the gate counts the requests inside, and with   *)
(* conditions that pass a notification on it wastes no slot.               *)
(***************************************************************************)
EXTENDS FrontDoor, FiniteSetTheorems, TLAPS

\* The inductive invariant: the count of the gate holds because a slot is taken and given
\* back once, and a wake-up is not lost because waiters are queued or notified, not both.
IInv == TypeOK /\ GateIsExact /\ WaitersAreTracked

Waiting == {r \in Request : stage[r] = "waiting"}
AuditIsExact == \A r \in Request : audited[r] = IF stage[r] = "answered" THEN 1 ELSE 0

-----------------------------------------------------------------------------
(* The queue of the condition. *)

LEMMA InQueue ==
    ASSUME NEW q \in Seq(Request), NEW x
    PROVE  x \in ToSet(q) <=> \E i \in 1..Len(q) : x = q[i]
<1>1. DOMAIN q = 1..Len(q)
  OBVIOUS
<1> QED
  BY <1>1 DEF ToSet

LEMMA QueueIs ==
    ASSUME NEW q \in Seq(Request)
    PROVE  /\ ToSet(q) \subseteq Request
           /\ q = <<>> <=> ToSet(q) = {}
<1>1. ToSet(q) \subseteq Request
  BY InQueue
<1>2. ASSUME q # <<>> PROVE q[1] \in ToSet(q)
  <2>1. 1 \in 1..Len(q)
    BY <1>2
  <2> QED
    BY <2>1, InQueue
<1>3. ToSet(<<>>) = {}
  BY DEF ToSet
<1> QED
  BY <1>1, <1>2, <1>3

LEMMA AppendedQueue ==
    ASSUME NEW q \in Seq(Request), IsInjective(q), NEW r \in Request, r \notin ToSet(q)
    PROVE  /\ Append(q, r) \in Seq(Request)
           /\ ToSet(Append(q, r)) = ToSet(q) \cup {r}
           /\ IsInjective(Append(q, r))
<1> DEFINE p == Append(q, r)
<1>1. /\ p \in Seq(Request) /\ Len(p) = Len(q) + 1
      /\ \A i \in 1..Len(q) : p[i] = q[i]
      /\ p[Len(q) + 1] = r
  OBVIOUS
<1> HIDE DEF p
<1>2. ToSet(p) = ToSet(q) \cup {r}
  <2>1. \A x \in ToSet(p) : x \in ToSet(q) \cup {r}
    BY <1>1, InQueue
  <2>2. \A x \in ToSet(q) : x \in ToSet(p)
    BY <1>1, InQueue
  <2>3. r \in ToSet(p)
    BY <1>1, InQueue
  <2> QED
    BY <2>1, <2>2, <2>3
<1>3. IsInjective(p)
  BY <1>1, InQueue DEF IsInjective
<1> QED
  BY <1>1, <1>2, <1>3 DEF p

LEMMA TailOfQueue ==
    ASSUME NEW q \in Seq(Request), q # <<>>, IsInjective(q)
    PROVE  /\ Tail(q) \in Seq(Request) /\ Head(q) \in ToSet(q)
           /\ ToSet(Tail(q)) = ToSet(q) \ {Head(q)}
           /\ IsInjective(Tail(q))
<1> DEFINE p == Tail(q)
<1>1. /\ p \in Seq(Request) /\ Len(p) = Len(q) - 1 /\ Len(q) \in Nat \ {0}
      /\ \A i \in 1..Len(p) : p[i] = q[i + 1]
      /\ Head(q) = q[1]
  OBVIOUS
<1> HIDE DEF p
<1>2. Head(q) \in ToSet(q)
  BY <1>1, InQueue
<1>3. IsInjective(p)
  <2>1. DOMAIN p = 1..Len(p) /\ DOMAIN q = 1..Len(q)
    BY <1>1
  <2>2. ASSUME NEW a \in 1..Len(p), NEW b \in 1..Len(p), p[a] = p[b]
        PROVE  a = b
    <3>1. /\ a + 1 \in 1..Len(q) /\ b + 1 \in 1..Len(q)
          /\ q[a + 1] = q[b + 1]
      BY <1>1, <2>2
    <3>2. a + 1 = b + 1
      BY <2>1, <3>1 DEF IsInjective
    <3> QED
      BY <3>2
  <2> QED
    BY <2>1, <2>2 DEF IsInjective
<1>4. ASSUME NEW x \in ToSet(p)
      PROVE  x \in ToSet(q) /\ x # Head(q)
  <2>1. PICK i \in 1..Len(p) : x = p[i]
    BY <1>1, InQueue
  <2> QED
    BY <1>1, <2>1, InQueue DEF IsInjective
<1>5. ASSUME NEW x \in ToSet(q), x # Head(q)
      PROVE  x \in ToSet(p)
  <2>1. PICK i \in 1..Len(q) : x = q[i]
    BY <1>1, InQueue
  <2>2. i - 1 \in 1..Len(p) /\ p[i - 1] = x
    BY <1>1, <1>5, <2>1
  <2> QED
    BY <1>1, <2>2, InQueue
<1> QED
  BY <1>1, <1>2, <1>3, <1>4, <1>5 DEF p

LEMMA RemovedFromQueue ==
    ASSUME NEW q \in Seq(Request), IsInjective(q), NEW i \in DOMAIN q
    PROVE  /\ RemoveAt(q, i) \in Seq(Request)
           /\ ToSet(RemoveAt(q, i)) = ToSet(q) \ {q[i]}
           /\ IsInjective(RemoveAt(q, i))
<1> DEFINE p == RemoveAt(q, i)
           At(j) == IF j < i THEN j ELSE j + 1
<1>1. i \in 1..Len(q) /\ Len(q) \in Nat
  OBVIOUS
<1>2. /\ p \in Seq(Request) /\ Len(p) = Len(q) - 1
      /\ \A j \in 1..Len(p) : p[j] = q[At(j)]
  <2> DEFINE a == SubSeq(q, 1, i - 1)
             b == SubSeq(q, i + 1, Len(q))
  <2>1. /\ a \in Seq(Request) /\ Len(a) = i - 1
        /\ \A j \in 1..Len(a) : a[j] = q[j]
    BY <1>1
  <2>2. /\ b \in Seq(Request) /\ Len(b) = Len(q) - i
        /\ \A j \in 1..Len(b) : b[j] = q[j + i]
    BY <1>1
  <2>3. p = a \o b
    BY DEF RemoveAt
  <2> HIDE DEF a, b, p
  <2>4. p \in Seq(Request) /\ Len(p) = Len(q) - 1
    BY <1>1, <2>1, <2>2, <2>3
  <2>5. ASSUME NEW j \in 1..Len(p)
        PROVE  p[j] = q[At(j)]
    <3>1. CASE j < i
      <4>1. p[j] = a[j] /\ a[j] = q[j]
        BY <1>1, <2>1, <2>2, <2>3, <2>4, <3>1
      <4> QED
        BY <3>1, <4>1
    <3>2. CASE j >= i
      <4>1. j - (i - 1) \in 1..Len(b)
        BY <1>1, <2>2, <2>4, <3>2
      <4>2. p[j] = b[j - (i - 1)]
        <5>1. j \in 1..(Len(a) + Len(b)) /\ j > Len(a)
          BY <1>1, <2>1, <2>2, <2>4, <3>2
        <5>2. (a \o b)[j] = b[j - Len(a)]
          BY SMTT(60), <2>1, <2>2, <5>1
        <5> QED
          BY <2>1, <2>3, <5>2
      <4>3. b[j - (i - 1)] = q[j - (i - 1) + i]
        BY <2>2, <4>1
      <4> QED
        BY <1>1, <2>4, <3>2, <4>2, <4>3
    <3> QED
      BY <1>1, <2>4, <3>1, <3>2
  <2> QED
    BY <2>4, <2>5
<1> HIDE DEF p
<1>3. \A j \in 1..Len(p) : At(j) \in 1..Len(q) /\ At(j) # i
  BY <1>1, <1>2
<1>4. ASSUME NEW j \in DOMAIN p, NEW k \in DOMAIN p, p[j] = p[k]
      PROVE  j = k
  <2>1. j \in 1..Len(p) /\ k \in 1..Len(p)
    BY <1>2
  <2>2. q[At(j)] = q[At(k)]
    BY <1>2, <1>4, <2>1
  <2>3. At(j) \in DOMAIN q /\ At(k) \in DOMAIN q
    BY <1>3, <2>1
  <2>4. At(j) = At(k)
    BY <2>2, <2>3 DEF IsInjective
  <2> QED
    BY <1>1, <1>2, <2>1, <2>4
<1>5. ASSUME NEW x \in ToSet(p)
      PROVE  x \in ToSet(q) /\ x # q[i]
  <2>1. PICK j \in 1..Len(p) : x = p[j]
    BY <1>2, InQueue
  <2> QED
    BY SMTT(60), <1>1, <1>2, <1>3, <2>1, InQueue DEF IsInjective
<1>6. ASSUME NEW x \in ToSet(q), x # q[i]
      PROVE  x \in ToSet(p)
  <2>1. PICK k \in 1..Len(q) : x = q[k]
    BY <1>1, InQueue
  <2>2. \E j \in 1..Len(p) : At(j) = k
    <3>1. CASE k < i
      BY <1>1, <1>2, <3>1
    <3>2. CASE k > i
      <4>1. k - 1 \in 1..Len(p) /\ At(k - 1) = k
        BY <1>1, <1>2, <3>2
      <4> QED
        BY <4>1
    <3> QED
      BY <1>1, <1>6, <2>1, <3>1, <3>2
  <2> QED
    BY <1>2, <2>1, <2>2, InQueue
<1>7. IsInjective(p)
  BY <1>4 DEF IsInjective
<1> QED
  BY <1>2, <1>5, <1>6, <1>7 DEF p


LEMMA NotifiedQueue ==
    ASSUME NEW q \in Seq(Request), IsInjective(q), NEW n \in SUBSET Request,
           ToSet(q) \cap n = {}, NotifyOne(q, n)
    PROVE  /\ queue' \in Seq(Request) /\ IsInjective(queue')
           /\ notified' \subseteq Request
           /\ ToSet(queue') \cup notified' = ToSet(q) \cup n
           /\ ToSet(queue') \cap notified' = {}
           /\ queue' # <<>> => Cardinality(notified') = Cardinality(n) + 1
<1>1. CASE q = <<>>
  BY <1>1 DEF NotifyOne
<1>2. CASE q # <<>>
  <2>1. queue' = Tail(q) /\ notified' = n \cup {Head(q)}
    BY <1>2 DEF NotifyOne
  <2>2. Head(q) \in Request /\ Head(q) \notin n
    BY <1>2, TailOfQueue, QueueIs
  <2>3. IsFiniteSet(n)
    BY RequestsAreFinite, FS_Subset
  <2>4. Cardinality(n \cup {Head(q)}) = Cardinality(n) + 1
    BY <2>2, <2>3, FS_AddElement
  <2> QED
    BY <1>2, <2>1, <2>2, <2>4, TailOfQueue
<1> QED
  BY <1>1, <1>2

-----------------------------------------------------------------------------
(* The invariant. *)

LEMMA HoldersAreFinite ==
    ASSUME NEW S \in SUBSET Request
    PROVE  IsFiniteSet(S) /\ Cardinality(S) \in Nat
BY RequestsAreFinite, FS_Subset, FS_CardinalityType

LEMMA InitIInv == Init => IInv
<1> SUFFICES ASSUME Init
             PROVE  IInv
  OBVIOUS
<1>1. TypeOK
  BY LimitIsPositive DEF Init, TypeOK, Stages, Answers
<1>2. Holders = {}
  BY DEF Init, Holders
<1>3. GateIsExact
  BY <1>2, FS_EmptySet, LimitIsPositive DEF Init, GateIsExact
<1>4. ToSet(queue) = {} /\ IsInjective(queue)
  BY DEF Init, ToSet, IsInjective
<1>5. WaitersAreTracked
  BY <1>4 DEF Init, WaitersAreTracked
<1> QED
  BY <1>1, <1>3, <1>5 DEF IInv

\* The steps that leave the gate alone.
LEMMA Unmoved ==
    ASSUME IInv, TypeOK', UNCHANGED gate, Holders' = Holders, Waiting' = Waiting,
           AuditIsExact'
    PROVE  IInv'
<1>1. GateIsExact'
  BY DEF IInv, GateIsExact, gate
<1>2. WaitersAreTracked'
  BY DEF IInv, WaitersAreTracked, gate, Waiting, AuditIsExact
<1> QED
  BY <1>1, <1>2 DEF IInv

LEMMA AnswersAreAudited ==
    ASSUME IInv, NEW r \in Request, NEW a \in Answers, stage[r] # "answered", Answer(r, a)
    PROVE  /\ stage' \in [Request -> Stages] /\ answer' \in [Request -> Answers]
           /\ audited' \in [Request -> 0..1] /\ AuditIsExact'
           /\ Holders' = Holders \ {r} /\ Waiting' = Waiting \ {r}
<1>1. audited[r] = 0
  BY DEF IInv, WaitersAreTracked
<1> QED
  BY <1>1 DEF IInv, TypeOK, WaitersAreTracked, AuditIsExact, Answer, Goto, Stages, Holders,
     Waiting

LEMMA MovesAreNotAudited ==
    ASSUME IInv, NEW r \in Request, NEW s \in Stages \ {"answered"}, Goto(r, s),
           stage[r] # "answered", UNCHANGED audited
    PROVE  /\ stage' \in [Request -> Stages]
           /\ audited' \in [Request -> 0..1] /\ AuditIsExact'
           /\ Holders' = IF s \in {"inside", "leaving"} THEN Holders \cup {r} ELSE Holders \ {r}
           /\ Waiting' = IF s = "waiting" THEN Waiting \cup {r} ELSE Waiting \ {r}
BY DEF IInv, TypeOK, WaitersAreTracked, AuditIsExact, Goto, Stages, Holders, Waiting

LEMMA CheckStep ==
    ASSUME IInv, NEW r \in Request, Check(r) \/ PreAuthLimit(r)
    PROVE  IInv'
<1>1. stage[r] \in {"new", "preauth"} /\ r \notin Holders /\ r \notin Waiting
  BY DEF Check, PreAuthLimit, Holders, Waiting
<1>2. UNCHANGED <<handler, gate>>
  BY DEF Check, PreAuthLimit
<1>3. CASE \E a \in {"ok", "refused"} : Answer(r, a)
  <2>1. PICK a \in {"ok", "refused"} : Answer(r, a)
    BY <1>3
  <2>2. a \in Answers
    BY DEF Answers
  <2>3. TypeOK'
    BY <1>1, <1>2, <2>1, <2>2, AnswersAreAudited DEF IInv, TypeOK, gate
  <2> QED
    BY <1>1, <1>2, <2>1, <2>2, <2>3, AnswersAreAudited, Unmoved
<1>4. CASE \E s \in {"preauth", "gate"} : Goto(r, s) /\ UNCHANGED <<answer, audited>>
  <2>1. PICK s \in {"preauth", "gate"} : Goto(r, s) /\ UNCHANGED <<answer, audited>>
    BY <1>4
  <2>2. s \in Stages \ {"answered"} /\ s \notin {"inside", "leaving", "waiting"}
    BY DEF Stages
  <2>3. TypeOK'
    BY <1>1, <1>2, <2>1, <2>2, MovesAreNotAudited DEF IInv, TypeOK, gate
  <2> QED
    BY <1>1, <1>2, <2>1, <2>2, <2>3, MovesAreNotAudited, Unmoved
<1> QED
  BY <1>3, <1>4 DEF Check, PreAuthLimit

\* A request is let in.
LEMMA Taken ==
    ASSUME IInv, NEW r \in Request, stage[r] \in {"gate", "waiting"}, active < Limit, TakeSlot(r)
    PROVE  /\ stage' \in [Request -> Stages] /\ answer' \in [Request -> Answers]
           /\ handler' \in [Request -> {"none", "ended"} \cup Running]
           /\ audited' \in [Request -> 0..1] /\ AuditIsExact'
           /\ active' = active + 1 /\ active' \in 0..Limit
           /\ Waiting' = Waiting \ {r} /\ GateIsExact'
<1>1. r \notin Holders
  BY DEF Holders
<1>2. Cardinality(Holders \cup {r}) = Cardinality(Holders) + 1
  BY <1>1, HoldersAreFinite, FS_AddElement DEF Holders
<1>3. "inside" \in Stages \ {"answered"}
  BY DEF Stages
<1>4. /\ stage' \in [Request -> Stages] /\ audited' \in [Request -> 0..1] /\ AuditIsExact'
      /\ Holders' = Holders \cup {r} /\ Waiting' = Waiting \ {r}
  BY <1>3, MovesAreNotAudited DEF TakeSlot
<1>5. active' = active + 1 /\ active' \in 0..Limit
  BY LimitIsPositive DEF TakeSlot, IInv, TypeOK
<1>6. GateIsExact'
  BY <1>2, <1>4, <1>5 DEF IInv, GateIsExact
<1>7. /\ answer' \in [Request -> Answers]
      /\ handler' \in [Request -> {"none", "ended"} \cup Running]
  BY DEF IInv, TypeOK, TakeSlot, Running
<1> QED
  BY <1>4, <1>5, <1>6, <1>7

\* A request waits, or waits again.
LEMMA Queued ==
    ASSUME IInv, NEW r \in Request, r \notin ToSet(queue), queue' = Append(queue, r)
    PROVE  /\ queue' \in Seq(Request) /\ IsInjective(queue')
           /\ ToSet(queue') = ToSet(queue) \cup {r}
BY AppendedQueue DEF IInv, TypeOK, WaitersAreTracked

LEMMA EnterGateStep ==
    ASSUME IInv, NEW r \in Request, EnterGate(r)
    PROVE  IInv'
<1>0. stage[r] = "gate" /\ r \notin Holders /\ r \notin Waiting
  BY DEF EnterGate, Holders, Waiting
<1>1. CASE active < Limit /\ TakeSlot(r) /\ UNCHANGED <<queue, notified>>
  <2>1. TypeOK'
    BY <1>0, <1>1, Taken DEF IInv, TypeOK
  <2>2. WaitersAreTracked'
    BY <1>0, <1>1, Taken DEF IInv, WaitersAreTracked, Waiting, AuditIsExact
  <2> QED
    BY <1>0, <1>1, <2>1, <2>2, Taken DEF IInv
<1>2. CASE Answer(r, "saturated") /\ UNCHANGED <<handler, gate>>
  <2>1. "saturated" \in Answers
    BY DEF Answers
  <2>2. TypeOK'
    BY <1>0, <1>2, <2>1, AnswersAreAudited DEF IInv, TypeOK, gate
  <2> QED
    BY <1>0, <1>2, <2>1, <2>2, AnswersAreAudited, Unmoved
<1>3. CASE /\ Goto(r, "waiting") /\ queue' = Append(queue, r)
           /\ UNCHANGED <<answer, handler, active, notified, audited>>
  <2>1. "waiting" \in Stages \ {"answered"}
    BY DEF Stages
  <2>2. /\ stage' \in [Request -> Stages] /\ audited' \in [Request -> 0..1] /\ AuditIsExact'
        /\ Holders' = Holders /\ Waiting' = Waiting \cup {r}
    <3>1. stage[r] # "answered" /\ Goto(r, "waiting") /\ UNCHANGED audited
      BY <1>0, <1>3
    <3>2. /\ stage' \in [Request -> Stages] /\ audited' \in [Request -> 0..1] /\ AuditIsExact'
          /\ Holders' = Holders \ {r} /\ Waiting' = Waiting \cup {r}
      BY <2>1, <3>1, MovesAreNotAudited
    <3> QED
      BY <1>0, <3>2
  <2>3. r \notin ToSet(queue) /\ r \notin notified
    BY <1>0 DEF IInv, WaitersAreTracked
  <2>4. TypeOK'
    BY <1>3, <2>2, <2>3, Queued DEF IInv, TypeOK
  <2>5. GateIsExact'
    BY <1>3, <2>2 DEF IInv, GateIsExact
  <2>6. WaitersAreTracked'
    BY <1>3, <2>2, <2>3, Queued DEF IInv, WaitersAreTracked, Waiting, AuditIsExact
  <2> QED
    BY <2>4, <2>5, <2>6 DEF IInv
<1> QED
  BY <1>1, <1>2, <1>3 DEF EnterGate

LEMMA WakeStep ==
    ASSUME IInv, NEW r \in Request, Wake(r)
    PROVE  IInv'
<1>0. /\ r \in notified /\ notified' = notified \ {r}
      /\ stage[r] = "waiting" /\ r \notin ToSet(queue)
  BY DEF Wake, IInv, WaitersAreTracked
<1>1. CASE active < Limit /\ TakeSlot(r) /\ UNCHANGED queue
  <2>1. TypeOK'
    BY <1>0, <1>1, Taken DEF IInv, TypeOK
  <2>2. WaitersAreTracked'
    BY <1>0, <1>1, Taken DEF IInv, WaitersAreTracked, Waiting, AuditIsExact
  <2> QED
    BY <1>0, <1>1, <2>1, <2>2, Taken DEF IInv
<1>2. CASE queue' = Append(queue, r) /\ UNCHANGED <<stage, answer, handler, active, audited>>
  <2>1. TypeOK'
    BY <1>0, <1>2, Queued DEF IInv, TypeOK
  <2>2. GateIsExact'
    BY <1>2 DEF IInv, GateIsExact, Holders
  <2>3. WaitersAreTracked'
    BY <1>0, <1>2, Queued DEF IInv, WaitersAreTracked
  <2> QED
    BY <2>1, <2>2, <2>3 DEF IInv
<1> QED
  BY <1>1, <1>2 DEF Wake

\* What a waiter that gives up leaves behind.
LEMMA WaitersAfter ==
    ASSUME IInv, NEW r \in Request, GiveUpWaiting(r)
    PROVE  /\ queue' \in Seq(Request) /\ IsInjective(queue')
           /\ notified' \subseteq Request
           /\ ToSet(queue') \cup notified' = (ToSet(queue) \cup notified) \ {r}
           /\ ToSet(queue') \cap notified' = {}
           /\ Renotifies /\ queue' # <<>> =>
                  queue # <<>> /\ Cardinality(notified') >= Cardinality(notified)
<1>0. /\ queue \in Seq(Request) /\ IsInjective(queue) /\ notified \subseteq Request
      /\ ToSet(queue) \cap notified = {}
  BY DEF IInv, TypeOK, WaitersAreTracked
<1>1. CASE \E i \in DOMAIN queue : queue[i] = r /\ Renotify(RemoveAt(queue, i), notified)
  <2>1. PICK i \in DOMAIN queue : queue[i] = r /\ Renotify(RemoveAt(queue, i), notified)
    BY <1>1
  <2> DEFINE q == RemoveAt(queue, i)
  <2>2. q \in Seq(Request) /\ ToSet(q) = ToSet(queue) \ {r} /\ IsInjective(q)
    BY <1>0, <2>1, RemovedFromQueue
  <2>3. r \in ToSet(queue) /\ r \notin notified /\ queue # <<>>
    BY <1>0, <2>1 DEF ToSet
  <2>4. ToSet(q) \cap notified = {}
    BY <1>0, <2>2
  <2> HIDE DEF q
  <2>5. CASE Renotifies
    <3>1. NotifyOne(q, notified)
      BY <2>1, <2>5 DEF Renotify, q
    <3>2. Cardinality(notified) \in Nat
      BY <1>0, HoldersAreFinite
    <3> QED
      BY <1>0, <2>2, <2>3, <2>4, <3>1, <3>2, NotifiedQueue
  <2>6. CASE ~Renotifies
    BY <1>0, <2>1, <2>2, <2>3, <2>6 DEF Renotify, q
  <2> QED
    BY <2>5, <2>6
<1>2. CASE r \in notified /\ Renotify(queue, notified \ {r})
  <2>1. /\ Cardinality(notified \ {r}) = Cardinality(notified) - 1
        /\ Cardinality(notified) \in Nat
    BY <1>0, <1>2, HoldersAreFinite, FS_RemoveElement
  <2>2. r \notin ToSet(queue) /\ ToSet(queue) \cap (notified \ {r}) = {}
    BY <1>0, <1>2
  <2>3. CASE Renotifies
    <3>1. NotifyOne(queue, notified \ {r})
      BY <1>2, <2>3 DEF Renotify
    <3>2. queue' # <<>> => queue # <<>>
      BY <3>1 DEF NotifyOne
    <3> QED
      BY <1>0, <2>1, <2>2, <3>1, <3>2, NotifiedQueue
  <2>4. CASE ~Renotifies
    BY <1>0, <1>2, <2>2, <2>4 DEF Renotify
  <2> QED
    BY <2>3, <2>4
<1> QED
  BY <1>1, <1>2 DEF GiveUpWaiting

LEMMA GiveUpWaitingStep ==
    ASSUME IInv, NEW r \in Request, GiveUpWaiting(r)
    PROVE  IInv'
<1>1. stage[r] = "waiting" /\ r \notin Holders /\ Answer(r, "saturated") /\ "saturated" \in Answers
  BY DEF GiveUpWaiting, Holders, Answers
<1>2. UNCHANGED <<handler, active>>
  BY DEF GiveUpWaiting
<1>3. TypeOK'
  BY <1>1, <1>2, AnswersAreAudited, WaitersAfter DEF IInv, TypeOK
<1>4. GateIsExact'
  BY <1>1, <1>2, AnswersAreAudited DEF IInv, GateIsExact
<1>5. WaitersAreTracked'
  BY <1>1, AnswersAreAudited, WaitersAfter DEF IInv, WaitersAreTracked, Waiting, AuditIsExact
<1> QED
  BY <1>3, <1>4, <1>5 DEF IInv

LEMMA ExitGateStep ==
    ASSUME IInv, NEW r \in Request, ExitGate(r)
    PROVE  IInv'
<1>1. /\ stage[r] = "leaving" /\ r \in Holders /\ r \notin Waiting
      /\ answer[r] \in Answers /\ Answer(r, answer[r]) /\ UNCHANGED handler
  BY DEF ExitGate, IInv, TypeOK, Holders, Waiting
<1>2. Cardinality(Holders \ {r}) = Cardinality(Holders) - 1 /\ Cardinality(Holders) \in Nat \ {0}
  BY <1>1, HoldersAreFinite, FS_RemoveElement, FS_EmptySet DEF Holders
<1>3. active' = active - 1 /\ active' \in 0..Limit
  BY <1>2, LimitIsPositive DEF ExitGate, IInv, TypeOK, GateIsExact
<1>4. /\ queue' \in Seq(Request) /\ IsInjective(queue') /\ notified' \subseteq Request
      /\ ToSet(queue') \cup notified' = ToSet(queue) \cup notified
      /\ ToSet(queue') \cap notified' = {}
  BY NotifiedQueue DEF ExitGate, IInv, TypeOK, WaitersAreTracked
<1>5. TypeOK'
  BY <1>1, <1>3, <1>4, AnswersAreAudited DEF IInv, TypeOK
<1>6. GateIsExact'
  <2>1. Holders' = Holders \ {r}
    BY <1>1, AnswersAreAudited
  <2>2. active = Cardinality(Holders) /\ active <= Limit /\ Limit \in Nat
    BY LimitIsPositive DEF IInv, GateIsExact
  <2> QED
    BY <1>2, <1>3, <2>1, <2>2 DEF GateIsExact
<1>7. WaitersAreTracked'
  BY <1>1, <1>4, AnswersAreAudited DEF IInv, WaitersAreTracked, Waiting, AuditIsExact
<1> QED
  BY <1>5, <1>6, <1>7 DEF IInv

\* The middleware goes on to leave the gate, with whatever the handler does.
LEMMA LeaveStep ==
    ASSUME IInv, NEW r \in Request, NEW a \in Answers, Leave(r, a),
           handler' \in [Request -> {"none", "ended"} \cup Running]
    PROVE  IInv'
<1>1. /\ stage[r] = "inside" /\ r \in Holders /\ r \notin Waiting
      /\ Goto(r, "leaving") /\ UNCHANGED <<gate, audited>>
  BY DEF Leave, Holders, Waiting
<1>2. "leaving" \in Stages \ {"answered"}
  BY DEF Stages
<1>3. /\ stage' \in [Request -> Stages] /\ audited' \in [Request -> 0..1] /\ AuditIsExact'
      /\ Holders' = Holders /\ Waiting' = Waiting
  <2>1. stage[r] # "answered" /\ UNCHANGED audited
    BY <1>1
  <2>2. /\ stage' \in [Request -> Stages] /\ audited' \in [Request -> 0..1] /\ AuditIsExact'
        /\ Holders' = Holders \cup {r} /\ Waiting' = Waiting \ {r}
    BY <1>1, <1>2, <2>1, MovesAreNotAudited
  <2> QED
    BY <1>1, <2>2
<1>4. answer' \in [Request -> Answers]
  BY DEF Leave, IInv, TypeOK
<1>5. TypeOK'
  BY <1>1, <1>3, <1>4 DEF IInv, TypeOK, gate
<1> QED
  BY <1>1, <1>3, <1>5, Unmoved

LEMMA HandleStep ==
    ASSUME IInv, NEW r \in Request, Handle(r)
    PROVE  IInv'
<1>1. handler' \in [Request -> {"none", "ended"} \cup Running]
  BY DEF Handle, Proceed, RefuseOrFail, Complete, EndStream, Respond, MoveHandler, IInv, TypeOK,
     Running
<1>2. \/ UNCHANGED <<stage, answer, gate, audited>>
      \/ \E a \in {"ok", "refused", "failed"} : Leave(r, a)
  BY DEF Handle, Proceed, RefuseOrFail, Complete, EndStream, Respond
<1>3. CASE UNCHANGED <<stage, answer, gate, audited>>
  <2>1. Holders' = Holders /\ Waiting' = Waiting /\ AuditIsExact'
    BY <1>3 DEF Holders, Waiting, AuditIsExact, IInv, WaitersAreTracked
  <2>2. TypeOK'
    BY <1>1, <1>3 DEF IInv, TypeOK, gate
  <2> QED
    BY <1>3, <2>1, <2>2, Unmoved
<1>4. CASE \E a \in {"ok", "refused", "failed"} : Leave(r, a)
  BY <1>1, <1>4, LeaveStep DEF Answers
<1> QED
  BY <1>2, <1>3, <1>4

LEMMA TimeOutStep ==
    ASSUME IInv, NEW r \in Request, TimeOut(r)
    PROVE  IInv'
BY LeaveStep DEF TimeOut, Answers, IInv, TypeOK

LEMMA StepIInv ==
    ASSUME IInv, [Next]_vars
    PROVE  IInv'
<1>1. CASE UNCHANGED vars
  BY <1>1 DEF vars, gate, IInv, TypeOK, GateIsExact, WaitersAreTracked, Holders
<1>2. CASE \E r \in Request : Middleware(r) \/ Handle(r)
  <2>1. PICK r \in Request : Middleware(r) \/ Handle(r)
    BY <1>2
  <2>2. CASE Check(r) \/ PreAuthLimit(r)
    BY <2>2, CheckStep
  <2>3. CASE EnterGate(r)
    BY <2>3, EnterGateStep
  <2>4. CASE Wake(r)
    BY <2>4, WakeStep
  <2>5. CASE GiveUpWaiting(r)
    BY <2>5, GiveUpWaitingStep
  <2>6. CASE TimeOut(r)
    BY <2>6, TimeOutStep
  <2>7. CASE ExitGate(r)
    BY <2>7, ExitGateStep
  <2>8. CASE Handle(r)
    BY <2>8, HandleStep
  <2> QED
    BY <2>1, <2>2, <2>3, <2>4, <2>5, <2>6, <2>7, <2>8 DEF Middleware
<1> QED
  BY <1>1, <1>2 DEF Next, Finished

\* The inductive invariant of the gate: types, the count of the requests inside, and
\* the bookkeeping of those that wait.
THEOREM Invariance == Spec => []IInv
BY InitIInv, StepIInv, PTL DEF Spec

\* The state of the gate is well formed.
THEOREM TypeCorrect == Spec => []TypeOK
<1>1. IInv => TypeOK
  BY DEF IInv
<1> QED
  BY <1>1, Invariance, PTL

\* The counter of the gate is the number of requests inside, and within its limit, for
\* any requests: whoever waits, is woken, gives up, times out or streams on.
THEOREM GateCorrect == Spec => []GateIsExact
<1>1. IInv => GateIsExact
  BY DEF IInv
<1> QED
  BY <1>1, Invariance, PTL

\* A waiter is queued or notified, never both or twice, and every answer is audited once.
THEOREM WaitersCorrect == Spec => []WaitersAreTracked
<1>1. IInv => WaitersAreTracked
  BY DEF IInv
<1> QED
  BY <1>1, Invariance, PTL

-----------------------------------------------------------------------------
(* No slot is wasted. *)

LEMMA ActiveIs ==
    ASSUME IInv
    PROVE  active \in Nat /\ Limit \in Nat /\ Cardinality(notified) \in Nat
BY LimitIsPositive, HoldersAreFinite DEF IInv, TypeOK

LEMMA SlotStep ==
    ASSUME Renotifies, IInv, IInv', NoSlotIsWasted, [Next]_vars
    PROVE  NoSlotIsWasted'
<1>0. SUFFICES ASSUME queue' # <<>>
               PROVE  active' + Cardinality(notified') >= Limit
  BY DEF NoSlotIsWasted
<1>1. CASE UNCHANGED gate
  BY <1>0, <1>1 DEF gate, NoSlotIsWasted
<1>2. ASSUME NEW r \in Request, EnterGate(r), ~UNCHANGED gate
      PROVE  active' + Cardinality(notified') >= Limit
  <2>1. CASE active < Limit /\ TakeSlot(r) /\ UNCHANGED <<queue, notified>>
    BY <1>0, <2>1, ActiveIs DEF TakeSlot, NoSlotIsWasted
  <2>2. CASE active >= Limit /\ UNCHANGED <<active, notified>>
    BY <2>2, ActiveIs
  <2> QED
    BY <1>2, <2>1, <2>2 DEF EnterGate
<1>3. ASSUME NEW r \in Request, Wake(r)
      PROVE  active' + Cardinality(notified') >= Limit
  <2>1. Cardinality(notified') = Cardinality(notified) - 1 /\ Cardinality(notified') \in Nat
    BY <1>3, HoldersAreFinite, FS_RemoveElement DEF Wake, IInv, TypeOK
  <2>2. CASE active < Limit /\ TakeSlot(r) /\ UNCHANGED queue
    BY <1>0, <2>1, <2>2, ActiveIs DEF TakeSlot, NoSlotIsWasted
  <2>3. CASE active >= Limit /\ UNCHANGED active
    BY <2>1, <2>3, ActiveIs
  <2> QED
    BY <1>3, <2>2, <2>3 DEF Wake
<1>4. ASSUME NEW r \in Request, GiveUpWaiting(r)
      PROVE  active' + Cardinality(notified') >= Limit
  <2>1. queue # <<>> /\ Cardinality(notified') >= Cardinality(notified)
    BY <1>0, <1>4, WaitersAfter
  <2>2. active' = active /\ Cardinality(notified') \in Nat
    BY <1>4, ActiveIs, HoldersAreFinite DEF GiveUpWaiting, IInv, TypeOK
  <2> QED
    BY <2>1, <2>2, ActiveIs DEF NoSlotIsWasted
<1>5. ASSUME NEW r \in Request, ExitGate(r)
      PROVE  active' + Cardinality(notified') >= Limit
  <2>1. queue # <<>> /\ Cardinality(notified') = Cardinality(notified) + 1
    <3>1. NotifyOne(queue, notified)
      BY <1>5 DEF ExitGate
    <3>2. queue # <<>>
      BY <1>0, <3>1 DEF NotifyOne
    <3> QED
      BY <1>0, <3>1, <3>2, NotifiedQueue DEF IInv, TypeOK, WaitersAreTracked
  <2>2. active' >= active - 1 /\ active' \in Nat
    BY <1>5, ActiveIs DEF ExitGate
  <2> QED
    BY <2>1, <2>2, ActiveIs DEF NoSlotIsWasted
<1>6. ASSUME NEW r \in Request, \/ Check(r) \/ PreAuthLimit(r) \/ TimeOut(r) \/ Handle(r)
      PROVE  UNCHANGED gate
  BY <1>6 DEF Check, PreAuthLimit, TimeOut, Handle, Proceed, RefuseOrFail, Complete, EndStream,
     Respond, Leave
<1>7. CASE UNCHANGED vars
  BY <1>1, <1>7 DEF vars, gate
<1> QED
  BY <1>1, <1>2, <1>3, <1>4, <1>5, <1>6, <1>7 DEF Next, Finished, Middleware

\* Where a condition passes the notification of a waiter that gives up on to the next, a
\* request waits only for slots that are taken or meant for one notified before it.
THEOREM SlotsCorrect == Renotifies => (Spec => []NoSlotIsWasted)
<1> SUFFICES ASSUME Renotifies
             PROVE  Spec => []NoSlotIsWasted
  OBVIOUS
<1>1. Init => NoSlotIsWasted
  BY DEF Init, NoSlotIsWasted
<1>2. IInv /\ IInv' /\ NoSlotIsWasted /\ [Next]_vars => NoSlotIsWasted'
  BY SlotStep
<1> QED
  BY <1>1, <1>2, Invariance, PTL DEF Spec

=============================================================================
