---------------------------- MODULE CacheProofs ----------------------------
(***************************************************************************)
(* Theorems about Cache for every number of workers, requests and writes,  *)
(* and every backend: reads follow the writes acknowledged before them,    *)
(* Cache implements FreshReads, and a key is loaded once at a time.        *)
(***************************************************************************)
EXTENDS CacheInv, FiniteSetTheorems, TLAPS

-----------------------------------------------------------------------------
(* Workers and counters. *)

LEMMA OnType == \A t \in Task : On(t) \in Worker
BY HostIsWorker DEF Task, Refresh, On

LEMMA CounterType == \A w \in Worker : Counter(w) \in Node
BY DEF Counter, Node

LEMMA NoneIsNoKey == Key \subseteq Nat /\ None \notin Key /\ None \notin Task
BY NoneIsNothing, MaxWritesIsNat DEF Key

LEMMA CounterOfType == \A t \in Task : CounterOf(t) \in Node
BY OnType, CounterType DEF CounterOf

LEMMA RequestIsTask == \A r \in Request : r \in Task /\ On(r) = Host[r] /\ CounterOf(r) = Counter(Host[r])
BY DEF Task, On, CounterOf

LEMMA RefreshIsTask ==
    \A w \in Worker, k \in Key : /\ <<w, k>> \in Refresh /\ <<w, k>> \in Task
                                 /\ <<w, k>> \notin Request /\ On(<<w, k>>) = w
BY TasksDiffer DEF Task, On, Refresh

-----------------------------------------------------------------------------
(* Types. *)

LEMMA RegisterType ==
    ASSUME TaskTypeOK, IdleLocks, NEW t \in Task, key[t] \in Key, Register(t)
    PROVE  /\ pc' \in [Task -> PC]
           /\ lockOf' \in [Task -> Task \cup {None}]
           /\ registry' \in [Worker -> [Key -> [lock : Task \cup {None}, users : Nat]]]
           /\ IdleLocks'
<1> DEFINE w == On(t)  k == key[t]  entry == registry[w][k]
           new == IF entry.users = 0 THEN [lock |-> t, users |-> 1]
                  ELSE [entry EXCEPT !.users = @ + 1]
<1>1. w \in Worker /\ k \in Key
  BY OnType
<1>2. entry \in [lock : Task \cup {None}, users : Nat]
  BY <1>1 DEF TaskTypeOK
<1>3. new \in [lock : Task \cup {None}, users : Nat] /\ new.users # 0
  BY <1>2
<1>4. registry' = [registry EXCEPT ![w][k] = new]
  BY DEF Register
<1>5. registry' \in [Worker -> [Key -> [lock : Task \cup {None}, users : Nat]]]
  BY <1>1, <1>3, <1>4 DEF TaskTypeOK
<1>6. IdleLocks'
  BY <1>1, <1>3, <1>4 DEF TaskTypeOK, IdleLocks
<1>7. entry.users = 0 \/ entry.lock \in Task \cup {None}
  BY <1>2
<1>8. lockOf' \in [Task -> Task \cup {None}]
  BY <1>7 DEF Register, TaskTypeOK
<1>9. pc' \in [Task -> PC]
  BY DEF Register, Goto, TaskTypeOK, PC
<1> QED
  BY <1>5, <1>6, <1>8, <1>9

LEMMA UnregisterType ==
    ASSUME TaskTypeOK, IdleLocks, NEW t \in Task, Unregister(t)
    PROVE  /\ lockOf' \in [Task -> Task \cup {None}]
           /\ registry' \in [Worker -> [Key -> [lock : Task \cup {None}, users : Nat]]]
           /\ IdleLocks'
<1> DEFINE w == On(t)  k == key[t]  entry == registry[w][k]
           new == IF entry.users = 1 THEN Idle ELSE [entry EXCEPT !.users = @ - 1]
<1>1. w \in Worker
  BY OnType
<1>2. lockOf' \in [Task -> Task \cup {None}]
  BY DEF Unregister, TaskTypeOK
<1>3. CASE registry' = registry
  BY <1>2, <1>3 DEF TaskTypeOK, IdleLocks
<1>4. CASE registry' # registry
  <2>1. lockOf[t] # None /\ entry.lock = lockOf[t] /\ registry' = [registry EXCEPT ![w][k] = new]
    BY <1>4 DEF Unregister
  <2>2. k \in Key
    <3>1. CASE k \notin Key
      <4>1. [registry EXCEPT ![w][k] = new] = registry
        <5>1. registry \in [Worker -> [Key -> [lock : Task \cup {None}, users : Nat]]]
          BY DEF TaskTypeOK
        <5>2. registry[w] \in [Key -> [lock : Task \cup {None}, users : Nat]]
          BY <5>1, <1>1
        <5>3. [registry[w] EXCEPT ![k] = new] = registry[w]
          BY <5>2, <3>1
        <5> QED
          BY <5>1, <5>3
      <4> QED
        BY <4>1, <2>1, <1>4
    <3> QED
      BY <3>1
  <2>3. entry \in [lock : Task \cup {None}, users : Nat] /\ entry.users # 0
    BY <1>1, <2>1, <2>2 DEF TaskTypeOK, IdleLocks
  <2>4. new \in [lock : Task \cup {None}, users : Nat] /\ (new.users = 0 => new.lock = None)
    <3>1. CASE entry.users = 1
      BY <3>1 DEF Idle
    <3>2. CASE entry.users # 1
      <4>1. new = [lock |-> entry.lock, users |-> entry.users - 1]
        BY <3>2, <2>3
      <4>2. entry.users - 1 \in Nat /\ entry.users - 1 # 0
        BY <3>2, <2>3
      <4> QED
        BY <4>1, <4>2, <2>3
    <3> QED
      BY <3>1, <3>2
  <2> HIDE DEF new
  <2>5. registry' \in [Worker -> [Key -> [lock : Task \cup {None}, users : Nat]]]
    BY <1>1, <2>1, <2>2, <2>4 DEF TaskTypeOK
  <2>6. IdleLocks'
    BY <1>1, <2>1, <2>2, <2>4 DEF TaskTypeOK, IdleLocks
  <2> QED
    BY <1>2, <2>5, <2>6
<1> QED
  BY <1>3, <1>4

LEMMA LeaveType ==
    ASSUME TaskTypeOK, IdleLocks, NEW t \in Task, NEW label \in PC, Leave(t, label),
           NEW v \in Nat, val' = [val EXCEPT ![t] = v]
    PROVE  TaskTypeOK' /\ IdleLocks'
<1>1. /\ lockOf' \in [Task -> Task \cup {None}]
      /\ registry' \in [Worker -> [Key -> [lock : Task \cup {None}, users : Nat]]]
      /\ IdleLocks'
  BY UnregisterType DEF Leave
<1>2. pc' \in [Task -> PC]
  BY DEF Leave, Goto, TaskTypeOK, PC
<1>3. key' \in [Task -> Key \cup {None}] /\ stage' \in [Task -> {"first", "locked", "again"}]
  BY DEF Leave, TaskTypeOK
<1>4. refreshing' \in [Worker -> SUBSET Key]
  BY DEF Leave, EndRefresh, TaskTypeOK, Refresh
<1>5. val' \in [Task -> Nat]
  BY DEF TaskTypeOK
<1> QED
  BY <1>1, <1>2, <1>3, <1>4, <1>5 DEF TaskTypeOK

LEMMA ReturnType ==
    ASSUME TaskTypeOK, IdleLocks, NEW t \in Task, NEW v \in Nat, Return(t, v)
    PROVE  TaskTypeOK' /\ IdleLocks'
<1> DEFINE u == IF t \in Request THEN v ELSE 0
<1>1. u \in Nat /\ val' = [val EXCEPT ![t] = u] /\ Leave(t, "done") /\ "done" \in PC
  BY DEF Return, PC
<1> HIDE DEF u
<1> QED
  BY <1>1, LeaveType

LEMMA FailType ==
    ASSUME TaskTypeOK, IdleLocks, NEW t \in Task, Fail(t)
    PROVE  TaskTypeOK' /\ IdleLocks'
<1>1. 0 \in Nat /\ val' = [val EXCEPT ![t] = 0] /\ Leave(t, "error") /\ "error" \in PC
  BY DEF Fail, PC
<1> QED
  BY <1>1, LeaveType

LEMMA ServeStaleType ==
    ASSUME TaskTypeOK, IdleLocks, NEW t \in Task, NEW e \in Entry, key[t] \in Key, ServeStale(t, e)
    PROVE  TaskTypeOK' /\ IdleLocks'
<1>1. On(t) \in Worker
  BY OnType
<1>2. val' \in [Task -> Nat] /\ stage' = stage /\ lockOf' = lockOf /\ registry' = registry
  BY DEF ServeStale, TaskTypeOK, Entry
<1>3. pc' \in [Task -> PC] /\ key' \in [Task -> Key \cup {None}]
  BY DEF ServeStale, Goto, TaskTypeOK, PC
<1>4. refreshing' \in [Worker -> SUBSET Key]
  <2>1. \/ refreshing' = refreshing
        \/ refreshing' = [refreshing EXCEPT ![On(t)] = @ \cup {key[t]}]
    BY DEF ServeStale
  <2>2. refreshing \in [Worker -> SUBSET Key]
    BY DEF TaskTypeOK
  <2>3. refreshing[On(t)] \cup {key[t]} \in SUBSET Key
    BY <1>1, <2>2
  <2> QED
    BY <1>1, <2>1, <2>2, <2>3
<1> QED
  BY <1>2, <1>3, <1>4 DEF TaskTypeOK, IdleLocks

LEMMA DecideType ==
    ASSUME TaskTypeOK, IdleLocks, NEW t \in Task, NEW e \in Entry \cup {None}, key[t] \in Key,
           Decide(t, e)
    PROVE  TaskTypeOK' /\ IdleLocks'
<1>1. CASE Usable(e) /\ Return(t, e.val)
  <2>1. e.val \in Nat
    BY <1>1 DEF Usable, Entry
  <2> QED
    BY <1>1, <2>1, ReturnType
<1>2. CASE Stale(e) /\ ServeStale(t, e)
  <2>1. e \in Entry
    BY <1>2 DEF Stale
  <2> QED
    BY <1>2, <2>1, ServeStaleType
<1>3. CASE Register(t) /\ UNCHANGED <<key, stage, val, refreshing>>
  BY <1>3, RegisterType DEF TaskTypeOK
<1>4. CASE /\ Goto(t, IF Remote THEN "dlock" ELSE "load") \/ Goto(t, "load")
           /\ UNCHANGED <<key, stage, val, lockVars>>
  BY <1>4 DEF Goto, TaskTypeOK, IdleLocks, lockVars, PC
<1> QED
  BY <1>1, <1>2, <1>3, <1>4 DEF Decide

LEMMA KeyGiven ==
    ASSUME TypeOK, Control, NEW t \in Task,
           pc[t] \in {"start", "get", "remote", "reply", "wait", "dlock", "store", "push"}
    PROVE  key[t] \in Key
BY DEF TypeOK, TaskTypeOK, Control

LEMMA RequestTypes ==
    ASSUME TypeOK, IdleLocks, NEW r \in Request, RequestStep(r)
    PROVE  TypeOK' /\ IdleLocks'
<1>0. r \in Task /\ Counter(Host[r]) \in Node
  BY HostIsWorker, CounterType DEF Task
<1>1. CASE Begin(r)
  <2>1. acked[Counter(Host[r])] \in Nat
    BY <1>0 DEF TypeOK, StoreTypeOK
  <2> HIDE DEF Counter
  <2>2. StoreTypeOK'
    BY <1>1, <2>1 DEF Begin, TypeOK, StoreTypeOK, dbVars, storeVars
  <2>3. TaskTypeOK' /\ IdleLocks'
    BY <1>0, <1>1 DEF Begin, Goto, TypeOK, TaskTypeOK, IdleLocks, PC, lockVars
  <2> QED
    BY <2>2, <2>3 DEF TypeOK
<1>2. CASE MakeKey(r)
  <2>1. gen[Counter(Host[r])] \in Key
    BY <1>0 DEF TypeOK, StoreTypeOK
  <2>2. StoreTypeOK'
    BY <1>2 DEF MakeKey, TypeOK, StoreTypeOK, dbVars, storeVars
  <2>3. TaskTypeOK' /\ IdleLocks'
    BY <1>0, <1>2, <2>1 DEF MakeKey, Goto, TypeOK, TaskTypeOK, IdleLocks, PC, lockVars
  <2> QED
    BY <2>2, <2>3 DEF TypeOK
<1>3. CASE KeyFails(r)
  <2>2. StoreTypeOK'
    BY <1>3 DEF KeyFails, TypeOK, StoreTypeOK, dbVars, storeVars
  <2>3. TaskTypeOK' /\ IdleLocks'
    BY <1>0, <1>3 DEF KeyFails, Goto, TypeOK, TaskTypeOK, IdleLocks, PC, lockVars
  <2> QED
    BY <2>2, <2>3 DEF TypeOK
<1>4. CASE Answer(r)
  <2>2. StoreTypeOK'
    BY <1>4 DEF Answer, TypeOK, StoreTypeOK, dbVars, storeVars
  <2>3. TaskTypeOK' /\ IdleLocks'
    BY <1>0, <1>4 DEF Answer, Goto, TypeOK, TaskTypeOK, IdleLocks, PC, lockVars
  <2> QED
    BY <2>2, <2>3 DEF TypeOK
<1> QED
  BY <1>1, <1>2, <1>3, <1>4 DEF RequestStep

LEMMA WriterTypes ==
    ASSUME TypeOK, IdleLocks, NEW x \in Writer, WriterStep(x)
    PROVE  TypeOK' /\ IdleLocks'
<1>1. TaskTypeOK' /\ IdleLocks'
  BY DEF WriterStep, Commit, ReadBackFails, Invalidate, InvalidateFails, TypeOK, TaskTypeOK,
         IdleLocks, lockVars
<1>2. Counter(Host[x]) \in Node
  BY HostIsWorker, CounterType
<1>3. gen' \in [Node -> Key]
  BY <1>2, MaxWritesIsNat
     DEF WriterStep, Commit, ReadBackFails, Invalidate, InvalidateFails, TypeOK, StoreTypeOK, Key
<1>4. acked' \in [Node -> Nat]
  BY <1>2 DEF WriterStep, Commit, ReadBackFails, Invalidate, InvalidateFails, TypeOK, StoreTypeOK, Later
<1>5. db' \in Nat /\ wpc' \in [Writer -> {"idle", "committed"}] /\ wnum' \in [Writer -> Nat]
  <2>1. db \in Nat /\ wpc \in [Writer -> {"idle", "committed"}] /\ wnum \in [Writer -> Nat]
    BY DEF TypeOK, StoreTypeOK
  <2>2. CASE Commit(x)
    BY <2>1, <2>2 DEF Commit
  <2>3. CASE Done(x) /\ db' = db
    BY <2>1, <2>3 DEF Done
  <2> QED
    BY <2>2, <2>3 DEF WriterStep, ReadBackFails, Invalidate, InvalidateFails
<1>6. UNCHANGED <<local, shared, got, floor>>
  BY DEF WriterStep, Commit, ReadBackFails, Invalidate, InvalidateFails, storeVars
<1> QED
  BY <1>1, <1>3, <1>4, <1>5, <1>6 DEF TypeOK, StoreTypeOK

LEMMA AgeTypes ==
    ASSUME TypeOK, IdleLocks, Age
    PROVE  TypeOK' /\ IdleLocks'
<1>1. \A e \in Entry : Aged(e) \subseteq Entry \cup {None}
  BY DEF Aged, Entry
<1>2. local' \in [Worker -> [Key -> Entry \cup {None}]]
  <2>1. local \in [Worker -> [Key -> Entry \cup {None}]]
    BY DEF TypeOK, StoreTypeOK
  <2>2. CASE local' = local
    BY <2>1, <2>2
  <2>3. ASSUME NEW w \in Worker, NEW k \in Key, local[w][k] # None,
               NEW e \in Aged(local[w][k]), local' = [local EXCEPT ![w][k] = e]
        PROVE  local' \in [Worker -> [Key -> Entry \cup {None}]]
    <3>1. e \in Entry \cup {None}
      BY <1>1, <2>1, <2>3
    <3> QED
      BY <2>1, <2>3, <3>1
  <2> QED
    BY <2>2, <2>3 DEF Age
<1>3. shared' \in [Key -> Entry \cup {None}]
  <2>1. shared \in [Key -> Entry \cup {None}]
    BY DEF TypeOK, StoreTypeOK
  <2> QED
    BY <1>1, <2>1 DEF Age
<1> QED
  BY <1>2, <1>3 DEF Age, TypeOK, StoreTypeOK, TaskTypeOK, IdleLocks, dbVars, lockVars

LEMMA TaskTypes ==
    ASSUME TypeOK, IdleLocks, Control, NEW t \in Task, TaskStep(t)
    PROVE  TypeOK' /\ IdleLocks'
<1>0. On(t) \in Worker /\ TaskTypeOK /\ StoreTypeOK
  BY OnType DEF TypeOK
<1>1. CASE Look(t)
  <2>1. key[t] \in Key
    BY <1>1, KeyGiven DEF Look
  <2>2. local[On(t)][key[t]] \in Entry \cup {None}
    BY <1>0, <2>1 DEF StoreTypeOK
  <2>3. TaskTypeOK' /\ IdleLocks'
    <3>1. CASE Decide(t, local[On(t)][key[t]])
      BY <1>0, <2>1, <2>2, <3>1, DecideType
    <3>2. CASE Goto(t, "remote") /\ UNCHANGED <<key, stage, val, lockVars>>
      BY <1>0, <3>2 DEF Goto, TaskTypeOK, IdleLocks, PC, lockVars
    <3> QED
      BY <1>1, <3>1, <3>2 DEF Look
  <2>4. StoreTypeOK'
    BY <1>0, <1>1 DEF Look, StoreTypeOK, dbVars, storeVars
  <2> QED
    BY <2>3, <2>4 DEF TypeOK
<1>2. CASE Fetch(t)
  <2>1. key[t] \in Key
    BY <1>2, KeyGiven DEF Fetch
  <2>2. shared[key[t]] \in Entry \cup {None}
    BY <1>0, <2>1 DEF StoreTypeOK
  <2>3. StoreTypeOK'
    BY <1>0, <1>2, <2>2 DEF Fetch, StoreTypeOK, dbVars, storeVars
  <2>4. TaskTypeOK' /\ IdleLocks'
    BY <1>0, <1>2 DEF Fetch, Goto, TaskTypeOK, IdleLocks, PC, lockVars
  <2> QED
    BY <2>3, <2>4 DEF TypeOK
<1>3. CASE FetchFails(t)
  <2>1. key[t] \in Key /\ None \in Entry \cup {None}
    BY <1>3, KeyGiven DEF FetchFails
  <2>2. StoreTypeOK'
    BY <1>0, <1>3 DEF FetchFails, StoreTypeOK, dbVars, storeVars
  <2>3. TaskTypeOK' /\ IdleLocks'
    BY <1>0, <1>3, <2>1, DecideType, FailType DEF FetchFails
  <2> QED
    BY <2>2, <2>3 DEF TypeOK
<1>4. CASE Reply(t)
  <2>1. key[t] \in Key
    BY <1>4, KeyGiven DEF Reply
  <2>2. got[t] \in Entry \cup {None}
    BY <1>0 DEF StoreTypeOK
  <2>3. TaskTypeOK' /\ IdleLocks'
    BY <1>0, <1>4, <2>1, <2>2, DecideType DEF Reply
  <2>4. local' \in [Worker -> [Key -> Entry \cup {None}]]
    BY <1>0, <1>4, <2>1, <2>2 DEF Reply, StoreTypeOK
  <2>5. StoreTypeOK'
    BY <1>0, <1>4, <2>4 DEF Reply, StoreTypeOK, dbVars
  <2> QED
    BY <2>3, <2>5 DEF TypeOK
<1>5. CASE StartRefresh(t)
  <2>1. key[t] \in Key
    BY <1>5, KeyGiven DEF StartRefresh
  <2>2. TaskTypeOK' /\ IdleLocks'
    BY <1>0, <1>5, <2>1, RegisterType DEF StartRefresh, TaskTypeOK
  <2>3. StoreTypeOK'
    BY <1>0, <1>5 DEF StartRefresh, StoreTypeOK, dbVars, storeVars
  <2> QED
    BY <2>2, <2>3 DEF TypeOK
<1>6. CASE Acquire(t)
  <2>1. TaskTypeOK' /\ IdleLocks'
    BY <1>0, <1>6 DEF Acquire, Goto, TaskTypeOK, IdleLocks, PC, lockVars
  <2>2. StoreTypeOK'
    BY <1>0, <1>6 DEF Acquire, StoreTypeOK, dbVars, storeVars
  <2> QED
    BY <2>1, <2>2 DEF TypeOK
<1>7. CASE LockRemote(t)
  <2>1. TaskTypeOK' /\ IdleLocks'
    BY <1>0, <1>7 DEF LockRemote, Goto, TaskTypeOK, IdleLocks, PC, lockVars
  <2>2. StoreTypeOK'
    BY <1>0, <1>7 DEF LockRemote, StoreTypeOK, dbVars, storeVars
  <2> QED
    BY <2>1, <2>2 DEF TypeOK
<1>8. CASE Load(t)
  <2>1. StoreTypeOK' /\ db \in Nat
    BY <1>0, <1>8 DEF Load, StoreTypeOK, dbVars, storeVars
  <2>2. CASE Return(t, db)
    BY <1>0, <2>1, <2>2, ReturnType DEF TypeOK
  <2>3. CASE ~Return(t, db)
    <3>1. TaskTypeOK' /\ IdleLocks'
      BY SMTT(60), <1>0, <1>8, <2>1, <2>3 DEF Load, Goto, TaskTypeOK, IdleLocks, PC, lockVars
    <3> QED
      BY <2>1, <3>1 DEF TypeOK
  <2> QED
    BY <2>2, <2>3
<1>9. CASE LoadFails(t)
  <2>1. StoreTypeOK'
    BY <1>0, <1>9 DEF LoadFails, StoreTypeOK, dbVars, storeVars
  <2> QED
    BY <1>0, <1>9, <2>1, FailType DEF LoadFails, TypeOK
<1>10. CASE Store(t)
  <2>1. key[t] \in Key /\ val[t] \in Nat
    BY <1>0, <1>10, KeyGiven DEF Store, TaskTypeOK
  <2>2. Loaded(t) \in Entry
    BY <2>1 DEF Loaded, Entry
  <2>3. local' \in [Worker -> [Key -> Entry \cup {None}]]
    BY <1>0, <1>10, <2>1, <2>2 DEF Store, StoreTypeOK
  <2>4. StoreTypeOK'
    BY <1>0, <1>10, <2>3 DEF Store, StoreTypeOK, dbVars
  <2>5. CASE Return(t, val[t])
    BY <1>0, <2>1, <2>4, <2>5, ReturnType DEF TypeOK
  <2>6. CASE ~Return(t, val[t])
    <3>1. TaskTypeOK' /\ IdleLocks'
      BY <1>0, <1>10, <2>6 DEF Store, Goto, TaskTypeOK, IdleLocks, PC, lockVars
    <3> QED
      BY <2>4, <3>1 DEF TypeOK
  <2> QED
    BY <2>5, <2>6
<1>11. CASE Push(t)
  <2>1. key[t] \in Key /\ val[t] \in Nat
    BY <1>0, <1>11, KeyGiven DEF Push, TaskTypeOK
  <2>2. Loaded(t) \in Entry
    BY <2>1 DEF Loaded, Entry
  <2>3. StoreTypeOK'
    BY <1>0, <1>11, <2>1, <2>2 DEF Push, StoreTypeOK, dbVars
  <2> QED
    BY <1>0, <1>11, <2>1, <2>3, ReturnType DEF Push, TypeOK
<1>12. CASE PushFails(t)
  <2>1. val[t] \in Nat
    BY <1>0 DEF TaskTypeOK
  <2>2. StoreTypeOK'
    BY <1>0, <1>12 DEF PushFails, StoreTypeOK, dbVars, storeVars
  <2> QED
    BY <1>0, <1>12, <2>1, <2>2, ReturnType, FailType DEF PushFails, TypeOK
<1> QED
  BY <1>1, <1>2, <1>3, <1>4, <1>5, <1>6, <1>7, <1>8, <1>9, <1>10, <1>11, <1>12 DEF TaskStep

-----------------------------------------------------------------------------
(* Control. *)

LEMMA LeaveControl ==
    ASSUME TypeOK, Control, NEW t \in Task, NEW label \in {"done", "error"}, Leave(t, label),
           \A u \in Task : got'[u] = got[u] \/ got'[u] = None,
           got'[t] = None
    PROVE  Control'
<1>1. \A u \in Task : u # t => pc'[u] = pc[u] /\ key'[u] = key[u] /\ stage'[u] = stage[u]
  BY DEF Leave, Goto, TypeOK, TaskTypeOK
<1>2. pc'[t] = (IF t \in Request THEN label ELSE "idle") /\ key'[t] = None
  BY DEF Leave, Goto, TypeOK, TaskTypeOK
<1>3. t \in Request \/ t \in Refresh
  BY DEF Task
<1> QED
  BY <1>1, <1>2, <1>3, TasksDiffer DEF Control, Remote

LEMMA ServeStaleControl ==
    ASSUME TypeOK, Control, RefreshIsTracked,
           NEW t \in Request, NEW e, key[t] \in Key, ServeStale(t, e),
           \A u \in Task : got'[u] = got[u] \/ got'[u] = None,
           got'[t] = None
    PROVE  Control'
<1> DEFINE b == <<On(t), key[t]>>
<1>1. t \in Task /\ b \in Refresh /\ b \in Task /\ b # t /\ b[2] = key[t]
  BY OnType, RefreshIsTask DEF Task
<1>2. \A u \in Task : u # t /\ u # b => pc'[u] = pc[u] /\ key'[u] = key[u] /\ stage'[u] = stage[u]
  BY <1>1 DEF ServeStale, Goto, TypeOK, TaskTypeOK
<1>3. pc'[t] = "done" /\ key'[t] = None
  BY <1>1 DEF ServeStale, Goto, TypeOK, TaskTypeOK
<1>4. \/ pc[b] = "idle" /\ pc'[b] = "start" /\ key'[b] = key[t]
      \/ pc'[b] = pc[b] /\ key'[b] = key[b] /\ stage'[b] = stage[b]
  BY <1>1, OnType DEF ServeStale, Goto, TypeOK, TaskTypeOK, RefreshIsTracked
<1> QED
  BY <1>1, <1>2, <1>3, <1>4, TasksDiffer, NoneIsNoKey DEF Control, Remote

LEMMA MoveControl ==
    ASSUME TypeOK, Control, NEW t \in Task, NEW label \in PC, Goto(t, label),
           key' = key, key[t] # None,
           label \notin {"idle", "key", "done", "error"},
           label \in {"remote", "reply", "dlock", "push"} => Remote,
           t \in Refresh /\ label \in {"get", "remote", "reply"} => stage'[t] # "first",
           \A u \in Task : u # t => stage'[u] = stage[u] /\ got'[u] = got[u],
           label # "reply" => got'[t] = None
    PROVE  Control'
<1>1. \A u \in Task : u # t => pc'[u] = pc[u]
  BY DEF Goto, TypeOK, TaskTypeOK
<1>2. pc'[t] = label
  BY DEF Goto, TypeOK, TaskTypeOK
<1> QED
  BY <1>1, <1>2 DEF Control, Remote

LEMMA DecideControl ==
    ASSUME TypeOK, Control, RefreshIsTracked,
           NEW t \in Task, NEW e, pc[t] \in {"get", "remote", "reply"}, Decide(t, e),
           \A u \in Task : u # t => got'[u] = got[u],
           got'[t] = None
    PROVE  Control'
<1>1. key[t] \in Key /\ key[t] # None
  BY KeyGiven, NoneIsNoKey
<1>2. \A u \in Task : got'[u] = got[u] \/ got'[u] = None
  OBVIOUS
<1>3. CASE Return(t, e.val)
  BY <1>2, <1>3, LeaveControl DEF Return
<1>4. CASE stage[t] = "first" /\ ServeStale(t, e)
  <2>1. t \in Request
    BY <1>4 DEF Control, Task
  <2> QED
    BY <1>1, <1>2, <1>4, <2>1, ServeStaleControl
<1>5. CASE Register(t) /\ UNCHANGED <<key, stage, val, refreshing>>
  <2>1. Goto(t, "wait") /\ "wait" \in PC
    BY <1>5 DEF Register, PC
  <2> QED
    BY <1>1, <1>5, <2>1, MoveControl
<1>6. CASE \E label \in {"load"} : Goto(t, label) /\ UNCHANGED <<key, stage, val, lockVars>>
  <2>1. "load" \in PC
    BY DEF PC
  <2> QED
    BY <1>1, <1>6, <2>1, MoveControl
<1>7. CASE Remote /\ Goto(t, "dlock") /\ UNCHANGED <<key, stage, val, lockVars>>
  <2>1. "dlock" \in PC
    BY DEF PC
  <2> QED
    BY <1>1, <1>7, <2>1, MoveControl
<1> QED
  BY <1>3, <1>4, <1>5, <1>6, <1>7 DEF Decide

LEMMA TaskControl ==
    ASSUME TypeOK, Control, RefreshIsTracked, NEW t \in Task, TaskStep(t)
    PROVE  Control'
<1>0. /\ \A u \in Task : pc[u] # "reply" => got[u] = None
      /\ got \in [Task -> Entry \cup {None}]
  BY DEF Control, TypeOK, StoreTypeOK
<1> {"load", "get", "wait", "remote", "reply", "push", "store"} \subseteq PC
  BY DEF PC
<1>1. CASE Look(t)
  <2>1. got' = got /\ got[t] = None /\ key[t] # None
    BY <1>0, <1>1, KeyGiven, NoneIsNoKey DEF Look
  <2>2. CASE Decide(t, local[On(t)][key[t]])
    BY <1>1, <2>1, <2>2, DecideControl DEF Look
  <2>3. CASE Remote /\ Goto(t, "remote") /\ UNCHANGED <<key, stage, val, lockVars>>
    <3>1. t \in Refresh => stage[t] # "first"
      BY <1>1 DEF Look, Control
    <3> QED
      BY <2>1, <2>3, <3>1, MoveControl
  <2> QED
    BY <1>1, <2>2, <2>3 DEF Look
<1>2. CASE Fetch(t)
  <2>1. /\ key[t] # None /\ Remote /\ t \in Refresh => stage[t] # "first"
        /\ UNCHANGED <<key, stage>> /\ Goto(t, "reply")
    BY <1>2, KeyGiven, NoneIsNoKey DEF Fetch, Control
  <2>2. \A u \in Task : u # t => got'[u] = got[u]
    BY <1>0, <1>2 DEF Fetch
  <2>3. key[t] # None /\ Remote
    BY <1>2, KeyGiven, NoneIsNoKey DEF Fetch, Control
  <2> QED
    BY <2>1, <2>2, <2>3, MoveControl
<1>3. CASE FetchFails(t)
  <2>1. got' = got /\ got[t] = None
    BY <1>0, <1>3 DEF FetchFails
  <2>2. CASE Decide(t, None)
    BY <1>3, <2>1, <2>2, DecideControl DEF FetchFails
  <2>3. CASE Fail(t)
    BY <2>1, <2>3, LeaveControl DEF Fail
  <2> QED
    BY <1>3, <2>2, <2>3 DEF FetchFails
<1>4. CASE Reply(t)
  <2>1. got'[t] = None /\ \A u \in Task : u # t => got'[u] = got[u]
    BY <1>0, <1>4 DEF Reply
  <2> QED
    BY <1>4, <2>1, DecideControl DEF Reply
<1>5. CASE StartRefresh(t)
  <2>1. Goto(t, "wait") /\ UNCHANGED <<key, stage, got>> /\ got[t] = None /\ key[t] # None
    BY <1>0, <1>5, KeyGiven, NoneIsNoKey DEF StartRefresh, Register
  <2> QED
    BY <2>1, MoveControl
<1>6. CASE Acquire(t)
  <2>1. /\ Goto(t, "get") /\ UNCHANGED <<key, got>> /\ got[t] = None /\ key[t] # None
    BY <1>0, <1>6, KeyGiven, NoneIsNoKey DEF Acquire
  <2>2. stage'[t] = "locked" /\ \A u \in Task : u # t => stage'[u] = stage[u]
    BY <1>6 DEF Acquire, TypeOK, TaskTypeOK
  <2> QED
    BY <2>1, <2>2, MoveControl
<1>7. CASE LockRemote(t)
  <2>1. UNCHANGED <<key, got>> /\ got[t] = None /\ key[t] # None
    BY <1>0, <1>7, KeyGiven, NoneIsNoKey DEF LockRemote
  <2>2. CASE Goto(t, "get") /\ stage' = [stage EXCEPT ![t] = "again"]
    <3>1. stage'[t] = "again" /\ \A u \in Task : u # t => stage'[u] = stage[u]
      BY <2>2 DEF TypeOK, TaskTypeOK
    <3> QED
      BY <2>1, <2>2, <3>1, MoveControl
  <2>3. CASE Goto(t, "load") /\ UNCHANGED stage
    BY <2>1, <2>3, MoveControl
  <2> QED
    BY <1>7, <2>2, <2>3 DEF LockRemote
<1>8. CASE Load(t)
  <2>1. got' = got /\ got[t] = None
    BY <1>0, <1>8 DEF Load
  <2>2. CASE key[t] = None
    BY <1>8, <2>1, <2>2, LeaveControl DEF Load, Return
  <2>3. CASE key[t] # None
    <3>1. CASE Backend = "redis"
      BY <1>8, <2>1, <2>3, <3>1, MoveControl DEF Load, Remote
    <3>2. CASE Backend # "redis"
      BY <1>8, <2>1, <2>3, <3>2, MoveControl DEF Load
    <3> QED
      BY <3>1, <3>2
  <2> QED
    BY <2>2, <2>3
<1>9. CASE LoadFails(t)
  <2>1. got' = got /\ got[t] = None
    BY <1>0, <1>9 DEF LoadFails
  <2> QED
    BY <1>9, <2>1, LeaveControl DEF LoadFails, Fail
<1>10. CASE Store(t)
  <2>1. got' = got /\ got[t] = None /\ key[t] # None
    BY <1>0, <1>10, KeyGiven, NoneIsNoKey DEF Store
  <2>2. CASE Remote
    BY <1>10, <2>1, <2>2, MoveControl DEF Store
  <2>3. CASE ~Remote
    BY <1>10, <2>1, <2>3, LeaveControl DEF Store, Return
  <2> QED
    BY <2>2, <2>3
<1>11. CASE Push(t)
  <2>1. got' = got /\ got[t] = None
    BY <1>0, <1>11 DEF Push
  <2> QED
    BY <1>11, <2>1, LeaveControl DEF Push, Return
<1>12. CASE PushFails(t)
  <2>1. got' = got /\ got[t] = None
    BY <1>0, <1>12 DEF PushFails
  <2> QED
    BY <1>12, <2>1, LeaveControl DEF PushFails, Return, Fail
<1> QED
  BY <1>1, <1>2, <1>3, <1>4, <1>5, <1>6, <1>7, <1>8, <1>9, <1>10, <1>11, <1>12 DEF TaskStep

LEMMA RequestControl ==
    ASSUME TypeOK, Control, NEW r \in Request, RequestStep(r)
    PROVE  Control'
<1>1. r \in Task /\ r \notin Refresh
  BY TasksDiffer DEF Task
<1>2. got' = got /\ stage' = stage
  BY DEF RequestStep, Begin, MakeKey, KeyFails, Answer
<1>3. \A u \in Task : u # r => pc'[u] = pc[u] /\ key'[u] = key[u]
  BY <1>1 DEF RequestStep, Begin, MakeKey, KeyFails, Answer, Goto, TypeOK, TaskTypeOK
<1>4. /\ pc[r] # "reply"
      /\ \/ pc'[r] \in {"key", "idle", "load", "error"} /\ key[r] = None /\ key'[r] = None
         \/ pc'[r] = "get" /\ key'[r] # None
  <2>1. CASE Begin(r)
    BY <1>1, <2>1 DEF Begin, Goto, TypeOK, TaskTypeOK, Control
  <2>2. CASE MakeKey(r)
    <3>1. gen[Counter(Host[r])] \in Key
      BY HostIsWorker, CounterType DEF TypeOK, StoreTypeOK
    <3> QED
      BY <1>1, <2>2, <3>1, NoneIsNoKey DEF MakeKey, Goto, TypeOK, TaskTypeOK
  <2>3. CASE KeyFails(r)
    BY <1>1, <2>3 DEF KeyFails, Goto, TypeOK, TaskTypeOK, Control
  <2>4. CASE Answer(r)
    BY <1>1, <2>4 DEF Answer, Goto, TypeOK, TaskTypeOK, Control
  <2> QED
    BY <2>1, <2>2, <2>3, <2>4 DEF RequestStep
<1> QED
  BY <1>1, <1>2, <1>3, <1>4 DEF Control, Remote

-----------------------------------------------------------------------------
(* Values. *)

Calm == UNCHANGED <<db, gen, acked, floor, wpc, wnum>>

LEMMA FitType ==
    ASSUME NEW n \in Node, NEW k \in Key, NEW v \in Fit[n][k]
    PROVE  v \in Nat /\ k <= gen[n] /\ v <= db
BY DEF Fit

\* Values keep fitting while reads only drop keys.
LEMMA FitKept ==
    ASSUME Calm, \A r \in Request : key'[r] \in {key[r], None}
    PROVE  \A n \in Node, k \in Key : Fit[n][k] \subseteq Fit'[n][k]
<1> SUFFICES ASSUME NEW n \in Node, NEW k \in Key, NEW v \in Fit[n][k] PROVE v \in Fit'[n][k]
  OBVIOUS
<1>1. /\ v \in Nat /\ k <= gen[n] /\ v <= db /\ (k = gen[n] => acked[n] <= v)
      /\ \A r \in Request : (CounterOf(r) = n /\ key[r] = k) => floor[r] <= v
  BY DEF Fit
<1>2. \A r \in Request : (CounterOf(r) = n /\ key'[r] = k) => floor'[r] <= v
  BY <1>1, NoneIsNoKey DEF Calm
<1>3. v \in Nat /\ k <= gen'[n] /\ v <= db' /\ (k = gen'[n] => acked'[n] <= v)
  BY <1>1 DEF Calm
<1> QED
  BY <1>2, <1>3 DEF Fit, CounterOf, Counter, On

\* Whatever a step stores fits.
StoresFitting ==
    /\ \A w \in Worker, k \in Key : local'[w][k] # None =>
            \/ local[w][k] # None /\ local'[w][k].val = local[w][k].val
            \/ local'[w][k].val \in Fit[Counter(w)][k]
    /\ \A k \in Key : shared'[k] # None =>
            \/ shared[k] # None /\ shared'[k].val = shared[k].val
            \/ shared'[k].val \in Fit[Redis][k]

LEMMA NothingStored ==
    ASSUME UNCHANGED <<local, shared>>
    PROVE  StoresFitting
BY DEF StoresFitting

\* A step that keeps the counters and the floors keeps the invariants on values
\* if what it stores, carries or returns fits.
LEMMA ValueStep ==
    ASSUME IInv, TypeOK', Calm,
           \A r \in Request : key'[r] \in {key[r], None},
           \A u \in Task : \/ key'[u] \in {key[u], None}
                           \/ (key'[u] \in Key /\ key'[u] <= gen[CounterOf(u)]),
           StoresFitting,
           \A u \in Task : got'[u] # None =>
                /\ key'[u] = key[u] /\ key[u] # None
                /\ got'[u] = got[u] \/ got'[u].val \in Fit[CounterOf(u)][key[u]],
           \A u \in Task : pc'[u] \in {"store", "push"} =>
                /\ key'[u] = key[u] /\ key[u] # None
                /\ \/ pc[u] \in {"store", "push"} /\ val'[u] = val[u]
                   \/ val'[u] \in Fit[CounterOf(u)][key[u]],
           \A r \in Request : pc'[r] = "done" =>
                \/ pc[r] = "done" /\ val'[r] = val[r]
                \/ val'[r] \in floor[r] .. db
    PROVE  KeptFit' /\ CarriedFit' /\ Bounds'
<1>1. \A n \in Node, k \in Key : Fit[n][k] \subseteq Fit'[n][k]
  BY FitKept
<1>2. \A u \in Task : key[u] # None => key[u] \in Key
  BY DEF IInv, TypeOK, TaskTypeOK
<1>3. \A w \in Worker, k \in Key : local'[w][k] # None => local'[w][k].val \in Fit'[Counter(w)][k]
  BY <1>1, CounterType DEF IInv, KeptFit, StoresFitting
<1>4. \A k \in Key : shared'[k] # None => shared'[k].val \in Fit'[Redis][k]
  BY <1>1 DEF IInv, KeptFit, Node, StoresFitting
<1>5. \A u \in Task : got'[u] # None => key'[u] # None /\ got'[u].val \in Fit'[CounterOf(u)][key'[u]]
  BY <1>1, <1>2, CounterOfType DEF IInv, CarriedFit
<1>6. \A u \in Task : pc'[u] \in {"store", "push"} => val'[u] \in Fit'[CounterOf(u)][key'[u]]
  BY <1>1, <1>2, CounterOfType DEF IInv, CarriedFit
<1>7. Bounds'
  <2>1. \A u \in Task : key'[u] # None => key'[u] <= gen'[CounterOf(u)]
    BY DEF IInv, Bounds, Calm
  <2>2. \A r \in Request : pc'[r] = "done" => val'[r] \in floor'[r] .. db'
    BY DEF IInv, Bounds, Calm
  <2>3. /\ \A n \in Node : acked'[n] <= db'
        /\ \A x \in Writer : wnum'[x] <= db'
        /\ \A r \in Request : floor'[r] <= acked'[CounterOf(r)]
    BY DEF IInv, Bounds, Calm
  <2> QED
    BY <2>1, <2>2, <2>3 DEF Bounds, CounterOf, Counter, On
<1>8. KeptFit'
  BY <1>3, <1>4 DEF KeptFit, Counter
<1>9. CarriedFit'
  BY <1>5, <1>6 DEF CarriedFit, CounterOf, Counter, On
<1> QED
  BY <1>7, <1>8, <1>9

\* Task t answers, waits or moves on without a new value; it may have started a
\* refresh of its key.
Passes(t) ==
    /\ \A u \in Task \ {t} :
        /\ val'[u] = val[u]
        /\ \/ key'[u] = key[u] /\ pc'[u] = pc[u]
           \/ /\ u \in Refresh /\ pc[u] = "idle" /\ pc'[u] = "start"
              /\ key[t] \in Key /\ key'[u] = key[t] /\ CounterOf(u) = CounterOf(t)
    /\ key'[t] \in {key[t], None}
    /\ pc'[t] \notin {"store", "push"}

LEMMA LeavePasses ==
    ASSUME TypeOK, NEW t \in Task, NEW label \in {"done", "error"}, Leave(t, label),
           NEW v, val' = [val EXCEPT ![t] = v]
    PROVE  Passes(t)
<1>1. \A u \in Task \ {t} : key'[u] = key[u] /\ pc'[u] = pc[u] /\ val'[u] = val[u]
  BY DEF Leave, Goto, TypeOK, TaskTypeOK
<1>2. pc'[t] = (IF t \in Request THEN label ELSE "idle") /\ key'[t] = None
  BY DEF Leave, Goto, TypeOK, TaskTypeOK
<1> QED
  BY <1>1, <1>2 DEF Passes

LEMMA ReturnPasses ==
    ASSUME TypeOK, NEW t \in Task, NEW v, Return(t, v)
    PROVE  Passes(t) /\ (t \in Request => val'[t] = v)
<1>1. Passes(t)
  BY LeavePasses DEF Return
<1>2. t \in Request => val'[t] = v
  BY DEF Return, TypeOK, TaskTypeOK
<1> QED
  BY <1>1, <1>2

LEMMA FailPasses ==
    ASSUME TypeOK, NEW t \in Task, Fail(t)
    PROVE  Passes(t) /\ pc'[t] # "done"
<1>1. Passes(t)
  BY LeavePasses DEF Fail
<1>2. pc'[t] # "done"
  BY DEF Fail, Leave, Goto, TypeOK, TaskTypeOK
<1> QED
  BY <1>1, <1>2

LEMMA DecidePasses ==
    ASSUME TypeOK, Control, RefreshIsTracked,
           NEW t \in Task, NEW e, pc[t] \in {"get", "remote", "reply"}, Decide(t, e)
    PROVE  Passes(t) /\ (t \in Request /\ pc'[t] = "done" => e # None /\ val'[t] = e.val)
<1>1. key[t] \in Key /\ On(t) \in Worker
  BY KeyGiven, OnType
<1>2. CASE Usable(e) /\ Return(t, e.val)
  BY <1>2, ReturnPasses DEF Usable
<1>3. CASE stage[t] = "first" /\ Stale(e) /\ ServeStale(t, e)
  <2> DEFINE b == <<On(t), key[t]>>
  <2>1. t \in Request
    BY <1>3 DEF Control, Task
  <2>2. b \in Refresh /\ b \in Task /\ b # t /\ CounterOf(b) = CounterOf(t)
    BY <1>1, <2>1, RefreshIsTask DEF CounterOf
  <2>3. \A u \in Task : u # t => val'[u] = val[u]
    BY <1>3 DEF ServeStale, TypeOK, TaskTypeOK
  <2>4. \A u \in Task : u # t /\ u # b => key'[u] = key[u] /\ pc'[u] = pc[u]
    BY <1>3, <2>2 DEF ServeStale, Goto, TypeOK, TaskTypeOK
  <2>5. \/ key'[b] = key[b] /\ pc'[b] = pc[b]
        \/ pc[b] = "idle" /\ pc'[b] = "start" /\ key'[b] = key[t]
    BY <1>1, <1>3, <2>2 DEF ServeStale, Goto, TypeOK, TaskTypeOK, RefreshIsTracked
  <2>6. key'[t] = None /\ pc'[t] = "done" /\ val'[t] = e.val
    BY <1>1, <1>3, <2>2 DEF ServeStale, Goto, TypeOK, TaskTypeOK
  <2>7. e # None
    BY <1>3 DEF Stale
  <2> QED
    BY <1>1, <2>2, <2>3, <2>4, <2>5, <2>6, <2>7 DEF Passes
<1>4. CASE \E label \in {"wait", "dlock", "load"} : Goto(t, label) /\ UNCHANGED <<key, val>>
  <2>1. \A u \in Task \ {t} : key'[u] = key[u] /\ pc'[u] = pc[u] /\ val'[u] = val[u]
    BY <1>4 DEF Goto, TypeOK, TaskTypeOK
  <2>2. pc'[t] \in {"wait", "dlock", "load"} /\ key'[t] = key[t]
    BY <1>4 DEF Goto, TypeOK, TaskTypeOK
  <2> QED
    BY <2>1, <2>2 DEF Passes
<1> QED
  BY <1>2, <1>3, <1>4 DEF Decide, Register

LEMMA PassesValues ==
    ASSUME IInv, TypeOK', Calm, NEW t \in Task, Passes(t),
           t \in Request /\ pc'[t] = "done" => val'[t] \in floor[t] .. db,
           \A u \in Task : got'[u] = got[u] \/ got'[u] = None,
           got'[t] = None,
           StoresFitting
    PROVE  KeptFit' /\ CarriedFit' /\ Bounds'
<1>1. TypeOK /\ Control /\ CarriedFit /\ Bounds
  BY DEF IInv
<1>2. \A r \in Request : r \in Task /\ r \notin Refresh
  BY TasksDiffer DEF Task
<1>3. \A r \in Request : key'[r] \in {key[r], None}
  BY <1>2 DEF Passes
<1>4. \A u \in Task : \/ key'[u] \in {key[u], None}
                      \/ (key'[u] \in Key /\ key'[u] <= gen[CounterOf(u)])
  <2>1. key[t] \in Key => key[t] <= gen[CounterOf(t)]
    BY <1>1, NoneIsNoKey DEF Bounds
  <2>2. key'[t] = key[t] \/ key'[t] = None
    BY DEF Passes
  <2>3. \A u \in Task : u # t => \/ key'[u] = key[u]
                                  \/ (key'[u] = key[t] /\ key[t] \in Key /\ CounterOf(u) = CounterOf(t))
    BY DEF Passes
  <2> QED
    BY <2>1, <2>2, <2>3
<1>5. \A u \in Task : got'[u] # None => key'[u] = key[u] /\ key[u] # None /\ got'[u] = got[u]
  BY <1>1 DEF Passes, CarriedFit, Control
<1>6. \A u \in Task : pc'[u] \in {"store", "push"} =>
            /\ key'[u] = key[u] /\ key[u] # None
            /\ pc[u] \in {"store", "push"} /\ val'[u] = val[u]
  BY <1>1 DEF Passes, Control
<1>7. \A r \in Request : pc'[r] = "done" =>
            \/ pc[r] = "done" /\ val'[r] = val[r]
            \/ val'[r] \in floor[r] .. db
  BY <1>2 DEF Passes
<1> QED
  BY <1>3, <1>4, <1>5, <1>6, <1>7, ValueStep

\* A value that fits the key of a read answers it.
LEMMA FitAnswers ==
    ASSUME IInv, NEW r \in Request, key[r] \in Key, NEW v \in Fit[CounterOf(r)][key[r]]
    PROVE  v \in floor[r] .. db
<1>1. r \in Task /\ CounterOf(r) \in Node
  BY CounterOfType DEF Task
<1>2. v \in Nat /\ v <= db /\ floor[r] <= v
  BY <1>1 DEF Fit
<1>3. db \in Nat /\ floor[r] \in Nat
  BY DEF IInv, TypeOK, StoreTypeOK
<1> QED
  BY <1>2, <1>3

\* What is loaded now fits the key of whoever loads it.
LEMMA DbFits ==
    ASSUME IInv, NEW t \in Task, key[t] \in Key
    PROVE  db \in Fit[CounterOf(t)][key[t]]
<1>1. CounterOf(t) \in Node /\ key[t] # None
  BY CounterOfType, NoneIsNoKey
<1>2. db \in Nat /\ gen \in [Node -> Key] /\ acked \in [Node -> Nat] /\ floor \in [Request -> Nat]
  BY DEF IInv, TypeOK, StoreTypeOK
<1>3. acked[CounterOf(t)] <= db /\ key[t] <= gen[CounterOf(t)]
  BY <1>1 DEF IInv, Bounds
<1>4. \A r \in Request : floor[r] <= db
  <2> TAKE r \in Request
  <2>1. CounterOf(r) \in Node
    BY CounterOfType DEF Task
  <2>2. acked[CounterOf(r)] <= db /\ floor[r] <= acked[CounterOf(r)]
    BY <2>1 DEF IInv, Bounds
  <2> QED
    BY <1>2, <2>1, <2>2
<1> QED
  BY <1>1, <1>2, <1>3, <1>4 DEF Fit


\* A step that changes no key.
LEMMA KeyStep ==
    ASSUME IInv, TypeOK', Calm, StoresFitting, key' = key,
           \A u \in Task : got'[u] # None =>
                /\ key[u] # None
                /\ got'[u] = got[u] \/ got'[u].val \in Fit[CounterOf(u)][key[u]],
           \A u \in Task : pc'[u] \in {"store", "push"} =>
                /\ key[u] # None
                /\ \/ pc[u] \in {"store", "push"} /\ val'[u] = val[u]
                   \/ val'[u] \in Fit[CounterOf(u)][key[u]],
           \A r \in Request : pc'[r] = "done" => pc[r] = "done" /\ val'[r] = val[r]
    PROVE  KeptFit' /\ CarriedFit' /\ Bounds'
<1>1. \A u \in Task : key'[u] = key[u]
  OBVIOUS
<1>2. \A r \in Request : key'[r] \in {key[r], None}
  OBVIOUS
<1>3. \A u \in Task : \/ key'[u] \in {key[u], None}
                      \/ (key'[u] \in Key /\ key'[u] <= gen[CounterOf(u)])
  BY <1>1
<1>4. \A u \in Task : got'[u] # None =>
            /\ key'[u] = key[u] /\ key[u] # None
            /\ got'[u] = got[u] \/ got'[u].val \in Fit[CounterOf(u)][key[u]]
  BY <1>1
<1>5. \A u \in Task : pc'[u] \in {"store", "push"} =>
            /\ key'[u] = key[u] /\ key[u] # None
            /\ \/ pc[u] \in {"store", "push"} /\ val'[u] = val[u]
               \/ val'[u] \in Fit[CounterOf(u)][key[u]]
  BY <1>1
<1>6. \A r \in Request : pc'[r] = "done" =>
            \/ pc[r] = "done" /\ val'[r] = val[r]
            \/ val'[r] \in floor[r] .. db
  OBVIOUS
<1> QED
  BY <1>2, <1>3, <1>4, <1>5, <1>6, ValueStep

LEMMA TaskValues ==
    ASSUME IInv, TypeOK', NEW t \in Task, TaskStep(t)
    PROVE  KeptFit' /\ CarriedFit' /\ Bounds'
<1>0. /\ TypeOK /\ Control /\ RefreshIsTracked /\ StoreTypeOK
      /\ On(t) \in Worker /\ CounterOf(t) \in Node /\ CounterOf(t) = Counter(On(t))
      /\ \A u \in Task : pc[u] # "reply" => got[u] = None
  BY OnType, CounterOfType DEF IInv, Control, CounterOf, TypeOK
<1>1. CASE Look(t)
  <2> DEFINE e == local[On(t)][key[t]]
  <2>1. Calm /\ UNCHANGED <<got, local, shared>> /\ got'[t] = None /\ key[t] \in Key
    BY <1>0, <1>1, KeyGiven DEF Look, Calm, dbVars, storeVars
  <2>2. CASE Decide(t, e)
    <3>1. Passes(t) /\ (t \in Request /\ pc'[t] = "done" => e # None /\ val'[t] = e.val)
      BY <1>0, <1>1, <2>2, DecidePasses DEF Look
    <3>2. e # None => e.val \in Fit[CounterOf(t)][key[t]]
      BY <1>0, <2>1 DEF IInv, KeptFit
    <3>3. t \in Request /\ pc'[t] = "done" => val'[t] \in floor[t] .. db
      BY <2>1, <3>1, <3>2, FitAnswers
    <3> QED
      BY <2>1, <3>1, <3>3, PassesValues, NothingStored
  <2>3. CASE Goto(t, "remote") /\ UNCHANGED <<key, val>>
    <3>1. Passes(t) /\ pc'[t] # "done"
      BY <1>0, <2>3 DEF Goto, Passes, TypeOK, TaskTypeOK
    <3> QED
      BY <2>1, <3>1, PassesValues, NothingStored
  <2> QED
    BY <1>1, <2>2, <2>3 DEF Look
<1>2. CASE Fetch(t)
  <2>1. Calm /\ UNCHANGED <<local, shared, key, val>> /\ key[t] \in Key /\ key[t] # None
    BY <1>0, <1>2, KeyGiven, NoneIsNoKey DEF Fetch, Calm, dbVars, storeVars
  <2>2. CounterOf(t) = Redis
    BY <1>0, <1>2 DEF Fetch, Control, Counter, Remote
  <2>3. got'[t] = shared[key[t]] /\ \A u \in Task : u # t => got'[u] = got[u]
    BY <1>0, <1>2 DEF Fetch, StoreTypeOK
  <2>4. got'[t] # None => got'[t].val \in Fit[CounterOf(t)][key[t]]
    BY <2>1, <2>2, <2>3 DEF IInv, KeptFit
  <2>5. \A u \in Task : u # t => pc'[u] = pc[u]
    BY <1>0, <1>2 DEF Fetch, Goto, TypeOK, TaskTypeOK
  <2>6. pc'[t] = "reply"
    BY <1>0, <1>2 DEF Fetch, Goto, TypeOK, TaskTypeOK
  <2>7. \A u \in Task : got'[u] # None =>
            /\ key[u] # None
            /\ got'[u] = got[u] \/ got'[u].val \in Fit[CounterOf(u)][key[u]]
    BY <2>1, <2>3, <2>4 DEF IInv, CarriedFit
  <2>8. \A u \in Task : pc'[u] \in {"store", "push"} =>
            /\ key[u] # None
            /\ pc[u] \in {"store", "push"} /\ val'[u] = val[u]
    BY <1>0, <2>1, <2>5, <2>6 DEF Control
  <2>9. \A r \in Request : pc'[r] = "done" => pc[r] = "done" /\ val'[r] = val[r]
    BY <2>1, <2>5, <2>6 DEF Task
  <2> QED
    BY <2>1, <2>7, <2>8, <2>9, KeyStep, NothingStored
<1>3. CASE FetchFails(t)
  <2>1. Calm /\ UNCHANGED <<got, local, shared>> /\ got'[t] = None
    BY <1>0, <1>3 DEF FetchFails, Calm, dbVars, storeVars
  <2>2. Passes(t) /\ ~(t \in Request /\ pc'[t] = "done")
    BY <1>0, <1>3, DecidePasses, FailPasses DEF FetchFails
  <2> QED
    BY <2>1, <2>2, PassesValues, NothingStored
<1>4. CASE Reply(t)
  <2>1. Calm /\ UNCHANGED shared /\ key[t] \in Key /\ key[t] # None
    BY <1>0, <1>4, KeyGiven, NoneIsNoKey DEF Reply, Calm, dbVars
  <2>2. got'[t] = None /\ \A u \in Task : u # t => got'[u] = got[u]
    BY <1>0, <1>4 DEF Reply, StoreTypeOK
  <2>3. got[t] # None => got[t].val \in Fit[CounterOf(t)][key[t]]
    BY <1>0 DEF IInv, CarriedFit
  <2>4. Passes(t) /\ (t \in Request /\ pc'[t] = "done" => got[t] # None /\ val'[t] = got[t].val)
    BY <1>0, <1>4, DecidePasses DEF Reply
  <2>5. t \in Request /\ pc'[t] = "done" => val'[t] \in floor[t] .. db
    BY <2>1, <2>3, <2>4, FitAnswers
  <2>6. StoresFitting
    <3> SUFFICES ASSUME NEW w \in Worker, NEW k \in Key, local'[w][k] # None
                 PROVE  \/ local[w][k] # None /\ local'[w][k].val = local[w][k].val
                        \/ local'[w][k].val \in Fit[Counter(w)][k]
      BY <2>1 DEF StoresFitting
    <3>1. CASE local' = local
      BY <3>1
    <3>2. CASE got[t] # None /\ local' = [local EXCEPT ![On(t)][key[t]] = got[t]]
      <4>1. local'[w][k] = IF w = On(t) /\ k = key[t] THEN got[t] ELSE local[w][k]
        BY <1>0, <2>1, <3>2 DEF StoreTypeOK
      <4> QED
        BY <1>0, <2>3, <3>2, <4>1
    <3> QED
      BY <1>4, <3>1, <3>2 DEF Reply
  <2> QED
    BY <2>1, <2>2, <2>4, <2>5, <2>6, PassesValues, NothingStored
<1>5. CASE \/ StartRefresh(t) \/ Acquire(t) \/ LockRemote(t)
  <2>1. Calm /\ UNCHANGED <<got, local, shared, key, val>> /\ got'[t] = None
    BY <1>0, <1>5 DEF StartRefresh, Acquire, LockRemote, Calm, dbVars, storeVars
  <2>2. PICK label \in {"wait", "get", "load"} : Goto(t, label)
    BY <1>5 DEF StartRefresh, Acquire, LockRemote, Register
  <2>3. Passes(t) /\ pc'[t] # "done"
    BY <1>0, <2>1, <2>2 DEF Goto, Passes, TypeOK, TaskTypeOK
  <2> QED
    BY <2>1, <2>3, PassesValues, NothingStored
<1>6. CASE Load(t)
  <2>1. Calm /\ UNCHANGED <<got, local, shared>> /\ got'[t] = None
    BY <1>0, <1>6 DEF Load, Calm, dbVars, storeVars
  <2>2. CASE key[t] = None
    <3>1. Passes(t) /\ (t \in Request => val'[t] = db)
      BY <1>0, <1>6, <2>2, ReturnPasses DEF Load
    <3>2. t \in Request => db \in floor[t] .. db
      <4> SUFFICES ASSUME t \in Request PROVE db \in floor[t] .. db
        OBVIOUS
      <4>1. floor[t] <= acked[CounterOf(t)] /\ acked[CounterOf(t)] <= db
        BY <1>0 DEF IInv, Bounds
      <4>2. floor[t] \in Nat /\ acked[CounterOf(t)] \in Nat /\ db \in Nat
        BY <1>0 DEF StoreTypeOK
      <4> QED
        BY <4>1, <4>2
    <3> QED
      BY <2>1, <3>1, <3>2, PassesValues, NothingStored
  <2>3. CASE key[t] # None
    <3>1. key[t] \in Key /\ key' = key
      BY <1>0, <1>6, <2>3 DEF Load, TypeOK, TaskTypeOK
    <3>2. db \in Fit[CounterOf(t)][key[t]]
      BY <3>1, DbFits
    <3>3. /\ pc'[t] \in {"store", "push"} /\ val'[t] = db
          /\ \A u \in Task : u # t => pc'[u] = pc[u] /\ val'[u] = val[u]
      BY <1>0, <1>6, <2>3 DEF Load, Goto, TypeOK, TaskTypeOK
    <3>4. \A u \in Task : got'[u] # None =>
            /\ key[u] # None
            /\ got'[u] = got[u]
      BY <2>1, <3>1 DEF IInv, CarriedFit
    <3>5. \A u \in Task : pc'[u] \in {"store", "push"} =>
            /\ key[u] # None
            /\ \/ pc[u] \in {"store", "push"} /\ val'[u] = val[u]
               \/ val'[u] \in Fit[CounterOf(u)][key[u]]
      BY <1>0, <2>3, <3>1, <3>2, <3>3 DEF Control
    <3>6. \A r \in Request : pc'[r] = "done" => pc[r] = "done" /\ val'[r] = val[r]
      BY <3>3 DEF Task
    <3> QED
      BY <2>1, <3>1, <3>4, <3>5, <3>6, KeyStep, NothingStored
  <2> QED
    BY <2>2, <2>3
<1>7. CASE LoadFails(t)
  <2>1. Calm /\ UNCHANGED <<got, local, shared>> /\ got'[t] = None
    BY <1>0, <1>7 DEF LoadFails, Calm, dbVars, storeVars
  <2>2. Passes(t) /\ pc'[t] # "done"
    BY <1>0, <1>7, FailPasses DEF LoadFails
  <2> QED
    BY <2>1, <2>2, PassesValues, NothingStored
<1>8. ASSUME pc[t] \in {"store", "push"}
      PROVE  /\ key[t] \in Key /\ key[t] # None
             /\ val[t] \in Fit[CounterOf(t)][key[t]]
             /\ Loaded(t).val = val[t]
             /\ t \in Request => val[t] \in floor[t] .. db
  <2>1. key[t] \in Key /\ key[t] # None /\ val[t] \in Fit[CounterOf(t)][key[t]]
    BY <1>0, <1>8, KeyGiven, NoneIsNoKey DEF IInv, CarriedFit
  <2>2. t \in Request => val[t] \in floor[t] .. db
    BY <2>1, FitAnswers
  <2> QED
    BY <2>1, <2>2 DEF Loaded
<1>9. CASE Store(t)
  <2>1. Calm /\ UNCHANGED <<got, shared>> /\ got'[t] = None /\ pc[t] = "store"
    BY <1>0, <1>9 DEF Store, Calm, dbVars
  <2>2. StoresFitting
    <3> SUFFICES ASSUME NEW w \in Worker, NEW k \in Key, local'[w][k] # None
                 PROVE  \/ local[w][k] # None /\ local'[w][k].val = local[w][k].val
                        \/ local'[w][k].val \in Fit[Counter(w)][k]
      BY <2>1 DEF StoresFitting
    <3>1. local'[w][k] = IF w = On(t) /\ k = key[t] THEN Loaded(t) ELSE local[w][k]
      BY <1>0, <1>8, <1>9, <2>1 DEF Store, StoreTypeOK
    <3> QED
      BY <1>0, <1>8, <2>1, <3>1
  <2>3. CASE Return(t, val[t])
    <3>1. Passes(t) /\ (t \in Request => val'[t] = val[t])
      BY <1>0, <2>3, ReturnPasses
    <3> QED
      BY <1>8, <2>1, <2>2, <3>1, PassesValues, NothingStored
  <2>4. CASE Goto(t, "push") /\ UNCHANGED <<key, val>>
    <3>1. pc'[t] = "push" /\ \A u \in Task : u # t => pc'[u] = pc[u]
      BY <1>0, <2>4 DEF Goto, TypeOK, TaskTypeOK
    <3>2. \A u \in Task : pc'[u] \in {"store", "push"} =>
            /\ key[u] # None
            /\ pc[u] \in {"store", "push"} /\ val'[u] = val[u]
      BY <1>0, <1>8, <2>1, <2>4, <3>1 DEF Control
    <3>3. \A r \in Request : pc'[r] = "done" => pc[r] = "done" /\ val'[r] = val[r]
      BY <2>4, <3>1 DEF Task
    <3>4. \A u \in Task : got'[u] # None =>
            key[u] # None /\ got'[u] = got[u]
      BY <2>1, <2>4 DEF IInv, CarriedFit
    <3> QED
      BY <2>1, <2>2, <2>4, <3>2, <3>3, <3>4, KeyStep, NothingStored
  <2> QED
    BY <1>9, <2>3, <2>4 DEF Store
<1>10. CASE Push(t)
  <2>1. Calm /\ UNCHANGED <<got, local>> /\ got'[t] = None /\ pc[t] = "push"
    BY <1>0, <1>10 DEF Push, Calm, dbVars
  <2>2. CounterOf(t) = Redis
    BY <1>0, <2>1 DEF Control, Counter, Remote
  <2>3. StoresFitting
    <3> SUFFICES ASSUME NEW k \in Key, shared'[k] # None
                 PROVE  \/ shared[k] # None /\ shared'[k].val = shared[k].val
                        \/ shared'[k].val \in Fit[Redis][k]
      BY <2>1 DEF StoresFitting
    <3>1. shared'[k] = IF k = key[t] THEN Loaded(t) ELSE shared[k]
      BY <1>0, <1>8, <1>10, <2>1 DEF Push, StoreTypeOK
    <3> QED
      BY <1>8, <2>1, <2>2, <3>1
  <2>4. Passes(t) /\ (t \in Request => val'[t] = val[t])
    BY <1>0, <1>10, ReturnPasses DEF Push
  <2> QED
    BY <1>8, <2>1, <2>3, <2>4, PassesValues, NothingStored
<1>11. CASE PushFails(t)
  <2>1. Calm /\ UNCHANGED <<got, local, shared>> /\ got'[t] = None /\ pc[t] = "push"
    BY <1>0, <1>11 DEF PushFails, Calm, dbVars, storeVars
  <2>2. Passes(t) /\ (t \in Request /\ pc'[t] = "done" => val'[t] = val[t])
    BY <1>0, <1>11, ReturnPasses, FailPasses DEF PushFails
  <2> QED
    BY <1>8, <2>1, <2>2, PassesValues, NothingStored
<1> QED
  BY <1>1, <1>2, <1>3, <1>4, <1>5, <1>6, <1>7, <1>9, <1>10, <1>11 DEF TaskStep

-----------------------------------------------------------------------------
(* Refreshes. *)

LEMMA MoveTracked ==
    ASSUME TypeOK, RefreshIsTracked, NEW t \in Task, pc[t] # "idle",
           NEW label, label # "idle", Goto(t, label), refreshing' = refreshing
    PROVE  RefreshIsTracked'
<1> SUFFICES ASSUME NEW w \in Worker, NEW k \in Key
             PROVE  k \in refreshing'[w] <=> pc'[<<w, k>>] # "idle"
  BY DEF RefreshIsTracked
<1>1. <<w, k>> \in Task
  BY RefreshIsTask
<1>2. pc'[<<w, k>>] = IF <<w, k>> = t THEN label ELSE pc[<<w, k>>]
  BY <1>1 DEF Goto, TypeOK, TaskTypeOK
<1> QED
  BY <1>2 DEF RefreshIsTracked

LEMMA LeaveTracked ==
    ASSUME TypeOK, RefreshIsTracked, NEW t \in Task, pc[t] # "idle",
           NEW label \in {"done", "error"}, Leave(t, label)
    PROVE  RefreshIsTracked'
<1>1. CASE t \in Request
  <2>1. t \notin Refresh /\ Goto(t, label) /\ refreshing' = refreshing
    BY <1>1, TasksDiffer DEF Leave, EndRefresh
  <2> QED
    BY <2>1, MoveTracked
<1>2. CASE t \in Refresh
  <2> SUFFICES ASSUME NEW w \in Worker, NEW k \in Key
               PROVE  k \in refreshing'[w] <=> pc'[<<w, k>>] # "idle"
    BY DEF RefreshIsTracked
  <2>1. PICK v \in Worker, j \in Key : t = <<v, j>>
    BY <1>2 DEF Refresh
  <2>2. t \notin Request
    BY <1>2, TasksDiffer
  <2>3. <<w, k>> \in Task
    BY RefreshIsTask
  <2>4. refreshing'[w] = IF w = v THEN refreshing[w] \ {j} ELSE refreshing[w]
    BY <1>2, <2>1 DEF Leave, EndRefresh, TypeOK, TaskTypeOK
  <2>5. pc'[<<w, k>>] = IF w = v /\ k = j THEN "idle" ELSE pc[<<w, k>>]
    BY <2>1, <2>2, <2>3 DEF Leave, Goto, TypeOK, TaskTypeOK
  <2> QED
    BY <2>4, <2>5 DEF RefreshIsTracked
<1> QED
  BY <1>1, <1>2 DEF Task

LEMMA DecideTracked ==
    ASSUME TypeOK, Control, RefreshIsTracked,
           NEW t \in Task, NEW e, pc[t] \in {"get", "remote", "reply"}, Decide(t, e)
    PROVE  RefreshIsTracked'
<1>1. key[t] \in Key /\ On(t) \in Worker
  BY KeyGiven, OnType
<1>2. CASE Return(t, e.val)
  BY <1>2, LeaveTracked DEF Return
<1>3. CASE stage[t] = "first" /\ ServeStale(t, e)
  <2> DEFINE b == <<On(t), key[t]>>
  <2>1. t \notin Refresh
    BY <1>3 DEF Control
  <2>2. CASE key[t] \in refreshing[On(t)]
    BY <1>3, <2>2, MoveTracked DEF ServeStale
  <2>3. CASE key[t] \notin refreshing[On(t)]
    <3> SUFFICES ASSUME NEW w \in Worker, NEW k \in Key
                 PROVE  k \in refreshing'[w] <=> pc'[<<w, k>>] # "idle"
      BY DEF RefreshIsTracked
    <3>1. <<w, k>> \in Task /\ <<w, k>> # t
      BY <2>1, RefreshIsTask
    <3>2. refreshing'[w] = IF w = On(t) THEN refreshing[w] \cup {key[t]} ELSE refreshing[w]
      BY <1>3, <2>3 DEF ServeStale, TypeOK, TaskTypeOK
    <3>3. pc'[<<w, k>>] = IF w = On(t) /\ k = key[t] THEN "start" ELSE pc[<<w, k>>]
      BY <1>1, <1>3, <2>3, <3>1 DEF ServeStale, TypeOK, TaskTypeOK
    <3> QED
      BY <3>2, <3>3 DEF RefreshIsTracked
  <2> QED
    BY <2>2, <2>3
<1>4. CASE \E label \in {"wait", "dlock", "load"} : Goto(t, label) /\ refreshing' = refreshing
  BY <1>4, MoveTracked
<1> QED
  BY <1>2, <1>3, <1>4 DEF Decide, Register, lockVars

LEMMA TaskTracked ==
    ASSUME TypeOK, Control, RefreshIsTracked, NEW t \in Task, TaskStep(t)
    PROVE  RefreshIsTracked'
<1>1. CASE Look(t)
  BY <1>1, DecideTracked, MoveTracked DEF Look, lockVars
<1>2. CASE Fetch(t)
  BY <1>2, MoveTracked DEF Fetch, lockVars
<1>3. CASE FetchFails(t)
  BY <1>3, DecideTracked, LeaveTracked DEF FetchFails, Fail
<1>4. CASE Reply(t)
  BY <1>4, DecideTracked DEF Reply
<1>5. CASE StartRefresh(t)
  BY <1>5, MoveTracked DEF StartRefresh, Register
<1>6. CASE Acquire(t)
  BY <1>6, MoveTracked DEF Acquire, lockVars
<1>7. CASE LockRemote(t)
  BY <1>7, MoveTracked DEF LockRemote, lockVars
<1>8. CASE Load(t)
  BY <1>8, MoveTracked, LeaveTracked DEF Load, Return, lockVars
<1>9. CASE LoadFails(t)
  BY <1>9, LeaveTracked DEF LoadFails, Fail
<1>10. CASE Store(t)
  BY <1>10, MoveTracked, LeaveTracked DEF Store, Return, lockVars
<1>11. CASE Push(t)
  BY <1>11, LeaveTracked DEF Push, Return
<1>12. CASE PushFails(t)
  BY <1>12, LeaveTracked DEF PushFails, Return, Fail
<1> QED
  BY <1>1, <1>2, <1>3, <1>4, <1>5, <1>6, <1>7, <1>8, <1>9, <1>10, <1>11, <1>12 DEF TaskStep

LEMMA RequestTracked ==
    ASSUME TypeOK, RefreshIsTracked, NEW r \in Request, RequestStep(r)
    PROVE  RefreshIsTracked'
<1> SUFFICES ASSUME NEW w \in Worker, NEW k \in Key
             PROVE  k \in refreshing'[w] <=> pc'[<<w, k>>] # "idle"
  BY DEF RefreshIsTracked
<1>1. <<w, k>> \in Task /\ <<w, k>> # r
  BY RefreshIsTask, TasksDiffer
<1>2. refreshing' = refreshing /\ pc'[<<w, k>>] = pc[<<w, k>>]
  BY <1>1 DEF RequestStep, Begin, MakeKey, KeyFails, Answer, Goto, lockVars, TypeOK, TaskTypeOK
<1> QED
  BY <1>2 DEF RefreshIsTracked

-----------------------------------------------------------------------------
(* Values, when requests and writes begin and end. *)

\* Entries and answers on their way are kept, and what fitted fits.
LEMMA StillFit ==
    ASSUME TypeOK, KeptFit, CarriedFit, UNCHANGED <<local, shared>>,
           \A n \in Node, k \in Key : Fit[n][k] \subseteq Fit'[n][k],
           \A u \in Task : got'[u] # None => got'[u] = got[u] /\ key'[u] = key[u],
           \A u \in Task : pc'[u] \in {"store", "push"} =>
                pc'[u] = pc[u] /\ key'[u] = key[u] /\ val'[u] = val[u] /\ key[u] # None
    PROVE  KeptFit' /\ CarriedFit'
<1>1. \A u \in Task : CounterOf(u) \in Node /\ (key[u] # None => key[u] \in Key)
  BY CounterOfType DEF TypeOK, TaskTypeOK
<1>2. \A w \in Worker, k \in Key : local'[w][k] # None => local'[w][k].val \in Fit'[Counter(w)][k]
  BY CounterType DEF KeptFit
<1>3. \A k \in Key : shared'[k] # None => shared'[k].val \in Fit'[Redis][k]
  BY DEF KeptFit, Node
<1>4. \A u \in Task : got'[u] # None => key'[u] # None /\ got'[u].val \in Fit'[CounterOf(u)][key'[u]]
  BY <1>1 DEF CarriedFit
<1>5. \A u \in Task : pc'[u] \in {"store", "push"} => val'[u] \in Fit'[CounterOf(u)][key'[u]]
  BY <1>1 DEF CarriedFit
<1> QED
  BY <1>2, <1>3, <1>4, <1>5 DEF KeptFit, CarriedFit, CounterOf, Counter, On

LEMMA RequestFits ==
    ASSUME IInv, NEW r \in Request, RequestStep(r)
    PROVE  \A n \in Node, k \in Key : Fit[n][k] \subseteq Fit'[n][k]
<1> SUFFICES ASSUME NEW n \in Node, NEW k \in Key, NEW v \in Fit[n][k] PROVE v \in Fit'[n][k]
  OBVIOUS
<1>0. /\ TypeOK /\ StoreTypeOK /\ Bounds /\ Control
      /\ r \in Task /\ CounterOf(r) = Counter(Host[r]) /\ CounterOf(r) \in Node
      /\ gen \in [Node -> Key] /\ Key \subseteq Nat
  BY RequestIsTask, CounterOfType, NoneIsNoKey DEF IInv, TypeOK, StoreTypeOK
<1>1. /\ v \in Nat /\ k <= gen[n] /\ v <= db /\ (k = gen[n] => acked[n] <= v)
      /\ \A s \in Request : (CounterOf(s) = n /\ key[s] = k) => floor[s] <= v
  BY DEF Fit
<1>2. db' = db /\ gen' = gen /\ acked' = acked
  BY DEF RequestStep, Begin, MakeKey, KeyFails, Answer, dbVars
<1>3. \A s \in Request : s # r => key'[s] = key[s] /\ floor'[s] = floor[s]
  BY DEF RequestStep, Begin, MakeKey, KeyFails, Answer, IInv, TypeOK, StoreTypeOK, TaskTypeOK, Task
<1>4. CounterOf(r) = n /\ key'[r] = k => floor'[r] <= v
  <2>1. CASE Begin(r) \/ KeyFails(r) \/ Answer(r)
    <3>1. key'[r] = None
      BY <1>0, <2>1 DEF Begin, KeyFails, Answer, Control
    <3> QED
      BY <3>1, NoneIsNoKey
  <2>2. CASE MakeKey(r)
    <3>1. key'[r] = gen[CounterOf(r)] /\ floor'[r] = floor[r]
      BY <1>0, <2>2 DEF MakeKey, TypeOK, TaskTypeOK
    <3>2. floor[r] <= acked[CounterOf(r)]
      BY <1>0 DEF Bounds
    <3>3. floor[r] \in Nat /\ acked[CounterOf(r)] \in Nat
      BY <1>0 DEF StoreTypeOK
    <3> QED
      BY <1>1, <3>1, <3>2, <3>3
  <2> QED
    BY <2>1, <2>2 DEF RequestStep
<1>5. \A s \in Request : (CounterOf(s) = n /\ key'[s] = k) => floor'[s] <= v
  BY <1>1, <1>3, <1>4
<1> QED
  BY <1>1, <1>2, <1>5 DEF Fit, CounterOf, Counter, On

LEMMA RequestValues ==
    ASSUME IInv, TypeOK', NEW r \in Request, RequestStep(r)
    PROVE  KeptFit' /\ CarriedFit' /\ Bounds'
<1>0. /\ TypeOK /\ StoreTypeOK /\ TaskTypeOK /\ Bounds /\ Control /\ KeptFit /\ CarriedFit
      /\ r \in Task /\ CounterOf(r) = Counter(Host[r]) /\ CounterOf(r) \in Node
      /\ gen \in [Node -> Key] /\ Key \subseteq Nat
  BY RequestIsTask, CounterOfType, NoneIsNoKey DEF IInv, TypeOK, StoreTypeOK
<1>1. UNCHANGED <<local, shared, got, db, gen, acked, wnum>>
  BY DEF RequestStep, Begin, MakeKey, KeyFails, Answer, dbVars, storeVars
<1>2. \A u \in Task : u # r => key'[u] = key[u] /\ pc'[u] = pc[u] /\ val'[u] = val[u]
  BY <1>0 DEF RequestStep, Begin, MakeKey, KeyFails, Answer, Goto, TaskTypeOK
<1>3. \A s \in Request : s # r => floor'[s] = floor[s]
  BY <1>0 DEF RequestStep, Begin, MakeKey, KeyFails, Answer, StoreTypeOK
<1>4. got[r] = None /\ pc'[r] \notin {"store", "push", "done"}
  BY <1>0 DEF RequestStep, Begin, MakeKey, KeyFails, Answer, Goto, TaskTypeOK, Control
<1>5. /\ floor'[r] <= acked[CounterOf(r)]
      /\ key'[r] # None => key'[r] <= gen[CounterOf(r)]
  <2>0. /\ floor[r] <= acked[CounterOf(r)] /\ acked[CounterOf(r)] \in Nat
        /\ gen[CounterOf(r)] \in Nat
    BY <1>0 DEF Bounds, StoreTypeOK
  <2>1. floor'[r] \in {floor[r], acked[CounterOf(r)], 0}
    BY <1>0 DEF RequestStep, Begin, MakeKey, KeyFails, Answer, StoreTypeOK
  <2>2. key'[r] \in {None, gen[CounterOf(r)]}
    BY <1>0 DEF RequestStep, Begin, MakeKey, KeyFails, Answer, TaskTypeOK, Control
  <2> QED
    BY <2>0, <2>1, <2>2
<1>6. KeptFit' /\ CarriedFit'
  <2>1. \A u \in Task : got'[u] # None => got'[u] = got[u] /\ key'[u] = key[u]
    BY <1>1, <1>2, <1>4
  <2>2. \A u \in Task : pc'[u] \in {"store", "push"} =>
                pc'[u] = pc[u] /\ key'[u] = key[u] /\ val'[u] = val[u] /\ key[u] # None
    BY <1>0, <1>2, <1>4 DEF Control
  <2> QED
    BY <1>0, <1>1, <2>1, <2>2, RequestFits, StillFit
<1>7. Bounds'
  <2>1. \A n \in Node : acked'[n] <= db'
    BY <1>0, <1>1 DEF Bounds
  <2>2. \A x \in Writer : wnum'[x] <= db'
    BY <1>0, <1>1 DEF Bounds
  <2>3. \A s \in Request : floor'[s] <= acked'[CounterOf(s)]
    BY <1>0, <1>1, <1>3, <1>5 DEF Bounds
  <2>4. \A u \in Task : key'[u] # None => key'[u] <= gen'[CounterOf(u)]
    BY <1>0, <1>1, <1>2, <1>5 DEF Bounds
  <2>5. \A s \in Request : pc'[s] = "done" => val'[s] \in floor'[s] .. db'
    BY <1>0, <1>1, <1>2, <1>3, <1>4, RequestIsTask DEF Bounds
  <2> QED
    BY <2>1, <2>2, <2>3, <2>4, <2>5 DEF Bounds, CounterOf, Counter, On
<1> QED
  BY <1>6, <1>7

LEMMA WriterFits ==
    ASSUME IInv, NEW x \in Writer, WriterStep(x)
    PROVE  \A n \in Node, k \in Key : Fit[n][k] \subseteq Fit'[n][k]
<1> SUFFICES ASSUME NEW n \in Node, NEW k \in Key, NEW v \in Fit[n][k] PROVE v \in Fit'[n][k]
  OBVIOUS
<1>0. /\ StoreTypeOK /\ k \in Nat /\ gen[n] \in Nat /\ db \in Nat
      /\ gen \in [Node -> Key] /\ Counter(Host[x]) \in Node
  BY HostIsWorker, CounterType, NoneIsNoKey DEF IInv, TypeOK, StoreTypeOK
<1>1. /\ v \in Nat /\ k <= gen[n] /\ v <= db /\ (k = gen[n] => acked[n] <= v)
      /\ \A r \in Request : (CounterOf(r) = n /\ key[r] = k) => floor[r] <= v
  BY DEF Fit
<1>2. floor' = floor /\ key' = key
  BY DEF WriterStep, Commit, ReadBackFails, Invalidate, InvalidateFails
<1>3. v <= db'
  BY <1>0, <1>1 DEF WriterStep, Commit, ReadBackFails, Invalidate, InvalidateFails
<1>4. (gen'[n] = gen[n] /\ acked'[n] = acked[n]) \/ gen'[n] = gen[n] + 1
  BY <1>0 DEF WriterStep, Commit, ReadBackFails, Invalidate, InvalidateFails, StoreTypeOK
<1>5. k <= gen'[n] /\ (k = gen'[n] => acked'[n] <= v)
  BY <1>0, <1>1, <1>4
<1> QED
  BY <1>1, <1>2, <1>3, <1>5 DEF Fit, CounterOf, Counter, On

LEMMA WriterBounds ==
    ASSUME TypeOK, Bounds, NEW x \in Writer, WriterStep(x)
    PROVE  /\ db \in Nat /\ db' \in Nat /\ db <= db'
           /\ \A n \in Node : acked'[n] \in acked[n] .. db' /\ gen'[n] \in Nat /\ gen[n] <= gen'[n]
           /\ \A y \in Writer : wnum'[y] <= db'
<1>0. /\ db \in Nat /\ gen \in [Node -> Key] /\ acked \in [Node -> Nat] /\ wnum \in [Writer -> Nat]
      /\ Key \subseteq Nat
      /\ \A n \in Node : acked[n] <= db /\ gen[n] \in Nat
      /\ \A y \in Writer : wnum[y] <= db
  BY NoneIsNoKey DEF TypeOK, StoreTypeOK, Bounds
<1>1. CASE Commit(x)
  <2>1. db' = db + 1 /\ gen' = gen /\ acked' = acked
    BY <1>1 DEF Commit
  <2>2. \A y \in Writer : wnum'[y] \in {wnum[y], db + 1}
    BY <1>0, <1>1 DEF Commit
  <2> QED
    BY <1>0, <2>1, <2>2
<1>2. CASE ReadBackFails(x) \/ Invalidate(x) \/ InvalidateFails(x)
  <2>1. db' = db
    BY <1>2 DEF ReadBackFails, Invalidate, InvalidateFails
  <2>2. \A y \in Writer : wnum'[y] \in {wnum[y], 0}
    BY <1>0, <1>2 DEF ReadBackFails, Invalidate, InvalidateFails, Done
  <2>3. \A n \in Node : acked'[n] \in {acked[n], Later(acked[n], wnum[x])}
    BY <1>0, <1>2 DEF ReadBackFails, Invalidate, InvalidateFails
  <2>4. \A n \in Node : gen'[n] \in {gen[n], gen[n] + 1}
    BY <1>0, <1>2 DEF ReadBackFails, Invalidate, InvalidateFails
  <2>5. \A n \in Node : acked'[n] \in acked[n] .. db'
    BY <1>0, <2>1, <2>3 DEF Later
  <2> QED
    BY <1>0, <2>1, <2>2, <2>4, <2>5
<1> QED
  BY <1>1, <1>2 DEF WriterStep

LEMMA WriterValues ==
    ASSUME IInv, TypeOK', NEW x \in Writer, WriterStep(x)
    PROVE  KeptFit' /\ CarriedFit' /\ Bounds'
<1>0. /\ TypeOK /\ StoreTypeOK /\ TaskTypeOK /\ Bounds /\ Control /\ KeptFit /\ CarriedFit
      /\ Key \subseteq Nat
  BY NoneIsNoKey DEF IInv, TypeOK
<1>1. UNCHANGED <<local, shared, got, pc, key, val, floor>>
  BY DEF WriterStep, Commit, ReadBackFails, Invalidate, InvalidateFails, storeVars
<1>2. KeptFit' /\ CarriedFit'
  <2>1. \A u \in Task : pc[u] \in {"store", "push"} => key[u] # None
    BY <1>0 DEF Control
  <2> QED
    BY <1>0, <1>1, <2>1, WriterFits, StillFit
<1>3. Bounds'
  <2>1. /\ \A n \in Node : acked'[n] <= db'
        /\ \A y \in Writer : wnum'[y] <= db'
    <3>1. \A n \in Node : acked[n] \in Nat
      BY <1>0 DEF StoreTypeOK
    <3> QED
      BY <1>0, <3>1, WriterBounds
  <2>2. \A r \in Request : floor'[r] <= acked'[CounterOf(r)]
    <3> TAKE r \in Request
    <3>1. CounterOf(r) \in Node /\ floor[r] <= acked[CounterOf(r)]
      BY <1>0, CounterOfType, RequestIsTask DEF Bounds
    <3>2. floor[r] \in Nat /\ acked[CounterOf(r)] \in Nat
      BY <1>0, <3>1 DEF StoreTypeOK
    <3>3. acked'[CounterOf(r)] \in acked[CounterOf(r)] .. db' /\ db' \in Nat
      BY <1>0, <3>1, WriterBounds
    <3> QED
      BY <1>1, <3>1, <3>2, <3>3
  <2>3. \A u \in Task : key'[u] # None => key'[u] <= gen'[CounterOf(u)]
    <3> SUFFICES ASSUME NEW u \in Task, key[u] # None PROVE key[u] <= gen'[CounterOf(u)]
      BY <1>1
    <3>1. key[u] \in Nat /\ CounterOf(u) \in Node
      BY <1>0, CounterOfType DEF TaskTypeOK
    <3>2. key[u] <= gen[CounterOf(u)] /\ gen[CounterOf(u)] \in Nat
      BY <1>0, <3>1 DEF Bounds, StoreTypeOK
    <3>3. gen'[CounterOf(u)] \in Nat /\ gen[CounterOf(u)] <= gen'[CounterOf(u)]
      BY <1>0, <3>1, WriterBounds
    <3> QED
      BY <3>1, <3>2, <3>3
  <2>4. \A r \in Request : pc'[r] = "done" => val'[r] \in floor'[r] .. db'
    <3> SUFFICES ASSUME NEW r \in Request, pc[r] = "done" PROVE val[r] \in floor[r] .. db'
      BY <1>1
    <3>1. val[r] \in floor[r] .. db /\ floor[r] \in Nat
      BY <1>0 DEF Bounds, StoreTypeOK
    <3>2. db \in Nat /\ db' \in Nat /\ db <= db'
      BY <1>0, WriterBounds
    <3> QED
      BY <3>1, <3>2
  <2> QED
    BY <2>1, <2>2, <2>3, <2>4 DEF Bounds, CounterOf, Counter, On
<1> QED
  BY <1>2, <1>3

LEMMA AgeValues ==
    ASSUME IInv, TypeOK', Age
    PROVE  KeptFit' /\ CarriedFit' /\ Bounds'
<1>1. Calm /\ UNCHANGED <<key, got, pc, val>>
  BY DEF Age, Calm, dbVars
<1>2. \A e \in Entry : \A f \in Aged(e) : f # None => f.val = e.val
  BY DEF Aged, Entry
<1>3. StoresFitting
  <2>0. /\ local \in [Worker -> [Key -> Entry \cup {None}]]
        /\ shared \in [Key -> Entry \cup {None}]
    BY DEF IInv, TypeOK, StoreTypeOK
  <2>1. ASSUME NEW w \in Worker, NEW k \in Key, local[w][k] # None, shared' = shared,
               NEW e \in Aged(local[w][k]), local' = [local EXCEPT ![w][k] = e]
        PROVE  StoresFitting
    <3>1. \A v \in Worker, j \in Key : local'[v][j] = IF v = w /\ j = k THEN e ELSE local[v][j]
      BY <2>0, <2>1
    <3>2. e # None => e.val = local[w][k].val
      BY <1>2, <2>0, <2>1
    <3> QED
      BY <2>1, <3>1, <3>2 DEF StoresFitting
  <2>2. ASSUME NEW k \in Key, shared[k] # None, local' = local,
               NEW e \in Aged(shared[k]), shared' = [shared EXCEPT ![k] = e]
        PROVE  StoresFitting
    <3>1. \A j \in Key : shared'[j] = IF j = k THEN e ELSE shared[j]
      BY <2>0, <2>2
    <3>2. e # None => e.val = shared[k].val
      BY <1>2, <2>0, <2>2
    <3> QED
      BY <2>2, <3>1, <3>2 DEF StoresFitting
  <2> QED
    BY <2>1, <2>2 DEF Age
<1>4. \A u \in Task : /\ got[u] # None => key[u] # None
                      /\ pc[u] \in {"store", "push"} => key[u] # None
  BY DEF IInv, CarriedFit, Control
<1> QED
  BY <1>1, <1>3, <1>4, KeyStep

-----------------------------------------------------------------------------
(* The inductive invariant. *)

LEMMA InitHolds == Init => IInv
<1> SUFFICES ASSUME Init PROVE IInv
  OBVIOUS
<1>0. 0 \in Key /\ 0 \in Nat /\ Key \subseteq Nat
  BY NoneIsNoKey, MaxWritesIsNat DEF Key
<1>1. TypeOK /\ IdleLocks
  BY <1>0 DEF Init, TypeOK, StoreTypeOK, TaskTypeOK, IdleLocks, Idle, PC
<1>2. RefreshIsTracked
  BY RefreshIsTask DEF Init, RefreshIsTracked
<1>3. KeptFit /\ CarriedFit
  BY DEF Init, KeptFit, CarriedFit
<1>4. Bounds
  <2>1. \A t \in Task : key[t] = None /\ pc[t] = "idle" /\ CounterOf(t) \in Node
    BY CounterOfType DEF Init
  <2> QED
    BY <1>0, <2>1, RequestIsTask DEF Init, Bounds
<1>5. Control
  BY DEF Init, Control
<1> QED
  BY <1>1, <1>2, <1>3, <1>4, <1>5 DEF IInv

LEMMA StepHolds ==
    ASSUME IInv, [Next]_vars
    PROVE  IInv'
<1>0. TypeOK /\ IdleLocks /\ Control /\ RefreshIsTracked
  BY DEF IInv
<1>1. ASSUME NEW t \in Task, TaskStep(t) PROVE IInv'
  BY <1>0, <1>1, TaskTypes, TaskControl, TaskTracked, TaskValues DEF IInv
<1>2. ASSUME NEW r \in Request, RequestStep(r) PROVE IInv'
  BY <1>0, <1>2, RequestTypes, RequestControl, RequestTracked, RequestValues DEF IInv
<1>3. ASSUME NEW x \in Writer, WriterStep(x) PROVE IInv'
  <2>1. UNCHANGED <<pc, key, got, stage, refreshing>>
    BY <1>3 DEF WriterStep, Commit, ReadBackFails, Invalidate, InvalidateFails, lockVars
  <2>2. Control' /\ RefreshIsTracked'
    BY <1>0, <2>1 DEF Control, RefreshIsTracked, Remote
  <2> QED
    BY <1>0, <1>3, <2>2, WriterTypes, WriterValues DEF IInv
<1>4. CASE Age
  <2>1. UNCHANGED <<pc, key, got, stage, refreshing>>
    BY <1>4 DEF Age, lockVars
  <2>2. Control' /\ RefreshIsTracked'
    BY <1>0, <2>1 DEF Control, RefreshIsTracked, Remote
  <2> QED
    BY <1>0, <1>4, <2>2, AgeTypes, AgeValues DEF IInv
<1>5. CASE UNCHANGED vars
  <2>1. TypeOK' /\ IdleLocks' /\ Control' /\ RefreshIsTracked'
    BY <1>0, <1>5 DEF vars, TypeOK, StoreTypeOK, TaskTypeOK, IdleLocks, Control, RefreshIsTracked, Remote
  <2>2. Fit' = Fit
    BY <1>5 DEF vars, Fit, CounterOf, Counter, On
  <2>3. KeptFit' /\ CarriedFit' /\ Bounds'
    BY <1>5, <2>2 DEF vars, IInv, KeptFit, CarriedFit, Bounds, CounterOf, Counter, On
  <2> QED
    BY <2>1, <2>3 DEF IInv
<1> QED
  BY <1>1, <1>2, <1>3, <1>4, <1>5 DEF Next

\* Every reachable state satisfies the inductive invariant: what is kept or
\* carried under a key fits it.
THEOREM Invariance == Spec => []IInv
<1>1. Init => IInv
  BY InitHolds
<1>2. IInv /\ [Next]_vars => IInv'
  BY StepHolds
<1> QED
  BY <1>1, <1>2, PTL DEF Spec

\* The state of the cache is well formed.
THEOREM TypeCorrect == Spec => []TypeOK
<1>1. IInv => TypeOK
  BY DEF IInv
<1> QED
  BY <1>1, Invariance, PTL

\* A read never misses a write that was acknowledged and invalidated before it
\* began, with any number of workers, reads and writes.
THEOREM ReadsCorrect == Spec => []ReadsFollowWrites
<1>1. IInv => ReadsFollowWrites
  <2> SUFFICES ASSUME IInv, NEW r \in Request, pc[r] = "done" PROVE val[r] >= floor[r]
    BY DEF ReadsFollowWrites
  <2>1. val[r] \in floor[r] .. db /\ floor[r] \in Nat /\ db \in Nat
    BY DEF IInv, Bounds, TypeOK, StoreTypeOK
  <2> QED
    BY <2>1
<1> QED
  BY <1>1, Invariance, PTL

\* A key is registered as being refreshed exactly while its refresh runs.
THEOREM RefreshesCorrect == Spec => []RefreshIsTracked
<1>1. IInv => RefreshIsTracked
  BY DEF IInv
<1> QED
  BY <1>1, Invariance, PTL

-----------------------------------------------------------------------------
(* Refinement. *)

\* Task t leaves the other requests, the floors and the counters of writes alone.
LEMMA TaskFrame ==
    ASSUME IInv, NEW t \in Task, TaskStep(t)
    PROVE  /\ db' = db /\ acked' = acked /\ floor' = floor
           /\ \A r \in Request : r # t => pc'[r] = pc[r] /\ val'[r] = val[r]
           /\ t \in Request => pc[t] \notin {"idle", "done"} /\ pc'[t] # "idle"
<1>0. TypeOK /\ TaskTypeOK /\ Control /\ RefreshIsTracked
  BY DEF IInv, TypeOK
<1>1. db' = db /\ acked' = acked /\ floor' = floor
  BY DEF TaskStep, Look, Fetch, FetchFails, Reply, StartRefresh, Acquire, LockRemote, Load, LoadFails,
         Store, Push, PushFails, dbVars
<1>2. pc[t] \notin {"idle", "done"}
  BY DEF TaskStep, Look, Fetch, FetchFails, Reply, StartRefresh, Acquire, LockRemote, Load, LoadFails,
         Store, Push, PushFails
<1>3. ASSUME NEW label \in PC \ {"idle"}, Goto(t, label), \A u \in Task \ {t} : val'[u] = val[u]
      PROVE  /\ \A r \in Request : r # t => pc'[r] = pc[r] /\ val'[r] = val[r]
             /\ pc'[t] # "idle"
  BY <1>0, <1>3 DEF Goto, TaskTypeOK, Task
<1>4. ASSUME NEW label \in {"done", "error"}, NEW v, Leave(t, label), val' = [val EXCEPT ![t] = v]
      PROVE  /\ \A r \in Request : r # t => pc'[r] = pc[r] /\ val'[r] = val[r]
             /\ t \in Request => pc'[t] # "idle"
  BY <1>0, <1>4 DEF Leave, Goto, TaskTypeOK, Task
<1>5. ASSUME NEW e, pc[t] \in {"get", "remote", "reply"}, Decide(t, e)
      PROVE  /\ \A r \in Request : r # t => pc'[r] = pc[r] /\ val'[r] = val[r]
             /\ t \in Request => pc'[t] # "idle"
  <2>1. CASE Return(t, e.val)
    BY <1>4, <2>1 DEF Return
  <2>2. CASE ServeStale(t, e)
    BY <1>0, <1>5, <2>2, RefreshIsTask, RequestIsTask, OnType, KeyGiven DEF ServeStale, Goto, TaskTypeOK
  <2>3. CASE \E label \in {"wait", "dlock", "load"} : Goto(t, label) /\ val' = val
    BY <1>3, <2>3 DEF PC
  <2> QED
    BY <1>5, <2>1, <2>2, <2>3 DEF Decide, Register
<1> QED
  <2>1. CASE Look(t)
    BY <1>1, <1>2, <1>3, <1>5, <2>1 DEF Look, PC
  <2>2. CASE Fetch(t) \/ StartRefresh(t) \/ Acquire(t) \/ LockRemote(t)
    BY <1>1, <1>2, <1>3, <2>2 DEF Fetch, StartRefresh, Register, Acquire, LockRemote, PC
  <2>3. CASE FetchFails(t)
    BY <1>1, <1>2, <1>4, <1>5, <2>3 DEF FetchFails, Fail
  <2>4. CASE Reply(t)
    BY <1>1, <1>2, <1>5, <2>4 DEF Reply
  <2>5. CASE Load(t)
    <3>1. \A u \in Task \ {t} : val' = [val EXCEPT ![t] = db] => val'[u] = val[u]
      BY <1>0 DEF TaskTypeOK
    <3> QED
      BY <1>1, <1>2, <1>3, <1>4, <2>5, <3>1 DEF Load, Return, PC
  <2>6. CASE LoadFails(t) \/ Store(t) \/ Push(t) \/ PushFails(t)
    BY <1>1, <1>2, <1>3, <1>4, <2>6 DEF LoadFails, Store, Push, PushFails, Return, Fail, PC
  <2> QED
    BY <2>1, <2>2, <2>3, <2>4, <2>5, <2>6 DEF TaskStep

\* What FreshReads sees of a request.
Began == [r \in Request |-> IF pc[r] = "idle" THEN None ELSE floor[r]]
Answered == [r \in Request |-> IF pc[r] = "done" THEN val[r] ELSE None]

LEMMA FreshTask ==
    ASSUME IInv, IInv', NEW t \in Task, TaskStep(t)
    PROVE  [Fresh!Next]_(Fresh!freshVars)
<1>1. /\ db' = db /\ acked' = acked /\ floor' = floor
      /\ \A r \in Request : r # t => pc'[r] = pc[r] /\ val'[r] = val[r]
      /\ t \in Request => pc[t] \notin {"idle", "done"} /\ pc'[t] # "idle"
  BY TaskFrame
<1>2. Began' = Began
  BY <1>1 DEF Began
<1>3. CASE t \in Request /\ pc'[t] = "done"
  <2>1. val'[t] \in floor[t] .. db /\ floor[t] # None
    BY <1>1, <1>3, NoneIsNothing DEF IInv, Bounds, TypeOK, StoreTypeOK
  <2>2. Answered' = [Answered EXCEPT ![t] = val'[t]]
    BY <1>1, <1>3 DEF Answered
  <2>3. Began[t] = floor[t] /\ Answered[t] = None
    BY <1>1, <1>3 DEF Began, Answered
  <2>4. Fresh!EndRead(t)
    BY <1>1, <1>2, <2>1, <2>2, <2>3 DEF Fresh!EndRead, Began, Answered
  <2> QED
    BY <1>3, <2>4 DEF Fresh!Next
<1>4. CASE ~(t \in Request /\ pc'[t] = "done")
  <2>1. Answered' = Answered
    BY <1>1, <1>4 DEF Answered
  <2> QED
    BY <1>1, <1>2, <2>1 DEF Fresh!freshVars, Began, Answered
<1> QED
  BY <1>3, <1>4

LEMMA FreshRequest ==
    ASSUME IInv, NEW r \in Request, RequestStep(r)
    PROVE  [Fresh!Next]_(Fresh!freshVars)
<1>0. TypeOK /\ StoreTypeOK /\ TaskTypeOK /\ r \in Task
  BY RequestIsTask DEF IInv, TypeOK
<1>1. db' = db /\ acked' = acked
  BY DEF RequestStep, Begin, MakeKey, KeyFails, Answer, dbVars
<1>2. \A s \in Request : s # r => pc'[s] = pc[s] /\ val'[s] = val[s] /\ floor'[s] = floor[s]
  BY <1>0, RequestIsTask
     DEF RequestStep, Begin, MakeKey, KeyFails, Answer, Goto, StoreTypeOK, TaskTypeOK
<1>3. CASE Begin(r)
  <2>1. pc[r] = "idle" /\ pc'[r] = "key" /\ floor'[r] = acked[Counter(Host[r])]
    BY <1>0, <1>3 DEF Begin, Goto, StoreTypeOK, TaskTypeOK
  <2>2. Began' = [Began EXCEPT ![r] = acked[Counter(Host[r])]]
    BY <1>2, <2>1 DEF Began
  <2>3. Answered' = Answered
    BY <1>2, <2>1 DEF Answered
  <2>4. Began[r] = None
    BY <2>1 DEF Began
  <2>5. Fresh!BeginRead(r)
    BY <1>1, <2>2, <2>3, <2>4 DEF Fresh!BeginRead, Began, Answered
  <2> QED
    BY <2>5 DEF Fresh!Next
<1>4. CASE Answer(r)
  <2>1. pc'[r] = "idle"
    BY <1>0, <1>4 DEF Answer, Goto, TaskTypeOK
  <2>2. Began' = [Began EXCEPT ![r] = None] /\ Answered' = [Answered EXCEPT ![r] = None]
    BY <1>2, <2>1 DEF Began, Answered
  <2>3. Fresh!Forget(r)
    BY <1>1, <2>2 DEF Fresh!Forget, Began, Answered
  <2> QED
    BY <2>3 DEF Fresh!Next
<1>5. CASE MakeKey(r) \/ KeyFails(r)
  <2>1. pc[r] = "key" /\ pc'[r] \notin {"idle", "done"} /\ floor' = floor
    BY <1>0, <1>5 DEF MakeKey, KeyFails, Goto, TaskTypeOK
  <2>2. Began' = Began /\ Answered' = Answered
    BY <1>2, <2>1 DEF Began, Answered
  <2> QED
    BY <1>1, <2>2 DEF Fresh!freshVars, Began, Answered
<1> QED
  BY <1>3, <1>4, <1>5 DEF RequestStep

LEMMA FreshWriter ==
    ASSUME IInv, NEW x \in Writer, WriterStep(x)
    PROVE  [Fresh!Next]_(Fresh!freshVars)
<1>0. TypeOK /\ StoreTypeOK /\ Bounds /\ Counter(Host[x]) \in Node
  BY HostIsWorker, CounterType DEF IInv, TypeOK
<1>1. Began' = Began /\ Answered' = Answered
  BY DEF WriterStep, Commit, ReadBackFails, Invalidate, InvalidateFails, Began, Answered
<1>2. CASE Commit(x)
  <2>1. Fresh!Write
    BY <1>1, <1>2 DEF Commit, Fresh!Write, Began, Answered
  <2> QED
    BY <2>1 DEF Fresh!Next
<1>3. CASE Invalidate(x)
  <2> DEFINE n == Counter(Host[x])  m == Later(acked[n], wnum[x])
  <2>1. acked' = [acked EXCEPT ![n] = m] /\ db' = db
    BY <1>3 DEF Invalidate
  <2>2. m \in acked[n] .. db
    BY <1>0 DEF Later, Bounds, StoreTypeOK
  <2>3. Fresh!Acknowledge(n)
    BY <1>1, <2>1, <2>2 DEF Fresh!Acknowledge, Began, Answered
  <2> QED
    BY <1>0, <2>3 DEF Fresh!Next
<1>4. CASE ReadBackFails(x) \/ InvalidateFails(x)
  <2>1. db' = db /\ acked' = acked
    BY <1>4 DEF ReadBackFails, InvalidateFails
  <2> QED
    BY <1>1, <2>1 DEF Fresh!freshVars, Began, Answered
<1> QED
  BY <1>2, <1>3, <1>4 DEF WriterStep

\* The read-through cache of every backend, with its stale answers, background
\* refreshes and failures of Redis, answers as FreshReads promises.
THEOREM Refines == Spec => ImplementsFreshReads
<1>1. Init => Fresh!Init
  <2> SUFFICES ASSUME Init PROVE Fresh!Init
    OBVIOUS
  <2>1. \A r \in Request : pc[r] = "idle"
    BY RequestIsTask DEF Init
  <2>2. db = 0 /\ acked = [n \in Node |-> 0]
    BY DEF Init
  <2> QED
    BY <2>1, <2>2 DEF Fresh!Init
<1>2. IInv /\ IInv' /\ [Next]_vars => [Fresh!Next]_(Fresh!freshVars)
  <2> SUFFICES ASSUME IInv, IInv', [Next]_vars PROVE [Fresh!Next]_(Fresh!freshVars)
    OBVIOUS
  <2>1. CASE Age
    BY <2>1 DEF Age, dbVars, Fresh!freshVars
  <2>2. CASE UNCHANGED vars
    BY <2>2 DEF vars, Fresh!freshVars
  <2> QED
    BY <2>1, <2>2, FreshTask, FreshRequest, FreshWriter DEF Next
<1> QED
  BY <1>1, <1>2, Invariance, PTL DEF Spec, ImplementsFreshReads, Fresh!Spec

-----------------------------------------------------------------------------
(* The locks.  The registry counts the tasks registered for a key, so that *)
(* its entry is replaced only when nobody is left who shares the lock.     *)

\* The registered tasks of a key share its lock, and none is there if the
\* registry counts none.
LEMMA UsersFacts ==
    ASSUME TypeOK, LockInv, NEW w \in Worker, NEW k \in Key
    PROVE  /\ IsFiniteSet(Users(w, k)) /\ registry[w][k].users = Cardinality(Users(w, k))
           /\ registry[w][k].users \in Nat
           /\ registry[w][k].users = 0 => Users(w, k) = {}
           /\ \A t \in Users(w, k) : registry[w][k].lock = lockOf[t] /\ registry[w][k].users # 0
<1>1. IsFiniteSet(Users(w, k)) /\ registry[w][k].users = Cardinality(Users(w, k))
  BY DEF LockInv, RegistryIsExact
<1>2. registry[w][k].users \in Nat
  BY DEF TypeOK, TaskTypeOK
<1>3. registry[w][k].users = 0 <=> Users(w, k) = {}
  BY <1>1, FS_EmptySet
<1> QED
  BY <1>1, <1>2, <1>3 DEF LockInv, RegistryIsExact

\* Registered tasks keep their key, and those that wait go on waiting.
LEMMA LocksUnchanged ==
    ASSUME LockInv, UNCHANGED <<lockOf, registry>>, \A u \in Task : Registered(u)',
           \A u \in Task : lockOf[u] # None => key'[u] = key[u] /\ (pc[u] = "wait" => pc'[u] = "wait")
    PROVE  LockInv'
<1>1. \A w \in Worker, k \in Key : Users(w, k)' = Users(w, k)
  BY DEF Users
<1>2. RegistryIsExact'
  BY <1>1 DEF LockInv, RegistryIsExact
<1>3. OneHoldsTheLock'
  BY DEF LockInv, OneHoldsTheLock
<1> QED
  BY <1>1, <1>2, <1>3 DEF LockInv

\* A task registers for the lock of its key, and creates it if it is the first.
LEMMA RegisterLocks ==
    ASSUME TypeOK, LockInv, NEW t \in Task, key[t] \in Key, lockOf[t] = None, stage[t] = "first",
           Register(t), UNCHANGED <<key, stage>>
    PROVE  LockInv'
<1> DEFINE w == On(t)  k == key[t]  entry == registry[w][k]
           new == IF entry.users = 0 THEN [lock |-> t, users |-> 1]
                  ELSE [entry EXCEPT !.users = @ + 1]
<1>1. w \in Worker /\ k \in Key /\ None \notin Task /\ None \notin Key
  BY OnType, NoneIsNoKey
<1>2. /\ lockOf \in [Task -> Task \cup {None}] /\ pc \in [Task -> PC]
      /\ registry \in [Worker -> [Key -> [lock : Task \cup {None}, users : Nat]]]
      /\ entry \in [lock : Task \cup {None}, users : Nat]
  BY <1>1 DEF TypeOK, TaskTypeOK
<1>3. /\ registry' = [registry EXCEPT ![w][k] = new]
      /\ lockOf' = [lockOf EXCEPT ![t] = IF entry.users = 0 THEN t ELSE entry.lock]
      /\ pc' = [pc EXCEPT ![t] = "wait"]
  BY DEF Register, Goto
<1>4. /\ IsFiniteSet(Users(w, k)) /\ entry.users = Cardinality(Users(w, k))
      /\ entry.users = 0 => Users(w, k) = {}
      /\ \A u \in Users(w, k) : entry.lock = lockOf[u] /\ entry.users # 0
  BY <1>1, UsersFacts
<1>5. entry.users # 0 => entry.lock # None
  <2>1. entry.users # 0 => Users(w, k) # {}
    BY <1>4, FS_EmptySet
  <2> QED
    BY <1>4, <2>1 DEF Users
<1>6. /\ lockOf'[t] # None /\ pc'[t] = "wait"
      /\ \A u \in Task : u # t => lockOf'[u] = lockOf[u] /\ pc'[u] = pc[u]
  BY <1>1, <1>2, <1>3, <1>5
<1>7. /\ Users(w, k)' = Users(w, k) \cup {t} /\ t \notin Users(w, k)
      /\ \A x \in Worker, y \in Key : <<x, y>> # <<w, k>> => Users(x, y)' = Users(x, y)
  BY <1>6 DEF Users
<1>8. /\ registry'[w][k] = new
      /\ \A x \in Worker, y \in Key : <<x, y>> # <<w, k>> => registry'[x][y] = registry[x][y]
  BY <1>1, <1>2, <1>3
<1>9. IsFiniteSet(Users(w, k)') /\ Cardinality(Users(w, k)') = entry.users + 1
  BY <1>4, <1>7, FS_AddElement
<1>10. new.users = entry.users + 1 /\ \A u \in Users(w, k)' : lockOf'[u] = new.lock
  <2>1. CASE entry.users = 0
    BY <1>2, <1>3, <1>4, <1>7, <2>1
  <2>2. CASE entry.users # 0
    <3>1. new = [lock |-> entry.lock, users |-> entry.users + 1]
      BY <1>2, <2>2
    <3>2. lockOf'[t] = entry.lock
      BY <1>2, <1>3, <2>2
    <3> QED
      BY <1>4, <1>6, <1>7, <3>1, <3>2 DEF Users
  <2> QED
    BY <2>1, <2>2
<1> HIDE DEF new, entry
<1>11. RegistryIsExact' /\ \A x \in Worker, y \in Key : IsFiniteSet(Users(x, y)')
  <2> SUFFICES ASSUME NEW x \in Worker, NEW y \in Key
               PROVE  /\ IsFiniteSet(Users(x, y)')
                      /\ registry'[x][y].users = Cardinality(Users(x, y)')
                      /\ \A u \in Users(x, y)' : registry'[x][y].lock = lockOf'[u]
    BY DEF RegistryIsExact
  <2>1. CASE x = w /\ y = k
    BY <1>8, <1>9, <1>10, <2>1
  <2>2. CASE <<x, y>> # <<w, k>>
    <3>1. /\ Users(x, y)' = Users(x, y) /\ registry'[x][y] = registry[x][y]
          /\ \A u \in Users(x, y) : u # t
      BY <1>7, <1>8, <2>2 DEF Users
    <3> QED
      BY <1>6, <3>1 DEF LockInv, RegistryIsExact, Users
  <2> QED
    BY <2>1, <2>2
<1>12. OneHoldsTheLock'
  BY <1>6 DEF LockInv, OneHoldsTheLock
<1>13. \A u \in Task : Registered(u)'
  BY <1>1, <1>6 DEF LockInv, Registered
<1> QED
  BY <1>11, <1>12, <1>13 DEF LockInv

LEMMA LeaveLocks ==
    ASSUME TypeOK, LockInv, NEW t \in Task, NEW label \in {"done", "error"}, Leave(t, label)
    PROVE  LockInv'
<1> DEFINE w == On(t)
<1>1. w \in Worker /\ None \notin Task /\ None \notin Key
  BY OnType, NoneIsNoKey
<1>2. /\ lockOf \in [Task -> Task \cup {None}] /\ pc \in [Task -> PC]
      /\ key \in [Task -> Key \cup {None}] /\ stage \in [Task -> {"first", "locked", "again"}]
      /\ registry \in [Worker -> [Key -> [lock : Task \cup {None}, users : Nat]]]
  BY DEF TypeOK, TaskTypeOK
<1>3. /\ lockOf'[t] = None /\ key'[t] = None /\ stage'[t] = "first" /\ pc'[t] \in {"done", "error", "idle"}
      /\ \A u \in Task : u # t => /\ lockOf'[u] = lockOf[u] /\ key'[u] = key[u]
                                  /\ stage'[u] = stage[u] /\ pc'[u] = pc[u]
  BY <1>2 DEF Leave, Unregister, Goto
<1>4. \A u \in Task : Registered(u)'
  BY <1>3 DEF LockInv, Registered
<1>5. CASE lockOf[t] = None
  <2>1. lockOf' = lockOf /\ registry' = registry
    BY <1>2, <1>5 DEF Leave, Unregister
  <2> QED
    BY <1>3, <1>4, <1>5, <2>1, LocksUnchanged
<1>6. CASE lockOf[t] # None
  <2>0. PICK k \in Key : k = key[t]
    BY <1>2, <1>6 DEF LockInv, Registered
  <2> DEFINE entry == registry[w][k]
             new == IF entry.users = 1 THEN Idle ELSE [entry EXCEPT !.users = @ - 1]
  <2>1. k \in Key /\ t \in Users(w, k)
    BY <1>6, <2>0 DEF Users
  <2>2. /\ IsFiniteSet(Users(w, k)) /\ entry.users = Cardinality(Users(w, k))
        /\ \A u \in Users(w, k) : entry.lock = lockOf[u] /\ entry.users # 0
        /\ entry \in [lock : Task \cup {None}, users : Nat]
    BY <1>1, <1>2, <2>1, UsersFacts
  <2>3. registry' = [registry EXCEPT ![w][k] = new]
    BY <1>6, <2>0, <2>1, <2>2 DEF Leave, Unregister
  <2>4. /\ Users(w, k)' = Users(w, k) \ {t}
        /\ \A x \in Worker, y \in Key : <<x, y>> # <<w, k>> => Users(x, y)' = Users(x, y)
    <3>1. Users(w, k)' = Users(w, k) \ {t}
      <4>1. \A u \in Task : u \in Users(w, k)' <=> u \in Users(w, k) /\ u # t
        <5>1. t \notin Users(w, k)'
          BY <1>3 DEF Users
        <5>2. ASSUME NEW u \in Task, u # t PROVE u \in Users(w, k)' <=> u \in Users(w, k)
          BY <1>3, <5>2, OnType DEF Users
        <5> QED
          BY <5>1, <5>2
      <4> HIDE DEF w
      <4>2. Users(w, k)' \subseteq Task /\ Users(w, k) \subseteq Task
        BY DEF Users
      <4> QED
        BY <4>1, <4>2
    <3>2. ASSUME NEW x \in Worker, NEW y \in Key, <<x, y>> # <<w, k>>
          PROVE  Users(x, y)' = Users(x, y)
      <4>1. \A u \in Task : u \in Users(x, y)' <=> u \in Users(x, y)
        BY <1>1, <1>3, <2>0, <3>2 DEF Users
      <4> QED
        BY <4>1 DEF Users
    <3> QED
      BY <3>1, <3>2
  <2>5. /\ registry'[w][k] = new
        /\ \A x \in Worker, y \in Key : <<x, y>> # <<w, k>> => registry'[x][y] = registry[x][y]
    BY <1>1, <1>2, <2>1, <2>3
  <2>6. IsFiniteSet(Users(w, k)') /\ Cardinality(Users(w, k)') = entry.users - 1
    BY <2>1, <2>2, <2>4, FS_RemoveElement
  <2>7. new.users = entry.users - 1 /\ \A u \in Users(w, k)' : lockOf'[u] = new.lock
    <3>1. CASE entry.users = 1
      <4>1. Users(w, k)' = {}
        BY <2>6, <3>1, FS_EmptySet
      <4> QED
        BY <3>1, <4>1 DEF Idle
    <3>2. CASE entry.users # 1
      <4>1. new = [lock |-> entry.lock, users |-> entry.users - 1]
        BY <2>2, <3>2
      <4> QED
        <5>1. \A u \in Users(w, k)' : u \in Users(w, k) /\ u # t /\ u \in Task
          BY <2>4 DEF Users
        <5>2. \A u \in Users(w, k)' : lockOf'[u] = entry.lock
          BY <1>3, <2>2, <5>1
        <5> QED
          BY <4>1, <5>2
    <3> QED
      BY <3>1, <3>2
  <2> HIDE DEF new, entry
  <2>8. RegistryIsExact' /\ \A x \in Worker, y \in Key : IsFiniteSet(Users(x, y)')
    <3> SUFFICES ASSUME NEW x \in Worker, NEW y \in Key
                 PROVE  /\ IsFiniteSet(Users(x, y)')
                        /\ registry'[x][y].users = Cardinality(Users(x, y)')
                        /\ \A u \in Users(x, y)' : registry'[x][y].lock = lockOf'[u]
      BY DEF RegistryIsExact
    <3>1. CASE x = w /\ y = k
      <4> HIDE DEF w
      <4>1. /\ IsFiniteSet(Users(w, k)') /\ registry'[w][k].users = Cardinality(Users(w, k)')
            /\ \A u \in Users(w, k)' : registry'[w][k].lock = lockOf'[u]
        BY <2>5, <2>6, <2>7
      <4> QED
        BY <3>1, <4>1
    <3>2. CASE <<x, y>> # <<w, k>>
      <4>1. /\ Users(x, y)' = Users(x, y) /\ registry'[x][y] = registry[x][y]
            /\ \A u \in Users(x, y) : u # t
        BY <2>1, <2>4, <2>5, <3>2 DEF Users
      <4>2. \A u \in Users(x, y) : lockOf'[u] = lockOf[u]
        BY <1>3, <4>1 DEF Users
      <4> QED
        BY <4>1, <4>2 DEF LockInv, RegistryIsExact
    <3> QED
      BY <3>1, <3>2
  <2>9. OneHoldsTheLock'
    BY <1>3 DEF LockInv, OneHoldsTheLock
  <2> QED
    BY <1>4, <2>8, <2>9 DEF LockInv
<1> QED
  BY <1>5, <1>6

\* A task goes on at another await with the lock it had, if any.
LEMMA MoveLocks ==
    ASSUME TypeOK, LockInv, NEW t \in Task, NEW label, Goto(t, label),
           UNCHANGED <<key, lockOf, registry>>, pc[t] # "wait", label \notin {"wait", "start"},
           \A u \in Task : u # t => stage'[u] = stage[u],
           stage'[t] = stage[t] \/ stage'[t] # "first",
           label \in {"dlock", "load", "store", "push"} \/ stage'[t] # "first" => lockOf[t] # None
    PROVE  LockInv'
<1>1. pc'[t] = label /\ \A u \in Task : u # t => pc'[u] = pc[u]
  BY DEF Goto, TypeOK, TaskTypeOK
<1>2. \A u \in Task : Registered(u)'
  BY <1>1 DEF LockInv, Registered
<1> QED
  BY <1>1, <1>2, LocksUnchanged

LEMMA ServeStaleLocks ==
    ASSUME TypeOK, LockInv, RefreshIsTracked, Control,
           NEW t \in Request, NEW e, key[t] \in Key, stage[t] = "first", pc[t] # "wait", ServeStale(t, e)
    PROVE  LockInv'
<1> DEFINE b == <<On(t), key[t]>>
<1>1. t \in Task /\ b \in Refresh /\ b \in Task /\ b # t /\ None \notin Key
  BY OnType, RefreshIsTask, NoneIsNoKey DEF Task
<1>2. /\ UNCHANGED <<stage, lockOf, registry>>
      /\ pc'[t] = "done" /\ key'[t] = None
      /\ \A u \in Task : u # t /\ u # b => pc'[u] = pc[u] /\ key'[u] = key[u]
      /\ \/ pc[b] = "idle" /\ pc'[b] = "start"
         \/ pc'[b] = pc[b] /\ key'[b] = key[b]
  BY <1>1, OnType DEF ServeStale, Goto, TypeOK, TaskTypeOK, RefreshIsTracked
<1>3. lockOf[t] = None
  BY <1>1 DEF LockInv, Registered
<1>4. pc[b] = "idle" => lockOf[b] = None /\ stage[b] = "first"
  BY <1>1 DEF LockInv, Registered, Control
<1>5. \A u \in Task : Registered(u)'
  BY <1>1, <1>2, <1>3, <1>4 DEF LockInv, Registered
<1> QED
  BY <1>2, <1>3, <1>4, <1>5, LocksUnchanged

LEMMA DecideLocks ==
    ASSUME TypeOK, LockInv, RefreshIsTracked, Control,
           NEW t \in Task, NEW e, pc[t] \in {"get", "remote", "reply"}, Decide(t, e)
    PROVE  LockInv'
<1>1. key[t] \in Key /\ key[t] # None
  BY KeyGiven, NoneIsNoKey
<1>2. CASE Return(t, e.val)
  BY <1>2, LeaveLocks DEF Return
<1>3. CASE stage[t] = "first" /\ ServeStale(t, e)
  <2>1. t \in Request
    BY <1>3 DEF Control, Task
  <2> QED
    BY <1>1, <1>3, <2>1, ServeStaleLocks
<1>4. CASE stage[t] = "first" /\ Register(t) /\ UNCHANGED <<key, stage, val, refreshing>>
  <2>1. lockOf[t] = None
    BY <1>4 DEF LockInv, Registered
  <2> QED
    BY <1>1, <1>4, <2>1, RegisterLocks
<1>5. ASSUME NEW label \in {"dlock", "load"}, stage[t] # "first", Goto(t, label),
             UNCHANGED <<key, stage, val, lockVars>>
      PROVE  LockInv'
  <2>1. lockOf[t] # None
    BY <1>1, <1>5 DEF LockInv, Registered
  <2> QED
    BY <1>5, <2>1, MoveLocks DEF lockVars
<1> QED
  BY <1>2, <1>3, <1>4, <1>5 DEF Decide

LEMMA AcquireLocks ==
    ASSUME TypeOK, Control, LockInv, NEW t \in Task, Acquire(t)
    PROVE  LockInv'
<1>1. key[t] \in Key /\ key[t] # None /\ On(t) \in Worker /\ lockOf[t] # None
  BY KeyGiven, NoneIsNoKey, OnType DEF Acquire, LockInv, Registered
<1>2. /\ UNCHANGED <<key, lockOf, registry>> /\ stage'[t] = "locked" /\ pc'[t] = "get"
      /\ \A u \in Task : u # t => stage'[u] = stage[u] /\ pc'[u] = pc[u]
  BY DEF Acquire, Goto, lockVars, TypeOK, TaskTypeOK
<1>3. \A u \in Task : Registered(u)'
  BY <1>1, <1>2 DEF LockInv, Registered
<1>4. \A w \in Worker, k \in Key : Users(w, k)' = Users(w, k)
  BY <1>2 DEF Users
<1>5. ASSUME NEW u \in Task, lockOf[u] # None, On(u) = On(t), key[u] = key[t]
      PROVE  pc[u] = "wait"
  <2>1. u \in Users(On(t), key[t]) /\ t \in Users(On(t), key[t])
    BY <1>1, <1>5 DEF Users
  <2>2. lockOf[u] = lockOf[t]
    BY <1>1, <2>1, UsersFacts
  <2> QED
    BY <2>1, <2>2 DEF Acquire
<1>6. OneHoldsTheLock'
  BY <1>2, <1>5 DEF LockInv, OneHoldsTheLock
<1>7. RegistryIsExact'
  BY <1>2, <1>4 DEF LockInv, RegistryIsExact
<1> QED
  BY <1>3, <1>4, <1>6, <1>7 DEF LockInv

LEMMA TaskLocks ==
    ASSUME TypeOK, Control, RefreshIsTracked, LockInv, NEW t \in Task, TaskStep(t)
    PROVE  LockInv'
<1>0. /\ Registered(t)
      /\ pc[t] \in {"dlock", "store", "push"} => key[t] # None
  BY KeyGiven, NoneIsNoKey DEF LockInv
<1>1. CASE Look(t)
  BY <1>0, <1>1, DecideLocks, MoveLocks DEF Look, lockVars, Registered
<1>2. CASE Fetch(t)
  BY <1>0, <1>2, MoveLocks DEF Fetch, lockVars, Registered
<1>3. CASE FetchFails(t)
  BY <1>3, DecideLocks, LeaveLocks DEF FetchFails, Fail
<1>4. CASE Reply(t)
  BY <1>4, DecideLocks DEF Reply
<1>5. CASE StartRefresh(t)
  <2>1. key[t] \in Key /\ lockOf[t] = None /\ stage[t] = "first"
    BY <1>0, <1>5, KeyGiven DEF StartRefresh, Registered, TypeOK, TaskTypeOK
  <2> QED
    BY <1>5, <2>1, RegisterLocks DEF StartRefresh
<1>6. CASE Acquire(t)
  BY <1>6, AcquireLocks
<1>7. CASE LockRemote(t)
  <2>1. stage' = [stage EXCEPT ![t] = "again"] \/ stage' = stage
    BY <1>7 DEF LockRemote
  <2>2. /\ \A u \in Task : u # t => stage'[u] = stage[u]
        /\ stage'[t] = stage[t] \/ stage'[t] # "first"
    BY <2>1 DEF TypeOK, TaskTypeOK
  <2> QED
    BY <1>0, <1>7, <2>2, MoveLocks DEF LockRemote, lockVars, Registered
<1>8. CASE Load(t)
  BY <1>0, <1>8, MoveLocks, LeaveLocks DEF Load, Return, lockVars, Registered
<1>9. CASE LoadFails(t)
  BY <1>9, LeaveLocks DEF LoadFails, Fail
<1>10. CASE Store(t)
  BY <1>0, <1>10, MoveLocks, LeaveLocks DEF Store, Return, lockVars, Registered
<1>11. CASE Push(t)
  BY <1>11, LeaveLocks DEF Push, Return
<1>12. CASE PushFails(t)
  BY <1>12, LeaveLocks DEF PushFails, Return, Fail
<1> QED
  BY <1>1, <1>2, <1>3, <1>4, <1>5, <1>6, <1>7, <1>8, <1>9, <1>10, <1>11, <1>12 DEF TaskStep

LEMMA RequestLocks ==
    ASSUME TypeOK, Control, LockInv, NEW r \in Request, RequestStep(r)
    PROVE  LockInv'
<1>1. r \in Task /\ key[r] = None /\ lockOf[r] = None /\ stage[r] = "first"
  BY RequestIsTask DEF RequestStep, Begin, MakeKey, KeyFails, Answer, LockInv, Control, Registered
<1>2. /\ UNCHANGED <<lockOf, registry, stage>>
      /\ \A u \in Task : u # r => pc'[u] = pc[u] /\ key'[u] = key[u]
      /\ \/ pc'[r] \in {"key", "error", "idle", "load"} /\ key'[r] = None
         \/ pc'[r] = "get"
  <2>1. /\ UNCHANGED <<lockOf, registry, stage>>
        /\ \E label \in {"key", "get", "load", "error", "idle"} :
             /\ pc' = [pc EXCEPT ![r] = label]
             /\ (label = "get" \/ key' = key)
             /\ (key' = key \/ key' = [key EXCEPT ![r] = gen[Counter(Host[r])]])
    <3>1. CASE Begin(r)
      BY <3>1 DEF Begin, Goto, lockVars
    <3>2. CASE MakeKey(r)
      BY <3>2 DEF MakeKey, Goto, lockVars
    <3>3. CASE KeyFails(r)
      BY <3>3 DEF KeyFails, Goto, lockVars
    <3>4. CASE Answer(r)
      BY <3>4 DEF Answer, Goto, lockVars
    <3> QED
      BY <3>1, <3>2, <3>3, <3>4 DEF RequestStep
  <2>2. pc \in [Task -> PC] /\ key \in [Task -> Key \cup {None}]
    BY DEF TypeOK, TaskTypeOK
  <2> QED
    BY <1>1, <2>1, <2>2
<1>3. \A u \in Task : Registered(u)'
  BY <1>1, <1>2 DEF LockInv, Registered
<1> QED
  BY <1>1, <1>2, <1>3, LocksUnchanged

LEMMA LocksInvariant == Spec => []LockInv
<1>1. Init => LockInv
  <2> SUFFICES ASSUME Init PROVE LockInv
    OBVIOUS
  <2>1. \A t \in Task : lockOf[t] = None /\ Registered(t)
    BY DEF Init, Registered
  <2>2. \A w \in Worker, k \in Key : Users(w, k) = {} /\ registry[w][k].users = 0
    BY <2>1 DEF Users, Init, Idle
  <2>3. Cardinality({}) = 0 /\ IsFiniteSet({})
    BY FS_EmptySet
  <2> QED
    BY <2>1, <2>2, <2>3 DEF LockInv, RegistryIsExact, OneHoldsTheLock
<1>2. ASSUME IInv, LockInv, [Next]_vars PROVE LockInv'
  <2>1. TypeOK /\ Control /\ RefreshIsTracked
    BY <1>2 DEF IInv
  <2>2. ASSUME UNCHANGED <<pc, key, stage, lockVars>> PROVE LockInv'
    <3>1. \A u \in Task : Registered(u)'
      BY <1>2, <2>2 DEF LockInv, Registered, lockVars
    <3> QED
      BY <1>2, <2>2, <3>1, LocksUnchanged DEF lockVars
  <2>3. CASE (\E x \in Writer : WriterStep(x)) \/ Age \/ UNCHANGED vars
    BY <2>2, <2>3 DEF WriterStep, Commit, ReadBackFails, Invalidate, InvalidateFails, Age, vars, lockVars
  <2> QED
    BY <1>2, <2>1, <2>3, TaskLocks, RequestLocks DEF Next
<1> QED
  BY <1>1, <1>2, Invariance, PTL DEF Spec

\* A worker never loads one key twice at a time, whatever mixture of reads,
\* background refreshes, failing calls of Redis and failing loads goes on.
THEOREM SingleFlightCorrect == Spec => []SingleFlight
<1>1. IInv /\ LockInv => SingleFlight
  <2> SUFFICES ASSUME IInv, LockInv, NEW t \in Task, NEW u \in Task, t # u,
                      Loading(t), Loading(u), On(t) = On(u), key[t] = key[u]
               PROVE  FALSE
    BY DEF SingleFlight
  <2>1. lockOf[t] # None /\ lockOf[u] # None /\ pc[t] # "wait" /\ pc[u] # "wait"
    BY DEF LockInv, Registered, Loading
  <2> QED
    BY <2>1 DEF LockInv, OneHoldsTheLock
<1> QED
  BY <1>1, LocksInvariant, Invariance, PTL

\* The registry of locks counts exactly the tasks that use a key, and they all
\* share the lock it names: no lock is dropped early, none stays behind.
THEOREM RegistryCorrect == Spec => []RegistryIsExact
<1>1. LockInv => RegistryIsExact
  BY DEF LockInv
<1> QED
  BY <1>1, LocksInvariant, PTL

=============================================================================
