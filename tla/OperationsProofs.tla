--------------------------- MODULE OperationsProofs ---------------------------
(***************************************************************************)
(* Proofs about Operations: types on both databases, and on PostgreSQL     *)
(* that the ledger keeps every run until it expires, that the runs of a    *)
(* key are apart, and that the whole implements OnceOnly.                  *)
(***************************************************************************)
EXTENDS OperationsInv, TLAPS

-----------------------------------------------------------------------------
(* Types and control. *)

LEMMA Numbers == Time \subseteq Nat /\ Id \subseteq Nat /\ Ttl \in Nat
BY BoundsAreNat DEF Time, Id

LEMMA RowTypes ==
    /\ \A row \in Row : /\ row.id \in Id /\ row.key \in Key /\ row.input \in Input
                        /\ row.at \in Time /\ RunOf(row) \in Run
    /\ \A run \in Run : run.input \in Input /\ run.at \in Time
BY DEF Row, Run, RunOf

LEMMA NewRow ==
    ASSUME NEW r \in Request, NEW n \in Id, NEW t \in Time
    PROVE  [id |-> n, key |-> KeyOf[r], input |-> InputOf[r], at |-> t] \in Row
BY KeysAreGiven DEF Row

LEMMA HandlerTypes ==
    ASSUME IInv, NEW r \in Request, Handler(r)
    PROVE  TypeOK'
<1> USE DEF IInv, TypeOK, requestVars, txVars, storeVars, Goto, PC
<1>1. CASE Begin(r) \/ Finish(r)
  BY <1>1 DEF Begin, Finish
<1>2. CASE Sweep(r)
  BY <1>2, RowTypes DEF Sweep
<1>3. CASE Purge(r)
  BY <1>3 DEF Purge, Lock
<1>4. CASE Forget(r)
  BY <1>4 DEF Forget, Lock
<1>5. CASE Insert(r)
  BY <1>5, NewRow DEF Insert
<1>6. CASE Execute(r)
  <2>1. draft[r] \in Row
    BY <1>6 DEF Control, Execute
  <2>2. [draft[r] EXCEPT !.at = now] \in Row
    BY <2>1 DEF Row
  <2> QED
    BY <1>6, <2>2 DEF Execute
<1>7. CASE InsertConflicts(r) \/ ExecuteConflicts(r) \/ Fail(r)
  BY <1>7 DEF InsertConflicts, ExecuteConflicts, Fail, Release
<1>8. CASE Commit(r)
  <2>1. draft[r] \in Row /\ RunOf(draft[r]) \in Run
    BY <1>8, RowTypes DEF Control, Commit
  <2> QED
    BY <1>8, <2>1, KeysAreGiven DEF Commit, Release
<1>9. CASE Lookup(r)
  BY <1>9, RowTypes DEF Lookup
<1> QED
  BY <1>1, <1>2, <1>3, <1>4, <1>5, <1>6, <1>7, <1>8, <1>9 DEF Handler

LEMMA HandlerControl ==
    ASSUME IInv, NEW r \in Request, Handler(r)
    PROVE  Control'
<1> USE Numbers DEF IInv, TypeOK, requestVars, txVars, storeVars, Goto, Control
<1>1. CASE Begin(r) \/ Finish(r)
  BY <1>1 DEF Begin, Finish
<1>2. CASE Sweep(r)
  BY <1>2 DEF Sweep
<1>3. CASE Purge(r)
  BY <1>3 DEF Purge
<1>4. CASE Forget(r)
  BY <1>4 DEF Forget
<1>5. CASE Insert(r)
  <2>1. PICK n \in Id : draft' = [draft EXCEPT ![r] =
              [id |-> n, key |-> KeyOf[r], input |-> InputOf[r], at |-> start[r]]]
    BY <1>5 DEF Insert
  <2> DEFINE new == [id |-> n, key |-> KeyOf[r], input |-> InputOf[r], at |-> start[r]]
  <2>2. start[r] \in Time
    OBVIOUS
  <2>3. new \in Row
    BY <2>2, NewRow
  <2>4. new # None /\ new.key = KeyOf[r] /\ new.input = InputOf[r]
    BY <2>3, NoneIsNothing
  <2>5. pc' = [pc EXCEPT ![r] = "run"] /\ UNCHANGED <<now, start, doomed>> /\ pc[r] = "insert"
    BY <1>5 DEF Insert
  <2> HIDE DEF new
  <2>6. \A q \in Request : draft'[q] = IF q = r THEN new ELSE draft[q]
    BY <2>1 DEF new
  <2>7. \A q \in Request : pc'[q] = IF q = r THEN "run" ELSE pc[q]
    BY <2>5
  <2> QED
    BY <2>4, <2>5, <2>6, <2>7
<1>6. CASE Execute(r)
  <2>1. draft[r] \in Row
    BY <1>6 DEF Execute
  <2> DEFINE new == [draft[r] EXCEPT !.at = now]
  <2>2. new \in Row /\ new.key = draft[r].key /\ new.input = draft[r].input
    BY <2>1 DEF Row
  <2>3. draft' = [draft EXCEPT ![r] = new] /\ new # None
    BY <1>6, <2>2, NoneIsNothing DEF Execute
  <2> HIDE DEF new
  <2>4. pc[r] = "run" /\ pc' = [pc EXCEPT ![r] = "commit"]
        /\ UNCHANGED <<now, start, doomed>>
    BY <1>6 DEF Execute
  <2>5. \A q \in Request : draft'[q] = IF q = r THEN new ELSE draft[q]
    BY <2>3
  <2>6. \A q \in Request : pc'[q] = IF q = r THEN "commit" ELSE pc[q]
    BY <2>4
  <2> QED
    BY <2>1, <2>2, <2>3, <2>4, <2>5, <2>6
<1>7. CASE InsertConflicts(r) \/ ExecuteConflicts(r) \/ Fail(r)
  BY <1>7 DEF InsertConflicts, ExecuteConflicts, Fail, Release
<1>8. CASE Commit(r)
  BY <1>8 DEF Commit, Release
<1>9. CASE Lookup(r)
  BY <1>9 DEF Lookup
<1> QED
  BY <1>1, <1>2, <1>3, <1>4, <1>5, <1>6, <1>7, <1>8, <1>9 DEF Handler

LEMMA InitHolds == Init => IInv
BY Numbers, BoundsAreNat DEF Init, IInv, TypeOK, Control, PC, Time

LEMMA StepHolds ==
    ASSUME IInv, [Next]_vars
    PROVE  IInv'
<1>1. CASE \E r \in Request : Handler(r)
  BY <1>1, HandlerTypes, HandlerControl DEF IInv
<1>2. CASE Tick
  BY <1>2, BoundsAreNat DEF Tick, IInv, TypeOK, Control, Time, storeVars, requestVars, txVars
<1>3. CASE UNCHANGED vars
  BY <1>3 DEF vars, IInv, TypeOK, Control, storeVars, requestVars, txVars
<1> QED
  BY <1>1, <1>2, <1>3 DEF Next

THEOREM Invariance == Spec => []IInv
<1> QED
  BY InitHolds, StepHolds, PTL DEF Spec

\* On both databases the state is well formed.
THEOREM TypeCorrect == Spec => []TypeOK
<1>1. IInv => TypeOK
  BY DEF IInv
<1> QED
  BY <1>1, Invariance, PTL

-----------------------------------------------------------------------------
(* The ledger of PostgreSQL. *)

\* Rows that expired when a request began are over.
LEMMA ExpiredIsOver ==
    ASSUME IInv, NEW r \in Request, NEW row \in rows, Expired(row, r)
    PROVE  Over(row)
<1>1. row \in Row /\ row.at \in Time
  BY RowTypes DEF IInv, TypeOK
<1>2. start[r] <= now /\ start[r] \in Time /\ now \in Time
  BY DEF IInv, TypeOK, Control
<1>3. row.at \in Nat /\ start[r] \in Nat /\ now \in Nat /\ Ttl \in Nat
  BY <1>1, <1>2, Numbers
<1> QED
  BY <1>2, <1>3 DEF Over, Expired

LEMMA LedgerInit == Init => LedgerInv
BY DEF Init, LedgerInv, OneRowEach, LatestRows, SweptIsOver, DraftsAreNew, DoomedIsOver,
   DraftIsAlone, DraftIsLater, LedgerKeepsRuns, RunsAreApart

\* Steps that leave the ledger, the transactions and the sweeps alone.
LEMMA QuietKeeps ==
    ASSUME IInv, LedgerInv, NEW r \in Request,
           Begin(r) \/ Finish(r) \/ Lookup(r) \/ UNCHANGED vars
    PROVE  LedgerInv'
<1>1. UNCHANGED <<now, rows, last, swept, doomed, draft>>
  BY DEF Begin, Finish, Lookup, vars, storeVars, requestVars, txVars
<1>2. \A q \in Request : pc'[q] = "commit" => pc[q] = "commit"
  BY DEF Begin, Finish, Lookup, Goto, vars, requestVars, IInv, TypeOK
<1> QED
  BY <1>1, <1>2 DEF LedgerInv, OneRowEach, LatestRows, SweptIsOver, DraftsAreNew, DoomedIsOver,
     DraftIsAlone, DraftIsLater, LedgerKeepsRuns, RunsAreApart, Over

LEMMA TickKeeps ==
    ASSUME IInv, LedgerInv, Tick
    PROVE  LedgerInv'
<1>1. UNCHANGED <<rows, last, pc, swept, doomed, draft>> /\ now' = now + 1
  BY DEF Tick, storeVars, requestVars, txVars
<1>2. now \in Nat /\ Ttl \in Nat
  BY Numbers DEF IInv, TypeOK
<1>3. \A row \in Row : row.at \in Nat
  BY Numbers, RowTypes
<1>4. \A run \in Run : run.at \in Nat
  BY Numbers, RowTypes
<1>5. \A row \in Row : Over(row) => Over(row)'
  BY <1>1, <1>2, <1>3 DEF Over
<1>6. OneRowEach' /\ DraftIsAlone' /\ DraftIsLater'
  BY <1>1 DEF LedgerInv, OneRowEach, DraftIsAlone, DraftIsLater
<1>7. LatestRows' /\ DraftsAreNew'
  BY <1>1, <1>2, <1>3 DEF LedgerInv, LatestRows, DraftsAreNew, IInv, TypeOK
<1>8. SweptIsOver' /\ DoomedIsOver'
  BY <1>1, <1>5 DEF LedgerInv, SweptIsOver, DoomedIsOver, IInv, TypeOK
<1>9. LedgerKeepsRuns'
  BY <1>1, <1>2, <1>4 DEF LedgerInv, LedgerKeepsRuns, IInv, TypeOK
<1>10. RunsAreApart'
  BY <1>1, <1>2, <1>4, KeysAreGiven DEF LedgerInv, RunsAreApart, IInv, TypeOK
<1> QED
  BY <1>6, <1>7, <1>8, <1>9, <1>10 DEF LedgerInv

\* A sweep remembers rows that are over.
LEMMA SweepKeeps ==
    ASSUME IInv, LedgerInv, NEW r \in Request, Sweep(r)
    PROVE  LedgerInv'
<1>1. PICK some \in SUBSET {row \in rows : Expired(row, r)} :
            swept' = [swept EXCEPT ![r] = Ids(some)]
  BY DEF Sweep, Ids
<1>2. /\ UNCHANGED <<now, rows, last, doomed, draft>>
      /\ \A q \in Request : pc'[q] = "commit" => pc[q] = "commit"
  BY DEF Sweep, Goto, storeVars, txVars, IInv, TypeOK
<1>3. \A q \in Request : swept'[q] = IF q = r THEN Ids(some) ELSE swept[q]
  BY <1>1 DEF IInv, TypeOK
<1>4. OneRowEach' /\ LatestRows' /\ DoomedIsOver' /\ DraftIsAlone' /\ DraftIsLater'
      /\ LedgerKeepsRuns' /\ RunsAreApart'
  BY <1>2 DEF LedgerInv, OneRowEach, LatestRows, DoomedIsOver, DraftIsAlone, DraftIsLater,
     LedgerKeepsRuns, RunsAreApart, Over
<1>5. SweptIsOver'
  <2> SUFFICES ASSUME NEW q \in Request, NEW row \in rows, row.id \in swept'[q]
               PROVE  Over(row)
    BY <1>2 DEF SweptIsOver, Over
  <2>1. CASE q = r
    <3>1. PICK other \in some : other.id = row.id
      BY <1>3, <2>1 DEF Ids
    <3>2. other = row
      BY <3>1 DEF LedgerInv, OneRowEach
    <3> QED
      BY <3>1, <3>2, ExpiredIsOver
  <2>2. CASE q # r
    BY <1>3, <2>2 DEF LedgerInv, SweptIsOver
  <2> QED
    BY <2>1, <2>2
<1>6. DraftsAreNew'
  <2>1. Ids(some) \subseteq Ids(rows)
    BY DEF Ids
  <2> QED
    BY <1>2, <1>3, <2>1 DEF LedgerInv, DraftsAreNew
<1> QED
  BY <1>4, <1>5, <1>6 DEF LedgerInv

\* What a request deletes is over, and locked by nobody else.
LEMMA DeleteKeeps ==
    ASSUME IInv, LedgerInv, NEW r \in Request, Purge(r) \/ Forget(r)
    PROVE  LedgerInv'
<1>1. draft[r] = None /\ (pc[r] = "purge" => doomed[r] = {})
  BY DEF Purge, Forget, IInv, Control
<1>2. /\ UNCHANGED <<now, rows, last, draft>>
      /\ \A q \in Request : pc'[q] = "commit" => pc[q] = "commit"
  BY DEF Purge, Forget, Goto, storeVars, IInv, TypeOK
<1>3. \A q \in Request : swept'[q] \subseteq swept[q]
  BY DEF Purge, Forget, IInv, TypeOK
<1>4. /\ \A q \in Request \ {r} : doomed'[q] = doomed[q]
      /\ \A row \in doomed'[r] \ doomed[r] : row \in rows /\ Over(row) /\ Unlocked(row, r)
  <2>1. CASE Purge(r)
    BY <2>1 DEF Purge, LedgerInv, SweptIsOver, IInv, TypeOK
  <2>2. CASE Forget(r)
    BY <2>2, ExpiredIsOver DEF Forget, IInv, TypeOK
  <2> QED
    BY <2>1, <2>2
<1>5. \A row \in doomed[r] : row \in doomed'[r]
  BY <1>1 DEF Purge, Forget, IInv, TypeOK
<1>6. OneRowEach' /\ LatestRows' /\ DraftIsLater' /\ LedgerKeepsRuns' /\ RunsAreApart'
  BY <1>2 DEF LedgerInv, OneRowEach, LatestRows, DraftIsLater, LedgerKeepsRuns, RunsAreApart
<1>7. SweptIsOver' /\ DraftsAreNew'
  BY <1>2, <1>3 DEF LedgerInv, SweptIsOver, DraftsAreNew, Over
<1>8. DoomedIsOver'
  BY <1>2, <1>4 DEF LedgerInv, DoomedIsOver, Unlocked, Over
<1>9. DraftIsAlone'
  BY <1>1, <1>2, <1>4 DEF LedgerInv, DraftIsAlone
<1> QED
  BY <1>6, <1>7, <1>8, <1>9 DEF LedgerInv

\* A request inserts its row when no other runs the key and the row of the last
\* run is over.
LEMMA InsertKeeps ==
    ASSUME ~Serial, IInv, LedgerInv, NEW r \in Request, Insert(r)
    PROVE  LedgerInv'
<1>1. PICK n \in Id : NewId(r, n) /\ draft' = [draft EXCEPT ![r] =
              [id |-> n, key |-> KeyOf[r], input |-> InputOf[r], at |-> start[r]]]
  BY DEF Insert
<1> DEFINE new == [id |-> n, key |-> KeyOf[r], input |-> InputOf[r], at |-> start[r]]
<1>2. /\ UNCHANGED <<now, rows, last, swept, doomed>>
      /\ \A q \in Request : pc'[q] = "commit" => pc[q] = "commit"
      /\ Undisputed(r)
      /\ \A row \in rows \ doomed[r] : row.key # KeyOf[r]
      /\ draft[r] = None
  BY DEF Insert, Goto, storeVars, IInv, TypeOK, Control
<1>3. \A q \in Request : draft'[q] = IF q = r THEN new ELSE draft[q]
  BY <1>1 DEF IInv, TypeOK
<1>4. n \notin Taken
  BY <1>1 DEF NewId
<1>5. new.id = n /\ new.at = start[r] /\ start[r] <= now
  BY DEF IInv, Control
<1> HIDE DEF new
<1>6. OneRowEach' /\ LatestRows' /\ SweptIsOver' /\ DoomedIsOver' /\ LedgerKeepsRuns'
  BY <1>2 DEF LedgerInv, OneRowEach, LatestRows, SweptIsOver, DoomedIsOver, LedgerKeepsRuns, Over
<1>7. DraftsAreNew'
  <2>1. n \notin Ids(rows)
    BY <1>4 DEF Taken
  <2>2. \A q \in Request : n \notin swept[q]
    BY <1>4 DEF Taken
  <2>3. ASSUME NEW q \in Request, draft[q] # None PROVE n # draft[q].id
    <3>1. q \in Running
      BY <2>3 DEF Running
    <3>2. draft[q].id \in {draft[p].id : p \in Running}
      BY <3>1
    <3> QED
      BY <1>4, <3>2 DEF Taken
  <2> QED
    BY <1>2, <1>3, <1>5, <2>1, <2>2, <2>3 DEF LedgerInv, DraftsAreNew
<1>8. DraftIsAlone'
  BY <1>2, <1>3 DEF LedgerInv, DraftIsAlone
<1>9. DraftIsLater'
  <2>1. pc'[r] # "commit"
    BY DEF Insert, Goto, IInv, TypeOK
  <2> QED
    BY <1>2, <1>3, <2>1 DEF LedgerInv, DraftIsLater
<1>10. RunsAreApart'
  <2>1. ASSUME last[KeyOf[r]] # None PROVE last[KeyOf[r]].at + Ttl < now
    <3>1. KeyOf[r] \in Key /\ last[KeyOf[r]] \in Run
      BY <2>1, KeysAreGiven DEF IInv, TypeOK
    <3>2. last[KeyOf[r]].at \in Nat /\ now \in Nat /\ Ttl \in Nat
      BY <3>1, RowTypes, Numbers DEF IInv, TypeOK
    <3>3. ASSUME now <= last[KeyOf[r]].at + Ttl PROVE FALSE
      <4>1. PICK row \in rows : row.key = KeyOf[r] /\ RunOf(row) = last[KeyOf[r]]
        BY <2>1, <3>1, <3>3 DEF LedgerInv, LedgerKeepsRuns
      <4>2. row \in doomed[r]
        BY <1>2, <4>1
      <4>3. Over(row)
        BY <4>2 DEF LedgerInv, DoomedIsOver
      <4> QED
        BY <3>2, <3>3, <4>1, <4>3 DEF Over, RunOf
    <3> QED
      BY <3>2, <3>3
  <2>2. \A q \in Request \ {r} : draft[q] # None => KeyOf[q] # KeyOf[r]
    BY <1>2 DEF Undisputed
  <2> QED
    BY <1>2, <1>3, <2>1, <2>2 DEF LedgerInv, RunsAreApart
<1> QED
  BY <1>6, <1>7, <1>8, <1>9, <1>10 DEF LedgerInv

\* The row is completed: the last run was over before.
LEMMA ExecuteKeeps ==
    ASSUME IInv, LedgerInv, NEW r \in Request, Execute(r)
    PROVE  LedgerInv'
<1> DEFINE new == [draft[r] EXCEPT !.at = now]
<1>1. draft[r] \in Row /\ draft[r] # None
  BY DEF Execute, IInv, TypeOK, Control
<1>2. new.id = draft[r].id /\ new.at = now /\ now <= now
  BY <1>1, Numbers DEF Row, IInv, TypeOK
<1>3. draft' = [draft EXCEPT ![r] = new]
  BY DEF Execute
<1> HIDE DEF new
<1>4. \A q \in Request : draft'[q] = IF q = r THEN new ELSE draft[q]
  BY <1>3 DEF IInv, TypeOK
<1>5. /\ UNCHANGED <<now, rows, last, swept, doomed>>
      /\ \A q \in Request \ {r} : pc'[q] = pc[q]
  BY DEF Execute, Goto, storeVars, IInv, TypeOK
<1>6. OneRowEach' /\ LatestRows' /\ SweptIsOver' /\ DoomedIsOver' /\ LedgerKeepsRuns'
  BY <1>5 DEF LedgerInv, OneRowEach, LatestRows, SweptIsOver, DoomedIsOver, LedgerKeepsRuns, Over
<1>7. DraftsAreNew'
  BY <1>1, <1>2, <1>4, <1>5 DEF LedgerInv, DraftsAreNew
<1>8. DraftIsAlone' /\ RunsAreApart'
  BY <1>1, <1>4, <1>5 DEF LedgerInv, DraftIsAlone, RunsAreApart
<1>9. DraftIsLater'
  BY <1>1, <1>2, <1>4, <1>5 DEF LedgerInv, DraftIsLater, RunsAreApart
<1> QED
  BY <1>6, <1>7, <1>8, <1>9 DEF LedgerInv

\* A transaction that is rolled back, or none, leaves no trace.
LEMMA ReleaseKeeps ==
    ASSUME IInv, LedgerInv, NEW r \in Request,
           InsertConflicts(r) \/ ExecuteConflicts(r) \/ Fail(r)
    PROVE  LedgerInv'
<1>1. /\ UNCHANGED <<now, rows, last>>
      /\ \A q \in Request : swept'[q] \subseteq swept[q]
      /\ \A q \in Request : pc'[q] = "commit" => q # r /\ pc[q] = "commit"
  BY DEF InsertConflicts, ExecuteConflicts, Fail, Goto, storeVars, IInv, TypeOK
<1>2. \A q \in Request : /\ doomed'[q] = IF q = r THEN {} ELSE doomed[q]
                         /\ draft'[q] = IF q = r THEN None ELSE draft[q]
  BY DEF InsertConflicts, ExecuteConflicts, Fail, Release, IInv, TypeOK
<1>3. OneRowEach' /\ LatestRows' /\ LedgerKeepsRuns'
  BY <1>1 DEF LedgerInv, OneRowEach, LatestRows, LedgerKeepsRuns
<1>4. SweptIsOver' /\ DoomedIsOver'
  BY <1>1, <1>2 DEF LedgerInv, SweptIsOver, DoomedIsOver, Over
<1>5. DraftsAreNew'
  BY <1>1, <1>2 DEF LedgerInv, DraftsAreNew
<1>6. DraftIsAlone' /\ DraftIsLater' /\ RunsAreApart'
  BY <1>1, <1>2 DEF LedgerInv, DraftIsAlone, DraftIsLater, RunsAreApart
<1> QED
  BY <1>3, <1>4, <1>5, <1>6 DEF LedgerInv

\* A commit replaces the row of the last run, which is over, and rows of other
\* keys that are over.
LEMMA CommitKeeps ==
    ASSUME IInv, LedgerInv, NEW r \in Request, Commit(r)
    PROVE  LedgerInv'
<1> DEFINE new == draft[r]
<1>1. new \in Row /\ new # None /\ new.key = KeyOf[r] /\ KeyOf[r] \in Key
  BY KeysAreGiven DEF Commit, IInv, TypeOK, Control
<1>2. rows' = (rows \ doomed[r]) \cup {new} /\ UNCHANGED <<now, swept>>
  BY DEF Commit
<1>3. \A k \in Key : last'[k] = IF k = KeyOf[r] THEN RunOf(new) ELSE last[k]
  BY DEF Commit, IInv, TypeOK
<1>4. \A q \in Request : /\ doomed'[q] = IF q = r THEN {} ELSE doomed[q]
                         /\ draft'[q] = IF q = r THEN None ELSE draft[q]
                         /\ pc'[q] = "commit" => q # r /\ pc[q] = "commit"
  BY DEF Commit, Release, Goto, IInv, TypeOK
<1>5. new.at <= now /\ new.id \notin Ids(rows) /\ \A q \in Request : new.id \notin swept[q]
  BY <1>1 DEF LedgerInv, DraftsAreNew
<1>6. \A row \in rows \ doomed[r] : row.key # KeyOf[r] /\ row.id # new.id
  BY <1>1, <1>5 DEF LedgerInv, DraftIsAlone, Ids
<1>7. \A q \in Request \ {r} : draft[q] # None => KeyOf[q] # KeyOf[r] /\ KeyOf[q] \in Key
  BY <1>1, KeysAreGiven DEF LedgerInv, RunsAreApart
<1>8. \A row \in rows : row.key \in Key
  BY RowTypes DEF IInv, TypeOK
<1> HIDE DEF new
<1>9. OneRowEach'
  BY <1>1, <1>2, <1>6 DEF LedgerInv, OneRowEach
<1>10. LatestRows'
  BY <1>1, <1>2, <1>3, <1>5, <1>6, <1>8 DEF LedgerInv, LatestRows
<1>11. SweptIsOver'
  BY <1>2, <1>5 DEF LedgerInv, SweptIsOver, Over
<1>12. DraftsAreNew'
  <2>1. Ids(rows') \subseteq Ids(rows) \cup {new.id}
    BY <1>2 DEF Ids
  <2>2. \A q \in Request \ {r} : draft[q] # None => draft[q].id # new.id
    BY <1>1 DEF LedgerInv, DraftsAreNew, new
  <2>3. ASSUME NEW q \in Request, draft'[q] # None
        PROVE  /\ draft'[q].at <= now' /\ draft'[q].id \notin Ids(rows')
               /\ \A p \in Request : draft'[q].id \notin swept'[p]
               /\ \A p \in Request \ {q} : draft'[p] # None => draft'[p].id # draft'[q].id
    <3>1. q # r /\ draft'[q] = draft[q] /\ draft[q] # None
      BY <1>4, <2>3
    <3>2. /\ draft[q].at <= now /\ draft[q].id \notin Ids(rows)
          /\ \A p \in Request : draft[q].id \notin swept[p]
          /\ \A p \in Request \ {q} : draft[p] # None => draft[p].id # draft[q].id
      BY <3>1 DEF LedgerInv, DraftsAreNew
    <3>3. draft'[q].id \notin Ids(rows')
      BY <2>1, <2>2, <3>1, <3>2
    <3>4. \A p \in Request \ {q} : draft'[p] # None => draft'[p].id # draft'[q].id
      BY <1>4, <3>1, <3>2
    <3> QED
      BY <1>2, <3>1, <3>2, <3>3, <3>4
  <2> QED
    BY <2>3 DEF DraftsAreNew
<1>13. DoomedIsOver'
  BY <1>2, <1>4 DEF LedgerInv, DoomedIsOver, Over
<1>14. DraftIsAlone'
  BY <1>1, <1>2, <1>4, <1>7 DEF LedgerInv, DraftIsAlone
<1>15. DraftIsLater'
  <2>1. \A q \in Request : pc[q] = "commit" => draft[q] # None
    BY DEF IInv, Control
  <2> QED
    BY <1>3, <1>4, <1>7, <2>1 DEF LedgerInv, DraftIsLater
<1>16. RunsAreApart'
  BY <1>2, <1>3, <1>4, <1>7 DEF LedgerInv, RunsAreApart
<1>17. LedgerKeepsRuns'
  <2> SUFFICES ASSUME NEW k \in Key, last'[k] # None, now <= last'[k].at + Ttl
               PROVE  \E row \in rows' : row.key = k /\ RunOf(row) = last'[k]
    BY <1>2 DEF LedgerKeepsRuns
  <2>1. CASE k = KeyOf[r]
    BY <1>1, <1>2, <1>3, <2>1
  <2>2. CASE k # KeyOf[r]
    <3>1. last'[k] = last[k] /\ last[k] \in Run
      BY <1>3, <2>2 DEF IInv, TypeOK
    <3>2. PICK row \in rows : row.key = k /\ RunOf(row) = last[k]
      BY <3>1 DEF LedgerInv, LedgerKeepsRuns
    <3>3. row.at = last[k].at
      BY <3>2 DEF RunOf
    <3>4. row \in Row /\ row.at \in Time /\ now \in Time
      BY RowTypes DEF IInv, TypeOK
    <3>5. row.at \in Nat /\ now \in Nat /\ Ttl \in Nat
      BY <3>4, Numbers
    <3>6. row \notin doomed[r]
      BY <3>1, <3>3, <3>5 DEF LedgerInv, DoomedIsOver, Over
    <3> QED
      BY <1>2, <3>1, <3>2, <3>6
  <2> QED
    BY <2>1, <2>2
<1> QED
  BY <1>9, <1>10, <1>11, <1>12, <1>13, <1>14, <1>15, <1>16, <1>17 DEF LedgerInv

LEMMA LedgerStep ==
    ASSUME ~Serial, IInv, LedgerInv, [Next]_vars
    PROVE  LedgerInv'
<1>1. CASE \E r \in Request : Handler(r)
  BY <1>1, QuietKeeps, SweepKeeps, DeleteKeeps, InsertKeeps, ExecuteKeeps, ReleaseKeeps,
     CommitKeeps DEF Handler
<1>2. CASE Tick
  BY <1>2, TickKeeps
<1>3. CASE UNCHANGED vars /\ Request # {}
  BY <1>3, QuietKeeps
<1>4. CASE UNCHANGED vars /\ Request = {}
  BY <1>4 DEF vars, storeVars, requestVars, txVars, LedgerInv, OneRowEach, LatestRows,
     SweptIsOver, DraftsAreNew, DoomedIsOver, DraftIsAlone, DraftIsLater, LedgerKeepsRuns,
     RunsAreApart, Over
<1> QED
  BY <1>1, <1>2, <1>3, <1>4 DEF Next

\* On PostgreSQL the invariant of the ledger always holds.
THEOREM LedgerInvariance == ASSUME ~Serial PROVE Spec => []LedgerInv
<1> QED
  BY LedgerInit, LedgerStep, Invariance, PTL DEF Spec

\* On PostgreSQL a run that was committed can be replayed until it expires,
\* whatever other requests sweep, wait, race, fail or die.
THEOREM LedgerCorrect == ASSUME ~Serial PROVE Spec => []LedgerKeepsRuns
<1>1. LedgerInv => LedgerKeepsRuns
  BY DEF LedgerInv
<1> QED
  BY <1>1, LedgerInvariance, PTL

\* On PostgreSQL the statements of a key run alone, and not again before its
\* last run has expired.
THEOREM RunsCorrect == ASSUME ~Serial PROVE Spec => []RunsAreApart
<1>1. LedgerInv => RunsAreApart
  BY DEF LedgerInv
<1> QED
  BY <1>1, LedgerInvariance, PTL

-----------------------------------------------------------------------------
(* Refinement. *)

LEMMA HandlerImplements ==
    ASSUME ~Serial, IInv, LedgerInv, NEW r \in Request, Handler(r)
    PROVE  [Once!Next]_(Once!onceVars)
<1>1. CASE Begin(r) \/ Fail(r)
  <2>1. Once!Leave(r)
    BY <1>1 DEF Begin, Fail, Once!Leave, storeVars
  <2> QED
    BY <2>1 DEF Once!Next
<1>2. CASE Sweep(r) \/ Purge(r) \/ Forget(r) \/ Insert(r) \/ InsertConflicts(r) \/ Execute(r)
           \/ ExecuteConflicts(r) \/ Finish(r)
  BY <1>2 DEF Sweep, Purge, Forget, Insert, InsertConflicts, Execute, ExecuteConflicts, Finish,
     storeVars, Once!onceVars
<1>3. CASE Commit(r)
  <2>1. draft[r] \in Row /\ draft[r].input = InputOf[r] /\ pc[r] = "commit" /\ draft[r] # None
    BY <1>3 DEF Commit, IInv, TypeOK, Control
  <2>2. draft[r].at \in 0..now
    <3>1. draft[r].at \in Time /\ now \in Time /\ draft[r].at <= now
      BY <2>1, RowTypes DEF LedgerInv, DraftsAreNew, IInv, TypeOK
    <3>2. draft[r].at \in Nat /\ now \in Nat
      BY <3>1, Numbers
    <3> QED
      BY <3>1, <3>2
  <2>3. last[KeyOf[r]] # None => /\ last[KeyOf[r]].at + Ttl < now
                                 /\ last[KeyOf[r]].at + Ttl < draft[r].at
    BY <2>1 DEF LedgerInv, RunsAreApart, DraftIsLater
  <2>4. answer' = [answer EXCEPT ![r] = [input |-> InputOf[r], at |-> draft[r].at]]
    BY <1>3, <2>1 DEF Commit, RunOf
  <2>5. answer'[r] = [input |-> InputOf[r], at |-> draft[r].at]
    BY <2>4 DEF IInv, TypeOK
  <2>6. last' = [last EXCEPT ![KeyOf[r]] = answer'[r]] /\ now' = now
    BY <1>3, <2>1, <2>5 DEF Commit, RunOf
  <2>7. Once!Run(r)
    BY <2>2, <2>3, <2>4, <2>6 DEF Once!Run
  <2> QED
    BY <2>7 DEF Once!Next
<1>4. CASE Lookup(r)
  <2>1. UNCHANGED <<now, last>>
    BY <1>4 DEF Lookup, storeVars
  <2>2. CASE UNCHANGED answer
    BY <2>1, <2>2 DEF Once!onceVars
  <2>3. CASE ~UNCHANGED answer
    <3>1. PICK row \in rows : /\ row.key = KeyOf[r] /\ row.input = InputOf[r]
                              /\ answer' = [answer EXCEPT ![r] = RunOf(row)]
      BY <1>4, <2>3 DEF Lookup
    <3>2. RunOf(row) = last[KeyOf[r]] /\ RunOf(row) \in Run /\ RunOf(row).input = InputOf[r]
      BY <3>1, RowTypes DEF LedgerInv, LatestRows, IInv, TypeOK, RunOf
    <3>3. last[KeyOf[r]] # None
      BY <3>2, NoneIsNothing
    <3>4. Once!Replay(r)
      BY <2>1, <3>1, <3>2, <3>3 DEF Once!Replay
    <3> QED
      BY <3>4 DEF Once!Next
  <2> QED
    BY <2>2, <2>3
<1> QED
  BY <1>1, <1>2, <1>3, <1>4 DEF Handler

\* On PostgreSQL a key runs once while its row lives, and whoever does not run
\* it is answered with the result of that run.
THEOREM Refines == ASSUME ~Serial PROVE Spec => ImplementsOnceOnly
<1>1. Init => Once!Init
  BY DEF Init, Once!Init
<1>2. IInv /\ LedgerInv /\ [Next]_vars => [Once!Next]_(Once!onceVars)
  <2> SUFFICES ASSUME IInv, LedgerInv, [Next]_vars PROVE [Once!Next]_(Once!onceVars)
    OBVIOUS
  <2>1. CASE \E r \in Request : Handler(r)
    BY <2>1, HandlerImplements
  <2>2. CASE Tick
    BY <2>2 DEF Tick, storeVars, Once!Pass, Once!Next
  <2>3. CASE UNCHANGED vars
    BY <2>3 DEF vars, storeVars, Once!onceVars
  <2> QED
    BY <2>1, <2>2, <2>3 DEF Next
<1> QED
  BY <1>1, <1>2, Invariance, LedgerInvariance, PTL DEF Spec, ImplementsOnceOnly, Once!Spec

=============================================================================
