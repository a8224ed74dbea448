----------------------------- MODULE Operations -----------------------------
(***************************************************************************)
(* Idempotent SQL operations: execute_idempotent_operation of              *)
(* framework/operations.py and the operation handler of                    *)
(* framework/routers/project.py that calls it.                             *)
(*                                                                         *)
(* A request carries a key and an input.  One transaction runs the         *)
(* statements of the operation and stores their result in a ledger whose   *)
(* keys are unique; a request that finds its key taken is answered from    *)
(* the ledger.  Rows that outlive Ttl are deleted, by the next request     *)
(* with their key or by a sweep that any request may do first.             *)
(*                                                                         *)
(* On PostgreSQL (read committed) transactions overlap: a row another one  *)
(* has deleted or inserted is waited for, and no row number is given       *)
(* twice.  On SQLite a transaction begins with its first write, which      *)
(* excludes all others, and a row gets the number above the highest one.   *)
(*                                                                         *)
(* Abstracted: the statements and their result; hashes of key and input;   *)
(* clocks of the workers agree; what the invalidations do (see Cache).      *)
(***************************************************************************)
EXTENDS Naturals, FiniteSets

CONSTANTS
    Request,
    Key,
    Input,       \* fingerprints
    KeyOf,       \* KeyOf[r]: key of the requests that client r repeats
    InputOf,
    Database,    \* "sqlite" or "postgres"
    Ttl,         \* idempotency_ttl_seconds
    MaxTime,     \* bound of the clock
    MaxId,       \* bound of the row numbers
    None

ASSUME KeysAreGiven    == KeyOf \in [Request -> Key] /\ InputOf \in [Request -> Input]
ASSUME DatabaseIsKnown == Database \in {"sqlite", "postgres"}
ASSUME BoundsAreNat    == Ttl \in Nat /\ MaxTime \in Nat /\ MaxId \in Nat

VARIABLES
    now,
    rows,        \* committed rows of the ledger
    last,        \* last[k]: the latest committed run of key k
    pc,          \* where the handler of a request is
    start,       \* start[r]: time it began
    swept,       \* swept[r]: row numbers its sweep selected
    writer,      \* request that holds the write lock of SQLite
    doomed,      \* doomed[r]: rows its transaction has deleted
    draft,       \* draft[r]: row its transaction has inserted
    answer       \* answer[r]: run whose result the client got last

requestVars == <<pc, start, swept>>
txVars == <<writer, doomed, draft>>
storeVars == <<rows, last>>
vars == <<now, storeVars, requestVars, txVars, answer>>

Serial == Database = "sqlite"

Time == 0..MaxTime
Id == 1..MaxId
Row == [id : Id, key : Key, input : Input, at : Time]
Run == [input : Input, at : Time]

ASSUME NoneIsNothing   == None \notin Request \cup Row \cup Run

RunOf(row) == [input |-> row.input, at |-> row.at]
Goto(r, label) == pc' = [pc EXCEPT ![r] = label]

\* updated_at < cutoff, where cutoff = start - ttl.
Expired(row, r) == row.at + Ttl < start[r]

-----------------------------------------------------------------------------
(* Waiting. *)

MayWrite(r) == Serial => writer \in {None, r}

\* PostgreSQL waits for a transaction that has deleted the row.
Unlocked(row, r) == \A q \in Request \ {r} : row \notin doomed[q]

\* And for one that has inserted or deleted a row with the same key.
Undisputed(r) ==
    \A q \in Request \ {r} :
        /\ draft[q] # None => KeyOf[q] # KeyOf[r]
        /\ \A row \in doomed[q] : row.key # KeyOf[r]

Lock(r) == writer' = IF Serial THEN r ELSE writer

\* A transaction ends.
Release(r) ==
    /\ writer' = IF writer = r THEN None ELSE writer
    /\ doomed' = [doomed EXCEPT ![r] = {}]
    /\ draft' = [draft EXCEPT ![r] = None]

-----------------------------------------------------------------------------
(* The first execution. *)

Begin(r) ==
    /\ pc[r] = "idle"
    /\ start' = [start EXCEPT ![r] = now]
    /\ answer' = [answer EXCEPT ![r] = None]
    /\ Goto(r, "sweep")
    /\ UNCHANGED <<now, storeVars, swept, txVars>>

\* The sweep selects expired rows, if it is due, up to a batch.
Sweep(r) ==
    /\ pc[r] = "sweep"
    /\ \E some \in SUBSET {row \in rows : Expired(row, r)} :
            /\ swept' = [swept EXCEPT ![r] = {row.id : row \in some}]
            /\ Goto(r, IF some = {} THEN "forget" ELSE "purge")
    /\ UNCHANGED <<now, storeVars, start, txVars, answer>>

\* It then deletes rows by their number.
Purge(r) ==
    /\ pc[r] = "purge"
    /\ MayWrite(r) /\ Lock(r)
    /\ LET found == {row \in rows : row.id \in swept[r]} IN
            /\ \A row \in found : Unlocked(row, r)
            /\ doomed' = [doomed EXCEPT ![r] = found]
    /\ swept' = [swept EXCEPT ![r] = {}]
    /\ Goto(r, "forget")
    /\ UNCHANGED <<now, storeVars, start, draft, answer>>

\* The row of the request's own key is deleted if it has expired.
Forget(r) ==
    /\ pc[r] = "forget"
    /\ MayWrite(r) /\ Lock(r)
    /\ LET found == {row \in rows : row.key = KeyOf[r] /\ Expired(row, r)} IN
            /\ \A row \in found : Unlocked(row, r)
            /\ doomed' = [doomed EXCEPT ![r] = @ \cup found]
    /\ Goto(r, "insert")
    /\ UNCHANGED <<now, storeVars, start, swept, draft, answer>>

Ids(set) == {row.id : row \in set}
Running == {q \in Request : draft[q] # None}
Taken == Ids(rows) \cup (UNION {swept[q] : q \in Request}) \cup {draft[q].id : q \in Running}

\* SQLite counts on from the highest row left; a number of PostgreSQL is one
\* that no row has and no sweep remembers, as it has never been given before.
NewId(r, n) ==
    IF Serial
    THEN n - 1 \in {0} \cup Ids(rows \ doomed[r]) /\ \A m \in Ids(rows \ doomed[r]) : m < n
    ELSE n \notin Taken /\ \A m \in 1..(n - 1) : m \in Taken

\* Faulty: the key is not unique.
InsertOver(r) ==
    /\ pc[r] = "insert"
    /\ \E n \in Id :
            /\ NewId(r, n)
            /\ draft' = [draft EXCEPT ![r] =
                    [id |-> n, key |-> KeyOf[r], input |-> InputOf[r], at |-> start[r]]]
    /\ Goto(r, "run")
    /\ UNCHANGED <<now, storeVars, start, swept, writer, doomed, answer>>

\* The unique row is inserted.
Insert(r) ==
    /\ pc[r] = "insert"
    /\ Undisputed(r)
    /\ \A row \in rows \ doomed[r] : row.key # KeyOf[r]
    /\ \E n \in Id :
            /\ NewId(r, n)
            /\ draft' = [draft EXCEPT ![r] =
                    [id |-> n, key |-> KeyOf[r], input |-> InputOf[r], at |-> start[r]]]
    /\ Goto(r, "run")
    /\ UNCHANGED <<now, storeVars, start, swept, writer, doomed, answer>>

\* The key is there: the transaction is rolled back and the ledger looked up.
InsertConflicts(r) ==
    /\ pc[r] = "insert"
    /\ Undisputed(r)
    /\ \E row \in rows \ doomed[r] : row.key = KeyOf[r]
    /\ Release(r)
    /\ Goto(r, "lookup")
    /\ UNCHANGED <<now, storeVars, start, swept, answer>>

\* The statements succeed and the row is completed.
Execute(r) ==
    /\ pc[r] = "run"
    /\ draft' = [draft EXCEPT ![r].at = now]
    /\ Goto(r, "commit")
    /\ UNCHANGED <<now, storeVars, start, swept, writer, doomed, answer>>

\* A statement violates a constraint, which is taken for a lost race.
ExecuteConflicts(r) ==
    /\ pc[r] = "run"
    /\ Release(r)
    /\ Goto(r, "lookup")
    /\ UNCHANGED <<now, storeVars, start, swept, answer>>

Commit(r) ==
    /\ pc[r] = "commit"
    /\ rows' = (rows \ doomed[r]) \cup {draft[r]}
    /\ last' = [last EXCEPT ![KeyOf[r]] = RunOf(draft[r])]
    /\ answer' = [answer EXCEPT ![r] = RunOf(draft[r])]
    /\ Release(r)
    /\ Goto(r, "finish")
    /\ UNCHANGED <<now, start, swept>>

\* The handler invalidates the namespaces the operation names and answers.
Finish(r) ==
    /\ pc[r] = "finish"
    /\ Goto(r, "idle")
    /\ UNCHANGED <<now, storeVars, start, swept, txVars, answer>>

-----------------------------------------------------------------------------
(* The other answers. *)

\* Faulty: the input is not compared.
LookupAny(r) ==
    /\ pc[r] = "lookup"
    /\ \/ \E row \in rows :
            /\ row.key = KeyOf[r]
            /\ answer' = [answer EXCEPT ![r] = RunOf(row)]
       \/ /\ \A row \in rows : row.key # KeyOf[r]
          /\ UNCHANGED answer
    /\ Goto(r, "idle")
    /\ UNCHANGED <<now, storeVars, start, swept, txVars>>

\* In a transaction of its own: no row is an error, another input a conflict;
\* a row that is found is complete, as none is committed before that.
Lookup(r) ==
    /\ pc[r] = "lookup"
    /\ \/ \E row \in rows :
            /\ row.key = KeyOf[r] /\ row.input = InputOf[r]
            /\ answer' = [answer EXCEPT ![r] = RunOf(row)]
       \/ /\ \A row \in rows : row.key = KeyOf[r] => row.input # InputOf[r]
          /\ UNCHANGED answer
    /\ Goto(r, "idle")
    /\ UNCHANGED <<now, storeVars, start, swept, txVars>>

\* A row count or a size is refused, a statement, the commit or an invalidation
\* fails, the request times out or its worker dies.  The transaction, if it is
\* not committed, is rolled back; the client repeats its request.
Fail(r) ==
    /\ pc[r] # "idle"
    /\ answer' = [answer EXCEPT ![r] = None]
    /\ swept' = [swept EXCEPT ![r] = {}]
    /\ Release(r)
    /\ Goto(r, "idle")
    /\ UNCHANGED <<now, storeVars, start>>

Tick ==
    /\ now < MaxTime
    /\ now' = now + 1
    /\ UNCHANGED <<storeVars, requestVars, txVars, answer>>

-----------------------------------------------------------------------------
Init ==
    /\ now = 0
    /\ rows = {} /\ last = [k \in Key |-> None]
    /\ pc = [r \in Request |-> "idle"] /\ start = [r \in Request |-> 0]
    /\ swept = [r \in Request |-> {}]
    /\ writer = None
    /\ doomed = [r \in Request |-> {}] /\ draft = [r \in Request |-> None]
    /\ answer = [r \in Request |-> None]

Handler(r) ==
    \/ Begin(r) \/ Sweep(r) \/ Purge(r) \/ Forget(r) \/ Insert(r) \/ InsertConflicts(r)
    \/ Execute(r) \/ ExecuteConflicts(r) \/ Commit(r) \/ Finish(r)
    \/ Lookup(r) \/ Fail(r)

Next == Tick \/ \E r \in Request : Handler(r)

Spec == Init /\ [][Next]_vars

-----------------------------------------------------------------------------
(* Invariants. *)

PC == {"idle", "sweep", "purge", "forget", "insert", "run", "commit", "finish", "lookup"}

\* Every variable ranges over its type.
TypeOK ==
    /\ now \in Time
    /\ rows \in SUBSET Row /\ last \in [Key -> Run \cup {None}]
    /\ pc \in [Request -> PC] /\ start \in [Request -> Time]
    /\ swept \in [Request -> SUBSET Id]
    /\ writer \in Request \cup {None}
    /\ doomed \in [Request -> SUBSET Row] /\ draft \in [Request -> Row \cup {None}]
    /\ answer \in [Request -> Run \cup {None}]

\* "A crash after commit leaves a completed record that can replay": a run of
\* the statements leaves its row, which no sweep takes away before it expires.
LedgerKeepsRuns ==
    \A k \in Key : (last[k] # None /\ now <= last[k].at + Ttl) =>
        \E row \in rows : row.key = k /\ RunOf(row) = last[k]

\* While a request runs the statements of a key nobody else does, and the run
\* before lies more than Ttl back.
RunsAreApart ==
    \A r \in Request : draft[r] # None =>
        /\ last[KeyOf[r]] # None => last[KeyOf[r]].at + Ttl < now
        /\ \A q \in Request \ {r} : draft[q] # None => KeyOf[q] # KeyOf[r]

=============================================================================
