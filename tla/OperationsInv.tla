--------------------------- MODULE OperationsInv ---------------------------
(***************************************************************************)
(* The inductive invariants behind the theorems of OperationsProofs, and    *)
(* the mapping under which the ledger of PostgreSQL runs a key once.       *)
(***************************************************************************)
EXTENDS Operations

Once == INSTANCE OnceOnly WITH
    Caller <- Request,
    Name <- Key,
    Life <- Ttl,
    Nothing <- None,
    time <- now,
    latest <- last,
    reply <- answer

\* A key runs once while its row lives, and whoever does not run it is
\* answered with the result of that run.
ImplementsOnceOnly == Once!Spec

Over(row) == row.at + Ttl < now

(* Control, on both databases. *)

Control ==
    \A r \in Request :
        /\ start[r] <= now
        /\ draft[r] # None <=> pc[r] \in {"run", "commit"}
        /\ draft[r] # None => draft[r].key = KeyOf[r] /\ draft[r].input = InputOf[r]
        /\ doomed[r] # {} => pc[r] \in {"forget", "insert", "run", "commit"}

(* The ledger of PostgreSQL: one row for each key, that of its latest run. *)

OneRowEach == \A a, b \in rows : (a.id = b.id \/ a.key = b.key) => a = b

LatestRows == \A row \in rows : RunOf(row) = last[row.key] /\ row.at <= now

(* Row numbers: a sweep remembers none that a newer row has. *)

SweptIsOver == \A r \in Request : \A row \in rows : row.id \in swept[r] => Over(row)

DraftsAreNew ==
    \A r \in Request : draft[r] # None =>
        /\ draft[r].at <= now
        /\ draft[r].id \notin Ids(rows)
        /\ \A q \in Request : draft[r].id \notin swept[q]
        /\ \A q \in Request \ {r} : draft[q] # None => draft[q].id # draft[r].id

(* Locks. *)

DoomedIsOver ==
    \A r \in Request : \A row \in doomed[r] :
        /\ row \in rows /\ Over(row)
        /\ \A q \in Request \ {r} : row \notin doomed[q]

\* The unique key keeps others off a key that is being run.
DraftIsAlone ==
    \A r \in Request : draft[r] # None =>
        \A row \in rows : row.key = KeyOf[r] => row \in doomed[r]

\* The last run is over when the next one starts, and so at its completion.
DraftIsLater ==
    \A r \in Request : (pc[r] = "commit" /\ last[KeyOf[r]] # None) =>
        last[KeyOf[r]].at + Ttl < draft[r].at

IInv == TypeOK /\ Control

LedgerInv ==
    /\ OneRowEach /\ LatestRows /\ SweptIsOver /\ DraftsAreNew
    /\ DoomedIsOver /\ DraftIsAlone /\ DraftIsLater
    /\ LedgerKeepsRuns /\ RunsAreApart

=============================================================================
