-------------------------------- MODULE Media --------------------------------
(***************************************************************************)
(* Media uploads and deletions of one application.  An object is a file in *)
(* the local store and a row in the internal database; the usage row of an *)
(* owner counts the bytes of its rows.  The three are changed in separate  *)
(* steps by requests of any worker, and a worker may crash between them.   *)
(*                                                                         *)
(* An upload stores the object of its own name.  The objects of Old were   *)
(* stored before a quota was configured, when nothing wrote usage rows.    *)
(***************************************************************************)
EXTENDS Integers, FiniteSets

CONSTANTS
    Upload, Old,        \* objects: of an upload to come, of an earlier one
    Removal,            \* requests that delete an object
    Target,             \* Target[d]: the object it names
    Owner, OwnerOf,     \* OwnerOf[o]: whose object it is
    Size, Content,      \* Size[o] and Content[o]: its bytes and their digest
    MaxUpload,          \* max_upload_bytes
    Limit,              \* max_owner_bytes, 0 for none
    Deduplicate,        \* "no", "owner" or "project"
    None

Object == Upload \cup Old

\* What the constants must be.
ConstantsAreLegal ==
    /\ IsFiniteSet(Object) /\ Upload \cap (Old \cup Removal) = {}
    /\ MaxUpload \in Nat /\ Limit \in Nat /\ None \notin Nat
    /\ Deduplicate \in {"no", "owner", "project"}
    /\ OwnerOf \in [Object -> Owner]
    /\ Size \in [Object -> Nat]
    /\ Target \in [Removal -> Object]

VARIABLES
    files,     \* the objects with a file in the store
    rows,      \* the objects with a row
    used,      \* used[w]: used_bytes in the usage row of an owner, or None
    stage,     \* how far a request is
    sum        \* the sum of the rows an upload has read

vars == <<files, rows, used, stage, sum>>

\* The bytes of the rows of an owner, each as its object and its place, and their number.
BytesOf(w, R) == UNION {{o} \X (1..Size[o]) : o \in {p \in R : OwnerOf[p] = w}}
Bytes(w, R) == Cardinality(BytesOf(w, R))

Init ==
    /\ files = Old
    /\ rows = Old
    /\ used = [w \in Owner |-> None]
    /\ stage = [q \in Upload \cup Removal |-> "new"]
    /\ sum = [u \in Upload |-> None]

Moves(q, from, to) ==
    /\ stage[q] = from
    /\ stage' = [stage EXCEPT ![q] = to]

-----------------------------------------------------------------------------
(* save_media *)

\* A type or an extension that is not allowed, or a body that is too large: the
\* temporary file is unlinked and nothing was linked.
Refuse(u) ==
    /\ Moves(u, "new", "refused")
    /\ UNCHANGED <<files, rows, used, sum>>

\* save_upload: the temporary file is complete and linked under its own name.
Store(u) ==
    /\ Size[u] <= MaxUpload
    /\ Moves(u, "new", IF Deduplicate = "no" THEN "unique" ELSE "stored")
    /\ files' = files \cup {u}
    /\ UNCHANGED <<rows, used, sum>>

SameContent(u) ==
    {o \in rows : Content[o] = Content[u]
                  /\ (Deduplicate = "owner" => OwnerOf[o] = OwnerOf[u])}

\* The content is known: the new file goes, the answer is the older row.
FindDuplicate(u) ==
    /\ SameContent(u) # {}
    /\ Moves(u, "stored", "answered")
    /\ files' = files \ {u}
    /\ UNCHANGED <<rows, used, sum>>

FindNone(u) ==
    /\ SameContent(u) = {}
    /\ Moves(u, "stored", "unique")
    /\ UNCHANGED <<files, rows, used, sum>>

\* _ensure_usage_row reads both tables and inserts in a second transaction.
SumUsage(u) ==
    /\ Limit > 0
    /\ used[OwnerOf[u]] = None
    /\ Moves(u, "unique", "summed")
    /\ sum' = [sum EXCEPT ![u] = Bytes(OwnerOf[u], rows)]
    /\ UNCHANGED <<files, rows, used>>

FindUsage(u) ==
    /\ Limit = 0 \/ used[OwnerOf[u]] # None
    /\ Moves(u, "unique", "counted")
    /\ UNCHANGED <<files, rows, used, sum>>

\* The primary key refuses a second row: that upload goes on with the first.
InsertUsage(u) ==
    /\ Moves(u, "summed", "counted")
    /\ used' = IF used[OwnerOf[u]] = None
               THEN [used EXCEPT ![OwnerOf[u]] = sum[u]] ELSE used
    /\ UNCHANGED <<files, rows, sum>>

FaultyFitsQuota(u) ==
    /\ used[OwnerOf[u]] # None
    /\ (IF sum[u] = None THEN used[OwnerOf[u]] ELSE sum[u]) + Size[u] <= Limit

FitsQuota(u) ==
    used[OwnerOf[u]] # None /\ used[OwnerOf[u]] + Size[u] <= Limit

Reserved(u) ==
    IF Limit = 0 THEN used ELSE [used EXCEPT ![OwnerOf[u]] = @ + Size[u]]

\* _reserve_usage and the row, in one transaction.
SaveRow(u) ==
    /\ Limit = 0 \/ FitsQuota(u)
    /\ Moves(u, "counted", "answered")
    /\ used' = Reserved(u)
    /\ rows' = rows \cup {u}
    /\ UNCHANGED <<files, sum>>

\* The quota or the database refuses: the file goes.
SaveFails(u) ==
    /\ Moves(u, "counted", "refused")
    /\ files' = files \ {u}
    /\ UNCHANGED <<rows, used, sum>>

\* The connection is lost while the commit is under way, and the commit stands.
SaveIsLost(u) ==
    /\ Limit = 0 \/ FitsQuota(u)
    /\ Moves(u, "counted", "failed")
    /\ used' = Reserved(u)
    /\ rows' = rows \cup {u}
    /\ files' = files \ {u}
    /\ UNCHANGED sum

-----------------------------------------------------------------------------
(* delete_media *)

FaultyFind(d) ==
    /\ Moves(d, "new", IF Target[d] \in rows THEN "found" ELSE "refused")
    /\ files' = files \ {Target[d]}
    /\ UNCHANGED <<rows, used, sum>>

Find(d) ==
    /\ Moves(d, "new", IF Target[d] \in rows THEN "found" ELSE "refused")
    /\ UNCHANGED <<files, rows, used, sum>>

Lowered(o) ==
    IF used[OwnerOf[o]] = None THEN used
    ELSE [used EXCEPT ![OwnerOf[o]] = IF @ >= Size[o] THEN @ - Size[o] ELSE 0]

\* The row and the bytes it counts, in one transaction; 404 when it has gone.
DeleteRow(d) ==
    LET o == Target[d]
    IN /\ Moves(d, "found", IF o \in rows THEN "cut" ELSE "refused")
       /\ rows' = rows \ {o}
       /\ used' = IF o \in rows THEN Lowered(o) ELSE used
       /\ UNCHANGED <<files, sum>>

\* The file last; a failure of the store is logged and leaves it.
DeleteFile(d) ==
    /\ Moves(d, "cut", "answered")
    /\ \E gone \in SUBSET {Target[d]} : files' = files \ gone
    /\ UNCHANGED <<rows, used, sum>>

-----------------------------------------------------------------------------
Ended == {"refused", "answered", "failed", "crashed"}

\* The worker of a request stops; a transaction it had not committed is undone.
Crash(q) ==
    /\ stage[q] \notin Ended
    /\ stage' = [stage EXCEPT ![q] = "crashed"]
    /\ UNCHANGED <<files, rows, used, sum>>

Finished ==
    /\ \A q \in Upload \cup Removal : stage[q] \in Ended
    /\ UNCHANGED vars

Uploading(u) ==
    \/ Refuse(u) \/ Store(u) \/ FindDuplicate(u) \/ FindNone(u)
    \/ SumUsage(u) \/ FindUsage(u) \/ InsertUsage(u)
    \/ SaveRow(u) \/ SaveFails(u) \/ SaveIsLost(u)

Removing(d) == Find(d) \/ DeleteRow(d) \/ DeleteFile(d)

Next ==
    \/ \E u \in Upload : Uploading(u)
    \/ \E d \in Removal : Removing(d)
    \/ \E q \in Upload \cup Removal : Crash(q)
    \/ Finished

Spec == Init /\ [][Next]_vars

-----------------------------------------------------------------------------
(* Properties. *)

\* The usage row of an owner counts at least its rows and, with a quota, uploads never
\* bring the rows beyond it, whichever of them created the usage row and whatever was
\* deleted meanwhile; an owner may be beyond it only with what it had before.
QuotaHolds ==
    \A w \in Owner :
        /\ used[w] # None => used[w] >= Bytes(w, rows)
        /\ Limit > 0 =>
               Bytes(w, rows) <= Limit \/ \A o \in rows : OwnerOf[o] = w => o \in Old

\* A row a reader may find has its file, unless its upload lost the answer of its
\* commit: save_media then removes the file of a row that stands.
RowsHaveFiles ==
    \A o \in rows : o \in files \/ (o \in Upload /\ stage[o] = "failed")

-----------------------------------------------------------------------------
(* The inductive invariant behind the properties. *)

Stage == {"new", "stored", "unique", "summed", "counted", "found", "cut"} \cup Ended

TypeOK ==
    /\ files \subseteq Object /\ rows \subseteq Object
    /\ used \in [Owner -> Nat \cup {None}]
    /\ sum \in [Upload -> Nat \cup {None}]
    /\ stage \in [Upload \cup Removal -> Stage]

\* An upload under way has no row, and keeps its file once it is stored; a deletion that
\* found a row finds it gone at most, and its file is deleted after it.
Working ==
    /\ \A u \in Upload : stage[u] \notin Ended =>
           /\ u \notin rows
           /\ stage[u] # "new" => u \in files
    /\ \A d \in Removal : stage[d] \in {"found", "cut"} =>
           /\ Target[d] \in Upload => stage[Target[d]] \in Ended
           /\ stage[d] = "cut" => Target[d] \notin rows

\* Before an owner has a usage row, its rows are old ones, and what an upload has summed
\* counts them all.
Unused ==
    /\ Limit = 0 => \A w \in Owner : used[w] = None
    /\ Limit > 0 => \A o \in rows : used[OwnerOf[o]] = None => o \in Old
    /\ \A u \in Upload : stage[u] = "summed" =>
           /\ Limit > 0 /\ sum[u] \in Nat
           /\ used[OwnerOf[u]] = None => sum[u] >= Bytes(OwnerOf[u], rows)

\* What an object counts for an owner.
Share(o, w) == IF OwnerOf[o] = w THEN Size[o] ELSE 0

IInv == TypeOK /\ Working /\ Unused /\ QuotaHolds /\ RowsHaveFiles

=============================================================================
