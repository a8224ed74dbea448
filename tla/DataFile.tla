------------------------------ MODULE DataFile ------------------------------
(***************************************************************************)
(* A writable file data source: requests of several workers create, change *)
(* and delete its items.  A request holds the asyncio lock of its worker   *)
(* while a thread does the work under a file lock; a cancelled request     *)
(* gives the asyncio lock back and leaves the thread behind; a crash of a  *)
(* worker ends its threads and frees its locks.                            *)
(*                                                                         *)
(* The content is a function from ids to items.  An item is the set of     *)
(* requests that wrote to it: an update adds one, a replacement leaves one.*)
(***************************************************************************)
EXTENDS Integers, FiniteSets

CONSTANTS
    Request,
    Action,       \* Action[r]: "create", "update", "replace" or "delete"
    Worker,
    WorkerOf,     \* WorkerOf[r]: the worker that serves it
    Id,           \* ids, as numbers: a new item takes the next one
    ItemOf,       \* ItemOf[r]: the id the request names
    None

\* What the constants must be.
ConstantsAreLegal ==
    /\ Action \in [Request -> {"create", "update", "replace", "delete"}]
    /\ Id \subseteq Nat \ {0} /\ Id # {}
    /\ None \notin Request
    /\ WorkerOf \in [Request -> Worker] /\ ItemOf \in [Request -> Id \cup {None}]

VARIABLES
    file,         \* what the file holds
    lock,         \* who holds the asyncio lock of a worker
    fileLock,     \* who holds the file lock
    thread,       \* where the thread of a request is
    read,         \* what it has read
    reply,        \* what the request was answered
    down,         \* workers that crashed
    expected      \* the content if every mutation were one step

vars == <<file, lock, fileLock, thread, read, reply, down, expected>>

First == CHOOSE i \in Id : \A j \in Id : i <= j

Init ==
    /\ file = [i \in {First} |-> {}]
    /\ lock = [w \in Worker |-> None]
    /\ fileLock = None
    /\ thread = [r \in Request |-> "new"]
    /\ read = [r \in Request |-> <<>>]
    /\ reply = [r \in Request |-> "none"]
    /\ down = {}
    /\ expected = file

-----------------------------------------------------------------------------
(* The mutations of _mutate_file_sync. *)

Put(f, i, item) == [j \in DOMAIN f \cup {i} |-> IF j = i THEN item ELSE f[j]]

\* The id of a new item: its own, or the highest and one.
NewId(r, f) ==
    IF ItemOf[r] # None THEN ItemOf[r]
    ELSE IF DOMAIN f = {} THEN 1
    ELSE 1 + CHOOSE i \in DOMAIN f : \A j \in DOMAIN f : j <= i

\* A duplicate id, an item that is not there, a file that would grow too large.
Refused(r, f) ==
    IF Action[r] = "create" THEN NewId(r, f) \in DOMAIN f
                            ELSE ItemOf[r] \notin DOMAIN f

Mutated(r, f) ==
    CASE Action[r] = "create"  -> Put(f, NewId(r, f), {r})
      [] Action[r] = "update"  -> Put(f, ItemOf[r], f[ItemOf[r]] \cup {r})
      [] Action[r] = "replace" -> Put(f, ItemOf[r], {r})
      [] Action[r] = "delete"  -> [j \in DOMAIN f \ {ItemOf[r]} |-> f[j]]

-----------------------------------------------------------------------------
(* The requests. *)

Moves(r, from, to) ==
    /\ thread[r] = from
    /\ thread' = [thread EXCEPT ![r] = to]

\* The asyncio lock of the source, and the thread.
Start(r) ==
    /\ WorkerOf[r] \notin down /\ lock[WorkerOf[r]] = None
    /\ Moves(r, "new", "locking")
    /\ lock' = [lock EXCEPT ![WorkerOf[r]] = r]
    /\ UNCHANGED <<file, fileLock, read, reply, down, expected>>

FaultyLockFile(r) ==
    /\ Moves(r, "locking", "reading")
    /\ UNCHANGED <<file, lock, fileLock, read, reply, down, expected>>

LockFile(r) ==
    /\ fileLock = None
    /\ Moves(r, "locking", "reading")
    /\ fileLock' = r
    /\ UNCHANGED <<file, lock, read, reply, down, expected>>

\* The end of the thread, and of the request unless it was cancelled.
End(r, answer) ==
    /\ reply' = IF reply[r] = "none" THEN [reply EXCEPT ![r] = answer] ELSE reply
    /\ lock' = [w \in Worker |-> IF lock[w] = r THEN None ELSE lock[w]]

\* The file lock was not free in time: 503.
Busy(r) ==
    /\ fileLock # None
    /\ Moves(r, "locking", "ended")
    /\ End(r, "busy")
    /\ UNCHANGED <<file, fileLock, read, down, expected>>

Read(r) ==
    /\ Moves(r, "reading", "writing")
    /\ read' = [read EXCEPT ![r] = file]
    /\ UNCHANGED <<file, lock, fileLock, reply, down, expected>>

Unlocked(r) == IF fileLock = r THEN None ELSE fileLock

\* The mutation is refused, or its result is too large or cannot be written.
Refuse(r) ==
    /\ Moves(r, "writing", "ended")
    /\ End(r, "refused")
    /\ fileLock' = Unlocked(r)
    /\ UNCHANGED <<file, read, down, expected>>

\* The temporary file is complete and takes the place of the file.
Replace(r) ==
    /\ ~Refused(r, read[r])
    /\ Moves(r, "writing", "replaced")
    /\ file' = Mutated(r, read[r])
    /\ expected' = IF Refused(r, expected) THEN expected ELSE Mutated(r, expected)
    /\ UNCHANGED <<lock, fileLock, read, reply, down>>

Unlock(r) ==
    /\ Moves(r, "replaced", "ended")
    /\ End(r, "done")
    /\ fileLock' = Unlocked(r)
    /\ UNCHANGED <<file, read, down, expected>>

\* The request is cancelled: its lock is free, its thread goes on.
Cancel(r) ==
    /\ thread[r] \in {"locking", "reading", "writing", "replaced"}
    /\ reply[r] = "none"
    /\ reply' = [reply EXCEPT ![r] = "cancelled"]
    /\ lock' = [w \in Worker |-> IF lock[w] = r THEN None ELSE lock[w]]
    /\ UNCHANGED <<file, fileLock, thread, read, down, expected>>

\* A worker crashes: what it replaced stays, what it wrote aside is not read.
Crash(w) ==
    /\ down = {}
    /\ down' = {w}
    /\ LET lost == {r \in Request : WorkerOf[r] = w /\ thread[r] # "new"}
       IN /\ thread' = [r \in Request |-> IF r \in lost THEN "ended" ELSE thread[r]]
          /\ fileLock' = IF fileLock \in lost THEN None ELSE fileLock
    /\ lock' = [lock EXCEPT ![w] = None]
    /\ UNCHANGED <<file, read, reply, expected>>

Finished ==
    /\ \A r \in Request : thread[r] = "ended" \/ (thread[r] = "new" /\ WorkerOf[r] \in down)
    /\ UNCHANGED vars

Next ==
    \/ \E r \in Request : \/ Start(r) \/ LockFile(r) \/ Busy(r) \/ Read(r)
                          \/ Refuse(r) \/ Replace(r) \/ Unlock(r) \/ Cancel(r)
    \/ \E w \in Worker : Crash(w)
    \/ Finished

Spec == Init /\ [][Next]_vars

-----------------------------------------------------------------------------
(* Properties. *)

\* The file is what the mutations leave when each is one step, in the order
\* they took effect: none is lost or applied to an old copy, with two workers,
\* threads nobody waits for, lock time-outs and a crash.
NoUpdateIsLost == file = expected

-----------------------------------------------------------------------------
(* The inductive invariant behind the properties. *)

TypeOK ==
    /\ DOMAIN thread = Request /\ DOMAIN read = Request
    /\ fileLock \in Request \cup {None}

\* Who reads, writes or has replaced the file holds the file lock, and what it read
\* is what the file holds until it is replaced.
IInv ==
    /\ TypeOK
    /\ \A r \in Request : thread[r] \in {"reading", "writing", "replaced"} => fileLock = r
    /\ \A r \in Request : thread[r] = "writing" => read[r] = file
    /\ NoUpdateIsLost

=============================================================================
