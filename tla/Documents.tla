------------------------------ MODULE Documents ------------------------------
(***************************************************************************)
(* Documents of the Forge Editor: saves of the documents of one project by *)
(* requests of several workers, and the creation of a project.             *)
(*                                                                         *)
(* A save holds the asyncio lock of its worker and a file lock on its      *)
(* project.  Both operations of the file lock run in a thread of the       *)
(* executor; the lock library keeps the state of a lock object by thread,  *)
(* so that a release in another thread than the acquisition does nothing.  *)
(* A crash of a worker frees its locks.                                    *)
(***************************************************************************)
EXTENDS Integers, FiniteSets

CONSTANTS
    Save,         \* requests that save a document
    Create,       \* requests that create one same project
    Worker, WorkerOf,   \* WorkerOf[q]: the worker of a Save or a Create
    Thread,       \* the threads of an executor
    Document, DocumentOf,
    Text,         \* Text[s]: the content a save brings
    Expects,      \* Expects[s]: the content its digest is of, None for "new"
    Start,        \* Start[d]: the content of a document, None if there is none
    Loads,        \* the contents of all documents with which the project loads
    None

Job == Save \cup Create

\* What the constants must be.
ConstantsAreLegal ==
    /\ WorkerOf \in [Job -> Worker]
    /\ DocumentOf \in [Save -> Document]
    /\ Save \cap Create = {}
    /\ None \notin Job
    /\ Start \in Loads

VARIABLES
    file,         \* file[d]: the content of a document
    project,      \* the request whose directory is the created project, or None
    lock,         \* lock[w]: the request with the write lock of a worker
    fileLock,     \* the request that acquired the file lock, or None
    thread,       \* thread[s]: the thread its acquisition ran in
    stage,        \* how far a request is
    down          \* the workers that crashed

vars == <<file, project, lock, fileLock, thread, stage, down>>

Init ==
    /\ file = Start
    /\ project = None
    /\ lock = [w \in Worker |-> None]
    /\ fileLock = None
    /\ thread = [s \in Save |-> None]
    /\ stage = [q \in Job |-> "new"]
    /\ down = {}

Up(q) == WorkerOf[q] \notin down

Moves(q, from, to) ==
    /\ Up(q)
    /\ stage[q] = from
    /\ stage' = [stage EXCEPT ![q] = to]

-----------------------------------------------------------------------------
(* The write lock of a worker. *)

Lock(q) ==
    /\ lock[WorkerOf[q]] = None
    /\ Moves(q, "new", "locked")
    /\ lock' = [lock EXCEPT ![WorkerOf[q]] = q]
    /\ UNCHANGED <<file, project, fileLock, thread, down>>

\* The request is answered "done", "conflict", "invalid" or "busy".
Answer(q, from, to) ==
    /\ Moves(q, from, to)
    /\ lock' = [lock EXCEPT ![WorkerOf[q]] = None]

\* Policy, path or JSON; nothing is locked yet.
Refuse(q) ==
    /\ Moves(q, "new", "invalid")
    /\ UNCHANGED <<file, project, lock, fileLock, thread, down>>

-----------------------------------------------------------------------------
(* write_document *)

FaultyAcquire(s, t) ==
    /\ Moves(s, "locked", "holding")
    /\ fileLock' = s
    /\ thread' = [thread EXCEPT ![s] = t]
    /\ UNCHANGED <<file, project, lock, down>>

Acquire(s, t) ==
    /\ fileLock = None
    /\ Moves(s, "locked", "holding")
    /\ fileLock' = s
    /\ thread' = [thread EXCEPT ![s] = t]
    /\ UNCHANGED <<file, project, lock, down>>

TimeOut(s) ==
    /\ fileLock # None
    /\ Answer(s, "locked", "busy")
    /\ UNCHANGED <<file, project, fileLock, thread, down>>

FaultyCompare(s) ==
    /\ Moves(s, "holding", "staging")
    /\ UNCHANGED <<file, project, lock, fileLock, thread, down>>

\* The digest is of the content there is, or the document is new.
Compare(s) ==
    /\ Moves(s, "holding",
             IF file[DocumentOf[s]] = Expects[s] THEN "staging" ELSE "conflicting")
    /\ UNCHANGED <<file, project, lock, fileLock, thread, down>>

\* A copy of the project with the new content must load.
Stage(s) ==
    LET copy == [file EXCEPT ![DocumentOf[s]] = Text[s]]
    IN /\ Moves(s, "staging", IF copy \in Loads THEN "staged" ELSE "failing")
       /\ UNCHANGED <<file, project, lock, fileLock, thread, down>>

\* A temporary file takes the place of the document.
Put(s) ==
    /\ Moves(s, "staged", "saved")
    /\ file' = [file EXCEPT ![DocumentOf[s]] = Text[s]]
    /\ UNCHANGED <<project, lock, fileLock, thread, down>>

Outcome == [saved |-> "done", conflicting |-> "conflict", failing |-> "invalid"]

Release(s, t) ==
    /\ stage[s] \in DOMAIN Outcome
    /\ Answer(s, stage[s], Outcome[stage[s]])
    /\ fileLock' = IF fileLock = s /\ thread[s] = t THEN None ELSE fileLock
    /\ UNCHANGED <<file, project, thread, down>>

-----------------------------------------------------------------------------
(* create_project holds no file lock. *)

FindName(c) ==
    /\ IF project = None THEN Moves(c, "locked", "building") /\ UNCHANGED lock
                         ELSE Answer(c, "locked", "conflict")
    /\ UNCHANGED <<file, project, fileLock, thread, down>>

\* os.replace of a directory fails on one that is not empty.
Publish(c) ==
    /\ Answer(c, "building", IF project = None THEN "done" ELSE "failed")
    /\ project' = IF project = None THEN c ELSE project
    /\ UNCHANGED <<file, fileLock, thread, down>>

-----------------------------------------------------------------------------
Ended == {"done", "conflict", "invalid", "busy", "failed"}

\* One worker is left up.
Crash(w) ==
    /\ Worker \ down # {w}
    /\ w \notin down
    /\ down' = down \cup {w}
    /\ lock' = [lock EXCEPT ![w] = None]
    /\ fileLock' = IF fileLock # None /\ WorkerOf[fileLock] = w THEN None ELSE fileLock
    /\ UNCHANGED <<file, project, thread, stage>>

Finished ==
    /\ \A q \in Job : stage[q] \in Ended \/ ~Up(q)
    /\ UNCHANGED vars

Next ==
    \/ \E q \in Job : Lock(q) \/ Refuse(q)
    \/ \E s \in Save : TimeOut(s) \/ Compare(s) \/ Stage(s) \/ Put(s)
    \/ \E s \in Save, t \in Thread : Acquire(s, t) \/ Release(s, t)
    \/ \E c \in Create : FindName(c) \/ Publish(c)
    \/ \E w \in Worker : Crash(w)
    \/ Finished

Spec == Init /\ [][Next]_vars

-----------------------------------------------------------------------------
TypeOK ==
    /\ DOMAIN file = Document
    /\ project \in Create \cup {None}
    /\ lock \in [Worker -> Job \cup {None}]
    /\ fileLock \in Save \cup {None}
    /\ thread \in [Save -> Thread \cup {None}]
    /\ DOMAIN stage = Job
    /\ down \subseteq Worker

\* A save replaces the very content its digest was of: no other save of any worker
\* comes between the comparison and the replacement.
SavesReplaceWhatTheyRead ==
    [][\A s \in Save : stage[s] = "staged" /\ stage'[s] = "saved"
            => file[DocumentOf[s]] = Expects[s]]_vars

\* The documents always load together: two saves of different documents, each valid
\* beside the old content of the other, are not both accepted.
ProjectLoads == file \in Loads

\* Two requests that create one project are not both told that they did.
CreatedOnce ==
    \A c \in Create : stage[c] = "done" => project = c

\* The project is locked only while a save of it is under way.
LockIsGivenBack ==
    fileLock # None => stage[fileLock] \notin Ended

-----------------------------------------------------------------------------
(* The inductive invariant behind the properties. *)

\* The stages in which a save has the file lock of the project.
Held == {"holding", "staging", "conflicting", "staged", "failing", "saved"}

\* Among the saves whose worker is up one at most is in these stages.
LockIsHeld == \A s \in Save : Up(s) /\ stage[s] \in Held => fileLock = s

\* What a save has found out is still so.
ComparisonHolds ==
    \A s \in Save : Up(s) /\ stage[s] \in {"staging", "staged"}
                        => file[DocumentOf[s]] = Expects[s]

CopyLoads ==
    \A s \in Save : Up(s) /\ stage[s] = "staged"
                        => [file EXCEPT ![DocumentOf[s]] = Text[s]] \in Loads

\* The inductive invariant.
IInv ==
    /\ DOMAIN stage = Job
    /\ LockIsHeld
    /\ ComparisonHolds
    /\ CopyLoads
    /\ ProjectLoads
    /\ CreatedOnce

=============================================================================
