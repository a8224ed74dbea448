------------------------------- MODULE Audit -------------------------------
(***************************************************************************)
(* The audit writer: a bounded queue, batches, retries and the shutdown.   *)
(*                                                                         *)
(* The counter of drops is kept by event, so that an event counted twice   *)
(* or not at all is seen; batches are sequences of events.  A write may    *)
(* fail before or after it took effect: the acknowledgement of a commit    *)
(* can be lost.                                                            *)
(***************************************************************************)
EXTENDS Naturals, Sequences, SequencesExt

CONSTANTS
    Event,
    MaxQueue,     \* max_queue
    BatchSize,    \* batch_size
    Retries       \* write_retries

\* What the constants must be.
ConstantsAreLegal ==
    /\ {MaxQueue, BatchSize} \subseteq Nat \ {0}
    /\ Retries \in Nat

VARIABLES
    queue,
    batch,        \* the batch of _run
    writer,       \* where _run is
    attempt,
    unfinished,   \* what join waits for: events without a task_done
    submitted,
    stored,       \* the rows of an event
    dropped,      \* the times an event was counted as dropped
    closing       \* where close is

vars == <<queue, batch, writer, attempt, unfinished, submitted, stored, dropped, closing>>

Init ==
    /\ queue = <<>> /\ batch = <<>>
    /\ writer = "waiting" /\ attempt = 0
    /\ unfinished = 0
    /\ submitted = {}
    /\ stored = [e \in Event |-> 0]
    /\ dropped = [e \in Event |-> 0]
    /\ closing = "open"

Count(s) == dropped' = [e \in Event |-> dropped[e] + (IF Contains(s, e) THEN 1 ELSE 0)]

\* task_done for every event of the batch.
EndBatch == unfinished' = unfinished - Len(batch) /\ batch' = <<>> /\ attempt' = 0

\* The requests of an application end before its writer is closed.
Submit(e) ==
    /\ closing = "open" /\ e \notin submitted
    /\ submitted' = submitted \cup {e}
    /\ IF Len(queue) < MaxQueue
       THEN queue' = Append(queue, e) /\ unfinished' = unfinished + 1 /\ UNCHANGED dropped
       ELSE Count(<<e>>) /\ UNCHANGED <<queue, unfinished>>
    /\ UNCHANGED <<batch, writer, attempt, stored, closing>>

\* The first event of a batch, and those behind it until it is full.
Take ==
    /\ writer = "waiting" /\ queue # <<>>
    /\ Len(batch) < BatchSize
    /\ batch' = Append(batch, Head(queue))
    /\ queue' = Tail(queue)
    /\ UNCHANGED <<writer, attempt, unfinished, submitted, stored, dropped, closing>>

FaultyFlush ==
    /\ writer = "waiting" /\ Len(batch) = BatchSize
    /\ writer' = "writing"
    /\ UNCHANGED <<queue, batch, attempt, unfinished, submitted, stored, dropped, closing>>

\* The batch is full, or the flush interval is over.
Flush ==
    /\ writer = "waiting" /\ batch # <<>>
    /\ writer' = "writing"
    /\ UNCHANGED <<queue, batch, attempt, unfinished, submitted, stored, dropped, closing>>

Store == stored' = [e \in Event |-> stored[e] + (IF Contains(batch, e) THEN 1 ELSE 0)]

WriteSucceeds ==
    /\ writer = "writing"
    /\ Store
    /\ EndBatch
    /\ writer' = "waiting"
    /\ UNCHANGED <<queue, submitted, dropped, closing>>

FaultyWriteFails ==
    /\ writer = "writing"
    /\ \/ Store
       \/ UNCHANGED stored
    /\ IF attempt < Retries
       THEN /\ writer' = "backoff" /\ attempt' = attempt + 1
            /\ UNCHANGED <<batch, unfinished, dropped>>
       ELSE writer' = "waiting" /\ EndBatch /\ UNCHANGED dropped
    /\ UNCHANGED <<queue, submitted, closing>>

\* A failed attempt is retried after a while; the last one counts its batch.
WriteFails ==
    /\ writer = "writing"
    /\ \/ Store
       \/ UNCHANGED stored
    /\ IF attempt < Retries
       THEN /\ writer' = "backoff" /\ attempt' = attempt + 1
            /\ UNCHANGED <<batch, unfinished, dropped>>
       ELSE writer' = "waiting" /\ EndBatch /\ Count(batch)
    /\ UNCHANGED <<queue, submitted, closing>>

Retry ==
    /\ writer = "backoff"
    /\ writer' = "writing"
    /\ UNCHANGED <<queue, batch, attempt, unfinished, submitted, stored, dropped, closing>>

\* close: the queue is joined for a limited time.
Close ==
    /\ closing = "open"
    /\ closing' = "joining"
    /\ UNCHANGED <<queue, batch, writer, attempt, unfinished, submitted, stored, dropped>>

\* Everything was written, or the time is over: what is queued is counted.
JoinEnds ==
    /\ closing = "joining"
    /\ \/ unfinished = 0 /\ UNCHANGED dropped
       \/ unfinished > 0 /\ Count(queue)
    /\ closing' = "cancelling"
    /\ UNCHANGED <<queue, batch, writer, attempt, unfinished, submitted, stored>>

\* The cancelled writer counts its batch, which a write under way may store.
Cancelled ==
    /\ closing = "cancelling"
    /\ \/ UNCHANGED stored
       \/ writer = "writing" /\ Store
    /\ Count(batch)
    /\ EndBatch
    /\ writer' = "ended" /\ closing' = "closed"
    /\ UNCHANGED <<queue, submitted>>

Write == Take \/ Flush \/ WriteSucceeds \/ WriteFails \/ Retry
Shutdown == Close \/ JoinEnds \/ Cancelled

Finished == closing = "closed" /\ UNCHANGED vars

\* The join ends and the cancellation is requested without an await between:
\* _run takes nothing after it.
Next ==
    \/ \E e \in Event : Submit(e)
    \/ closing \in {"open", "joining"} /\ Write
    \/ Shutdown
    \/ Finished

Spec == Init /\ [][Next]_vars

\* The writer runs when it can and its attempts end, if only by failing; a
\* shutdown that has begun goes on.
Working == closing \in {"open", "joining"} /\ Write
Ending == JoinEnds \/ Cancelled
FairSpec == Spec /\ WF_vars(Working) /\ WF_vars(Ending)

-----------------------------------------------------------------------------
(* Properties. *)

\* Queue overflow, failures of the database and a shutdown are never silent:
\* an event is queued, in the batch, stored or counted, counted at most once,
\* and after the shutdown stored or counted.
NoSilentLoss ==
    \A e \in submitted :
        /\ dropped[e] <= 1
        /\ \/ stored[e] > 0 \/ dropped[e] = 1
           \/ closing # "closed" /\ Contains(queue \o batch, e)

\* Every event is stored or counted in the end, though every write may fail.
EventsAreSettled == <>[](\A e \in submitted : stored[e] > 0 \/ dropped[e] > 0)

-----------------------------------------------------------------------------
(* The inductive invariant behind the properties. *)

Distinct(s) == \A i, j \in 1..Len(s) : s[i] = s[j] => i = j

TypeOK ==
    /\ queue \in Seq(Event) /\ batch \in Seq(Event)
    /\ unfinished \in Nat /\ attempt \in Nat
    /\ submitted \subseteq Event
    /\ stored \in [Event -> Nat] /\ dropped \in [Event -> Nat]
    /\ writer \in {"waiting", "writing", "backoff", "ended"}
    /\ closing \in {"open", "joining", "cancelling", "closed"}

\* An event is in one place at a time, and task_done was called for those in none.
OnePlace ==
    /\ unfinished = Len(queue) + Len(batch)
    /\ Distinct(queue)
    /\ \A e \in Event :
           /\ Contains(queue, e) => e \in submitted /\ ~Contains(batch, e)
           /\ Contains(batch, e) => e \in submitted

\* What waits was not counted, until the end of the join counts the queue.
NotCounted ==
    /\ \A e \in Event \ submitted : dropped[e] = 0
    /\ closing # "closed" => \A e \in Event : Contains(batch, e) => dropped[e] = 0
    /\ closing \in {"open", "joining"} => \A e \in Event : Contains(queue, e) => dropped[e] = 0
    /\ closing = "cancelling" => \A e \in Event : Contains(queue, e) => dropped[e] = 1

\* NoSilentLoss, with the places of an event apart.
Kept ==
    \A e \in submitted :
        /\ dropped[e] <= 1
        /\ \/ stored[e] > 0 \/ dropped[e] = 1
           \/ closing # "closed" /\ (Contains(queue, e) \/ Contains(batch, e))

IInv == TypeOK /\ OnePlace /\ NotCounted /\ Kept

=============================================================================
