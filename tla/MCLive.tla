------------------------------- MODULE MCLive -------------------------------
(* What must happen in the end, in one run: the behaviours are those of three
   components that state fairness, one at a time. FrontDoor is the module extended,
   its gate once waiting and once rejecting. *)
EXTENDS FrontDoor, TLC

CONSTANT Null

\* The component that runs: the others keep their initial state.
VARIABLE part

Rejecting == INSTANCE FrontDoor WITH Reject <- TRUE

-----------------------------------------------------------------------------
(* Cache: two reads of one worker that shares Redis. *)

VARIABLES cacheDb, cacheGen, cacheAcked, cacheLocal, cacheShared, cachePc, cacheKey,
          cacheStage, cacheGot, cacheVal, cacheLockOf, cacheRegistry,
          cacheRefreshing, cacheFloor, cacheWpc, cacheWnum

cacheVars == <<cacheDb, cacheGen, cacheAcked, cacheLocal, cacheShared, cachePc,
             cacheKey, cacheStage, cacheGot, cacheVal, cacheLockOf, cacheRegistry,
             cacheRefreshing, cacheFloor, cacheWpc, cacheWnum>>

Readers == {<<"read", 1>>, <<"read", 2>>}

Reads == INSTANCE Cache WITH
    Backend <- "tiered", Worker <- {"w1"}, Redis <- "redis", Request <- Readers,
    Writer <- {}, Host <- [q \in Readers |-> "w1"], StaleServed <- TRUE,
    FailOpen <- TRUE, MaxWrites <- 0, None <- Null, db <- cacheDb, gen <- cacheGen,
    acked <- cacheAcked, local <- cacheLocal, shared <- cacheShared, pc <- cachePc,
    key <- cacheKey, stage <- cacheStage, got <- cacheGot, val <- cacheVal,
    lockOf <- cacheLockOf, registry <- cacheRegistry, refreshing <- cacheRefreshing,
    floor <- cacheFloor, wpc <- cacheWpc, wnum <- cacheWnum

-----------------------------------------------------------------------------
(* Audit: three events, a queue of two and batches of two. *)

VARIABLES auditQueue, auditBatch, auditWriter, auditAttempt, auditUnfinished,
          auditSubmitted, auditStored, auditDropped, auditClosing

auditVars == <<auditQueue, auditBatch, auditWriter, auditAttempt, auditUnfinished,
             auditSubmitted, auditStored, auditDropped, auditClosing>>

Trail == INSTANCE Audit WITH
    Event <- {"e1", "e2", "e3"}, MaxQueue <- 2, BatchSize <- 2, Retries <- 1,
    queue <- auditQueue, batch <- auditBatch, writer <- auditWriter,
    attempt <- auditAttempt, unfinished <- auditUnfinished,
    submitted <- auditSubmitted, stored <- auditStored, dropped <- auditDropped,
    closing <- auditClosing

-----------------------------------------------------------------------------

\* What the other instances assume of their constants.
ASSUME Trail!ConstantsAreLegal

LiveInit ==
    /\ part \in {"door", "rejecting", "cache", "audit"}
    /\ Init /\ Reads!Init /\ Trail!Init

LiveNext ==
    /\ UNCHANGED part
    /\ CASE part = "door" -> Next
         [] part = "rejecting" -> Rejecting!Next
         [] OTHER -> UNCHANGED vars
    /\ IF part = "cache" THEN Reads!Next ELSE UNCHANGED cacheVars
    /\ IF part = "audit" THEN Trail!Next ELSE UNCHANGED auditVars

\* The fairness of each component, while it runs.
LiveFairness ==
    /\ \A r \in Request :
           WF_vars(\/ part = "door" /\ Prompt(r)
                   \/ part = "rejecting" /\ Rejecting!Prompt(r))
    /\ \A t \in Reads!Task :
           /\ WF_cacheVars(part = "cache" /\ Reads!TaskStep(t))
           /\ SF_cacheVars(part = "cache" /\ Reads!Acquire(t))
           /\ t \in Readers =>
                  WF_cacheVars(part = "cache" /\ (Reads!MakeKey(t) \/ Reads!KeyFails(t)))
    /\ WF_auditVars(part = "audit" /\ Trail!Working)
    /\ WF_auditVars(part = "audit" /\ Trail!Ending)

LiveSpec ==
    /\ LiveInit /\ [][LiveNext]_<<part, vars, cacheVars, auditVars>>
    /\ LiveFairness

-----------------------------------------------------------------------------
(* The properties of the instances, as the run names them; each is stated and
   explained in its component's module. *)

\* Every read is answered.
ReadsEnd == part = "cache" => Reads!ReadsEnd

\* An audit event is stored or counted in the end.
EventsAreSettled == part = "audit" => Trail!EventsAreSettled

=============================================================================
