------------------------------ MODULE Traffic -------------------------------
(***************************************************************************)
(* The components that bound, call, tell and record: instances of their    *)
(* modules, each with constants and variables of its own.  They share no   *)
(* state.                                                                  *)
(***************************************************************************)
EXTENDS Integers

CONSTANTS
    RateIdentity, SharedRates, Rate, Window, Burst, IdleTtl, CleanupInterval, \* RateLimit
    MaxBuckets, RateTime,
    Call, Trusting, Idempotent, Address, Private, CallRetries, Threshold,     \* Outbound
    Reset, CallTime,
    Subscriber, Sse, SharedHubs, QueueSize, MaxMembers, MaxEvents, MaxOutages,\* Events
    AuditEvent, MaxQueue, BatchSize, WriteRetries,                            \* Audit
    Null

-----------------------------------------------------------------------------
(* RateLimit: the buckets of one worker, or of Redis. *)

VARIABLES rateNow, rateBuckets, rateOverflow, rateNextCleanup, rateIdeal

rateVars == <<rateNow, rateBuckets, rateOverflow, rateNextCleanup, rateIdeal>>

Limiter == INSTANCE RateLimit WITH
    Identity <- RateIdentity, Shared <- SharedRates, Rate <- Rate, Window <- Window,
    Burst <- Burst, IdleTtl <- IdleTtl, CleanupInterval <- CleanupInterval,
    MaxBuckets <- MaxBuckets, MaxTime <- RateTime, now <- rateNow,
    buckets <- rateBuckets, overflow <- rateOverflow, nextCleanup <- rateNextCleanup,
    ideal <- rateIdeal

ASSUME LimiterIsLegal == Limiter!ConstantsAreLegal

-----------------------------------------------------------------------------
(* Outbound: the calls to one host and its circuit. *)

VARIABLES callNow, callFailures, callOpenedAt, callKept, callStage, callAttempt,
          callBegan, callTodo, callVia

callVars == <<callNow, callFailures, callOpenedAt, callKept, callStage, callAttempt,
              callBegan, callTodo, callVia>>

Calling == INSTANCE Outbound WITH
    Call <- Call, Trusting <- Trusting, Idempotent <- Idempotent, Address <- Address,
    Private <- Private, Retries <- CallRetries, Threshold <- Threshold, Reset <- Reset,
    MaxTime <- CallTime, None <- Null, now <- callNow, failures <- callFailures,
    openedAt <- callOpenedAt, kept <- callKept, stage <- callStage,
    attempt <- callAttempt, began <- callBegan, todo <- callTodo, via <- callVia

ASSUME CallingIsLegal == Calling!ConstantsAreLegal

-----------------------------------------------------------------------------
(* Events: one channel, of one process or over Redis. *)

VARIABLES hubConn, hubMembers, hubQueue, hubHand, hubSent, hubMissed, hubOffered,
          hubEvents, hubListener, hubWire, hubOutages

hubVars == <<hubConn, hubMembers, hubQueue, hubHand, hubSent, hubMissed, hubOffered,
             hubEvents, hubListener, hubWire, hubOutages>>

Hub == INSTANCE Events WITH
    Client <- Subscriber, Sse <- Sse, Shared <- SharedHubs, QueueSize <- QueueSize,
    MaxMembers <- MaxMembers, MaxEvents <- MaxEvents, MaxOutages <- MaxOutages,
    None <- Null, conn <- hubConn, members <- hubMembers, queue <- hubQueue,
    hand <- hubHand, sent <- hubSent, missed <- hubMissed, offered <- hubOffered,
    events <- hubEvents, listener <- hubListener, wire <- hubWire,
    outages <- hubOutages

ASSUME HubIsLegal == Hub!ConstantsAreLegal

-----------------------------------------------------------------------------
(* Audit: the queue and the writer of audit events. *)

VARIABLES auditQueue, auditBatch, auditWriter, auditAttempt, auditUnfinished,
          auditSubmitted, auditStored, auditDropped, auditClosing

auditVars == <<auditQueue, auditBatch, auditWriter, auditAttempt, auditUnfinished,
               auditSubmitted, auditStored, auditDropped, auditClosing>>

Trail == INSTANCE Audit WITH
    Event <- AuditEvent, MaxQueue <- MaxQueue, BatchSize <- BatchSize,
    Retries <- WriteRetries, queue <- auditQueue, batch <- auditBatch,
    writer <- auditWriter, attempt <- auditAttempt, unfinished <- auditUnfinished,
    submitted <- auditSubmitted, stored <- auditStored, dropped <- auditDropped,
    closing <- auditClosing

ASSUME TrailIsLegal == Trail!ConstantsAreLegal

-----------------------------------------------------------------------------
(* The properties of the components; each is stated and explained in its module. *)

\* An eviction from the table of buckets gives nobody a token.
EvictionGivesNothing == Limiter!EvictionGivesNothing

\* Of a host that keeps failing no more calls are made while the circuit is open.
CircuitProtects == Calling!CircuitProtects

\* No request of a source that may not reach private networks is sent into one.
PublicCallsStayPublic == Calling!PublicCallsStayPublic

\* Every event fanned out to a client was sent to it, waits for it or is counted.
DropsAreCounted == Hub!DropsAreCounted

\* An audit event is queued, stored or counted as dropped.
NoSilentLoss == Trail!NoSilentLoss

=============================================================================
