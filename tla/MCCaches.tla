------------------------------ MODULE MCCaches ------------------------------
(* The two backends of Cache in one run, one at a time: the memory of one
   worker, which serves stale answers, and two workers with Redis. *)
EXTENDS MCCache

\* The instance that runs: the other one keeps its initial state.
VARIABLE part

VARIABLES tieredDb, tieredGen, tieredAcked, tieredLocal, tieredShared, tieredPc,
          tieredKey, tieredStage, tieredGot, tieredVal, tieredLockOf,
          tieredRegistry, tieredRefreshing, tieredFloor, tieredWpc, tieredWnum

tieredVars == <<tieredDb, tieredGen, tieredAcked, tieredLocal, tieredShared, tieredPc,
             tieredKey, tieredStage, tieredGot, tieredVal, tieredLockOf,
             tieredRegistry, tieredRefreshing, tieredFloor, tieredWpc, tieredWnum>>

Tiered == INSTANCE Cache WITH
    Backend <- "tiered", Worker <- {w1, w2}, Redis <- Redis, Request <- Request,
    Writer <- Writer, Host <- TwoHosts, StaleServed <- FALSE, FailOpen <- TRUE,
    MaxWrites <- 1, None <- None, db <- tieredDb, gen <- tieredGen,
    acked <- tieredAcked, local <- tieredLocal, shared <- tieredShared,
    pc <- tieredPc, key <- tieredKey, stage <- tieredStage, got <- tieredGot,
    val <- tieredVal, lockOf <- tieredLockOf, registry <- tieredRegistry,
    refreshing <- tieredRefreshing, floor <- tieredFloor, wpc <- tieredWpc,
    wnum <- tieredWnum

CachesInit ==
    /\ part \in {"memory", "tiered"}
    /\ Init /\ Tiered!Init

CachesNext ==
    /\ UNCHANGED part
    /\ IF part = "memory" THEN Next ELSE UNCHANGED vars
    /\ IF part = "tiered" THEN Tiered!Next ELSE UNCHANGED tieredVars

CachesSpec == CachesInit /\ [][CachesNext]_<<part, vars, tieredVars>>

-----------------------------------------------------------------------------
\* Two workers in front of one Redis are as fresh as FreshReads promises,
\* whatever call of Redis fails; stated and explained in Cache.
TieredImplementsFreshReads == Tiered!ImplementsFreshReads

=============================================================================
