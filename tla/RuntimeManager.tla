--------------------------- MODULE RuntimeManager ---------------------------
(***************************************************************************)
(* framework/runtime.py: the runtimes of the projects of one configuration *)
(* generation, and how a later generation borrows the runtimes of the      *)
(* projects it leaves unchanged.                                           *)
(*                                                                         *)
(* A ProjectRuntime is created by the RuntimeManager of one generation h   *)
(* for one application a, so <<h, a>> identifies the object; another       *)
(* generation g that borrows it has runtimeOf[g][a] = h.  Everything the   *)
(* object owns (SQL and Mongo registries, cache, limiter, data sources,    *)
(* event hub) is opened and closed together, so its services are one       *)
(* status.  The configuration of a project is a Version; the slug under    *)
(* which the managers look a project up is unique in a configuration, so   *)
(* it is represented by the application itself.                            *)
(***************************************************************************)
EXTENDS Naturals, FiniteSets

CONSTANTS
    Gen,       \* generations: every create_app call makes one
    App,       \* application directories
    Version,   \* contents of an application that parse
    None       \* no project, no generation

ASSUME NoneIsNothing == None \notin Gen \cup App \cup Version
ASSUME GenIsFinite   == IsFiniteSet(Gen)

VARIABLES
    config,      \* config[g][a]: the version of a in generation g
    runtimeOf,   \* runtimeOf[g][a]: the generation whose runtime g uses for a
    status,      \* status[h][a]: state of the runtime <<h, a>>
    leases,      \* leases[h][a]: its lease count
    leasedBy,    \* leasedBy[g]: applications whose runtime g has leased
    toStart,     \* toStart[g]: applications start() has not handled yet
    toClose,     \* toClose[g]: applications close() has not handled yet
    disposing    \* disposing[g]: whose services close() is disposing of

rmVars == <<config, runtimeOf, status, leases, leasedBy, toStart, toClose, disposing>>

Status == {"new", "opening", "open", "closing", "closed", "failed"}
Config == [App -> Version \cup {None}]
Apps(c) == {a \in App : c[a] # None}

Available(g, a) == runtimeOf[g][a] # None /\ status[runtimeOf[g][a]][a] = "open"
Borrowed(g, a) == runtimeOf[g][a] # g

RMTypeOK ==
    /\ config \in [Gen -> Config]
    /\ runtimeOf \in [Gen -> [App -> Gen \cup {None}]]
    /\ status \in [Gen -> [App -> Status]]
    /\ leases \in [Gen -> [App -> Nat]]
    /\ leasedBy \in [Gen -> SUBSET App]
    /\ toStart \in [Gen -> SUBSET App]
    /\ toClose \in [Gen -> SUBSET App]
    /\ disposing \in [Gen -> App \cup {None}]

(***************************************************************************)
(* Construction: a runtime of generation h is reused when it is available  *)
(* and its configuration is unchanged.  An application in "bad" fails its  *)
(* diagnostics or its route registration and gets a fresh runtime that     *)
(* carries the error instead.                                              *)
(***************************************************************************)
Reusable(h, c, a, bad) ==
    /\ h # None
    /\ a \notin bad
    /\ config[h][a] = c[a]
    /\ Available(h, a)

Construct(g, c, h, bad) ==
    /\ config' = [config EXCEPT ![g] = c]
    /\ runtimeOf' = [runtimeOf EXCEPT ![g] =
            [a \in App |-> IF a \notin Apps(c) THEN None
                           ELSE IF Reusable(h, c, a, bad) THEN runtimeOf[h][a] ELSE g]]
    /\ status' = [status EXCEPT ![g] = [a \in App |-> IF a \in bad THEN "failed" ELSE "new"]]
    /\ toStart' = [toStart EXCEPT ![g] = Apps(c) \ bad]
    /\ toClose' = [toClose EXCEPT ![g] = Apps(c)]
    /\ UNCHANGED <<leases, leasedBy, disposing>>

(***************************************************************************)
(* start() handles the projects one after the other.                       *)
(***************************************************************************)
Take(g, a) ==
    /\ leases' = [leases EXCEPT ![runtimeOf[g][a]][a] = @ + 1]
    /\ leasedBy' = [leasedBy EXCEPT ![g] = @ \cup {a}]
    /\ toStart' = [toStart EXCEPT ![g] = @ \ {a}]
    /\ UNCHANGED <<config, runtimeOf, toClose, disposing>>

Opening(g) == \E a \in toStart[g] : status[runtimeOf[g][a]][a] = "opening"

\* The runtime already runs: only the lease is taken.
LeaseRunning(g, a) ==
    /\ a \in toStart[g]
    /\ ~Opening(g)
    /\ Available(g, a)
    /\ Take(g, a)
    /\ UNCHANGED status

\* _start_runtime awaits the registries and builds the services.
BeginOpen(g, a) ==
    /\ a \in toStart[g]
    /\ ~Opening(g)
    /\ ~Available(g, a)
    /\ status' = [status EXCEPT ![runtimeOf[g][a]][a] = "opening"]
    /\ UNCHANGED <<config, runtimeOf, leases, leasedBy, toStart, toClose, disposing>>

FinishOpen(g, a) ==
    /\ a \in toStart[g]
    /\ status[runtimeOf[g][a]][a] = "opening"
    /\ status' = [status EXCEPT ![runtimeOf[g][a]][a] = "open"]
    /\ Take(g, a)

\* A failing startup is isolated to its project.
FailOpen(g, a) ==
    /\ a \in toStart[g]
    /\ status[runtimeOf[g][a]][a] = "opening"
    /\ status' = [status EXCEPT ![runtimeOf[g][a]][a] = "failed"]
    /\ toStart' = [toStart EXCEPT ![g] = @ \ {a}]
    /\ UNCHANGED <<config, runtimeOf, leases, leasedBy, toClose, disposing>>

StartStep(g) ==
    \E a \in App : LeaseRunning(g, a) \/ BeginOpen(g, a) \/ FinishOpen(g, a) \/ FailOpen(g, a)

(***************************************************************************)
(* close() gives back each lease; the last one closes the runtime.  The    *)
(* services of one runtime are awaited before the next project.            *)
(***************************************************************************)
Close(g, a) ==
    /\ status' = [status EXCEPT ![runtimeOf[g][a]][a] = "closing"]
    /\ disposing' = [disposing EXCEPT ![g] = a]
    /\ UNCHANGED toClose

Skip(g, a) ==
    /\ toClose' = [toClose EXCEPT ![g] = @ \ {a}]
    /\ UNCHANGED <<status, disposing>>

\* Faulty: a borrower forgets its lease without giving it back.
ReleaseOwnLease(g, a) ==
    /\ disposing[g] = None
    /\ a \in toClose[g] \cap leasedBy[g]
    /\ leasedBy' = [leasedBy EXCEPT ![g] = @ \ {a}]
    /\ IF Borrowed(g, a) THEN Skip(g, a) /\ UNCHANGED leases
       ELSE /\ leases' = [leases EXCEPT ![g][a] = @ - 1]
            /\ IF leases[g][a] > 1 THEN Skip(g, a) ELSE Close(g, a)
    /\ UNCHANGED <<config, runtimeOf, toStart>>

ReleaseLease(g, a) ==
    /\ disposing[g] = None
    /\ a \in toClose[g] \cap leasedBy[g]
    /\ leasedBy' = [leasedBy EXCEPT ![g] = @ \ {a}]
    /\ leases' = [leases EXCEPT ![runtimeOf[g][a]][a] = @ - 1]
    /\ IF leases[runtimeOf[g][a]][a] > 1 THEN Skip(g, a) ELSE Close(g, a)
    /\ UNCHANGED <<config, runtimeOf, toStart>>

\* Faulty: whatever was not leased is left alone.
SkipUnleased(g, a) ==
    /\ disposing[g] = None
    /\ a \in toClose[g] \ leasedBy[g]
    /\ Skip(g, a)
    /\ UNCHANGED <<config, runtimeOf, leases, leasedBy, toStart>>

\* Never leased: a borrowed runtime is left alone, a half-opened one of its
\* own is closed, and one that was never opened has nothing to close.
ReleaseUnleased(g, a) ==
    /\ disposing[g] = None
    /\ a \in toClose[g] \ leasedBy[g]
    /\ IF ~Borrowed(g, a) /\ status[g][a] = "opening" THEN Close(g, a) ELSE Skip(g, a)
    /\ UNCHANGED <<config, runtimeOf, leases, leasedBy, toStart>>

Dispose(g) ==
    LET a == disposing[g] IN
    /\ a # None
    /\ status' = [status EXCEPT ![runtimeOf[g][a]][a] = "closed"]
    /\ disposing' = [disposing EXCEPT ![g] = None]
    /\ toClose' = [toClose EXCEPT ![g] = @ \ {a}]
    /\ UNCHANGED <<config, runtimeOf, leases, leasedBy, toStart>>

CloseStep(g) ==
    \/ \E a \in App : ReleaseLease(g, a) \/ ReleaseUnleased(g, a)
    \/ Dispose(g)

=============================================================================
