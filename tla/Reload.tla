------------------------------- MODULE Reload -------------------------------
(***************************************************************************)
(* framework/reload.py: ReloadingForge.  A watcher notices that the files  *)
(* of an application changed, builds and starts a candidate generation     *)
(* from them, and switches the listener to it in one assignment, while     *)
(* the requests of the previous generations go on with the routes and the  *)
(* runtimes they started with.                                             *)
(*                                                                         *)
(* Every await of reload_now is a value of "rl"; between two of them the   *)
(* event loop runs requests, retired generations close, and another        *)
(* process edits files.  Abstracted: a signature is the number of edits so *)
(* far (the scan reads times that never repeat); the debounce window only  *)
(* delays a reload; the order in which the retired list is pruned.  A      *)
(* generation that fails to start at boot never serves and is left out.    *)
(***************************************************************************)
EXTENDS RuntimeManager

CONSTANTS
    Route,       \* slugs and API prefixes
    Claims,      \* Claims[v]: the route a project with content v claims
    Malformed,   \* content that does not parse
    Request,     \* request slots
    Contents,    \* what an edit may leave in the directories
    MaxEdits     \* bound on the number of edits

Files == [App -> Version \cup {None, Malformed}]

ASSUME GenIsNotEmpty == Gen # {}
ASSUME ContentsAreFiles == Contents \subseteq Files
ASSUME ClaimsRoutes == Claims \in [Version -> Route]
ASSUME MalformedIsNoVersion == Malformed \notin Version \cup {None}
ASSUME MaxEditsIsNat == MaxEdits \in Nat

VARIABLES
    files,       \* files[a]: what the directory of a holds
    stamp,       \* configuration_signature of the files
    rl,          \* where the reloading coroutine awaits
    sig,         \* signature read by the reload in progress
    cand,        \* candidate generation
    second,      \* the candidate is the second one of this reload
    why,         \* why the candidate is being discarded
    broken,      \* applications the first candidate failed to start
    observed,    \* signature last applied or rejected
    rejected,    \* last_error is set
    current,     \* generation new requests get
    generation,  \* number of switches
    retired,     \* generations in the _retired list
    todo,        \* retired generations reload_now has not examined yet
    issues,      \* issues[g]: applications g retains from its predecessor
    phase,       \* phase[g]: life of a generation
    serving,     \* serving[q]: generation that runs request q
    halt         \* progress of the shutdown

fileVars == <<files, stamp>>
locals == <<sig, cand, second, why, broken, todo>>
liveVars == <<observed, rejected, current, generation, retired, issues>>
vars == <<rmVars, fileVars, rl, locals, liveVars, phase, serving, halt>>

Idle(g) == \A q \in Request : serving[q] # g

(***************************************************************************)
(* load_config_resilient: applications that do not parse, and all the      *)
(* applications that claim one route, are reported instead of loaded.      *)
(***************************************************************************)
Clash(c, a) == \E b \in Apps(c) \ {a} : Claims[c[a]] = Claims[c[b]]
Conflicting(c) == \E a \in Apps(c) : Clash(c, a)

Parsed == [a \in App |-> IF files[a] \in Version THEN files[a] ELSE None]
Quarantined == {a \in Apps(Parsed) : Clash(Parsed, a)}
LoadIssues == Quarantined \cup {a \in App : files[a] = Malformed}
LoadConfig == [a \in App |-> IF a \in Quarantined THEN None ELSE Parsed[a]]

\* Faulty: only quarantined applications are retained, not malformed ones.
RetainQuarantined(c, names) ==
    [a \in App |-> IF a \in names /\ files[a] # Malformed THEN config[current][a] ELSE c[a]]

\* The projects named in "names" keep the content of the current generation.
Retain(c, names) == [a \in App |-> IF a \in names THEN config[current][a] ELSE c[a]]

FailedExisting(g) ==
    {a \in Apps(config[g]) : ~Available(g, a) /\ Available(current, a)}

-----------------------------------------------------------------------------
(* The files, edited by people and by the control plane. *)

Edit(content) ==
    /\ stamp < MaxEdits
    /\ halt = "no"
    /\ files' = content
    /\ stamp' = stamp + 1
    /\ UNCHANGED <<rmVars, rl, locals, liveVars, phase, serving, halt>>

-----------------------------------------------------------------------------
(* The constructor loads the files, then reads their signature; start()    *)
(* opens the runtimes before the listener accepts a request.               *)

BootSign ==
    /\ rl = "boot"
    /\ observed' = stamp
    /\ rl' = "booting"
    /\ UNCHANGED <<rmVars, fileVars, locals, rejected, current, generation, retired,
                   issues, phase, serving, halt>>

BootStart ==
    /\ rl = "booting"
    /\ IF toStart[current] # {}
       THEN StartStep(current) /\ UNCHANGED rl
       ELSE rl' = "idle" /\ UNCHANGED rmVars
    /\ UNCHANGED <<fileVars, locals, liveVars, phase, serving, halt>>

-----------------------------------------------------------------------------
(* reload_now, await by await. *)

\* The coroutine goes to its next await, or returns and its locals with it.
Await(where) == rl' = where /\ UNCHANGED locals
Return(where) ==
    /\ rl' = where
    /\ sig' = 0 /\ cand' = None /\ second' = FALSE
    /\ why' = "none" /\ broken' = {} /\ todo' = {}

\* The watcher, or an operator, calls reload_now: it walks the retired list.
Call ==
    /\ rl = "idle"
    /\ rl' = "prune"
    /\ todo' = retired
    /\ UNCHANGED <<rmVars, fileVars, sig, cand, second, why, broken,
                   liveVars, phase, serving, halt>>

\* A closed generation is dropped, one that still serves is kept, and the
\* close of one that became idle is awaited: nothing happens until it ends.
Prune(g) ==
    /\ rl = "prune"
    /\ g \in todo
    /\ todo' = todo \ {g}
    /\ \/ phase[g] = "closed" /\ retired' = retired \ {g}
       \/ phase[g] # "closed" /\ ~Idle(g) /\ UNCHANGED retired
    /\ UNCHANGED <<rmVars, fileVars, rl, sig, cand, second, why, broken, observed,
                   rejected, current, generation, issues, phase, serving, halt>>

Pruned ==
    /\ rl = "prune"
    /\ todo = {}
    /\ Await(IF Cardinality(retired) >= 2 THEN "idle" ELSE "scan")
    /\ UNCHANGED <<rmVars, fileVars, liveVars, phase, serving, halt>>

Scan ==
    /\ rl = "scan"
    /\ IF stamp = observed
       THEN rl' = "idle" /\ UNCHANGED sig
       ELSE rl' = "load" /\ sig' = stamp
    /\ UNCHANGED <<rmVars, fileVars, cand, second, why, broken, todo,
                   liveVars, phase, serving, halt>>

\* The directory cannot be read: the edit stays unobserved.
ScanFails ==
    /\ rl = "scan"
    /\ Await("idle")
    /\ rejected' = TRUE
    /\ UNCHANGED <<rmVars, fileVars, observed, current, generation, retired,
                   issues, phase, serving, halt>>

\* Faulty: the rejected signature is not recorded.
RejectForgets ==
    /\ Return("idle")
    /\ rejected' = TRUE
    /\ UNCHANGED observed

\* The except branch: report, and wait for another file change.
Reject ==
    /\ Return("idle")
    /\ rejected' = TRUE
    /\ observed' = sig

EndLife(g) == phase' = [phase EXCEPT ![g] = "closed"]

\* Generations are fresh objects; which name one gets does not matter.
Fresh == CHOOSE g \in Gen : phase[g] = "unused"

\* Faulty: the ownership of routes is not checked.
BuildUnchecked(c, names, life) ==
    /\ \E g \in Gen : phase[g] = "unused"
    /\ \E bad \in SUBSET Apps(c) : Construct(Fresh, c, current, bad)
    /\ phase' = [life EXCEPT ![Fresh] = "alive"]
    /\ issues' = [issues EXCEPT ![Fresh] = names]
    /\ cand' = Fresh
    /\ rl' = "start"
    /\ UNCHANGED <<sig, why, broken, todo, observed, rejected>>

\* _build makes a candidate out of config c, borrowing from the current
\* generation; it raises when c breaks the ownership of the routes, and
\* create_app may raise for reasons of its own.
Build(c, names, life) ==
    \/ Reject /\ phase' = life /\ UNCHANGED <<rmVars, issues>>
    \/ /\ ~Conflicting(c)
       /\ \E g \in Gen : phase[g] = "unused"
       /\ \E bad \in SUBSET Apps(c) : Construct(Fresh, c, current, bad)
       /\ phase' = [life EXCEPT ![Fresh] = "alive"]
       /\ issues' = [issues EXCEPT ![Fresh] = names]
       /\ cand' = Fresh
       /\ rl' = "start"
       /\ UNCHANGED <<sig, why, broken, todo, observed, rejected>>

Load ==
    /\ rl = "load"
    /\ Build(Retain(LoadConfig, LoadIssues), LoadIssues, phase)
    /\ UNCHANGED <<fileVars, second, current, generation, retired, serving, halt>>

Start ==
    /\ rl = "start"
    /\ StartStep(cand)
    /\ UNCHANGED <<fileVars, rl, locals, liveVars, phase, serving, halt>>

Discard(reason) ==
    /\ rl' = "discard"
    /\ why' = reason
    /\ UNCHANGED <<sig, cand, second, todo>>

\* The lifespan fails before it reaches the runtimes.
StartFails ==
    /\ rl = "start"
    /\ toStart[cand] # {}
    /\ leasedBy[cand] = {}
    /\ ~Opening(cand)
    /\ Discard("error")
    /\ UNCHANGED <<rmVars, fileVars, broken, liveVars, phase, serving, halt>>

Started ==
    /\ rl = "start"
    /\ toStart[cand] = {}
    /\ broken' = FailedExisting(cand)
    /\ IF broken' = {}
       THEN rl' = "confirm" /\ UNCHANGED <<sig, cand, second, why, todo>>
       ELSE Discard(IF second THEN "error" ELSE "retry")
    /\ UNCHANGED <<rmVars, fileVars, liveVars, phase, serving, halt>>

\* Faulty: the signature read last is recorded without a comparison.
SwitchUnconfirmed ==
    /\ rl = "confirm"
    /\ current' = cand
    /\ generation' = generation + 1
    /\ observed' = stamp
    /\ rejected' = FALSE
    /\ retired' = retired \cup {current}
    /\ Return("idle")
    /\ UNCHANGED <<rmVars, fileVars, issues, phase, serving, halt>>

\* The files are the ones that were loaded: switch.  The previous generation
\* closes in a task of its own once its requests have ended.
Switch ==
    /\ rl = "confirm"
    /\ stamp = sig
    /\ current' = cand
    /\ generation' = generation + 1
    /\ observed' = sig
    /\ rejected' = FALSE
    /\ retired' = retired \cup {current}
    /\ Return("idle")
    /\ UNCHANGED <<rmVars, fileVars, issues, phase, serving, halt>>

Unstable ==
    /\ rl = "confirm"
    /\ stamp # sig
    /\ Discard("unstable")
    /\ UNCHANGED <<rmVars, fileVars, broken, liveVars, phase, serving, halt>>

\* The directory cannot be read any more.
ConfirmFails ==
    /\ rl = "confirm"
    /\ Discard("error")
    /\ UNCHANGED <<rmVars, fileVars, broken, liveVars, phase, serving, halt>>

DiscardStep ==
    /\ rl = "discard"
    /\ CloseStep(cand)
    /\ UNCHANGED <<fileVars, rl, locals, liveVars, phase, serving, halt>>

Closed(g) == toClose[g] = {}

\* The applications that failed keep their current content, once.
Retry ==
    /\ rl = "discard" /\ why = "retry"
    /\ Closed(cand)
    /\ Build(Retain(config[cand], broken), issues[cand] \cup broken,
             [phase EXCEPT ![cand] = "closed"])
    /\ second' = (rl' = "start")
    /\ UNCHANGED <<fileVars, current, generation, retired, serving, halt>>

Discarded ==
    /\ rl = "discard" /\ why # "retry"
    /\ Closed(cand)
    /\ EndLife(cand)
    /\ \/ why = "error" /\ Reject
       \/ why = "unstable" /\ Return("idle") /\ UNCHANGED <<observed, rejected>>
       \/ why = "cancel" /\ Return("dead") /\ UNCHANGED <<observed, rejected>>
    /\ UNCHANGED <<rmVars, fileVars, current, generation, retired, issues, serving, halt>>

-----------------------------------------------------------------------------
(* Requests, and the generations they hold. *)

Begin(q) ==
    /\ halt = "no" /\ rl \notin {"boot", "booting"}
    /\ serving[q] = None
    /\ serving' = [serving EXCEPT ![q] = current]
    /\ UNCHANGED <<rmVars, fileVars, rl, locals, liveVars, phase, halt>>

End(q) ==
    /\ serving[q] # None
    /\ serving' = [serving EXCEPT ![q] = None]
    /\ UNCHANGED <<rmVars, fileVars, rl, locals, liveVars, phase, halt>>

\* Faulty: a retired generation is closed without waiting for its requests.
DrainedAtOnce(g) == g \in retired /\ phase[g] = "alive"

Drained(g) == g \in retired /\ phase[g] = "alive" /\ Idle(g)

RetiredStep(g) ==
    /\ Drained(g)
    /\ IF Closed(g) THEN EndLife(g) /\ UNCHANGED rmVars
       ELSE CloseStep(g) /\ UNCHANGED phase
    /\ UNCHANGED <<fileVars, rl, locals, liveVars, serving, halt>>

-----------------------------------------------------------------------------
(* Shutdown cancels the watcher at the await it has reached, then closes   *)
(* the current generation and awaits the retired ones.                     *)

Abandon(g) == phase' = [phase EXCEPT ![g] = "abandoned"]

\* A close is suspended, and can be cancelled, while it disposes of services:
\* of a runtime, or at its end of the generation itself.
Suspended(g) == disposing[g] # None \/ Closed(g)

\* Cancelling a coroutine that awaits the close of a retired generation
\* cancels that close.
CancelPrune ==
    /\ rl = "prune"
    /\ \E g \in todo : Drained(g) /\ Suspended(g) /\ Abandon(g)
    /\ Return("dead")

\* Cancelling it inside candidate.close() leaves that close unfinished: the
\* context is already taken, so closing the candidate again does nothing.
CancelDiscard ==
    /\ rl = "discard"
    /\ Suspended(cand)
    /\ Abandon(cand)
    /\ Return("dead")

CancelCandidate ==
    /\ rl \in {"start", "confirm"}
    /\ Discard("cancel")
    /\ UNCHANGED <<broken, phase>>

\* Faulty: the cancellation is swallowed.
CancelSwallowed ==
    /\ rl \in {"idle", "scan", "load"}
    /\ UNCHANGED <<rl, locals, phase>>

CancelQuiet ==
    /\ rl \in {"idle", "scan", "load"}
    /\ Return("dead")
    /\ UNCHANGED phase

Shutdown ==
    /\ halt = "no"
    /\ halt' = "current"
    /\ CancelPrune \/ CancelDiscard \/ CancelCandidate \/ CancelQuiet
    /\ UNCHANGED <<rmVars, fileVars, liveVars, serving>>

CloseCurrent ==
    /\ halt = "current" /\ rl = "dead"
    /\ Idle(current)
    /\ IF Closed(current)
       THEN EndLife(current) /\ halt' = "retired" /\ UNCHANGED rmVars
       ELSE CloseStep(current) /\ UNCHANGED <<phase, halt>>
    /\ UNCHANGED <<fileVars, rl, locals, liveVars, serving>>

\* Awaiting a close that was cancelled raises in the shutdown itself.
AwaitRetired ==
    /\ halt = "retired"
    /\ \A g \in retired : phase[g] # "alive"
    /\ halt' = IF \E g \in retired : phase[g] = "abandoned" THEN "crashed" ELSE "done"
    /\ UNCHANGED <<rmVars, fileVars, rl, locals, liveVars, phase, serving>>

Halted ==
    /\ halt \in {"done", "crashed"}
    /\ UNCHANGED vars

-----------------------------------------------------------------------------
Boot == CHOOSE g \in Gen : TRUE

Init ==
    /\ files \in [App -> Version]
    /\ current = Boot
    /\ phase = [g \in Gen |-> IF g = Boot THEN "alive" ELSE "unused"]
    /\ config = [g \in Gen |-> IF g = Boot THEN LoadConfig ELSE [a \in App |-> None]]
    /\ runtimeOf = [g \in Gen |-> [a \in App |-> IF config[g][a] = None THEN None ELSE g]]
    /\ issues = [g \in Gen |-> IF g = Boot THEN LoadIssues ELSE {}]
    /\ toStart = [g \in Gen |-> Apps(config[g])]
    /\ toClose = toStart
    /\ status = [h \in Gen |-> [a \in App |-> "new"]]
    /\ leases = [h \in Gen |-> [a \in App |-> 0]]
    /\ leasedBy = [h \in Gen |-> {}]
    /\ disposing = [h \in Gen |-> None]
    /\ stamp = 0 /\ sig = 0 /\ observed = 0 /\ generation = 0
    /\ rl = "boot"
    /\ cand = None /\ second = FALSE /\ why = "none"
    /\ broken = {} /\ todo = {} /\ retired = {}
    /\ rejected = FALSE
    /\ serving = [q \in Request |-> None]
    /\ halt = "no"

ReloadNow ==
    \/ Call \/ (\E g \in Gen : Prune(g)) \/ Pruned \/ Scan \/ ScanFails \/ Load
    \/ Start \/ StartFails \/ Started \/ Switch \/ Unstable \/ ConfirmFails
    \/ DiscardStep \/ Retry \/ Discarded

Next ==
    \/ \E content \in Contents : Edit(content)
    \/ BootSign \/ BootStart
    \/ ReloadNow
    \/ \E q \in Request : Begin(q) \/ End(q)
    \/ \E g \in Gen : RetiredStep(g)
    \/ Shutdown \/ CloseCurrent \/ AwaitRetired
    \/ Halted

Spec == Init /\ [][Next]_vars

-----------------------------------------------------------------------------
(* Invariants. *)

Rl == {"boot", "booting", "idle", "prune", "scan", "load", "start", "discard", "confirm", "dead"}
Why == {"none", "retry", "error", "unstable", "cancel"}
Phase == {"unused", "alive", "closed", "abandoned"}

ReloadTypeOK ==
    /\ files \in Files
    /\ stamp \in Nat /\ sig \in Nat /\ observed \in Nat /\ generation \in Nat
    /\ rl \in Rl
    /\ cand \in Gen \cup {None}
    /\ second \in BOOLEAN /\ rejected \in BOOLEAN
    /\ why \in Why
    /\ broken \in SUBSET App
    /\ current \in Gen
    /\ retired \in SUBSET Gen /\ todo \in SUBSET Gen
    /\ issues \in [Gen -> SUBSET App]
    /\ phase \in [Gen -> Phase]
    /\ serving \in [Request -> Gen \cup {None}]
    /\ halt \in {"no", "current", "retired", "done", "crashed"}

\* Every variable ranges over its type; a lease count never drops below zero.
TypeOK == RMTypeOK /\ ReloadTypeOK

Holders(h, a) == {g \in Gen : runtimeOf[g][a] = h /\ a \in leasedBy[g]}

\* The lease count of a runtime is the number of generations that hold it,
\* and it is available exactly as long as one does (runtime.py: _leases,
\* _leased), whatever mixture of starts, switches, discards and drains led here.
LeasesCountHolders ==
    \A h \in Gen, a \in App :
        /\ leases[h][a] = Cardinality(Holders(h, a))
        /\ (leases[h][a] > 0) <=> (status[h][a] = "open")

\* "Active requests, streams and WebSockets retain their original generation
\* until completion": while a request runs in a generation, every runtime that
\* generation uses is open, unless it never started.  A generation that is
\* retired or a candidate that is thrown away must not close a shared one.
ServedRuntimesOpen ==
    \A q \in Request, a \in App :
        LET g == serving[q] IN
        (g # None /\ runtimeOf[g][a] # None)
            => status[runtimeOf[g][a]][a] = (IF runtimeOf[g][a] = g /\ a \notin leasedBy[g]
                                             THEN "failed" ELSE "open")

\* A runtime the candidate borrowed when it was built is still open when its
\* start() reaches it, although the two are several awaits apart.
BorrowedStillOpen ==
    rl = "start" =>
        \A a \in toStart[cand] : Borrowed(cand, a) => Available(cand, a)

Held(h, a) == status[h][a] \in {"opening", "open", "closing"}
Keeper(g, h, a) == runtimeOf[g][a] = h /\ a \in toClose[g]

\* No runtime is leaked: an open one belongs to a living generation that has
\* yet to close it, or to one whose close was cancelled by the shutdown.
NoOrphanRuntime ==
    \A h \in Gen, a \in App :
        Held(h, a) => \E g \in Gen : Keeper(g, h, a) /\ phase[g] \in {"alive", "abandoned"}

\* "At most two old generations may drain".
DrainingIsBounded ==
    Cardinality({g \in Gen : phase[g] = "alive" /\ g # current /\ g # cand}) <= 2

\* One route never belongs to two applications of a generation that serves.
RoutesHaveOneOwner == ~Conflicting(config[current])

Undetected == rl \in {"idle", "scan", "prune"} /\ observed = stamp

\* No edit is lost: when nothing is left to detect and the last reload was not
\* rejected, each application runs what its directory holds, or is listed as
\* an issue.  Of the generation the process booted with this is not promised:
\* the constructor reads the signature after it has loaded the files.
NoLostEdit ==
    (Undetected /\ ~rejected /\ generation > 0) =>
        \A a \in App \ issues[current] : config[current][a] = Parsed[a]

-----------------------------------------------------------------------------
(* Action properties. *)

Up(g, a) == config[g][a] # None /\ Available(g, a)

\* "Malformed edits and runtime startup failures retain the affected app": a
\* switch takes a running application down only if its directory is gone.
SwitchKeepsAppsUp ==
    [][current' # current =>
        \A a \in App : Up(current, a) /\ files[a] # None => Up(current, a)']_vars

\* "Parsing errors and route ownership conflicts cannot silently remove or
\* replace an already running application's identity": an application gets the
\* route of another one only when that one has really given it up.
NoIdentityTakeover ==
    [][current' # current =>
        \A a \in App : \A b \in App \ {a} :
            (Up(current, a) /\ config'[current'][b] # None
                /\ Claims[config'[current'][b]] = Claims[config[current][a]])
            => \/ files[a] = None
               \/ files[a] \in Version /\ Claims[files[a]] # Claims[config[current][a]] ]_vars

-----------------------------------------------------------------------------
(* Liveness.  Coroutines of the event loop make progress, requests end, and *)
(* a directory that can be read again and again is eventually read.         *)

Fairness ==
    /\ WF_vars(BootSign \/ BootStart)
    /\ WF_vars(ReloadNow)
    /\ SF_vars(Scan)
    /\ \A q \in Request : WF_vars(End(q))
    /\ \A g \in Gen : WF_vars(RetiredStep(g))
    /\ WF_vars(CloseCurrent \/ AwaitRetired)

FairSpec == Spec /\ Fairness

\* Once the edits stop, every edit is eventually applied or rejected.
EditsSettle == <>[](observed = stamp \/ halt # "no")

\* A generation that was switched away from is eventually closed.
RetiredIsClosed == \A g \in Gen : (g \in retired) ~> (phase[g] \in {"closed", "abandoned"})

\* A shutdown ends.
ShutdownEnds == (halt = "current") ~> (halt \in {"done", "crashed"})

=============================================================================
