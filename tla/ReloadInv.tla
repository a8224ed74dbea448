------------------------------ MODULE ReloadInv ------------------------------
(***************************************************************************)
(* The inductive invariant behind the theorems of ReloadProofs, in parts   *)
(* that TLC checks on the instances.                                       *)
(***************************************************************************)
EXTENDS Reload

Booting == rl \in {"boot", "booting"}
OwnFailed(g, a) == runtimeOf[g][a] = g /\ status[g][a] = "failed"

\* A generation that start() went through: it holds a lease on every runtime
\* it uses, except on its own ones that failed.
Ready(g) ==
    \A a \in App : runtimeOf[g][a] # None => a \in leasedBy[g] \/ OwnFailed(g, a)

\* A runtime start() may still take: its own, unopened, or one the current
\* generation keeps open.
Startable(g, a) ==
    \/ runtimeOf[g][a] = g /\ status[g][a] \in {"new", "opening"}
    \/ a \in leasedBy[current] /\ runtimeOf[g][a] = runtimeOf[current][a]

Starting(g) ==
    /\ \A a \in App : runtimeOf[g][a] # None =>
            a \in toStart[g] \/ a \in leasedBy[g] \/ OwnFailed(g, a)
    /\ \A a \in toStart[g] : Startable(g, a)

ReadyGens == {g \in Gen : Ready(g)}
StartingGens == {g \in Gen : Starting(g)}

(* The runtimes. *)

Disjoint ==
    \A g \in Gen : \A a \in App :
        /\ a \in leasedBy[g] => a \notin toStart[g]
        /\ a \in leasedBy[g] \cup toStart[g] => runtimeOf[g][a] # None

UnusedIsBlank ==
    \A g \in Gen : phase[g] = "unused" =>
        /\ leasedBy[g] = {} /\ toStart[g] = {} /\ disposing[g] = None
        /\ \A h \in Gen, a \in App : runtimeOf[h][a] # g

DisposedIsClosing ==
    \A g \in Gen : disposing[g] # None =>
        /\ runtimeOf[g][disposing[g]] # None
        /\ status[runtimeOf[g][disposing[g]]][disposing[g]] \in {"closing", "closed"}

RuntimeInv == LeasesCountHolders /\ Disjoint /\ UnusedIsBlank /\ DisposedIsClosing

(* The generations. *)

Roles ==
    /\ phase[current] # "unused"
    /\ current \notin retired
    /\ \A g \in retired : phase[g] # "unused"
    /\ \A q \in Request : serving[q] # None => phase[serving[q]] # "unused" /\ serving[q] # cand
    /\ cand # None => cand # current /\ cand \notin retired /\ phase[cand] # "unused"

Control ==
    /\ rl \in {"start", "confirm", "discard"} <=> cand # None
    /\ halt # "no" => rl = "dead" \/ (rl = "discard" /\ why = "cancel")
    /\ Booting => \A q \in Request : serving[q] = None

Progress ==
    /\ Booting => current \in StartingGens
    /\ rl = "start" => cand \in StartingGens
    /\ rl = "confirm" => cand \in ReadyGens
    /\ halt = "no" /\ ~Booting => current \in ReadyGens
    /\ \A q \in Request : serving[q] # None => serving[q] \in ReadyGens

IInv == TypeOK /\ RuntimeInv /\ Roles /\ Control /\ Progress

(* The bound on the generations that drain. *)

DrainInv ==
    /\ \A g \in Gen : phase[g] = "alive" => g = current \/ g = cand \/ g \in retired
    /\ Cardinality(retired) <= 2
    /\ rl \in {"scan", "load", "start", "confirm", "discard"} => Cardinality(retired) <= 1

(* The routes of the generations that serve or may serve. *)

OneOwnerConfigs == {c \in Config : ~Conflicting(c)}

RoutesInv ==
    /\ config[current] \in OneOwnerConfigs
    /\ cand # None => config[cand] \in OneOwnerConfigs

(* The runtimes that somebody has yet to close. *)

\* A generation start() may still work on: it has closed nothing.
Untouched(g) == toStart[g] \subseteq toClose[g] /\ disposing[g] = None

Kept ==
    /\ \A g \in Gen :
        /\ leasedBy[g] \subseteq toClose[g]
        /\ disposing[g] # None => disposing[g] \in toClose[g] \ leasedBy[g]
    /\ \A h \in Gen, a \in App :
        /\ status[h][a] = "opening" => runtimeOf[h][a] = h /\ a \in toClose[h]
        /\ status[h][a] = "closing" => \E g \in Gen : disposing[g] = a /\ runtimeOf[g][a] = h

KeepInv ==
    /\ Kept
    /\ \A g \in Gen : toClose[g] # {} => phase[g] \in {"alive", "abandoned"}
    /\ Booting => Untouched(current)
    /\ rl = "start" => Untouched(cand)

(* What a generation was built from. *)

\* Outside its issues, generation g has what the directories hold.
Matches(g) == \A a \in App \ issues[g] : config[g][a] = Parsed[a]

EditInv ==
    /\ sig <= stamp /\ observed <= stamp
    /\ Booting => generation = 0
    /\ cand # None => \A a \in issues[cand] : config[cand][a] = config[current][a]
    /\ cand # None /\ sig = stamp => LoadIssues \subseteq issues[cand] /\ Matches(cand)
    /\ generation > 0 /\ observed = stamp /\ ~rejected => Matches(current)

=============================================================================
