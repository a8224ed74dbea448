---------------------------- MODULE ReloadProofs ----------------------------
(***************************************************************************)
(* Theorems about Reload for every set of applications, of versions, of    *)
(* requests, every finite set of generations and every number of edits.    *)
(***************************************************************************)
EXTENDS ReloadInv, TLAPS, FiniteSetTheorems

USE NoneIsNothing

-----------------------------------------------------------------------------
(* Lease counts.  Only the counts of the runtime that is taken or given    *)
(* back change, together with its set of holders.                          *)

LEMMA HoldersAreFinite ==
    ASSUME NEW h, NEW a
    PROVE  IsFiniteSet(Holders(h, a)) /\ Cardinality(Holders(h, a)) \in Nat
<1>1. Holders(h, a) \subseteq Gen
  BY DEF Holders
<1> QED
  BY <1>1, GenIsFinite, FS_Subset, FS_CardinalityType

LEMMA HolderCounts ==
    ASSUME NEW h, NEW a, NEW g \in Holders(h, a)
    PROVE  Cardinality(Holders(h, a)) > 0
<1>1. Holders(h, a) # {}
  OBVIOUS
<1> QED
  BY <1>1, HoldersAreFinite, FS_EmptySet

LEMMA TakeCounts ==
    ASSUME RMTypeOK, NEW g \in Gen, NEW a \in App,
           a \notin leasedBy[g], runtimeOf[g][a] \in Gen, Take(g, a),
           NEW h \in Gen, NEW b \in App, leases[h][b] = Cardinality(Holders(h, b))
    PROVE  leases'[h][b] = Cardinality(Holders(h, b)')
<1> DEFINE x == runtimeOf[g][a]
<1>1. CASE h = x /\ b = a
  <2>1. Holders(h, b)' = Holders(h, b) \cup {g} /\ g \notin Holders(h, b)
    BY <1>1 DEF Holders, Take, RMTypeOK
  <2>2. leases'[h][b] = leases[h][b] + 1
    BY <1>1 DEF Take, RMTypeOK
  <2> QED
    BY <2>1, <2>2, HoldersAreFinite, FS_AddElement
<1>2. CASE ~(h = x /\ b = a)
  <2>1. Holders(h, b)' = Holders(h, b)
    BY <1>2 DEF Holders, Take, RMTypeOK
  <2>2. leases'[h][b] = leases[h][b]
    BY <1>2 DEF Take, RMTypeOK
  <2> QED
    BY <2>1, <2>2
<1> QED
  BY <1>1, <1>2

LEMMA ReleaseCounts ==
    ASSUME RMTypeOK, NEW g \in Gen, NEW a \in App,
           runtimeOf[g][a] \in Gen, ReleaseLease(g, a),
           NEW h \in Gen, NEW b \in App, leases[h][b] = Cardinality(Holders(h, b))
    PROVE  leases'[h][b] = Cardinality(Holders(h, b)')
<1> DEFINE x == runtimeOf[g][a]
<1>1. CASE h = x /\ b = a
  <2>1. Holders(h, b)' = Holders(h, b) \ {g} /\ g \in Holders(h, b)
    BY <1>1 DEF Holders, ReleaseLease, RMTypeOK
  <2>2. leases'[h][b] = leases[h][b] - 1
    BY <1>1 DEF ReleaseLease, RMTypeOK
  <2>3. IsFiniteSet(Holders(h, b))
    BY HoldersAreFinite
  <2>4. Cardinality(Holders(h, b) \ {g}) = Cardinality(Holders(h, b)) - 1
    BY <2>1, <2>3, FS_RemoveElement
  <2> QED
    BY <2>1, <2>2, <2>4
<1>2. CASE ~(h = x /\ b = a)
  <2>1. Holders(h, b)' = Holders(h, b)
    BY <1>2 DEF Holders, ReleaseLease, RMTypeOK
  <2>2. leases'[h][b] = leases[h][b]
    BY <1>2 DEF ReleaseLease, RMTypeOK
  <2> QED
    BY <2>1, <2>2
<1> QED
  BY <1>1, <1>2
\* A leased runtime is open, and one that is not open has no lease.
LEMMA HeldIsOpen ==
    ASSUME RMTypeOK, LeasesCountHolders, NEW g \in Gen, NEW a \in leasedBy[g],
           runtimeOf[g][a] \in Gen
    PROVE  status[runtimeOf[g][a]][a] = "open" /\ leases[runtimeOf[g][a]][a] > 0
<1> DEFINE x == runtimeOf[g][a]
<1>1. g \in Holders(x, a) /\ a \in App
  BY DEF Holders, RMTypeOK
<1>2. leases[x][a] > 0
  BY <1>1, HolderCounts DEF LeasesCountHolders
<1> QED
  BY <1>1, <1>2 DEF LeasesCountHolders

\* A step that opens and closes nothing, and leaves the leases alone.
LEMMA LeasesUnchanged ==
    ASSUME LeasesCountHolders, UNCHANGED <<runtimeOf, leases, leasedBy>>,
           \A h \in Gen, b \in App : (status'[h][b] = "open") <=> (status[h][b] = "open")
    PROVE  LeasesCountHolders'
<1>1. \A h \in Gen, b \in App : Holders(h, b)' = Holders(h, b)
  BY DEF Holders
<1> QED
  BY <1>1 DEF LeasesCountHolders

\* A step that touches no runtime that is being disposed of.
LEMMA DisposalUnchanged ==
    ASSUME RMTypeOK, DisposedIsClosing, UNCHANGED <<runtimeOf, disposing>>,
           \A h \in Gen, b \in App :
                status[h][b] \in {"closing", "closed"} => status'[h][b] = status[h][b]
    PROVE  DisposedIsClosing'
<1> SUFFICES ASSUME NEW g \in Gen, disposing[g] # None
             PROVE  /\ runtimeOf[g][disposing[g]] # None
                    /\ status'[runtimeOf[g][disposing[g]]][disposing[g]] \in {"closing", "closed"}
  BY DEF DisposedIsClosing
<1>1. disposing[g] \in App /\ runtimeOf[g][disposing[g]] \in Gen
  BY DEF RMTypeOK, DisposedIsClosing
<1> QED
  BY <1>1 DEF DisposedIsClosing

-----------------------------------------------------------------------------
(* A step of start(): the generation stays startable, nothing it borrows   *)
(* is touched and no other generation loses a runtime.                     *)

StartFrame(g) ==
    /\ RMTypeOK' /\ RuntimeInv' /\ Starting(g)'
    /\ \A h \in Gen : Ready(h) => Ready(h)'

LEMMA LeaseRunningSafe ==
    ASSUME RMTypeOK, RuntimeInv, NEW g \in Gen, phase[g] # "unused", current \in Gen, Starting(g),
           NEW a \in App, LeaseRunning(g, a), UNCHANGED <<phase, current>>
    PROVE  StartFrame(g)
<1> DEFINE x == runtimeOf[g][a]
<1>1. x \in Gen /\ a \notin leasedBy[g]
  BY DEF RuntimeInv, Disjoint, RMTypeOK, LeaseRunning
<1>2. Take(g, a) /\ UNCHANGED status /\ status[x][a] = "open"
  BY DEF LeaseRunning, Available
<1>3. RMTypeOK'
  BY <1>1, <1>2 DEF RMTypeOK, Take
<1>4. LeasesCountHolders'
  <2> SUFFICES ASSUME NEW h \in Gen, NEW b \in App
               PROVE  /\ leases'[h][b] = Cardinality(Holders(h, b)')
                      /\ (leases'[h][b] > 0) <=> (status'[h][b] = "open")
    BY DEF LeasesCountHolders, Holders
  <2>1. leases'[h][b] = Cardinality(Holders(h, b)')
    BY <1>1, <1>2, TakeCounts DEF RuntimeInv, LeasesCountHolders
  <2>2. leases'[h][b] = IF h = x /\ b = a THEN leases[h][b] + 1 ELSE leases[h][b]
    BY <1>1, <1>2 DEF Take, RMTypeOK
  <2> QED
    BY <1>2, <2>1, <2>2 DEF RMTypeOK, RuntimeInv, LeasesCountHolders
<1>5. Disjoint' /\ UnusedIsBlank' /\ DisposedIsClosing'
  BY <1>1, <1>2 DEF RuntimeInv, Disjoint, UnusedIsBlank, DisposedIsClosing, Take, RMTypeOK
<1>6. Starting(g)'
  BY <1>1, <1>2 DEF Starting, Startable, OwnFailed, Take, RMTypeOK
<1>7. \A h \in Gen : Ready(h) => Ready(h)'
  BY <1>1, <1>2 DEF Ready, OwnFailed, Take, RMTypeOK
<1> QED
  BY <1>3, <1>4, <1>5, <1>6, <1>7 DEF StartFrame, RuntimeInv

\* What start() opens is a runtime of its own that nobody has leased yet.
LEMMA OpensOnlyItsOwn ==
    ASSUME RMTypeOK, RuntimeInv, NEW g \in Gen, current \in Gen, Starting(g),
           NEW a \in toStart[g], status[runtimeOf[g][a]][a] # "open"
    PROVE  /\ runtimeOf[g][a] = g /\ a \in App /\ a \notin leasedBy[g]
           /\ status[g][a] \in {"new", "opening"} /\ leases[g][a] = 0
<1>1. a \in App /\ a \notin leasedBy[g] /\ runtimeOf[g][a] \in Gen
  BY DEF RMTypeOK, RuntimeInv, Disjoint
<1>2. ~(a \in leasedBy[current] /\ runtimeOf[g][a] = runtimeOf[current][a])
  BY <1>1, HeldIsOpen DEF RuntimeInv
<1>3. runtimeOf[g][a] = g /\ status[g][a] \in {"new", "opening"}
  BY <1>2 DEF Starting, Startable
<1> QED
  BY <1>1, <1>3 DEF RuntimeInv, LeasesCountHolders, RMTypeOK

LEMMA BeginOpenSafe ==
    ASSUME RMTypeOK, RuntimeInv, NEW g \in Gen, phase[g] # "unused", current \in Gen, Starting(g),
           NEW a \in App, BeginOpen(g, a), UNCHANGED <<phase, current>>
    PROVE  StartFrame(g)
<1>1. a \in toStart[g] /\ status[runtimeOf[g][a]][a] # "open"
  BY DEF BeginOpen, Available, RuntimeInv, Disjoint
<1>2. /\ runtimeOf[g][a] = g /\ a \notin leasedBy[g]
      /\ status[g][a] \in {"new", "opening"} /\ leases[g][a] = 0
  BY <1>1, OpensOnlyItsOwn
<1>3. \A h \in Gen, b \in App :
        status'[h][b] = IF h = g /\ b = a THEN "opening" ELSE status[h][b]
  BY <1>2 DEF BeginOpen, RMTypeOK
<1>4. UNCHANGED <<config, runtimeOf, leases, leasedBy, toStart, toClose, disposing>>
  BY DEF BeginOpen
<1>5. RMTypeOK'
  BY <1>2, <1>4 DEF RMTypeOK, BeginOpen, Status
<1>6. LeasesCountHolders'
  BY <1>2, <1>3, <1>4, LeasesUnchanged DEF RuntimeInv
<1>7. Disjoint' /\ UnusedIsBlank'
  BY <1>4 DEF RuntimeInv, Disjoint, UnusedIsBlank
<1>8. DisposedIsClosing'
  BY <1>2, <1>3, <1>4, DisposalUnchanged DEF RuntimeInv
<1>9. Starting(g)'
  BY <1>2, <1>3, <1>4 DEF Starting, Startable, OwnFailed, RMTypeOK
<1>10. \A h \in Gen : Ready(h) => Ready(h)'
  BY <1>2, <1>3, <1>4 DEF Ready, OwnFailed, RMTypeOK
<1> QED
  BY <1>5, <1>6, <1>7, <1>8, <1>9, <1>10 DEF StartFrame, RuntimeInv

LEMMA FinishOpenSafe ==
    ASSUME RMTypeOK, RuntimeInv, NEW g \in Gen, phase[g] # "unused", current \in Gen, Starting(g),
           NEW a \in App, FinishOpen(g, a), UNCHANGED <<phase, current>>
    PROVE  StartFrame(g)
<1>1. a \in toStart[g] /\ status[runtimeOf[g][a]][a] = "opening" /\ Take(g, a)
  BY DEF FinishOpen
<1>2. runtimeOf[g][a] = g /\ a \notin leasedBy[g] /\ leases[g][a] = 0
  BY <1>1, OpensOnlyItsOwn
<1>3. \A h \in Gen, b \in App :
        /\ status'[h][b] = IF h = g /\ b = a THEN "open" ELSE status[h][b]
        /\ leases'[h][b] = IF h = g /\ b = a THEN 1 ELSE leases[h][b]
  BY <1>1, <1>2 DEF FinishOpen, Take, RMTypeOK
<1>4. RMTypeOK'
  BY <1>1, <1>2 DEF RMTypeOK, FinishOpen, Take, Status
<1>5. LeasesCountHolders'
  <2> SUFFICES ASSUME NEW h \in Gen, NEW b \in App
               PROVE  /\ leases'[h][b] = Cardinality(Holders(h, b)')
                      /\ (leases'[h][b] > 0) <=> (status'[h][b] = "open")
    BY DEF LeasesCountHolders, Holders
  <2>1. leases'[h][b] = Cardinality(Holders(h, b)')
    BY <1>1, <1>2, TakeCounts DEF RuntimeInv, LeasesCountHolders
  <2> QED
    BY <1>3, <2>1 DEF RuntimeInv, LeasesCountHolders
<1>6. Disjoint' /\ UnusedIsBlank'
  BY <1>1, <1>2 DEF RuntimeInv, Disjoint, UnusedIsBlank, Take, RMTypeOK
<1>7. DisposedIsClosing'
  BY <1>1, <1>2, <1>3 DEF RuntimeInv, DisposedIsClosing, Take, RMTypeOK
<1>8. Starting(g)'
  BY <1>1, <1>2, <1>3 DEF Starting, Startable, OwnFailed, Take, RMTypeOK
<1>9. \A h \in Gen : Ready(h) => Ready(h)'
  BY <1>1, <1>2, <1>3 DEF Ready, OwnFailed, Take, RMTypeOK
<1> QED
  BY <1>4, <1>5, <1>6, <1>7, <1>8, <1>9 DEF StartFrame, RuntimeInv

LEMMA FailOpenSafe ==
    ASSUME RMTypeOK, RuntimeInv, NEW g \in Gen, phase[g] # "unused", current \in Gen, Starting(g),
           NEW a \in App, FailOpen(g, a), UNCHANGED <<phase, current>>
    PROVE  StartFrame(g)
<1>1. a \in toStart[g] /\ status[runtimeOf[g][a]][a] = "opening"
  BY DEF FailOpen
<1>2. runtimeOf[g][a] = g /\ a \notin leasedBy[g] /\ leases[g][a] = 0
  BY <1>1, OpensOnlyItsOwn
<1>3. \A h \in Gen, b \in App :
        status'[h][b] = IF h = g /\ b = a THEN "failed" ELSE status[h][b]
  BY <1>2 DEF FailOpen, RMTypeOK
<1>4. /\ UNCHANGED <<config, runtimeOf, leases, leasedBy, toClose, disposing>>
      /\ toStart' = [toStart EXCEPT ![g] = @ \ {a}]
  BY DEF FailOpen
<1>5. RMTypeOK'
  BY <1>2, <1>4 DEF RMTypeOK, FailOpen, Status
<1>6. LeasesCountHolders'
  BY <1>1, <1>2, <1>3, <1>4, LeasesUnchanged DEF RuntimeInv
<1>7. Disjoint' /\ UnusedIsBlank'
  BY <1>4 DEF RuntimeInv, Disjoint, UnusedIsBlank, RMTypeOK
<1>8. DisposedIsClosing'
  BY <1>1, <1>2, <1>3, <1>4, DisposalUnchanged DEF RuntimeInv
<1>9. Starting(g)'
  BY <1>1, <1>2, <1>3, <1>4 DEF Starting, Startable, OwnFailed, RMTypeOK
<1>10. \A h \in Gen : Ready(h) => Ready(h)'
  BY <1>1, <1>2, <1>3, <1>4 DEF Ready, OwnFailed, RMTypeOK
<1> QED
  BY <1>5, <1>6, <1>7, <1>8, <1>9, <1>10 DEF StartFrame, RuntimeInv

LEMMA StartStepSafe ==
    ASSUME RMTypeOK, RuntimeInv, NEW g \in Gen, phase[g] # "unused", current \in Gen, Starting(g),
           StartStep(g), UNCHANGED <<phase, current>>
    PROVE  StartFrame(g)
BY LeaseRunningSafe, BeginOpenSafe, FinishOpenSafe, FailOpenSafe DEF StartStep

-----------------------------------------------------------------------------
(* A step of close(): no other generation loses a runtime, and a candidate *)
(* loses none as long as it is not the current generation that closes.     *)

CloseFrame(g) ==
    /\ RMTypeOK' /\ RuntimeInv'
    /\ \A h \in Gen \ {g} : Ready(h) => Ready(h)'
    /\ g # current => \A h \in Gen \ {g} : Starting(h) => Starting(h)'

\* The status of a runtime changes from "from" to "to" and the generation
\* forgets or remembers that it disposes of it: enough for every part of the
\* frame but the lease counts.
LEMMA CloseFrameWithoutLeases ==
    ASSUME RMTypeOK, RuntimeInv, NEW g \in Gen, phase[g] # "unused", current \in Gen,
           UNCHANGED <<phase, current, config, runtimeOf, toStart>>,
           leasedBy' \in [Gen -> SUBSET App], leasedBy'[g] \subseteq leasedBy[g],
           \A h \in Gen \ {g} : leasedBy'[h] = leasedBy[h] /\ disposing'[h] = disposing[h],
           \A h \in Gen, b \in App :
                status[h][b] \in {"new", "failed"} => status'[h][b] = status[h][b],
           \A h \in Gen \ {g}, b \in App :
                status[h][b] = "opening" => status'[h][b] = status[h][b],
           \A h \in Gen, b \in App :
                status[h][b] \in {"closing", "closed"} => status'[h][b] \in {"closing", "closed"},
           disposing' \in [Gen -> App \cup {None}],
           disposing'[g] # None =>
                /\ runtimeOf[g][disposing'[g]] # None
                /\ status'[runtimeOf[g][disposing'[g]]][disposing'[g]] = "closing"
    PROVE  /\ Disjoint' /\ UnusedIsBlank' /\ DisposedIsClosing'
           /\ \A h \in Gen \ {g} : Ready(h) => Ready(h)'
           /\ g # current => \A h \in Gen \ {g} : Starting(h) => Starting(h)'
<1>1. Disjoint'
  BY DEF RuntimeInv, Disjoint, RMTypeOK
<1>2. UnusedIsBlank'
  BY DEF RuntimeInv, UnusedIsBlank, RMTypeOK
<1>3. DisposedIsClosing'
  <2> SUFFICES ASSUME NEW h \in Gen, disposing'[h] # None
               PROVE  /\ runtimeOf[h][disposing'[h]] # None
                      /\ status'[runtimeOf[h][disposing'[h]]][disposing'[h]] \in {"closing", "closed"}
    BY DEF DisposedIsClosing
  <2>1. CASE h = g
    BY <2>1
  <2>2. CASE h # g
    <3>1. /\ disposing'[h] = disposing[h] /\ disposing[h] \in App
          /\ runtimeOf[h][disposing[h]] # None /\ runtimeOf[h][disposing[h]] \in Gen
          /\ status[runtimeOf[h][disposing[h]]][disposing[h]] \in {"closing", "closed"}
      BY <2>2 DEF RMTypeOK, RuntimeInv, DisposedIsClosing
    <3> QED
      BY <3>1
  <2> QED
    BY <2>1, <2>2
<1>4. \A h \in Gen \ {g} : Ready(h) => Ready(h)'
  BY DEF Ready, OwnFailed, RMTypeOK
<1>5. ASSUME g # current, NEW h \in Gen \ {g}, Starting(h) PROVE Starting(h)'
  <2>1. leasedBy'[h] = leasedBy[h] /\ leasedBy'[current] = leasedBy[current]
    BY <1>5
  <2>2. \A a \in App : OwnFailed(h, a) => OwnFailed(h, a)'
    BY DEF OwnFailed
  <2>3. \A a \in toStart[h] : Startable(h, a) => Startable(h, a)'
    BY <2>1 DEF Startable, RMTypeOK
  <2> QED
    BY <1>5, <2>1, <2>2, <2>3 DEF Starting
<1> QED
  BY <1>1, <1>2, <1>3, <1>4, <1>5

LEMMA ReleaseLeaseSafe ==
    ASSUME RMTypeOK, RuntimeInv, NEW g \in Gen, phase[g] # "unused", current \in Gen,
           NEW a \in App, ReleaseLease(g, a), UNCHANGED <<phase, current>>
    PROVE  CloseFrame(g)
<1> DEFINE x == runtimeOf[g][a]
<1>1. a \in leasedBy[g] /\ x \in Gen /\ x # None /\ disposing[g] = None
  BY DEF ReleaseLease, RuntimeInv, Disjoint, RMTypeOK
<1>2. status[x][a] = "open" /\ leases[x][a] \in Nat /\ leases[x][a] > 0
  BY <1>1, HeldIsOpen DEF RuntimeInv, RMTypeOK
<1>3. /\ leases' = [leases EXCEPT ![x][a] = @ - 1]
      /\ leasedBy' = [leasedBy EXCEPT ![g] = @ \ {a}]
      /\ UNCHANGED <<config, runtimeOf, toStart>>
  BY DEF ReleaseLease
<1>4. \A h \in Gen, b \in App :
        leases'[h][b] = IF h = x /\ b = a THEN leases[h][b] - 1 ELSE leases[h][b]
  BY <1>1, <1>3 DEF RMTypeOK
<1>5. \A h \in Gen, b \in App :
        status'[h][b] = IF h = x /\ b = a /\ leases[x][a] <= 1 THEN "closing" ELSE status[h][b]
  <2>1. status' = IF leases[x][a] > 1 THEN status ELSE [status EXCEPT ![x][a] = "closing"]
    BY DEF ReleaseLease, Close, Skip
  <2> QED
    BY <1>1, <1>2, <2>1 DEF RMTypeOK
<1>6. \/ leases[x][a] > 1 /\ disposing' = disposing
      \/ leases[x][a] <= 1 /\ disposing' = [disposing EXCEPT ![g] = a]
  BY <1>2 DEF ReleaseLease, Close, Skip
<1>7. RMTypeOK'
  <2>1. leases' \in [Gen -> [App -> Nat]]
    BY <1>1, <1>2, <1>3 DEF RMTypeOK
  <2>2. status' \in [Gen -> [App -> Status]] /\ toClose' \in [Gen -> SUBSET App]
    <3>1. status' = IF leases[x][a] > 1 THEN status ELSE [status EXCEPT ![x][a] = "closing"]
      BY DEF ReleaseLease, Close, Skip
    <3>2. status' \in [Gen -> [App -> Status]]
      BY <1>1, <3>1 DEF RMTypeOK, Status
    <3>3. toClose' = IF leases[x][a] > 1 THEN [toClose EXCEPT ![g] = @ \ {a}] ELSE toClose
      BY DEF ReleaseLease, Close, Skip
    <3>4. toClose' \in [Gen -> SUBSET App]
      BY <3>3 DEF RMTypeOK
    <3> QED
      BY <3>2, <3>4
  <2> QED
    BY <1>3, <1>6, <2>1, <2>2 DEF RMTypeOK
<1>8. LeasesCountHolders'
  <2> SUFFICES ASSUME NEW h \in Gen, NEW b \in App
               PROVE  /\ leases'[h][b] = Cardinality(Holders(h, b)')
                      /\ (leases'[h][b] > 0) <=> (status'[h][b] = "open")
    BY DEF LeasesCountHolders, Holders
  <2>1. leases'[h][b] = Cardinality(Holders(h, b)')
    BY <1>1, ReleaseCounts DEF RuntimeInv, LeasesCountHolders
  <2>2. (leases[h][b] > 0) <=> (status[h][b] = "open")
    BY DEF RuntimeInv, LeasesCountHolders
  <2> QED
    BY <1>2, <1>4, <1>5, <2>1, <2>2
<1>9. disposing'[g] # None =>
        /\ runtimeOf[g][disposing'[g]] # None
        /\ status'[runtimeOf[g][disposing'[g]]][disposing'[g]] = "closing"
  BY <1>1, <1>5, <1>6 DEF RMTypeOK
<1>10. \A h \in Gen \ {g} : leasedBy'[h] = leasedBy[h] /\ disposing'[h] = disposing[h]
  BY <1>3, <1>6 DEF RMTypeOK
<1>11. leasedBy'[g] \subseteq leasedBy[g]
  BY <1>3 DEF RMTypeOK
<1>12. /\ leasedBy' \in [Gen -> SUBSET App]
       /\ disposing' \in [Gen -> App \cup {None}]
  BY <1>7 DEF RMTypeOK
<1>13. /\ Disjoint' /\ UnusedIsBlank' /\ DisposedIsClosing'
       /\ \A h \in Gen \ {g} : Ready(h) => Ready(h)'
       /\ g # current => \A h \in Gen \ {g} : Starting(h) => Starting(h)'
  BY <1>2, <1>3, <1>5, <1>9, <1>10, <1>11, <1>12, CloseFrameWithoutLeases
<1> QED
  BY <1>7, <1>8, <1>13 DEF CloseFrame, RuntimeInv

LEMMA ReleaseUnleasedSafe ==
    ASSUME RMTypeOK, RuntimeInv, NEW g \in Gen, phase[g] # "unused", current \in Gen,
           NEW a \in App, ReleaseUnleased(g, a), UNCHANGED <<phase, current>>
    PROVE  CloseFrame(g)
<1> DEFINE closes == ~Borrowed(g, a) /\ status[g][a] = "opening"
<1>1. disposing[g] = None /\ UNCHANGED <<config, runtimeOf, leases, leasedBy, toStart>>
  BY DEF ReleaseUnleased
<1>2. closes => runtimeOf[g][a] = g
  BY DEF Borrowed
<1>3. \A h \in Gen, b \in App :
        status'[h][b] = IF closes /\ h = g /\ b = a THEN "closing" ELSE status[h][b]
  BY <1>2 DEF ReleaseUnleased, Close, Skip, RMTypeOK
<1>4. disposing' = IF closes THEN [disposing EXCEPT ![g] = a] ELSE disposing
  BY DEF ReleaseUnleased, Close, Skip
<1>5. RMTypeOK'
  <2>1. status' \in [Gen -> [App -> Status]] /\ toClose' \in [Gen -> SUBSET App]
    <3>1. status' = IF closes THEN [status EXCEPT ![g][a] = "closing"] ELSE status
      BY <1>2 DEF ReleaseUnleased, Close, Skip
    <3>2. status' \in [Gen -> [App -> Status]]
      BY <3>1 DEF RMTypeOK, Status
    <3>3. toClose' = IF closes THEN toClose ELSE [toClose EXCEPT ![g] = @ \ {a}]
      BY DEF ReleaseUnleased, Close, Skip
    <3>4. toClose' \in [Gen -> SUBSET App]
      BY <3>3 DEF RMTypeOK
    <3> QED
      BY <3>2, <3>4
  <2> QED
    BY <1>1, <1>4, <2>1 DEF RMTypeOK
<1>6. LeasesCountHolders'
  BY <1>1, <1>3, LeasesUnchanged DEF RuntimeInv
<1>7. disposing'[g] # None =>
        /\ runtimeOf[g][disposing'[g]] # None
        /\ status'[runtimeOf[g][disposing'[g]]][disposing'[g]] = "closing"
  BY <1>1, <1>2, <1>3, <1>4 DEF RMTypeOK
<1>8. /\ \A h \in Gen \ {g} : leasedBy'[h] = leasedBy[h] /\ disposing'[h] = disposing[h]
      /\ leasedBy'[g] \subseteq leasedBy[g]
  BY <1>1, <1>4 DEF RMTypeOK
<1>9. /\ leasedBy' \in [Gen -> SUBSET App]
      /\ disposing' \in [Gen -> App \cup {None}]
  BY <1>5 DEF RMTypeOK
<1>10. /\ Disjoint' /\ UnusedIsBlank' /\ DisposedIsClosing'
       /\ \A h \in Gen \ {g} : Ready(h) => Ready(h)'
       /\ g # current => \A h \in Gen \ {g} : Starting(h) => Starting(h)'
  BY <1>1, <1>3, <1>7, <1>8, <1>9, CloseFrameWithoutLeases
<1> QED
  BY <1>5, <1>6, <1>10 DEF CloseFrame, RuntimeInv

LEMMA DisposeSafe ==
    ASSUME RMTypeOK, RuntimeInv, NEW g \in Gen, phase[g] # "unused", current \in Gen,
           Dispose(g), UNCHANGED <<phase, current>>
    PROVE  CloseFrame(g)
<1> DEFINE a == disposing[g]
           x == runtimeOf[g][a]
<1>1. /\ a \in App /\ x \in Gen
      /\ status[x][a] \in {"closing", "closed"}
  BY DEF Dispose, RuntimeInv, DisposedIsClosing, RMTypeOK
<1>2. /\ UNCHANGED <<config, runtimeOf, leases, leasedBy, toStart>>
      /\ disposing' = [disposing EXCEPT ![g] = None]
      /\ status' = [status EXCEPT ![x][a] = "closed"]
      /\ toClose' = [toClose EXCEPT ![g] = @ \ {a}]
  BY DEF Dispose
<1>3. \A h \in Gen, b \in App :
        status'[h][b] = IF h = x /\ b = a THEN "closed" ELSE status[h][b]
  BY <1>1, <1>2 DEF RMTypeOK
<1>4. RMTypeOK'
  BY <1>1, <1>2 DEF RMTypeOK, Status
<1>5. LeasesCountHolders'
  BY <1>1, <1>2, <1>3, LeasesUnchanged DEF RuntimeInv
<1>6. disposing'[g] = None
  BY <1>2 DEF RMTypeOK
<1>7. /\ \A h \in Gen \ {g} : leasedBy'[h] = leasedBy[h] /\ disposing'[h] = disposing[h]
      /\ leasedBy'[g] \subseteq leasedBy[g]
  BY <1>2 DEF RMTypeOK
<1>8. /\ leasedBy' \in [Gen -> SUBSET App]
      /\ disposing' \in [Gen -> App \cup {None}]
  BY <1>4 DEF RMTypeOK
<1>9. /\ Disjoint' /\ UnusedIsBlank' /\ DisposedIsClosing'
      /\ \A h \in Gen \ {g} : Ready(h) => Ready(h)'
      /\ g # current => \A h \in Gen \ {g} : Starting(h) => Starting(h)'
  BY <1>1, <1>2, <1>3, <1>6, <1>7, <1>8, CloseFrameWithoutLeases
<1> QED
  BY <1>4, <1>5, <1>9 DEF CloseFrame, RuntimeInv

LEMMA CloseStepSafe ==
    ASSUME RMTypeOK, RuntimeInv, NEW g \in Gen, phase[g] # "unused", current \in Gen,
           CloseStep(g), UNCHANGED <<phase, current>>
    PROVE  CloseFrame(g)
BY ReleaseLeaseSafe, ReleaseUnleasedSafe, DisposeSafe DEF CloseStep

-----------------------------------------------------------------------------
(* A new generation can be started, and takes nothing from the others.     *)

LEMMA ConstructSafe ==
    ASSUME RMTypeOK, RuntimeInv, current \in Gen, phase[current] # "unused", Ready(current),
           NEW f \in Gen, phase[f] = "unused", NEW c \in Config, NEW bad \in SUBSET Apps(c),
           Construct(f, c, current, bad), current' = current,
           \A h \in Gen : phase'[h] = "unused" => phase[h] = "unused" /\ h # f
    PROVE  /\ RMTypeOK' /\ RuntimeInv' /\ Starting(f)'
           /\ \A h \in Gen : phase[h] # "unused" /\ Ready(h) => Ready(h)'
<1>1. /\ leasedBy[f] = {} /\ toStart[f] = {} /\ disposing[f] = None
      /\ \A h \in Gen, a \in App : runtimeOf[h][a] # f
  BY DEF RuntimeInv, UnusedIsBlank
<1>2. /\ UNCHANGED <<leases, leasedBy, disposing>>
      /\ \A h \in Gen \ {f} : /\ runtimeOf'[h] = runtimeOf[h] /\ status'[h] = status[h]
                             /\ toStart'[h] = toStart[h]
  BY DEF Construct, RMTypeOK
<1>3. /\ toStart'[f] = Apps(c) \ bad
      /\ \A a \in App :
            /\ status'[f][a] = IF a \in bad THEN "failed" ELSE "new"
            /\ runtimeOf'[f][a] = IF a \notin Apps(c) THEN None
                                  ELSE IF Reusable(current, c, a, bad) THEN runtimeOf[current][a]
                                  ELSE f
  BY DEF Construct, RMTypeOK
<1>4. \A a \in App : Reusable(current, c, a, bad) =>
        /\ a \notin bad /\ a \in leasedBy[current]
        /\ runtimeOf[current][a] \in Gen
  BY DEF Reusable, Available, Ready, OwnFailed, RMTypeOK
<1>5. RMTypeOK'
  <2>1. config' \in [Gen -> Config]
    BY DEF Construct, RMTypeOK
  <2>2. runtimeOf' \in [Gen -> [App -> Gen \cup {None}]]
    BY <1>4 DEF Construct, RMTypeOK
  <2>3. status' \in [Gen -> [App -> Status]]
    BY DEF Construct, RMTypeOK, Status
  <2>4. toStart' \in [Gen -> SUBSET App] /\ toClose' \in [Gen -> SUBSET App]
    BY DEF Construct, RMTypeOK, Apps
  <2> QED
    BY <1>2, <2>1, <2>2, <2>3, <2>4 DEF RMTypeOK
<1>6. LeasesCountHolders'
  <2> SUFFICES ASSUME NEW h \in Gen, NEW a \in App
               PROVE  /\ leases[h][a] = Cardinality(Holders(h, a)')
                      /\ (leases[h][a] > 0) <=> (status'[h][a] = "open")
    BY <1>2 DEF LeasesCountHolders, Holders
  <2>1. Holders(h, a)' = Holders(h, a)
    BY <1>1, <1>2 DEF Holders
  <2>2. CASE h = f
    <3>1. Holders(h, a) = {}
      <4>1. \A g \in Gen : runtimeOf[g][a] # h
        BY <1>1, <2>2
      <4> QED
        BY ONLY <4>1 DEF Holders
    <3>2. leases[h][a] = 0
      <4>1. leases[h][a] = Cardinality(Holders(h, a))
        BY DEF RuntimeInv, LeasesCountHolders
      <4>2. Cardinality({}) = 0
        BY FS_EmptySet
      <4> QED
        BY <3>1, <4>1, <4>2
    <3> QED
      BY <1>3, <2>1, <2>2, <3>2 DEF RuntimeInv, LeasesCountHolders
  <2>3. CASE h # f
    BY <1>2, <2>1, <2>3 DEF RuntimeInv, LeasesCountHolders
  <2> QED
    BY <2>2, <2>3
<1>7. Disjoint'
  <2> SUFFICES ASSUME NEW g \in Gen, NEW a \in App
               PROVE  /\ a \in leasedBy[g] => a \notin toStart'[g]
                      /\ a \in leasedBy[g] \cup toStart'[g] => runtimeOf'[g][a] # None
    BY <1>2 DEF Disjoint
  <2>1. CASE g = f
    BY <1>1, <1>3, <1>4, <2>1 DEF RMTypeOK
  <2>2. CASE g # f
    BY <1>2, <2>2 DEF RuntimeInv, Disjoint
  <2> QED
    BY <2>1, <2>2
<1>8. UnusedIsBlank'
  <2> SUFFICES ASSUME NEW g \in Gen, phase'[g] = "unused"
               PROVE  /\ leasedBy[g] = {} /\ toStart'[g] = {} /\ disposing[g] = None
                      /\ \A h \in Gen, a \in App : runtimeOf'[h][a] # g
    BY <1>2 DEF UnusedIsBlank
  <2>1. g # f /\ phase[g] = "unused"
    OBVIOUS
  <2>2. \A h \in Gen, a \in App : runtimeOf[h][a] # g
    BY <2>1 DEF RuntimeInv, UnusedIsBlank
  <2>3. \A h \in Gen, a \in App : runtimeOf'[h][a] # g
    BY <1>2, <1>3, <2>1, <2>2
  <2> QED
    BY <1>2, <2>1, <2>3 DEF RuntimeInv, UnusedIsBlank
<1>9. DisposedIsClosing'
  <2> SUFFICES ASSUME NEW g \in Gen, disposing[g] # None
               PROVE  /\ runtimeOf'[g][disposing[g]] # None
                      /\ status'[runtimeOf'[g][disposing[g]]][disposing[g]] \in {"closing", "closed"}
    BY <1>2 DEF DisposedIsClosing
  <2>1. g # f /\ disposing[g] \in App /\ runtimeOf[g][disposing[g]] \in Gen \ {f}
    BY <1>1 DEF RMTypeOK, RuntimeInv, DisposedIsClosing
  <2> QED
    BY <1>2, <2>1 DEF RuntimeInv, DisposedIsClosing
<1>10. Starting(f)'
  <2>1. \A a \in App : runtimeOf'[f][a] # None => a \in toStart'[f] \/ OwnFailed(f, a)'
    BY <1>3, <1>4 DEF OwnFailed
  <2>2. \A a \in toStart'[f] : Startable(f, a)'
    <3> SUFFICES ASSUME NEW a \in toStart'[f] PROVE Startable(f, a)'
      OBVIOUS
    <3>1. a \in App /\ a \in Apps(c) /\ a \notin bad /\ current # f
      BY <1>3 DEF Apps
    <3>2. Startable(f, a)'
      <4>1. CASE Reusable(current, c, a, bad)
        BY <1>2, <1>3, <1>4, <3>1, <4>1 DEF Startable
      <4>2. CASE ~Reusable(current, c, a, bad)
        <5>1. runtimeOf'[f][a] = f /\ status'[f][a] = "new"
          BY <1>3, <3>1, <4>2
        <5> QED
          BY <5>1 DEF Startable
      <4> QED
        BY <4>1, <4>2
    <3> QED
      BY <3>2
  <2> QED
    BY <2>1, <2>2 DEF Starting
<1>11. \A h \in Gen : phase[h] # "unused" /\ Ready(h) => Ready(h)'
  BY <1>2 DEF Ready, OwnFailed
<1> QED
  BY <1>5, <1>6, <1>7, <1>8, <1>9, <1>10, <1>11 DEF RuntimeInv

\* A step that leaves the runtimes alone and makes no generation unused.
LEMMA RuntimesUnchanged ==
    ASSUME RMTypeOK, RuntimeInv, UNCHANGED rmVars,
           \A g \in Gen : phase'[g] = "unused" => phase[g] = "unused"
    PROVE  /\ RMTypeOK' /\ RuntimeInv'
           /\ ReadyGens' = ReadyGens
           /\ current' = current => StartingGens' = StartingGens
<1> USE DEF rmVars
<1>1. RMTypeOK'
  BY DEF RMTypeOK
<1>2. LeasesCountHolders'
  BY LeasesUnchanged DEF RuntimeInv
<1>3. Disjoint' /\ UnusedIsBlank' /\ DisposedIsClosing'
  BY DEF RuntimeInv, Disjoint, UnusedIsBlank, DisposedIsClosing
<1>4. ReadyGens' = ReadyGens
  BY DEF ReadyGens, Ready, OwnFailed
<1>5. current' = current => StartingGens' = StartingGens
  BY DEF StartingGens, Starting, Startable, OwnFailed
<1> QED
  BY <1>1, <1>2, <1>3, <1>4, <1>5 DEF RuntimeInv

\* The frames of the three kinds of steps, as facts about the sets of ready
\* and of starting generations.
LEMMA StartStepKeeps ==
    ASSUME RMTypeOK, RuntimeInv, NEW g \in StartingGens, phase[g] # "unused", current \in Gen,
           StartStep(g), UNCHANGED <<phase, current>>
    PROVE  RMTypeOK' /\ RuntimeInv' /\ g \in StartingGens' /\ ReadyGens \subseteq ReadyGens'
<1>1. g \in Gen /\ Starting(g)
  BY DEF StartingGens
<1>2. StartFrame(g)
  BY <1>1, StartStepSafe
<1> QED
  BY <1>1, <1>2 DEF StartFrame, StartingGens, ReadyGens

LEMMA CloseStepKeeps ==
    ASSUME RMTypeOK, RuntimeInv, NEW g \in Gen, phase[g] # "unused", current \in Gen,
           CloseStep(g), UNCHANGED <<phase, current>>
    PROVE  /\ RMTypeOK' /\ RuntimeInv' /\ ReadyGens \ {g} \subseteq ReadyGens'
           /\ g # current => StartingGens \ {g} \subseteq StartingGens'
BY CloseStepSafe DEF CloseFrame, StartingGens, ReadyGens

LEMMA ConstructKeeps ==
    ASSUME RMTypeOK, RuntimeInv, phase[current] # "unused", current \in ReadyGens,
           NEW f \in Gen, phase[f] = "unused", NEW c \in Config, NEW bad \in SUBSET Apps(c),
           Construct(f, c, current, bad), current' = current,
           \A h \in Gen : phase'[h] = "unused" => phase[h] = "unused" /\ h # f
    PROVE  /\ RMTypeOK' /\ RuntimeInv' /\ f \in StartingGens'
           /\ \A h \in ReadyGens : phase[h] # "unused" => h \in ReadyGens'
BY ConstructSafe DEF StartingGens, ReadyGens

-----------------------------------------------------------------------------
(* The invariant holds initially. *)

LEMMA LoadConfigIsConfig ==
    ASSUME files \in Files
    PROVE  LoadConfig \in Config /\ LoadIssues \in SUBSET App
BY DEF LoadConfig, LoadIssues, Quarantined, Parsed, Apps, Config, Files

LEMMA InitSafe ==
    ASSUME Init
    PROVE  IInv
<1>1. Boot \in Gen /\ current = Boot
  BY GenIsNotEmpty DEF Boot, Init
<1>2. files \in Files
  BY DEF Init, Files
<1>3. config \in [Gen -> Config] /\ issues \in [Gen -> SUBSET App]
  <2>1. [a \in App |-> None] \in Config
    BY DEF Config
  <2>2. config = [g \in Gen |-> IF g = Boot THEN LoadConfig ELSE [a \in App |-> None]]
    BY DEF Init
  <2>3. issues = [g \in Gen |-> IF g = Boot THEN LoadIssues ELSE {}]
    BY DEF Init
  <2> QED
    BY <1>2, <2>1, <2>2, <2>3, LoadConfigIsConfig
<1>4. RMTypeOK
  <2>1. runtimeOf \in [Gen -> [App -> Gen \cup {None}]]
    BY DEF Init
  <2>2. toStart \in [Gen -> SUBSET App] /\ toClose \in [Gen -> SUBSET App]
    BY DEF Init, Apps
  <2>3. status \in [Gen -> [App -> Status]]
    BY DEF Init, Status
  <2> QED
    BY <1>3, <2>1, <2>2, <2>3 DEF RMTypeOK, Init
<1>5. ReloadTypeOK
  <2>1. phase \in [Gen -> Phase]
    BY DEF Init, Phase
  <2> QED
    BY <1>1, <1>2, <1>3, <2>1 DEF ReloadTypeOK, Init, Rl, Why
<1>6. LeasesCountHolders
  <2> SUFFICES ASSUME NEW h \in Gen, NEW a \in App
               PROVE  /\ leases[h][a] = Cardinality(Holders(h, a))
                      /\ (leases[h][a] > 0) <=> (status[h][a] = "open")
    BY DEF LeasesCountHolders
  <2>1. Holders(h, a) = {}
    BY DEF Holders, Init
  <2>2. Cardinality({}) = 0
    BY FS_EmptySet
  <2> QED
    BY <2>1, <2>2 DEF Init
<1>7. \A g \in Gen, a \in App :
        runtimeOf[g][a] = IF g = Boot /\ config[Boot][a] # None THEN g ELSE None
  BY DEF Init
<1>8. Disjoint
  BY <1>7 DEF Disjoint, Init, Apps
<1>9. UnusedIsBlank
  <2> SUFFICES ASSUME NEW g \in Gen, phase[g] = "unused"
               PROVE  /\ leasedBy[g] = {} /\ toStart[g] = {} /\ disposing[g] = None
                      /\ \A h \in Gen, a \in App : runtimeOf[h][a] # g
    BY DEF UnusedIsBlank
  <2>1. g # Boot
    BY DEF Init
  <2>2. Apps(config[g]) = {}
    BY <2>1 DEF Init, Apps
  <2> QED
    BY <1>7, <2>1, <2>2 DEF Init
<1>10. DisposedIsClosing
  BY DEF DisposedIsClosing, Init
<1>11. Roles /\ Control
  BY <1>1 DEF Roles, Control, Init, Booting
<1>12. Starting(Boot)
  BY <1>1, <1>7 DEF Starting, Startable, Init, Apps
<1>13. Progress
  BY <1>1, <1>12 DEF Progress, Booting, Init, StartingGens
<1> QED
  BY <1>4, <1>5, <1>6, <1>8, <1>9, <1>10, <1>11, <1>13 DEF IInv, TypeOK, RuntimeInv

-----------------------------------------------------------------------------
(* Every step preserves the invariant.  First the steps that leave the     *)
(* runtimes alone.                                                         *)

LEMMA EditSafe ==
    ASSUME IInv, NEW content \in Contents, Edit(content)
    PROVE  IInv'
<1> USE DEF Edit
<1>1. UNCHANGED rmVars /\ \A h \in Gen : phase'[h] = "unused" => phase[h] = "unused"
  BY DEF IInv, TypeOK, ReloadTypeOK, Control
<1>2. /\ RMTypeOK' /\ RuntimeInv' /\ ReadyGens' = ReadyGens
      /\ current' = current => StartingGens' = StartingGens
  BY <1>1, RuntimesUnchanged DEF IInv, TypeOK
<1>3. ReloadTypeOK'
  BY ContentsAreFiles DEF IInv, TypeOK, ReloadTypeOK, Control, rmVars, fileVars, liveVars, locals, Rl, Why, Phase
<1>4. Roles'
  BY DEF IInv, TypeOK, ReloadTypeOK, Roles, Control, fileVars, liveVars, locals
<1>5. Control'
  BY DEF IInv, TypeOK, ReloadTypeOK, Control, Booting, fileVars, liveVars, locals
<1>6. Progress'
  BY <1>2 DEF IInv, TypeOK, ReloadTypeOK, Roles, Control, Progress, Booting, fileVars, liveVars, locals
<1> QED
  BY <1>2, <1>3, <1>4, <1>5, <1>6 DEF IInv, TypeOK

LEMMA BootSignSafe ==
    ASSUME IInv, BootSign
    PROVE  IInv'
<1> USE DEF BootSign
<1>1. UNCHANGED rmVars /\ \A h \in Gen : phase'[h] = "unused" => phase[h] = "unused"
  BY DEF IInv, TypeOK, ReloadTypeOK, Control
<1>2. /\ RMTypeOK' /\ RuntimeInv' /\ ReadyGens' = ReadyGens
      /\ current' = current => StartingGens' = StartingGens
  BY <1>1, RuntimesUnchanged DEF IInv, TypeOK
<1>3. ReloadTypeOK'
  BY DEF IInv, TypeOK, ReloadTypeOK, Control, rmVars, fileVars, liveVars, locals, Rl, Why, Phase
<1>4. Roles'
  BY DEF IInv, TypeOK, ReloadTypeOK, Roles, Control, fileVars, liveVars, locals
<1>5. Control'
  BY DEF IInv, TypeOK, ReloadTypeOK, Control, Booting, fileVars, liveVars, locals
<1>6. Progress'
  BY <1>2 DEF IInv, TypeOK, ReloadTypeOK, Roles, Control, Progress, Booting, fileVars, liveVars, locals
<1> QED
  BY <1>2, <1>3, <1>4, <1>5, <1>6 DEF IInv, TypeOK

LEMMA CallSafe ==
    ASSUME IInv, Call
    PROVE  IInv'
<1> USE DEF Call
<1>1. UNCHANGED rmVars /\ \A h \in Gen : phase'[h] = "unused" => phase[h] = "unused"
  BY DEF IInv, TypeOK, ReloadTypeOK, Control
<1>2. /\ RMTypeOK' /\ RuntimeInv' /\ ReadyGens' = ReadyGens
      /\ current' = current => StartingGens' = StartingGens
  BY <1>1, RuntimesUnchanged DEF IInv, TypeOK
<1>3. ReloadTypeOK'
  BY DEF IInv, TypeOK, ReloadTypeOK, Control, rmVars, fileVars, liveVars, locals, Rl, Why, Phase
<1>4. Roles'
  BY DEF IInv, TypeOK, ReloadTypeOK, Roles, Control, fileVars, liveVars, locals
<1>5. Control'
  BY DEF IInv, TypeOK, ReloadTypeOK, Control, Booting, fileVars, liveVars, locals
<1>6. Progress'
  BY <1>2 DEF IInv, TypeOK, ReloadTypeOK, Roles, Control, Progress, Booting, fileVars, liveVars, locals
<1> QED
  BY <1>2, <1>3, <1>4, <1>5, <1>6 DEF IInv, TypeOK

LEMMA PruneSafe ==
    ASSUME IInv, NEW g \in Gen, Prune(g)
    PROVE  IInv'
<1> USE DEF Prune
<1>1. UNCHANGED rmVars /\ \A h \in Gen : phase'[h] = "unused" => phase[h] = "unused"
  BY DEF IInv, TypeOK, ReloadTypeOK, Control
<1>2. /\ RMTypeOK' /\ RuntimeInv' /\ ReadyGens' = ReadyGens
      /\ current' = current => StartingGens' = StartingGens
  BY <1>1, RuntimesUnchanged DEF IInv, TypeOK
<1>3. ReloadTypeOK'
  BY DEF IInv, TypeOK, ReloadTypeOK, Control, rmVars, fileVars, liveVars, locals, Rl, Why, Phase
<1>4. Roles'
  BY DEF IInv, TypeOK, ReloadTypeOK, Roles, Control, fileVars, liveVars, locals
<1>5. Control'
  BY DEF IInv, TypeOK, ReloadTypeOK, Control, Booting, fileVars, liveVars, locals
<1>6. Progress'
  BY <1>2 DEF IInv, TypeOK, ReloadTypeOK, Roles, Control, Progress, Booting, fileVars, liveVars, locals
<1> QED
  BY <1>2, <1>3, <1>4, <1>5, <1>6 DEF IInv, TypeOK

LEMMA PrunedSafe ==
    ASSUME IInv, Pruned
    PROVE  IInv'
<1> USE DEF Pruned, Await
<1>1. UNCHANGED rmVars /\ \A h \in Gen : phase'[h] = "unused" => phase[h] = "unused"
  BY DEF IInv, TypeOK, ReloadTypeOK, Control
<1>2. /\ RMTypeOK' /\ RuntimeInv' /\ ReadyGens' = ReadyGens
      /\ current' = current => StartingGens' = StartingGens
  BY <1>1, RuntimesUnchanged DEF IInv, TypeOK
<1>3. ReloadTypeOK'
  BY DEF IInv, TypeOK, ReloadTypeOK, Control, rmVars, fileVars, liveVars, locals, Rl, Why, Phase
<1>4. Roles'
  BY DEF IInv, TypeOK, ReloadTypeOK, Roles, Control, fileVars, liveVars, locals
<1>5. Control'
  BY DEF IInv, TypeOK, ReloadTypeOK, Control, Booting, fileVars, liveVars, locals
<1>6. Progress'
  BY <1>2 DEF IInv, TypeOK, ReloadTypeOK, Roles, Control, Progress, Booting, fileVars, liveVars, locals
<1> QED
  BY <1>2, <1>3, <1>4, <1>5, <1>6 DEF IInv, TypeOK

LEMMA ScanSafe ==
    ASSUME IInv, Scan
    PROVE  IInv'
<1> USE DEF Scan
<1>1. UNCHANGED rmVars /\ \A h \in Gen : phase'[h] = "unused" => phase[h] = "unused"
  BY DEF IInv, TypeOK, ReloadTypeOK, Control
<1>2. /\ RMTypeOK' /\ RuntimeInv' /\ ReadyGens' = ReadyGens
      /\ current' = current => StartingGens' = StartingGens
  BY <1>1, RuntimesUnchanged DEF IInv, TypeOK
<1>3. ReloadTypeOK'
  BY DEF IInv, TypeOK, ReloadTypeOK, Control, rmVars, fileVars, liveVars, locals, Rl, Why, Phase
<1>4. Roles'
  BY DEF IInv, TypeOK, ReloadTypeOK, Roles, Control, fileVars, liveVars, locals
<1>5. Control'
  BY DEF IInv, TypeOK, ReloadTypeOK, Control, Booting, fileVars, liveVars, locals
<1>6. Progress'
  BY <1>2 DEF IInv, TypeOK, ReloadTypeOK, Roles, Control, Progress, Booting, fileVars, liveVars, locals
<1> QED
  BY <1>2, <1>3, <1>4, <1>5, <1>6 DEF IInv, TypeOK

LEMMA ScanFailsSafe ==
    ASSUME IInv, ScanFails
    PROVE  IInv'
<1> USE DEF ScanFails, Await
<1>1. UNCHANGED rmVars /\ \A h \in Gen : phase'[h] = "unused" => phase[h] = "unused"
  BY DEF IInv, TypeOK, ReloadTypeOK, Control
<1>2. /\ RMTypeOK' /\ RuntimeInv' /\ ReadyGens' = ReadyGens
      /\ current' = current => StartingGens' = StartingGens
  BY <1>1, RuntimesUnchanged DEF IInv, TypeOK
<1>3. ReloadTypeOK'
  BY DEF IInv, TypeOK, ReloadTypeOK, Control, rmVars, fileVars, liveVars, locals, Rl, Why, Phase
<1>4. Roles'
  BY DEF IInv, TypeOK, ReloadTypeOK, Roles, Control, fileVars, liveVars, locals
<1>5. Control'
  BY DEF IInv, TypeOK, ReloadTypeOK, Control, Booting, fileVars, liveVars, locals
<1>6. Progress'
  BY <1>2 DEF IInv, TypeOK, ReloadTypeOK, Roles, Control, Progress, Booting, fileVars, liveVars, locals
<1> QED
  BY <1>2, <1>3, <1>4, <1>5, <1>6 DEF IInv, TypeOK

LEMMA StartFailsSafe ==
    ASSUME IInv, StartFails
    PROVE  IInv'
<1> USE DEF StartFails, Discard
<1>1. UNCHANGED rmVars /\ \A h \in Gen : phase'[h] = "unused" => phase[h] = "unused"
  BY DEF IInv, TypeOK, ReloadTypeOK, Control
<1>2. /\ RMTypeOK' /\ RuntimeInv' /\ ReadyGens' = ReadyGens
      /\ current' = current => StartingGens' = StartingGens
  BY <1>1, RuntimesUnchanged DEF IInv, TypeOK
<1>3. ReloadTypeOK'
  BY DEF IInv, TypeOK, ReloadTypeOK, Control, rmVars, fileVars, liveVars, locals, Rl, Why, Phase
<1>4. Roles'
  BY DEF IInv, TypeOK, ReloadTypeOK, Roles, Control, fileVars, liveVars, locals
<1>5. Control'
  BY DEF IInv, TypeOK, ReloadTypeOK, Control, Booting, fileVars, liveVars, locals
<1>6. Progress'
  BY <1>2 DEF IInv, TypeOK, ReloadTypeOK, Roles, Control, Progress, Booting, fileVars, liveVars, locals
<1> QED
  BY <1>2, <1>3, <1>4, <1>5, <1>6 DEF IInv, TypeOK

LEMMA UnstableSafe ==
    ASSUME IInv, Unstable
    PROVE  IInv'
<1> USE DEF Unstable, Discard
<1>1. UNCHANGED rmVars /\ \A h \in Gen : phase'[h] = "unused" => phase[h] = "unused"
  BY DEF IInv, TypeOK, ReloadTypeOK, Control
<1>2. /\ RMTypeOK' /\ RuntimeInv' /\ ReadyGens' = ReadyGens
      /\ current' = current => StartingGens' = StartingGens
  BY <1>1, RuntimesUnchanged DEF IInv, TypeOK
<1>3. ReloadTypeOK'
  BY DEF IInv, TypeOK, ReloadTypeOK, Control, rmVars, fileVars, liveVars, locals, Rl, Why, Phase
<1>4. Roles'
  BY DEF IInv, TypeOK, ReloadTypeOK, Roles, Control, fileVars, liveVars, locals
<1>5. Control'
  BY DEF IInv, TypeOK, ReloadTypeOK, Control, Booting, fileVars, liveVars, locals
<1>6. Progress'
  BY <1>2 DEF IInv, TypeOK, ReloadTypeOK, Roles, Control, Progress, Booting, fileVars, liveVars, locals
<1> QED
  BY <1>2, <1>3, <1>4, <1>5, <1>6 DEF IInv, TypeOK

LEMMA ConfirmFailsSafe ==
    ASSUME IInv, ConfirmFails
    PROVE  IInv'
<1> USE DEF ConfirmFails, Discard
<1>1. UNCHANGED rmVars /\ \A h \in Gen : phase'[h] = "unused" => phase[h] = "unused"
  BY DEF IInv, TypeOK, ReloadTypeOK, Control
<1>2. /\ RMTypeOK' /\ RuntimeInv' /\ ReadyGens' = ReadyGens
      /\ current' = current => StartingGens' = StartingGens
  BY <1>1, RuntimesUnchanged DEF IInv, TypeOK
<1>3. ReloadTypeOK'
  BY DEF IInv, TypeOK, ReloadTypeOK, Control, rmVars, fileVars, liveVars, locals, Rl, Why, Phase
<1>4. Roles'
  BY DEF IInv, TypeOK, ReloadTypeOK, Roles, Control, fileVars, liveVars, locals
<1>5. Control'
  BY DEF IInv, TypeOK, ReloadTypeOK, Control, Booting, fileVars, liveVars, locals
<1>6. Progress'
  BY <1>2 DEF IInv, TypeOK, ReloadTypeOK, Roles, Control, Progress, Booting, fileVars, liveVars, locals
<1> QED
  BY <1>2, <1>3, <1>4, <1>5, <1>6 DEF IInv, TypeOK

LEMMA DiscardedSafe ==
    ASSUME IInv, Discarded
    PROVE  IInv'
<1> USE DEF Discarded, EndLife, Reject, Return
<1>1. UNCHANGED rmVars /\ \A h \in Gen : phase'[h] = "unused" => phase[h] = "unused"
  BY DEF IInv, TypeOK, ReloadTypeOK, Control
<1>2. /\ RMTypeOK' /\ RuntimeInv' /\ ReadyGens' = ReadyGens
      /\ current' = current => StartingGens' = StartingGens
  BY <1>1, RuntimesUnchanged DEF IInv, TypeOK
<1>3. ReloadTypeOK'
  <2>1. phase' \in [Gen -> Phase]
    BY DEF IInv, TypeOK, ReloadTypeOK, Control, Phase
  <2>2. rl' \in Rl
    BY DEF IInv, TypeOK, ReloadTypeOK, Control, Rl, locals
  <2>3. cand' \in Gen \cup {None} /\ sig' \in Nat
    BY DEF IInv, TypeOK, ReloadTypeOK, Control, locals
  <2>4. second' \in BOOLEAN
    BY DEF IInv, TypeOK, ReloadTypeOK, Control, locals
  <2>5. why' \in Why /\ broken' \in SUBSET App /\ todo' \in SUBSET Gen
    BY DEF IInv, TypeOK, ReloadTypeOK, Control, Why, locals
  <2>6. observed' \in Nat /\ rejected' \in BOOLEAN
    BY DEF IInv, TypeOK, ReloadTypeOK, liveVars
  <2>7. UNCHANGED <<fileVars, current, generation, retired, issues, serving>>
    BY DEF liveVars
  <2>8. halt' \in {"no", "current", "retired", "done", "crashed"}
    BY DEF IInv, TypeOK, ReloadTypeOK
  <2> QED
    BY <2>1, <2>2, <2>3, <2>4, <2>5, <2>6, <2>7, <2>8 DEF IInv, TypeOK, ReloadTypeOK, fileVars
<1>4. Roles'
  BY DEF IInv, TypeOK, ReloadTypeOK, Roles, Control, fileVars, liveVars, locals
<1>5. Control'
  BY DEF IInv, TypeOK, ReloadTypeOK, Control, Booting, fileVars, liveVars, locals
<1>6. Progress'
  BY <1>2 DEF IInv, TypeOK, ReloadTypeOK, Roles, Control, Progress, Booting, fileVars, liveVars, locals
<1> QED
  BY <1>2, <1>3, <1>4, <1>5, <1>6 DEF IInv, TypeOK

LEMMA BeginSafe ==
    ASSUME IInv, NEW q \in Request, Begin(q)
    PROVE  IInv'
<1> USE DEF Begin
<1>1. UNCHANGED rmVars /\ \A h \in Gen : phase'[h] = "unused" => phase[h] = "unused"
  BY DEF IInv, TypeOK, ReloadTypeOK, Control
<1>2. /\ RMTypeOK' /\ RuntimeInv' /\ ReadyGens' = ReadyGens
      /\ current' = current => StartingGens' = StartingGens
  BY <1>1, RuntimesUnchanged DEF IInv, TypeOK
<1>3. ReloadTypeOK'
  BY DEF IInv, TypeOK, ReloadTypeOK, Control, rmVars, fileVars, liveVars, locals, Rl, Why, Phase
<1>4. Roles'
  BY DEF IInv, TypeOK, ReloadTypeOK, Roles, Control, fileVars, liveVars, locals
<1>5. Control'
  BY DEF IInv, TypeOK, ReloadTypeOK, Control, Booting, fileVars, liveVars, locals
<1>6. Progress'
  BY <1>2 DEF IInv, TypeOK, ReloadTypeOK, Roles, Control, Progress, Booting, fileVars, liveVars, locals
<1> QED
  BY <1>2, <1>3, <1>4, <1>5, <1>6 DEF IInv, TypeOK

LEMMA EndSafe ==
    ASSUME IInv, NEW q \in Request, End(q)
    PROVE  IInv'
<1> USE DEF End
<1>1. UNCHANGED rmVars /\ \A h \in Gen : phase'[h] = "unused" => phase[h] = "unused"
  BY DEF IInv, TypeOK, ReloadTypeOK, Control
<1>2. /\ RMTypeOK' /\ RuntimeInv' /\ ReadyGens' = ReadyGens
      /\ current' = current => StartingGens' = StartingGens
  BY <1>1, RuntimesUnchanged DEF IInv, TypeOK
<1>3. ReloadTypeOK'
  BY DEF IInv, TypeOK, ReloadTypeOK, Control, rmVars, fileVars, liveVars, locals, Rl, Why, Phase
<1>4. Roles'
  BY DEF IInv, TypeOK, ReloadTypeOK, Roles, Control, fileVars, liveVars, locals
<1>5. Control'
  BY DEF IInv, TypeOK, ReloadTypeOK, Control, Booting, fileVars, liveVars, locals
<1>6. Progress'
  BY <1>2 DEF IInv, TypeOK, ReloadTypeOK, Roles, Control, Progress, Booting, fileVars, liveVars, locals
<1> QED
  BY <1>2, <1>3, <1>4, <1>5, <1>6 DEF IInv, TypeOK

LEMMA ShutdownSafe ==
    ASSUME IInv, Shutdown
    PROVE  IInv'
<1> USE DEF Shutdown, CancelPrune, CancelDiscard, CancelCandidate, CancelQuiet, Discard, Return, Abandon, Drained
<1>1. UNCHANGED rmVars /\ \A h \in Gen : phase'[h] = "unused" => phase[h] = "unused"
  BY DEF IInv, TypeOK, ReloadTypeOK, Control
<1>2. /\ RMTypeOK' /\ RuntimeInv' /\ ReadyGens' = ReadyGens
      /\ current' = current => StartingGens' = StartingGens
  BY <1>1, RuntimesUnchanged DEF IInv, TypeOK
<1>3. ReloadTypeOK'
  <2>1. phase' \in [Gen -> Phase]
    BY DEF IInv, TypeOK, ReloadTypeOK, Control, Phase
  <2>2. rl' \in Rl
    BY DEF IInv, TypeOK, ReloadTypeOK, Control, Rl, locals
  <2>3. cand' \in Gen \cup {None} /\ sig' \in Nat
    BY DEF IInv, TypeOK, ReloadTypeOK, Control, locals
  <2>4. second' \in BOOLEAN
    BY DEF IInv, TypeOK, ReloadTypeOK, Control, locals
  <2>5. why' \in Why /\ broken' \in SUBSET App /\ todo' \in SUBSET Gen
    BY DEF IInv, TypeOK, ReloadTypeOK, Control, Why, locals
  <2>6. observed' \in Nat /\ rejected' \in BOOLEAN
    BY DEF IInv, TypeOK, ReloadTypeOK, liveVars
  <2>7. UNCHANGED <<fileVars, current, generation, retired, issues, serving>>
    BY DEF liveVars
  <2>8. halt' \in {"no", "current", "retired", "done", "crashed"}
    BY DEF IInv, TypeOK, ReloadTypeOK
  <2> QED
    BY <2>1, <2>2, <2>3, <2>4, <2>5, <2>6, <2>7, <2>8 DEF IInv, TypeOK, ReloadTypeOK, fileVars
<1>4. Roles'
  BY DEF IInv, TypeOK, ReloadTypeOK, Roles, Control, fileVars, liveVars, locals
<1>5. Control'
  BY DEF IInv, TypeOK, ReloadTypeOK, Control, Booting, fileVars, liveVars, locals
<1>6. Progress'
  BY <1>2 DEF IInv, TypeOK, ReloadTypeOK, Roles, Control, Progress, Booting, fileVars, liveVars, locals
<1> QED
  BY <1>2, <1>3, <1>4, <1>5, <1>6 DEF IInv, TypeOK

LEMMA AwaitRetiredSafe ==
    ASSUME IInv, AwaitRetired
    PROVE  IInv'
<1> USE DEF AwaitRetired
<1>1. UNCHANGED rmVars /\ \A h \in Gen : phase'[h] = "unused" => phase[h] = "unused"
  BY DEF IInv, TypeOK, ReloadTypeOK, Control
<1>2. /\ RMTypeOK' /\ RuntimeInv' /\ ReadyGens' = ReadyGens
      /\ current' = current => StartingGens' = StartingGens
  BY <1>1, RuntimesUnchanged DEF IInv, TypeOK
<1>3. ReloadTypeOK'
  BY DEF IInv, TypeOK, ReloadTypeOK, Control, rmVars, fileVars, liveVars, locals, Rl, Why, Phase
<1>4. Roles'
  BY DEF IInv, TypeOK, ReloadTypeOK, Roles, Control, fileVars, liveVars, locals
<1>5. Control'
  BY DEF IInv, TypeOK, ReloadTypeOK, Control, Booting, fileVars, liveVars, locals
<1>6. Progress'
  BY <1>2 DEF IInv, TypeOK, ReloadTypeOK, Roles, Control, Progress, Booting, fileVars, liveVars, locals
<1> QED
  BY <1>2, <1>3, <1>4, <1>5, <1>6 DEF IInv, TypeOK

LEMMA SwitchSafe ==
    ASSUME IInv, Switch
    PROVE  IInv'
<1> USE DEF Switch, Return
<1>1. UNCHANGED rmVars /\ \A h \in Gen : phase'[h] = "unused" => phase[h] = "unused"
  BY DEF IInv, TypeOK, ReloadTypeOK, Control
<1>2. /\ RMTypeOK' /\ RuntimeInv' /\ ReadyGens' = ReadyGens
      /\ current' = current => StartingGens' = StartingGens
  BY <1>1, RuntimesUnchanged DEF IInv, TypeOK
<1>3. ReloadTypeOK'
  <2>1. cand \in Gen
    BY DEF IInv, TypeOK, ReloadTypeOK, Control
  <2>2. current' \in Gen /\ retired' \in SUBSET Gen /\ generation' \in Nat /\ observed' \in Nat
    BY <2>1 DEF IInv, TypeOK, ReloadTypeOK
  <2>3. rl' \in Rl /\ cand' = None /\ sig' = 0 /\ second' = FALSE /\ why' \in Why /\ broken' = {} /\ todo' = {}
    BY DEF Rl, Why
  <2>4. UNCHANGED <<files, stamp, issues, phase, serving, halt>> /\ rejected' = FALSE
    BY DEF fileVars
  <2>5. rejected' \in BOOLEAN /\ second' \in BOOLEAN
    BY ONLY <2>3, <2>4
  <2>7. sig' \in Nat /\ cand' \in Gen \cup {None}
    BY ONLY <2>3
  <2>6. broken' \in SUBSET App /\ todo' \in SUBSET Gen
    BY <2>3
  <2> HIDE DEF Switch, Return
  <2> QED
    BY <2>2, <2>3, <2>4, <2>5, <2>6, <2>7 DEF IInv, TypeOK, ReloadTypeOK
<1>4. Roles'
  BY DEF IInv, TypeOK, ReloadTypeOK, Roles, Control, fileVars, liveVars, locals
<1>5. Control'
  BY DEF IInv, TypeOK, ReloadTypeOK, Control, Booting, fileVars, liveVars, locals
<1>6. Progress'
  BY <1>2 DEF IInv, TypeOK, ReloadTypeOK, Roles, Control, Progress, Booting, fileVars, liveVars, locals
<1> QED
  BY <1>2, <1>3, <1>4, <1>5, <1>6 DEF IInv, TypeOK

\* Once start() has handled every project the generation is ready.
LEMMA StartedIsReady ==
    ASSUME NEW g \in StartingGens, toStart[g] = {}
    PROVE  g \in ReadyGens
BY DEF StartingGens, ReadyGens, Starting, Ready

LEMMA StartedSafe ==
    ASSUME IInv, Started
    PROVE  IInv'
<1> USE DEF Started, Discard
<1>1. UNCHANGED rmVars /\ \A h \in Gen : phase'[h] = "unused" => phase[h] = "unused"
  BY DEF IInv, TypeOK, ReloadTypeOK, Control
<1>2. /\ RMTypeOK' /\ RuntimeInv' /\ ReadyGens' = ReadyGens
      /\ current' = current => StartingGens' = StartingGens
  BY <1>1, RuntimesUnchanged DEF IInv, TypeOK
<1>3. ReloadTypeOK'
  <2>1. broken' \in SUBSET App
    BY DEF FailedExisting, Apps
  <2>2. rl' \in Rl
    BY DEF Rl
  <2>3. why' \in Why
    BY DEF IInv, TypeOK, ReloadTypeOK, Why
  <2>4. UNCHANGED <<fileVars, liveVars, sig, cand, second, todo, phase, serving, halt>>
    OBVIOUS
  <2> HIDE DEF Started, Discard
  <2> QED
    BY <2>1, <2>2, <2>3, <2>4 DEF IInv, TypeOK, ReloadTypeOK, fileVars, liveVars
<1>4. Roles'
  BY DEF IInv, TypeOK, ReloadTypeOK, Roles, Control, fileVars, liveVars, locals
<1>5. Control'
  BY DEF IInv, TypeOK, ReloadTypeOK, Control, Booting, fileVars, liveVars, locals
<1>6. Progress'
  BY <1>2, StartedIsReady DEF IInv, TypeOK, ReloadTypeOK, Roles, Control, Progress, Booting, fileVars, liveVars, locals
<1> QED
  BY <1>2, <1>3, <1>4, <1>5, <1>6 DEF IInv, TypeOK

-----------------------------------------------------------------------------
(* The steps in which a generation starts or closes its runtimes. *)

LEMMA BootStartSafe ==
    ASSUME IInv, BootStart
    PROVE  IInv'
<1>1. /\ RMTypeOK /\ RuntimeInv /\ current \in Gen /\ phase[current] # "unused"
      /\ current \in StartingGens /\ UNCHANGED <<phase, current>>
  BY DEF BootStart, IInv, TypeOK, ReloadTypeOK, Roles, Progress, Booting, liveVars
<1>2. /\ RMTypeOK' /\ RuntimeInv'
      /\ rl' = "booting" => current \in StartingGens'
      /\ rl' # "booting" => current \in ReadyGens'
  <2>1. CASE toStart[current] # {}
    <3>1. StartStep(current) /\ rl' = "booting"
      BY <2>1 DEF BootStart
    <3> QED
      BY <1>1, <3>1, StartStepKeeps
  <2>2. CASE toStart[current] = {}
    <3>1. UNCHANGED rmVars /\ rl' # "booting"
      BY <2>2 DEF BootStart
    <3> QED
      BY <1>1, <2>2, <3>1, StartedIsReady, RuntimesUnchanged
  <2> QED
    BY <2>1, <2>2
<1>3. ReloadTypeOK'
  BY DEF BootStart, IInv, TypeOK, ReloadTypeOK, Control, fileVars, liveVars, locals, Rl, Phase
<1>4. Roles'
  BY DEF BootStart, IInv, TypeOK, ReloadTypeOK, Roles, Control, fileVars, liveVars, locals
<1>5. Control'
  BY DEF BootStart, IInv, TypeOK, ReloadTypeOK, Control, Booting, fileVars, liveVars, locals
<1>6. Progress'
  BY <1>1, <1>2 DEF BootStart, IInv, TypeOK, ReloadTypeOK, Roles, Control, Progress, Booting, fileVars, liveVars, locals
<1> QED
  BY <1>2, <1>3, <1>4, <1>5, <1>6 DEF IInv, TypeOK

LEMMA StartSafe ==
    ASSUME IInv, Start
    PROVE  IInv'
<1>1. /\ RMTypeOK /\ RuntimeInv /\ current \in Gen /\ cand \in Gen /\ phase[cand] # "unused"
      /\ cand \in StartingGens /\ StartStep(cand) /\ UNCHANGED <<phase, current>>
  BY DEF Start, IInv, TypeOK, ReloadTypeOK, Roles, Control, Progress, liveVars
<1>2. /\ RMTypeOK' /\ RuntimeInv' /\ cand \in StartingGens' /\ ReadyGens \subseteq ReadyGens'
  BY <1>1, StartStepKeeps
<1>3. ReloadTypeOK'
  BY DEF Start, IInv, TypeOK, ReloadTypeOK, Control, fileVars, liveVars, locals, Rl, Phase
<1>4. Roles'
  BY DEF Start, IInv, TypeOK, ReloadTypeOK, Roles, Control, fileVars, liveVars, locals
<1>5. Control'
  BY DEF Start, IInv, TypeOK, ReloadTypeOK, Control, Booting, fileVars, liveVars, locals
<1>6. Progress'
  BY <1>1, <1>2 DEF Start, IInv, TypeOK, ReloadTypeOK, Roles, Control, Progress, Booting, fileVars, liveVars, locals
<1> QED
  BY <1>2, <1>3, <1>4, <1>5, <1>6 DEF IInv, TypeOK

LEMMA DiscardStepSafe ==
    ASSUME IInv, DiscardStep
    PROVE  IInv'
<1>1. /\ RMTypeOK /\ RuntimeInv /\ current \in Gen /\ cand \in Gen /\ phase[cand] # "unused"
      /\ CloseStep(cand) /\ UNCHANGED <<phase, current>>
  BY DEF DiscardStep, IInv, TypeOK, ReloadTypeOK, Roles, Control, liveVars
<1>2. RMTypeOK' /\ RuntimeInv' /\ ReadyGens \ {cand} \subseteq ReadyGens'
  BY <1>1, CloseStepKeeps
<1>3. ReloadTypeOK'
  BY DEF DiscardStep, IInv, TypeOK, ReloadTypeOK, Control, fileVars, liveVars, locals, Rl, Phase
<1>4. Roles'
  BY DEF DiscardStep, IInv, TypeOK, ReloadTypeOK, Roles, Control, fileVars, liveVars, locals
<1>5. Control'
  BY DEF DiscardStep, IInv, TypeOK, ReloadTypeOK, Control, Booting, fileVars, liveVars, locals
<1>6. Progress'
  BY <1>1, <1>2 DEF DiscardStep, IInv, TypeOK, ReloadTypeOK, Roles, Control, Progress, Booting, fileVars, liveVars, locals
<1> QED
  BY <1>2, <1>3, <1>4, <1>5, <1>6 DEF IInv, TypeOK

LEMMA RetiredStepSafe ==
    ASSUME IInv, NEW g \in Gen, RetiredStep(g)
    PROVE  IInv'
<1>1. /\ RMTypeOK /\ RuntimeInv /\ current \in Gen /\ phase[g] # "unused"
      /\ UNCHANGED current /\ g \in retired /\ g # current
      /\ \A h \in Gen : phase'[h] = "unused" => phase[h] = "unused"
  BY DEF RetiredStep, Drained, EndLife, IInv, TypeOK, ReloadTypeOK, Roles, liveVars
<1>2. /\ RMTypeOK' /\ RuntimeInv' /\ ReadyGens \ {g} \subseteq ReadyGens'
      /\ StartingGens \ {g} \subseteq StartingGens'
  <2>1. CASE Closed(g)
    <3>1. UNCHANGED rmVars
      BY <2>1 DEF RetiredStep
    <3> QED
      BY <1>1, <3>1, RuntimesUnchanged
  <2>2. CASE ~Closed(g)
    <3>1. CloseStep(g) /\ UNCHANGED phase
      BY <2>2 DEF RetiredStep
    <3> QED
      BY <1>1, <3>1, CloseStepKeeps
  <2> QED
    BY <2>1, <2>2
<1>3. ReloadTypeOK'
  BY DEF RetiredStep, Drained, Idle, EndLife, IInv, TypeOK, ReloadTypeOK, Control, fileVars, liveVars, locals, Rl, Phase
<1>4. Roles'
  BY DEF RetiredStep, Drained, Idle, EndLife, IInv, TypeOK, ReloadTypeOK, Roles, Control, fileVars, liveVars, locals
<1>5. Control'
  BY DEF RetiredStep, Drained, Idle, EndLife, IInv, TypeOK, ReloadTypeOK, Control, Booting, fileVars, liveVars, locals
<1>6. Progress'
  BY <1>1, <1>2 DEF RetiredStep, Drained, Idle, EndLife, IInv, TypeOK, ReloadTypeOK, Roles, Control, Progress, Booting, fileVars, liveVars, locals
<1> QED
  BY <1>2, <1>3, <1>4, <1>5, <1>6 DEF IInv, TypeOK

LEMMA CloseCurrentSafe ==
    ASSUME IInv, CloseCurrent
    PROVE  IInv'
<1>1. /\ RMTypeOK /\ RuntimeInv /\ current \in Gen /\ phase[current] # "unused"
      /\ UNCHANGED current
      /\ \A h \in Gen : phase'[h] = "unused" => phase[h] = "unused"
  BY DEF CloseCurrent, EndLife, IInv, TypeOK, ReloadTypeOK, Roles, liveVars
<1>2. /\ RMTypeOK' /\ RuntimeInv' /\ ReadyGens \ {current} \subseteq ReadyGens'
  <2>1. CASE Closed(current)
    <3>1. UNCHANGED rmVars
      BY <2>1 DEF CloseCurrent
    <3> QED
      BY <1>1, <3>1, RuntimesUnchanged
  <2>2. CASE ~Closed(current)
    <3>1. CloseStep(current) /\ UNCHANGED phase
      BY <2>2 DEF CloseCurrent
    <3> QED
      BY <1>1, <3>1, CloseStepKeeps
  <2> QED
    BY <2>1, <2>2
<1>3. ReloadTypeOK'
  BY DEF CloseCurrent, Idle, EndLife, IInv, TypeOK, ReloadTypeOK, Control, fileVars, liveVars, locals, Rl, Phase
<1>4. Roles'
  BY DEF CloseCurrent, Idle, EndLife, IInv, TypeOK, ReloadTypeOK, Roles, Control, fileVars, liveVars, locals
<1>5. Control'
  BY DEF CloseCurrent, Idle, EndLife, IInv, TypeOK, ReloadTypeOK, Control, Booting, fileVars, liveVars, locals
<1>6. Progress'
  BY <1>1, <1>2 DEF CloseCurrent, Idle, EndLife, IInv, TypeOK, ReloadTypeOK, Roles, Control, Progress, Booting, fileVars, liveVars, locals
<1> QED
  BY <1>2, <1>3, <1>4, <1>5, <1>6 DEF IInv, TypeOK

-----------------------------------------------------------------------------
(* The steps that build a candidate, or reject the edit. *)

LEMMA FreshIsUnused ==
    ASSUME \E g \in Gen : phase[g] = "unused"
    PROVE  Fresh \in Gen /\ phase[Fresh] = "unused"
BY DEF Fresh

LEMMA RetainIsConfig ==
    ASSUME RMTypeOK, current \in Gen, NEW c \in Config, NEW names \in SUBSET App
    PROVE  Retain(c, names) \in Config
BY DEF Retain, RMTypeOK, Config

LEMMA BuildSafe ==
    ASSUME IInv, NEW c \in Config, NEW names \in SUBSET App, NEW life \in [Gen -> Phase],
           \A g \in Gen : life[g] = "unused" <=> phase[g] = "unused",
           halt = "no", ~Booting, Build(c, names, life), second' \in BOOLEAN,
           UNCHANGED <<fileVars, current, generation, retired, serving, halt>>
    PROVE  IInv'
<1>1. /\ RMTypeOK /\ RuntimeInv /\ current \in Gen
      /\ phase[current] # "unused" /\ current \in ReadyGens
  BY DEF IInv, TypeOK, ReloadTypeOK, Roles, Progress
<1>2. CASE Reject /\ phase' = life /\ UNCHANGED <<rmVars, issues>>
  <2>1. RMTypeOK' /\ RuntimeInv' /\ ReadyGens' = ReadyGens
    BY <1>1, <1>2, RuntimesUnchanged
  <2>2. /\ rl' = "idle" /\ cand' = None /\ sig' = 0 /\ why' = "none" /\ broken' = {} /\ todo' = {}
        /\ observed' = sig /\ rejected' = TRUE
    BY <1>2 DEF Reject, Return
  <2>3. ReloadTypeOK'
    <3>1. rl' \in Rl /\ why' \in Why
      BY <2>2 DEF Rl, Why
    <3>2. rejected' \in BOOLEAN
      BY <2>2
    <3> QED
      BY <1>2, <2>2, <3>1, <3>2 DEF IInv, TypeOK, ReloadTypeOK, fileVars
  <2>4. Roles'
    BY <1>2, <2>2 DEF IInv, TypeOK, ReloadTypeOK, Roles
  <2>5. Control'
    BY <2>2 DEF Control, Booting
  <2>6. Progress'
    BY <1>1, <2>1, <2>2 DEF IInv, Progress, Booting
  <2> QED
    BY <2>1, <2>3, <2>4, <2>5, <2>6 DEF IInv, TypeOK
<1>3. ASSUME \E g \in Gen : phase[g] = "unused",
             NEW bad \in SUBSET Apps(c), Construct(Fresh, c, current, bad),
             phase' = [life EXCEPT ![Fresh] = "alive"],
             issues' = [issues EXCEPT ![Fresh] = names],
             cand' = Fresh, rl' = "start",
             UNCHANGED <<sig, why, broken, todo, observed, rejected>>
      PROVE  IInv'
  <2>1. PICK f \in Gen : f = Fresh /\ phase[f] = "unused"
    BY <1>3, FreshIsUnused
  <2>2. Construct(f, c, current, bad)
    BY <1>3, <2>1
  <2>3. \A h \in Gen : phase'[h] = "unused" => phase[h] = "unused" /\ h # f
    BY <1>3, <2>1 DEF Phase
  <2>4. /\ RMTypeOK' /\ RuntimeInv' /\ f \in StartingGens'
        /\ \A h \in ReadyGens : phase[h] # "unused" => h \in ReadyGens'
    BY <1>1, <2>1, <2>2, <2>3, ConstructKeeps
  <2>5. ReloadTypeOK'
    <3>1. phase' \in [Gen -> Phase] /\ issues' \in [Gen -> SUBSET App]
      BY <1>3, <2>1 DEF IInv, TypeOK, ReloadTypeOK, Phase
    <3>2. rl' \in Rl
      BY <1>3 DEF Rl
    <3> QED
      BY <1>3, <2>1, <3>1, <3>2 DEF IInv, TypeOK, ReloadTypeOK, fileVars
  <2>6. \A h \in Gen : phase[h] # "unused" => phase'[h] # "unused" /\ h # f
    BY <1>3, <2>1 DEF Phase
  <2>7. Roles'
    BY <1>3, <2>1, <2>3, <2>6 DEF IInv, TypeOK, ReloadTypeOK, Roles
  <2>8. Control'
    BY <1>3, <2>1 DEF Control, Booting
  <2>9. Progress'
    BY <1>1, <1>3, <2>1, <2>4 DEF IInv, TypeOK, ReloadTypeOK, Roles, Progress, Booting
  <2> QED
    BY <2>4, <2>5, <2>7, <2>8, <2>9 DEF IInv, TypeOK
<1> QED
  BY <1>2, <1>3 DEF Build

LEMMA LoadSafe ==
    ASSUME IInv, Load
    PROVE  IInv'
<1>1. RMTypeOK /\ files \in Files /\ current \in Gen /\ phase \in [Gen -> Phase]
  BY DEF IInv, TypeOK, ReloadTypeOK
<1>2. LoadConfig \in Config /\ LoadIssues \in SUBSET App
  BY <1>1, LoadConfigIsConfig
<1>3. Retain(LoadConfig, LoadIssues) \in Config
  BY <1>1, <1>2, RetainIsConfig
<1>4. halt = "no" /\ ~Booting
  BY DEF Load, IInv, Control, Booting
<1>5. second' \in BOOLEAN
  BY DEF Load, IInv, TypeOK, ReloadTypeOK
<1> QED
  BY <1>1, <1>2, <1>3, <1>4, <1>5, BuildSafe DEF Load

LEMMA RetrySafe ==
    ASSUME IInv, Retry
    PROVE  IInv'
<1>1. RMTypeOK /\ current \in Gen /\ cand \in Gen /\ phase \in [Gen -> Phase] /\ phase[cand] # "unused"
  BY DEF Retry, IInv, TypeOK, ReloadTypeOK, Roles, Control
<1>2. config[cand] \in Config /\ broken \in SUBSET App /\ issues[cand] \cup broken \in SUBSET App
  BY <1>1 DEF RMTypeOK, IInv, TypeOK, ReloadTypeOK
<1>3. Retain(config[cand], broken) \in Config
  BY <1>1, <1>2, RetainIsConfig
<1>4. /\ [phase EXCEPT ![cand] = "closed"] \in [Gen -> Phase]
      /\ \A g \in Gen : [phase EXCEPT ![cand] = "closed"][g] = "unused" <=> phase[g] = "unused"
  BY <1>1 DEF Phase
<1>5. halt = "no" /\ ~Booting
  BY DEF Retry, IInv, Control, Booting
<1>6. second' \in BOOLEAN
  BY DEF Retry
<1> QED
  BY <1>2, <1>3, <1>4, <1>5, <1>6, BuildSafe DEF Retry

-----------------------------------------------------------------------------
(* The invariant of the runtimes and the theorems that follow from it. *)

LEMMA StutterSafe ==
    ASSUME IInv, UNCHANGED vars
    PROVE  IInv'
<1>1. UNCHANGED rmVars /\ UNCHANGED phase /\ UNCHANGED current
  BY DEF vars, liveVars
<1>2. /\ RMTypeOK' /\ RuntimeInv' /\ ReadyGens' = ReadyGens /\ StartingGens' = StartingGens
  BY <1>1, RuntimesUnchanged DEF IInv, TypeOK
<1>3. ReloadTypeOK'
  BY DEF IInv, TypeOK, ReloadTypeOK, vars, fileVars, liveVars, locals
<1>4. Roles' /\ Control'
  BY DEF IInv, Roles, Control, Booting, vars, fileVars, liveVars, locals
<1>5. Progress'
  BY <1>2 DEF IInv, Progress, Booting, vars, fileVars, liveVars, locals
<1> QED
  BY <1>2, <1>3, <1>4, <1>5 DEF IInv, TypeOK

LEMMA NextSafe ==
    ASSUME IInv, [Next]_vars
    PROVE  IInv'
<1>1. CASE ReloadNow
  BY <1>1, CallSafe, PruneSafe, PrunedSafe, ScanSafe, ScanFailsSafe, LoadSafe, StartSafe,
     StartFailsSafe, StartedSafe, SwitchSafe, UnstableSafe, ConfirmFailsSafe,
     DiscardStepSafe, RetrySafe, DiscardedSafe DEF ReloadNow
<1>2. CASE \E content \in Contents : Edit(content)
  BY <1>2, EditSafe
<1>3. CASE BootSign \/ BootStart
  BY <1>3, BootSignSafe, BootStartSafe
<1>4. CASE \E q \in Request : Begin(q) \/ End(q)
  BY <1>4, BeginSafe, EndSafe
<1>5. CASE \E g \in Gen : RetiredStep(g)
  BY <1>5, RetiredStepSafe
<1>6. CASE Shutdown \/ CloseCurrent \/ AwaitRetired
  BY <1>6, ShutdownSafe, CloseCurrentSafe, AwaitRetiredSafe
<1>7. CASE Halted \/ UNCHANGED vars
  BY <1>7, StutterSafe DEF Halted
<1> QED
  BY <1>1, <1>2, <1>3, <1>4, <1>5, <1>6, <1>7 DEF Next

\* The inductive invariant holds in every reachable state of the reload.
THEOREM Invariance == Spec => []IInv
<1>1. Init => IInv
  BY InitSafe
<1>2. IInv /\ [Next]_vars => IInv'
  BY NextSafe
<1> QED
  BY <1>1, <1>2, PTL DEF Spec

\* Every variable of the reload and of the runtime managers keeps its type; in
\* particular no lease count is ever decremented below zero.
THEOREM TypeCorrect == Spec => []TypeOK
<1>1. IInv => TypeOK
  BY DEF IInv
<1> QED
  BY <1>1, Invariance, PTL

\* The lease count of a runtime is the number of generations that hold it, and
\* the runtime is open exactly while that number is not zero.
THEOREM LeasesCorrect == Spec => []LeasesCountHolders
<1>1. IInv => LeasesCountHolders
  BY DEF IInv, RuntimeInv
<1> QED
  BY <1>1, Invariance, PTL

\* A request never sees a runtime of its generation closed under it, however
\* many reloads, discards and shutdowns happen while it runs.
THEOREM ServedCorrect == Spec => []ServedRuntimesOpen
<1>1. IInv => ServedRuntimesOpen
  <2> SUFFICES ASSUME IInv, NEW q \in Request, NEW a \in App,
                      serving[q] # None, runtimeOf[serving[q]][a] # None
               PROVE  status[runtimeOf[serving[q]][a]][a] =
                        IF runtimeOf[serving[q]][a] = serving[q] /\ a \notin leasedBy[serving[q]]
                        THEN "failed" ELSE "open"
    BY DEF ServedRuntimesOpen
  <2> DEFINE g == serving[q]
  <2>1. g \in Gen /\ runtimeOf[g][a] \in Gen /\ RMTypeOK /\ LeasesCountHolders
    BY DEF IInv, TypeOK, RMTypeOK, ReloadTypeOK, RuntimeInv
  <2>2. a \in leasedBy[g] \/ OwnFailed(g, a)
    BY <2>1 DEF IInv, Progress, ReadyGens, Ready
  <2>3. CASE a \in leasedBy[g]
    BY <2>1, <2>3, HeldIsOpen
  <2>4. CASE a \notin leasedBy[g]
    BY <2>2, <2>4 DEF OwnFailed
  <2> QED
    BY <2>3, <2>4
<1> QED
  BY <1>1, Invariance, PTL

\* What a candidate borrowed is still open when its start() reaches it.
THEOREM BorrowedCorrect == Spec => []BorrowedStillOpen
<1>1. IInv => BorrowedStillOpen
  <2> SUFFICES ASSUME IInv, rl = "start", NEW a \in toStart[cand], runtimeOf[cand][a] # cand
               PROVE  Available(cand, a)
    BY DEF BorrowedStillOpen, Borrowed
  <2>1. cand \in Gen /\ current \in Gen /\ RMTypeOK /\ LeasesCountHolders /\ Disjoint
    BY DEF IInv, TypeOK, ReloadTypeOK, RuntimeInv, Control
  <2>2. Startable(cand, a)
    BY DEF IInv, Progress, StartingGens, Starting
  <2>3. a \in leasedBy[current] /\ runtimeOf[cand][a] = runtimeOf[current][a]
    BY <2>2 DEF Startable
  <2>4. runtimeOf[current][a] \in Gen
    BY <2>1, <2>3 DEF Disjoint, RMTypeOK
  <2> QED
    BY <2>1, <2>3, <2>4, HeldIsOpen DEF Available
<1> QED
  BY <1>1, Invariance, PTL

-----------------------------------------------------------------------------
(* The generations that drain.  A generation that lives is the current     *)
(* one, the candidate or in the retired list, and the walk over that list  *)
(* lets a reload go on only when one generation is left in it.             *)

LEMMA RetiredIsFinite ==
    ASSUME IInv
    PROVE  /\ IsFiniteSet(retired) /\ Cardinality(retired) \in Nat
           /\ \A g : /\ Cardinality(retired \ {g}) <= Cardinality(retired)
                    /\ Cardinality(retired \ {g}) \in Nat
                    /\ Cardinality(retired \cup {g}) <= Cardinality(retired) + 1
                    /\ Cardinality(retired \cup {g}) \in Nat
<1>1. retired \subseteq Gen
  BY DEF IInv, TypeOK, ReloadTypeOK
<1>2. IsFiniteSet(retired)
  BY <1>1, GenIsFinite, FS_Subset
<1>3. Cardinality(retired) \in Nat
  BY <1>2, FS_CardinalityType
<1>4. ASSUME NEW g
      PROVE  /\ Cardinality(retired \ {g}) <= Cardinality(retired)
             /\ Cardinality(retired \ {g}) \in Nat
             /\ Cardinality(retired \cup {g}) <= Cardinality(retired) + 1
             /\ Cardinality(retired \cup {g}) \in Nat
  <2>1. Cardinality(retired \ {g}) <= Cardinality(retired)
    BY <1>2, <1>3, FS_RemoveElement
  <2>2. Cardinality(retired \cup {g}) <= Cardinality(retired) + 1
    <3>1. \/ Cardinality(retired \cup {g}) = Cardinality(retired)
          \/ Cardinality(retired \cup {g}) = Cardinality(retired) + 1
      BY <1>2, FS_AddElement
    <3> QED
      BY <1>3, <3>1
  <2>3. /\ Cardinality(retired \ {g}) \in Nat
        /\ Cardinality(retired \cup {g}) \in Nat
    BY <1>2, FS_AddElement, FS_RemoveElement, FS_CardinalityType
  <2> QED
    BY <2>1, <2>2, <2>3
<1> QED
  BY <1>2, <1>3, <1>4

DrainFacts ==
    /\ phase \in [Gen -> Phase] /\ current \in Gen /\ cand \in Gen \cup {None}
    /\ retired \subseteq Gen

LEMMA DrainInitSafe ==
    ASSUME Init
    PROVE  DrainInv
<1>1. Cardinality({}) = 0
  BY FS_EmptySet
<1> QED
  BY <1>1 DEF Init, DrainInv

\* What each step does to the generations, the retired list and the bound.
LEMMA DrainNextSafe ==
    ASSUME IInv, DrainInv, [Next]_vars
    PROVE  DrainInv'
<1> DEFINE Counted == rl \in {"scan", "load", "start", "confirm", "discard"}
           DrainKept == /\ UNCHANGED <<current, retired>>
                        /\ \A g \in Gen : phase'[g] = "alive" => phase[g] = "alive" \/ g = cand'
                        /\ cand # None /\ cand' # cand => phase'[cand] # "alive"
                        /\ Counted' => Counted
<1>1. DrainFacts /\ Cardinality(retired) \in Nat
  BY RetiredIsFinite DEF DrainFacts, IInv, TypeOK, ReloadTypeOK
<1>2. ASSUME DrainKept PROVE DrainInv'
  BY <1>1, <1>2 DEF DrainInv, DrainFacts
<1> USE DEF Await, Return, Discard, Reject, EndLife, Abandon, Drained,
            fileVars, liveVars, locals, vars, Booting
<1>3. CASE \E g \in Gen : Prune(g)
  <2>1. PICK g \in Gen : Prune(g)
    BY <1>3
  <2>2. CASE phase[g] = "closed" /\ retired' = retired \ {g}
    <3>1. Cardinality(retired') <= Cardinality(retired) /\ Cardinality(retired') \in Nat
      BY <2>2, RetiredIsFinite
    <3>2. Cardinality(retired') <= 2
      BY <1>1, <3>1 DEF DrainInv
    <3> QED
      BY <1>1, <2>1, <2>2, <3>2 DEF Prune, DrainInv, DrainFacts
  <2>3. CASE UNCHANGED retired
    BY <1>2, <2>1, <2>3 DEF Prune
  <2> QED
    BY <2>1, <2>2, <2>3 DEF Prune
<1>4. CASE Pruned
  BY <1>1, <1>4 DEF Pruned, DrainInv, DrainFacts
<1>5. CASE Switch
  <2>1. /\ retired' = retired \cup {current} /\ current' = cand /\ cand' = None
        /\ rl' = "idle" /\ phase' = phase /\ Cardinality(retired) <= 1
    BY <1>5 DEF Switch, DrainInv
  <2>2. Cardinality(retired') <= 2
    <3>1. Cardinality(retired') <= Cardinality(retired) + 1 /\ Cardinality(retired') \in Nat
      BY <2>1, RetiredIsFinite
    <3> QED
      BY <1>1, <2>1, <3>1
  <2>3. \A g \in Gen : phase[g] = "alive" => g = current' \/ g \in retired'
    BY <2>1 DEF DrainInv
  <2> QED
    BY <2>1, <2>2, <2>3 DEF DrainInv
<1>6. CASE Load
  <2>1. phase' = phase \/ (phase' = [phase EXCEPT ![Fresh] = "alive"] /\ cand' = Fresh /\ Fresh \in Gen)
    BY <1>6, FreshIsUnused DEF Load, Build
  <2>2. cand = None
    BY <1>6 DEF Load, IInv, Control
  <2> QED
    BY <1>1, <1>2, <1>6, <2>1, <2>2 DEF Load, Build, DrainFacts
<1>7. CASE Retry
  <2>1. cand \in Gen
    BY <1>7 DEF Retry, IInv, TypeOK, ReloadTypeOK, Control
  <2> DEFINE life == [phase EXCEPT ![cand] = "closed"]
  <2>2. \/ phase' = life /\ cand' = None
        \/ phase' = [life EXCEPT ![Fresh] = "alive"] /\ cand' = Fresh /\ Fresh \in Gen /\ Fresh # cand
    BY <1>1, <1>7, <2>1, FreshIsUnused DEF Retry, Build, DrainFacts, IInv, Roles
  <2> QED
    BY <1>1, <1>2, <1>7, <2>1, <2>2 DEF Retry, Build, DrainFacts
<1>8. CASE Discarded
  BY <1>1, <1>2, <1>8 DEF Discarded, DrainFacts, IInv, Control
<1>9. CASE Call \/ Scan \/ ScanFails \/ Start \/ StartFails \/ Started \/ Unstable \/ ConfirmFails \/ DiscardStep
  BY <1>1, <1>2, <1>9 DEF Call, Scan, ScanFails, Start, StartFails, Started, Unstable, ConfirmFails, DiscardStep, DrainFacts
<1>10. CASE (\E content \in Contents : Edit(content)) \/ (\E q \in Request : Begin(q) \/ End(q))
  BY <1>2, <1>10 DEF Edit, Begin, End
<1>11. CASE BootSign \/ BootStart \/ AwaitRetired \/ Halted \/ UNCHANGED vars
  BY <1>2, <1>11 DEF BootSign, BootStart, AwaitRetired, Halted
<1>12. CASE (\E g \in Gen : RetiredStep(g)) \/ CloseCurrent
  BY <1>1, <1>2, <1>12 DEF RetiredStep, CloseCurrent, DrainFacts
<1>13. CASE Shutdown
  BY <1>1, <1>2, <1>13 DEF Shutdown, CancelPrune, CancelDiscard, CancelCandidate, CancelQuiet, DrainFacts, IInv, Control
<1> QED
  BY <1>3, <1>4, <1>5, <1>6, <1>7, <1>8, <1>9, <1>10, <1>11, <1>12, <1>13 DEF Next, ReloadNow

\* "At most two old generations may drain" holds for every number of
\* generations, requests and edits.
THEOREM DrainingCorrect == Spec => []DrainingIsBounded
<1>1. Init => DrainInv
  BY DrainInitSafe
<1>2. IInv /\ DrainInv /\ [Next]_vars => DrainInv'
  BY DrainNextSafe
<1>3. IInv /\ DrainInv => DrainingIsBounded
  <2> SUFFICES ASSUME IInv, DrainInv PROVE DrainingIsBounded
    OBVIOUS
  <2> DEFINE draining == {g \in Gen : phase[g] = "alive" /\ g # current /\ g # cand}
  <2>1. draining \subseteq retired
    BY DEF DrainInv
  <2>2. IsFiniteSet(draining) /\ Cardinality(draining) <= Cardinality(retired)
    BY <2>1, RetiredIsFinite, FS_Subset
  <2>3. Cardinality(draining) \in Nat
    BY <2>2, FS_CardinalityType
  <2> QED
    BY <2>2, <2>3, RetiredIsFinite DEF DrainInv, DrainingIsBounded
<1> QED
  BY <1>1, <1>2, <1>3, Invariance, PTL DEF Spec

-----------------------------------------------------------------------------
(* The routes. *)

\* load_config_resilient quarantines every participant of a conflict.
LEMMA LoadedConfigHasOneOwner ==
    ASSUME files \in Files
    PROVE  ~Conflicting(LoadConfig)
<1> SUFFICES ASSUME NEW a \in Apps(LoadConfig), NEW b \in Apps(LoadConfig) \ {a},
                    Claims[LoadConfig[a]] = Claims[LoadConfig[b]]
             PROVE  FALSE
  BY DEF Conflicting, Clash
<1>1. /\ a \in App /\ a \notin Quarantined /\ LoadConfig[a] = Parsed[a] /\ Parsed[a] # None
      /\ b \in App /\ b \notin Quarantined /\ LoadConfig[b] = Parsed[b] /\ Parsed[b] # None
  BY DEF Apps, LoadConfig
<1>2. a \in Quarantined
  BY <1>1 DEF Quarantined, Clash, Apps
<1> QED
  BY <1>1, <1>2

LEMMA RoutesInitSafe ==
    ASSUME Init
    PROVE  RoutesInv
<1>1. Boot \in Gen /\ current = Boot /\ files \in Files
  BY GenIsNotEmpty DEF Boot, Init, Files
<1>2. config[current] = LoadConfig
  BY <1>1 DEF Init
<1> QED
  BY <1>1, <1>2, LoadedConfigHasOneOwner, LoadConfigIsConfig DEF RoutesInv, OneOwnerConfigs, Init

LEMMA BuildKeepsRoutes ==
    ASSUME IInv, RoutesInv, NEW c \in Config, NEW names, NEW life,
           Build(c, names, life), current' = current
    PROVE  RoutesInv'
<1>1. RMTypeOK /\ current \in Gen /\ phase[current] # "unused"
  BY DEF IInv, TypeOK, ReloadTypeOK, Roles
<1>2. CASE cand' = None /\ UNCHANGED config
  BY <1>2 DEF RoutesInv
<1>3. CASE /\ ~Conflicting(c) /\ cand' = Fresh
           /\ (\E g \in Gen : phase[g] = "unused")
           /\ config' = [config EXCEPT ![Fresh] = c]
  <2>1. Fresh \in Gen /\ Fresh # current
    BY <1>1, <1>3, FreshIsUnused
  <2>2. config'[current] = config[current] /\ config'[Fresh] = c
    BY <1>1, <1>3, <2>1 DEF RMTypeOK
  <2>3. c \in OneOwnerConfigs
    BY <1>3 DEF OneOwnerConfigs
  <2> QED
    BY <1>3, <2>2, <2>3 DEF RoutesInv
<1> QED
  BY <1>2, <1>3 DEF Build, Reject, Return, Construct, rmVars

LEMMA RoutesNextSafe ==
    ASSUME IInv, RoutesInv, [Next]_vars
    PROVE  RoutesInv'
<1> DEFINE Same == /\ UNCHANGED <<config, current>>
                   /\ cand' = cand \/ cand' = None
<1>1. ASSUME Same PROVE RoutesInv'
  BY <1>1 DEF RoutesInv
<1>2. RMTypeOK /\ current \in Gen /\ files \in Files /\ cand \in Gen \cup {None}
      /\ LoadConfig \in Config /\ LoadIssues \in SUBSET App
  BY LoadConfigIsConfig DEF IInv, TypeOK, ReloadTypeOK
<1> USE DEF Await, Return, Discard, Reject, rmVars, fileVars, liveVars, locals, vars
<1>3. CASE Load
  <2>1. Retain(LoadConfig, LoadIssues) \in Config
    BY <1>2, RetainIsConfig
  <2> QED
    BY <1>3, <2>1, BuildKeepsRoutes DEF Load
<1>4. CASE Retry
  <2>1. config[cand] \in Config /\ broken \in SUBSET App
    BY <1>2, <1>4 DEF Retry, RMTypeOK, IInv, TypeOK, ReloadTypeOK, Control
  <2>2. Retain(config[cand], broken) \in Config
    BY <1>2, <2>1, RetainIsConfig
  <2> QED
    BY <1>4, <2>2, BuildKeepsRoutes DEF Retry
<1>5. CASE Switch
  BY <1>2, <1>5 DEF Switch, RoutesInv, IInv, Control
<1>6. ASSUME NEW g, StartStep(g) \/ CloseStep(g) PROVE UNCHANGED config
  BY <1>6 DEF StartStep, LeaseRunning, BeginOpen, FinishOpen, FailOpen, Take,
              CloseStep, ReleaseLease, ReleaseUnleased, Dispose
<1>7. CASE BootSign \/ BootStart \/ Start \/ DiscardStep
  BY <1>1, <1>6, <1>7 DEF BootSign, BootStart, Start, DiscardStep
<1>8. CASE (\E g \in Gen : RetiredStep(g)) \/ CloseCurrent
  BY <1>1, <1>6, <1>8 DEF RetiredStep, CloseCurrent
<1>9. CASE Call \/ (\E g \in Gen : Prune(g)) \/ Pruned \/ Scan \/ ScanFails \/ StartFails
           \/ Started \/ Unstable \/ ConfirmFails \/ Discarded
  BY <1>1, <1>9 DEF Call, Prune, Pruned, Scan, ScanFails, StartFails, Started, Unstable,
                    ConfirmFails, Discarded
<1>10. CASE (\E content \in Contents : Edit(content)) \/ (\E q \in Request : Begin(q) \/ End(q))
  BY <1>1, <1>10 DEF Edit, Begin, End
<1>11. CASE Shutdown \/ AwaitRetired \/ Halted \/ UNCHANGED vars
  BY <1>1, <1>11 DEF Shutdown, CancelPrune, CancelDiscard, CancelCandidate, CancelQuiet,
                     AwaitRetired, Halted
<1> QED
  BY <1>3, <1>4, <1>5, <1>7, <1>8, <1>9, <1>10, <1>11 DEF Next, ReloadNow

LEMMA RoutesInvariant == Spec => [](IInv /\ RoutesInv)
<1>1. Init => RoutesInv
  BY RoutesInitSafe
<1>2. IInv /\ RoutesInv /\ [Next]_vars => RoutesInv'
  BY RoutesNextSafe
<1> QED
  BY <1>1, <1>2, Invariance, PTL DEF Spec

\* Whatever the files claim and however reloads fail, no two applications of
\* the generation that serves own the same route.
THEOREM RoutesCorrect == Spec => []RoutesHaveOneOwner
<1>1. RoutesInv => RoutesHaveOneOwner
  BY DEF RoutesInv, OneOwnerConfigs, RoutesHaveOneOwner
<1> QED
  BY <1>1, RoutesInvariant, PTL

-----------------------------------------------------------------------------
(* The runtimes that somebody has yet to close. *)

\* start() opens runtimes of its own generation only, and leaves to close()
\* whatever it opens or leases.
LEMMA StartStepKept ==
    ASSUME RMTypeOK, RuntimeInv, Kept, NEW g \in Gen, Starting(g), Untouched(g),
           current \in Gen, StartStep(g)
    PROVE  Kept' /\ Untouched(g)' /\ UNCHANGED <<toClose, disposing, runtimeOf>>
<1>1. PICK a \in App : LeaseRunning(g, a) \/ BeginOpen(g, a) \/ FinishOpen(g, a) \/ FailOpen(g, a)
  BY DEF StartStep
<1> DEFINE x == runtimeOf[g][a]
<1>2. a \in toStart[g] /\ a \in toClose[g] /\ x \in Gen /\ a \notin leasedBy[g]
  BY <1>1 DEF LeaseRunning, BeginOpen, FinishOpen, FailOpen, Untouched, RuntimeInv, Disjoint, RMTypeOK
<1>3. /\ UNCHANGED <<toClose, disposing, runtimeOf>>
      /\ toStart'[g] \subseteq toStart[g]
      /\ \A h \in Gen : leasedBy'[h] \subseteq leasedBy[h] \cup (IF h = g THEN {a} ELSE {})
      /\ \A h \in Gen, b \in App : <<h, b>> # <<x, a>> => status'[h][b] = status[h][b]
  BY <1>1, <1>2 DEF LeaseRunning, BeginOpen, FinishOpen, FailOpen, Take, RMTypeOK
<1>4. status'[x][a] = "opening" => x = g
  <2>1. CASE BeginOpen(g, a)
    <3>1. ~Available(g, a) /\ Startable(g, a)
      BY <1>2, <2>1 DEF BeginOpen, Starting
    <3>2. CASE a \in leasedBy[current] /\ x = runtimeOf[current][a]
      <4>1. status[x][a] = "open"
        BY <1>2, <3>2, HeldIsOpen DEF RuntimeInv
      <4> QED
        BY <1>2, <3>1, <4>1 DEF Available
    <3> QED
      BY <3>1, <3>2 DEF Startable
  <2>2. CASE LeaseRunning(g, a) \/ FinishOpen(g, a) \/ FailOpen(g, a)
    BY <1>2, <2>2 DEF LeaseRunning, FinishOpen, FailOpen, Available, RMTypeOK
  <2> QED
    BY <1>1, <2>1, <2>2
<1>5. status'[x][a] # "closing"
  BY <1>1, <1>2 DEF LeaseRunning, BeginOpen, FinishOpen, FailOpen, Available, RMTypeOK
<1>6. Untouched(g)'
  BY <1>3 DEF Untouched
<1>7. \A h \in Gen : /\ leasedBy'[h] \subseteq toClose'[h]
                     /\ disposing'[h] # None => disposing'[h] \in toClose'[h] \ leasedBy'[h]
  BY <1>2, <1>3 DEF Kept, Untouched
<1>8. ASSUME NEW h \in Gen, NEW b \in App
      PROVE  /\ status'[h][b] = "opening" => runtimeOf'[h][b] = h /\ b \in toClose'[h]
             /\ status'[h][b] = "closing" => \E i \in Gen : disposing'[i] = b /\ runtimeOf'[i][b] = h
  BY <1>2, <1>3, <1>4, <1>5 DEF Kept
<1> QED
  BY <1>3, <1>6, <1>7, <1>8 DEF Kept

\* close() handles an application only when nothing of its runtime is left to
\* close by this generation.
LEMMA CloseStepKept ==
    ASSUME RMTypeOK, RuntimeInv, Kept, NEW g \in Gen, CloseStep(g)
    PROVE  Kept' /\ \A h \in Gen : /\ toClose'[h] \subseteq toClose[h]
                                   /\ h # g /\ Untouched(h) => Untouched(h)'
<1>1. RMTypeOK /\ Disjoint /\ LeasesCountHolders
  BY DEF RuntimeInv
<1>2. /\ UNCHANGED <<runtimeOf, toStart>>
      /\ \A h \in Gen : toClose'[h] \subseteq toClose[h] /\ leasedBy'[h] \subseteq leasedBy[h]
      /\ \A h \in Gen \ {g} : /\ toClose'[h] = toClose[h] /\ leasedBy'[h] = leasedBy[h]
                             /\ disposing'[h] = disposing[h]
  <2>1. CASE \E a \in App : ReleaseLease(g, a) \/ ReleaseUnleased(g, a)
    <3>1. PICK a \in App : ReleaseLease(g, a) \/ ReleaseUnleased(g, a)
      BY <2>1
    <3>2. /\ UNCHANGED <<runtimeOf, toStart>>
          /\ leasedBy' = [leasedBy EXCEPT ![g] = @ \ {a}] \/ leasedBy' = leasedBy
          /\ Skip(g, a) \/ Close(g, a)
      BY <3>1 DEF ReleaseLease, ReleaseUnleased
    <3>3. \A h \in Gen : /\ leasedBy'[h] \subseteq leasedBy[h]
                         /\ h # g => leasedBy'[h] = leasedBy[h]
      BY <1>1, <3>2 DEF RMTypeOK
    <3>4. \A h \in Gen : /\ toClose'[h] \subseteq toClose[h]
                         /\ h # g => toClose'[h] = toClose[h] /\ disposing'[h] = disposing[h]
      BY <1>1, <3>2 DEF Skip, Close, RMTypeOK
    <3> QED
      BY <3>2, <3>3, <3>4
  <2>2. CASE Dispose(g)
    BY <1>1, <2>2 DEF Dispose, RMTypeOK
  <2> QED
    BY <2>1, <2>2 DEF CloseStep
<1>3. \A h \in Gen : h # g /\ Untouched(h) => Untouched(h)'
  BY <1>2 DEF Untouched
<1>4. ASSUME NEW a \in App, runtimeOf[g][a] \in Gen, disposing[g] = None, a \in toClose[g],
             leasedBy'[g] = leasedBy[g] \ {a}, Close(g, a)
      PROVE  Kept'
  <2> DEFINE x == runtimeOf[g][a]
  <2>1. /\ status'[x][a] = "closing" /\ disposing'[g] = a /\ toClose' = toClose
        /\ \A h \in Gen, b \in App : <<h, b>> # <<x, a>> => status'[h][b] = status[h][b]
    BY <1>1, <1>4 DEF Close, RMTypeOK
  <2>2. \A h \in Gen : /\ leasedBy'[h] \subseteq toClose'[h]
                       /\ disposing'[h] # None => disposing'[h] \in toClose'[h] \ leasedBy'[h]
    BY <1>2, <1>4, <2>1 DEF Kept
  <2>3. ASSUME NEW h \in Gen, NEW b \in App, status'[h][b] = "opening"
        PROVE  runtimeOf'[h][b] = h /\ b \in toClose'[h]
    BY <1>2, <2>1, <2>3 DEF Kept
  <2>4. ASSUME NEW h \in Gen, NEW b \in App, status'[h][b] = "closing"
        PROVE  \E i \in Gen : disposing'[i] = b /\ runtimeOf'[i][b] = h
    <3>1. CASE h = x /\ b = a
      BY <1>2, <2>1, <3>1
    <3>2. CASE ~(h = x /\ b = a)
      <4>1. PICK i \in Gen : disposing[i] = b /\ runtimeOf[i][b] = h
        BY <2>1, <2>4, <3>2 DEF Kept
      <4> QED
        BY <1>2, <1>4, <4>1
    <3> QED
      BY <3>1, <3>2
  <2> QED
    BY <2>2, <2>3, <2>4 DEF Kept
<1>5. ASSUME NEW a \in App, disposing[g] = None, leasedBy'[g] = leasedBy[g] \ {a}, Skip(g, a),
             ~(runtimeOf[g][a] = g /\ status[g][a] = "opening")
      PROVE  Kept'
  <2>1. /\ UNCHANGED <<status, disposing>> /\ toClose'[g] = toClose[g] \ {a}
    BY <1>1, <1>5 DEF Skip, RMTypeOK
  <2>2. \A h \in Gen : /\ leasedBy'[h] \subseteq toClose'[h]
                       /\ disposing'[h] # None => disposing'[h] \in toClose'[h] \ leasedBy'[h]
    BY <1>2, <1>5, <2>1 DEF Kept
  <2>3. \A h \in Gen, b \in App : status'[h][b] = "opening" => runtimeOf'[h][b] = h /\ b \in toClose'[h]
    BY <1>2, <1>5, <2>1 DEF Kept
  <2>4. \A h \in Gen, b \in App :
            status'[h][b] = "closing" => \E i \in Gen : disposing'[i] = b /\ runtimeOf'[i][b] = h
    BY <1>2, <2>1 DEF Kept
  <2> QED
    BY <2>2, <2>3, <2>4 DEF Kept
<1>6. ASSUME \E a \in App : ReleaseLease(g, a) PROVE Kept'
  <2>1. PICK a \in App : ReleaseLease(g, a)
    BY <1>6
  <2>2. a \in leasedBy[g] /\ a \in toClose[g] /\ disposing[g] = None /\ leasedBy'[g] = leasedBy[g] \ {a}
    BY <1>1, <2>1 DEF ReleaseLease, RMTypeOK
  <2>3. runtimeOf[g][a] \in Gen
    BY <1>1, <2>2 DEF Disjoint, RMTypeOK
  <2>4. status[runtimeOf[g][a]][a] = "open"
    BY <1>1, <2>2, <2>3, HeldIsOpen
  <2>5. Skip(g, a) \/ Close(g, a)
    BY <2>1 DEF ReleaseLease
  <2> QED
    BY <1>4, <1>5, <2>2, <2>3, <2>4, <2>5
<1>7. ASSUME \E a \in App : ReleaseUnleased(g, a) PROVE Kept'
  <2>1. PICK a \in App : ReleaseUnleased(g, a)
    BY <1>7
  <2>2. a \in toClose[g] /\ disposing[g] = None /\ leasedBy' = leasedBy /\ a \notin leasedBy[g]
    BY <2>1 DEF ReleaseUnleased
  <2>3. leasedBy'[g] = leasedBy[g] \ {a}
    BY <2>2
  <2>4. CASE runtimeOf[g][a] = g /\ status[g][a] = "opening"
    <3>1. Close(g, a)
      BY <2>1, <2>4 DEF ReleaseUnleased, Borrowed
    <3> QED
      BY <1>4, <2>2, <2>3, <2>4, <3>1
  <2>5. CASE ~(runtimeOf[g][a] = g /\ status[g][a] = "opening")
    <3>1. Skip(g, a)
      BY <2>1, <2>5 DEF ReleaseUnleased, Borrowed
    <3> QED
      BY <1>5, <2>2, <2>3, <2>5, <3>1
  <2> QED
    BY <2>4, <2>5
<1>8. ASSUME Dispose(g) PROVE Kept'
  <2> DEFINE a == disposing[g]
             x == runtimeOf[g][a]
  <2>1. a \in App /\ x \in Gen /\ a \notin leasedBy[g]
    BY <1>1, <1>8 DEF Dispose, RMTypeOK, RuntimeInv, DisposedIsClosing, Kept
  <2>2. /\ status'[x][a] = "closed" /\ disposing'[g] = None /\ toClose'[g] = toClose[g] \ {a}
        /\ leasedBy' = leasedBy
        /\ \A h \in Gen, b \in App : <<h, b>> # <<x, a>> => status'[h][b] = status[h][b]
    BY <1>1, <1>8, <2>1 DEF Dispose, RMTypeOK
  <2>3. \A h \in Gen : /\ leasedBy'[h] \subseteq toClose'[h]
                       /\ disposing'[h] # None => disposing'[h] \in toClose'[h] \ leasedBy'[h]
    BY <1>2, <2>1, <2>2 DEF Kept
  <2>4. ASSUME NEW h \in Gen, NEW b \in App, status'[h][b] = "opening"
        PROVE  runtimeOf'[h][b] = h /\ b \in toClose'[h]
    <3>1. status[h][b] = "opening" /\ ~(h = x /\ b = a)
      BY <2>1, <2>2, <2>4
    <3>2. runtimeOf[h][b] = h /\ b \in toClose[h]
      BY <3>1 DEF Kept
    <3> QED
      BY <1>2, <2>2, <3>1, <3>2
  <2>5. ASSUME NEW h \in Gen, NEW b \in App, status'[h][b] = "closing"
        PROVE  \E i \in Gen : disposing'[i] = b /\ runtimeOf'[i][b] = h
    <3>1. status[h][b] = "closing" /\ ~(h = x /\ b = a)
      BY <2>1, <2>2, <2>5
    <3>2. PICK i \in Gen : disposing[i] = b /\ runtimeOf[i][b] = h
      BY <3>1 DEF Kept
    <3> QED
      BY <1>2, <3>1, <3>2
  <2>6. \A h \in Gen, b \in App :
            /\ status'[h][b] = "opening" => runtimeOf'[h][b] = h /\ b \in toClose'[h]
            /\ status'[h][b] = "closing" => \E i \in Gen : disposing'[i] = b /\ runtimeOf'[i][b] = h
    BY <2>4, <2>5
  <2> QED
    BY <2>3, <2>6 DEF Kept
<1> QED
  BY <1>2, <1>3, <1>6, <1>7, <1>8 DEF CloseStep

\* A new generation keeps what it is built with, and was unused before.
LEMMA ConstructKept ==
    ASSUME RMTypeOK, RuntimeInv, Kept, NEW f \in Gen, phase[f] = "unused",
           NEW c \in Config, NEW bad \in SUBSET Apps(c), Construct(f, c, current, bad)
    PROVE  Kept' /\ Untouched(f)' /\ \A h \in Gen \ {f} : /\ toClose'[h] = toClose[h]
                                                          /\ Untouched(h) => Untouched(h)'
<1>1. leasedBy[f] = {} /\ disposing[f] = None /\ \A h \in Gen, a \in App : runtimeOf[h][a] # f
  BY DEF RuntimeInv, UnusedIsBlank
<1>2. /\ UNCHANGED <<leasedBy, disposing>>
      /\ \A h \in Gen \ {f} : /\ runtimeOf'[h] = runtimeOf[h] /\ status'[h] = status[h]
                             /\ toStart'[h] = toStart[h] /\ toClose'[h] = toClose[h]
      /\ toStart'[f] = Apps(c) \ bad /\ toClose'[f] = Apps(c)
      /\ \A a \in App : status'[f][a] \in {"new", "failed"}
  BY DEF Construct, RMTypeOK
<1>3. Untouched(f)' /\ \A h \in Gen \ {f} : Untouched(h) => Untouched(h)'
  BY <1>1, <1>2 DEF Untouched
<1>4. \A h \in Gen : /\ leasedBy'[h] \subseteq toClose'[h]
                     /\ disposing'[h] # None => disposing'[h] \in toClose'[h] \ leasedBy'[h]
  BY <1>1, <1>2 DEF Kept
<1>5. ASSUME NEW h \in Gen, NEW a \in App
      PROVE  /\ status'[h][a] = "opening" => runtimeOf'[h][a] = h /\ a \in toClose'[h]
             /\ status'[h][a] = "closing" => \E i \in Gen : disposing'[i] = a /\ runtimeOf'[i][a] = h
  BY <1>1, <1>2 DEF Kept
<1> QED
  BY <1>2, <1>3, <1>4, <1>5 DEF Kept

\* A step that leaves the runtimes alone and ends no generation that has any.
LEMMA KeepersUnchanged ==
    ASSUME KeepInv, UNCHANGED rmVars,
           \A g \in Gen : toClose[g] # {} => phase'[g] \in {"alive", "abandoned"},
           Booting' => Booting /\ current' = current,
           rl' = "start" => rl = "start" /\ cand' = cand
    PROVE  KeepInv'
<1>1. Kept'
  BY DEF KeepInv, Kept, rmVars
<1>2. \A g : Untouched(g) => toStart'[g] \subseteq toClose'[g] /\ disposing'[g] = None
  BY DEF Untouched, rmVars
<1>3. (Booting' => Untouched(current)') /\ (rl' = "start" => Untouched(cand)')
  BY <1>2 DEF KeepInv, Untouched
<1> QED
  BY <1>1, <1>3 DEF KeepInv, rmVars

LEMMA BuildKeepsKeepers ==
    ASSUME IInv, KeepInv, NEW c \in Config, NEW names, NEW life \in [Gen -> Phase],
           Build(c, names, life), rl \in {"load", "discard"},
           \A g \in Gen : life[g] = phase[g] \/ toClose[g] = {}
    PROVE  KeepInv'
<1>1. RMTypeOK /\ RuntimeInv /\ Kept
  BY DEF IInv, TypeOK, KeepInv
<1>2. CASE Reject /\ phase' = life /\ UNCHANGED rmVars
  <2>1. \A g \in Gen : toClose[g] # {} => phase'[g] \in {"alive", "abandoned"}
    BY <1>2 DEF KeepInv
  <2> QED
    BY <1>2, <2>1, KeepersUnchanged DEF Reject, Return, Booting
<1>3. CASE /\ cand' = Fresh /\ rl' = "start"
           /\ (\E g \in Gen : phase[g] = "unused")
           /\ (\E bad \in SUBSET Apps(c) : Construct(Fresh, c, current, bad))
           /\ phase' = [life EXCEPT ![Fresh] = "alive"]
  <2>1. Fresh \in Gen /\ phase[Fresh] = "unused"
    BY <1>3, FreshIsUnused
  <2>2. /\ Kept' /\ toStart'[Fresh] \subseteq toClose'[Fresh] /\ disposing'[Fresh] = None
        /\ \A h \in Gen \ {Fresh} : toClose'[h] = toClose[h]
    BY <1>1, <1>3, <2>1, ConstructKept DEF Untouched
  <2>3. phase'[Fresh] = "alive" /\ \A h \in Gen \ {Fresh} : phase'[h] = life[h]
    BY <1>3, <2>1
  <2>4. \A h \in Gen : toClose'[h] # {} => phase'[h] \in {"alive", "abandoned"}
    BY <2>2, <2>3 DEF KeepInv
  <2>5. Untouched(cand)'
    BY <1>3, <2>2 DEF Untouched
  <2> QED
    BY <1>3, <2>2, <2>4, <2>5 DEF KeepInv, Booting
<1> QED
  BY <1>2, <1>3 DEF Build

LEMMA KeepersNextSafe ==
    ASSUME IInv, KeepInv, [Next]_vars
    PROVE  KeepInv'
<1>1. /\ RMTypeOK /\ RuntimeInv /\ Kept /\ current \in Gen /\ phase \in [Gen -> Phase]
      /\ cand \in Gen \cup {None} /\ files \in Files /\ issues \in [Gen -> SUBSET App]
  BY DEF IInv, TypeOK, ReloadTypeOK, KeepInv
<1>2. \A g \in StartingGens : g \in Gen /\ Starting(g)
  BY DEF StartingGens
<1>3. CASE BootStart
  <2>1. CASE toStart[current] # {}
    <3>1. /\ StartStep(current) /\ UNCHANGED <<rl, current, phase, cand>>
          /\ Starting(current) /\ Untouched(current)
      BY <1>2, <1>3, <2>1 DEF BootStart, Booting, IInv, Progress, KeepInv, locals, liveVars
    <3>2. Kept' /\ Untouched(current)' /\ toClose' = toClose
      BY <1>1, <3>1, StartStepKept
    <3> QED
      BY <1>3, <3>1, <3>2 DEF BootStart, KeepInv, Booting, Untouched
  <2>2. CASE toStart[current] = {}
    BY <1>1, <1>3, <2>2, KeepersUnchanged DEF BootStart, Booting, KeepInv, locals, liveVars
  <2> QED
    BY <2>1, <2>2
<1>4. CASE Start
  <2>1. /\ StartStep(cand) /\ UNCHANGED <<rl, current, phase, cand>> /\ rl = "start"
        /\ cand \in Gen /\ Starting(cand) /\ Untouched(cand)
    BY <1>2, <1>4 DEF Start, IInv, Progress, KeepInv, locals, liveVars
  <2>2. Kept' /\ Untouched(cand)' /\ toClose' = toClose
    BY <1>1, <2>1, StartStepKept
  <2> QED
    BY <2>1, <2>2 DEF KeepInv, Booting, Untouched
<1>5. ASSUME NEW g \in Gen, CloseStep(g), UNCHANGED <<rl, current, phase, cand>>,
             Booting => g # current, rl = "start" => g # cand
      PROVE  KeepInv'
  <2>1. /\ Kept' /\ \A h \in Gen : /\ toClose'[h] \subseteq toClose[h]
                                   /\ h # g /\ Untouched(h) => Untouched(h)'
    BY <1>1, <1>5, CloseStepKept
  <2>2. \A h \in Gen : toClose'[h] # {} => phase'[h] \in {"alive", "abandoned"}
    BY <1>5, <2>1 DEF KeepInv
  <2>3. Booting' => Untouched(current)'
    BY <1>1, <1>5, <2>1 DEF KeepInv, Booting, Untouched
  <2>4. rl' = "start" => Untouched(cand)'
    BY <1>1, <1>5, <2>1 DEF KeepInv, Untouched, IInv, Control
  <2> QED
    BY <2>1, <2>2, <2>3, <2>4 DEF KeepInv
<1>6. ASSUME NEW g \in Gen, Closed(g), EndLife(g), UNCHANGED <<rmVars, rl, current, cand>>
      PROVE  KeepInv'
  <2>1. \A h \in Gen : toClose[h] # {} => phase'[h] \in {"alive", "abandoned"}
    BY <1>1, <1>6 DEF KeepInv, EndLife, Closed
  <2> QED
    BY <1>6, <2>1, KeepersUnchanged DEF Booting
<1>7. CASE DiscardStep
  BY <1>1, <1>5, <1>7 DEF DiscardStep, Booting, IInv, Control, locals, liveVars
<1>8. CASE \E g \in Gen : RetiredStep(g)
  <2>1. PICK g \in Gen : RetiredStep(g)
    BY <1>8
  <2>2. g # current /\ g # cand /\ UNCHANGED <<rl, current, cand>>
    BY <2>1 DEF RetiredStep, Drained, IInv, Roles, locals, liveVars
  <2> QED
    BY <1>5, <1>6, <2>1, <2>2 DEF RetiredStep
<1>9. CASE CloseCurrent
  BY <1>1, <1>5, <1>6, <1>9 DEF CloseCurrent, Booting, locals, liveVars
<1>10. CASE Load
  <2>1. Retain(LoadConfig, LoadIssues) \in Config
    BY <1>1, LoadConfigIsConfig, RetainIsConfig
  <2> QED
    BY <1>1, <1>10, <2>1, BuildKeepsKeepers DEF Load
<1>11. CASE Retry
  <2>1. cand \in Gen /\ broken \in SUBSET App
    BY <1>11 DEF Retry, IInv, TypeOK, ReloadTypeOK, Control
  <2>2. Retain(config[cand], broken) \in Config
    BY <1>1, <2>1, RetainIsConfig DEF RMTypeOK
  <2>3. /\ [phase EXCEPT ![cand] = "closed"] \in [Gen -> Phase]
        /\ \A g \in Gen : [phase EXCEPT ![cand] = "closed"][g] = phase[g] \/ toClose[g] = {}
    BY <1>1, <1>11, <2>1 DEF Retry, Closed, Phase
  <2> QED
    BY <1>11, <2>2, <2>3, BuildKeepsKeepers DEF Retry
<1>12. CASE Discarded
  <2>1. cand \in Gen /\ Closed(cand) /\ EndLife(cand) /\ UNCHANGED rmVars /\ rl' \in {"idle", "dead"}
    BY <1>12 DEF Discarded, Reject, Return, IInv, TypeOK, ReloadTypeOK, Control
  <2>2. \A h \in Gen : toClose[h] # {} => phase'[h] \in {"alive", "abandoned"}
    BY <1>1, <2>1 DEF KeepInv, EndLife, Closed
  <2> QED
    BY <2>1, <2>2, KeepersUnchanged DEF Booting
<1>13. CASE Shutdown
  <2>1. /\ UNCHANGED <<rmVars, current>> /\ rl' \in {"dead", "discard"}
        /\ \A h \in Gen : phase'[h] = phase[h] \/ phase'[h] = "abandoned"
    BY <1>1, <1>13 DEF Shutdown, CancelPrune, CancelDiscard, CancelCandidate, CancelQuiet, Abandon,
       Discard, Return, liveVars
  <2>2. \A h \in Gen : toClose[h] # {} => phase'[h] \in {"alive", "abandoned"}
    BY <2>1 DEF KeepInv
  <2> QED
    BY <2>1, <2>2, KeepersUnchanged DEF Booting
<1>14. ASSUME UNCHANGED <<rmVars, phase>>, Booting' => Booting /\ current' = current,
              rl' = "start" => rl = "start" /\ cand' = cand
       PROVE  KeepInv'
  BY <1>14, KeepersUnchanged DEF KeepInv
<1> USE DEF Await, Return, Discard, fileVars, liveVars, locals, vars, Booting
<1>15. CASE Call \/ (\E g \in Gen : Prune(g)) \/ Pruned \/ Scan \/ ScanFails
  BY <1>14, <1>15 DEF Call, Prune, Pruned, Scan, ScanFails
<1>16. CASE StartFails \/ Started \/ Switch \/ Unstable \/ ConfirmFails
  BY <1>14, <1>16 DEF StartFails, Started, Switch, Unstable, ConfirmFails
<1>17. CASE (\E content \in Contents : Edit(content)) \/ (\E q \in Request : Begin(q) \/ End(q))
  BY <1>14, <1>17 DEF Edit, Begin, End
<1>18. CASE BootSign \/ AwaitRetired \/ Halted \/ UNCHANGED vars
  BY <1>14, <1>18 DEF BootSign, AwaitRetired, Halted
<1> QED
  BY <1>3, <1>4, <1>7, <1>8, <1>9, <1>10, <1>11, <1>12, <1>13, <1>15, <1>16, <1>17, <1>18
  DEF Next, ReloadNow

\* No runtime is leaked: one that is opening, open or closing is always left to
\* the close of some generation that lives, or whose close was cancelled by the
\* shutdown; failed starts, discarded candidates and shared runtimes included.
THEOREM KeepersCorrect == Spec => []NoOrphanRuntime
<1>1. Init => KeepInv
  <2> SUFFICES ASSUME Init PROVE KeepInv
    OBVIOUS
  <2>1. Boot \in Gen
    BY GenIsNotEmpty DEF Boot
  <2>2. \A g \in Gen : toClose[g] # {} => phase[g] = "alive"
    BY <2>1 DEF Init, Apps
  <2> QED
    BY <2>1, <2>2 DEF Init, KeepInv, Kept, Untouched, Booting
<1>2. IInv /\ KeepInv /\ [Next]_vars => KeepInv'
  BY KeepersNextSafe
<1>3. IInv /\ KeepInv => NoOrphanRuntime
  <2> SUFFICES ASSUME IInv, KeepInv, NEW h \in Gen, NEW a \in App, Held(h, a)
               PROVE  \E g \in Gen : Keeper(g, h, a)
    BY DEF NoOrphanRuntime, Keeper, KeepInv
  <2>1. CASE status[h][a] \in {"opening", "closing"}
    BY <2>1 DEF KeepInv, Kept, Keeper
  <2>2. CASE status[h][a] = "open"
    <3>1. leases[h][a] > 0 /\ leases[h][a] = Cardinality(Holders(h, a))
      BY <2>2 DEF IInv, RuntimeInv, LeasesCountHolders
    <3>2. PICK g \in Holders(h, a) : TRUE
      BY <3>1, FS_EmptySet
    <3> QED
      BY <3>2 DEF Holders, Keeper, KeepInv, Kept
  <2> QED
    BY <2>1, <2>2 DEF Held
<1> QED
  BY <1>1, <1>2, <1>3, Invariance, PTL DEF Spec

-----------------------------------------------------------------------------
(* The content of the generations.  The signature a reload compares at its *)
(* end is the one it read before it loaded the files, and the files change *)
(* only together with their signature.                                     *)

LEMMA RuntimeStepsKeepConfig ==
    ASSUME NEW g, StartStep(g) \/ CloseStep(g)
    PROVE  UNCHANGED config
BY DEF StartStep, LeaseRunning, BeginOpen, FinishOpen, FailOpen, Take,
       CloseStep, ReleaseLease, ReleaseUnleased, Dispose

\* A candidate has the files outside its issues, and its issues are what the
\* current generation has.
Faithful(c, names) ==
    /\ \A a \in names : c[a] = config[current][a]
    /\ sig = stamp => /\ LoadIssues \subseteq names
                      /\ \A a \in App \ names : c[a] = Parsed[a]

LEMMA BuildKeepsEdits ==
    ASSUME IInv, EditInv, NEW c \in Config, NEW names \in SUBSET App, NEW life,
           Build(c, names, life), Faithful(c, names),
           UNCHANGED <<fileVars, current, generation>>, rl \in {"load", "discard"}
    PROVE  EditInv'
<1>1. RMTypeOK /\ current \in Gen /\ phase[current] # "unused" /\ sig \in Nat /\ stamp \in Nat
      /\ observed \in Nat /\ issues \in [Gen -> SUBSET App]
  BY DEF IInv, TypeOK, ReloadTypeOK, Roles
<1>2. Parsed' = Parsed /\ LoadIssues' = LoadIssues
  BY DEF fileVars, Parsed, LoadIssues, Quarantined
<1>3. CASE Reject /\ UNCHANGED <<rmVars, issues>>
  BY <1>1, <1>3 DEF Reject, Return, EditInv, Booting, fileVars, rmVars
<1>4. CASE /\ cand' = Fresh /\ rl' = "start"
           /\ (\E g \in Gen : phase[g] = "unused")
           /\ config' = [config EXCEPT ![Fresh] = c]
           /\ issues' = [issues EXCEPT ![Fresh] = names]
           /\ UNCHANGED <<sig, observed, rejected>>
  <2>1. Fresh \in Gen /\ Fresh # current
    BY <1>1, <1>4, FreshIsUnused
  <2>2. /\ config'[current] = config[current] /\ config'[Fresh] = c
        /\ issues'[current] = issues[current] /\ issues'[Fresh] = names
    BY <1>1, <1>4, <2>1 DEF RMTypeOK
  <2>3. \A a \in issues'[cand'] : config'[cand'][a] = config'[current'][a]
    BY <1>4, <2>2 DEF Faithful
  <2>4. sig' = stamp' => LoadIssues' \subseteq issues'[cand'] /\ Matches(cand)'
    BY <1>2, <1>4, <2>2 DEF Faithful, fileVars, Matches
  <2>5. generation' > 0 /\ observed' = stamp' /\ ~rejected' => Matches(current)'
    BY <1>2, <1>4, <2>2 DEF EditInv, fileVars, Matches
  <2> QED
    BY <1>4, <2>3, <2>4, <2>5 DEF EditInv, Booting, fileVars
<1> QED
  BY <1>3, <1>4 DEF Build, Construct

LEMMA LoadKeepsEdits ==
    ASSUME IInv, EditInv, Load
    PROVE  EditInv'
<1> DEFINE c == Retain(LoadConfig, LoadIssues)
<1>1. c \in Config /\ LoadIssues \in SUBSET App
  BY LoadConfigIsConfig, RetainIsConfig DEF IInv, TypeOK, ReloadTypeOK
<1>2. Faithful(c, LoadIssues)
  BY DEF Faithful, Retain, LoadConfig, LoadIssues, Quarantined, Apps
<1> QED
  BY <1>1, <1>2, BuildKeepsEdits DEF Load

LEMMA RetryKeepsEdits ==
    ASSUME IInv, EditInv, Retry
    PROVE  EditInv'
<1> DEFINE c == Retain(config[cand], broken)
           names == issues[cand] \cup broken
<1>1. RMTypeOK /\ cand \in Gen /\ current \in Gen /\ broken \in SUBSET App /\ issues[cand] \in SUBSET App
  BY DEF Retry, IInv, TypeOK, ReloadTypeOK, Control
<1>2. c \in Config /\ names \in SUBSET App
  BY <1>1, RetainIsConfig DEF RMTypeOK
<1>3. cand # None
  BY <1>1
<1>4. \A a \in names : c[a] = config[current][a]
  BY <1>1, <1>3 DEF Retain, EditInv
<1>5. sig = stamp => /\ LoadIssues \subseteq names
                     /\ \A a \in App \ names : c[a] = Parsed[a]
  BY <1>1, <1>3 DEF Retain, EditInv, Matches
<1>6. Faithful(c, names)
  BY <1>4, <1>5 DEF Faithful
<1> QED
  BY <1>2, <1>6, BuildKeepsEdits DEF Retry

\* A step that leaves the contents alone and may forget the candidate.
LEMMA ContentsUnchanged ==
    ASSUME EditInv, UNCHANGED <<config, fileVars, current, generation, issues>>,
           sig' \in {0, sig}, stamp \in Nat, cand' = cand \/ cand' = None,
           cand' # None => sig' = sig, observed' = observed \/ (observed' = sig /\ rejected'),
           observed' = observed => rejected' \in {rejected, TRUE},
           Booting' => Booting
    PROVE  EditInv'
<1>1. Parsed' = Parsed /\ LoadIssues' = LoadIssues
  BY DEF fileVars, Parsed, LoadIssues, Quarantined
<1>2. Matches(current)' = Matches(current)
  BY <1>1 DEF Matches
<1>3. sig' <= stamp' /\ observed' <= stamp' /\ (Booting' => generation' = 0)
  BY DEF EditInv, fileVars
<1>4. ASSUME cand' # None
      PROVE  /\ \A a \in issues'[cand'] : config'[cand'][a] = config'[current'][a]
             /\ sig' = stamp' => LoadIssues' \subseteq issues'[cand'] /\ Matches(cand)'
  BY <1>1, <1>4 DEF EditInv, fileVars, Matches
<1>5. generation' > 0 /\ observed' = stamp' /\ ~rejected' => Matches(current)'
  BY <1>2 DEF EditInv, fileVars
<1> QED
  BY <1>3, <1>4, <1>5 DEF EditInv

LEMMA EditsNextSafe ==
    ASSUME IInv, EditInv, [Next]_vars
    PROVE  EditInv'
<1>1. /\ sig \in Nat /\ stamp \in Nat /\ observed \in Nat /\ rejected \in BOOLEAN
      /\ cand \in Gen \cup {None} /\ current \in Gen /\ generation \in Nat
  BY DEF IInv, TypeOK, ReloadTypeOK
<1> USE DEF Await, Return, Discard, Reject, rmVars, fileVars, liveVars, locals, vars
<1>2. CASE Load \/ Retry
  BY <1>2, LoadKeepsEdits, RetryKeepsEdits
<1>3. CASE \E content \in Contents : Edit(content)
  BY <1>1, <1>3 DEF Edit, EditInv, Booting
<1>4. CASE BootSign
  BY <1>1, <1>4 DEF BootSign, EditInv, Booting, Matches, Parsed, IInv, Control
<1>5. CASE Scan
  <2>1. cand = None /\ cand' = None
    BY <1>5 DEF Scan, IInv, Control
  <2>2. Matches(current)' = Matches(current)
    BY <1>5 DEF Scan, Matches, Parsed
  <2> QED
    BY <1>1, <1>5, <2>1, <2>2 DEF Scan, EditInv, Booting
<1>6. CASE Switch
  <2>1. cand # None /\ sig = stamp /\ cand' = None /\ current' = cand
    BY <1>6 DEF Switch, IInv, Control
  <2>2. Matches(current)' = Matches(cand)
    BY <1>6, <2>1 DEF Switch, Matches, Parsed
  <2> QED
    BY <1>1, <1>6, <2>1, <2>2 DEF Switch, EditInv, Booting
<1>7. CASE BootStart \/ Start \/ DiscardStep
  BY <1>1, <1>7, RuntimeStepsKeepConfig, ContentsUnchanged DEF BootStart, Start, DiscardStep, Booting
<1>8. CASE (\E g \in Gen : RetiredStep(g)) \/ CloseCurrent
  BY <1>1, <1>8, RuntimeStepsKeepConfig, ContentsUnchanged DEF RetiredStep, CloseCurrent, Booting
<1>9. CASE Call \/ (\E g \in Gen : Prune(g)) \/ Pruned \/ ScanFails \/ StartFails
           \/ Started \/ Unstable \/ ConfirmFails
  BY <1>1, <1>9, ContentsUnchanged DEF Call, Prune, Pruned, ScanFails, StartFails, Started,
     Unstable, ConfirmFails, Booting
<1>10. CASE Discarded
  BY <1>1, <1>10, ContentsUnchanged DEF Discarded, Booting
<1>11. CASE (\E q \in Request : Begin(q) \/ End(q)) \/ AwaitRetired \/ Halted \/ UNCHANGED vars
  BY <1>1, <1>11, ContentsUnchanged DEF Begin, End, AwaitRetired, Halted, Booting
<1>12. CASE Shutdown
  BY <1>1, <1>12, ContentsUnchanged DEF Shutdown, CancelPrune, CancelDiscard, CancelCandidate,
     CancelQuiet, Booting
<1> QED
  BY <1>2, <1>3, <1>4, <1>5, <1>6, <1>7, <1>8, <1>9, <1>10, <1>11, <1>12 DEF Next, ReloadNow

LEMMA EditsInvariant == Spec => [](IInv /\ EditInv)
<1>1. Init => EditInv
  BY DEF Init, EditInv, Booting
<1>2. IInv /\ EditInv /\ [Next]_vars => EditInv'
  BY EditsNextSafe
<1> QED
  BY <1>1, <1>2, Invariance, PTL DEF Spec

\* Whatever is edited while a reload is under way, and however it ends: when
\* nothing is left to detect and the last reload was not rejected, each
\* application runs what its directory holds or is listed as an issue.
THEOREM EditsCorrect == Spec => []NoLostEdit
<1>1. IInv /\ EditInv => NoLostEdit
  BY DEF EditInv, NoLostEdit, Undetected, Matches
<1> QED
  BY <1>1, EditsInvariant, PTL

LEMMA OnlySwitchSwitches ==
    ASSUME [Next]_vars, current' # current
    PROVE  Switch
BY DEF Next, ReloadNow, vars, liveVars, Edit, BootSign, BootStart, Call, Prune, Pruned, Scan,
       ScanFails, Load, Start, StartFails, Started, Unstable, ConfirmFails, DiscardStep, Retry,
       Discarded, Begin, End, RetiredStep, Shutdown, CloseCurrent, AwaitRetired, Halted

\* No switch gives the route of a running application to another one, unless
\* the directory of the first is gone or claims another route.
THEOREM TakeoversCorrect == Spec => NoIdentityTakeover
<1> DEFINE Taken(a, b) == /\ Up(current, a) /\ config'[current'][b] # None
                          /\ Claims[config'[current'][b]] = Claims[config[current][a]]
           Given(a) == \/ files[a] = None
                       \/ files[a] \in Version /\ Claims[files[a]] # Claims[config[current][a]]
           Step == current' # current => \A a \in App : \A b \in App \ {a} : Taken(a, b) => Given(a)
<1>1. ASSUME IInv, RoutesInv, EditInv, [Next]_vars
      PROVE  Step
  <2> SUFFICES ASSUME current' # current, NEW a \in App, NEW b \in App \ {a}, Taken(a, b), ~Given(a)
               PROVE  FALSE
    BY DEF Step
  <2>1. Switch
    BY <1>1, OnlySwitchSwitches
  <2>2. /\ cand \in Gen /\ sig = stamp /\ current' = cand /\ config' = config
        /\ files[a] \in Version \cup {Malformed} /\ config[current][a] # None
    <3>1. cand \in Gen /\ sig = stamp /\ current' = cand /\ config' = config
      BY <1>1, <2>1 DEF Switch, rmVars, IInv, TypeOK, ReloadTypeOK, Control
    <3>2. files[a] \in Version \cup {None, Malformed}
      BY <1>1 DEF IInv, TypeOK, ReloadTypeOK, Files
    <3> QED
      BY <3>1, <3>2 DEF Up
  <2> DEFINE v == config[cand][a]
  <2>3. v # None /\ Claims[v] = Claims[config[current][a]]
    <3>1. CASE a \in issues[cand]
      BY <1>1, <2>2, <3>1 DEF EditInv
    <3>2. CASE a \notin issues[cand]
      <4>1. a \notin LoadIssues /\ v = Parsed[a]
        BY <1>1, <2>2, <3>2 DEF EditInv, Matches
      <4>2. files[a] \in Version /\ v = files[a]
        BY <2>2, <4>1 DEF LoadIssues, Parsed
      <4> QED
        BY <4>2
    <3> QED
      BY <3>1, <3>2
  <2>4. Clash(config[cand], a) /\ a \in Apps(config[cand])
    BY <2>2, <2>3 DEF Clash, Apps
  <2>5. ~Conflicting(config[cand])
    BY <1>1, <2>2 DEF RoutesInv, OneOwnerConfigs
  <2> QED
    BY <2>4, <2>5 DEF Conflicting
<1>2. IInv /\ RoutesInv /\ EditInv /\ [Next]_vars =>
        [current' # current =>
            \A a \in App : \A b \in App \ {a} :
                (Up(current, a) /\ config'[current'][b] # None
                    /\ Claims[config'[current'][b]] = Claims[config[current][a]])
                => \/ files[a] = None
                   \/ files[a] \in Version /\ Claims[files[a]] # Claims[config[current][a]] ]_vars
  BY <1>1
<1> QED
  BY <1>2, EditsInvariant, RoutesInvariant, PTL DEF Spec, NoIdentityTakeover

=============================================================================
