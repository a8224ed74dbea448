----------------------------- MODULE FreshReads -----------------------------
(***************************************************************************)
(* What a cached resource promises to its clients: a read answers with a   *)
(* value that was current at some moment since the read began, or that is  *)
(* older only by writes nobody has been told are done.  A value is the     *)
(* number of writes it includes.  Writes are acknowledged by the keeper n  *)
(* of a generation counter (a worker, or the server the workers share),    *)
(* and reads rely on what their own keeper acknowledged.                   *)
(***************************************************************************)
EXTENDS Naturals

CONSTANTS
    Keeper,     \* owners of a generation counter
    Reader,     \* read requests
    KeeperOf,   \* KeeperOf[r]: the counter read r relies on
    Nothing     \* no answer, no read

VARIABLES
    committed,  \* number of writes committed
    known,      \* known[n]: last write n acknowledged
    since,      \* since[r]: what r's keeper had acknowledged when r began
    answer      \* answer[r]: what r is answered

freshVars == <<committed, known, since, answer>>

Init ==
    /\ committed = 0
    /\ known = [n \in Keeper |-> 0]
    /\ since = [r \in Reader |-> Nothing]
    /\ answer = [r \in Reader |-> Nothing]

Write ==
    /\ committed' = committed + 1
    /\ UNCHANGED <<known, since, answer>>

Acknowledge(n) ==
    /\ \E m \in known[n] .. committed : known' = [known EXCEPT ![n] = m]
    /\ UNCHANGED <<committed, since, answer>>

BeginRead(r) ==
    /\ since[r] = Nothing
    /\ since' = [since EXCEPT ![r] = known[KeeperOf[r]]]
    /\ UNCHANGED <<committed, known, answer>>

EndRead(r) ==
    /\ since[r] # Nothing /\ answer[r] = Nothing
    /\ \E v \in since[r] .. committed : answer' = [answer EXCEPT ![r] = v]
    /\ UNCHANGED <<committed, known, since>>

\* The client has its answer, or an error.
Forget(r) ==
    /\ since' = [since EXCEPT ![r] = Nothing]
    /\ answer' = [answer EXCEPT ![r] = Nothing]
    /\ UNCHANGED <<committed, known>>

Next ==
    \/ Write
    \/ \E n \in Keeper : Acknowledge(n)
    \/ \E r \in Reader : BeginRead(r) \/ EndRead(r) \/ Forget(r)

Spec == Init /\ [][Next]_freshVars

=============================================================================
