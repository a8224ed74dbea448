------------------------------ MODULE OnceOnly ------------------------------
(***************************************************************************)
(* What an idempotency key promises: its latest run is the only one for    *)
(* Life units of time, and a request that is answered without running gets *)
(* the result of that run, which had the same input.                       *)
(***************************************************************************)
EXTENDS Naturals

CONSTANTS Caller, Name, KeyOf, InputOf, Life, Nothing

VARIABLES
    time,
    latest,     \* latest[k]: the latest run of key k
    reply       \* reply[r]: run whose result r was given, or none

onceVars == <<time, latest, reply>>

Init ==
    /\ time = 0
    /\ latest = [k \in Name |-> Nothing]
    /\ reply = [r \in Caller |-> Nothing]

Run(r) ==
    /\ latest[KeyOf[r]] # Nothing => latest[KeyOf[r]].at + Life < time
    /\ \E t \in 0..time :
            /\ reply' = [reply EXCEPT ![r] = [input |-> InputOf[r], at |-> t]]
            /\ latest[KeyOf[r]] # Nothing => latest[KeyOf[r]].at + Life < t
    /\ latest' = [latest EXCEPT ![KeyOf[r]] = reply'[r]]
    /\ UNCHANGED time

Replay(r) ==
    /\ latest[KeyOf[r]] # Nothing /\ latest[KeyOf[r]].input = InputOf[r]
    /\ reply' = [reply EXCEPT ![r] = latest[KeyOf[r]]]
    /\ UNCHANGED <<time, latest>>

Leave(r) ==
    /\ reply' = [reply EXCEPT ![r] = Nothing]
    /\ UNCHANGED <<time, latest>>

Pass ==
    /\ time' = time + 1
    /\ UNCHANGED <<latest, reply>>

Next == Pass \/ \E r \in Caller : Run(r) \/ Replay(r) \/ Leave(r)

Spec == Init /\ [][Next]_onceVars

=============================================================================
