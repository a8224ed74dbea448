------------------------------ MODULE SignalLog ------------------------------
(***************************************************************************)
(* What the signaling of a call promises: one numbered log.  A row is      *)
(* added behind everything that was added or passed before, and a reader   *)
(* that opened the log at its end is handed each later row that is meant   *)
(* for it, once and in order.                                              *)
(***************************************************************************)
EXTENDS Naturals

CONSTANTS
    Reader,
    Entry,      \* rows: [seq, from, to, ...]
    Everybody   \* addressee of a broadcast; also: no position

VARIABLES
    posted,     \* rows of the log
    at,         \* at[c]: number up to which c has read
    read        \* read[c]: rows handed to c

logVars == <<posted, at, read>>

Meant(s, c) == s.from # c /\ s.to \in {Everybody, c}

Init ==
    /\ posted = {}
    /\ at = [c \in Reader |-> Everybody]
    /\ read = [c \in Reader |-> {}]

Post ==
    /\ \E s \in posted' \ posted :
            /\ s \in Entry
            /\ \A u \in posted : u.seq < s.seq
            /\ \A c \in Reader : at[c] # Everybody => at[c] < s.seq
            /\ posted' = posted \cup {s}
    /\ UNCHANGED <<at, read>>

Open(c) ==
    /\ at[c] = Everybody
    /\ \E n \in {0} \cup {s.seq : s \in posted} :
            /\ \A s \in posted : s.seq <= n
            /\ at' = [at EXCEPT ![c] = n]
    /\ UNCHANGED <<posted, read>>

Advance(c) ==
    /\ at[c] # Everybody
    /\ \E n \in {at[c]} \cup {s.seq : s \in posted} :
            /\ at[c] <= n
            /\ at' = [at EXCEPT ![c] = n]
            /\ read' = [read EXCEPT ![c] =
                    @ \cup {s \in posted : Meant(s, c) /\ at[c] < s.seq /\ s.seq <= n}]
    /\ UNCHANGED posted

Next == Post \/ \E c \in Reader : Open(c) \/ Advance(c)

Spec == Init /\ [][Next]_logVars

=============================================================================
