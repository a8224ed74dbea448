------------------------------ MODULE CallsInv ------------------------------
(***************************************************************************)
(* The inductive invariant behind the theorems of CallsProofs, and the     *)
(* mapping under which the signal table of SQLite is a SignalLog.          *)
(***************************************************************************)
EXTENDS Calls

Log == INSTANCE SignalLog WITH
    Reader <- Conn,
    Entry <- Signal,
    Everybody <- None,
    posted <- signals,
    at <- cursor,
    read <- got

\* On SQLite, as long as no signal expires, the polls of the handlers read one
\* log in order and pass over nothing.
ImplementsSignalLog == Log!Spec

(* Tickets. *)

Spent == \A c \in Conn : Admitted(c) => presented[c] \in used

(* Control. *)

Posting(c) == pc[c] \in DOMAIN After

Control ==
    \A c \in Conn :
        /\ Posting(c) => mail[c] \in Message
        /\ number[c] # 0 => Posting(c) /\ ~Serial
        /\ pc[c] = "joining" => ~Serial
        /\ pc[c] \in {"new", "claim", "authorize", "join", "joining", "sequence"} => cursor[c] = None
        /\ pc[c] \in {"hello", "announce", "loop", "sending", "poll"} => cursor[c] # None

(* Participants. *)

Entered(c) == pc[c] \notin {"new", "claim", "authorize", "join", "joining", "refused"}

Entrants ==
    /\ \A c \in participants : Entered(c)
    /\ \A d \in Conn : \A c \in peers[d] : Entered(c)

IInv == TypeOK /\ Spent /\ TicketOnce /\ Control /\ Entrants

(* Deliveries, on both databases. *)

\* The cursor of a handler has reached all that its client was sent.
SentIsRead ==
    \A c \in Conn : \A s \in got[c] : cursor[c] # None /\ s.seq <= cursor[c]

(* The log of SQLite, while nothing expires. *)

UniqueNumbers == \A s, u \in signals : s.seq = u.seq => s = u

CursorsAreStored ==
    \A c \in Conn : cursor[c] # None => cursor[c] = 0 \/ cursor[c] \in Numbers(signals)

\* Also of a handler that has ended.
NothingSkipped ==
    \A c \in Conn : cursor[c] # None =>
        \A s \in signals \ before[c] : For(s, c) => Read(s, c)

LogInv ==
    /\ IsFiniteSet(signals) /\ expired = {}
    /\ UniqueNumbers /\ CursorsAreStored /\ NothingSkipped

=============================================================================
