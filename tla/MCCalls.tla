------------------------------ MODULE MCCalls ------------------------------
(* Instances of Calls for TLC. *)
EXTENDS CallsInv, TLC

CONSTANTS c1, c2, t1, t2

OwnTickets == [c \in Conn |-> IF c = c1 THEN t1 ELSE t2]

\* Both connections present one ticket, or each has its own.
OneOrOwn == {OwnTickets, [c \in Conn |-> t1]}
Own == {OwnTickets}

=============================================================================
