-------------------------------- MODULE Calls --------------------------------
(***************************************************************************)
(* The signaling of one Editor call: call_socket of                        *)
(* framework/editor_api.py, the call transactions of                       *)
(* framework/editor_identity.py and the page of                            *)
(* framework/editor_call_client.py.                                        *)
(*                                                                         *)
(* Each connection has a handler, on any worker.  It spends its one-time   *)
(* ticket, enters itself in the table of participants, and then polls a    *)
(* table of signals that the handlers of the other connections insert      *)
(* into.  The control database is SQLite, which runs one write transaction *)
(* at a time and numbers a new row one above the highest stored one, or    *)
(* PostgreSQL, whose sequence never repeats a number but whose             *)
(* transactions commit in any order.                                       *)
(*                                                                         *)
(* Abstracted: a session description is its kind, and ICE candidates       *)
(* travel as answers do; packets the handler refuses are departures; time, *)
(* so that a signal may expire and a participant turn stale at any moment. *)
(***************************************************************************)
EXTENDS Naturals, FiniteSets

CONSTANTS
    Conn,        \* connections, each identified by its connection_id
    Ticket,
    Presentations,  \* assignments of the tickets that connections may present
    Database,    \* "sqlite" or "postgres"
    MaxExpired,  \* bound: signals with a higher number do not expire
    Timely,      \* heartbeats of a live handler arrive within 45 seconds
    Batch,       \* signals fetched at a time
    None         \* everybody, or nothing

ASSUME ConnIsFinite       == IsFiniteSet(Conn)
ASSUME TicketsAreGiven    == Presentations \subseteq [Conn -> Ticket]
ASSUME DatabaseIsKnown    == Database \in {"sqlite", "postgres"}
ASSUME MaxExpiredIsNat    == MaxExpired \in Nat
ASSUME TimelyIsBoolean    == Timely \in BOOLEAN
ASSUME BatchIsPositive    == Batch \in Nat \ {0}
ASSUME NoneIsNothing      == None \notin Conn \cup Nat

VARIABLES
    presented,     \* presented[c]: the ticket connection c presents
    used,          \* tickets with used_at set
    pc,            \* where the handler of a connection is
    peers,         \* peers[c]: participants that c was told of when it joined
    participants,  \* rows of the participant table
    stale,         \* participants whose last heartbeat is over 45 seconds old
    signals,       \* rows of the signal table
    expired,       \* signals past their expires_at
    top,           \* last number PostgreSQL drew
    mail,          \* mail[c]: message the handler of c is inserting
    number,        \* number[c]: number of its uncommitted row, or 0
    cursor,        \* cursor[c]: number after which c reads
    got,           \* got[c]: signals sent to the client of c
    before,        \* before[c]: signals stored when c read its first cursor
    client,        \* client[c]: state of the page
    out            \* out[c]: messages the page has still to send

joinVars == <<peers, participants, stale>>
logVars == <<signals, expired, top>>
postVars == <<mail, number>>
readVars == <<cursor, got, before>>
pageVars == <<client, out>>
ticketVars == <<presented, used>>
vars == <<ticketVars, pc, joinVars, logVars, postVars, readVars, pageVars>>

Serial == Database = "sqlite"

Message == [to : Conn \cup {None}, kind : {"peer_joined", "offer", "answer", "peer_left"}]
Signal == [seq : Nat, from : Conn, to : Conn \cup {None},
           kind : {"peer_joined", "offer", "answer", "peer_left"}]

Goto(c, label) == pc' = [pc EXCEPT ![c] = label]

-----------------------------------------------------------------------------
(* consume_call_ticket and the checks after it. *)

Present(c) ==
    /\ pc[c] = "new"
    /\ Goto(c, IF presented[c] \in used THEN "refused" ELSE "claim")
    /\ UNCHANGED <<ticketVars, joinVars, logVars, postVars, readVars, pageVars>>

\* Faulty: the update does not repeat that the ticket is unused.
ClaimBlindly(c) ==
    /\ pc[c] = "claim"
    /\ Goto(c, "authorize")
    /\ used' = used \cup {presented[c]}
    /\ UNCHANGED <<presented, joinVars, logVars, postVars, readVars, pageVars>>

\* UPDATE ... WHERE used_at IS NULL must hit one row.
Claim(c) ==
    /\ pc[c] = "claim"
    /\ Goto(c, IF presented[c] \in used THEN "refused" ELSE "authorize")
    /\ used' = used \cup {presented[c]}
    /\ UNCHANGED <<presented, joinVars, logVars, postVars, readVars, pageVars>>

\* The member may have lost the area, or the call may be over: the ticket is
\* spent all the same.
Authorize(c) ==
    /\ pc[c] = "authorize"
    /\ Goto(c, "join") \/ Goto(c, "refused")
    /\ UNCHANGED <<ticketVars, joinVars, logVars, postVars, readVars, pageVars>>

-----------------------------------------------------------------------------
(* join_call, current_signal_sequence and the first message. *)

\* Faulty: the peers are read in a transaction of their own.
JoinApart(c) ==
    /\ pc[c] = "join"
    /\ peers' = [peers EXCEPT ![c] = participants \ stale]
    /\ participants' = participants \ stale
    /\ stale' = {}
    /\ Goto(c, "joining")
    /\ UNCHANGED <<ticketVars, logVars, postVars, readVars, pageVars>>

\* Stale rows are deleted, the others are read, the new one is inserted; on
\* PostgreSQL it is visible to others from the commit on.
Join(c) ==
    /\ pc[c] = "join"
    /\ peers' = [peers EXCEPT ![c] = participants \ stale]
    /\ participants' = (participants \ stale) \cup (IF Serial THEN {c} ELSE {})
    /\ stale' = {}
    /\ Goto(c, IF Serial THEN "sequence" ELSE "joining")
    /\ UNCHANGED <<ticketVars, logVars, postVars, readVars, pageVars>>

CommitJoin(c) ==
    /\ pc[c] = "joining"
    /\ participants' = participants \cup {c}
    /\ Goto(c, "sequence")
    /\ UNCHANGED <<ticketVars, peers, stale, logVars, postVars, readVars, pageVars>>

Numbers(rows) == {s.seq : s \in rows}
IsLast(n, rows) == n \in {0} \cup Numbers(rows) /\ \A s \in rows : s.seq <= n

\* max(sequence), over expired rows too.
Sequence(c) ==
    /\ pc[c] = "sequence"
    /\ \E n \in {0} \cup Numbers(signals) :
            IsLast(n, signals) /\ cursor' = [cursor EXCEPT ![c] = n]
    /\ before' = [before EXCEPT ![c] = signals]
    /\ Goto(c, "hello")
    /\ UNCHANGED <<ticketVars, joinVars, logVars, postVars, got, pageVars>>

\* The page learns its peers and asks for the camera.
Hello(c) ==
    /\ pc[c] = "hello"
    /\ client' = [client EXCEPT ![c] = "asking"]
    /\ mail' = [mail EXCEPT ![c] = [to |-> None, kind |-> "peer_joined"]]
    /\ Goto(c, "announce")
    /\ UNCHANGED <<ticketVars, joinVars, logVars, number, readVars, out>>

-----------------------------------------------------------------------------
(* signal_call: expired signals are deleted, then a row is inserted. *)

After == [announce |-> "loop", sending |-> "poll", hangup |-> "hungup", leave |-> "delete"]

Row(c, n) == [seq |-> n, from |-> c, to |-> mail[c].to, kind |-> mail[c].kind]

Stored(c, n) ==
    /\ signals' = (signals \ expired) \cup {Row(c, n)}
    /\ expired' = {}
    /\ mail' = [mail EXCEPT ![c] = None]
    /\ Goto(c, After[pc[c]])

\* One SQLite transaction: the number follows the highest one that is left.
Post(c) ==
    /\ pc[c] \in DOMAIN After /\ Serial
    /\ \E n \in {0} \cup Numbers(signals \ expired) :
            IsLast(n, signals \ expired) /\ Stored(c, n + 1)
    /\ UNCHANGED <<ticketVars, joinVars, top, number, readVars, pageVars>>

\* PostgreSQL draws the number when the row is inserted.
Insert(c) ==
    /\ pc[c] \in DOMAIN After /\ ~Serial
    /\ number[c] = 0
    /\ top' = top + 1
    /\ number' = [number EXCEPT ![c] = top + 1]
    /\ UNCHANGED <<ticketVars, pc, joinVars, signals, expired, mail, readVars, pageVars>>

CommitPost(c) ==
    /\ number[c] # 0
    /\ Stored(c, number[c])
    /\ number' = [number EXCEPT ![c] = 0]
    /\ UNCHANGED <<ticketVars, joinVars, top, readVars, pageVars>>

-----------------------------------------------------------------------------
(* The loop: receive a packet or time out, then poll. *)

Receive(c) ==
    /\ pc[c] = "loop"
    /\ \E m \in out[c] :
            /\ mail' = [mail EXCEPT ![c] = m]
            /\ out' = [out EXCEPT ![c] = @ \ {m}]
    /\ Goto(c, "sending")
    /\ UNCHANGED <<ticketVars, joinVars, logVars, number, readVars, client>>

ReceiveNothing(c) ==
    /\ pc[c] = "loop"
    /\ Goto(c, "poll")
    /\ UNCHANGED <<ticketVars, joinVars, logVars, postVars, readVars, pageVars>>

ReceiveHangup(c) ==
    /\ pc[c] = "loop"
    /\ mail' = [mail EXCEPT ![c] = [to |-> None, kind |-> "peer_left"]]
    /\ Goto(c, "hangup")
    /\ UNCHANGED <<ticketVars, joinVars, logVars, number, readVars, pageVars>>

For(s, c) == s.from # c /\ s.to \in {None, c}

Due(c) == {s \in signals \ expired : For(s, c) /\ s.seq > cursor[c]}

\* ORDER BY sequence LIMIT 100.
Page(c) == {s \in Due(c) : Cardinality({u \in Due(c) : u.seq < s.seq}) < Batch}

\* The page answers offers, unless it is still waiting for the camera: then an
\* offer makes it close its socket.
Show(c, page) ==
    LET offers == {s \in page : s.kind = "offer"} IN
    /\ client' = [client EXCEPT ![c] = IF @ = "asking" /\ offers # {} THEN "failed" ELSE @]
    /\ out' = [out EXCEPT ![c] = IF client[c] = "ready"
                THEN @ \cup {[to |-> s.from, kind |-> "answer"] : s \in offers} ELSE @]

\* Every 15 seconds heartbeat_call updates the row, if it is still there.
MayBeat(c) == stale' \in {stale, stale \ {c}}

\* Faulty: the cursor stays behind the signals that were sent.
PollAgain(c) ==
    /\ pc[c] = "poll"
    /\ got' = [got EXCEPT ![c] = @ \cup Page(c)]
    /\ Show(c, Page(c))
    /\ MayBeat(c)
    /\ Goto(c, "loop")
    /\ UNCHANGED <<ticketVars, peers, participants, logVars, postVars, cursor, before>>

\* Faulty: after a page the cursor is read anew.
PollToEnd(c) ==
    /\ pc[c] = "poll"
    /\ got' = [got EXCEPT ![c] = @ \cup Page(c)]
    /\ \E n \in {0} \cup Numbers(signals) :
            IsLast(n, signals) /\ cursor' = [cursor EXCEPT ![c] = n]
    /\ Show(c, Page(c))
    /\ MayBeat(c)
    /\ Goto(c, "loop")
    /\ UNCHANGED <<ticketVars, peers, participants, logVars, postVars, before>>

Poll(c) ==
    /\ pc[c] = "poll"
    /\ got' = [got EXCEPT ![c] = @ \cup Page(c)]
    /\ \E n \in {cursor[c]} \cup Numbers(Page(c)) :
            /\ \A s \in Page(c) : s.seq <= n
            /\ cursor' = [cursor EXCEPT ![c] = n]
    /\ Show(c, Page(c))
    /\ MayBeat(c)
    /\ Goto(c, "loop")
    /\ UNCHANGED <<ticketVars, peers, participants, logVars, postVars, before>>

\* The user allows the camera; the page offers to each of its peers.
AllowCamera(c) ==
    /\ client[c] = "asking"
    /\ client' = [client EXCEPT ![c] = "ready"]
    /\ out' = [out EXCEPT ![c] = {[to |-> d, kind |-> "offer"] : d \in peers[c]}]
    /\ UNCHANGED <<ticketVars, pc, joinVars, logVars, postVars, readVars>>

-----------------------------------------------------------------------------
(* Departures. *)

\* The client is gone, or a statement of the loop fails: its transaction is
\* rolled back and the finally clause runs.
Disconnect(c) ==
    /\ pc[c] \in {"loop", "sending", "poll", "hangup", "hungup"}
    /\ mail' = [mail EXCEPT ![c] = [to |-> None, kind |-> "peer_left"]]
    /\ number' = [number EXCEPT ![c] = 0]
    /\ Goto(c, "leave")
    /\ UNCHANGED <<ticketVars, joinVars, logVars, readVars, pageVars>>

Leave(c) ==
    /\ pc[c] \in {"delete", "hungup"}
    /\ participants' = participants \ {c}
    /\ stale' = stale \ {c}
    /\ Goto(c, "gone")
    /\ UNCHANGED <<ticketVars, peers, logVars, postVars, readVars, pageVars>>

\* The worker dies, the handler fails before its loop, or its cleanup fails:
\* nobody is told and the row stays.
Abort(c) ==
    /\ pc[c] \notin {"new", "refused", "gone"}
    /\ mail' = [mail EXCEPT ![c] = None]
    /\ number' = [number EXCEPT ![c] = 0]
    /\ Goto(c, IF pc[c] = "claim" THEN "refused" ELSE "gone")
    /\ UNCHANGED <<ticketVars, joinVars, logVars, readVars, pageVars>>

-----------------------------------------------------------------------------
(* Time. *)

Lapse(c) ==
    /\ c \in participants \ stale
    /\ pc[c] = "gone" \/ ~Timely
    /\ stale' = stale \cup {c}
    /\ UNCHANGED <<ticketVars, pc, peers, participants, logVars, postVars, readVars, pageVars>>

\* All signals live equally long, so that the oldest one expires first.
Expire ==
    /\ \E s \in signals \ expired :
            /\ s.seq \in 1..MaxExpired
            /\ \A u \in signals \ expired : s.seq <= u.seq
            /\ expired' = expired \cup {s}
    /\ UNCHANGED <<ticketVars, pc, joinVars, signals, top, postVars, readVars, pageVars>>

Over ==
    /\ \A c \in Conn : pc[c] \in {"refused", "gone"}
    /\ UNCHANGED vars

-----------------------------------------------------------------------------
Init ==
    /\ presented \in Presentations /\ used = {}
    /\ pc = [c \in Conn |-> "new"]
    /\ peers = [c \in Conn |-> {}]
    /\ participants = {} /\ stale = {}
    /\ signals = {} /\ expired = {} /\ top = 0
    /\ mail = [c \in Conn |-> None]
    /\ number = [c \in Conn |-> 0]
    /\ cursor = [c \in Conn |-> None]
    /\ got = [c \in Conn |-> {}]
    /\ before = [c \in Conn |-> {}]
    /\ client = [c \in Conn |-> "closed"]
    /\ out = [c \in Conn |-> {}]

Handler(c) ==
    \/ Present(c) \/ Claim(c) \/ Authorize(c)
    \/ Join(c) \/ CommitJoin(c) \/ Sequence(c) \/ Hello(c)
    \/ Post(c) \/ Insert(c) \/ CommitPost(c)
    \/ Receive(c) \/ ReceiveNothing(c) \/ ReceiveHangup(c) \/ Poll(c)
    \/ Leave(c)

Next ==
    \/ \E c \in Conn : Handler(c) \/ AllowCamera(c) \/ Disconnect(c) \/ Abort(c) \/ Lapse(c)
    \/ Expire
    \/ Over

Spec == Init /\ [][Next]_vars

-----------------------------------------------------------------------------
(* Invariants. *)

PC == {"new", "claim", "authorize", "join", "joining", "sequence", "hello", "announce", "loop",
       "sending", "poll", "hangup", "hungup", "leave", "delete", "gone", "refused"}

\* Every variable ranges over its type; only stored rows are stale or expired.
TypeOK ==
    /\ presented \in [Conn -> Ticket] /\ used \in SUBSET Ticket
    /\ pc \in [Conn -> PC]
    /\ peers \in [Conn -> SUBSET Conn]
    /\ participants \in SUBSET Conn /\ stale \in SUBSET participants
    /\ signals \in SUBSET Signal /\ expired \in SUBSET signals /\ top \in Nat
    /\ mail \in [Conn -> Message \cup {None}] /\ number \in [Conn -> Nat]
    /\ cursor \in [Conn -> Nat \cup {None}]
    /\ got \in [Conn -> SUBSET Signal] /\ before \in [Conn -> SUBSET Signal]
    /\ client \in [Conn -> {"closed", "asking", "ready", "failed"}]
    /\ out \in [Conn -> SUBSET Message]

Admitted(c) == pc[c] \notin {"new", "claim", "refused"}

\* "Short-lived, single-use call tickets": two connections that present one
\* ticket at the same time, on any workers, are not both let in.
TicketOnce ==
    \A c, d \in Conn :
        (c # d /\ Admitted(c) /\ Admitted(d)) => presented[c] # presented[d]

\* Of two participants exactly one was told of the other and offers to it:
\* with none the two never meet, with both their offers collide.
OneSideOffers ==
    \A c, d \in participants : c # d => (c \in peers[d] <=> d \notin peers[c])

Read(s, c) == s \in got[c] \/ s.seq > cursor[c]
Listening(c) == cursor[c] # None /\ pc[c] # "gone"

\* "Call signaling is database-backed so participants connected to different
\* application workers can exchange signals": no signal stored since c read
\* its first cursor is passed over before it expires.
NoSignalSkipped ==
    \A c \in Conn : Listening(c) =>
        \A s \in signals \ (before[c] \cup expired) : For(s, c) => Read(s, c)

-----------------------------------------------------------------------------
(* Action properties. *)

\* What a client is sent is for it, was never sent before, and has a higher
\* number than all it was sent so far, however the writers interleave.
DeliveredInOrder ==
    [][\A c \in Conn : \A s \in got'[c] :
        (pc[c] = "poll" /\ pc'[c] = "loop" /\ s \in Page(c)) =>
            /\ s.from # c /\ s.to \in {None, c}
            /\ \A u \in got[c] : u.seq < s.seq]_vars

-----------------------------------------------------------------------------
(* Liveness.  A handler goes on as long as its worker runs: its statements   *)
(* return or raise, and its receive times out after 200 ms.                  *)

Fairness == \A c \in Conn : WF_vars(Handler(c))

FairSpec == Spec /\ Fairness

InLoop(c) == pc[c] \in {"loop", "sending", "poll"}

\* A participant that stays is sent all that is there for it, though a page is
\* bounded and the participant sends signals itself in between.
SignalsArrive == \A c \in Conn : <>[]InLoop(c) => <>[](InLoop(c) => Due(c) = {})

=============================================================================
