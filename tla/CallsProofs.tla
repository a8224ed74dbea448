----------------------------- MODULE CallsProofs -----------------------------
(***************************************************************************)
(* Proofs about Calls: its inductive invariant, the order of deliveries    *)
(* and, for SQLite with signals that do not expire, that its signal table  *)
(* is a SignalLog.                                                         *)
(***************************************************************************)
EXTENDS CallsInv, FiniteSetTheorems, TLAPS

-----------------------------------------------------------------------------
(* The names of the steps. *)

HandlerStep(c) ==
    Handler(c) \/ AllowCamera(c) \/ Disconnect(c) \/ Abort(c) \/ Lapse(c)

LEMMA AfterIs ==
    /\ DOMAIN After = {"announce", "sending", "hangup", "leave"}
    /\ After["announce"] = "loop" /\ After["sending"] = "poll"
    /\ After["hangup"] = "hungup" /\ After["leave"] = "delete"
BY DEF After

\* The kinds of steps a handler takes: most only move it on.
LEMMA Moves ==
    ASSUME NEW c \in Conn, HandlerStep(c), TypeOK, Control
    PROVE  /\ \/ pc' = pc
              \/ pc[c] \notin {"gone", "refused"} /\ \E label \in PC : pc' = [pc EXCEPT ![c] = label]
           /\ \A d \in Conn \ {c} : pc'[d] = pc[d]
<1>0. pc \in [Conn -> PC]
  BY DEF TypeOK
<1>1. CASE Post(c) \/ CommitPost(c)
  <2>1. pc[c] \in {"announce", "sending", "hangup", "leave"}
    BY <1>1, AfterIs DEF Control, Posting, Post, CommitPost
  <2>2. After[pc[c]] \in PC
    BY <2>1, AfterIs DEF PC
  <2>3. pc' = [pc EXCEPT ![c] = After[pc[c]]]
    BY <1>1 DEF Post, CommitPost, Stored, Goto
  <2> QED
    BY <1>0, <2>1, <2>2, <2>3
<1>2. CASE ~(Post(c) \/ CommitPost(c))
  BY <1>0, <1>2 DEF HandlerStep, Handler, Goto, PC, Present, Claim, Authorize, Join, CommitJoin,
     Sequence, Hello, Insert, Receive, ReceiveNothing, ReceiveHangup, Poll, Leave, AllowCamera,
     Disconnect, Abort, Lapse
<1> QED
  BY <1>1, <1>2

-----------------------------------------------------------------------------
(* Types and control. *)

LEMMA RowType ==
    ASSUME NEW c \in Conn, NEW n \in Nat, mail[c] \in Message
    PROVE  Row(c, n) \in Signal /\ Row(c, n).seq = n /\ Row(c, n).from = c
BY DEF Row, Message, Signal

LEMMA StoredTypes ==
    ASSUME TypeOK, Control, NEW c \in Conn, NEW n \in Nat, pc[c] \in DOMAIN After, Stored(c, n)
    PROVE  /\ signals' \in SUBSET Signal /\ expired' = {}
           /\ mail' \in [Conn -> Message \cup {None}]
           /\ pc' \in [Conn -> PC]
<1>1. Row(c, n) \in Signal
  BY RowType DEF Control, Posting
<1>2. After[pc[c]] \in PC
  BY AfterIs DEF PC
<1> QED
  BY <1>1, <1>2 DEF Stored, Goto, TypeOK

LEMMA LastType == TypeOK => \A rows \in SUBSET signals : \A n : IsLast(n, rows) => n \in Nat
BY DEF TypeOK, IsLast, Numbers, Signal

LEMMA HandlerTypes ==
    ASSUME TypeOK, Control, NEW c \in Conn, HandlerStep(c)
    PROVE  TypeOK'
<1>1. CASE Present(c) \/ Claim(c) \/ Authorize(c) \/ ReceiveNothing(c)
  BY <1>1, TicketsAreGiven
     DEF TypeOK, PC, Goto, Present, Claim, Authorize, ReceiveNothing, joinVars, ticketVars, logVars,
         postVars, readVars, pageVars
<1>2. CASE Join(c) \/ CommitJoin(c) \/ Leave(c)
  BY <1>2 DEF TypeOK, PC, Goto, Join, CommitJoin, Leave, ticketVars, logVars, postVars,
     readVars, pageVars
<1>3. CASE Sequence(c)
  <2>1. PICK n \in {0} \cup Numbers(signals) : IsLast(n, signals) /\ cursor' = [cursor EXCEPT ![c] = n]
    BY <1>3 DEF Sequence
  <2>2. n \in Nat
    BY <2>1, LastType
  <2> QED
    BY <1>3, <2>1, <2>2
       DEF TypeOK, PC, Goto, Sequence, joinVars, ticketVars, logVars, postVars, pageVars
<1>4. CASE Hello(c) \/ ReceiveHangup(c) \/ Disconnect(c) \/ Abort(c)
  BY <1>4 DEF TypeOK, PC, Goto, Message, Hello, ReceiveHangup, Disconnect, Abort, joinVars, ticketVars, logVars,
     readVars, pageVars
<1>5. CASE Post(c)
  <2>1. PICK n \in {0} \cup Numbers(signals \ expired) : IsLast(n, signals \ expired) /\ Stored(c, n + 1)
    BY <1>5 DEF Post
  <2>2. n + 1 \in Nat
    BY <2>1, LastType
  <2>3. /\ signals' \in SUBSET Signal /\ expired' = {}
        /\ mail' \in [Conn -> Message \cup {None}] /\ pc' \in [Conn -> PC]
    BY <1>5, <2>1, <2>2, StoredTypes DEF Post
  <2> QED
    BY <1>5, <2>3 DEF Post, TypeOK, joinVars, ticketVars, readVars, pageVars
<1>6. CASE Insert(c)
  BY <1>6 DEF TypeOK, Insert, joinVars, ticketVars, readVars, pageVars
<1>7. CASE CommitPost(c)
  <2>1. number[c] \in Nat
    BY DEF TypeOK
  <2>2. pc[c] \in DOMAIN After /\ Stored(c, number[c])
    BY <1>7 DEF CommitPost, Control, Posting
  <2>3. /\ signals' \in SUBSET Signal /\ expired' = {}
        /\ mail' \in [Conn -> Message \cup {None}] /\ pc' \in [Conn -> PC]
    BY <2>1, <2>2, StoredTypes
  <2> QED
    BY <1>7, <2>3 DEF CommitPost, TypeOK, joinVars, ticketVars, readVars, pageVars
<1>8. CASE Receive(c)
  <2>1. PICK m \in out[c] : mail' = [mail EXCEPT ![c] = m] /\ out' = [out EXCEPT ![c] = @ \ {m}]
    BY <1>8 DEF Receive
  <2>2. m \in Message
    BY <2>1 DEF TypeOK
  <2>3. out' \in [Conn -> SUBSET Message]
    BY <2>1 DEF TypeOK
  <2> QED
    BY <1>8, <2>1, <2>2, <2>3 DEF TypeOK, PC, Goto, Receive, joinVars, ticketVars, logVars, readVars
<1>9. CASE Poll(c)
  <2>1. Page(c) \in SUBSET Signal
    BY DEF Page, Due, TypeOK
  <2>2. PICK n \in {cursor[c]} \cup Numbers(Page(c)) : cursor' = [cursor EXCEPT ![c] = n]
    BY <1>9 DEF Poll
  <2>3. n \in Nat \cup {None}
    BY <2>1, <2>2 DEF Numbers, Signal, TypeOK
  <2>4. client' \in [Conn -> {"closed", "asking", "ready", "failed"}]
    BY <1>9 DEF Poll, Show, TypeOK
  <2>5. \A s \in Page(c) : [to |-> s.from, kind |-> "answer"] \in Message
    BY <2>1 DEF Signal, Message
  <2>6. out' \in [Conn -> SUBSET Message]
    <3>1. {[to |-> s.from, kind |-> "answer"] : s \in {s \in Page(c) : s.kind = "offer"}} \in SUBSET Message
      BY <2>5
    <3> QED
      BY <1>9, <3>1 DEF Poll, Show, TypeOK
  <2>7. stale' \in SUBSET participants'
    BY <1>9 DEF Poll, MayBeat, TypeOK
  <2>8. got' \in [Conn -> SUBSET Signal] /\ cursor' \in [Conn -> Nat \cup {None}] /\ pc' \in [Conn -> PC]
    BY <1>9, <2>1, <2>2, <2>3 DEF Poll, Goto, PC, TypeOK
  <2> QED
    BY <1>9, <2>4, <2>6, <2>7, <2>8 DEF Poll, TypeOK, ticketVars, logVars, postVars
<1>10. CASE AllowCamera(c)
  <2>1. {[to |-> d, kind |-> "offer"] : d \in peers[c]} \in SUBSET Message
    BY DEF TypeOK, Message
  <2> QED
    BY <1>10, <2>1 DEF AllowCamera, TypeOK, joinVars, ticketVars, logVars, postVars, readVars
<1>11. CASE Lapse(c)
  BY <1>11 DEF Lapse, TypeOK, ticketVars, logVars, postVars, readVars, pageVars
<1> QED
  BY <1>1, <1>2, <1>3, <1>4, <1>5, <1>6, <1>7, <1>8, <1>9, <1>10, <1>11 DEF HandlerStep, Handler

LEMMA ExpireTypes == TypeOK /\ Expire => TypeOK'
BY DEF TypeOK, Expire, joinVars, ticketVars, postVars, readVars, pageVars

LEMMA HandlerControl ==
    ASSUME TypeOK, Control, NEW c \in Conn, HandlerStep(c)
    PROVE  Control'
<1>0. /\ pc \in [Conn -> PC] /\ mail \in [Conn -> Message \cup {None}] /\ number \in [Conn -> Nat]
      /\ cursor \in [Conn -> Nat \cup {None}]
  BY DEF TypeOK
<1>1. CASE Present(c) \/ Claim(c) \/ Authorize(c) \/ ReceiveNothing(c) \/ Join(c) \/ CommitJoin(c)
           \/ Leave(c)
  BY <1>0, <1>1, AfterIs
     DEF Control, Posting, Goto, Present, Claim, Authorize, ReceiveNothing, Join, CommitJoin, Leave,
         postVars, readVars
<1>2. CASE Sequence(c)
  <2>1. PICK n \in {0} \cup Numbers(signals) : IsLast(n, signals) /\ cursor' = [cursor EXCEPT ![c] = n]
    BY <1>2 DEF Sequence
  <2>2. n # None
    BY <2>1, LastType, NoneIsNothing
  <2> QED
    BY <1>0, <1>2, <2>1, <2>2, AfterIs DEF Control, Posting, Goto, Sequence, postVars
<1>3. CASE Hello(c) \/ ReceiveHangup(c) \/ Disconnect(c) \/ Abort(c)
  <2>1. [to |-> None, kind |-> "peer_joined"] \in Message /\ [to |-> None, kind |-> "peer_left"] \in Message
    BY DEF Message
  <2> QED
    BY <1>0, <1>3, <2>1, AfterIs
       DEF Control, Posting, Goto, Hello, ReceiveHangup, Disconnect, Abort, readVars
<1>4. CASE Post(c) \/ CommitPost(c)
  <2>1. /\ pc[c] \in DOMAIN After
        /\ pc' = [pc EXCEPT ![c] = After[pc[c]]]
        /\ mail' = [mail EXCEPT ![c] = None] /\ cursor' = cursor
    BY <1>4 DEF Post, CommitPost, Stored, Goto, Control, Posting, readVars
  <2>2. number'[c] = 0 /\ \A d \in Conn \ {c} : number'[d] = number[d]
    BY <1>0, <1>4 DEF Post, CommitPost, Control
  <2> QED
    BY <1>0, <2>1, <2>2, AfterIs DEF Control, Posting
<1>5. CASE Insert(c)
  BY <1>0, <1>5 DEF Control, Posting, Insert, readVars
<1>6. CASE Receive(c)
  <2>1. PICK m \in out[c] : mail' = [mail EXCEPT ![c] = m]
    BY <1>6 DEF Receive
  <2>2. m \in Message
    BY <2>1 DEF TypeOK
  <2> QED
    BY <1>0, <1>6, <2>1, <2>2, AfterIs DEF Control, Posting, Goto, Receive, readVars
<1>7. CASE Poll(c)
  <2>1. PICK n \in {cursor[c]} \cup Numbers(Page(c)) : cursor' = [cursor EXCEPT ![c] = n]
    BY <1>7 DEF Poll
  <2>2. n # None
    <3>1. cursor[c] # None
      BY <1>7 DEF Poll, Control
    <3>2. Page(c) \subseteq Signal
      BY DEF Page, Due, TypeOK
    <3>3. Numbers(Page(c)) \subseteq Nat
      BY <3>2 DEF Numbers, Signal
    <3> QED
      BY <2>1, <3>1, <3>3, NoneIsNothing
  <2> QED
    BY <1>0, <1>7, <2>1, <2>2, AfterIs DEF Control, Posting, Goto, Poll, postVars
<1>8. CASE AllowCamera(c) \/ Lapse(c)
  BY <1>8 DEF Control, Posting, AllowCamera, Lapse, postVars, readVars
<1> QED
  BY <1>1, <1>2, <1>3, <1>4, <1>5, <1>6, <1>7, <1>8 DEF HandlerStep, Handler

-----------------------------------------------------------------------------
(* Tickets and participants. *)

LEMMA HandlerTickets ==
    ASSUME TypeOK, Control, Spent, TicketOnce, NEW c \in Conn, HandlerStep(c)
    PROVE  Spent' /\ TicketOnce'
<1>0. pc \in [Conn -> PC] /\ used' \in SUBSET Ticket
  BY HandlerTypes DEF TypeOK
<1>a. presented' = presented
  BY DEF HandlerStep, Handler, Present, Claim, Authorize, Join, CommitJoin, Sequence, Hello, Post,
     Insert, CommitPost, Receive, ReceiveNothing, ReceiveHangup, Poll, Leave, AllowCamera,
     Disconnect, Abort, Lapse, ticketVars
<1>1. /\ Admitted(c)' => \/ Admitted(c) /\ used' = used
                         \/ presented[c] \notin used /\ used' = used \cup {presented[c]}
      /\ used \subseteq used'
  <2>1. CASE Claim(c)
    BY <1>0, <2>1 DEF Claim, Goto, Admitted
  <2>2. CASE Present(c)
    BY <1>0, <2>2 DEF Present, Goto, Admitted, ticketVars
  <2>3. CASE ~(Claim(c) \/ Present(c))
    <3>1. used' = used
      BY <2>3 DEF HandlerStep, Handler, Authorize, Join, CommitJoin, Sequence, Hello, Post, Insert,
         CommitPost, Receive, ReceiveNothing, ReceiveHangup, Poll, Leave, AllowCamera, Disconnect,
         Abort, Lapse, ticketVars
    <3>2. Admitted(c)' => Admitted(c)
      BY <1>0, <2>3, AfterIs
         DEF HandlerStep, Handler, Admitted, Goto, Control, Posting, Authorize, Join, CommitJoin,
             Sequence, Hello, Post, Insert, CommitPost, Stored, Receive, ReceiveNothing, ReceiveHangup,
             Poll, Leave, AllowCamera, Disconnect, Abort, Lapse
    <3> QED
      BY <3>1, <3>2
  <2> QED
    BY <2>1, <2>2, <2>3
<1>2. \A d \in Conn \ {c} : Admitted(d)' = Admitted(d)
  BY Moves DEF Admitted
<1>3. Spent'
  BY <1>a, <1>1, <1>2 DEF Spent
<1>4. TicketOnce'
  <2> SUFFICES ASSUME NEW x \in Conn, NEW y \in Conn, x # y, Admitted(x)', Admitted(y)'
               PROVE  presented[x] # presented[y]
    BY <1>a DEF TicketOnce
  <2>1. CASE Admitted(x) /\ Admitted(y)
    BY <2>1 DEF TicketOnce
  <2>2. CASE ~(Admitted(x) /\ Admitted(y))
    BY <1>1, <1>2, <2>2 DEF Spent
  <2> QED
    BY <2>1, <2>2
<1> QED
  BY <1>3, <1>4

\* Whoever has entered the table once has done so for good.
LEMMA EnteredStays ==
    ASSUME TypeOK, Control, NEW c \in Conn, HandlerStep(c)
    PROVE  \A d \in Conn : Entered(d) => Entered(d)'
<1>0. pc \in [Conn -> PC]
  BY DEF TypeOK
<1>1. Entered(c) => Entered(c)'
  BY <1>0, AfterIs
     DEF HandlerStep, Handler, Entered, Goto, Control, Posting, Present, Claim, Authorize, Join,
         CommitJoin, Sequence, Hello, Post, Insert, CommitPost, Stored, Receive, ReceiveNothing,
         ReceiveHangup, Poll, Leave, AllowCamera, Disconnect, Abort, Lapse
<1> QED
  BY <1>1, Moves DEF Entered

LEMMA TableUnchanged ==
    ASSUME NEW c \in Conn, HandlerStep(c), ~(Join(c) \/ CommitJoin(c) \/ Leave(c))
    PROVE  peers' = peers /\ participants' = participants
BY DEF HandlerStep, Handler, Present, Claim, Authorize, Sequence, Hello, Post, Insert,
   CommitPost, Receive, ReceiveNothing, ReceiveHangup, Poll, AllowCamera, Disconnect, Abort, Lapse,
   joinVars, ticketVars

LEMMA HandlerEntrants ==
    ASSUME TypeOK, Control, Entrants, NEW c \in Conn, HandlerStep(c)
    PROVE  Entrants'
<1>0. /\ pc \in [Conn -> PC] /\ peers \in [Conn -> SUBSET Conn] /\ participants \in SUBSET Conn
      /\ participants' \in SUBSET Conn /\ peers' \in [Conn -> SUBSET Conn]
  BY HandlerTypes DEF TypeOK
<1>1. CASE Join(c)
  <2>1. /\ peers' = [peers EXCEPT ![c] = participants \ stale]
        /\ participants' \subseteq participants \cup {c}
    BY <1>1 DEF Join
  <2>2. c \notin participants
    BY <1>1 DEF Join, Entrants, Entered
  <2>3. c \in participants' => Entered(c)'
    BY <1>0, <1>1, <2>2 DEF Join, Goto, Entered
  <2> QED
    BY <1>0, <2>1, <2>3, EnteredStays DEF Entrants
<1>2. CASE CommitJoin(c)
  BY <1>0, <1>2, EnteredStays DEF Entrants, CommitJoin, Goto, Entered
<1>3. CASE Leave(c)
  BY <1>0, <1>3, EnteredStays DEF Entrants, Leave
<1>4. CASE ~(Join(c) \/ CommitJoin(c) \/ Leave(c))
  BY <1>0, <1>4, TableUnchanged, EnteredStays DEF Entrants
<1> QED
  BY <1>1, <1>2, <1>3, <1>4

LEMMA HandlerOffers ==
    ASSUME TypeOK, Control, Entrants, Serial, OneSideOffers, NEW c \in Conn, HandlerStep(c)
    PROVE  OneSideOffers'
<1>0. peers \in [Conn -> SUBSET Conn] /\ participants \in SUBSET Conn
  BY DEF TypeOK
<1>1. CASE Join(c)
  <2>1. ~Entered(c)
    BY <1>1 DEF Join, Entered
  <2>2. c \notin participants /\ \A d \in Conn : c \notin peers[d]
    BY <2>1 DEF Entrants
  <2>3. /\ peers' = [peers EXCEPT ![c] = participants \ stale]
        /\ participants' = (participants \ stale) \cup {c}
    BY <1>1 DEF Join
  <2> QED
    BY <1>0, <2>2, <2>3 DEF OneSideOffers
<1>2. ~CommitJoin(c)
  BY DEF CommitJoin, Control
<1>3. CASE Leave(c)
  BY <1>3 DEF OneSideOffers, Leave
<1>4. CASE ~(Join(c) \/ CommitJoin(c) \/ Leave(c))
  BY <1>4, TableUnchanged DEF OneSideOffers
<1> QED
  BY <1>1, <1>2, <1>3, <1>4

-----------------------------------------------------------------------------
(* The inductive invariant. *)

LEMMA InitHolds == Init => IInv
BY TicketsAreGiven DEF Init, IInv, TypeOK, PC, Spent, TicketOnce, Admitted, Control, Posting, After, Entrants

LEMMA StutterHolds == IInv /\ UNCHANGED vars => IInv'
BY DEF IInv, vars, joinVars, ticketVars, logVars, postVars, readVars, pageVars, TypeOK, Spent, TicketOnce,
   Admitted, Control, Posting, Serial, Entrants, Entered

LEMMA ExpireHolds == IInv /\ Expire => IInv'
<1> SUFFICES ASSUME IInv, Expire PROVE IInv'
  OBVIOUS
<1>1. TypeOK'
  BY ExpireTypes DEF IInv
<1>2. UNCHANGED <<ticketVars, pc, joinVars, signals, top, postVars, readVars, pageVars>>
  BY DEF Expire
<1> QED
  BY <1>1, <1>2 DEF IInv, Spent, TicketOnce, Admitted, Control, Posting, Serial, Entrants, Entered,
     joinVars, ticketVars, postVars, readVars

LEMMA StepHolds == IInv /\ [Next]_vars => IInv'
<1> SUFFICES ASSUME IInv, [Next]_vars PROVE IInv'
  OBVIOUS
<1>1. CASE \E c \in Conn : HandlerStep(c)
  <2>1. PICK c \in Conn : HandlerStep(c)
    BY <1>1
  <2>2. TypeOK /\ Spent /\ TicketOnce /\ Control /\ Entrants
    BY DEF IInv
  <2> QED
    BY <2>1, <2>2, HandlerTypes, HandlerTickets, HandlerControl, HandlerEntrants DEF IInv
<1>2. CASE Expire
  BY <1>2, ExpireHolds
<1>3. CASE Over \/ UNCHANGED vars
  BY <1>3, StutterHolds DEF Over
<1> QED
  BY <1>1, <1>2, <1>3 DEF Next, HandlerStep

\* Every reachable state satisfies the inductive invariant.
THEOREM Invariance == Spec => []IInv
<1> QED
  BY InitHolds, StepHolds, PTL DEF Spec

\* The state of a call is well formed.
THEOREM TypeCorrect == Spec => []TypeOK
<1>1. IInv => TypeOK
  BY DEF IInv
<1> QED
  BY <1>1, Invariance, PTL

\* A ticket admits one connection, on both databases, however many present it.
THEOREM TicketsCorrect == Spec => []TicketOnce
<1>1. IInv => TicketOnce
  BY DEF IInv
<1> QED
  BY <1>1, Invariance, PTL

\* On SQLite exactly one of two participants offers to the other, though their
\* rows turn stale, are deleted or left behind at any time.
THEOREM OffersCorrect == ASSUME Serial PROVE Spec => []OneSideOffers
<1>1. Init => OneSideOffers
  BY DEF Init, OneSideOffers
<1>2. IInv /\ OneSideOffers /\ [Next]_vars => OneSideOffers'
  <2> SUFFICES ASSUME IInv, OneSideOffers, [Next]_vars PROVE OneSideOffers'
    OBVIOUS
  <2>1. CASE \E c \in Conn : HandlerStep(c)
    BY <2>1, HandlerOffers DEF IInv
  <2>2. CASE Expire \/ Over \/ UNCHANGED vars
    BY <2>2 DEF Expire, Over, vars, joinVars, ticketVars, OneSideOffers
  <2> QED
    BY <2>1, <2>2 DEF Next, HandlerStep
<1> QED
  BY <1>1, <1>2, Invariance, PTL DEF Spec

-----------------------------------------------------------------------------
(* The log of SQLite, while no signal expires. *)

\* A new row is numbered above all rows and all cursors.
LEMMA PostAppends ==
    ASSUME TypeOK, Control, LogInv, NEW c \in Conn, Post(c)
    PROVE  /\ \E s \in Signal :
                /\ signals' = signals \cup {s}
                /\ \A u \in signals : u.seq < s.seq
                /\ \A d \in Conn : cursor[d] # None => cursor[d] < s.seq
           /\ expired' = {} /\ UNCHANGED readVars
<1>1. PICK n \in {0} \cup Numbers(signals \ expired) : IsLast(n, signals \ expired) /\ Stored(c, n + 1)
  BY DEF Post
<1>2. n \in Nat /\ signals \ expired = signals
  BY <1>1, LastType DEF LogInv
<1> DEFINE s == Row(c, n + 1)
<1>3. s \in Signal /\ s.seq = n + 1
  BY <1>2, RowType DEF Post, Control, Posting
<1>4. signals' = signals \cup {s} /\ expired' = {}
  BY <1>1, <1>2 DEF Stored
<1>5. \A u \in signals : u.seq \in Nat /\ u.seq < s.seq
  <2> TAKE u \in signals
  <2>1. u.seq \in Nat
    BY DEF TypeOK, Signal
  <2>2. u.seq <= n
    BY <1>1, <1>2 DEF IsLast
  <2> QED
    BY <1>2, <1>3, <2>1, <2>2
<1>6. \A d \in Conn : cursor[d] # None => cursor[d] < s.seq
  <2> SUFFICES ASSUME NEW d \in Conn, cursor[d] # None PROVE cursor[d] < s.seq
    OBVIOUS
  <2>1. CASE cursor[d] = 0
    BY <1>2, <1>3, <2>1
  <2>2. CASE cursor[d] \in Numbers(signals)
    BY <1>5, <2>2 DEF Numbers
  <2> QED
    BY <2>1, <2>2 DEF LogInv, CursorsAreStored
<1> QED
  BY <1>3, <1>4, <1>5, <1>6 DEF Post

\* A page holds all that is due up to the number the cursor moves to.
LEMMA PollReads ==
    ASSUME TypeOK, Control, LogInv, NEW c \in Conn, Poll(c)
    PROVE  /\ cursor[c] \in Nat
           /\ \E n \in {cursor[c]} \cup Numbers(signals) :
                /\ n \in Nat /\ cursor[c] <= n
                /\ cursor' = [cursor EXCEPT ![c] = n]
                /\ got' = [got EXCEPT ![c] = @ \cup
                    {s \in signals : For(s, c) /\ cursor[c] < s.seq /\ s.seq <= n}]
           /\ signals' = signals /\ expired' = expired /\ before' = before
<1>1. cursor[c] \in Nat
  BY DEF Poll, Control, TypeOK
<1>2. PICK n \in {cursor[c]} \cup Numbers(Page(c)) :
        (\A s \in Page(c) : s.seq <= n) /\ cursor' = [cursor EXCEPT ![c] = n]
  BY DEF Poll
<1>3. Due(c) = {s \in signals : For(s, c) /\ s.seq > cursor[c]} /\ Page(c) \subseteq Due(c)
  BY DEF Due, Page, LogInv
<1>4. \A s \in signals : s.seq \in Nat
  BY DEF TypeOK, Signal
<1>5. n \in {cursor[c]} \cup Numbers(signals) /\ n \in Nat /\ cursor[c] <= n
  BY <1>1, <1>2, <1>3, <1>4 DEF Numbers
<1>6. Page(c) = {s \in signals : For(s, c) /\ cursor[c] < s.seq /\ s.seq <= n}
  <2>1. \A s \in Page(c) : s \in signals /\ For(s, c) /\ cursor[c] < s.seq /\ s.seq <= n
    BY <1>1, <1>2, <1>3, <1>4
  <2>2. ASSUME NEW s \in signals, For(s, c), cursor[c] < s.seq, s.seq <= n PROVE s \in Page(c)
    <3>1. s \in Due(c)
      BY <1>1, <1>3, <1>4, <2>2
    <3>2. PICK w \in Page(c) : w.seq = n
      BY <1>1, <1>2, <1>4, <2>2 DEF Numbers
    <3> DEFINE Below(m) == {u \in Due(c) : u.seq < m}
    <3>3. IsFiniteSet(Below(n)) /\ Below(s.seq) \subseteq Below(n)
      <4>1. Below(n) \subseteq signals
        BY <1>3
      <4>2. Below(s.seq) \subseteq Below(n)
        BY <1>3, <1>4, <1>5, <2>2
      <4> QED
        BY <4>1, <4>2, FS_Subset DEF LogInv
    <3>4. /\ Cardinality(Below(s.seq)) <= Cardinality(Below(n))
          /\ Cardinality(Below(s.seq)) \in Nat /\ Cardinality(Below(n)) \in Nat
      BY <3>3, FS_Subset, FS_CardinalityType
    <3>5. Cardinality(Below(n)) < Batch
      BY <3>2 DEF Page
    <3>6. Cardinality(Below(s.seq)) < Batch
      BY <3>4, <3>5, BatchIsPositive
    <3> QED
      BY <3>1, <3>6 DEF Page
  <2> QED
    BY <2>1, <2>2
<1>7. got' = [got EXCEPT ![c] = @ \cup Page(c)] /\ UNCHANGED <<logVars, before>>
  BY DEF Poll
<1> QED
  BY <1>1, <1>2, <1>5, <1>6, <1>7 DEF logVars

\* A cursor starts at the end of the log.
LEMMA SequenceOpens ==
    ASSUME TypeOK, Control, NEW c \in Conn, Sequence(c)
    PROVE  /\ cursor[c] = None
           /\ \E n \in {0} \cup Numbers(signals) :
                /\ n \in Nat /\ \A s \in signals : s.seq <= n
                /\ cursor' = [cursor EXCEPT ![c] = n]
           /\ before' = [before EXCEPT ![c] = signals]
           /\ signals' = signals /\ expired' = expired /\ got' = got
<1>1. PICK n \in {0} \cup Numbers(signals) : IsLast(n, signals) /\ cursor' = [cursor EXCEPT ![c] = n]
  BY DEF Sequence
<1>2. n \in Nat /\ \A s \in signals : s.seq <= n
  BY <1>1, LastType DEF IsLast
<1> QED
  BY <1>1, <1>2 DEF Sequence, Control, logVars

\* No other step touches the log or a reader.
LEMMA LogUnchanged ==
    ASSUME Serial, Control, NEW c \in Conn, HandlerStep(c), ~(Post(c) \/ Poll(c) \/ Sequence(c))
    PROVE  signals' = signals /\ expired' = expired /\ UNCHANGED readVars
<1>1. ~Insert(c) /\ ~CommitPost(c)
  BY DEF Insert, CommitPost, Control
<1> QED
  BY <1>1 DEF HandlerStep, Handler, Present, Claim, Authorize, Join, CommitJoin, Hello, Receive,
     ReceiveNothing, ReceiveHangup, Leave, AllowCamera, Disconnect, Abort, Lapse, logVars

LEMMA LogStep ==
    ASSUME Serial, TypeOK, Control, LogInv, NEW c \in Conn, HandlerStep(c)
    PROVE  LogInv'
<1>0. /\ cursor \in [Conn -> Nat \cup {None}] /\ got \in [Conn -> SUBSET Signal]
      /\ before \in [Conn -> SUBSET Signal]
      /\ \A s \in signals : s.seq \in Nat
  BY DEF TypeOK, Signal
<1>1. CASE Post(c)
  <2>1. PICK s \in Signal :
            /\ signals' = signals \cup {s}
            /\ \A u \in signals : u.seq < s.seq
            /\ \A d \in Conn : cursor[d] # None => cursor[d] < s.seq
    BY <1>1, PostAppends
  <2>2. expired' = {} /\ cursor' = cursor /\ got' = got /\ before' = before
    BY <1>1, PostAppends DEF readVars
  <2>3. IsFiniteSet(signals') /\ s.seq \in Nat
    BY <2>1, FS_AddElement DEF LogInv, Signal
  <2>4. UniqueNumbers'
    BY <1>0, <2>1, <2>3 DEF LogInv, UniqueNumbers
  <2>5. CursorsAreStored'
    BY <2>1, <2>2 DEF LogInv, CursorsAreStored, Numbers
  <2>6. NothingSkipped'
    BY <1>0, <2>1, <2>2, <2>3 DEF LogInv, NothingSkipped, For, Read
  <2> QED
    BY <2>2, <2>3, <2>4, <2>5, <2>6 DEF LogInv
<1>2. CASE Poll(c)
  <2>1. PICK n \in {cursor[c]} \cup Numbers(signals) :
            /\ n \in Nat /\ cursor[c] <= n
            /\ cursor' = [cursor EXCEPT ![c] = n]
            /\ got' = [got EXCEPT ![c] = @ \cup
                {s \in signals : For(s, c) /\ cursor[c] < s.seq /\ s.seq <= n}]
    BY <1>2, PollReads
  <2>2. signals' = signals /\ expired' = expired /\ before' = before /\ cursor[c] \in Nat
    BY <1>2, PollReads
  <2>3. CursorsAreStored'
    <3>1. cursor[c] = 0 \/ cursor[c] \in Numbers(signals)
      BY <2>2, NoneIsNothing DEF LogInv, CursorsAreStored
    <3> QED
      BY <1>0, <2>1, <2>2, <3>1 DEF LogInv, CursorsAreStored
  <2>4. NothingSkipped'
    <3> SUFFICES ASSUME NEW d \in Conn, cursor'[d] # None, NEW s \in signals \ before[d], For(s, d)
                 PROVE  s \in got'[d] \/ s.seq > cursor'[d]
      BY <2>2 DEF NothingSkipped, For, Read
    <3>1. CASE d # c
      BY <1>0, <2>1, <3>1 DEF LogInv, NothingSkipped, Read
    <3>2. CASE d = c
      <4>1. s \in got[c] \/ s.seq > cursor[c]
        BY <2>2, <3>2, NoneIsNothing DEF LogInv, NothingSkipped, Read
      <4> QED
        BY <1>0, <2>1, <2>2, <3>2, <4>1
    <3> QED
      BY <3>1, <3>2
  <2> QED
    BY <2>2, <2>3, <2>4 DEF LogInv, UniqueNumbers
<1>3. CASE Sequence(c)
  <2>1. PICK n \in {0} \cup Numbers(signals) : n \in Nat /\ cursor' = [cursor EXCEPT ![c] = n]
    BY <1>3, SequenceOpens
  <2>2. /\ before' = [before EXCEPT ![c] = signals]
        /\ signals' = signals /\ expired' = expired /\ got' = got
    BY <1>3, SequenceOpens
  <2>3. CursorsAreStored'
    BY <1>0, <2>1, <2>2 DEF LogInv, CursorsAreStored
  <2>4. NothingSkipped'
    BY <1>0, <2>1, <2>2 DEF LogInv, NothingSkipped, For, Read
  <2> QED
    BY <2>2, <2>3, <2>4 DEF LogInv, UniqueNumbers
<1>4. CASE ~(Post(c) \/ Poll(c) \/ Sequence(c))
  BY <1>4, LogUnchanged DEF readVars, LogInv, UniqueNumbers, CursorsAreStored, NothingSkipped, For, Read
<1> QED
  BY <1>1, <1>2, <1>3, <1>4

LEMMA LogInvariance == ASSUME Serial, MaxExpired = 0 PROVE Spec => []LogInv
<1>1. Init => LogInv
  BY FS_EmptySet DEF Init, LogInv, UniqueNumbers, CursorsAreStored, NothingSkipped
<1>2. IInv /\ LogInv /\ [Next]_vars => LogInv'
  <2> SUFFICES ASSUME IInv, LogInv, [Next]_vars PROVE LogInv'
    OBVIOUS
  <2>1. CASE \E c \in Conn : HandlerStep(c)
    BY <2>1, LogStep DEF IInv
  <2>2. CASE Over \/ UNCHANGED vars
    BY <2>2 DEF Over, vars, logVars, readVars, LogInv, UniqueNumbers, CursorsAreStored,
       NothingSkipped, For, Read
  <2>3. ~Expire
    BY DEF Expire
  <2> QED
    BY <2>1, <2>2, <2>3 DEF Next, HandlerStep
<1> QED
  BY <1>1, <1>2, Invariance, PTL DEF Spec

\* On SQLite no signal is passed over within its lifetime, with any number of
\* participants and any size of a page.
THEOREM LogCorrect == ASSUME Serial, MaxExpired = 0 PROVE Spec => []NoSignalSkipped
<1>1. LogInv => NoSignalSkipped
  BY DEF LogInv, NothingSkipped, NoSignalSkipped, Listening
<1> QED
  BY <1>1, LogInvariance, PTL

-----------------------------------------------------------------------------
(* Deliveries, on both databases. *)

\* A page lies above the cursor, and the cursor moves to its end or beyond.
LEMMA PollMovesOn ==
    ASSUME TypeOK, Control, NEW c \in Conn, Poll(c)
    PROVE  /\ cursor[c] \in Nat
           /\ \A s \in Page(c) : s \in signals /\ s.seq \in Nat /\ For(s, c) /\ cursor[c] < s.seq
           /\ got' = [got EXCEPT ![c] = @ \cup Page(c)]
           /\ \E n \in Nat : /\ cursor' = [cursor EXCEPT ![c] = n] /\ cursor[c] <= n
                            /\ \A s \in Page(c) : s.seq <= n
<1>1. cursor[c] \in Nat
  BY DEF Poll, Control, TypeOK
<1>2. \A s \in Page(c) : s \in signals /\ s.seq \in Nat /\ For(s, c) /\ cursor[c] < s.seq
  BY <1>1 DEF Page, Due, TypeOK, Signal
<1>3. PICK n \in {cursor[c]} \cup Numbers(Page(c)) :
        (\A s \in Page(c) : s.seq <= n) /\ cursor' = [cursor EXCEPT ![c] = n]
  BY DEF Poll
<1>4. n \in Nat /\ cursor[c] <= n
  BY <1>1, <1>2, <1>3 DEF Numbers
<1> QED
  BY <1>1, <1>2, <1>3, <1>4 DEF Poll

\* Only a poll sends, and only Sequence and Poll set the cursor.
LEMMA ReadersUnchanged ==
    ASSUME NEW c \in Conn, HandlerStep(c), ~(Poll(c) \/ Sequence(c))
    PROVE  cursor' = cursor /\ got' = got
BY DEF HandlerStep, Handler, Present, Claim, Authorize, Join, CommitJoin, Hello, Post, Insert,
   CommitPost, Receive, ReceiveNothing, ReceiveHangup, Leave, AllowCamera, Disconnect, Abort,
   Lapse, readVars

LEMMA SentStep ==
    ASSUME TypeOK, Control, SentIsRead, NEW c \in Conn, HandlerStep(c)
    PROVE  SentIsRead'
<1>0. /\ cursor \in [Conn -> Nat \cup {None}] /\ got \in [Conn -> SUBSET Signal]
      /\ \A d \in Conn : \A s \in got[d] : s.seq \in Nat
  BY DEF TypeOK, Signal
<1>1. CASE Poll(c)
  <2>1. /\ cursor[c] \in Nat
        /\ \A s \in Page(c) : s.seq \in Nat
        /\ got' = [got EXCEPT ![c] = @ \cup Page(c)]
    BY <1>1, PollMovesOn
  <2>2. PICK n \in Nat : /\ cursor' = [cursor EXCEPT ![c] = n] /\ cursor[c] <= n
                         /\ \A s \in Page(c) : s.seq <= n
    BY <1>1, PollMovesOn
  <2>3. \A s \in got[c] : s.seq <= n
    BY <1>0, <2>1, <2>2 DEF SentIsRead
  <2>4. cursor'[c] = n /\ cursor'[c] # None /\ got'[c] = got[c] \cup Page(c)
    BY <1>0, <2>1, <2>2, NoneIsNothing
  <2>5. \A d \in Conn : d # c => cursor'[d] = cursor[d] /\ got'[d] = got[d]
    BY <1>0, <2>1, <2>2
  <2> QED
    BY <2>2, <2>3, <2>4, <2>5 DEF SentIsRead
<1>2. CASE Sequence(c)
  <2>1. cursor[c] = None /\ got' = got
    BY <1>2, SequenceOpens
  <2>2. got[c] = {}
    BY <2>1 DEF SentIsRead
  <2>3. \A d \in Conn : d # c => cursor'[d] = cursor[d]
    BY <1>0, <1>2 DEF Sequence
  <2> QED
    BY <2>1, <2>2, <2>3 DEF SentIsRead
<1>3. CASE ~(Poll(c) \/ Sequence(c))
  BY <1>3, ReadersUnchanged DEF SentIsRead
<1> QED
  BY <1>1, <1>2, <1>3

LEMMA SentInvariance == Spec => []SentIsRead
<1>1. Init => SentIsRead
  BY DEF Init, SentIsRead
<1>2. IInv /\ SentIsRead /\ [Next]_vars => SentIsRead'
  <2> SUFFICES ASSUME IInv, SentIsRead, [Next]_vars PROVE SentIsRead'
    OBVIOUS
  <2>1. CASE \E c \in Conn : HandlerStep(c)
    BY <2>1, SentStep DEF IInv
  <2>2. CASE Expire \/ Over \/ UNCHANGED vars
    BY <2>2 DEF Expire, Over, vars, readVars, SentIsRead
  <2> QED
    BY <2>1, <2>2 DEF Next, HandlerStep
<1> QED
  BY <1>1, <1>2, Invariance, PTL DEF Spec

\* The step of a handler from "poll" to "loop" is its poll.
LEMMA OnlyPolls ==
    ASSUME TypeOK, Control, [Next]_vars, NEW c \in Conn, pc[c] = "poll", pc'[c] = "loop"
    PROVE  Poll(c)
<1>1. CASE \E d \in Conn : HandlerStep(d)
  <2>1. PICK d \in Conn : HandlerStep(d)
    BY <1>1
  <2>2. d = c
    BY <2>1, Moves
  <2>3. ~Post(c) /\ ~Insert(c) /\ ~CommitPost(c)
    BY AfterIs DEF Post, Insert, CommitPost, Control, Posting
  <2>4. pc \in [Conn -> PC]
    BY DEF TypeOK
  <2> QED
    BY <2>1, <2>2, <2>3, <2>4 DEF HandlerStep, Handler, Goto, Present, Claim, Authorize, Join,
       CommitJoin, Sequence, Hello, Receive, ReceiveNothing, ReceiveHangup, Leave, AllowCamera,
       Disconnect, Abort, Lapse
<1>2. CASE Expire \/ Over \/ UNCHANGED vars
  BY <1>2 DEF Expire, Over, vars
<1> QED
  BY <1>1, <1>2 DEF Next, HandlerStep

\* On both databases, however the numbers of the rows and their commits
\* interleave: what a client is sent is for it, and comes after all it was
\* sent before.
THEOREM DeliveriesCorrect == Spec => DeliveredInOrder
<1>1. IInv /\ SentIsRead /\ [Next]_vars =>
        [\A c \in Conn : \A s \in got'[c] :
            (pc[c] = "poll" /\ pc'[c] = "loop" /\ s \in Page(c)) =>
                /\ s.from # c /\ s.to \in {None, c}
                /\ \A u \in got[c] : u.seq < s.seq]_vars
  <2> SUFFICES ASSUME IInv, SentIsRead, [Next]_vars, NEW c \in Conn, NEW s \in got'[c],
                      pc[c] = "poll", pc'[c] = "loop", s \in Page(c)
               PROVE  s.from # c /\ s.to \in {None, c} /\ \A u \in got[c] : u.seq < s.seq
    OBVIOUS
  <2>1. Poll(c)
    BY OnlyPolls DEF IInv
  <2>2. cursor[c] \in Nat /\ s.seq \in Nat /\ For(s, c) /\ cursor[c] < s.seq
    BY <2>1, PollMovesOn DEF IInv
  <2>3. \A u \in got[c] : u.seq \in Nat /\ u.seq <= cursor[c]
    BY DEF SentIsRead, IInv, TypeOK, Signal
  <2> QED
    BY <2>2, <2>3 DEF For
<1> QED
  BY <1>1, Invariance, SentInvariance, PTL DEF Spec, DeliveredInOrder

-----------------------------------------------------------------------------
(* Refinement. *)

LEMMA LogImplements ==
    ASSUME Serial, TypeOK, Control, LogInv, NEW c \in Conn, HandlerStep(c)
    PROVE  [Log!Next]_(Log!logVars)
<1>0. \A s \in signals : s.seq \in Nat
  BY DEF TypeOK, Signal
<1>1. CASE Post(c)
  <2>1. PICK s \in Signal :
            /\ signals' = signals \cup {s}
            /\ \A u \in signals : u.seq < s.seq
            /\ \A d \in Conn : cursor[d] # None => cursor[d] < s.seq
    BY <1>1, PostAppends
  <2>2. s \in signals' \ signals
    BY <1>0, <2>1
  <2>3. cursor' = cursor /\ got' = got
    BY <1>1, PostAppends DEF readVars
  <2>4. Log!Post
    BY <2>1, <2>2, <2>3 DEF Log!Post
  <2> QED
    BY <2>4 DEF Log!Next
<1>2. CASE Poll(c)
  <2>1. PICK n \in {cursor[c]} \cup Numbers(signals) :
            /\ n \in Nat /\ cursor[c] <= n
            /\ cursor' = [cursor EXCEPT ![c] = n]
            /\ got' = [got EXCEPT ![c] = @ \cup
                {s \in signals : For(s, c) /\ cursor[c] < s.seq /\ s.seq <= n}]
    BY <1>2, PollReads
  <2>2. signals' = signals /\ cursor[c] # None
    BY <1>2, PollReads, NoneIsNothing
  <2>3. Log!Advance(c)
    BY <2>1, <2>2 DEF Log!Advance, Log!Meant, For, Numbers
  <2> QED
    BY <2>3 DEF Log!Next
<1>3. CASE Sequence(c)
  <2>1. PICK n \in {0} \cup Numbers(signals) :
            (\A s \in signals : s.seq <= n) /\ cursor' = [cursor EXCEPT ![c] = n]
    BY <1>3, SequenceOpens
  <2>2. cursor[c] = None /\ signals' = signals /\ got' = got
    BY <1>3, SequenceOpens
  <2>3. Log!Open(c)
    BY <2>1, <2>2 DEF Log!Open, Numbers
  <2> QED
    BY <2>3 DEF Log!Next
<1>4. CASE ~(Post(c) \/ Poll(c) \/ Sequence(c))
  BY <1>4, LogUnchanged DEF readVars, Log!logVars
<1> QED
  BY <1>1, <1>2, <1>3, <1>4

\* On SQLite the table of signals and the cursors of the handlers implement one
\* ordered log, as long as no signal expires.
THEOREM Refines == ASSUME Serial, MaxExpired = 0 PROVE Spec => ImplementsSignalLog
<1>1. Init => Log!Init
  BY DEF Init, Log!Init
<1>2. IInv /\ LogInv /\ [Next]_vars => [Log!Next]_(Log!logVars)
  <2> SUFFICES ASSUME IInv, LogInv, [Next]_vars PROVE [Log!Next]_(Log!logVars)
    OBVIOUS
  <2>1. CASE \E c \in Conn : HandlerStep(c)
    BY <2>1, LogImplements DEF IInv
  <2>2. CASE Over \/ UNCHANGED vars
    BY <2>2 DEF Over, vars, logVars, readVars, Log!logVars
  <2>3. ~Expire
    BY DEF Expire
  <2> QED
    BY <2>1, <2>2, <2>3 DEF Next, HandlerStep
<1> QED
  BY <1>1, <1>2, Invariance, LogInvariance, PTL DEF Spec, ImplementsSignalLog, Log!Spec

=============================================================================
