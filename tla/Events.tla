------------------------------- MODULE Events -------------------------------
(***************************************************************************)
(* One event channel on one worker: the hub of events.py, its Redis        *)
(* variant, and the SSE and WebSocket endpoints of the project router.     *)
(*                                                                         *)
(* Events are numbers in the order they are published.  The hub copies its *)
(* members under a lock and fills their queues without an await, so that a *)
(* fan-out is one step.  Handshakes (host, address, limits, caller) end in *)
(* an opened connection or none; they keep no state of the hub.            *)
(***************************************************************************)
EXTENDS Naturals, FiniteSets, Sequences

CONSTANTS
    Client,
    Sse,          \* the clients that follow the channel by SSE; others by WebSocket
    Shared,       \* TRUE: RedisEventHub, FALSE: EventHub
    QueueSize,    \* queue_size of the channel
    MaxMembers,   \* max_sse_connections and max_websocket_connections
    MaxEvents,    \* bound: events published
    MaxOutages,   \* bound: times the listener of Redis fails
    None

\* What the constants must be.
ConstantsAreLegal ==
    /\ Sse \subseteq Client
    /\ {QueueSize, MaxMembers, MaxEvents} \subseteq Nat \ {0}
    /\ MaxOutages \in Nat
    /\ None \notin Nat

VARIABLES
    conn,         \* where the endpoint of a client is
    members,      \* _subscribers and _websockets of the channel
    queue,        \* the queue of a client
    hand,         \* the event its sender is sending
    sent,         \* what it has been sent
    missed,       \* its drops: dropped_messages, by client
    offered,      \* events fanned out to it since it became a member
    events,       \* events published so far
    listener,     \* the task of _listen
    wire,         \* events Redis has pushed to the listener
    outages

client == <<conn, members, queue, hand, sent, missed, offered>>
shared == <<listener, wire, outages>>
vars == <<client, events, shared>>

Init ==
    /\ conn = [c \in Client |-> "out"]
    /\ members = {}
    /\ queue = [c \in Client |-> <<>>]
    /\ hand = [c \in Client |-> None]
    /\ sent = [c \in Client |-> <<>>]
    /\ missed = [c \in Client |-> 0]
    /\ offered = [c \in Client |-> 0]
    /\ events = 0
    /\ listener = "none"
    /\ wire = <<>>
    /\ outages = 0

-----------------------------------------------------------------------------
(* The hub. *)

Kin(c) == IF c \in Sse THEN Sse ELSE Client \ Sse
Full(c) == Len(queue[c]) >= QueueSize

FaultyFanOut(e) ==
    /\ queue' = [c \in Client |->
           IF c \in members THEN Append(IF Full(c) THEN Tail(queue[c]) ELSE queue[c], e)
                            ELSE queue[c]]
    /\ offered' = [c \in Client |->
           IF c \in members THEN offered[c] + 1 ELSE offered[c]]
    /\ UNCHANGED <<conn, members, hand, sent, missed>>

\* EventHub.publish: a full queue drops the event and counts the drop.
FanOut(e) ==
    /\ queue' = [c \in Client |->
           IF c \in members /\ ~Full(c) THEN Append(queue[c], e) ELSE queue[c]]
    /\ missed' = [c \in Client |->
           IF c \in members /\ Full(c) THEN missed[c] + 1 ELSE missed[c]]
    /\ offered' = [c \in Client |->
           IF c \in members THEN offered[c] + 1 ELSE offered[c]]
    /\ UNCHANGED <<conn, members, hand, sent>>

Live == listener \in {"connecting", "ready"}

\* _ensure_listener, under its lock: one task listens at a time.
StartListener == IF Live THEN UNCHANGED shared
                 ELSE listener' = "connecting" /\ wire' = <<>> /\ UNCHANGED outages

\* publish: through Redis once the worker listens, else straight to the members.
Publish ==
    /\ events < MaxEvents
    /\ events' = events + 1
    /\ IF Shared
       THEN /\ listener \in {"ready", "ended"}
            /\ wire' = IF listener = "ready" THEN Append(wire, events') ELSE wire
            /\ UNCHANGED <<client, listener, outages>>
       ELSE FanOut(events') /\ UNCHANGED shared

\* A publisher, of a request or of a WebSocket, makes sure of the listener first.
PublisherEnsures ==
    /\ Shared /\ ~Live /\ events < MaxEvents
    /\ StartListener
    /\ UNCHANGED <<client, events>>

\* _listen: subscribed on Redis, or failed to.
ListenerConnects ==
    /\ listener = "connecting"
    /\ \/ listener' = "ready" /\ UNCHANGED outages
       \/ outages < MaxOutages /\ outages' = outages + 1 /\ listener' = "none"
    /\ UNCHANGED <<client, events, wire>>

ListenerTakes ==
    /\ listener = "ready" /\ wire # <<>>
    /\ wire' = Tail(wire)
    /\ FanOut(Head(wire))
    /\ UNCHANGED <<events, listener, outages>>

\* The connection to Redis is lost: the task ends, its event stays set.
ListenerEnds ==
    /\ listener = "ready" /\ outages < MaxOutages
    /\ listener' = "ended" /\ wire' = <<>>
    /\ outages' = outages + 1
    /\ UNCHANGED <<client, events>>

-----------------------------------------------------------------------------
(* The endpoints. *)

\* subscribe and connect_ws begin by making sure of the listener.
Open(c) ==
    /\ conn[c] = "out"
    /\ conn' = [conn EXCEPT ![c] = "opening"]
    /\ IF Shared THEN StartListener ELSE UNCHANGED shared
    /\ UNCHANGED <<members, queue, hand, sent, missed, offered, events>>

\* The listener failed or was not ready in time, or the channel is full.
Refuse(c) ==
    /\ conn[c] = "opening"
    /\ \/ Shared /\ listener \in {"none", "connecting"}
       \/ Cardinality(members \cap Kin(c)) >= MaxMembers
    /\ conn' = [conn EXCEPT ![c] = "closed"]
    /\ UNCHANGED <<members, queue, hand, sent, missed, offered, events, shared>>

\* The queue joins the members under the lock; a WebSocket is accepted after.
Enter(c) ==
    /\ conn[c] = "opening"
    /\ Shared => listener \in {"ready", "ended"}
    /\ Cardinality(members \cap Kin(c)) < MaxMembers
    /\ members' = members \cup {c}
    /\ conn' = [conn EXCEPT ![c] = IF c \in Sse THEN "open" ELSE "accepting"]
    /\ UNCHANGED <<queue, hand, sent, missed, offered, events, shared>>

\* Accepted, and its sender started; or the accept failed.
Accept(c) ==
    /\ conn[c] = "accepting"
    /\ \/ conn' = [conn EXCEPT ![c] = "open"] /\ UNCHANGED members
       \/ conn' = [conn EXCEPT ![c] = "closed"] /\ members' = members \ {c}
    /\ UNCHANGED <<queue, hand, sent, missed, offered, events, shared>>

\* _socket_sender and the loop of the SSE stream take the next event.
Take(c) ==
    /\ conn[c] = "open" /\ c \in members
    /\ hand[c] = None /\ queue[c] # <<>>
    /\ hand' = [hand EXCEPT ![c] = Head(queue[c])]
    /\ queue' = [queue EXCEPT ![c] = Tail(@)]
    /\ UNCHANGED <<conn, members, sent, missed, offered, events, shared>>

SendEvent(c) ==
    /\ conn[c] = "open" /\ hand[c] # None
    /\ sent' = [sent EXCEPT ![c] = Append(@, hand[c])]
    /\ hand' = [hand EXCEPT ![c] = None]
    /\ UNCHANGED <<conn, members, queue, missed, offered, events, shared>>

\* A send fails: the sender ends and the client is no member any more, while
\* its endpoint still reads from the socket.
SendFails(c) ==
    /\ c \notin Sse
    /\ conn[c] = "open" /\ hand[c] # None /\ c \in members
    /\ members' = members \ {c}
    /\ UNCHANGED <<conn, queue, hand, sent, missed, offered, events, shared>>

\* Nothing came within heartbeat_seconds: wait_for cancels anext, which ends
\* the generator of subscribe, whose finally clause drops the queue; the
\* stream sends the heartbeat.
Heartbeat(c) ==
    /\ c \in Sse
    /\ conn[c] = "open" /\ c \in members
    /\ hand[c] = None /\ queue[c] = <<>>
    /\ members' = members \ {c}
    /\ UNCHANGED <<conn, queue, hand, sent, missed, offered, events, shared>>

\* The next anext on the ended generator breaks the stream.
Break(c) ==
    /\ c \in Sse /\ conn[c] = "open" /\ c \notin members
    /\ conn' = [conn EXCEPT ![c] = "closed"]
    /\ UNCHANGED <<members, queue, hand, sent, missed, offered, events, shared>>

\* The client goes, or breaks a rule of the channel: disconnect_ws and the
\* finally clause of the stream.
Leave(c) ==
    /\ conn[c] = "open"
    /\ conn' = [conn EXCEPT ![c] = "closed"]
    /\ members' = members \ {c}
    /\ UNCHANGED <<queue, hand, sent, missed, offered, events, shared>>

Endpoint(c) ==
    \/ Open(c) \/ Refuse(c) \/ Enter(c) \/ Accept(c) \/ Take(c) \/ SendEvent(c)
    \/ SendFails(c) \/ Heartbeat(c) \/ Break(c) \/ Leave(c)

Hub == Publish \/ PublisherEnsures \/ ListenerConnects \/ ListenerTakes \/ ListenerEnds

\* Nobody is left; a channel nobody follows may rest.
Finished == (\A c \in Client : conn[c] = "closed") /\ UNCHANGED vars

Next == (\E c \in Client : Endpoint(c)) \/ Hub \/ Finished
Spec == Init /\ [][Next]_vars

-----------------------------------------------------------------------------
(* Properties. *)

Ascending(s) == \A i, j \in DOMAIN s : i < j => s[i] < s[j]
Held(c) == IF hand[c] = None THEN 0 ELSE 1

\* A slow client loses events, never silently: what was fanned out to a member
\* is sent, held, queued or counted as dropped; and what it is sent comes once
\* and in order, whichever listeners fed the channel.
DropsAreCounted ==
    \A c \in Client :
        /\ offered[c] = Len(sent[c]) + Held(c) + Len(queue[c]) + missed[c]
        /\ Ascending(sent[c] \o (IF hand[c] = None THEN <<>> ELSE <<hand[c]>>) \o queue[c])

\* A stream that sends heartbeats is one that receives events: the loop of the
\* endpoint goes on after a heartbeat as after an event.
StreamsStaySubscribed == \A c \in Sse : conn[c] = "open" => c \in members

-----------------------------------------------------------------------------
(* The inductive invariant behind the properties. *)

TypeOK ==
    /\ members \subseteq Client
    /\ queue \in [Client -> Seq(Nat)] /\ sent \in [Client -> Seq(Nat)]
    /\ hand \in [Client -> Nat \cup {None}]
    /\ missed \in [Client -> Nat] /\ offered \in [Client -> Nat]
    /\ events \in Nat
    /\ wire \in Seq(Nat)

\* The events a client was sent, holds and waits for, in that order.
Carried(c) == IF hand[c] = None THEN <<>> ELSE <<hand[c]>>
Line(c) == (sent[c] \o Carried(c)) \o queue[c]

Accounted ==
    \A c \in Client : offered[c] = Len(sent[c]) + Held(c) + Len(queue[c]) + missed[c]

\* The wire holds later events than any client has, each once and in order.
WireIsAhead ==
    /\ ~Shared => wire = <<>>
    /\ Ascending(wire)
    /\ \A k \in DOMAIN wire : wire[k] <= events

LinesAscend ==
    \A c \in Client :
        /\ Ascending(Line(c))
        /\ \A n \in DOMAIN Line(c) : /\ Line(c)[n] <= events
                                     /\ \A k \in DOMAIN wire : Line(c)[n] < wire[k]

IInv == TypeOK /\ Accounted /\ WireIsAhead /\ LinesAscend

=============================================================================
