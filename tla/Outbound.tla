------------------------------ MODULE Outbound ------------------------------
(***************************************************************************)
(* Calls of one worker to one host: the validation of an HTTP data source, *)
(* the circuits of its two clients, their retries, and the connections the *)
(* calls are sent over.  A source that may reach private networks uses the *)
(* client "private_http", every other one the client "http", whose backend *)
(* refuses blocked addresses.  Each client keeps its connections alive for *)
(* later calls, which resolve nothing.  The name may resolve otherwise     *)
(* every time.                                                             *)
(***************************************************************************)
EXTENDS Naturals, FiniteSets

CONSTANTS
    Call,
    Trusting,     \* calls of sources with allow_private_networks
    Idempotent,   \* calls whose method is idempotent, or that opted in
    Address,
    Private,      \* what blocked_network_address refuses
    Retries,
    Threshold,    \* failure_threshold
    Reset,        \* reset_seconds
    MaxTime,      \* bound: ticks
    None

\* What the constants must be.
ConstantsAreLegal ==
    /\ Trusting \subseteq Call /\ Idempotent \subseteq Call /\ Private \subseteq Address
    /\ {Threshold, Reset} \subseteq Nat \ {0} /\ {Retries, MaxTime} \subseteq Nat /\ None \notin Nat

VARIABLES
    now,
    failures,     \* failures[k]: CircuitState.failures of client k
    openedAt,     \* openedAt[k]: CircuitState.opened_at
    kept,         \* kept[k]: the addresses that connections kept alive lead to
    stage,        \* where a call is
    attempt,
    began,        \* when it passed the circuit
    todo,         \* todo[c]: the addresses its connection may still be made to
    via           \* via[c]: the address its request is sent to

vars == <<now, failures, openedAt, kept, stage, attempt, began, todo, via>>
circuit == <<failures, openedAt>>
connection == <<kept, todo, via>>

HttpClient == {"http", "private_http"}
ClientOf(c) == IF c \in Trusting THEN "private_http" ELSE "http"

Init ==
    /\ now = 0
    /\ failures = [k \in HttpClient |-> 0] /\ openedAt = [k \in HttpClient |-> None]
    /\ kept = [k \in HttpClient |-> {}]
    /\ stage = [c \in Call |-> "new"]
    /\ attempt = [c \in Call |-> 0]
    /\ began = [c \in Call |-> None]
    /\ todo = [c \in Call |-> {}]
    /\ via = [c \in Call |-> None]

Goto(c, s) == stage' = [stage EXCEPT ![c] = s]

\* A name that does not resolve has no addresses; one blocked address is enough to refuse.
Permits(c, resolved) == resolved # {} /\ (c \in Trusting \/ resolved \cap Private = {})

\* _validate_http_target, which returns early for a source that may reach private networks.
Validate(c) ==
    /\ stage[c] = "new"
    /\ \E resolved \in SUBSET Address :
           Goto(c, IF c \in Trusting \/ Permits(c, resolved) THEN "valid" ELSE "failed")
    /\ UNCHANGED <<now, circuit, connection, attempt, began>>

OpenNow(k) == openedAt[k] # None /\ now - openedAt[k] < Reset

FaultyBegin(c) ==
    LET k == ClientOf(c)
    IN /\ stage[c] = "valid"
       /\ IF OpenNow(k)
          THEN Goto(c, "failed") /\ UNCHANGED <<circuit, began>>
          ELSE /\ Goto(c, "sending")
               /\ began' = [began EXCEPT ![c] = now]
               /\ openedAt' = [openedAt EXCEPT ![k] = None]
               /\ UNCHANGED failures
       /\ UNCHANGED <<now, connection, attempt>>

\* The circuit is open, or its time is over and the call resets it.
Begin(c) ==
    LET k == ClientOf(c)
    IN /\ stage[c] = "valid"
       /\ IF OpenNow(k)
          THEN Goto(c, "failed") /\ UNCHANGED <<circuit, began>>
          ELSE /\ Goto(c, "sending")
               /\ began' = [began EXCEPT ![c] = now]
               /\ openedAt' = [openedAt EXCEPT ![k] = None]
               /\ failures' = [failures EXCEPT ![k] = IF openedAt[k] = None THEN @ ELSE 0]
       /\ UNCHANGED <<now, connection, attempt>>

\* The last attempt of a call that may not be repeated is its first.
LastAttempt(c) == attempt[c] >= (IF c \in Idempotent THEN Retries ELSE 0)

\* What follows a failed attempt: the count, the circuit and the retry.
Fail(c) ==
    LET k == ClientOf(c)
    IN /\ failures' = [failures EXCEPT ![k] = @ + 1]
       /\ openedAt' = [openedAt EXCEPT ![k] = IF failures[k] + 1 >= Threshold THEN now ELSE @]
       /\ IF LastAttempt(c)
          THEN Goto(c, "failed") /\ UNCHANGED attempt
          ELSE Goto(c, "sleeping") /\ attempt' = [attempt EXCEPT ![c] = @ + 1]

\* An answer that is no error resets the count, not the circuit.
Succeed(c) ==
    /\ failures' = [failures EXCEPT ![ClientOf(c)] = 0]
    /\ Goto(c, "ok")
    /\ UNCHANGED <<openedAt, attempt>>

\* An answer too large or a permanent error says nothing of the host; neither does
\* the end of the request that made the call.
GiveUp(c) == Goto(c, "failed") /\ UNCHANGED <<circuit, attempt>>

FaultyReusable(c) == UNION {kept[k] : k \in HttpClient}

\* The pool of a client is its own.
Reusable(c) == kept[ClientOf(c)]

\* A connection kept alive takes the request as it is.
Reuse(c) ==
    /\ stage[c] = "sending"
    /\ \E a \in Reusable(c) : via' = [via EXCEPT ![c] = a]
    /\ Goto(c, "sent")
    /\ UNCHANGED <<now, circuit, kept, attempt, began, todo>>

\* connect_tcp, for the first connection or when those kept have expired: all
\* addresses are validated before one is dialled.
Resolve(c) ==
    /\ stage[c] = "sending"
    /\ \E resolved \in SUBSET Address :
           IF Permits(c, resolved)
           THEN /\ Goto(c, "dialling") /\ todo' = [todo EXCEPT ![c] = resolved]
                /\ UNCHANGED <<circuit, attempt>>
           ELSE Fail(c) /\ UNCHANGED todo
    /\ UNCHANGED <<now, kept, began, via>>

\* The loop over the addresses: the first that accepts is the connection.
Dial(c) ==
    /\ stage[c] = "dialling"
    /\ \E a \in todo[c] :
           \/ /\ Goto(c, "sent") /\ via' = [via EXCEPT ![c] = a]
              /\ todo' = [todo EXCEPT ![c] = {}]
              /\ UNCHANGED <<circuit, attempt>>
           \/ /\ todo' = [todo EXCEPT ![c] = @ \ {a}]
              /\ IF todo[c] = {a} THEN Fail(c) ELSE UNCHANGED <<circuit, stage, attempt>>
              /\ UNCHANGED via
    /\ UNCHANGED <<now, kept, began>>

\* _send_once after the request is sent: a connection whose answer was read to its
\* end may be kept, one that broke or was closed before is not.
Receive(c) ==
    /\ stage[c] = "sent"
    /\ Fail(c) \/ Succeed(c) \/ GiveUp(c)
    /\ kept' \in {kept, [kept EXCEPT ![ClientOf(c)] = @ \cup {via[c]}]}
    /\ via' = [via EXCEPT ![c] = None]
    /\ UNCHANGED <<now, began, todo>>

\* The delay before a retry, which does not look at the circuit again.
Resume(c) ==
    /\ stage[c] = "sleeping"
    /\ Goto(c, "sending")
    /\ UNCHANGED <<now, circuit, connection, attempt, began>>

\* The request that made the call is cancelled while it is under way.
Cancel(c) ==
    /\ stage[c] \in {"sending", "dialling", "sleeping"}
    /\ GiveUp(c)
    /\ todo' = [todo EXCEPT ![c] = {}]
    /\ UNCHANGED <<now, kept, began, via>>

Tick ==
    /\ now < MaxTime
    /\ now' = now + 1
    /\ UNCHANGED <<circuit, connection, stage, attempt, began>>

Finished == (\A c \in Call : stage[c] \in {"ok", "failed"}) /\ UNCHANGED vars

Next ==
    \/ \E c \in Call : \/ Validate(c) \/ Begin(c) \/ Reuse(c) \/ Resolve(c) \/ Dial(c)
                        \/ Receive(c) \/ Resume(c) \/ Cancel(c)
    \/ Tick \/ Finished

Spec == Init /\ [][Next]_vars

-----------------------------------------------------------------------------
(* Properties. *)

UnderWay == {c \in Call : stage[c] \in {"sending", "dialling", "sent", "sleeping"}}

\* A count at the threshold means an open circuit, however the calls that
\* count, reset and succeed are interleaved; and a call that is under way while
\* it is open passed before it opened.
CircuitProtects ==
    /\ \A k \in HttpClient : failures[k] >= Threshold => openedAt[k] # None
    /\ \A c \in UnderWay :
           openedAt[ClientOf(c)] # None => began[c] <= openedAt[ClientOf(c)]

\* A request of a source that may not reach private networks is never sent to a
\* blocked address: not after its name resolved otherwise since the validation or
\* since the last attempt, not to the next address after a failed one, and not over
\* a connection that another call has left behind, although sources of the same
\* host that may reach private networks make such connections.
PublicCallsStayPublic ==
    \A c \in Call \ Trusting : stage[c] = "sent" => via[c] \notin Private

-----------------------------------------------------------------------------
(* The inductive invariant behind the properties. *)

TypeOK ==
    /\ now \in Nat /\ failures \in [HttpClient -> Nat]
    /\ openedAt \in [HttpClient -> Nat \cup {None}]
    /\ kept \in [HttpClient -> SUBSET Address]
    /\ DOMAIN stage = Call
    /\ began \in [Call -> Nat \cup {None}]
    /\ todo \in [Call -> SUBSET Address]
    /\ via \in [Call -> Address \cup {None}]
    /\ \A c \in Call : stage[c] = "sent" => via[c] \in Address

\* No call under way has passed the circuit, and no circuit was opened, in the future.
Past ==
    /\ \A k \in HttpClient : openedAt[k] # None => openedAt[k] <= now
    /\ \A c \in UnderWay : began[c] # None /\ began[c] <= now

\* What a public call may still dial, and every connection of its client, is public.
PublicPool ==
    /\ kept["http"] \cap Private = {}
    /\ \A c \in Call \ Trusting : todo[c] \cap Private = {}

IInv == TypeOK /\ Past /\ CircuitProtects /\ PublicCallsStayPublic /\ PublicPool

=============================================================================
