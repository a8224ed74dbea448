----------------------------- MODULE FrontDoor -----------------------------
(***************************************************************************)
(* The way of a request of one application through the worker: the middle- *)
(* ware of create_app (checks, the limit before authentication, the        *)
(* concurrency gate, the timeout, the audit event), the body limit, and    *)
(* the handler behind them.                                                *)
(*                                                                         *)
(* Steps end at the awaits of the code.  The condition of the gate is only *)
(* held between awaits that release it, so each of its critical sections   *)
(* is one step.  The handler runs in a task of its own, which Starlette    *)
(* does not cancel with call_next.                                         *)
(*                                                                         *)
(* Answers are reduced to their kind, and what a handler does to the       *)
(* moment from which its effects are committed.                            *)
(***************************************************************************)
EXTENDS Naturals, FiniteSets, Sequences, SequencesExt

CONSTANTS
    Request,
    Limit,        \* ConcurrencyGate.limit
    Reject,       \* reject_when_saturated: answer 503 instead of waiting
    Renotifies    \* whether a notified waiter that gives up passes the
                  \* notification on (asyncio.Condition since Python 3.13)

ASSUME RequestsAreFinite == IsFiniteSet(Request)
ASSUME LimitIsPositive == Limit \in Nat \ {0}
ASSUME SwitchesAreBoolean == Reject \in BOOLEAN /\ Renotifies \in BOOLEAN

VARIABLES
    stage,        \* where the middleware of a request is
    answer,       \* what it answers
    handler,      \* where the task of the handler is
    active,       \* ConcurrencyGate._active
    queue,        \* the waiters of the condition that were not notified
    notified,     \* waiters that were notified and have not run yet
    audited       \* the audit events and observations of a request

vars == <<stage, answer, handler, active, queue, notified, audited>>
gate == <<active, queue, notified>>

Stages == {"new", "preauth", "gate", "waiting", "inside", "leaving", "answered"}
Answers == {"none", "ok", "refused", "saturated", "timeout", "failed"}
Running == {"body", "auth", "work", "stream"}

Init ==
    /\ stage = [r \in Request |-> "new"]
    /\ answer = [r \in Request |-> "none"]
    /\ handler = [r \in Request |-> "none"]
    /\ active = 0
    /\ queue = <<>>
    /\ notified = {}
    /\ audited = [r \in Request |-> 0]

-----------------------------------------------------------------------------
(* The middleware. *)

Goto(r, s) == stage' = [stage EXCEPT ![r] = s]

\* The finally clause: every way out observes the request and submits its
\* audit event.
Answer(r, a) ==
    /\ Goto(r, "answered")
    /\ answer' = [answer EXCEPT ![r] = a]
    /\ audited' = [audited EXCEPT ![r] = @ + 1]

\* Availability, host, preflight, HTTPS and address, without an await.
Check(r) ==
    /\ stage[r] = "new"
    /\ \/ Goto(r, "preauth") /\ UNCHANGED <<answer, audited>>
       \/ \E a \in {"ok", "refused"} : Answer(r, a)
    /\ UNCHANGED <<handler, gate>>

\* The limit before authentication; a limiter that fails lets the request in
\* or refuses it, as fail_open says.
PreAuthLimit(r) ==
    /\ stage[r] = "preauth"
    /\ \/ Goto(r, "gate") /\ UNCHANGED <<answer, audited>>
       \/ Answer(r, "refused")
    /\ UNCHANGED <<handler, gate>>

FaultyTakeSlot(r) ==
    /\ active' = active
    /\ Goto(r, "inside")
    /\ handler' = [handler EXCEPT ![r] = "body"]
    /\ UNCHANGED <<answer, audited>>

\* call_next: the handler starts in its own task.
TakeSlot(r) ==
    /\ active' = active + 1
    /\ Goto(r, "inside")
    /\ handler' = [handler EXCEPT ![r] = "body"]
    /\ UNCHANGED <<answer, audited>>

EnterGate(r) ==
    /\ stage[r] = "gate"
    /\ \/ /\ active < Limit
          /\ TakeSlot(r)
          /\ UNCHANGED <<queue, notified>>
       \/ /\ active >= Limit /\ Reject
          /\ Answer(r, "saturated")
          /\ UNCHANGED <<handler, gate>>
       \/ /\ active >= Limit /\ ~Reject
          /\ Goto(r, "waiting")
          /\ queue' = Append(queue, r)
          /\ UNCHANGED <<answer, handler, active, notified, audited>>

\* A notified waiter runs again: a newcomer may have taken the slot.
Wake(r) ==
    /\ r \in notified
    /\ notified' = notified \ {r}
    /\ \/ /\ active < Limit
          /\ TakeSlot(r)
          /\ UNCHANGED queue
       \/ /\ active >= Limit
          /\ queue' = Append(queue, r)
          /\ UNCHANGED <<stage, answer, handler, active, audited>>

\* What is left of the waiters when one of q is notified.
NotifyOne(q, n) ==
    IF q = <<>> THEN queue' = q /\ notified' = n
                ELSE queue' = Tail(q) /\ notified' = n \cup {Head(q)}

\* The waiters that are left: one is notified in place of who gives up.
Renotify(q, n) ==
    IF Renotifies THEN NotifyOne(q, n) ELSE queue' = q /\ notified' = n

\* wait_for cancels the wait, whether or not it was notified.
GiveUpWaiting(r) ==
    /\ stage[r] = "waiting"
    /\ \/ \E i \in DOMAIN queue :
              queue[i] = r /\ Renotify(RemoveAt(queue, i), notified)
       \/ r \in notified /\ Renotify(queue, notified \ {r})
    /\ Answer(r, "saturated")
    /\ UNCHANGED <<handler, active>>

Leave(r, a) ==
    /\ stage[r] = "inside"
    /\ Goto(r, "leaving")
    /\ answer' = [answer EXCEPT ![r] = a]
    /\ UNCHANGED <<gate, audited>>

FaultyTimeOut(r) == handler[r] # "work" /\ Leave(r, "timeout") /\ UNCHANGED handler

\* The timeout of the request: call_next is cancelled, the handler is not.
TimeOut(r) == Leave(r, "timeout") /\ UNCHANGED handler

FaultyExitGate(r) ==
    /\ stage[r] = "leaving"
    /\ active' = IF active = 0 THEN 0 ELSE active - 1
    /\ UNCHANGED <<queue, notified>>
    /\ Answer(r, answer[r])
    /\ UNCHANGED handler

ExitGate(r) ==
    /\ stage[r] = "leaving"
    /\ active' = IF active = 0 THEN 0 ELSE active - 1
    /\ NotifyOne(queue, notified)
    /\ Answer(r, answer[r])
    /\ UNCHANGED handler

-----------------------------------------------------------------------------
(* The handler. *)

MoveHandler(r, from, to) ==
    /\ handler[r] = from
    /\ handler' = [handler EXCEPT ![r] = to]

\* The body is read under its limit, the caller authenticated and the two
\* limits of the principal checked.
Proceed(r) ==
    /\ \/ MoveHandler(r, "body", "auth")
       \/ MoveHandler(r, "auth", "work")
    /\ UNCHANGED <<stage, answer, gate, audited>>

\* The first message of the response, which call_next returns; a stream goes
\* on behind it.  After a timeout nobody takes the message.
Respond(r, from, to, a) ==
    /\ MoveHandler(r, from, to)
    /\ IF stage[r] = "inside" THEN Leave(r, a)
                              ELSE UNCHANGED <<stage, answer, gate, audited>>

\* A body too large, a caller unknown or over a limit, an exception.
RefuseOrFail(r) ==
    \E from \in {"body", "auth", "work"}, a \in {"refused", "failed"} :
        Respond(r, from, "ended", a)

Complete(r) == \E to \in {"stream", "ended"} : Respond(r, "work", to, "ok")

EndStream(r) ==
    /\ MoveHandler(r, "stream", "ended")
    /\ UNCHANGED <<stage, answer, gate, audited>>

Middleware(r) ==
    \/ Check(r) \/ PreAuthLimit(r) \/ EnterGate(r) \/ Wake(r)
    \/ GiveUpWaiting(r) \/ TimeOut(r) \/ ExitGate(r)

Handle(r) == Proceed(r) \/ RefuseOrFail(r) \/ Complete(r) \/ EndStream(r)

Over == \A r \in Request : stage[r] = "answered" /\ handler[r] \in {"none", "ended"}
Finished == Over /\ UNCHANGED vars

Next == (\E r \in Request : Middleware(r) \/ Handle(r)) \/ Finished

Spec == Init /\ [][Next]_vars

\* The event loop runs every ready task and every timer; the limiter answers.
\* Nothing is assumed of the handlers.
Prompt(r) ==
    PreAuthLimit(r) \/ EnterGate(r) \/ GiveUpWaiting(r) \/ TimeOut(r) \/ ExitGate(r)

FairSpec == Spec /\ \A r \in Request : WF_vars(Prompt(r))

-----------------------------------------------------------------------------
(* Properties. *)

TypeOK ==
    /\ stage \in [Request -> Stages]
    /\ answer \in [Request -> Answers]
    /\ handler \in [Request -> {"none", "ended"} \cup Running]
    /\ active \in 0..Limit
    /\ queue \in Seq(Request)
    /\ notified \subseteq Request
    /\ audited \in [Request -> 0..1]

Holders == {r \in Request : stage[r] \in {"inside", "leaving"}}

\* The counter of the gate is the number of requests inside, and no more than
\* its limit, whichever of them waited, were given up or timed out.
GateIsExact == active = Cardinality(Holders) /\ active <= Limit

\* A request that waits is behind the limit, or a notified one is on its way
\* to every free slot: a slot freed for a waiter that gave up is not lost.
NoSlotIsWasted ==
    queue # <<>> => active + Cardinality(notified) >= Limit

\* A waiter is queued or notified, never both, never twice, never after it
\* left; and every answer is audited once.
WaitersAreTracked ==
    /\ {r \in Request : stage[r] = "waiting"} = ToSet(queue) \cup notified
    /\ ToSet(queue) \cap notified = {}
    /\ IsInjective(queue)
    /\ \A r \in Request : audited[r] = IF stage[r] = "answered" THEN 1 ELSE 0

\* Every request that came is answered in the end, though its handler and those
\* before it may hang.
AllAnswered == <>[](\A r \in Request : stage[r] \in {"new", "answered"})

=============================================================================
