------------------------------ MODULE Sessions ------------------------------
(***************************************************************************)
(* Sessions of the Forge Editor: the one-time set-up of the founder, signing *)
(* in, the use of a session, signing out, and the end of the sessions of a *)
(* member who is disabled.  A session has the name of the request that     *)
(* opened it.  Time passes in units smaller than Touch; an authentication  *)
(* takes none of it.                                                       *)
(***************************************************************************)
EXTENDS Integers, FiniteSets

CONSTANTS
    Setup,       \* requests that set the founder up
    SignIn,      \* requests of one member that sign in
    Use,         \* clients that use a session now and then
    Uses,        \* Uses[q]: the session a client holds
    Touch,       \* last_seen_at is renewed after 60 seconds
    Idle, Ttl,   \* editor_session_idle_seconds and editor_session_ttl_seconds
    MaxTime,     \* bound: the time the model runs
    None

Session == Setup \cup SignIn

\* What the constants must be.
ConstantsAreLegal ==
    /\ {Touch, Idle, Ttl, MaxTime} \subseteq Nat
    /\ Idle >= Touch       \* ge=60 in settings.py
    /\ Uses \in [Use -> Session] /\ None \notin Session
    /\ Session \cap Use = {}

VARIABLES
    founder,     \* founder_user_id: the request that claimed it, or None
    disabled,    \* the member that signs in is disabled
    row,         \* row[s]: the row of a session, or None
    stage,       \* how far a request is
    seen,        \* seen[q]: the row an authentication has read
    now

vars == <<founder, disabled, row, stage, seen, now>>

Init ==
    /\ founder = None
    /\ disabled = FALSE
    /\ row = [s \in Session |-> None]
    /\ stage = [q \in Session \cup Use |-> "new"]
    /\ seen = [q \in Use |-> None]
    /\ now = 0

Moves(q, from, to) ==
    /\ stage[q] = from
    /\ stage' = [stage EXCEPT ![q] = to]

-----------------------------------------------------------------------------
(* bootstrap_founder *)

\* initialized(), before the password is hashed.
FindFree(q) ==
    /\ Moves(q, "new", IF founder = None THEN "hashed" ELSE "refused")
    /\ UNCHANGED <<founder, disabled, row, seen, now>>

\* The update counts one row, or the transaction is undone.
Claim(q) ==
    /\ Moves(q, "hashed", IF founder = None THEN "known" ELSE "refused")
    /\ founder' = IF founder = None THEN q ELSE founder
    /\ UNCHANGED <<disabled, row, seen, now>>

-----------------------------------------------------------------------------
(* login: the password is compared in a thread, long after the member is read. *)

ReadMember(q) ==
    /\ Moves(q, "new", IF disabled THEN "refused" ELSE "known")
    /\ UNCHANGED <<founder, disabled, row, seen, now>>

Mismatch(q) ==
    /\ Moves(q, "known", "refused")
    /\ UNCHANGED <<founder, disabled, row, seen, now>>

Dead(r) == r # None /\ (r.ends <= now \/ r.idle <= now \/ r.revoked)

Opened == [ends |-> now + Ttl, idle |-> now + Idle, last |-> now, revoked |-> FALSE]

\* _new_session also deletes every session that has ended.
Open(q) ==
    /\ Moves(q, "known", "done")
    /\ row' = [s \in Session |-> IF s = q THEN Opened
                                 ELSE IF Dead(row[s]) THEN None ELSE row[s]]
    /\ UNCHANGED <<founder, disabled, seen, now>>

-----------------------------------------------------------------------------
(* authenticate *)

Accepted(s) == row[s] # None /\ ~Dead(row[s]) /\ ~(disabled /\ s \in SignIn)

Authenticate(q) ==
    /\ Accepted(Uses[q])
    /\ Moves(q, "new", "touching")
    /\ seen' = [seen EXCEPT ![q] = row[Uses[q]]]
    /\ UNCHANGED <<founder, disabled, row, now>>

FaultyTouchRow(q) ==
    LET s == Uses[q]
        renewed == [seen[q] EXCEPT !.last = now, !.idle = now + Idle]
    IN /\ \E next \in {"new", "leaving"} : Moves(q, "touching", next)
       /\ row' = IF row[s] # None /\ now - seen[q].last >= Touch
                 THEN [row EXCEPT ![s] = renewed] ELSE row
       /\ seen' = [seen EXCEPT ![q] = None]
       /\ UNCHANGED <<founder, disabled, now>>

\* The update writes two columns of the row, if it is there still.
TouchRow(q) ==
    LET s == Uses[q]
        renewed == [row[s] EXCEPT !.last = now, !.idle = now + Idle]
    IN /\ \E next \in {"new", "leaving"} : Moves(q, "touching", next)
       /\ row' = IF row[s] # None /\ now - seen[q].last >= Touch
                 THEN [row EXCEPT ![s] = renewed] ELSE row
       /\ seen' = [seen EXCEPT ![q] = None]
       /\ UNCHANGED <<founder, disabled, now>>

\* logout, once its own request is authenticated.
SignOut(q) ==
    /\ Moves(q, "leaving", "out")
    /\ row' = IF row[Uses[q]] = None THEN row
              ELSE [row EXCEPT ![Uses[q]].revoked = TRUE]
    /\ UNCHANGED <<founder, disabled, seen, now>>

-----------------------------------------------------------------------------
\* replace_memberships disables the member, and revokes its sessions; or enables it.
Disable ==
    /\ ~disabled
    /\ disabled' = TRUE
    /\ row' = [s \in Session |->
                IF s \in SignIn /\ row[s] # None
                THEN [row[s] EXCEPT !.revoked = TRUE] ELSE row[s]]
    /\ UNCHANGED <<founder, stage, seen, now>>

Enable ==
    /\ disabled
    /\ disabled' = FALSE
    /\ UNCHANGED <<founder, row, stage, seen, now>>

Tick ==
    /\ now < MaxTime
    /\ \A q \in Use : stage[q] \notin {"touching", "leaving"}
    /\ now' = now + 1
    /\ UNCHANGED <<founder, disabled, row, stage, seen>>

Finished ==
    /\ now = MaxTime
    /\ UNCHANGED vars

Next ==
    \/ \E q \in Setup : FindFree(q) \/ Claim(q) \/ Open(q)
    \/ \E q \in SignIn : ReadMember(q) \/ Mismatch(q) \/ Open(q)
    \/ \E q \in Use : Authenticate(q) \/ TouchRow(q) \/ SignOut(q)
    \/ Disable \/ Enable \/ Tick \/ Finished

Spec == Init /\ [][Next]_vars

-----------------------------------------------------------------------------
(* Properties. *)

\* What was settled stays so: no set-up takes the place of the founder, and no use
\* of a session, read before it was revoked and renewed after, brings it back.
SettledStaysSettled ==
    [][/\ founder # None => founder' = founder
       /\ \A s \in Session :
              row[s] # None /\ row[s].revoked => row'[s] = None \/ row'[s].revoked]_vars

-----------------------------------------------------------------------------
(* The inductive invariant behind the properties. *)

Row == [ends : Nat, idle : Nat, last : Nat, revoked : BOOLEAN]

TypeOK ==
    /\ founder \in Session \cup {None}
    /\ row \in [Session -> Row \cup {None}]
    /\ DOMAIN stage = Session \cup Use
    /\ now \in Nat

\* A request that may still open a session has none.
IInv ==
    /\ TypeOK
    /\ \A q \in Session :
           /\ stage[q] \in {"new", "hashed", "known", "refused", "done"}
           /\ stage[q] \in {"new", "hashed", "known"} => row[q] = None

=============================================================================
