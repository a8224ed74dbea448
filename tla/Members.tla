------------------------------- MODULE Members -------------------------------
(***************************************************************************)
(* The members of the Forge Editor: invitations, the memberships of        *)
(* members and the definitions of custom roles.  A request resolves the    *)
(* access of its caller first and runs its transaction later.  An          *)
(* acceptance interleaves with all others at each of its statements that   *)
(* read; the checks of a change, on which no property rests, are one step, *)
(* and so are what a transaction writes and its commit.  SQLite reads      *)
(* outside of the transaction its first write opens; the row locks of      *)
(* PostgreSQL only exclude some of these interleavings, or end a request   *)
(* with a deadlock error (Fail).  Left out there: an invitation that       *)
(* another transaction commits between the update that revokes pending     *)
(* invitations and its commit, which it outlives.  An acceptance that has  *)
(* read before that commit and consumes after it is one that came first.   *)
(*                                                                         *)
(* A role is a rank and a set of grants, which stands for its permissions, *)
(* its document scopes and its database scopes alike.                      *)
(***************************************************************************)
EXTENDS Integers, FiniteSets, FiniteSetsExt

CONSTANTS
    Staff, Founder,     \* the members there are, the founder among them
    Role, System,       \* roles, and those nobody may redefine
    Invite,      \* requests that create an invitation, which has their name
    Accept,      \* requests that accept one; the new member has their name
    Change,      \* requests that replace the memberships of a member
    Rewrite,     \* requests that redefine a role
    Caller,      \* Caller[q]: the member behind an Invite, Change or Rewrite
    Names,       \* Names[q]: the role that request assigns or redefines
    Token,       \* Token[a]: the invitation a accepts
    Subject,     \* Subject[c]: the member a Change is about
    Stays,       \* Stays[c]: whether it leaves the member active
    Becomes,     \* Becomes[w]: the new definition of a role
    RolesAtStart, DefinitionAtStart,
    Manage       \* the grant these requests need

Job == Invite \cup Accept \cup Change \cup Rewrite
User == Staff \cup Accept

\* What the constants must be.
ConstantsAreLegal ==
    /\ Founder \in Staff /\ Staff \cap Accept = {}
    /\ Invite \cap (Accept \cup Change \cup Rewrite) = {}
    /\ Accept \cap (Change \cup Rewrite) = {} /\ Change \cap Rewrite = {}
    /\ RolesAtStart \in [Staff -> SUBSET Role]
    /\ System \subseteq Role
    /\ Token \in [Accept -> Invite]
    /\ Caller \in [Invite \cup Change \cup Rewrite -> Staff]
    /\ Names \in [Invite \cup Change \cup Rewrite -> Role]
    /\ Subject \in [Change -> Staff]
    /\ Stays \in [Change -> BOOLEAN]

VARIABLES
    active,      \* the members that may sign in
    roles,       \* roles[u]: the roles of a member
    def,         \* def[r]: the definition of a role
    invitation,  \* invitation[i]: "none", "pending" or "used"
    print,       \* print[i]: the definition of its role that i was created for
    expired,     \* the invitations past their time
    stage,       \* how far a request is
    access       \* access[q]: what q has read of the access of its caller; an
                 \* acceptance, of the creator of its invitation

vars == <<active, roles, def, invitation, print, expired, stage, access>>
members == <<active, roles, def>>

\* _access_with_connection
AccessOf(u) ==
    [all    |-> u = Founder,
     rank   |-> IF u = Founder THEN 1000
                ELSE Max({0} \cup {def[r].rank : r \in roles[u]}),
     grants |-> UNION {def[r].grants : r \in roles[u]}]

Permits(a) == a.all \/ Manage \in a.grants

\* _role_within_authority
Within(d, a) == a.all \/ (d.rank < a.rank /\ d.grants \subseteq a.grants)

Init ==
    /\ active = Staff
    /\ roles = [u \in User |-> IF u \in Staff THEN RolesAtStart[u] ELSE {}]
    /\ def = DefinitionAtStart
    /\ invitation = [i \in Invite |-> "none"]
    /\ print = [i \in Invite |-> DefinitionAtStart[Names[i]]]
    /\ expired = {}
    /\ stage = [q \in Job |-> "new"]
    /\ access = [q \in Job |-> AccessOf(Founder)]

Moves(q, from, to) ==
    /\ stage[q] = from
    /\ stage' = [stage EXCEPT ![q] = to]

\* The session is valid and the caller holds the permission of the route.
Begin(q) ==
    /\ Caller[q] \in active
    /\ Permits(AccessOf(Caller[q]))
    /\ Moves(q, "new", "permitted")
    /\ access' = [access EXCEPT ![q] = AccessOf(Caller[q])]
    /\ UNCHANGED <<members, invitation, print, expired>>

\* Every other end: a check that refuses, a name that is taken, an error.
Fail(q) ==
    /\ stage[q] \notin {"done", "refused"}
    /\ stage' = [stage EXCEPT ![q] = "refused"]
    /\ UNCHANGED <<members, invitation, print, expired, access>>

-----------------------------------------------------------------------------
(* create_invitation *)

ListRoles(i) ==
    /\ Within(def[Names[i]], access[i])
    /\ Moves(i, "permitted", "listed")
    /\ print' = [print EXCEPT ![i] = def[Names[i]]]
    /\ UNCHANGED <<members, invitation, expired, access>>

InsertInvitation(i) ==
    /\ Moves(i, "listed", "done")
    /\ invitation' = [invitation EXCEPT ![i] = "pending"]
    /\ UNCHANGED <<members, print, expired, access>>

Expire(i) ==
    /\ invitation[i] = "pending"
    /\ i \notin expired
    /\ expired' = expired \cup {i}
    /\ UNCHANGED <<members, invitation, print, stage, access>>

-----------------------------------------------------------------------------
(* accept_invitation *)

\* Before the password is hashed; the time compared later is the time of this step.
Present(a) ==
    /\ invitation[Token[a]] = "pending"
    /\ Token[a] \notin expired
    /\ Moves(a, "new", "hashing")
    /\ UNCHANGED <<members, invitation, print, expired, access>>

ReadInvitation(a) ==
    /\ invitation[Token[a]] = "pending"
    /\ Moves(a, "hashing", "read")
    /\ UNCHANGED <<members, invitation, print, expired, access>>

\* The creator as it is now.
ReadCreator(a) ==
    /\ Caller[Token[a]] \in active
    /\ Moves(a, "read", "accessing")
    /\ UNCHANGED <<members, invitation, print, expired, access>>

\* Its access: memberships and roles in one statement.
ReadAccess(a) ==
    /\ Permits(AccessOf(Caller[Token[a]]))
    /\ Moves(a, "accessing", "accessed")
    /\ access' = [access EXCEPT ![a] = AccessOf(Caller[Token[a]])]
    /\ UNCHANGED <<members, invitation, print, expired>>

\* The role is still the one the invitation was made for, and the creator may give it.
ReadGiven(a) ==
    /\ def[Names[Token[a]]] = print[Token[a]]
    /\ Within(print[Token[a]], access[a])
    /\ Moves(a, "accessed", "checked")
    /\ UNCHANGED <<members, invitation, print, expired, access>>

FaultyConsume(a) ==
    /\ Moves(a, "checked", "done")
    /\ invitation' = [invitation EXCEPT ![Token[a]] = "used"]
    /\ active' = active \cup {a}
    /\ roles' = [roles EXCEPT ![a] = {Names[Token[a]]}]
    /\ UNCHANGED <<def, print, expired, access>>

\* The update counts one row; the member and its memberships are in its transaction.
Consume(a) ==
    /\ invitation[Token[a]] = "pending"
    /\ Moves(a, "checked", "done")
    /\ invitation' = [invitation EXCEPT ![Token[a]] = "used"]
    /\ active' = active \cup {a}
    /\ roles' = [roles EXCEPT ![a] = {Names[Token[a]]}]
    /\ UNCHANGED <<def, print, expired, access>>

-----------------------------------------------------------------------------
(* replace_memberships *)

Check(c) ==
    /\ Subject[c] # Founder
    /\ Within(def[Names[c]], access[c])
    /\ def[Names[c]].rank < access[c].rank
    /\ AccessOf(Subject[c]).rank < access[c].rank
    /\ Moves(c, "permitted", "checked")
    /\ UNCHANGED <<members, invitation, print, expired, access>>

FaultyRevoked(I) == [i \in Invite |-> invitation[i]]

Revoked(I) ==
    [i \in Invite |->
        IF i \in I /\ invitation[i] = "pending" THEN "used" ELSE invitation[i]]

Replace(c) ==
    /\ Moves(c, "checked", "done")
    /\ roles' = [roles EXCEPT ![Subject[c]] = {Names[c]}]
    /\ active' = IF Stays[c] THEN active \cup {Subject[c]} ELSE active \ {Subject[c]}
    /\ invitation' = Revoked({i \in Invite : Caller[i] = Subject[c]})
    /\ UNCHANGED <<def, print, expired, access>>

-----------------------------------------------------------------------------
(* save_role of a role there is *)

ReadRole(w) ==
    /\ Becomes[w].rank < access[w].rank /\ Within(Becomes[w], access[w])
    /\ Names[w] \notin System
    /\ Within(def[Names[w]], access[w])
    /\ Moves(w, "permitted", "checked")
    /\ UNCHANGED <<members, invitation, print, expired, access>>

SaveRole(w) ==
    /\ Moves(w, "checked", "done")
    /\ def' = [def EXCEPT ![Names[w]] = Becomes[w]]
    /\ invitation' = Revoked(Invite)
    /\ UNCHANGED <<active, roles, print, expired, access>>

-----------------------------------------------------------------------------
Finished ==
    /\ \A q \in Job : stage[q] \in {"done", "refused"}
    /\ UNCHANGED vars

Next ==
    \/ \E q \in Invite \cup Change \cup Rewrite : Begin(q)
    \/ \E q \in Job : Fail(q)
    \/ \E i \in Invite : ListRoles(i) \/ InsertInvitation(i) \/ Expire(i)
    \/ \E a \in Accept :
        \/ Present(a) \/ ReadInvitation(a)
        \/ ReadCreator(a) \/ ReadAccess(a) \/ ReadGiven(a) \/ Consume(a)
    \/ \E c \in Change : Check(c) \/ Replace(c)
    \/ \E w \in Rewrite : ReadRole(w) \/ SaveRole(w)
    \/ Finished

Spec == Init /\ [][Next]_vars

-----------------------------------------------------------------------------
Enrolled == {a \in Accept : stage[a] = "done"}

\* An invitation enrols one member at most, however many requests present it.
InvitationsAreSingleUse ==
    \A a, b \in Enrolled : Token[a] = Token[b] => a = b

\* At the commit that enrols a member, the creator of the invitation is still
\* active and could give that role as it is defined then, whatever was replaced or
\* redefined since the invitation was made, or between the checks and the commit.
EnrolledWithinAuthority ==
    [][\A a \in Enrolled' \ Enrolled :
            LET i == Token[a]
            IN /\ Caller[i] \in active
               /\ Permits(AccessOf(Caller[i]))
               /\ def[Names[i]] = print[i]
               /\ Within(def[Names[i]], AccessOf(Caller[i]))]_vars

-----------------------------------------------------------------------------
(* The inductive invariant behind the properties. *)

Stage == {"new", "permitted", "listed", "hashing", "read", "accessing", "accessed",
          "checked", "done", "refused"}

TypeInv ==
    /\ roles \in [User -> SUBSET Role]
    /\ invitation \in [Invite -> {"none", "pending", "used"}]
    /\ print = [i \in Invite |-> print[i]]
    /\ stage \in [Job -> Stage]
    /\ DOMAIN access = Job

\* An invitation becomes pending once, when the request that creates it ends.
Fresh == \A i \in Invite : stage[i] \in {"new", "permitted", "listed"} => invitation[i] = "none"

\* Only an invitation there is can be presented.
Presented ==
    \A a \in Accept :
        stage[a] \in {"hashing", "read", "accessing", "accessed", "checked"}
            => invitation[Token[a]] # "none"

\* Who is enrolled has used an invitation, which stays used.
Spent == \A a \in Enrolled : invitation[Token[a]] = "used"

\* What an acceptance has read stands for as long as the invitation is pending: all
\* that could change it revokes the invitation.
ReadStands(a) ==
    LET i == Token[a]
    IN /\ stage[a] \in {"accessing", "accessed", "checked"} => Caller[i] \in active
       /\ stage[a] \in {"accessed", "checked"} =>
              access[a] = AccessOf(Caller[i]) /\ Permits(access[a])
       /\ stage[a] = "checked" => def[Names[i]] = print[i] /\ Within(print[i], access[a])

Checked == \A a \in Accept : invitation[Token[a]] = "pending" => ReadStands(a)

\* The inductive invariant.
IInv == TypeInv /\ Fresh /\ Presented /\ Spent /\ InvitationsAreSingleUse /\ Checked

=============================================================================
