------------------------------ MODULE Identity ------------------------------
(***************************************************************************)
(* The components that tell who a caller is and what it may do: instances  *)
(* of their modules, each with constants and variables of its own.  They   *)
(* share no state.                                                         *)
(***************************************************************************)
EXTENDS Integers

CONSTANTS
    ApiKey, KeyUse, KeyOfUse, KeyWorker, WorkerOfUse, KeyCacheTtl, KeyTime,   \* ApiKeys
    Jwt, KidOf, MaxKid,                                                       \* Jwks
    Setup, SignIn, Client, SessionOf, Touch, Idle, SessionTtl, SessionTime,   \* Sessions
    Staff, Founder, Role, System, Invite, Acceptance, Change, Rewrite, Caller, \* Members
    Names, Invited, Subject, Stays, Becomes, RolesAtStart, DefinitionAtStart,
    Manage,
    HopAddress, Trusted, Denied, Allowed, Junk, MaxForged, MaxHops,           \* Forwarding
    Nobody

-----------------------------------------------------------------------------
(* ApiKeys: the bootstrap credential, and the caches of key rows. *)

VARIABLES keyNow, keyRow, keyConsumed, keyHolder, keyMint, keyCache, keyStage, keyGot,
          keyRevoker

keyVars == <<keyNow, keyRow, keyConsumed, keyHolder, keyMint, keyCache, keyStage,
             keyGot, keyRevoker>>

Keys == INSTANCE ApiKeys WITH
    Key <- ApiKey, Request <- KeyUse, KeyOf <- KeyOfUse, Worker <- KeyWorker,
    WorkerOf <- WorkerOfUse, Ttl <- KeyCacheTtl, MaxTime <- KeyTime, None <- Nobody,
    now <- keyNow, row <- keyRow, consumed <- keyConsumed, holder <- keyHolder,
    mint <- keyMint, cache <- keyCache, stage <- keyStage, got <- keyGot,
    revoker <- keyRevoker

ASSUME KeysAreLegal == Keys!ConstantsAreLegal

-----------------------------------------------------------------------------
(* Jwks: the signing keys of an external issuer. *)

VARIABLES jwksPublished, jwksCached, jwksLock, jwksStage, jwksHave, jwksLooks, jwksDue

jwksVars == <<jwksPublished, jwksCached, jwksLock, jwksStage, jwksHave, jwksLooks,
              jwksDue>>

Issuer == INSTANCE Jwks WITH
    Token <- Jwt, KidOf <- KidOf, MaxKid <- MaxKid, None <- Nobody,
    published <- jwksPublished, cached <- jwksCached, lock <- jwksLock,
    stage <- jwksStage, have <- jwksHave, looks <- jwksLooks, due <- jwksDue

ASSUME IssuerIsLegal == Issuer!ConstantsAreLegal

-----------------------------------------------------------------------------
(* Sessions: the founder, sign-in and the sessions of the editor. *)

VARIABLES sessionFounder, sessionDisabled, sessionRow, sessionStage, sessionSeen,
          sessionNow

sessionVars == <<sessionFounder, sessionDisabled, sessionRow, sessionStage,
                 sessionSeen, sessionNow>>

SignIns == INSTANCE Sessions WITH
    Setup <- Setup, SignIn <- SignIn, Use <- Client, Uses <- SessionOf, Touch <- Touch,
    Idle <- Idle, Ttl <- SessionTtl, MaxTime <- SessionTime, None <- Nobody,
    founder <- sessionFounder, disabled <- sessionDisabled, row <- sessionRow,
    stage <- sessionStage, seen <- sessionSeen, now <- sessionNow

ASSUME SignInsAreLegal == SignIns!ConstantsAreLegal

-----------------------------------------------------------------------------
(* Members: invitations, memberships and roles. *)

VARIABLES memberActive, memberRoles, memberDef, memberInvitation, memberPrint,
          memberExpired, memberStage, memberAccess

memberVars == <<memberActive, memberRoles, memberDef, memberInvitation, memberPrint,
                memberExpired, memberStage, memberAccess>>

Team == INSTANCE Members WITH
    Staff <- Staff, Founder <- Founder, Role <- Role, System <- System,
    Invite <- Invite, Accept <- Acceptance, Change <- Change, Rewrite <- Rewrite,
    Caller <- Caller, Names <- Names, Token <- Invited, Subject <- Subject,
    Stays <- Stays, Becomes <- Becomes, RolesAtStart <- RolesAtStart,
    DefinitionAtStart <- DefinitionAtStart, Manage <- Manage, active <- memberActive,
    roles <- memberRoles, def <- memberDef, invitation <- memberInvitation,
    print <- memberPrint, expired <- memberExpired, stage <- memberStage,
    access <- memberAccess

ASSUME TeamIsLegal == Team!ConstantsAreLegal

-----------------------------------------------------------------------------
(* Forwarding: the address of a request behind proxies. *)

VARIABLES hopClient, hopPeer, hopChain, hopHops

hopVars == <<hopClient, hopPeer, hopChain, hopHops>>

Hops == INSTANCE Forwarding WITH
    Address <- HopAddress, Trusted <- Trusted, Denied <- Denied, Allowed <- Allowed,
    Junk <- Junk, None <- Nobody, MaxForged <- MaxForged, MaxHops <- MaxHops,
    client <- hopClient, peer <- hopPeer, chain <- hopChain, hops <- hopHops

ASSUME HopsAreLegal == Hops!ConstantsAreLegal

-----------------------------------------------------------------------------
(* The properties of the components; each is stated and explained in its module. *)

\* The bootstrap credential mints one key.
BootstrapMintsOnce == Keys!BootstrapMintsOnce

\* A token of a published key is verified, though the cached key set is older.
PublishedKeysAreFound == Issuer!PublishedKeysAreFound

\* No step undoes the claim of the founder or the revocation of a session.
SettledStaysSettled == SignIns!SettledStaysSettled

\* An invitation enrols one member.
InvitationsAreSingleUse == Team!InvitationsAreSingleUse

\* Nobody is enrolled with a role beyond the authority of who invited them.
EnrolledWithinAuthority == Team!EnrolledWithinAuthority

\* The address a request is judged by is its own, whatever it claims.
ForgedHeaderIsIgnored == Hops!ForgedHeaderIsIgnored

=============================================================================
