----------------------------- MODULE MCServices -----------------------------
(* One run for the components that share no state: the behaviours are those of
   each of them, one at a time, so that their states add up and do not multiply.
   "part" names the component that runs; Operations is the module extended. *)
EXTENDS MCOperations, Identity, Storage, Traffic, TLC

\* The component that runs: the others keep their initial state.
VARIABLE part

Parts == {"operations", "keys", "issuer", "signIns", "team", "hops", "data", "shelf",
          "editor", "graph", "limiter", "sharedLimiter", "calling", "hub", "sharedHub",
          "trail"}

-----------------------------------------------------------------------------
(* The limiter and the hub of processes that share Redis. *)

SharedLimiter == INSTANCE RateLimit WITH
    Identity <- RateIdentity, Shared <- TRUE, MaxTime <- RateTime - 2, now <- rateNow,
    buckets <- rateBuckets, overflow <- rateOverflow, nextCleanup <- rateNextCleanup,
    ideal <- rateIdeal

SharedHub == INSTANCE Events WITH
    Client <- Subscriber, Shared <- TRUE, None <- Null, conn <- hubConn,
    members <- hubMembers, queue <- hubQueue, hand <- hubHand, sent <- hubSent,
    missed <- hubMissed, offered <- hubOffered, events <- hubEvents,
    listener <- hubListener, wire <- hubWire, outages <- hubOutages

ASSUME SharedAreLegal == SharedLimiter!ConstantsAreLegal /\ SharedHub!ConstantsAreLegal

-----------------------------------------------------------------------------
(* Identity: two requests of one worker authenticate with a key while it is revoked;
   two setups race, and two clients share a session that is renewed after two ticks,
   idle after four and over after six; u, who may manage members, invites one while
   its role, and the role it gives, are redefined and u is demoted. *)

MCKeyOfUse == [q \in KeyUse |-> "k1"]
MCWorkerOfUse == [q \in KeyUse |-> "w1"]
MCKidOf == "t1" :> 2 @@ "t2" :> 3 @@ "t3" :> 1
MCSessionOf == [c \in Client |-> "s1"]
MCCaller == "i1" :> "u" @@ "c1" :> "founder" @@ "w1" :> "founder" @@ "w2" :> "founder"
MCNames == "i1" :> "guest" @@ "c1" :> "guest" @@ "w1" :> "guest" @@ "w2" :> "manager"
MCInvited == [a \in Acceptance |-> "i1"]
MCSubject == [c \in Change |-> "u"]
MCStays == [c \in Change |-> FALSE]
MCBecomes ==
    "w1" :> [rank |-> 6, grants |-> {}] @@ "w2" :> [rank |-> 3, grants |-> {"manage"}]
MCRolesAtStart == "founder" :> {} @@ "u" :> {"manager"}
MCDefinitionAtStart ==
    "manager" :> [rank |-> 8, grants |-> {"manage"}]
        @@ "guest" :> [rank |-> 4, grants |-> {}]

-----------------------------------------------------------------------------
(* Storage: a creation, an update, a deletion and a replacement in two workers; an
   upload of what an old object holds, a larger one of the same owner, and one of
   another owner, while the old object and the first upload are deleted; saves of two
   documents in two workers, two of which are of one document. *)

MCActionOf == "m1" :> "create" @@ "m2" :> "update" @@ "m3" :> "delete" @@ "m4" :> "replace"
MCWorkerOfMutation == "m1" :> "w1" @@ "m2" :> "w2" @@ "m3" :> "w2" @@ "m4" :> "w1"
MCItemOf == "m1" :> Nothing @@ "m2" :> 1 @@ "m3" :> 1 @@ "m4" :> 1
MCTarget == "d1" :> "o1" @@ "d2" :> "u1"
MCOwnerOf == "o1" :> "a" @@ "u1" :> "a" @@ "u2" :> "a" @@ "u3" :> "b"
MCSize == "o1" :> 1 @@ "u1" :> 1 @@ "u2" :> 2 @@ "u3" :> 1
MCContent == "o1" :> 1 @@ "u1" :> 1 @@ "u2" :> 2 @@ "u3" :> 1
MCWorkerOfEditor ==
    "s1" :> "w1" @@ "s2" :> "w2" @@ "s3" :> "w2" @@ "c1" :> "w1" @@ "c2" :> "w2"
MCDocumentOf == "s1" :> "a" @@ "s2" :> "b" @@ "s3" :> "a"
MCText == "s1" :> 1 @@ "s2" :> 1 @@ "s3" :> 2
MCExpects == [s \in Save |-> 0]
MCTextAtStart == [d \in Document |-> 0]
MCLoads == {f \in [Document -> 0..2] : f["a"] # 1 \/ f["b"] # 1}

-----------------------------------------------------------------------------

\* A component that does not run has one initial state.
ServicesInit ==
    /\ part \in Parts
    /\ Init
    /\ Keys!Init /\ Issuer!Init /\ SignIns!Init /\ Team!Init /\ Hops!Init
    /\ Data!Init /\ Shelf!Init /\ Editor!Init
    /\ Limiter!Init /\ Calling!Init /\ Hub!Init /\ Trail!Init
    /\ part # "graph" => graphNodes = {} /\ graphEdges = {}
    /\ Graph!Init

ServicesNext ==
    /\ UNCHANGED part
    /\ IF part = "operations" THEN Next ELSE UNCHANGED vars
    /\ IF part = "keys" THEN Keys!Next ELSE UNCHANGED keyVars
    /\ IF part = "issuer" THEN Issuer!Next ELSE UNCHANGED jwksVars
    /\ IF part = "signIns" THEN SignIns!Next ELSE UNCHANGED sessionVars
    /\ IF part = "team" THEN Team!Next ELSE UNCHANGED memberVars
    /\ IF part = "hops" THEN Hops!Next ELSE UNCHANGED hopVars
    /\ IF part = "data" THEN Data!Next ELSE UNCHANGED dataVars
    /\ IF part = "shelf" THEN Shelf!Next ELSE UNCHANGED mediaVars
    /\ IF part = "editor" THEN Editor!Next ELSE UNCHANGED docVars
    /\ IF part = "graph" THEN Graph!Next ELSE UNCHANGED graphVars
    /\ CASE part = "limiter" -> Limiter!Next
         [] part = "sharedLimiter" -> SharedLimiter!Next
         [] OTHER -> UNCHANGED rateVars
    /\ IF part = "calling" THEN Calling!Next ELSE UNCHANGED callVars
    /\ CASE part = "hub" -> Hub!Next
         [] part = "sharedHub" -> SharedHub!Next
         [] OTHER -> UNCHANGED hubVars
    /\ IF part = "trail" THEN Trail!Next ELSE UNCHANGED auditVars

ServicesSpec == ServicesInit /\ [][ServicesNext]_<<part, vars, keyVars, jwksVars,
    sessionVars, memberVars, hopVars, dataVars, mediaVars, docVars, graphVars, rateVars,
    callVars, hubVars, auditVars>>

=============================================================================
