----------------------------- MODULE Forwarding -----------------------------
(***************************************************************************)
(* Whom a request comes from: the address rules of protection.py, followed *)
(* from the client, through the proxies of the operator, to the worker.    *)
(*                                                                         *)
(* A client writes any X-Forwarded-For header it likes; every proxy        *)
(* appends the address it was called from (what is behind the worker is    *)
(* modelled as the deployment guide has it).  An address rule is the set   *)
(* of the addresses it covers; an entry that is no address is Junk.        *)
(***************************************************************************)
EXTENDS Naturals, Sequences, SequencesExt

CONSTANTS
    Address,
    Trusted,      \* trusted_proxy_cidrs
    Denied,       \* denied_ips
    Allowed,      \* allowed_ips; empty: every address
    Junk,         \* an entry that is no address
    None,         \* before the client has connected
    MaxForged,    \* entries a client writes itself
    MaxHops       \* proxies on the way

\* What the constants must be.
ConstantsAreLegal ==
    /\ Trusted \cup Denied \cup Allowed \subseteq Address
    /\ {Junk, None} \cap Address = {}

VARIABLES
    client,       \* the address the request really comes from
    peer,         \* the address the next hop sees
    chain,        \* the entries of X-Forwarded-For
    hops          \* proxies passed so far

vars == <<client, peer, chain, hops>>

Init == client = None /\ peer = None /\ chain = <<>> /\ hops = 0

\* Someone who is not a proxy sends a request with a header of its own.
Send ==
    /\ client = None
    /\ client' \in Address \ Trusted
    /\ peer' = client'
    /\ chain' \in BoundedSeq(Address \cup {Junk}, MaxForged)
    /\ UNCHANGED hops

\* A proxy appends its peer and calls the next hop.
Forward ==
    /\ client # None /\ hops < MaxHops
    /\ chain' = Append(chain, peer)
    /\ peer' \in Trusted
    /\ hops' = hops + 1
    /\ UNCHANGED client

Next == Send \/ Forward \/ (client # None /\ UNCHANGED vars)
Spec == Init /\ [][Next]_vars

-----------------------------------------------------------------------------
(* The rules of protection.py. *)

\* The entries that are addresses of no trusted proxy, by place.
Outside(c) == {i \in DOMAIN c : c[i] \notin Trusted \cup {Junk}}

FaultyClientIp(p, c) ==
    IF p \notin Trusted \/ c = <<>> THEN p
    ELSE IF Outside(c) = {} THEN c[1]
    ELSE c[CHOOSE i \in Outside(c) : \A j \in Outside(c) : j >= i]

\* client_ip: from a trusted peer, the last entry no trusted proxy stands for;
\* without one, the first entry.
ClientIp(p, c) ==
    IF p \notin Trusted \/ c = <<>> THEN p
    ELSE IF Outside(c) = {} THEN c[1]
    ELSE c[CHOOSE i \in Outside(c) : \A j \in Outside(c) : j <= i]

\* ip_allowed: denials first; what is no address passes only without a list.
IpAllowed(ip) ==
    IF ip \notin Address THEN Allowed = {}
    ELSE ip \notin Denied /\ (Allowed = {} \/ ip \in Allowed)

Admitted == IpAllowed(ClientIp(peer, chain))

-----------------------------------------------------------------------------
(* Properties. *)

\* Whatever header it writes and however many proxies it passes, a request
\* counts for the address it comes from: the limits before authentication and
\* the address rules are about that address.
ForgedHeaderIsIgnored ==
    client # None =>
        /\ ClientIp(peer, chain) = client
        /\ Admitted <=> client \notin Denied /\ (Allowed = {} \/ client \in Allowed)

-----------------------------------------------------------------------------
(* The inductive invariant behind the properties. *)

\* Past a proxy the header holds the client, and after it only proxies.
IInv ==
    /\ hops \in Nat
    /\ client = None => hops = 0
    /\ client # None =>
           /\ client \in Address \ Trusted
           /\ chain \in Seq(Address \cup {Junk})
           /\ hops = 0 => peer = client
           /\ hops > 0 =>
                  /\ peer \in Trusted
                  /\ \E i \in DOMAIN chain :
                         /\ chain[i] = client
                         /\ \A j \in DOMAIN chain : j > i => chain[j] \in Trusted

=============================================================================
