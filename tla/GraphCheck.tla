----------------------------- MODULE GraphCheck -----------------------------
(***************************************************************************)
(* _validate_graph_document: what a save accepts as a Forge graph.  The    *)
(* fields of one node or edge are not modelled; the relations between them *)
(* are, and the elimination that decides whether the graph is acyclic.     *)
(*                                                                         *)
(* An edge is a tuple <<from, output, to, input>>.  Two edges may connect  *)
(* the same nodes by different ports.                                      *)
(***************************************************************************)
EXTENDS Integers, FiniteSets, FiniteSetsExt

CONSTANTS
    Name,         \* the names of nodes
    Output, Input,      \* the ports of a node
    MaxEdges      \* bound: the edges of a graph

\* What the constants must be.
ConstantsAreLegal == IsFiniteSet(Name) /\ MaxEdges \in Nat

Edge == Name \X Output \X Name \X Input

VARIABLES
    nodes, edges, \* the document
    stage,        \* "read", "eliminating", "accepted" or "refused"
    indegree, ready, visited

vars == <<nodes, edges, stage, indegree, ready, visited>>

From(e) == e[1]
To(e) == e[3]

Init ==
    /\ nodes \in SUBSET Name
    /\ edges \in UNION {kSubset(k, Edge) : k \in 0..MaxEdges}
    /\ stage = "read"
    /\ indegree = [n \in nodes |-> 0]
    /\ ready = {}
    /\ visited = 0

\* No dangling edge, no edge from a node to itself, one edge to an input.
WellFormed ==
    /\ \A e \in edges : From(e) \in nodes /\ To(e) \in nodes /\ From(e) # To(e)
    /\ \A e, f \in edges : To(e) = To(f) /\ e[4] = f[4] => e = f

Adjacent(n) == {To(e) : e \in {f \in edges : From(f) = n}}

FaultyIndegree(n) == Cardinality({e \in edges : To(e) = n})

\* Counted over the adjacency sets: parallel edges count once.
Indegree(n) == Cardinality({m \in nodes : n \in Adjacent(m)})

Refuse ==
    /\ stage = "read"
    /\ ~WellFormed
    /\ stage' = "refused"
    /\ UNCHANGED <<nodes, edges, indegree, ready, visited>>

Count ==
    /\ stage = "read"
    /\ WellFormed
    /\ stage' = "eliminating"
    /\ indegree' = [n \in nodes |-> Indegree(n)]
    /\ ready' = {n \in nodes : Indegree(n) = 0}
    /\ UNCHANGED <<nodes, edges, visited>>

\* One node leaves, and those that then have no predecessor become ready.
Eliminate(n) ==
    /\ stage = "eliminating"
    /\ n \in ready
    /\ indegree' = [m \in nodes |->
                        IF m \in Adjacent(n) THEN indegree[m] - 1 ELSE indegree[m]]
    /\ ready' = (ready \ {n}) \cup {m \in Adjacent(n) : indegree[m] = 1}
    /\ visited' = visited + 1
    /\ UNCHANGED <<nodes, edges, stage>>

Decide ==
    /\ stage = "eliminating"
    /\ ready = {}
    /\ stage' = IF visited = Cardinality(nodes) THEN "accepted" ELSE "refused"
    /\ UNCHANGED <<nodes, edges, indegree, ready, visited>>

Finished ==
    /\ stage \in {"accepted", "refused"}
    /\ UNCHANGED vars

Next == Refuse \/ Count \/ (\E n \in ready : Eliminate(n)) \/ Decide \/ Finished

Spec == Init /\ [][Next]_vars

-----------------------------------------------------------------------------
(* Properties. *)

\* Some nodes lie on a cycle: each of them is followed by another one of them.
Loops(C) == C # {} /\ \A n \in C : Adjacent(n) \cap C # {}
Cyclic == \E C \in SUBSET nodes : Loops(C)

\* A well-formed graph is accepted exactly when it has no cycle, whatever edges run
\* in parallel and in whatever order its nodes are eliminated.
AcyclicGraphsPass ==
    stage \in {"accepted", "refused"} =>
        (stage = "accepted" <=> WellFormed /\ ~Cyclic)

-----------------------------------------------------------------------------
(* The inductive invariant behind the properties. *)

TypeOK ==
    /\ nodes \subseteq Name
    /\ stage \in {"read", "eliminating", "accepted", "refused"}
    /\ stage = "read" => visited = 0

\* The predecessors of a node that are still there when the nodes of G have left.
Remaining(G, n) == {m \in nodes \ G : n \in Adjacent(m)}

\* The nodes of G have left: so had all their predecessors, and every cycle keeps a node.
Left(G) ==
    /\ visited = Cardinality(G)
    /\ indegree \in [nodes -> Nat]
    /\ \A n \in nodes : indegree[n] = Cardinality(Remaining(G, n))
    /\ ready = {n \in nodes \ G : Remaining(G, n) = {}}
    /\ \A n \in G : Remaining(G, n) = {}
    /\ \A C \in SUBSET nodes : Loops(C) => ~(C \subseteq G)

IInv ==
    /\ TypeOK
    /\ stage = "eliminating" => WellFormed /\ \E G \in SUBSET nodes : Left(G)
    /\ AcyclicGraphsPass

=============================================================================
