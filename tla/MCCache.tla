------------------------------ MODULE MCCache ------------------------------
(* Instances of Cache for TLC. *)
EXTENDS CacheInv, TLC

CONSTANTS w1, w2, q1, q2, x1, x2

\* All requests on one worker.
OneHost == [x \in Request \cup Writer |-> w1]

\* The second read is served by another worker.
TwoHosts == [x \in Request \cup Writer |-> IF x = q2 THEN w2 ELSE w1]

Symmetry == Permutations(Request)

=============================================================================
