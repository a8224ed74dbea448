---------------------------- MODULE MCOperations ----------------------------
(* Instances of Operations for TLC. *)
EXTENDS OperationsInv

CONSTANTS r1, r2, r3, k1, k2, i1, i2

\* Two clients use one key with different inputs, a third one has its own.
MCKeyOf == [r \in Request |-> IF r = r3 THEN k2 ELSE k1]
MCInputOf == [r \in Request |-> IF r = r2 THEN i2 ELSE i1]

=============================================================================
