---------------------------- MODULE MCDocuments ----------------------------
(* An instance of Documents for TLC: two saves of one worker. *)
EXTENDS Documents

MCWorkerOf == [j \in Job |-> CHOOSE w \in Worker : TRUE]
MCDocumentOf == [s \in Save |-> CHOOSE d \in Document : TRUE]
MCText == [s \in Save |-> 1]
MCExpects == [s \in Save |-> 0]
MCStart == [d \in Document |-> 0]
MCLoads == [Document -> 0..1]

=============================================================================
