--------------------------- MODULE MCHistoryStore ---------------------------
(* Small instances of HistoryStore. *)
EXTENDS HistoryStore, TLC

CONSTANTS c1, c2, jump, leap, run   \* requests; words, of which jump and leap are one concept

MCConcept == [w \in Words |-> IF w \in {jump, leap} THEN {jump, leap} \cap Words ELSE {w}]

ClientSymmetry == Permutations(Clients)
=============================================================================
