---------------------------- MODULE MCReintentos ----------------------------
(* Reintentos for TLC.                                                       *)
EXTENDS Reintentos, TLC

\* Every obligation belongs to one and the same case.
UnSoloCaso == [s \in Slot |-> CHOOSE c \in Caso : TRUE]

Simetria == Permutations(WorkerId) \cup Permutations(Payload) \cup Permutations(Node)
=============================================================================
