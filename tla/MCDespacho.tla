----------------------------- MODULE MCDespacho -----------------------------
(* Despacho for TLC.                                                         *)
EXTENDS Despacho, TLC

\* Every obligation belongs to one and the same case.
UnSoloCaso == [s \in Slot |-> CHOOSE c \in Caso : TRUE]

Simetria == Permutations(WorkerId) \cup Permutations(Payload) \cup Permutations(Peticion)
=============================================================================
