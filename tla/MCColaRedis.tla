----------------------------- MODULE MCColaRedis -----------------------------
(* ColaRedis for TLC: any two workers are interchangeable.                   *)
EXTENDS ColaRedis, TLC

Simetria == Permutations(WorkerId) \cup Permutations(Payload)
=============================================================================
