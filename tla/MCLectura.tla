------------------------------ MODULE MCLectura ------------------------------
(* Instances of Lectura for TLC. *)
EXTENDS Lectura

CONSTANTS r1, r2, r3, r4, r5, a1, a2
=============================================================================
