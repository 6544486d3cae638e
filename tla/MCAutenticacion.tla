--------------------------- MODULE MCAutenticacion ---------------------------
(* Instances of Autenticacion for TLC. *)
EXTENDS Autenticacion, TLC

CONSTANTS p1, p2, t1, t2, t3

MCProcesoDe == t1 :> p1 @@ t2 :> p1 @@ t3 :> p2
=============================================================================
