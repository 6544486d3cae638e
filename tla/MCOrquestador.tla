---------------------------- MODULE MCOrquestador ----------------------------
(* Instances of Orquestador for TLC. *)
EXTENDS Orquestador, TLC

CONSTANTS d1, d2, f1, f2

Par(a, b) == d1 :> a @@ d2 :> b

\* Two dispatches of a complaint that disturb each other most.
MCPares ==
    {Par("alta", "cierre"), Par("tramite", "cierre"), Par("cierre", "cierre"),
     Par("fraude_cierre", "tramite"), Par("fraude", "fraude_cierre")}

MCTodas == [Despacho -> Operacion]
=============================================================================
