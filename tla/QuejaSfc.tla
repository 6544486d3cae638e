------------------------------- MODULE QuejaSfc -------------------------------
(***************************************************************************)
(* What the dispatch of one complaint promises, without saying how: the    *)
(* SFC holds a complaint that is registered once, receives documents while *)
(* it is open and is closed once, never without its final answer; and the  *)
(* CRM is told, for each dispatch, something that is true of that          *)
(* complaint at that moment.  Orquestador implements it.                   *)
(***************************************************************************)
CONSTANTS Despacho,     \* the dispatches of the complaint
          Documento,    \* the documents that may be attached
          Final         \* the document with the final answer

VARIABLES estado,       \* of the complaint at the SFC
          documentos,   \* it holds
          pide,         \* what each dispatch asks for
          aplicadas,    \* dispatches whose update it has taken
          dicho         \* what the CRM was told about each dispatch

abstVars == <<estado, documentos, pide, aplicadas, dicho>>

Init ==
    /\ estado = "ausente"
    /\ documentos = {}
    /\ pide \in [Despacho -> {"alta", "cambio", "cierre"}]
    /\ aplicadas = {}
    /\ dicho = [d \in Despacho |-> "nada"]

Radicar ==
    /\ estado = "ausente"
    /\ estado' = "abierta"
    /\ UNCHANGED <<documentos, pide, aplicadas, dicho>>

Anexar(x) ==
    /\ estado = "abierta"
    /\ documentos' = documentos \cup {x}
    /\ UNCHANGED <<estado, pide, aplicadas, dicho>>

\* An update: of a closing too, which may bring one before it (fraud).
Actualizar(d) ==
    /\ estado = "abierta"
    /\ aplicadas' = aplicadas \cup {d}
    /\ UNCHANGED <<estado, documentos, pide, dicho>>

Cerrar ==
    /\ estado = "abierta"
    /\ Final \in documentos
    /\ estado' = "cerrada"
    /\ UNCHANGED <<documentos, pide, aplicadas, dicho>>

\* "success" of a registration means that the complaint exists, of an update
\* that it was applied, of a closing that it is closed; "noop" means that it
\* was closed before.
Cierto(d, r) ==
    CASE r = "success" /\ pide[d] = "alta"   -> estado # "ausente"
      [] r = "success" /\ pide[d] = "cambio" -> d \in aplicadas
      [] r = "success" /\ pide[d] = "cierre" -> estado = "cerrada"
      [] r = "noop"    -> pide[d] # "cierre" /\ estado = "cerrada"
      [] r = "rechazo" -> TRUE

Responder(d, r) ==
    /\ dicho[d] = "nada"
    /\ Cierto(d, r)
    /\ dicho' = [dicho EXCEPT ![d] = r]
    /\ UNCHANGED <<estado, documentos, pide, aplicadas>>

Next ==
    \/ Radicar
    \/ \E x \in Documento : Anexar(x)
    \/ Cerrar
    \/ \E d \in Despacho : Actualizar(d)
    \/ \E d \in Despacho, r \in {"success", "noop", "rechazo"} : Responder(d, r)

Spec == Init /\ [][Next]_abstVars
=============================================================================
