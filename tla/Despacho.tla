------------------------------ MODULE Despacho ------------------------------
(***************************************************************************)
(* POST /sync/despacho (despachar_queja_crm in app/api/routes_quejas.py)   *)
(* and the idempotency store (app/services/idempotency_service.py), as     *)
(* concurrent requests over the queue and next to the retry cycle of       *)
(* Reintentos.                                                             *)
(*                                                                         *)
(* A request is one coroutine: it keeps its place (pf) between two awaits. *)
(* The failures are those of Reintentos, and "caida_api": an API process   *)
(* dies (API and worker are processes of their own).                       *)
(***************************************************************************)
EXTENDS Reintentos, FiniteSets

\* The order of arrival counts the requests.
ASSUME DespachoAssumption == IsFiniteSet(Peticion)

VARIABLES
    pf,             \* where each request is
    ps,             \* its obligation: Smart_Code__c and inferred operation
    pp,             \* its content: raw_payload and its hash
    pid,            \* queue item it has read or written, 0 = none
    ph,             \* hash of the pending item that the cancellation read
    candados,       \* requests whose despacho_lock.acquired is True
    resp,           \* the answer, once it is decided
    orden,          \* order of arrival, 0 = not yet
    replay          \* replays that still have to write their QUEUED record

petVars == <<pf, ps, pp, pid, ph, candados, resp, orden, replay>>
todo == <<vars, petVars>>

\* Everything but the queue, its claims and idempotency records.
restoVars == <<nodoVars, jobLock, casoLock, sfcVars>>
colaSinIdem == <<counter, item, index, pendientes, completados, fallidos, zset,
                 creados, claim, purga>>

FaseP == {"nueva", "verificar", "vigencia", "borrar", "iniciar", "revisar", "lock", "sfc",
          "exito", "leer", "cancelar", "encolar", "registrar", "soltar", "liberar", "fin"}

\* 200, 202 (queued, already queued, in process), SFC rejection, 503 of the
\* idempotency store, 503 of a double failure, and a connection that broke.
Respuesta == {"ninguna", "ok", "encolado", "ya_encolado", "en_proceso", "rechazado",
              "no_disponible", "fallo_doble", "cortada"}

InitD ==
    /\ InitR
    /\ pf = [q \in Peticion |-> "nueva"]
    /\ ps = [q \in Peticion |-> Nadie]
    /\ pp = [q \in Peticion |-> SinRespuesta]
    /\ pid = [q \in Peticion |-> 0]
    /\ ph = [q \in Peticion |-> SinRespuesta]
    /\ candados = {}
    /\ resp = [q \in Peticion |-> "ninguna"]
    /\ orden = [q \in Peticion |-> 0]
    /\ replay = {}

IrP(q, f) == pf' = [pf EXCEPT ![q] = f]

\* The answer is decided; the finally of the handler still has to run.
Decidir(q, r) == resp' = [resp EXCEPT ![q] = r]

Registro(q) == idem[ps[q]][pp[q]]

\* A plain SET or DEL of the record of the request.
Escribir(q, r) ==
    /\ idem' = [idem EXCEPT ![ps[q]][pp[q]] = r]
    /\ UNCHANGED colaSinIdem

IdemProcessing == [status |-> "PROCESSING", item |-> 0]
IdemEncolado(i) == [status |-> "QUEUED", item |-> i]

\* A command that fails, before or after it took effect.
SinEfecto == RedisFalla /\ UNCHANGED colaVars
Falla(efecto) == SinEfecto \/ (RedisFalla /\ efecto)

-----------------------------------------------------------------------------
(* verificar_o_iniciar_operacion                                            *)

Llegar(q, s, p) ==
    /\ pf[q] = "nueva"
    /\ ps' = [ps EXCEPT ![q] = s]
    /\ pp' = [pp EXCEPT ![q] = p]
    /\ orden' = [orden EXCEPT ![q] = 1 + Cardinality({r \in Peticion : orden[r] # 0})]
    /\ IrP(q, "verificar")
    /\ UNCHANGED <<vars, pid, ph, candados, resp, replay>>

\* The first GET.  A hit answers at once, outside the try: nothing to release.
Verificar(q) ==
    /\ pf[q] = "verificar"
    /\ \/ Registro(q).status = "LIBRE" /\ IrP(q, "iniciar") /\ UNCHANGED <<resp, pid>>
       \/ Registro(q).status = "COMPLETED" /\ Decidir(q, "ok") /\ IrP(q, "fin")
          /\ UNCHANGED pid
       \/ Registro(q).status = "PROCESSING" /\ Decidir(q, "en_proceso") /\ IrP(q, "fin")
          /\ UNCHANGED pid
       \/ Registro(q).status = "QUEUED" /\ IrP(q, "vigencia")
          /\ pid' = [pid EXCEPT ![q] = Registro(q).item] /\ UNCHANGED resp
       \/ RedisFalla /\ Decidir(q, "no_disponible") /\ IrP(q, "fin") /\ UNCHANGED pid
    /\ UNCHANGED <<vars, ps, pp, ph, candados, orden, replay>>

\* _item_de_cola_sigue_vigente: the item of a QUEUED record still waits with
\* this content.  Without an id, or when Redis fails, it is taken for granted.
SigueVigente(i, p) ==
    i = 0 \/ (Existe(i) /\ item[i].estado = "PENDING" /\ item[i].payload = p)

Vigencia(q) ==
    /\ pf[q] = "vigencia"
    /\ \/ /\ SigueVigente(pid[q], pp[q]) \/ RedisFalla
          /\ Decidir(q, "ya_encolado") /\ IrP(q, "fin")
       \/ ~SigueVigente(pid[q], pp[q]) /\ IrP(q, "borrar") /\ UNCHANGED resp
    /\ UNCHANGED <<vars, ps, pp, pid, ph, candados, orden, replay>>

\* The orphaned record is deleted, whatever it is by now.
Borrar(q) ==
    /\ pf[q] = "borrar"
    /\ \/ Escribir(q, IdemLibre) /\ IrP(q, "iniciar") /\ UNCHANGED resp
       \/ Falla(Escribir(q, IdemLibre)) /\ Decidir(q, "no_disponible") /\ IrP(q, "fin")
    /\ UNCHANGED <<restoVars, ps, pp, pid, ph, candados, orden, replay>>

\* _iniciar_registro_processing: SET NX PX 180000.
Iniciar(q) ==
    LET libre == Registro(q).status = "LIBRE" IN
    /\ pf[q] = "iniciar"
    /\ \/ libre /\ Escribir(q, IdemProcessing) /\ IrP(q, "lock") /\ UNCHANGED resp
       \/ ~libre /\ UNCHANGED colaVars /\ IrP(q, "revisar") /\ UNCHANGED resp
       \/ /\ Falla(libre /\ Escribir(q, IdemProcessing))
          /\ Decidir(q, "no_disponible") /\ IrP(q, "fin")
    /\ UNCHANGED <<restoVars, ps, pp, pid, ph, candados, orden, replay>>

SiempreProcesada(st) == "ok"    \* mutant
RespuestaDeHit(st) == IF st = "COMPLETED" THEN "ok" ELSE "en_proceso"

\* The GET after a SET NX that found the key: COMPLETED, or "processing"
\* whatever else it is.
Revisar(q) ==
    /\ pf[q] = "revisar"
    /\ \/ Decidir(q, RespuestaDeHit(Registro(q).status))
       \/ RedisFalla /\ Decidir(q, "no_disponible")
    /\ IrP(q, "fin")
    /\ UNCHANGED <<vars, ps, pp, pid, ph, candados, orden, replay>>

-----------------------------------------------------------------------------
(* The lock of the case and the dispatch                                    *)

\* A busy lock and a Redis that does not answer (it may have set the key) send
\* the event to the queue.
TomarLock(q) ==
    LET c == CasoDe[ps[q]] IN
    /\ pf[q] = "lock"
    /\ \/ /\ LockLibre(c)
          /\ casoLock' = [casoLock EXCEPT ![c] = q]
          /\ candados' = candados \cup {q}
          /\ IrP(q, "sfc")
       \/ /\ ~LockLibre(c) \/ RedisFalla
          /\ UNCHANGED <<casoLock, candados>> /\ IrP(q, "encolar")
       \/ /\ RedisFalla /\ LockLibre(c)
          /\ casoLock' = [casoLock EXCEPT ![c] = q]
          /\ UNCHANGED candados /\ IrP(q, "encolar")
    /\ UNCHANGED <<colaVars, nodoVars, jobLock, sfcVars, ps, pp, pid, ph, resp, orden,
                   replay>>

AceptarP(q) == enviados' = [enviados EXCEPT ![ps[q]] = @ \cup {pp[q]}]

\* procesar_despacho: accepted, rejected (also any unexpected exception), or a
\* transient error, after which the SFC may have taken the content.
Enviar(q) ==
    /\ pf[q] = "sfc"
    /\ \/ AceptarP(q) /\ IrP(q, "exito") /\ UNCHANGED resp
       \/ UNCHANGED enviados /\ Decidir(q, "rechazado") /\ IrP(q, "soltar")
       \/ (UNCHANGED enviados \/ AceptarP(q)) /\ IrP(q, "encolar") /\ UNCHANGED resp
    /\ UNCHANGED <<colaVars, nodoVars, lockVars, confirmados, perdidos, ps, pp, pid, ph,
                   candados, orden, replay>>

\* registrar_exito: when Redis keeps failing an alert is sent, no more.
RegistrarExito(q) ==
    /\ pf[q] = "exito"
    /\ Escribir(q, IdemCompletado) \/ SinEfecto
    /\ IrP(q, "leer")
    /\ UNCHANGED <<restoVars, ps, pp, pid, ph, candados, resp, orden, replay>>

\* cancelar_pendiente_por_smart_code: what waits in the slot of the operation
\* is read ...
LeerObsoleto(q) ==
    /\ pf[q] = "leer"
    /\ \/ /\ SlotOcupado(ps[q])
          /\ pid' = [pid EXCEPT ![q] = index[ps[q]]]
          /\ ph' = [ph EXCEPT ![q] = item[index[ps[q]]].payload]
          /\ IrP(q, "cancelar") /\ UNCHANGED resp
       \/ /\ ~SlotOcupado(ps[q]) \/ RedisFalla
          /\ Decidir(q, "ok") /\ IrP(q, "soltar") /\ UNCHANGED <<pid, ph>>
    /\ UNCHANGED <<vars, ps, pp, candados, orden, replay>>

\* ... and deleted if it still has that id and hash.
CancelarObsoleto(q) ==
    /\ pf[q] = "cancelar"
    /\ \/ Cancelar(ps[q], pid[q], ph[q])
       \/ ~Cancelable(ps[q], pid[q], ph[q]) /\ UNCHANGED colaVars
       \/ SinEfecto
    /\ Decidir(q, "ok") /\ IrP(q, "soltar")
    /\ UNCHANGED <<restoVars, ps, pp, pid, ph, candados, orden, replay>>

-----------------------------------------------------------------------------
(* _encolar_despacho_por_contingencia                                       *)

EncolarContingencia(q) ==
    /\ pf[q] = "encolar"
    /\ \/ /\ Encolar(ps[q], pp[q])
          /\ pid' = [pid EXCEPT ![q] = index'[ps[q]]]
          /\ IrP(q, "registrar") /\ UNCHANGED resp
       \/ /\ Falla(Encolar(ps[q], pp[q]))
          /\ Decidir(q, "fallo_doble") /\ IrP(q, "soltar") /\ UNCHANGED pid
    /\ UNCHANGED <<restoVars, ps, pp, ph, candados, orden, replay>>

\* registrar_encolado: an unconditional SET.
RegistrarEncolado(q) ==
    /\ pf[q] = "registrar"
    /\ \/ Escribir(q, IdemEncolado(pid[q])) /\ Decidir(q, "encolado")
       \/ Falla(Escribir(q, IdemEncolado(pid[q]))) /\ Decidir(q, "fallo_doble")
    /\ IrP(q, "soltar")
    /\ UNCHANGED <<restoVars, ps, pp, pid, ph, candados, orden, replay>>

-----------------------------------------------------------------------------
(* The finally of the handler                                               *)

SoltarSinLiberar(r) == "fin"    \* mutant
FaseTrasSoltar(r) == IF r \in {"ok", "encolado"} THEN "fin" ELSE "liberar"

\* release() is a no-op unless acquired; then compare and delete.
Soltar(q) ==
    LET c == CasoDe[ps[q]] IN
    /\ pf[q] = "soltar"
    /\ \/ casoLock' = IF q \in candados /\ casoLock[c] = q
                        THEN [casoLock EXCEPT ![c] = Nadie] ELSE casoLock
       \/ RedisFalla /\ UNCHANGED casoLock
    /\ candados' = candados \ {q}
    /\ IrP(q, FaseTrasSoltar(resp[q]))
    /\ UNCHANGED <<colaVars, nodoVars, jobLock, sfcVars, ps, pp, pid, ph, resp, orden,
                   replay>>

\* liberar_operacion_por_error: an unconditional DEL.
Liberar(q) ==
    /\ pf[q] = "liberar"
    /\ Escribir(q, IdemLibre) \/ SinEfecto
    /\ IrP(q, "fin")
    /\ UNCHANGED <<restoVars, ps, pp, pid, ph, candados, resp, orden, replay>>

PasoPeticion(q) ==
    \/ Verificar(q) \/ Vigencia(q) \/ Borrar(q) \/ Iniciar(q) \/ Revisar(q)
    \/ TomarLock(q) \/ Enviar(q) \/ RegistrarExito(q) \/ LeerObsoleto(q) \/ CancelarObsoleto(q)
    \/ EncolarContingencia(q) \/ RegistrarEncolado(q) \/ Soltar(q) \/ Liberar(q)

\* The API process dies: what it wrote stays until it expires.
CaerPeticion(q) ==
    /\ "caida_api" \in Fallos
    /\ pf[q] \notin {"nueva", "fin"}
    /\ IrP(q, "fin")
    /\ Decidir(q, "cortada")
    /\ candados' = candados \ {q}
    /\ UNCHANGED <<vars, ps, pp, pid, ph, orden, replay>>

-----------------------------------------------------------------------------
(* Leases of the API                                                        *)

\* Between SET NX and the finally.  IdempotencyProcessingHeartbeat renews the
\* record during the dispatch; the other steps are short.
EnVuelo(q) == pf[q] \in {"lock", "sfc", "exito", "leer", "cancelar", "encolar", "registrar",
                         "soltar", "liberar"}

SinTtl(s, p) == FALSE    \* mutant
VenceProcessing(s, p) ==
    /\ idem[s][p].status = "PROCESSING"
    /\ LeaseFragil \/ ~\E q \in Peticion : EnVuelo(q) /\ ps[q] = s /\ pp[q] = p
    /\ idem' = [idem EXCEPT ![s][p] = IdemLibre]
    /\ UNCHANGED <<colaSinIdem, restoVars, petVars>>

VenceLockPeticion(c) ==
    /\ casoLock[c] \in Peticion
    /\ LeaseFragil \/ casoLock[c] \notin candados
    /\ casoLock' = [casoLock EXCEPT ![c] = Nadie]
    /\ UNCHANGED <<colaVars, nodoVars, jobLock, sfcVars, petVars>>

-----------------------------------------------------------------------------
(* POST /queue/{id}/reencolar: after the script, the item is read again and *)
(* its QUEUED record written; neither looks at the state of the item.       *)

\* Bound: replays leave a version for each request that is still to enqueue.
QuedanVersiones(i) ==
    item[i].version + Cardinality({q \in Peticion : pf[q] # "fin"}) < MaxVersion

PorLeer(i) == [id |-> i, leido |-> SinItem]

ReencolarOperador(i) ==
    /\ Existe(i) /\ QuedanVersiones(i)
    /\ Reencolar(i)
    /\ replay' = replay \cup {PorLeer(i)}
    /\ UNCHANGED <<restoVars, pf, ps, pp, pid, ph, candados, resp, orden>>

LeerReplay(i) ==
    /\ PorLeer(i) \in replay
    /\ replay' = (replay \ {PorLeer(i)}) \cup
                   (IF Existe(i)
                      THEN {[id |-> i, leido |-> <<item[i].slot, item[i].payload>>]} ELSE {})
    /\ UNCHANGED <<vars, pf, ps, pp, pid, ph, candados, resp, orden>>

RegistrarReplay(r) ==
    /\ r.leido # SinItem
    /\ idem' = [idem EXCEPT ![r.leido[1]][r.leido[2]] = IdemEncolado(r.id)]
    /\ replay' = replay \ {r}
    /\ UNCHANGED <<colaSinIdem, restoVars, pf, ps, pp, pid, ph, candados, resp, orden>>

\* Whatever fails here is logged: the replay stays, its record is not written.
AbandonarReplay(r) ==
    /\ Fallos # {}
    /\ replay' = replay \ {r}
    /\ UNCHANGED <<vars, pf, ps, pp, pid, ph, candados, resp, orden>>

PasoReplay ==
    \/ \E i \in Id : LeerReplay(i)
    \/ \E r \in replay : RegistrarReplay(r)

-----------------------------------------------------------------------------
VencerD(i) == Vencer(i) /\ UNCHANGED <<restoVars, petVars>>

PasoNodoD(n) == PasoNodo(n) /\ UNCHANGED petVars
CaerD(n) == Caer(n) /\ UNCHANGED petVars
VencimientosD == Vencimientos /\ UNCHANGED petVars

NextD ==
    \/ \E q \in Peticion, s \in Slot, p \in Payload : Llegar(q, s, p)
    \/ \E q \in Peticion : PasoPeticion(q) \/ CaerPeticion(q)
    \/ \E n \in Node : PasoNodoD(n) \/ CaerD(n)
    \/ VencimientosD
    \/ \E s \in Slot, p \in Payload : VenceProcessing(s, p)
    \/ \E c \in Caso : VenceLockPeticion(c)
    \/ \E i \in Id : VencerD(i) \/ ReencolarOperador(i)
    \/ PasoReplay
    \/ \E r \in replay : AbandonarReplay(r)

SpecD == InitD /\ [][NextD]_todo

\* The event loop goes on with every request that has arrived, and what nobody
\* renews expires.
EquidadD ==
    /\ \A q \in Peticion : WF_todo(PasoPeticion(q))
    /\ \A s \in Slot, p \in Payload : WF_todo(VenceProcessing(s, p))
    /\ \A c \in Caso : WF_todo(VenceLockPeticion(c))

SpecDVivo == SpecD /\ EquidadD

-----------------------------------------------------------------------------
(* Properties                                                               *)

\* Type correctness of the requests, the replays and what the CRM is told, on top
\* of that of the workers.
TypeOKD ==
    /\ TypeOKR
    /\ pf \in [Peticion -> FaseP]
    /\ ps \in [Peticion -> Slot \cup {Nadie}]
    /\ pp \in [Peticion -> Payload \cup {SinRespuesta}]
    /\ pid \in [Peticion -> 0..MaxId]
    /\ ph \in [Peticion -> Payload \cup {SinRespuesta}]
    /\ candados \subseteq Peticion
    /\ resp \in [Peticion -> Respuesta]
    /\ orden \in [Peticion -> Nat]
    /\ replay \subseteq [id : Id, leido : (Slot \X Payload) \cup {SinItem}]

EnSfc(c) ==
    {q \in Peticion : pf[q] = "sfc" /\ CasoDe[ps[q]] = c} \cup
    {n \in Node : fase[n] = "sfc" /\ caso[n] = c}

\* "nunca dejar que dos operaciones del mismo caso compitan por la SFC en
\* paralelo" (FLUJO_MOMENTOS.md:796): with leases that hold, of all requests and
\* workers at most one is calling the SFC for a case.
ExclusionDespacho == \A c \in Caso : Cardinality(EnSfc(c)) <= 1

EnCola(s, p) == \E i \in Id : Existe(i) /\ item[i].slot = s /\ item[i].payload = p

\* What the CRM is told is true.  200 means that the SFC has taken this content,
\* also when the answer comes from a record that others wrote.  202 "queued"
\* means that the obligation cannot vanish: the content was sent or is in the
\* queue (or its DLQ), or another content of the same obligation took its place.
RespuestaHonesta ==
    \A q \in Peticion :
        /\ resp[q] = "ok" => pp[q] \in enviados[ps[q]]
        /\ resp[q] \in {"encolado", "ya_encolado"} =>
              \E p \in Payload : p \in enviados[ps[q]] \/ EnCola(ps[q], p)

\* As long as Redis answers and leases hold, a PROCESSING record always has a
\* request that will replace or delete it, unless that request died: no path of
\* the handler leaves a retry of the CRM facing "ya esta siendo procesada" for an
\* operation that nobody processes.
ProcessingTieneDueno ==
    \A s \in Slot, p \in Payload : idem[s][p].status = "PROCESSING" =>
        \E q \in Peticion : ps[q] = s /\ pp[q] = p /\ (EnVuelo(q) \/ resp[q] = "cortada")

\* A PROCESSING record and the lock a request took are given back in the end, also
\* when the process dies or Redis loses the command that would do it.
ProcessingSeLibera ==
    []<>(/\ \A s \in Slot, p \in Payload : idem[s][p].status # "PROCESSING"
         /\ \A c \in Caso : casoLock[c] \notin Peticion)

LlegoAntes(s, p, q) ==
    \E r \in Peticion : ps[r] = s /\ pp[r] = p /\ orden[r] < orden[q]

\* "si hay algo en ese slot, es por definicion contenido superado de la misma
\* obligacion regulatoria" (cancelar_pendiente_por_smart_code): what a successful
\* dispatch cancels is its own content or one that came before it.
CancelaSoloSuperado ==
    [][\A q \in Peticion :
          /\ pf[q] = "cancelar" /\ pf'[q] # "cancelar"
          /\ Existe(pid[q]) /\ ~Existe(pid[q])'
          => ph[q] = pp[q] \/ LlegoAntes(ps[q], ph[q], q)]_todo
=============================================================================
