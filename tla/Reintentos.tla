----------------------------- MODULE Reintentos -----------------------------
(***************************************************************************)
(* The retry cycle of the scheduler (app/workers/scheduler.py):            *)
(* reintentar_despachos_pendientes_job on every worker process, over the   *)
(* store of ColaRedis.                                                     *)
(*                                                                         *)
(* A step ends at every await that reaches Redis, the SFC or the CRM.      *)
(* What fails is a parameter:                                              *)
(*   "redis"  a command fails, before or after it took effect;             *)
(*   "lease"  a lock or a claim expires while its owner still works;       *)
(*   "caida"  a worker process dies (SIGKILL, OOM) at any point.           *)
(* The API is only the environment here: requests enqueue, cancel, and     *)
(* hold the lock of a case.                                                *)
(***************************************************************************)
EXTENDS ColaRedis

CONSTANTS
    Node,           \* worker processes
    Peticion,       \* synchronous dispatch requests of the API
    Caso,           \* Smart_Code__c values
    CasoDe,         \* the case of an obligation
    UmbralInfra,    \* UMBRAL_FALLAS_INFRA_CONSECUTIVAS_PARA_DIFERIR
    Fallos          \* kinds of failure that happen

ASSUME ReintentosAssumption ==
    /\ CasoDe \in [Slot -> Caso]
    /\ UmbralInfra \in Nat \ {0}
    /\ Fallos \subseteq {"redis", "lease", "caida", "caida_api"}
    /\ Nadie \notin Node \cup Peticion \cup Caso
    /\ Node \cap Peticion = {}

VARIABLES
    fase,           \* where each node is in its cycle
    wid,            \* worker_id of the cycle
    porLeer,        \* ids of pending_zset still to be read by the lister
    lote,           \* listed items that remain: id and version
    actual,         \* id of the item being worked on, 0 = none
    copia,          \* the item as the claim returned it
    caso,           \* case whose lock despacho_lock believes to hold
    motivo,         \* how the current item went
    fallas,         \* fallas_infra_consecutivas
    jobLock,        \* {sfc:scheduler}:lock:retry_job
    casoLock,       \* DESPACHO_LOCK_PREFIX:lock:{smart_code}
    enviados,       \* contents the SFC has accepted, by obligation
    confirmados,    \* <<id, version>> the SFC has confirmed to a worker
    perdidos        \* those whose confirmation was lost before SFC_DONE was written

nodoVars == <<fase, wid, porLeer, lote, actual, copia, caso,
             motivo, fallas>>
lockVars == <<jobLock, casoLock>>
sfcVars  == <<enviados, confirmados, perdidos>>
vars == <<colaVars, nodoVars, lockVars, sfcVars>>

Fase == {"libre", "inicio", "listar", "lote", "reclamar", "sfc", "persistir", "crm",
         "cerrar", "fallar", "liberar", "soltar", "diferir", "fin"}
Motivo == {"omitido", "normal", "negocio", "infra", "crm", "crm_infra"}

InitR ==
    /\ Init
    /\ fase = [n \in Node |-> "libre"]
    /\ wid = [n \in Node |-> Nadie]
    /\ porLeer = [n \in Node |-> {}]
    /\ lote = [n \in Node |-> {}]
    /\ actual = [n \in Node |-> 0]
    /\ copia = [n \in Node |-> SinItem]
    /\ caso = [n \in Node |-> Nadie]
    /\ motivo = [n \in Node |-> "omitido"]
    /\ fallas = [n \in Node |-> 0]
    /\ jobLock = Nadie
    /\ casoLock = [c \in Caso |-> Nadie]
    /\ enviados = [s \in Slot |-> {}]
    /\ confirmados = {}
    /\ perdidos = {}

RedisFalla == "redis" \in Fallos

Fresco(w) == w \notin {wid[n] : n \in Node} \cup {claim[i] : i \in Id}

Ir(n, f) == fase' = [fase EXCEPT ![n] = f]

-----------------------------------------------------------------------------
(* The cycle up to the list of what to retry                                *)

\* job_lock.acquire() and a new worker_id.  A uuid that nobody holds or
\* remembers is as good as a fresh one.  A node that does not get the lock
\* does nothing until the next interval.
IniciarCiclo(n) ==
    /\ fase[n] = "libre"
    /\ jobLock = Nadie
    /\ jobLock' = n
    /\ \E w \in WorkerId : Fresco(w) /\ wid' = [wid EXCEPT ![n] = w]
    /\ Ir(n, "inicio")
    /\ UNCHANGED <<colaVars, porLeer, lote, actual, copia, caso, motivo, fallas,
                   casoLock, sfcVars>>

\* The SET NX took effect but its answer was lost: the lock waits for its lease.
JobLockPerdido(n) ==
    /\ RedisFalla
    /\ fase[n] = "libre"
    /\ jobLock = Nadie
    /\ jobLock' = n
    /\ UNCHANGED <<colaVars, nodoVars, casoLock, sfcVars>>

\* obtener_pendientes_para_reintento: ZRANGEBYSCORE up to now ...
ListarVencidos(n) ==
    /\ fase[n] = "inicio"
    /\ porLeer' = [porLeer EXCEPT ![n] = {i \in Id : zset[i] = "vencido"}]
    /\ Ir(n, IF porLeer'[n] = {} THEN "fin" ELSE "listar")
    /\ UNCHANGED <<colaVars, wid, lote, actual, copia, caso, motivo, fallas,
                   lockVars, sfcVars>>

\* ... then each item is read on its own and kept if it still is pending and
\* has attempts left.
LeerPendiente(n, i) ==
    /\ fase[n] = "listar"
    /\ i \in porLeer[n]
    /\ porLeer' = [porLeer EXCEPT ![n] = @ \ {i}]
    /\ Ir(n, IF porLeer[n] = {i} THEN "lote" ELSE "listar")
    /\ lote' = IF Vivo(i) /\ item[i].intentos < MaxIntentos
                 THEN [lote EXCEPT ![n] = @ \cup
                         {[id |-> i, version |-> item[i].version, slot |-> item[i].slot]}]
                 ELSE lote
    /\ UNCHANGED <<colaVars, wid, actual, copia, caso, motivo, fallas,
                   lockVars, sfcVars>>

\* Redis fails while the list is read: the cycle returns, nothing was claimed.
ErrorListado(n) ==
    /\ RedisFalla
    /\ fase[n] \in {"inicio", "listar"}
    /\ Ir(n, "fin")
    /\ UNCHANGED <<colaVars, wid, porLeer, lote, actual, copia, caso, motivo, fallas,
                   lockVars, sfcVars>>

-----------------------------------------------------------------------------
(* One item: _reclamar_y_procesar_si_lock_disponible                        *)

LockSinNx(c) == TRUE    \* mutant
LockLibre(c) == casoLock[c] = Nadie

\* despacho_lock.acquire() for the case of the next listed item.
TomarCaso(n, r) ==
    /\ fase[n] = "lote"
    /\ r \in lote[n]
    /\ LockLibre(CasoDe[r.slot])
    /\ casoLock' = [casoLock EXCEPT ![CasoDe[r.slot]] = n]
    /\ caso' = [caso EXCEPT ![n] = CasoDe[r.slot]]
    /\ actual' = [actual EXCEPT ![n] = r.id]
    /\ lote' = [lote EXCEPT ![n] = @ \ {r}]
    /\ motivo' = [motivo EXCEPT ![n] = "omitido"]
    /\ Ir(n, "reclamar")
    /\ UNCHANGED <<colaVars, wid, porLeer, copia, fallas, jobLock, sfcVars>>

\* The lock is taken, or Redis does not say (it may even have set it): the item
\* is left unclaimed.
SaltarItem(n, r) ==
    /\ fase[n] = "lote"
    /\ r \in lote[n]
    /\ \/ (~LockLibre(CasoDe[r.slot]) \/ RedisFalla) /\ UNCHANGED casoLock
       \/ /\ RedisFalla /\ LockLibre(CasoDe[r.slot])
          /\ casoLock' = [casoLock EXCEPT ![CasoDe[r.slot]] = n]
    /\ lote' = [lote EXCEPT ![n] = @ \ {r}]
    /\ UNCHANGED <<colaVars, fase, wid, porLeer, actual, copia, caso, motivo, fallas,
                   jobLock, sfcVars>>

SiempreSfc(x) == "sfc"    \* mutant
FaseTrasClaim(x) == IF x.sfc_completado THEN "crm" ELSE "sfc"

\* The claim returns the item as it is in Redis now, not as it was listed.
\* sfc_completado decides whether PASO 1 is needed.
ReclamarItem(n) ==
    LET i == actual[n] IN
    /\ fase[n] = "reclamar"
    /\ Reclamar(i, wid[n])
    /\ copia' = [copia EXCEPT ![n] = item'[i]]
    /\ motivo' = [motivo EXCEPT ![n] = "normal"]
    /\ Ir(n, FaseTrasClaim(item[i]))
    /\ UNCHANGED <<wid, porLeer, lote, actual, caso, fallas, lockVars, sfcVars>>

\* Somebody else has it, it is no longer pending, or the answer of the script
\* was lost (the claim then waits for its lease).
NoReclamado(n) ==
    LET i == actual[n] IN
    /\ fase[n] = "reclamar"
    /\ \/ ~Reclamable(i) /\ UNCHANGED colaVars
       \/ RedisFalla /\ (UNCHANGED colaVars \/ Reclamar(i, wid[n]))
    /\ Ir(n, "soltar")
    /\ UNCHANGED <<wid, porLeer, lote, actual, copia, caso, motivo, fallas, lockVars,
                   sfcVars>>

-----------------------------------------------------------------------------
(* PASO 1: _ejecutar_paso_sfc                                               *)

\* The SFC accepts the claimed content.
Aceptar(n) ==
    LET s == copia[n].slot
        p == copia[n].payload IN
    enviados' = [enviados EXCEPT ![s] = @ \cup {p}]

EnviarSfcOk(n) ==
    /\ fase[n] = "sfc"
    /\ Aceptar(n)
    /\ confirmados' = confirmados \cup {<<actual[n], copia[n].version>>}
    /\ Ir(n, "persistir")
    /\ UNCHANGED <<colaVars, wid, porLeer, lote, actual, copia, caso, motivo, fallas,
                   lockVars, perdidos>>

\* The dispatch raises: a rejection, an outage, or a timeout after which the
\* SFC may have taken the content.
EnviarSfcFalla(n, m) ==
    /\ fase[n] = "sfc"
    /\ m \in {"negocio", "infra"}
    /\ motivo' = [motivo EXCEPT ![n] = m]
    /\ UNCHANGED enviados \/ (m = "infra" /\ Aceptar(n))
    /\ Ir(n, "fallar")
    /\ UNCHANGED <<colaVars, wid, porLeer, lote, actual, copia, caso, fallas, lockVars,
                   confirmados, perdidos>>

\* What the three scripts that settle a claim answer when they refuse.
Rechazado(i, w, v) ==
    \/ RechazarTransicion(i, w, v)
    \/ ~EsDueno(i, w) /\ UNCHANGED colaVars

PierdeConfirmacion(n) ==
    perdidos' = IF fase[n] = "persistir"
                  THEN perdidos \cup {<<actual[n], copia[n].version>>}
                  ELSE perdidos

\* marcar_sfc_completado: SFC_DONE and the COMPLETED idempotency record in one
\* script, retried.  If Redis keeps failing an alert is sent and the item is
\* left as it is; the last failed try may have taken effect.
PersistirSfc(n) ==
    LET i == actual[n]
        v == copia[n].version
        Marcar == MarcarSfcCompletado(i, wid[n], v, copia[n].payload) IN
    /\ fase[n] = "persistir"
    /\ \/ Marcar /\ Ir(n, "crm") /\ UNCHANGED perdidos
       \/ Rechazado(i, wid[n], v) /\ Ir(n, "soltar") /\ UNCHANGED perdidos
       \/ RedisFalla /\ Marcar /\ Ir(n, "soltar") /\ UNCHANGED perdidos
       \/ RedisFalla /\ UNCHANGED colaVars /\ Ir(n, "soltar") /\ PierdeConfirmacion(n)
    /\ UNCHANGED <<wid, porLeer, lote, actual, copia, caso, motivo, fallas, lockVars,
                   enviados, confirmados>>

-----------------------------------------------------------------------------
(* PASO 2: _ejecutar_paso_notificacion_crm                                  *)

NotificarCrmOk(n) ==
    /\ fase[n] = "crm"
    /\ Ir(n, "cerrar")
    /\ UNCHANGED <<colaVars, wid, porLeer, lote, actual, copia, caso, motivo, fallas,
                   lockVars, sfcVars>>

\* Only an outage of the webhook spares the attempt.
NotificarCrmFalla(n, m) ==
    /\ fase[n] = "crm"
    /\ m \in {"crm", "crm_infra"}
    /\ motivo' = [motivo EXCEPT ![n] = m]
    /\ Ir(n, "fallar")
    /\ UNCHANGED <<colaVars, wid, porLeer, lote, actual, copia, caso, fallas, lockVars,
                   sfcVars>>

\* marcar_exitoso; when Redis fails an alert is sent and nothing else is done.
CerrarItem(n) ==
    LET i == actual[n]
        v == copia[n].version IN
    /\ fase[n] = "cerrar"
    /\ \/ MarcarExitoso(i, wid[n], v)
       \/ Rechazado(i, wid[n], v)
       \/ RedisFalla /\ UNCHANGED colaVars
    /\ Ir(n, "soltar")
    /\ UNCHANGED <<wid, porLeer, lote, actual, copia, caso, motivo, fallas, lockVars,
                   sfcVars>>

-----------------------------------------------------------------------------
(* registrar_fallo: what is definitive is computed from the claimed copy    *)

Consume(n) == motivo[n] # "crm_infra"
EsDefinitivoTarde(n) == Consume(n) /\ copia[n].intentos + 1 > MaxIntentos    \* mutant
EsDefinitivo(n) == Consume(n) /\ copia[n].intentos + 1 >= MaxIntentos

FalloConLaCopia(n) ==    \* mutant
    LET i == actual[n] IN
    /\ item' = [item EXCEPT ![i] = [copia[n] EXCEPT !.estado = "PENDING", !.intentos = @ + 1]]
    /\ Programar(i, "espera")
    /\ claim' = [claim EXCEPT ![i] = Nadie]
    /\ UNCHANGED <<counter, index, pendientes, completados, fallidos, creados, idem, purga>>

Fallo(n) ==
    LET i == actual[n]
        v == copia[n].version IN
    IF EsDefinitivo(n) THEN RegistrarFalloDefinitivo(i, wid[n], v)
                       ELSE RegistrarFalloReintentable(i, wid[n], v, Consume(n))

\* After a definitive failure the e-mail is awaited and then the idempotency
\* record deleted; if the answer of the script is lost, neither happens.
FallarItem(n) ==
    /\ fase[n] = "fallar"
    /\ \/ Fallo(n) /\ Ir(n, IF EsDefinitivo(n) THEN "liberar" ELSE "soltar")
       \/ Rechazado(actual[n], wid[n], copia[n].version) /\ Ir(n, "soltar")
       \/ RedisFalla /\ (Fallo(n) \/ UNCHANGED colaVars) /\ Ir(n, "soltar")
    /\ UNCHANGED <<wid, porLeer, lote, actual, copia, caso, motivo, fallas, lockVars,
                   sfcVars>>

\* liberar_por_fallo_definitivo: an unconditional DEL of the record.
LiberarIdem(n) ==
    /\ fase[n] = "liberar"
    /\ \/ idem' = [idem EXCEPT ![copia[n].slot][copia[n].payload] = IdemLibre]
       \/ RedisFalla /\ UNCHANGED idem
    /\ Ir(n, "soltar")
    /\ UNCHANGED <<counter, item, index, pendientes, completados, fallidos, zset,
                   creados, claim, purga, wid, porLeer, lote, actual, copia, caso,
                   motivo, fallas, lockVars, sfcVars>>

-----------------------------------------------------------------------------
(* The end of an item and of the cycle                                      *)

\* fallas_infra_consecutivas: an item that was not processed leaves it alone,
\* any other that was not an outage of the SFC resets it.
FallasTras(n) ==
    CASE motivo[n] = "infra"   -> fallas[n] + 1
      [] motivo[n] = "omitido" -> fallas[n]
      [] OTHER                 -> 0

\* despacho_lock.release() (compare and delete), then the counter.
SoltarCaso(n) ==
    /\ fase[n] = "soltar"
    /\ \/ casoLock' = [c \in Caso |-> IF c = caso[n] /\ casoLock[c] = n
                                        THEN Nadie ELSE casoLock[c]]
       \/ RedisFalla /\ UNCHANGED casoLock
    /\ caso' = [caso EXCEPT ![n] = Nadie]
    /\ actual' = [actual EXCEPT ![n] = 0]
    /\ copia' = [copia EXCEPT ![n] = SinItem]
    /\ motivo' = [motivo EXCEPT ![n] = "omitido"]
    /\ fallas' = [fallas EXCEPT ![n] = FallasTras(n)]
    /\ Ir(n, IF FallasTras(n) >= UmbralInfra THEN "diferir" ELSE "lote")
    /\ UNCHANGED <<colaVars, wid, porLeer, lote, jobLock, sfcVars>>

\* _diferir_resto_del_lote, one script per item.
DiferirUno(n, r) ==
    /\ fase[n] = "diferir"
    /\ r \in lote[n]
    /\ \/ Diferir(r.id, r.version)
       \/ (~VersionVigente(r.id, r.version) \/ RedisFalla) /\ UNCHANGED colaVars
    /\ lote' = [lote EXCEPT ![n] = @ \ {r}]
    /\ UNCHANGED <<fase, wid, porLeer, actual, copia, caso, motivo, fallas, lockVars,
                   sfcVars>>

LimpiarNodo(n) ==
    /\ Ir(n, "libre")
    /\ wid' = [wid EXCEPT ![n] = Nadie]
    /\ porLeer' = [porLeer EXCEPT ![n] = {}]
    /\ lote' = [lote EXCEPT ![n] = {}]
    /\ actual' = [actual EXCEPT ![n] = 0]
    /\ copia' = [copia EXCEPT ![n] = SinItem]
    /\ caso' = [caso EXCEPT ![n] = Nadie]
    /\ motivo' = [motivo EXCEPT ![n] = "omitido"]
    /\ fallas' = [fallas EXCEPT ![n] = 0]

\* The finally of the job: job_lock.release().
TerminarCiclo(n) ==
    /\ fase[n] = "fin" \/ (fase[n] \in {"lote", "diferir"} /\ lote[n] = {})
    /\ \/ jobLock' = IF jobLock = n THEN Nadie ELSE jobLock
       \/ RedisFalla /\ UNCHANGED jobLock
    /\ LimpiarNodo(n)
    /\ UNCHANGED <<colaVars, casoLock, sfcVars>>

\* The process dies: its locks and its claim stay in Redis until they expire.
Caer(n) ==
    /\ "caida" \in Fallos
    /\ fase[n] # "libre"
    /\ PierdeConfirmacion(n)
    /\ LimpiarNodo(n)
    /\ UNCHANGED <<colaVars, lockVars, enviados, confirmados>>

PasoNodo(n) ==
    \/ IniciarCiclo(n) \/ JobLockPerdido(n) \/ ListarVencidos(n) \/ (\E i \in Id : LeerPendiente(n, i))
    \/ ErrorListado(n)
    \/ \E r \in lote[n] : TomarCaso(n, r) \/ SaltarItem(n, r) \/ DiferirUno(n, r)
    \/ ReclamarItem(n) \/ NoReclamado(n)
    \/ EnviarSfcOk(n) \/ (\E m \in Motivo : EnviarSfcFalla(n, m)) \/ PersistirSfc(n)
    \/ NotificarCrmOk(n) \/ (\E m \in Motivo : NotificarCrmFalla(n, m)) \/ CerrarItem(n)
    \/ FallarItem(n) \/ LiberarIdem(n)
    \/ SoltarCaso(n) \/ TerminarCiclo(n)

-----------------------------------------------------------------------------
(* Leases.  A heartbeat keeps a lock or a claim alive while its owner works; *)
(* with "lease" in Fallos it may fail to (a stalled event loop, Redis).      *)

LeaseFragil == "lease" \in Fallos

VenceJobLock ==
    /\ jobLock # Nadie
    /\ LeaseFragil \/ fase[jobLock] = "libre"
    /\ jobLock' = Nadie
    /\ UNCHANGED <<colaVars, nodoVars, casoLock, sfcVars>>

VenceCasoLock(c) ==
    /\ casoLock[c] \in Node
    /\ LeaseFragil \/ caso[casoLock[c]] # c
    /\ casoLock' = [casoLock EXCEPT ![c] = Nadie]
    /\ UNCHANGED <<colaVars, nodoVars, jobLock, sfcVars>>

\* QueueLockWatchdog renews the claim from the answer of the claim script to
\* the end of the item.
VenceClaim(i) ==
    /\ LeaseFragil \/ ~\E n \in Node : actual[n] = i /\ wid[n] = claim[i] /\ copia[n] # SinItem
    /\ ExpirarClaim(i)
    /\ UNCHANGED <<nodoVars, lockVars, sfcVars>>

Vencimientos ==
    \/ VenceJobLock
    \/ \E c \in Caso : VenceCasoLock(c)
    \/ \E i \in Id : VenceClaim(i)

-----------------------------------------------------------------------------
(* The environment: requests of the API, the operator, time.  The nightly   *)
(* purge only touches settled items and is left to ColaRedis.               *)

TomarCasoPeticion(q, c) ==
    /\ LockLibre(c)
    /\ casoLock' = [casoLock EXCEPT ![c] = q]
    /\ UNCHANGED <<colaVars, nodoVars, jobLock, sfcVars>>

SoltarCasoPeticion(q, c) ==
    /\ casoLock[c] = q
    /\ casoLock' = [casoLock EXCEPT ![c] = Nadie]
    /\ UNCHANGED <<colaVars, nodoVars, jobLock, sfcVars>>

Ambiente ==
    \/ /\ \/ \E s \in Slot, p \in Payload : Encolar(s, p)
          \/ \E s \in Slot, i \in Id, p \in Payload : Cancelar(s, i, p)
          \/ \E i \in Id : Reencolar(i) \/ Vencer(i)
       /\ UNCHANGED <<nodoVars, lockVars, sfcVars>>
    \/ \E q \in Peticion, c \in Caso : TomarCasoPeticion(q, c) \/ SoltarCasoPeticion(q, c)

NextR ==
    \/ \E n \in Node : PasoNodo(n) \/ Caer(n)
    \/ Vencimientos
    \/ Ambiente

SpecR == InitR /\ [][NextR]_vars

\* APScheduler starts a cycle at every interval and the event loop goes on with
\* it; retry dates pass and orphaned leases expire; requests end, and the CRM does
\* not send events of a case for ever (each one could hold its lock just when the
\* cycle asks).  The webhook answers now and then, and processes do not die for
\* ever.  Nothing is assumed of the SFC.
Equidad ==
    /\ \A n \in Node :
          /\ WF_vars(PasoNodo(n))
          /\ SF_vars(NotificarCrmOk(n))
    /\ \A i \in Id :
          /\ WF_vars(Vencer(i) /\ UNCHANGED <<nodoVars, lockVars, sfcVars>>)
          /\ WF_vars(VenceClaim(i))
    /\ WF_vars(VenceJobLock)
    /\ \A c \in Caso :
          /\ WF_vars(VenceCasoLock(c))
          /\ \A q \in Peticion : WF_vars(SoltarCasoPeticion(q, c))
    /\ <>[][\A n \in Node : ~Caer(n)]_vars
    /\ <>[][\A q \in Peticion, c \in Caso : ~TomarCasoPeticion(q, c)]_vars

SpecVivo == SpecR /\ Equidad

-----------------------------------------------------------------------------
(* Properties                                                               *)

\* Type correctness: a node works on a copy of an item the queue can hold, and
\* every loss of a confirmation is about a confirmed version.
TypeOKR ==
    /\ TypeOK
    /\ fase \in [Node -> Fase]
    /\ wid \in [Node -> WorkerId \cup {Nadie}]
    /\ porLeer \in [Node -> SUBSET Id]
    /\ lote \in [Node -> SUBSET [id : Id, version : Nat, slot : Slot]]
    /\ actual \in [Node -> 0..MaxId]
    /\ copia \in [Node -> Item \cup {SinItem}]
    /\ caso \in [Node -> Caso \cup {Nadie}]
    /\ motivo \in [Node -> Motivo]
    /\ fallas \in [Node -> Nat]
    /\ jobLock \in Node \cup {Nadie}
    /\ casoLock \in [Caso -> Node \cup Peticion \cup {Nadie}]
    /\ enviados \in [Slot -> SUBSET Payload]
    /\ confirmados \subseteq Id \X Nat
    /\ perdidos \subseteq confirmados

Trabajando(n) == copia[n] # SinItem

\* "si la validacion de version acepta la escritura, el estado en Redis es
\* EXACTAMENTE el que este worker reclamo" (registrar_fallo): as long as a node
\* would be authorised, content and attempts in Redis are those of its copy, so
\* what Python computes from the copy is right.
CopiaExacta ==
    \A n \in Node :
        /\ Trabajando(n) /\ Autorizado(actual[n], wid[n], copia[n].version)
        => LET x == item[actual[n]] IN
              /\ x.slot = copia[n].slot /\ x.payload = copia[n].payload
              /\ x.intentos = copia[n].intentos
              /\ copia[n].sfc_completado => x.sfc_completado

\* The lister drops items without attempts left: no live pending item is ever
\* one of them, or it would wait for ever.
PendienteReintentable ==
    \A i \in Id : Vivo(i) => item[i].intentos < MaxIntentos

\* What the program reports as received by the SFC was received: sfc_completado
\* is about THIS content (an overwrite never inherits it, a late worker never
\* writes it on newer content), and so is a COMPLETED idempotency record, which
\* answers "ya procesada" to the CRM.
ConfirmadoFueEnviado ==
    /\ \A i \in Id : Existe(i) /\ (item[i].sfc_completado \/ item[i].estado = "COMPLETED") =>
          /\ item[i].sfc_response = item[i].payload
          /\ item[i].payload \in enviados[item[i].slot]
    /\ \A s \in Slot, p \in Payload : idem[s][p].status = "COMPLETED" => p \in enviados[s]

\* With leases that hold, two processes never work on the same case: neither
\* two workers, nor a worker and a synchronous request.
ExclusionPorCaso ==
    \A n \in Node : caso[n] # Nadie => casoLock[caso[n]] = n

EnviaOtraVez(n) ==
    /\ fase[n] = "sfc" /\ fase'[n] = "persistir"
    /\ <<actual[n], copia[n].version>> \in confirmados \ perdidos

\* With leases that hold, a version of an item is sent again after the SFC has
\* confirmed it only if the confirmation was lost before it could be written:
\* once SFC_DONE is in Redis, failures of the webhook, crashes and retries never
\* resend it.
EntregaUnica ==
    [][\A n \in Node : ~EnviaOtraVez(n)]_vars

\* Every pending item is settled in the end, delivered, cancelled or in the DLQ:
\* it is not starved by deferrals, by requests that hold the lock of its case,
\* by workers that died with its claim or with a lock, nor by running out of
\* attempts while still pending.
TodoPendienteSeResuelve == \A i \in Id : Vivo(i) ~> ~Vivo(i)

=============================================================================
