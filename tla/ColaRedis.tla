------------------------------ MODULE ColaRedis ------------------------------
(***************************************************************************)
(* The contingency queue kept in Redis (app/services/queue_service.py).    *)
(*                                                                         *)
(* Every Lua script of the service is atomic, so each one is an action.    *)
(* The methods that need several round trips (the purge) are split where   *)
(* another client can run in between.  The scripts are offered to any      *)
(* caller with any arguments: what is stated here does not depend on how   *)
(* the API and the workers use them.                                       *)
(*                                                                         *)
(* A Slot is the index key "{smart_code}:{operacion}": one regulatory      *)
(* obligation.  A Payload stands for the payload and its hash.  Retry      *)
(* dates are kept only as "still in the future" or "due".                  *)
(***************************************************************************)
EXTENDS Naturals

CONSTANTS
    Slot,           \* obligations (smart_code, operacion)
    Payload,        \* contents of an obligation
    WorkerId,       \* the worker_id of a retry cycle (a fresh uuid in the code)
    MaxIntentos,    \* settings.QUEUE_MAX_RETRIES
    MaxId,          \* bound: ids handed out by INCR counter
    MaxVersion,     \* bound: versions of one item
    SinItem,        \* GET item:{id} answers nil
    SinRespuesta,   \* sfc_response = nil
    Nadie           \* GET claim:{id} answers nil

Id == 1..MaxId

\* The three values of SmartStatus that a pending item goes through, and the
\* two that settle it.
EstadoActivo == {"PENDING", "PROCESSING", "SFC_DONE"}
Estado == EstadoActivo \cup {"COMPLETED", "FAILED_FINAL"}

Item == [slot : Slot, payload : Payload, estado : Estado,
         sfc_completado : BOOLEAN, sfc_response : Payload \cup {SinRespuesta},
         intentos : Nat, version : Nat]

\* Record of the idempotency store for (slot, payload): absent ("LIBRE") or
\* one of its three statuses, with the queue item a QUEUED record points to.
StatusIdem == {"LIBRE", "PROCESSING", "QUEUED", "COMPLETED"}
Idem == [status : StatusIdem, item : 0..MaxId]
IdemLibre == [status |-> "LIBRE", item |-> 0]
IdemConEstadoDeRespuesta == [status |-> "success", item |-> 0]    \* mutant
IdemCompletado == [status |-> "COMPLETED", item |-> 0]

\* QUEUE_MAX_RETRIES = 1 would make every new item (intentos = 1) invisible to
\* the lister: the setting has no lower bound in config.py, the model needs one.
ASSUME ConstantesAssumption ==
    /\ MaxIntentos \in Nat /\ MaxIntentos >= 2
    /\ MaxId \in Nat
    /\ MaxVersion \in Nat \ {0}
    /\ SinItem \notin Item
    /\ SinRespuesta \notin Payload
    /\ Nadie \notin WorkerId

VARIABLES
    counter,        \* {sfc:queue}:counter
    item,           \* {sfc:queue}:item:{id}
    index,          \* {sfc:queue}:index:{smart_code}:{operacion}, 0 = no key
    pendientes,     \* {sfc:queue}:status:PENDIENTE
    completados,    \* {sfc:queue}:status:EXITOSO
    fallidos,       \* {sfc:queue}:status:FALLIDO_DEFINITIVO
    zset,           \* pending_zset: "fuera", or its date "espera"/"vencido"
    creados,        \* created_zset
    claim,          \* {sfc:queue}:claim:{id}, with its lease
    idem,           \* idempotency records
    purga           \* local variables of _purgar_estado

colaVars == <<counter, item, index, pendientes, completados, fallidos,
              zset, creados, claim, idem, purga>>

PurgaInactiva == [conj |-> "ninguno", borrar |-> {}, incons |-> {}]

Init ==
    /\ counter = 0
    /\ item = [i \in Id |-> SinItem]
    /\ index = [s \in Slot |-> 0]
    /\ pendientes = {} /\ completados = {} /\ fallidos = {}
    /\ zset = [i \in Id |-> "fuera"]
    /\ creados = {}
    /\ claim = [i \in Id |-> Nadie]
    /\ idem = [s \in Slot |-> [p \in Payload |-> IdemLibre]]
    /\ purga = PurgaInactiva

Existe(i) == item[i] # SinItem

\* The item the lister can pick: its id is in the pending set and its record
\* is in Redis.
Vivo(i) == i \in pendientes /\ Existe(i)

\* ZADD pending_zset: when the item is to be retried.
NoProgramar(i, cuando) == UNCHANGED zset    \* mutant
Programar(i, cuando) == zset' = [zset EXCEPT ![i] = cuando]

MismaVersion(i) == item[i].version    \* mutant
VersionSiguiente(i) == item[i].version + 1

-----------------------------------------------------------------------------
(* encolar_despacho: ENQUEUE_LUA_SCRIPT                                     *)

\* Content that was never tried: nothing is inherited from what it replaces.
ItemEncolado(s, p, v) ==
    [slot |-> s, payload |-> p, estado |-> "PENDING",
     sfc_completado |-> FALSE, sfc_response |-> SinRespuesta,
     intentos |-> 1, version |-> v]

SlotOcupado(s) == index[s] # 0 /\ Vivo(index[s])

\* A newer event of an obligation that is still pending replaces the content
\* in place.  The claim of a worker that holds the old content is not touched.
EncolarSobrescribe(s, p) ==
    LET i == index[s] IN
    /\ SlotOcupado(s)
    /\ item[i].version < MaxVersion
    /\ item' = [item EXCEPT ![i] = ItemEncolado(@.slot, p, VersionSiguiente(i))]
    /\ Programar(i, "espera")
    /\ UNCHANGED <<counter, index, pendientes, completados, fallidos, creados,
                   claim, idem, purga>>

EncolarNuevo(s, p) ==
    LET i == counter + 1 IN
    /\ ~SlotOcupado(s)
    /\ counter < MaxId
    /\ counter' = i
    /\ item' = [item EXCEPT ![i] = ItemEncolado(s, p, 1)]
    /\ pendientes' = pendientes \cup {i}
    /\ Programar(i, "espera")
    /\ creados' = creados \cup {i}
    /\ index' = [index EXCEPT ![s] = i]
    /\ UNCHANGED <<completados, fallidos, claim, idem, purga>>

Encolar(s, p) == EncolarSobrescribe(s, p) \/ EncolarNuevo(s, p)

-----------------------------------------------------------------------------
(* reclamar_item_para_procesamiento: CLAIM_ITEM_LUA_SCRIPT                  *)

Reclamable(i) == Vivo(i) /\ claim[i] = Nadie

Reclamar(i, w) ==
    /\ Reclamable(i)
    /\ claim' = [claim EXCEPT ![i] = w]
    /\ item' = [item EXCEPT ![i].estado = "PROCESSING"]
    /\ UNCHANGED <<counter, index, pendientes, completados, fallidos, zset,
                   creados, idem, purga>>

\* The PX lease of a claim runs out: the watchdog stopped, was too slow, or the
\* process died.
ExpirarClaim(i) ==
    /\ claim[i] # Nadie
    /\ claim' = [claim EXCEPT ![i] = Nadie]
    /\ UNCHANGED <<counter, item, index, pendientes, completados, fallidos, zset,
                   creados, idem, purga>>

-----------------------------------------------------------------------------
(* The three scripts that settle a claim start with the same three checks:  *)
(* ownership ("not_owner", nothing is written), existence and version       *)
(* ("item_not_found" / "version_mismatch", only the claim is deleted).      *)

DuenoCualquiera(i, w) == TRUE    \* mutant
EsDueno(i, w) == claim[i] = w

ExisteSinVersion(i, v) == Existe(i)    \* mutant
VersionVigente(i, v) == Existe(i) /\ item[i].version = v

Autorizado(i, w, v) == EsDueno(i, w) /\ VersionVigente(i, v)

RechazarTransicion(i, w, v) ==
    /\ EsDueno(i, w)
    /\ ~VersionVigente(i, v)
    /\ claim' = [claim EXCEPT ![i] = Nadie]
    /\ UNCHANGED <<counter, item, index, pendientes, completados, fallidos, zset,
                   creados, idem, purga>>

\* marcar_sfc_completado: MARK_SFC_DONE_LUA_SCRIPT.  resp is the content the SFC
\* answered for; the COMPLETED idempotency record is written in the same script.
MarcarSfcCompletado(i, w, v, resp) ==
    /\ Autorizado(i, w, v)
    /\ item' = [item EXCEPT ![i].sfc_completado = TRUE,
                            ![i].estado = "SFC_DONE",
                            ![i].sfc_response = resp]
    /\ idem' = [idem EXCEPT ![item[i].slot][resp] = IdemCompletado]
    /\ UNCHANGED <<counter, index, pendientes, completados, fallidos, zset,
                   creados, claim, purga>>

DesocuparSinSrem(i) ==    \* mutant
    /\ UNCHANGED pendientes
    /\ zset' = [zset EXCEPT ![i] = "fuera"]
    /\ claim' = [claim EXCEPT ![i] = Nadie]
    /\ index' = [index EXCEPT ![item[i].slot] = 0]

DesocuparSinSoltar(i) ==    \* mutant
    /\ pendientes' = pendientes \ {i}
    /\ zset' = [zset EXCEPT ![i] = "fuera"]
    /\ UNCHANGED claim
    /\ index' = [index EXCEPT ![item[i].slot] = 0]

\* A settled item leaves the pending set, its sorted set, its claim and its slot.
Desocupar(i) ==
    /\ pendientes' = pendientes \ {i}
    /\ zset' = [zset EXCEPT ![i] = "fuera"]
    /\ claim' = [claim EXCEPT ![i] = Nadie]
    /\ index' = [index EXCEPT ![item[i].slot] = 0]

\* marcar_exitoso: MARK_SUCCESS_LUA_SCRIPT.
MarcarExitoso(i, w, v) ==
    /\ Autorizado(i, w, v)
    /\ item' = [item EXCEPT ![i].estado = "COMPLETED"]
    /\ completados' = completados \cup {i}
    /\ Desocupar(i)
    /\ UNCHANGED <<counter, fallidos, creados, idem, purga>>

\* registrar_fallo: REGISTRAR_FALLO_LUA_SCRIPT.  Whether the failure is
\* definitive is an argument: Python computes it from the claimed copy.
RegistrarFalloDefinitivo(i, w, v) ==
    /\ Autorizado(i, w, v)
    /\ item' = [item EXCEPT ![i].estado = "FAILED_FINAL",
                            ![i].intentos = @ + 1]
    /\ fallidos' = fallidos \cup {i}
    /\ Desocupar(i)
    /\ UNCHANGED <<counter, completados, creados, idem, purga>>

RegistrarFalloReintentable(i, w, v, consumir) ==
    /\ Autorizado(i, w, v)
    /\ item' = [item EXCEPT ![i].estado = "PENDING",
                            ![i].intentos = IF consumir THEN @ + 1 ELSE @]
    /\ Programar(i, "espera")
    /\ claim' = [claim EXCEPT ![i] = Nadie]
    /\ UNCHANGED <<counter, index, pendientes, completados, fallidos, creados,
                   idem, purga>>

-----------------------------------------------------------------------------
(* The remaining operations on items                                        *)

SlotSinMirar(i) == TRUE    \* mutant
SlotDisponible(i) == index[item[i].slot] \in {0, i}

\* reencolar_item_fallido: REPLAY_ITEM_LUA_SCRIPT.  sfc_completado is kept.
Reencolar(i) ==
    /\ Existe(i)
    /\ item[i].estado = "FAILED_FINAL"
    /\ SlotDisponible(i)
    /\ item[i].version < MaxVersion
    /\ item' = [item EXCEPT ![i].estado = "PENDING",
                            ![i].intentos = 0,
                            ![i].version = VersionSiguiente(i)]
    /\ fallidos' = fallidos \ {i}
    /\ pendientes' = pendientes \cup {i}
    /\ Programar(i, "vencido")
    /\ index' = [index EXCEPT ![item[i].slot] = i]
    /\ UNCHANGED <<counter, completados, creados, claim, idem, purga>>

\* diferir_pendientes_por_caida_sfc: DIFERIR_ITEM_LUA_SCRIPT for one item.  It
\* asks for the listed version only, neither for the claim nor for the set.
Diferir(i, v) ==
    /\ VersionVigente(i, v)
    /\ Programar(i, "espera")
    /\ claim' = [claim EXCEPT ![i] = Nadie]
    /\ UNCHANGED <<counter, item, index, pendientes, completados, fallidos,
                   creados, idem, purga>>

\* CANCELAR_PENDIENTE_POR_SMART_CODE_LUA_SCRIPT: second half of
\* cancelar_pendiente_por_smart_code, with the id and hash read by the first.
Cancelable(s, i, p) == i # 0 /\ index[s] = i /\ Vivo(i) /\ item[i].payload = p

Cancelar(s, i, p) ==
    /\ Cancelable(s, i, p)
    /\ item' = [item EXCEPT ![i] = SinItem]
    /\ pendientes' = pendientes \ {i}
    /\ zset' = [zset EXCEPT ![i] = "fuera"]
    /\ creados' = creados \ {i}
    /\ index' = [index EXCEPT ![s] = 0]
    /\ UNCHANGED <<counter, completados, fallidos, claim, idem, purga>>

\* The retry date of an item passes.
Vencer(i) ==
    /\ zset[i] = "espera"
    /\ zset' = [zset EXCEPT ![i] = "vencido"]
    /\ UNCHANGED <<counter, item, index, pendientes, completados, fallidos,
                   creados, claim, idem, purga>>

-----------------------------------------------------------------------------
(* purgar_registros_antiguos: _purgar_estado for the completed set and then *)
(* for the failed set.  Each first reads the set and the items one by one,  *)
(* and deletes what it found old in a MULTI pipeline afterwards.            *)

PurgaIniciar ==
    /\ purga.conj = "ninguno"
    /\ purga' = [PurgaInactiva EXCEPT !.conj = "completados"]
    /\ UNCHANGED <<counter, item, index, pendientes, completados, fallidos, zset,
                   creados, claim, idem>>

\* One GET of the scan.  The age of updated_at is abstracted: any item of the
\* set may be old enough.
PurgaLeer(i) ==
    /\ \/ purga.conj = "completados" /\ i \in completados
       \/ purga.conj = "fallidos" /\ i \in fallidos
    /\ purga' = IF Existe(i) THEN [purga EXCEPT !.borrar = @ \cup {i}]
                             ELSE [purga EXCEPT !.incons = @ \cup {i}]
    /\ UNCHANGED <<counter, item, index, pendientes, completados, fallidos, zset,
                   creados, claim, idem>>

\* The pipeline.  It deletes by id, whatever the item has become meanwhile.
PurgaEjecutar ==
    /\ purga.conj # "ninguno"
    /\ item' = [i \in Id |-> IF i \in purga.borrar THEN SinItem ELSE item[i]]
    /\ completados' = IF purga.conj = "completados"
                        THEN completados \ (purga.borrar \cup purga.incons)
                        ELSE completados
    /\ fallidos' = IF purga.conj = "fallidos"
                     THEN fallidos \ (purga.borrar \cup purga.incons)
                     ELSE fallidos
    /\ creados' = creados \ purga.borrar
    /\ purga' = [PurgaInactiva EXCEPT
                   !.conj = IF purga.conj = "completados" THEN "fallidos" ELSE "ninguno"]
    /\ UNCHANGED <<counter, index, pendientes, zset, claim, idem>>

\* A Redis error or the end of the process stops the purge where it is.
PurgaAbortar ==
    /\ purga.conj # "ninguno"
    /\ purga' = PurgaInactiva
    /\ UNCHANGED <<counter, item, index, pendientes, completados, fallidos, zset,
                   creados, claim, idem>>

-----------------------------------------------------------------------------
\* Any owner may settle an item in any way.  Only the attempts are bounded:
\* registrar_fallo never asks for a retry beyond max_intentos (see Reintentos).
Escritura(i, w, v) ==
    \/ RechazarTransicion(i, w, v)
    \/ \E p \in Payload : MarcarSfcCompletado(i, w, v, p)
    \/ MarcarExitoso(i, w, v)
    \/ RegistrarFalloDefinitivo(i, w, v)
    \/ \E c \in BOOLEAN :
          /\ Existe(i) => item[i].intentos < MaxIntentos
          /\ RegistrarFalloReintentable(i, w, v, c)

Purga ==
    \/ PurgaIniciar
    \/ \E i \in Id : PurgaLeer(i)
    \/ PurgaEjecutar
    \/ PurgaAbortar

Next ==
    \/ \E s \in Slot, p \in Payload : Encolar(s, p)
    \/ \E i \in Id, w \in WorkerId : Reclamar(i, w)
    \/ \E i \in Id : ExpirarClaim(i) \/ Reencolar(i) \/ Vencer(i)
    \/ \E i \in Id, w \in WorkerId, v \in 1..MaxVersion : Escritura(i, w, v)
    \/ \E i \in Id, v \in 1..MaxVersion : Diferir(i, v)
    \/ \E s \in Slot, i \in Id, p \in Payload : Cancelar(s, i, p)
    \/ Purga

Spec == Init /\ [][Next]_colaVars

\* The idempotency service writes its own records with plain SET and DEL.
SoloIdem ==
    /\ idem' \in [Slot -> [Payload -> Idem]]
    /\ UNCHANGED <<counter, item, index, pendientes, completados, fallidos, zset,
                   creados, claim, purga>>

\* What the API and the workers together may do to the store: the modules that
\* model them are shown to implement this.
SpecAbierta == Init /\ [][Next \/ SoloIdem]_colaVars

-----------------------------------------------------------------------------
(* Properties                                                               *)

\* Type correctness of the keys in Redis and of what the purge has read.
TypeOK ==
    /\ counter \in 0..MaxId
    /\ item \in [Id -> Item \cup {SinItem}]
    /\ index \in [Slot -> 0..MaxId]
    /\ pendientes \subseteq Id /\ completados \subseteq Id /\ fallidos \subseteq Id
    /\ zset \in [Id -> {"fuera", "espera", "vencido"}]
    /\ creados \subseteq Id
    /\ claim \in [Id -> WorkerId \cup {Nadie}]
    /\ idem \in [Slot -> [Payload -> Idem]]
    /\ purga \in [conj : {"ninguno", "completados", "fallidos"},
                  borrar : SUBSET Id, incons : SUBSET Id]

\* "una obligacion pendiente = un slot en cola" (ENQUEUE_LUA_SCRIPT and
\* REPLAY_ITEM_LUA_SCRIPT): two live pending items never belong to the same
\* obligation, whatever overwrites, replays, cancellations, completions and
\* purges interleave.
UnSlotPorObligacion ==
    \A i, j \in Id : Vivo(i) /\ Vivo(j) /\ item[i].slot = item[j].slot => i = j

\* A live pending item is reachable from the index of its obligation: a newer
\* event overwrites it instead of leaving it behind, and a synchronous success
\* can cancel it.
IndiceApuntaAlVivo ==
    \A i \in Id : Vivo(i) => index[item[i].slot] = i

\* A live pending item is in both sorted sets: the retry lister
\* (obtener_pendientes_para_reintento) and the SLA monitor
\* (obtener_casos_vencidos_sla) read nothing else.
PendienteVisible ==
    \A i \in Id : Vivo(i) => zset[i] # "fuera" /\ i \in creados

\* The status field of an item and the status set that holds its id agree,
\* also while a purge is half done: /queue builds its listing from the sets.
EstadoFielAlConjunto ==
    \A i \in Id : Existe(i) =>
        /\ i \in pendientes  <=> item[i].estado \in EstadoActivo
        /\ i \in completados <=> item[i].estado = "COMPLETED"
        /\ i \in fallidos    <=> item[i].estado = "FAILED_FINAL"

\* A claim on an item that still exists is a claim on a pending item: no worker
\* is left holding something another one has already settled.
ClaimSoloDePendiente ==
    \A i \in Id : claim[i] # Nadie /\ Existe(i) => i \in pendientes

ContenidoConVersion(i) ==
    Existe(i) /\ Existe(i)' =>
        /\ item[i].version <= item'[i].version
        /\ (item[i].payload # item'[i].payload \/ item[i].slot # item'[i].slot)
             => item[i].version < item'[i].version

\* The content of an item never changes without a new version, and versions
\* never go back: expected_version is a sound guard for what a worker read.
ContenidoCambiaConVersion == [][\A i \in Id : ContenidoConVersion(i)]_colaVars

TerminalQuieto(i) ==
    Existe(i) /\ Existe(i)' =>
        /\ item[i].estado = "COMPLETED" => item'[i] = item[i]
        /\ item[i].estado = "FAILED_FINAL" /\ item'[i] # item[i]
             => /\ item'[i].version = item[i].version + 1
                /\ item'[i].intentos = 0
                /\ i \in pendientes' /\ index'[item[i].slot] = i

\* A settled item is not touched by a late worker: COMPLETED stays as it is
\* until the purge, and FAILED_FINAL is only left by a replay, which starts over
\* with a new version, attempts at zero and the slot of the obligation.
TerminalEstable == [][\A i \in Id : TerminalQuieto(i)]_colaVars
=============================================================================
