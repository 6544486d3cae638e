--------------------------- MODULE ReintentosProofs ---------------------------
(***************************************************************************)
(* Proofs about the retry cycle: for any number of worker processes,       *)
(* requests, obligations and cases, and whatever Fallos allows to fail     *)
(* unless a theorem says otherwise.  What the store promises is taken from *)
(* ColaRedisProofs: every step of the cycle is a step of the store.        *)
(***************************************************************************)
EXTENDS Reintentos, ColaRedisProofs

-----------------------------------------------------------------------------
(* The inductive invariant.                                                 *)

\* The counter that orders the contents of an item.
VersionesValidas == \A i \in Id : Existe(i) => item[i].version \in 1..MaxVersion

\* The store, with what it says about the SFC.
Cola == IInv /\ VersionesValidas /\ PendienteReintentable /\ ConfirmadoFueEnviado

\* The places where a node has claimed an item.
ConCopia == {"sfc", "persistir", "crm", "cerrar", "fallar", "liberar"}

\* The cycle has a worker_id of its own, and an item in the places that need it.
Situado(n) ==
    /\ fase[n] # "libre" => wid[n] \in WorkerId
    /\ fase[n] = "reclamar" => actual[n] \in Id
    /\ fase[n] \in ConCopia => Trabajando(n)
    /\ Trabajando(n) => /\ fase[n] \in ConCopia \cup {"soltar"}
                        /\ actual[n] \in Id /\ actual[n] <= counter
                        /\ copia[n].version \in 1..MaxVersion

\* The copy is never ahead of Redis, and is exact while the claim holds.
CopiaFiel(n) ==
    LET x == item[actual[n]] IN
    Trabajando(n) /\ Existe(actual[n]) =>
        /\ copia[n].version <= x.version
        /\ claim[actual[n]] = wid[n] /\ copia[n].version = x.version =>
              /\ x.slot = copia[n].slot /\ x.payload = copia[n].payload
              /\ x.intentos = copia[n].intentos
              /\ copia[n].sfc_completado => x.sfc_completado
              /\ fase[n] \in {"crm", "cerrar"} => x.sfc_completado

\* What is about to be written as sent was sent.
PorConfirmar(n) ==
    fase[n] = "persistir" =>
        /\ copia[n].payload \in enviados[copia[n].slot]
        /\ <<actual[n], copia[n].version>> \in confirmados

Nodo(n) == Situado(n) /\ CopiaFiel(n) /\ PorConfirmar(n)

\* No two cycles share a worker_id.
WidUnico == \A n, m \in Node : wid[n] \in WorkerId /\ wid[n] = wid[m] => n = m

IInvR == TypeOKR /\ Cola /\ WidUnico /\ \A n \in Node : Nodo(n)

-----------------------------------------------------------------------------
(* What a script does to the store, and to a worker that holds a copy.      *)

PasoCola == [Next \/ SoloIdem]_colaVars

\* The SFC forgets nothing, nor what it has confirmed.
Recuerda ==
    /\ \A s \in Slot : enviados[s] \subseteq enviados'[s]
    /\ confirmados \subseteq confirmados'

\* After the step worker w finds item i as it was, or finds out that it is not:
\* another version, or no claim.
Respeta(i, w) ==
    i <= counter /\ Existe(i)' =>
        /\ Existe(i) /\ item[i].version <= item'[i].version
        /\ item'[i].version = item[i].version /\ item[i].sfc_completado => item'[i].sfc_completado
        /\ claim'[i] = w /\ item'[i].version = item[i].version =>
              /\ claim[i] = w
              /\ item'[i].slot = item[i].slot /\ item'[i].payload = item[i].payload
              /\ item'[i].intentos = item[i].intentos
RespetaTodo == counter <= counter' /\ \A i \in Id, w \in WorkerId : Respeta(i, w)

\* What every script does: a step of the store that keeps it sound.
PasoFiel == PasoCola /\ Cola' /\ RespetaTodo

\* Nobody is told that a content was processed that the SFC did not take.
IdemHonesto ==
    \A s \in Slot, p \in Payload :
        idem'[s][p].status = "COMPLETED" => idem[s][p].status = "COMPLETED" \/ p \in enviados'[s]

\* Item i is as the store requires, in the next state.
ItemCorrecto(i) ==
    /\ Existe(i) => item[i].version \in 1..MaxVersion
    /\ Vivo(i) => item[i].intentos < MaxIntentos
    /\ Existe(i) /\ (item[i].sfc_completado \/ item[i].estado = "COMPLETED") =>
          item[i].sfc_response = item[i].payload /\ item[i].payload \in enviados[item[i].slot]

\* The invariant of the store, one item at a time.
LEMMA ColaPorItems ==
    Cola <=> /\ IInv /\ \A i \in Id : ItemCorrecto(i)
             /\ \A s \in Slot, p \in Payload : idem[s][p].status = "COMPLETED" => p \in enviados[s]
BY DEF Cola, VersionesValidas, PendienteReintentable, ConfirmadoFueEnviado, ItemCorrecto

\* The SFC and the idempotency records, when no script falsifies them.
LEMMA IdemPaso ==
    ASSUME Cola, Recuerda, IdemHonesto
    PROVE  \A s \in Slot, p \in Payload : idem'[s][p].status = "COMPLETED" => p \in enviados'[s]
BY DEF Cola, ConfirmadoFueEnviado, Recuerda, IdemHonesto

\* The typing facts about the store that every proof of a script needs.
LEMMA ColaTipos ==
    ASSUME Cola
    PROVE  /\ TypeOK /\ counter \in Nat /\ Nadie \notin WorkerId
           /\ \A i \in Id : Existe(i) => item[i] \in Item /\ item[i].version \in Nat
BY ExisteEsItem, ConstantesAssumption DEF Cola, IInv, TypeOK, Item

\* A script that changes one item.
LEMMA UnItem ==
    ASSUME Cola, Recuerda, IdemHonesto, PasoCola, NEW j \in Id,
           counter' \in Nat, counter <= counter',
           \A i \in Id : i # j => item'[i] = item[i] /\ claim'[i] = claim[i],
           pendientes' \subseteq pendientes \cup {j},
           ItemCorrecto(j)'
    PROVE  Cola' /\ \A i \in Id, w \in WorkerId : i # j => Respeta(i, w)
<1>1. IInv'
  BY IInvPaso DEF Cola, PasoCola
<1>2. ASSUME NEW i \in Id PROVE ItemCorrecto(i)'
  <2>1. CASE i = j
    BY <2>1
  <2>2. CASE i # j
    <3>1. ItemCorrecto(i) /\ item'[i] = item[i]
      BY <2>2, ColaPorItems
    <3>2. Vivo(i)' => Vivo(i)
      BY <2>2, <3>1 DEF Vivo, Existe
    <3>3. Existe(i)' => Existe(i)
      BY <3>1 DEF Existe
    <3>4. Existe(i) => item[i].slot \in Slot
      BY ColaTipos DEF Item
    <3>5. QED
      BY <3>1, <3>2, <3>3, <3>4 DEF ItemCorrecto, Recuerda
  <2>3. QED
    BY <2>1, <2>2
<1>3. Cola'
  BY <1>1, <1>2, IdemPaso DEF Cola, VersionesValidas, PendienteReintentable, ConfirmadoFueEnviado,
                              ItemCorrecto
<1>4. ASSUME NEW i \in Id, NEW w \in WorkerId, i # j PROVE Respeta(i, w)
  <2>1. item'[i] = item[i] /\ claim'[i] = claim[i]
    BY <1>4
  <2>2. Existe(i) => item[i].version \in Nat
    BY ColaTipos
  <2>3. QED
    BY <2>1, <2>2 DEF Respeta, Existe
<1>5. QED
  BY <1>3, <1>4

\* A script that changes none: it moves dates, releases claims or writes
\* idempotency records.
LEMMA NingunItem ==
    ASSUME Cola, Recuerda, IdemHonesto, PasoCola, counter' = counter, item' = item,
           pendientes' = pendientes, \A i \in Id : claim'[i] \in {claim[i], Nadie}
    PROVE  PasoFiel
<1>1. IInv'
  BY IInvPaso DEF Cola, PasoCola
<1>2. ASSUME NEW i \in Id PROVE ItemCorrecto(i)'
  <2>1. ItemCorrecto(i) /\ (Vivo(i)' <=> Vivo(i)) /\ (Existe(i)' <=> Existe(i))
    BY ColaPorItems DEF Vivo, Existe
  <2>2. Existe(i) => item[i].slot \in Slot
    BY ColaTipos DEF Item
  <2>3. QED
    BY <2>1, <2>2 DEF ItemCorrecto, Recuerda
<1>3. Cola'
  BY <1>1, <1>2, IdemPaso DEF Cola, VersionesValidas, PendienteReintentable, ConfirmadoFueEnviado,
                              ItemCorrecto
<1>4. ASSUME NEW i \in Id, NEW w \in WorkerId PROVE Respeta(i, w)
  <2>1. claim'[i] = w => claim[i] = w
    BY ColaTipos
  <2>2. Existe(i) => item[i].version \in Nat
    BY ColaTipos
  <2>3. QED
    BY <2>1, <2>2 DEF Respeta, Existe
<1>5. QED
  BY <1>3, <1>4, ColaTipos DEF PasoFiel, RespetaTodo

-----------------------------------------------------------------------------
(* One lemma per script.                                                    *)

\* Overwriting a queued item gives it a new version: a worker's copy finds itself stale.
LEMMA GuionSobrescribe ==
    ASSUME Cola, Recuerda, NEW s \in Slot, NEW p \in Payload, EncolarSobrescribe(s, p)
    PROVE  PasoFiel
<1>0. PICK j \in Id : j = index[s]
  BY ColaTipos DEF EncolarSobrescribe, SlotOcupado, TypeOK, Id
<1>1. Vivo(j) /\ item[j].version < MaxVersion
  BY <1>0 DEF EncolarSobrescribe, SlotOcupado
<1>2. item[j] \in Item /\ item[j].version \in 1..MaxVersion
  BY <1>1, ColaTipos DEF Vivo, Cola, VersionesValidas
<1>3. item' = [item EXCEPT ![j] = ItemEncolado(item[j].slot, p, item[j].version + 1)]
  BY <1>0 DEF EncolarSobrescribe, VersionSiguiente
<1>4. item'[j] = ItemEncolado(item[j].slot, p, item[j].version + 1)
  BY <1>1, <1>3, ColaTipos DEF TypeOK
<1>5. counter' = counter /\ pendientes' = pendientes /\ claim' = claim /\ idem' = idem
  BY DEF EncolarSobrescribe
<1>6. PasoCola /\ IdemHonesto
  BY <1>5 DEF PasoCola, Next, Encolar, IdemHonesto
<1>7. \A i \in Id : i # j => item'[i] = item[i] /\ claim'[i] = claim[i]
  BY <1>3, <1>5, ColaTipos DEF TypeOK
<1>8. item[j].version + 1 \in 1..MaxVersion
  BY <1>1, <1>2, ConstantesAssumption
<1>9. ItemCorrecto(j)'
  BY <1>4, <1>8, ConstantesAssumption DEF ItemCorrecto, ItemEncolado
<1>10. \A w : Respeta(j, w)
  BY <1>1, <1>2, <1>4 DEF Respeta, ItemEncolado, Vivo
<1>11. QED
  BY <1>1, <1>5, <1>6, <1>7, <1>9, <1>10, UnItem, ColaTipos DEF PasoFiel, RespetaTodo

\* A new item takes an id nobody holds a copy of.
LEMMA GuionNuevo ==
    ASSUME Cola, Recuerda, NEW s \in Slot, NEW p \in Payload, EncolarNuevo(s, p)
    PROVE  PasoFiel
<1>0. PICK j \in Id : j = counter + 1
  BY ColaTipos, ConstantesAssumption DEF EncolarNuevo, TypeOK, Id
<1>1. counter \in Nat /\ j = counter + 1
  BY <1>0, ColaTipos
<1>2. /\ counter' = j /\ pendientes' = pendientes \cup {j} /\ claim' = claim /\ idem' = idem
      /\ item' = [item EXCEPT ![j] = ItemEncolado(s, p, 1)] /\ index' = [index EXCEPT ![s] = j]
  BY <1>0 DEF EncolarNuevo
<1>3. item'[j] = ItemEncolado(s, p, 1) /\ index'[s] = j
  BY <1>1, <1>2, ColaTipos DEF TypeOK
<1>4. PasoCola /\ IdemHonesto
  BY <1>2 DEF PasoCola, Next, Encolar, IdemHonesto
<1>5. \A i \in Id : i # j => item'[i] = item[i] /\ claim'[i] = claim[i]
  BY <1>2, ColaTipos DEF TypeOK
<1>7. ItemCorrecto(j)'
  <2>1. 1 \in 1..MaxVersion
    BY ConstantesAssumption
  <2>2. QED
    BY <1>3, <2>1, ConstantesAssumption DEF ItemCorrecto, ItemEncolado
<1>8. \A w : Respeta(j, w)
  BY <1>1 DEF Respeta
<1>9. counter' \in Nat /\ counter <= counter' /\ counter' = j
  BY <1>1, <1>2
<1>11. QED
  BY <1>1, <1>2, <1>3, <1>4, <1>5, <1>7, <1>8, <1>9, UnItem DEF PasoFiel, RespetaTodo

\* So the enqueue script respects every worker that holds a copy.
LEMMA GuionEncolar ==
    ASSUME Cola, Recuerda, NEW s \in Slot, NEW p \in Payload, Encolar(s, p)
    PROVE  PasoFiel
BY GuionSobrescribe, GuionNuevo DEF Encolar

\* The claim is for w: what the others hold is left alone.
LEMMA GuionReclamar ==
    ASSUME Cola, Recuerda, NEW j \in Id, NEW w \in WorkerId, Reclamar(j, w)
    PROVE  /\ PasoCola /\ Cola' /\ counter' = counter
           /\ \A i \in Id, x \in WorkerId : i # j \/ x # w => Respeta(i, x)
           /\ claim'[j] = w /\ item'[j] = [item[j] EXCEPT !.estado = "PROCESSING"]
           /\ Existe(j) /\ j <= counter /\ Existe(j)'
<1>1. Vivo(j) /\ claim[j] = Nadie
  BY DEF Reclamar, Reclamable
<1>2. item[j] \in Item /\ ItemCorrecto(j) /\ Existe(j) /\ j \in pendientes
  BY <1>1, ColaTipos, ColaPorItems DEF Vivo
<1>3. /\ counter' = counter /\ pendientes' = pendientes /\ idem' = idem
      /\ item' = [item EXCEPT ![j].estado = "PROCESSING"] /\ claim' = [claim EXCEPT ![j] = w]
  BY DEF Reclamar
<1>4. item'[j] = [item[j] EXCEPT !.estado = "PROCESSING"] /\ claim'[j] = w
  BY <1>3, ColaTipos DEF TypeOK
<1>5. PasoCola /\ IdemHonesto
  BY <1>3 DEF PasoCola, Next, IdemHonesto
<1>6. \A i \in Id : i # j => item'[i] = item[i] /\ claim'[i] = claim[i]
  BY <1>3, ColaTipos DEF TypeOK
<1>7. ItemCorrecto(j)'
  BY <1>1, <1>2, <1>4 DEF ItemCorrecto, Item, Recuerda
<1>8. \A x \in WorkerId : x # w => Respeta(j, x)
  BY <1>2, <1>4 DEF Respeta, Item
<1>9. Cola' /\ \A i \in Id, x \in WorkerId : i # j => Respeta(i, x)
  BY <1>3, <1>5, <1>6, <1>7, UnItem, ColaTipos
<1>10. j <= counter
  BY <1>2, ColaTipos DEF Cola, IInv, IdsAsignados, Id
<1>11. Existe(j)'
  <2>1. item'[j] \in Item
    BY <1>2, <1>4 DEF Item, Estado, EstadoActivo
  <2>2. QED
    BY <2>1, ConstantesAssumption DEF Existe
<1>12. QED
  BY <1>2, <1>3, <1>4, <1>5, <1>8, <1>9, <1>10, <1>11

\* marcar_sfc_completado, for a content the SFC took.
LEMMA GuionMarcar ==
    ASSUME Cola, Recuerda, NEW j \in Id, NEW w \in WorkerId, NEW v, NEW r \in Payload,
           MarcarSfcCompletado(j, w, v, r),
           r = item[j].payload, r \in enviados'[item[j].slot]
    PROVE  PasoFiel /\ Autorizado(j, w, v) /\ item'[j].sfc_completado
<1>1. claim[j] = w /\ Existe(j) /\ item[j].version = v
  BY DEF MarcarSfcCompletado, Autorizado, EsDueno, VersionVigente
<1>2. item[j] \in Item /\ ItemCorrecto(j) /\ v \in 1..MaxVersion
  BY <1>1, ColaTipos, ColaPorItems DEF ItemCorrecto
<1>3. /\ counter' = counter /\ pendientes' = pendientes /\ claim' = claim
      /\ item' = [item EXCEPT ![j].sfc_completado = TRUE, ![j].estado = "SFC_DONE",
                              ![j].sfc_response = r]
      /\ idem' = [idem EXCEPT ![item[j].slot][r] = IdemCompletado]
  BY DEF MarcarSfcCompletado
<1>4. item'[j] = [item[j] EXCEPT !.sfc_completado = TRUE, !.estado = "SFC_DONE", !.sfc_response = r]
  BY <1>3, ColaTipos DEF TypeOK
<1>5. PasoCola
  BY <1>2 DEF PasoCola, Next, Escritura
<1>6. IdemHonesto
  BY <1>2, <1>3, ColaTipos DEF IdemHonesto, TypeOK, Item
<1>7. \A i \in Id : i # j => item'[i] = item[i] /\ claim'[i] = claim[i]
  BY <1>3, ColaTipos DEF TypeOK
<1>8. /\ item'[j].slot = item[j].slot /\ item'[j].payload = item[j].payload
      /\ item'[j].intentos = item[j].intentos /\ item'[j].version = item[j].version
      /\ item'[j].sfc_completado = TRUE /\ item'[j].sfc_response = r
  BY <1>2, <1>4 DEF Item
<1>9. ItemCorrecto(j)'
  BY <1>1, <1>2, <1>3, <1>8 DEF ItemCorrecto, Vivo
<1>10. \A x \in WorkerId : Respeta(j, x)
  BY <1>1, <1>2, <1>3, <1>8 DEF Respeta, Item
<1>11. counter' \in Nat /\ counter <= counter' /\ pendientes' \subseteq pendientes \cup {j}
  BY <1>3, ColaTipos
<1>12. Cola' /\ \A i \in Id, x \in WorkerId : i # j => Respeta(i, x)
  BY <1>5, <1>6, <1>7, <1>9, <1>11, UnItem
<1>13. QED
  BY <1>5, <1>8, <1>10, <1>11, <1>12 DEF PasoFiel, RespetaTodo, MarcarSfcCompletado

\* A script that settles the claim on j: nobody owns it afterwards.
LEMMA GuionDevuelve ==
    ASSUME Cola, Recuerda, PasoCola, NEW j \in Id, Existe(j), counter' = counter, idem' = idem,
           pendientes' \subseteq pendientes, claim' = [claim EXCEPT ![j] = Nadie],
           NEW y, item' = [item EXCEPT ![j] = y],
           y.slot = item[j].slot, y.payload = item[j].payload, y.version = item[j].version,
           y.sfc_completado <=> item[j].sfc_completado, y.sfc_response = item[j].sfc_response,
           j \in pendientes' => y.intentos \in Nat /\ y.intentos < MaxIntentos,
           y.estado = "COMPLETED" => item[j].sfc_completado
    PROVE  PasoFiel
<1>1. item[j] \in Item /\ ItemCorrecto(j)
  BY ColaTipos, ColaPorItems
<1>2. item'[j] = y /\ claim'[j] = Nadie
  BY ColaTipos DEF TypeOK
<1>3. \A i \in Id : i # j => item'[i] = item[i] /\ claim'[i] = claim[i]
  BY ColaTipos DEF TypeOK
<1>4. ItemCorrecto(j)'
  BY <1>1, <1>2 DEF ItemCorrecto, Vivo, Recuerda, Item
<1>5. \A x \in WorkerId : Respeta(j, x)
  BY <1>1, <1>2, ColaTipos DEF Respeta, Item
<1>6. IdemHonesto
  BY DEF IdemHonesto
<1>7. Cola' /\ \A i \in Id, x \in WorkerId : i # j => Respeta(i, x)
  BY <1>3, <1>4, <1>6, UnItem, ColaTipos
<1>8. QED
  BY <1>5, <1>7, ColaTipos DEF PasoFiel, RespetaTodo

\* marcar_exitoso, for an item the SFC took.
LEMMA GuionExitoso ==
    ASSUME Cola, Recuerda, NEW j \in Id, NEW w \in WorkerId, NEW v, MarcarExitoso(j, w, v),
           item[j].sfc_completado
    PROVE  PasoFiel
<1> DEFINE y == [item[j] EXCEPT !.estado = "COMPLETED"]
<1>1. Existe(j) /\ item[j].version = v
  BY DEF MarcarExitoso, Autorizado, VersionVigente
<1>2. item[j] \in Item /\ v \in 1..MaxVersion
  BY <1>1, ColaTipos DEF Cola, VersionesValidas
<1>3. PasoCola
  BY <1>2 DEF PasoCola, Next, Escritura
<1>4. /\ counter' = counter /\ idem' = idem /\ pendientes' = pendientes \ {j}
      /\ claim' = [claim EXCEPT ![j] = Nadie] /\ item' = [item EXCEPT ![j] = y]
  BY DEF MarcarExitoso, Desocupar
<1>5. /\ y.slot = item[j].slot /\ y.payload = item[j].payload /\ y.version = item[j].version
      /\ y.sfc_completado = item[j].sfc_completado /\ y.sfc_response = item[j].sfc_response
  BY <1>2 DEF Item
<1> HIDE DEF y
<1>6. QED
  BY <1>1, <1>3, <1>4, <1>5, GuionDevuelve

\* The definitive failure moves an item to the DLQ only for its claimant and version.
LEMMA GuionDefinitivo ==
    ASSUME Cola, Recuerda, NEW j \in Id, NEW w \in WorkerId, NEW v, RegistrarFalloDefinitivo(j, w, v)
    PROVE  PasoFiel
<1> DEFINE y == [item[j] EXCEPT !.estado = "FAILED_FINAL", !.intentos = @ + 1]
<1>1. Existe(j) /\ item[j].version = v
  BY DEF RegistrarFalloDefinitivo, Autorizado, VersionVigente
<1>2. item[j] \in Item /\ v \in 1..MaxVersion
  BY <1>1, ColaTipos DEF Cola, VersionesValidas
<1>3. PasoCola
  BY <1>2 DEF PasoCola, Next, Escritura
<1>4. /\ counter' = counter /\ idem' = idem /\ pendientes' = pendientes \ {j}
      /\ claim' = [claim EXCEPT ![j] = Nadie] /\ item' = [item EXCEPT ![j] = y]
  BY DEF RegistrarFalloDefinitivo, Desocupar
<1>5. /\ y.slot = item[j].slot /\ y.payload = item[j].payload /\ y.version = item[j].version
      /\ y.sfc_completado = item[j].sfc_completado /\ y.sfc_response = item[j].sfc_response
      /\ y.estado = "FAILED_FINAL"
  BY <1>2 DEF Item
<1> HIDE DEF y
<1>6. QED
  BY <1>1, <1>3, <1>4, <1>5, GuionDevuelve

\* registrar_fallo for another try, when there is one left.
LEMMA GuionReintentable ==
    ASSUME Cola, Recuerda, NEW j \in Id, NEW w \in WorkerId, NEW v, NEW c \in BOOLEAN,
           RegistrarFalloReintentable(j, w, v, c),
           c => item[j].intentos + 1 < MaxIntentos
    PROVE  PasoFiel
<1> DEFINE y == [item[j] EXCEPT !.estado = "PENDING", !.intentos = IF c THEN @ + 1 ELSE @]
<1>1. Existe(j) /\ item[j].version = v /\ claim[j] = w
  BY DEF RegistrarFalloReintentable, Autorizado, VersionVigente, EsDueno
<1>2. item[j] \in Item /\ v \in 1..MaxVersion /\ item[j].intentos \in Nat
  BY <1>1, ColaTipos DEF Cola, VersionesValidas, Item
<1>3. Vivo(j) /\ item[j].intentos < MaxIntentos
  BY <1>1, ColaTipos DEF Vivo, Cola, IInv, ClaimSoloDePendiente, PendienteReintentable
<1>4. PasoCola
  BY <1>2, <1>3 DEF PasoCola, Next, Escritura
<1>5. /\ counter' = counter /\ idem' = idem /\ pendientes' = pendientes
      /\ claim' = [claim EXCEPT ![j] = Nadie] /\ item' = [item EXCEPT ![j] = y]
  BY DEF RegistrarFalloReintentable
<1>6. /\ y.slot = item[j].slot /\ y.payload = item[j].payload /\ y.version = item[j].version
      /\ y.sfc_completado = item[j].sfc_completado /\ y.sfc_response = item[j].sfc_response
      /\ y.estado = "PENDING" /\ y.intentos = IF c THEN item[j].intentos + 1 ELSE item[j].intentos
  BY <1>2 DEF Item
<1>7. y.intentos \in Nat /\ y.intentos < MaxIntentos
  BY <1>2, <1>3, <1>6, ConstantesAssumption
<1> HIDE DEF y
<1>8. QED
  BY <1>1, <1>4, <1>5, <1>6, <1>7, GuionDevuelve

\* Requeueing gives the item another version: whoever holds a copy finds itself stale.
LEMMA GuionReencolar ==
    ASSUME Cola, Recuerda, NEW j \in Id, Reencolar(j)
    PROVE  PasoFiel
<1>1. Existe(j) /\ item[j].version < MaxVersion
  BY DEF Reencolar
<1>2. item[j] \in Item /\ ItemCorrecto(j) /\ item[j].version \in 1..MaxVersion
  BY <1>1, ColaTipos, ColaPorItems DEF ItemCorrecto
<1>3. /\ counter' = counter /\ pendientes' = pendientes \cup {j} /\ claim' = claim /\ idem' = idem
      /\ item' = [item EXCEPT ![j].estado = "PENDING", ![j].intentos = 0,
                              ![j].version = item[j].version + 1]
  BY DEF Reencolar, VersionSiguiente
<1>4. item'[j] = [item[j] EXCEPT !.estado = "PENDING", !.intentos = 0,
                                 !.version = item[j].version + 1]
  BY <1>3, ColaTipos DEF TypeOK
<1>5. PasoCola /\ IdemHonesto
  BY <1>3 DEF PasoCola, Next, IdemHonesto
<1>6. \A i \in Id : i # j => item'[i] = item[i] /\ claim'[i] = claim[i]
  BY <1>3, ColaTipos DEF TypeOK
<1>7. item'[j].version \in 1..MaxVersion /\ item'[j].version = item[j].version + 1
  BY <1>1, <1>2, <1>4, ConstantesAssumption DEF Item
<1>8. ItemCorrecto(j)'
  BY <1>1, <1>2, <1>4, <1>7, ConstantesAssumption DEF ItemCorrecto, Item, Recuerda
<1>9. \A x \in WorkerId : Respeta(j, x)
  BY <1>1, <1>2, <1>7 DEF Respeta
<1>10. counter' \in Nat /\ counter <= counter' /\ pendientes' \subseteq pendientes \cup {j}
  BY <1>3, ColaTipos
<1>11. Cola' /\ \A i \in Id, x \in WorkerId : i # j => Respeta(i, x)
  BY <1>5, <1>6, <1>8, <1>10, UnItem
<1>12. QED
  BY <1>5, <1>9, <1>10, <1>11 DEF PasoFiel, RespetaTodo

\* The cancel script removes the item of the obligation; its workers find nothing.
LEMMA GuionCancelar ==
    ASSUME Cola, Recuerda, NEW s \in Slot, NEW j \in Id, NEW p \in Payload, Cancelar(s, j, p)
    PROVE  PasoFiel
<1>1. /\ counter' = counter /\ pendientes' \subseteq pendientes /\ claim' = claim /\ idem' = idem
      /\ item' = [item EXCEPT ![j] = SinItem]
  BY DEF Cancelar
<1>2. ~Existe(j)'
  BY <1>1, ColaTipos DEF TypeOK, Existe
<1>3. PasoCola /\ IdemHonesto
  BY <1>1 DEF PasoCola, Next, IdemHonesto
<1>4. \A i \in Id : i # j => item'[i] = item[i] /\ claim'[i] = claim[i]
  BY <1>1, ColaTipos DEF TypeOK
<1>5. ItemCorrecto(j)' /\ \A x \in WorkerId : Respeta(j, x)
  BY <1>2 DEF ItemCorrecto, Respeta, Vivo
<1>6. Cola' /\ \A i \in Id, x \in WorkerId : i # j => Respeta(i, x)
  BY <1>1, <1>3, <1>4, <1>5, UnItem, ColaTipos
<1>7. QED
  BY <1>1, <1>3, <1>5, <1>6, ColaTipos DEF PasoFiel, RespetaTodo

\* A lease that runs out, a refused transition, a deferral, a date that passes.
LEMMA GuionSuelta ==
    ASSUME Cola, Recuerda, NEW j \in Id,
           \/ ExpirarClaim(j) \/ Vencer(j)
           \/ \E w \in WorkerId, v \in 1..MaxVersion : RechazarTransicion(j, w, v)
           \/ \E v : Diferir(j, v)
    PROVE  PasoFiel
<1>1. /\ counter' = counter /\ item' = item /\ pendientes' = pendientes /\ idem' = idem
      /\ claim' = claim \/ claim' = [claim EXCEPT ![j] = Nadie]
  BY DEF ExpirarClaim, Vencer, RechazarTransicion, Diferir
<1>2. PasoCola
  <2>1. CASE \E v : Diferir(j, v)
    <3>1. PICK v : Diferir(j, v)
      BY <2>1
    <3>2. v \in 1..MaxVersion
      BY <3>1 DEF Diferir, VersionVigente, Cola, VersionesValidas
    <3>3. QED
      BY <3>1, <3>2 DEF PasoCola, Next
  <2>2. CASE ExpirarClaim(j) \/ Vencer(j)
    BY <2>2 DEF PasoCola, Next
  <2>3. CASE \E w \in WorkerId, v \in 1..MaxVersion : RechazarTransicion(j, w, v)
    BY <2>3 DEF PasoCola, Next, Escritura
  <2>4. QED
    BY <2>1, <2>2, <2>3
<1>3. \A i \in Id : claim'[i] \in {claim[i], Nadie}
  BY <1>1, ColaTipos DEF TypeOK
<1>4. IdemHonesto
  BY <1>1 DEF IdemHonesto
<1>5. QED
  BY <1>1, <1>2, <1>3, <1>4, NingunItem

\* A step that leaves the store alone respects every worker.
LEMMA GuionNada ==
    ASSUME Cola, Recuerda, UNCHANGED colaVars
    PROVE  PasoFiel
<1>1. PasoCola
  BY DEF PasoCola
<1>2. counter' = counter /\ item' = item /\ pendientes' = pendientes /\ claim' = claim /\ idem' = idem
  BY DEF colaVars
<1>3. IdemHonesto
  BY <1>2 DEF IdemHonesto
<1>4. QED
  BY <1>1, <1>2, <1>3, NingunItem

\* A plain SET or DEL of an idempotency record.
LEMMA GuionIdem ==
    ASSUME Cola, Recuerda, SoloIdem, IdemHonesto
    PROVE  PasoFiel
BY NingunItem DEF SoloIdem, PasoCola

-----------------------------------------------------------------------------
(* What a step does to the nodes.                                           *)

\* The part of TypeOKR about the nodes, and the part about locks and the SFC.
TipoNodo ==
    /\ fase \in [Node -> Fase]
    /\ wid \in [Node -> WorkerId \cup {Nadie}]
    /\ porLeer \in [Node -> SUBSET Id]
    /\ lote \in [Node -> SUBSET [id : Id, version : Nat, slot : Slot]]
    /\ actual \in [Node -> 0..MaxId]
    /\ copia \in [Node -> Item \cup {SinItem}]
    /\ caso \in [Node -> Caso \cup {Nadie}]
    /\ motivo \in [Node -> Motivo]
    /\ fallas \in [Node -> Nat]
TipoLock ==
    /\ jobLock \in Node \cup {Nadie}
    /\ casoLock \in [Caso -> Node \cup Peticion \cup {Nadie}]
TipoSfc ==
    /\ enviados \in [Slot -> SUBSET Payload]
    /\ confirmados \subseteq Id \X Nat
    /\ perdidos \subseteq confirmados

\* The type invariant, split by the state a step touches.
LEMMA TipoPorPartes ==
    /\ TypeOKR <=> TypeOK /\ TipoNodo /\ TipoLock /\ TipoSfc
    /\ IInvR => TypeOKR /\ TypeOK /\ TipoNodo /\ TipoLock /\ TipoSfc /\ Cola
BY DEF IInvR, TypeOKR, TipoNodo, TipoLock, TipoSfc

\* And put together again after a step.
LEMMA TipoSiguiente ==
    ASSUME Cola', TipoNodo', TipoLock', TipoSfc'
    PROVE  TypeOKR'
BY DEF TypeOKR, TipoNodo, TipoLock, TipoSfc, Cola, IInv

\* A node that keeps what it has does not notice the step.
Quieto(m) ==
    fase'[m] = fase[m] /\ wid'[m] = wid[m] /\ actual'[m] = actual[m] /\ copia'[m] = copia[m]

\* The copy of a node that stays with its item, whoever changed the item.
LEMMA CopiaSigue ==
    ASSUME TypeOKR, Cola, Cola', counter <= counter', NEW n \in Node, Nodo(n),
           Trabajando(n), wid'[n] = wid[n], actual'[n] = actual[n], copia'[n] = copia[n],
           Respeta(actual[n], wid[n]), fase'[n] \in ConCopia \cup {"soltar"},
           fase'[n] \in {"crm", "cerrar"} =>
              \/ fase[n] \in {"crm", "cerrar"}
              \/ item'[actual[n]].sfc_completado
    PROVE  Situado(n)' /\ CopiaFiel(n)'
<1>1. PICK i \in Id, w \in WorkerId, c \in Item : i = actual[n] /\ w = wid[n] /\ c = copia[n]
  BY DEF Nodo, Situado, Trabajando, ConCopia, TypeOKR
<1>2. i <= counter /\ c.version \in 1..MaxVersion /\ w \in WorkerId
  BY <1>1 DEF Nodo, Situado, ConCopia
<1>3. Situado(n)'
  <2>1. Trabajando(n)'
    BY DEF Trabajando
  <2>2. i <= counter'
    BY <1>1, <1>2, ColaTipos DEF Id, Cola, IInv, TypeOK
  <2>3. QED
    BY <1>1, <1>2, <2>1, <2>2 DEF Situado, ConCopia
<1>4. CopiaFiel(n)'
  <2>1. SUFFICES ASSUME Existe(i)'
                 PROVE  /\ c.version <= item'[i].version
                        /\ claim'[i] = w /\ c.version = item'[i].version =>
                              /\ item'[i].slot = c.slot /\ item'[i].payload = c.payload
                              /\ item'[i].intentos = c.intentos
                              /\ c.sfc_completado => item'[i].sfc_completado
                              /\ fase'[n] \in {"crm", "cerrar"} => item'[i].sfc_completado
    BY <1>1 DEF CopiaFiel
  <2>2. Respeta(i, w)
    BY <1>1
  <2>3. /\ Existe(i) /\ item[i].version <= item'[i].version
        /\ item'[i].version = item[i].version /\ item[i].sfc_completado => item'[i].sfc_completado
        /\ claim'[i] = w /\ item'[i].version = item[i].version =>
              /\ claim[i] = w
              /\ item'[i].slot = item[i].slot /\ item'[i].payload = item[i].payload
              /\ item'[i].intentos = item[i].intentos
    BY <1>2, <2>1, <2>2 DEF Respeta
  <2>4. /\ c.version <= item[i].version
        /\ claim[i] = w /\ c.version = item[i].version =>
              /\ item[i].slot = c.slot /\ item[i].payload = c.payload
              /\ item[i].intentos = c.intentos
              /\ c.sfc_completado => item[i].sfc_completado
              /\ fase[n] \in {"crm", "cerrar"} => item[i].sfc_completado
    BY <1>1, <2>3 DEF Nodo, CopiaFiel
  <2>5. item[i].version \in Nat /\ item'[i].version \in Nat /\ c.version \in Nat
    <3>1. item[i].version \in Nat
      BY <2>3, ColaTipos
    <3>2. item'[i].version \in Nat
      BY <2>1 DEF Cola, VersionesValidas
    <3>3. QED
      BY <1>2, <3>1, <3>2
  <2>6. fase'[n] \in {"crm", "cerrar"} => fase[n] \in {"crm", "cerrar"} \/ item'[i].sfc_completado
    BY <1>1
  <2>7. c.version <= item'[i].version
    BY <2>3, <2>4, <2>5
  <2>8. c.version = item'[i].version => item'[i].version = item[i].version /\ c.version = item[i].version
    BY <2>3, <2>4, <2>5
  <2>9. QED
    BY <2>3, <2>4, <2>6, <2>7, <2>8
<1>5. QED
  BY <1>3, <1>4

\* A node the step does not touch keeps its copy exact or finds out that it is stale.
LEMMA NodoQuieto ==
    ASSUME IInvR, Cola', Recuerda, counter <= counter', NEW m \in Node, Quieto(m),
           Trabajando(m) => Respeta(actual[m], wid[m])
    PROVE  Nodo(m)'
<1>1. TypeOKR /\ Cola /\ Nodo(m)
  BY DEF IInvR
<1>2. PorConfirmar(m)'
  <2>1. fase[m] = "persistir" => copia[m] \in Item
    BY <1>1 DEF TypeOKR, Nodo, Situado, ConCopia, Trabajando
  <2>2. fase[m] = "persistir" => copia[m].slot \in Slot
    BY <2>1 DEF Item
  <2>3. QED
    BY <1>1, <2>2 DEF Nodo, PorConfirmar, Quieto, Recuerda
<1>3. CASE Trabajando(m)
  <2>1. fase'[m] \in ConCopia \cup {"soltar"}
    BY <1>1, <1>3 DEF Nodo, Situado, Quieto
  <2>2. Situado(m)' /\ CopiaFiel(m)'
    BY <1>1, <1>3, <2>1, CopiaSigue DEF Quieto
  <2>3. QED
    BY <1>2, <2>2 DEF Nodo
<1>4. CASE ~Trabajando(m)
  <2>1. ~Trabajando(m)'
    BY <1>4 DEF Trabajando, Quieto
  <2>2. Situado(m)'
    BY <1>1, <1>4, <2>1 DEF Nodo, Situado, Quieto
  <2>3. QED
    BY <1>2, <2>1, <2>2 DEF Nodo, CopiaFiel
<1>5. QED
  BY <1>3, <1>4

\* A step that only one node takes.
LEMMA PasoDeUno ==
    ASSUME IInvR, Cola', TipoNodo', TipoLock', TipoSfc', Recuerda, counter <= counter',
           NEW n \in Node, WidUnico', Nodo(n)',
           \A m \in Node : m # n => Quieto(m) /\ (Trabajando(m) => Respeta(actual[m], wid[m]))
    PROVE  IInvR'
<1>1. TypeOKR'
  BY TipoSiguiente
<1>2. ASSUME NEW m \in Node PROVE Nodo(m)'
  BY NodoQuieto
<1>3. QED
  BY <1>1, <1>2 DEF IInvR

\* A step that no node takes: requests, the operator, time.
LEMMA PasoDeNadie ==
    ASSUME IInvR, PasoFiel, UNCHANGED nodoVars, TipoLock', TipoSfc', Recuerda
    PROVE  IInvR'
<1>1. TipoNodo' /\ WidUnico' /\ \A m \in Node : Quieto(m)
  BY TipoPorPartes DEF nodoVars, TipoNodo, IInvR, WidUnico, Quieto
<1>2. TypeOKR'
  BY <1>1, TipoSiguiente DEF PasoFiel
<1>3. ASSUME NEW m \in Node PROVE Nodo(m)'
  <2>1. Trabajando(m) => actual[m] \in Id /\ wid[m] \in WorkerId
    BY DEF IInvR, Nodo, Situado, ConCopia
  <2>2. QED
    BY <1>1, <2>1, NodoQuieto DEF PasoFiel, RespetaTodo
<1>4. QED
  BY <1>1, <1>2, <1>3 DEF IInvR, PasoFiel

\* The scripts respect the copies of the other nodes.
LEMMA Respetados ==
    ASSUME IInvR, PasoFiel, NEW m \in Node, Trabajando(m)
    PROVE  Respeta(actual[m], wid[m])
BY DEF IInvR, Nodo, Situado, ConCopia, PasoFiel, RespetaTodo

\* A node goes on with the item it has claimed.
LEMMA Avanza ==
    ASSUME IInvR, PasoFiel, TipoSfc', Recuerda, NEW n \in Node, NEW f \in ConCopia \cup {"soltar"},
           Trabajando(n), Ir(n, f), motivo' \in [Node -> Motivo],
           UNCHANGED <<wid, porLeer, lote, actual, copia, caso, fallas, lockVars>>,
           f = "persistir" => /\ copia[n].payload \in enviados'[copia[n].slot]
                              /\ <<actual[n], copia[n].version>> \in confirmados',
           f \in {"crm", "cerrar"} =>
              fase[n] \in {"crm", "cerrar"} \/ item'[actual[n]].sfc_completado
    PROVE  IInvR'
<1>1. TypeOKR /\ Cola /\ Nodo(n) /\ TipoNodo /\ TipoLock
  BY TipoPorPartes DEF IInvR
<1>2. /\ wid' = wid /\ porLeer' = porLeer /\ lote' = lote /\ actual' = actual /\ copia' = copia
      /\ caso' = caso /\ fallas' = fallas /\ jobLock' = jobLock /\ casoLock' = casoLock
      /\ fase' = [fase EXCEPT ![n] = f]
  BY DEF lockVars, Ir
<1>3. f \in Fase
  BY DEF ConCopia, Fase
<1>4. fase' \in [Node -> Fase] /\ fase'[n] = f /\ \A m \in Node : m # n => fase'[m] = fase[m]
  BY <1>1, <1>2, <1>3 DEF TipoNodo
<1>5. TipoNodo' /\ TipoLock'
  BY <1>1, <1>2, <1>4 DEF TipoNodo, TipoLock
<1>6. WidUnico'
  BY <1>2 DEF IInvR, WidUnico
<1>7. Nodo(n)'
  <2>1. Situado(n)' /\ CopiaFiel(n)'
    BY <1>1, <1>2, <1>4, Respetados, CopiaSigue DEF PasoFiel, RespetaTodo
  <2>2. PorConfirmar(n)'
    BY <1>2, <1>4 DEF PorConfirmar
  <2>3. QED
    BY <2>1, <2>2 DEF Nodo
<1>8. \A m \in Node : m # n => Quieto(m) /\ (Trabajando(m) => Respeta(actual[m], wid[m]))
  BY <1>2, <1>4, Respetados DEF Quieto
<1>9. QED
  BY <1>5, <1>6, <1>7, <1>8, PasoDeUno DEF PasoFiel, RespetaTodo

\* A node without an item: before a claim, and after it.
LEMMA SinCopia ==
    ASSUME IInvR, Cola', counter <= counter', TipoNodo', TipoLock', Recuerda, TipoSfc',
           WidUnico', NEW n \in Node, copia'[n] = SinItem, fase'[n] \notin ConCopia,
           fase'[n] # "libre" => wid'[n] \in WorkerId,
           fase'[n] = "reclamar" => actual'[n] \in Id,
           \A m \in Node : m # n => Quieto(m) /\ (Trabajando(m) => Respeta(actual[m], wid[m]))
    PROVE  IInvR'
<1>2. ~Trabajando(n)'
  BY DEF Trabajando
<1>3. Nodo(n)'
  BY <1>2 DEF Nodo, Situado, CopiaFiel, PorConfirmar, ConCopia
<1>4. QED
  BY <1>3, PasoDeUno

-----------------------------------------------------------------------------
(* One lemma per step of the cycle.                                         *)

\* A step that leaves the store alone keeps it sound.
LEMMA ColaQuieta ==
    ASSUME IInvR, UNCHANGED colaVars, Recuerda
    PROVE  PasoFiel
BY GuionNada DEF IInvR

\* A step on the store that leaves the SFC alone.
LEMMA SfcQuieta ==
    ASSUME IInvR, UNCHANGED sfcVars
    PROVE  Recuerda /\ TipoSfc' /\ enviados' = enviados
BY TipoPorPartes DEF sfcVars, Recuerda, TipoSfc

\* The worker ids stay distinct when none is given,
LEMMA WidQuieto ==
    ASSUME IInvR, wid' = wid
    PROVE  WidUnico'
BY DEF IInvR, WidUnico

\* and when a cycle ends and forgets its own.
LEMMA WidLibre ==
    ASSUME IInvR, NEW n \in Node, wid' = [wid EXCEPT ![n] = Nadie]
    PROVE  WidUnico'
<1>1. wid'[n] = Nadie /\ \A m \in Node : m # n => wid'[m] = wid[m]
  BY TipoPorPartes DEF TipoNodo
<1>2. QED
  BY <1>1, ConstantesAssumption DEF IInvR, WidUnico

\* Outside the places of a claimed item a node holds no copy.
LEMMA SinItemEnMano ==
    ASSUME IInvR, NEW n \in Node, fase[n] \notin ConCopia \cup {"soltar"}
    PROVE  copia[n] = SinItem /\ ~Trabajando(n)
BY DEF IInvR, Nodo, Situado, Trabajando

\* A cycle starts with a worker id of its own and no item.
LEMMA PasoIniciar ==
    ASSUME IInvR, NEW n \in Node, IniciarCiclo(n)
    PROVE  IInvR' /\ PasoCola
<1>1. TipoNodo /\ TipoLock /\ fase[n] = "libre" /\ UNCHANGED colaVars /\ UNCHANGED sfcVars
  BY TipoPorPartes DEF IniciarCiclo
<1>2. PICK w \in WorkerId : Fresco(w) /\ wid' = [wid EXCEPT ![n] = w]
  BY DEF IniciarCiclo
<1>3. /\ fase' = [fase EXCEPT ![n] = "inicio"] /\ jobLock' = n /\ casoLock' = casoLock
      /\ porLeer' = porLeer /\ lote' = lote /\ actual' = actual /\ copia' = copia
      /\ caso' = caso /\ motivo' = motivo /\ fallas' = fallas
  BY DEF IniciarCiclo, Ir
<1>4. /\ fase' \in [Node -> Fase] /\ fase'[n] = "inicio"
      /\ wid' \in [Node -> WorkerId \cup {Nadie}] /\ wid'[n] = w
      /\ \A m \in Node : m # n => fase'[m] = fase[m] /\ wid'[m] = wid[m]
  BY <1>1, <1>2, <1>3 DEF TipoNodo, Fase
<1>5. TipoNodo' /\ TipoLock'
  BY <1>1, <1>3, <1>4 DEF TipoNodo, TipoLock
<1>6. WidUnico'
  <2>1. \A m \in Node : m # n => wid'[m] # w
    BY <1>2, <1>4 DEF Fresco
  <2>2. QED
    BY <1>4, <2>1 DEF IInvR, WidUnico
<1>7. copia'[n] = SinItem
  BY <1>1, <1>3, SinItemEnMano DEF ConCopia
<1>8. Recuerda /\ TipoSfc' /\ enviados' = enviados
  BY <1>1, SfcQuieta
<1>9. PasoFiel
  BY <1>1, <1>8, ColaQuieta
<1>10. \A m \in Node : m # n => Quieto(m) /\ (Trabajando(m) => Respeta(actual[m], wid[m]))
  BY <1>3, <1>4, <1>9, Respetados DEF Quieto
<1>11. IInvR'
  BY <1>4, <1>5, <1>6, <1>7, <1>8, <1>9, <1>10, SinCopia DEF PasoFiel, RespetaTodo, ConCopia
<1>12. QED
  BY <1>9, <1>11 DEF PasoFiel

\* A job lock set by a call whose answer was lost is held by nobody at work.
LEMMA PasoJobLockPerdido ==
    ASSUME IInvR, NEW n \in Node, JobLockPerdido(n)
    PROVE  IInvR' /\ PasoCola
<1>1. UNCHANGED nodoVars /\ UNCHANGED colaVars /\ UNCHANGED sfcVars /\ jobLock' = n /\ casoLock' = casoLock
  BY DEF JobLockPerdido
<1>2. TipoLock' /\ Recuerda /\ TipoSfc'
  BY <1>1, TipoPorPartes, SfcQuieta DEF TipoLock
<1>3. PasoFiel
  BY <1>1, <1>2, ColaQuieta
<1>4. QED
  BY <1>1, <1>2, <1>3, PasoDeNadie DEF PasoFiel

\* The steps before a claim only touch what a node has listed.
LEMMA PasoListado ==
    ASSUME IInvR, NEW n \in Node, UNCHANGED colaVars,
           fase[n] \in {"inicio", "listar"}, NEW f \in {"listar", "lote", "fin"}, Ir(n, f),
           porLeer' \in [Node -> SUBSET Id],
           lote' \in [Node -> SUBSET [id : Id, version : Nat, slot : Slot]],
           UNCHANGED <<wid, actual, copia, caso, motivo, fallas, lockVars, sfcVars>>
    PROVE  IInvR' /\ PasoCola
<1>1. TipoNodo /\ TipoLock
  BY TipoPorPartes
<1>2. /\ fase' = [fase EXCEPT ![n] = f] /\ jobLock' = jobLock /\ casoLock' = casoLock
      /\ wid' = wid /\ actual' = actual /\ copia' = copia
      /\ caso' = caso /\ motivo' = motivo /\ fallas' = fallas
  BY DEF Ir, lockVars
<1>3. f \in Fase /\ f # "libre" /\ f # "reclamar" /\ f \notin ConCopia
  BY DEF Fase, ConCopia
<1>4. fase' \in [Node -> Fase] /\ fase'[n] = f /\ \A m \in Node : m # n => fase'[m] = fase[m]
  BY <1>1, <1>2, <1>3 DEF TipoNodo
<1>5. TipoNodo' /\ TipoLock'
  BY <1>1, <1>2, <1>4 DEF TipoNodo, TipoLock
<1>6. copia'[n] = SinItem /\ wid'[n] \in WorkerId
  BY <1>2, SinItemEnMano DEF ConCopia, IInvR, Nodo, Situado
<1>7. Recuerda /\ TipoSfc' /\ enviados' = enviados
  BY SfcQuieta
<1>8. PasoFiel
  BY <1>7, ColaQuieta
<1>9. \A m \in Node : m # n => Quieto(m) /\ (Trabajando(m) => Respeta(actual[m], wid[m]))
  BY <1>2, <1>4, <1>8, Respetados DEF Quieto
<1>10. IInvR'
  BY <1>2, <1>3, <1>4, <1>5, <1>6, <1>7, <1>8, <1>9, SinCopia, WidQuieto DEF PasoFiel, RespetaTodo
<1>11. QED
  BY <1>8, <1>10 DEF PasoFiel

\* The listing of the due items reads the store and changes nothing of it.
LEMMA PasoListarVencidos ==
    ASSUME IInvR, NEW n \in Node, ListarVencidos(n)
    PROVE  IInvR' /\ PasoCola
<1>1. TipoNodo
  BY TipoPorPartes
<1>2. \E f \in {"listar", "lote", "fin"} : Ir(n, f)
  BY DEF ListarVencidos
<1>3. porLeer' \in [Node -> SUBSET Id]
  BY <1>1 DEF ListarVencidos, TipoNodo
<1>4. UNCHANGED colaVars /\ UNCHANGED <<wid, lote, actual, copia, caso, motivo, fallas, lockVars, sfcVars>>
  BY DEF ListarVencidos
<1>5. fase[n] \in {"inicio", "listar"}
  BY DEF ListarVencidos
<1>6. QED
  BY <1>1, <1>2, <1>3, <1>4, <1>5, PasoListado DEF TipoNodo

\* The batch keeps the id, version and slot of the item, which may be stale at once.
LEMMA PasoLeerPendiente ==
    ASSUME IInvR, NEW n \in Node, NEW i \in Id, LeerPendiente(n, i)
    PROVE  IInvR' /\ PasoCola
<1>1. TipoNodo
  BY TipoPorPartes
<1>2. \E f \in {"listar", "lote", "fin"} : Ir(n, f)
  BY DEF LeerPendiente
<1>3. porLeer' \in [Node -> SUBSET Id]
  BY <1>1 DEF LeerPendiente, TipoNodo
<1>4. lote' \in [Node -> SUBSET [id : Id, version : Nat, slot : Slot]]
  <2>1. Vivo(i) => item[i].version \in Nat /\ item[i].slot \in Slot
    BY ColaTipos DEF Vivo, Item, IInvR
  <2>2. CASE lote' = lote
    BY <1>1, <2>2 DEF TipoNodo
  <2>3. CASE lote' # lote
    <3>1. Vivo(i) /\ lote' = [lote EXCEPT ![n] = @ \cup
                         {[id |-> i, version |-> item[i].version, slot |-> item[i].slot]}]
      BY <2>3 DEF LeerPendiente
    <3>2. PICK r \in [id : Id, version : Nat, slot : Slot] :
             lote' = [lote EXCEPT ![n] = lote[n] \cup {r}]
      BY <2>1, <3>1
    <3>3. QED
      BY <1>1, <3>2 DEF TipoNodo
  <2>4. QED
    BY <2>2, <2>3
<1>5. UNCHANGED colaVars /\ UNCHANGED <<wid, actual, copia, caso, motivo, fallas, lockVars, sfcVars>>
  BY DEF LeerPendiente
<1>6. fase[n] \in {"inicio", "listar"}
  BY DEF LeerPendiente
<1>7. QED
  BY <1>1, <1>2, <1>3, <1>4, <1>5, <1>6, PasoListado

\* A listing that fails ends the cycle without touching the store.
LEMMA PasoErrorListado ==
    ASSUME IInvR, NEW n \in Node, ErrorListado(n)
    PROVE  IInvR' /\ PasoCola
<1>1. TipoNodo
  BY TipoPorPartes
<1>2. /\ Ir(n, "fin") /\ UNCHANGED colaVars /\ porLeer' = porLeer /\ lote' = lote
      /\ UNCHANGED <<wid, actual, copia, caso, motivo, fallas, lockVars, sfcVars>>
      /\ fase[n] \in {"inicio", "listar"}
  BY DEF ErrorListado
<1>3. QED
  BY <1>1, <1>2, PasoListado DEF TipoNodo

\* The lock of the case is taken before the claim of the item.
LEMMA PasoTomarCaso ==
    ASSUME IInvR, NEW n \in Node, NEW r \in lote[n], TomarCaso(n, r)
    PROVE  IInvR' /\ PasoCola
<1>1. TipoNodo /\ TipoLock /\ fase[n] = "lote" /\ UNCHANGED colaVars /\ UNCHANGED sfcVars
  BY TipoPorPartes DEF TomarCaso
<1>2. /\ fase' = [fase EXCEPT ![n] = "reclamar"] /\ jobLock' = jobLock
      /\ casoLock' = [casoLock EXCEPT ![CasoDe[r.slot]] = n]
      /\ caso' = [caso EXCEPT ![n] = CasoDe[r.slot]] /\ actual' = [actual EXCEPT ![n] = r.id]
      /\ lote' = [lote EXCEPT ![n] = @ \ {r}] /\ motivo' = [motivo EXCEPT ![n] = "omitido"]
      /\ wid' = wid /\ porLeer' = porLeer /\ copia' = copia /\ fallas' = fallas
  BY DEF TomarCaso, Ir
<1>3. r.id \in Id /\ CasoDe[r.slot] \in Caso
  BY <1>1, ReintentosAssumption DEF TipoNodo
<1>4. /\ fase' \in [Node -> Fase] /\ fase'[n] = "reclamar"
      /\ actual' \in [Node -> 0..MaxId] /\ actual'[n] \in Id
      /\ \A m \in Node : m # n => fase'[m] = fase[m] /\ actual'[m] = actual[m]
  BY <1>1, <1>2, <1>3, ConstantesAssumption DEF TipoNodo, Fase, Id
<1>5. caso' \in [Node -> Caso \cup {Nadie}] /\ motivo' \in [Node -> Motivo]
  BY <1>1, <1>2, <1>3 DEF TipoNodo, Motivo
<1>6. lote' \in [Node -> SUBSET [id : Id, version : Nat, slot : Slot]]
  BY <1>1, <1>2 DEF TipoNodo
<1>7. casoLock' \in [Caso -> Node \cup Peticion \cup {Nadie}]
  BY <1>1, <1>2, <1>3 DEF TipoLock
<1>8. TipoNodo' /\ TipoLock'
  BY <1>1, <1>2, <1>4, <1>5, <1>6, <1>7 DEF TipoNodo, TipoLock
<1>9. copia'[n] = SinItem /\ wid'[n] \in WorkerId
  BY <1>1, <1>2, SinItemEnMano DEF ConCopia, IInvR, Nodo, Situado
<1>10. Recuerda /\ TipoSfc' /\ enviados' = enviados
  BY <1>1, SfcQuieta
<1>11. PasoFiel
  BY <1>1, <1>10, ColaQuieta
<1>12. \A m \in Node : m # n => Quieto(m) /\ (Trabajando(m) => Respeta(actual[m], wid[m]))
  BY <1>2, <1>4, <1>11, Respetados DEF Quieto
<1>13. fase'[n] \notin ConCopia
  BY <1>4 DEF ConCopia
<1>14. IInvR'
  BY <1>2, <1>4, <1>8, <1>9, <1>10, <1>11, <1>12, <1>13, SinCopia, WidQuieto DEF PasoFiel, RespetaTodo
<1>15. QED
  BY <1>11, <1>14 DEF PasoFiel

\* An item of the list is left for another cycle.
LEMMA PasoDescarta ==
    ASSUME IInvR, NEW n \in Node, NEW r, lote' = [lote EXCEPT ![n] = @ \ {r}], PasoFiel,
           fase[n] \in {"lote", "diferir"}, TipoLock',
           UNCHANGED <<fase, wid, porLeer, actual, copia, caso, motivo, fallas, sfcVars>>
    PROVE  IInvR'
<1>1. TipoNodo
  BY TipoPorPartes
<1>2. TipoNodo'
  BY <1>1 DEF TipoNodo
<1>3. copia'[n] = SinItem /\ wid'[n] \in WorkerId /\ fase'[n] \notin ConCopia /\ fase'[n] # "reclamar"
  BY SinItemEnMano DEF ConCopia, IInvR, Nodo, Situado
<1>4. Recuerda /\ TipoSfc' /\ enviados' = enviados
  BY SfcQuieta
<1>5. \A m \in Node : m # n => Quieto(m) /\ (Trabajando(m) => Respeta(actual[m], wid[m]))
  BY Respetados DEF Quieto
<1>6. QED
  BY <1>2, <1>3, <1>4, <1>5, SinCopia, WidQuieto DEF PasoFiel, RespetaTodo

\* An item whose case is busy, or whose lock Redis does not grant, stays unclaimed.
LEMMA PasoSaltarItem ==
    ASSUME IInvR, NEW n \in Node, NEW r \in lote[n], SaltarItem(n, r)
    PROVE  IInvR' /\ PasoCola
<1>1. TipoNodo /\ TipoLock /\ UNCHANGED colaVars /\ UNCHANGED sfcVars
  BY TipoPorPartes DEF SaltarItem
<1>2. CasoDe[r.slot] \in Caso
  BY <1>1, ReintentosAssumption DEF TipoNodo
<1>3. TipoLock'
  <2>1. jobLock' = jobLock /\ (casoLock' = casoLock \/ casoLock' = [casoLock EXCEPT ![CasoDe[r.slot]] = n])
    BY DEF SaltarItem
  <2>2. QED
    BY <1>1, <1>2, <2>1 DEF TipoLock
<1>4. PasoFiel
  BY <1>1, SfcQuieta, ColaQuieta
<1>5. /\ lote' = [lote EXCEPT ![n] = @ \ {r}] /\ fase[n] \in {"lote", "diferir"}
      /\ UNCHANGED <<fase, wid, porLeer, actual, copia, caso, motivo, fallas, sfcVars>>
  BY DEF SaltarItem
<1>6. QED
  BY <1>3, <1>4, <1>5, PasoDescarta DEF PasoFiel

\* Deferring goes by the version that was listed, drops the claim and moves the due time.
LEMMA PasoDiferirUno ==
    ASSUME IInvR, NEW n \in Node, NEW r \in lote[n], DiferirUno(n, r)
    PROVE  IInvR' /\ PasoCola
<1>1. TipoNodo /\ TipoLock /\ UNCHANGED lockVars /\ UNCHANGED sfcVars
  BY TipoPorPartes DEF DiferirUno
<1>2. r.id \in Id
  BY <1>1 DEF TipoNodo
<1>3. TipoLock'
  BY <1>1 DEF TipoLock, lockVars
<1>4. PasoFiel
  <2>1. Recuerda /\ Cola
    BY <1>1, SfcQuieta DEF IInvR
  <2>2. Diferir(r.id, r.version) \/ UNCHANGED colaVars
    BY DEF DiferirUno
  <2>3. QED
    BY <1>2, <2>1, <2>2, GuionSuelta, ColaQuieta
<1>5. /\ lote' = [lote EXCEPT ![n] = @ \ {r}] /\ fase[n] \in {"lote", "diferir"}
      /\ UNCHANGED <<fase, wid, porLeer, actual, copia, caso, motivo, fallas, sfcVars>>
  BY DEF DiferirUno
<1>6. QED
  BY <1>3, <1>4, <1>5, PasoDescarta DEF PasoFiel

\* The script of a claim respects the copies of the other cycles.
LEMMA ReclamoAjeno ==
    ASSUME IInvR, Recuerda, NEW n \in Node, wid[n] \in WorkerId, NEW i \in Id, Reclamar(i, wid[n]),
           NEW m \in Node, m # n, Trabajando(m)
    PROVE  Respeta(actual[m], wid[m])
<1>1. wid[m] \in WorkerId /\ wid[m] # wid[n] /\ actual[m] \in Id
  BY DEF IInvR, WidUnico, Nodo, Situado, ConCopia
<1>2. QED
  BY <1>1, GuionReclamar DEF IInvR

\* The claim returns the item as it is now: the copy is exact.
LEMMA PasoReclamarItem ==
    ASSUME IInvR, NEW n \in Node, ReclamarItem(n)
    PROVE  IInvR' /\ PasoCola
<1>1. TipoNodo /\ TipoLock /\ Cola /\ fase[n] = "reclamar" /\ UNCHANGED sfcVars /\ Nodo(n)
  BY TipoPorPartes DEF ReclamarItem, IInvR
<1>2. PICK i \in Id : i = actual[n]
  BY <1>1 DEF Nodo, Situado
<1>3. /\ fase' = [fase EXCEPT ![n] = FaseTrasClaim(item[i])] /\ copia' = [copia EXCEPT ![n] = item'[i]]
      /\ motivo' = [motivo EXCEPT ![n] = "normal"] /\ jobLock' = jobLock /\ casoLock' = casoLock
      /\ wid' = wid /\ porLeer' = porLeer /\ lote' = lote /\ actual' = actual /\ caso' = caso
      /\ fallas' = fallas /\ Reclamar(i, wid[n])
  BY <1>2 DEF ReclamarItem, Ir, lockVars
<1>4. wid[n] \in WorkerId /\ Recuerda /\ TipoSfc'
  BY <1>1, SfcQuieta DEF Nodo, Situado
<1>5. /\ PasoCola /\ Cola' /\ counter' = counter /\ claim'[i] = wid[n]
      /\ item'[i] = [item[i] EXCEPT !.estado = "PROCESSING"] /\ Existe(i) /\ i <= counter /\ Existe(i)'
  BY <1>1, <1>3, <1>4, GuionReclamar
<1>6. item'[i] \in Item /\ item'[i].version \in 1..MaxVersion /\ item'[i] # SinItem
  BY <1>5 DEF Cola, IInv, TypeOK, VersionesValidas, Existe
<1>7. item'[i].sfc_completado <=> item[i].sfc_completado
  <2>1. item[i] \in Item
    BY <1>1, <1>5, ColaTipos
  <2>2. QED
    BY <1>5, <2>1 DEF Item
<1>8. /\ fase' \in [Node -> Fase] /\ fase'[n] = FaseTrasClaim(item[i])
      /\ copia' \in [Node -> Item \cup {SinItem}] /\ copia'[n] = item'[i]
      /\ \A m \in Node : m # n => fase'[m] = fase[m] /\ copia'[m] = copia[m]
  BY <1>1, <1>3, <1>6 DEF TipoNodo, FaseTrasClaim, Fase
<1>9. motivo' \in [Node -> Motivo]
  BY <1>1, <1>3 DEF TipoNodo, Motivo
<1>10. TipoNodo' /\ TipoLock'
  BY <1>1, <1>3, <1>8, <1>9 DEF TipoNodo, TipoLock
<1>11. Nodo(n)'
  <2>1. fase'[n] \in {"sfc", "crm"} /\ (fase'[n] = "crm" => item'[i].sfc_completado)
    BY <1>7, <1>8 DEF FaseTrasClaim
  <2>2. Trabajando(n)'
    BY <1>6, <1>8 DEF Trabajando
  <2>3. actual'[n] = i /\ wid'[n] = wid[n]
    BY <1>2, <1>3
  <2>4. Situado(n)'
    BY <1>4, <1>5, <1>6, <1>8, <2>1, <2>2, <2>3 DEF Situado, ConCopia
  <2>5. CopiaFiel(n)'
    BY <1>6, <1>8, <2>1, <2>3 DEF CopiaFiel
  <2>6. QED
    BY <2>1, <2>4, <2>5 DEF Nodo, PorConfirmar
<1>12. \A m \in Node : m # n => Quieto(m) /\ (Trabajando(m) => Respeta(actual[m], wid[m]))
  BY <1>3, <1>4, <1>8, ReclamoAjeno DEF Quieto
<1>13. IInvR'
  <2>1. counter <= counter'
    BY <1>1, <1>5, ColaTipos
  <2>2. QED
    BY <1>3, <1>4, <1>5, <1>10, <1>11, <1>12, <2>1, PasoDeUno, WidQuieto
<1>14. QED
  BY <1>5, <1>13

\* A claim refused, or granted with its answer lost, leaves the node without an item.
LEMMA PasoNoReclamado ==
    ASSUME IInvR, NEW n \in Node, NoReclamado(n)
    PROVE  IInvR' /\ PasoCola
<1>1. TipoNodo /\ TipoLock /\ Cola /\ fase[n] = "reclamar" /\ UNCHANGED sfcVars /\ Nodo(n)
  BY TipoPorPartes DEF NoReclamado, IInvR
<1>2. PICK i \in Id : i = actual[n]
  BY <1>1 DEF Nodo, Situado
<1>3. /\ fase' = [fase EXCEPT ![n] = "soltar"] /\ copia' = copia
      /\ motivo' = motivo /\ jobLock' = jobLock /\ casoLock' = casoLock
      /\ wid' = wid /\ porLeer' = porLeer /\ lote' = lote /\ actual' = actual /\ caso' = caso
      /\ fallas' = fallas /\ (Reclamar(i, wid[n]) \/ UNCHANGED colaVars)
  BY <1>2 DEF NoReclamado, Ir, lockVars
<1>4. wid[n] \in WorkerId /\ Recuerda /\ TipoSfc' /\ enviados' = enviados
  BY <1>1, SfcQuieta DEF Nodo, Situado
<1>5. /\ fase' \in [Node -> Fase] /\ fase'[n] = "soltar"
      /\ \A m \in Node : m # n => fase'[m] = fase[m]
  BY <1>1, <1>3 DEF TipoNodo, Fase
<1>6. TipoNodo' /\ TipoLock'
  BY <1>1, <1>3, <1>5 DEF TipoNodo, TipoLock
<1>7. /\ PasoCola /\ Cola' /\ counter <= counter'
      /\ \A m \in Node : m # n /\ Trabajando(m) => Respeta(actual[m], wid[m])
  <2>1. CASE UNCHANGED colaVars
    BY <1>4, <2>1, ColaQuieta, Respetados DEF PasoFiel, RespetaTodo
  <2>2. CASE Reclamar(i, wid[n])
    <3>1. PasoCola /\ Cola' /\ counter' = counter
      BY <1>1, <1>4, <2>2, GuionReclamar
    <3>2. counter <= counter'
      BY <1>1, <3>1, ColaTipos
    <3>3. QED
      BY <1>4, <2>2, <3>1, <3>2, ReclamoAjeno
  <2>3. QED
    BY <1>3, <2>1, <2>2
<1>8. copia'[n] = SinItem /\ fase'[n] \notin ConCopia
  BY <1>1, <1>3, <1>5, SinItemEnMano DEF ConCopia
<1>9. \A m \in Node : m # n => Quieto(m) /\ (Trabajando(m) => Respeta(actual[m], wid[m]))
  BY <1>3, <1>5, <1>7 DEF Quieto
<1>10. IInvR'
  BY <1>3, <1>4, <1>5, <1>6, <1>7, <1>8, <1>9, SinCopia, WidQuieto
<1>11. QED
  BY <1>7, <1>10

\* What a node with an item may count on.
LEMMA EnMano ==
    ASSUME IInvR, NEW n \in Node, fase[n] \in ConCopia \cup {"soltar"}, Trabajando(n)
    PROVE  /\ actual[n] \in Id /\ wid[n] \in WorkerId /\ copia[n] \in Item
           /\ copia[n].version \in 1..MaxVersion /\ copia[n].version \in Nat
           /\ copia[n].slot \in Slot /\ copia[n].payload \in Payload
           /\ Cola /\ Nodo(n) /\ TipoNodo /\ TipoSfc
<1>1. /\ actual[n] \in Id /\ wid[n] \in WorkerId /\ copia[n] \in Item
      /\ copia[n].version \in 1..MaxVersion /\ Cola /\ Nodo(n) /\ TipoNodo /\ TipoSfc
  BY TipoPorPartes DEF IInvR, Nodo, Situado, ConCopia, Trabajando, TipoNodo
<1>2. QED
  BY <1>1 DEF Item

\* In the places of a claimed item the node works with its copy.
LEMMA EnConCopia ==
    ASSUME IInvR, NEW n \in Node, fase[n] \in ConCopia
    PROVE  Trabajando(n)
BY DEF IInvR, Nodo, Situado

\* CopiaExacta, from the invariant.
LEMMA CopiaVale ==
    ASSUME IInvR, NEW n \in Node, Trabajando(n),
           Autorizado(actual[n], wid[n], copia[n].version)
    PROVE  LET x == item[actual[n]] IN
           /\ x.slot = copia[n].slot /\ x.payload = copia[n].payload
           /\ x.intentos = copia[n].intentos
           /\ copia[n].sfc_completado => x.sfc_completado
           /\ fase[n] \in {"crm", "cerrar"} => x.sfc_completado
BY DEF IInvR, Nodo, CopiaFiel, Autorizado, EsDueno, VersionVigente

\* A script refused for a stale version or a lost claim respects every worker.
LEMMA Rechazo ==
    ASSUME IInvR, Recuerda, NEW n \in Node, fase[n] \in ConCopia, Trabajando(n),
           Rechazado(actual[n], wid[n], copia[n].version)
    PROVE  PasoFiel
<1>1. actual[n] \in Id /\ wid[n] \in WorkerId /\ copia[n].version \in 1..MaxVersion /\ Cola
  BY EnMano
<1>2. CASE RechazarTransicion(actual[n], wid[n], copia[n].version)
  BY <1>1, <1>2, GuionSuelta
<1>3. CASE UNCHANGED colaVars
  BY <1>1, <1>3, GuionNada
<1>4. QED
  BY <1>2, <1>3 DEF Rechazado

\* The SFC takes the content of the copy.
LEMMA Acepta ==
    ASSUME IInvR, NEW n \in Node, fase[n] = "sfc", Aceptar(n), confirmados \subseteq confirmados'
    PROVE  /\ Recuerda /\ enviados' \in [Slot -> SUBSET Payload]
           /\ copia[n].payload \in enviados'[copia[n].slot]
<1>1. PICK s \in Slot, p \in Payload : s = copia[n].slot /\ p = copia[n].payload
  BY EnMano, EnConCopia DEF ConCopia
<1>2. enviados' = [enviados EXCEPT ![s] = @ \cup {p}] /\ enviados \in [Slot -> SUBSET Payload]
  BY <1>1, TipoPorPartes DEF Aceptar, TipoSfc
<1>3. Recuerda
  BY <1>2 DEF Recuerda
<1>4. enviados' \in [Slot -> SUBSET Payload] /\ p \in enviados'[s]
  BY <1>2
<1>5. QED
  BY <1>1, <1>3, <1>4

\* The content the SFC takes is the one of the copy, remembered as sent.
LEMMA PasoEnviarSfcOk ==
    ASSUME IInvR, NEW n \in Node, EnviarSfcOk(n)
    PROVE  IInvR' /\ PasoCola
<1>1. /\ fase[n] = "sfc" /\ fase[n] \in ConCopia /\ Aceptar(n) /\ Ir(n, "persistir") /\ UNCHANGED colaVars
      /\ UNCHANGED <<wid, porLeer, lote, actual, copia, caso, fallas, lockVars>>
      /\ motivo' = motivo /\ perdidos' = perdidos
      /\ confirmados' = confirmados \cup {<<actual[n], copia[n].version>>}
  BY DEF EnviarSfcOk, ConCopia
<1>2. Trabajando(n)
  BY <1>1, EnConCopia
<1>3. /\ Recuerda /\ enviados' \in [Slot -> SUBSET Payload]
      /\ copia[n].payload \in enviados'[copia[n].slot]
  BY <1>1, Acepta
<1>4. TipoSfc' /\ motivo' \in [Node -> Motivo]
  <2>1. <<actual[n], copia[n].version>> \in Id \X Nat /\ TipoSfc /\ TipoNodo
    BY <1>1, <1>2, EnMano
  <2>2. QED
    BY <1>1, <1>3, <2>1 DEF TipoSfc, TipoNodo
<1>5. PasoFiel
  BY <1>1, <1>3, ColaQuieta
<1>6. IInvR'
  BY <1>1, <1>2, <1>3, <1>4, <1>5, Avanza DEF ConCopia
<1>7. QED
  BY <1>5, <1>6 DEF PasoFiel

\* A failed call (whose content the SFC may have taken) leaves the copy and its claim.
LEMMA PasoEnviarSfcFalla ==
    ASSUME IInvR, NEW n \in Node, NEW m \in Motivo, EnviarSfcFalla(n, m)
    PROVE  IInvR' /\ PasoCola
<1>1. /\ fase[n] = "sfc" /\ fase[n] \in ConCopia /\ Ir(n, "fallar") /\ UNCHANGED colaVars
      /\ UNCHANGED <<wid, porLeer, lote, actual, copia, caso, fallas, lockVars>>
      /\ motivo' = [motivo EXCEPT ![n] = m] /\ perdidos' = perdidos /\ confirmados' = confirmados
      /\ enviados' = enviados \/ Aceptar(n)
  BY DEF EnviarSfcFalla, ConCopia
<1>2. Trabajando(n)
  BY <1>1, EnConCopia
<1>3. TipoSfc /\ TipoNodo
  BY TipoPorPartes
<1>4. Recuerda /\ enviados' \in [Slot -> SUBSET Payload]
  <2>1. CASE enviados' = enviados
    BY <1>1, <1>3, <2>1 DEF Recuerda, TipoSfc
  <2>2. CASE Aceptar(n)
    BY <1>1, <2>2, Acepta
  <2>3. QED
    BY <1>1, <2>1, <2>2
<1>5. TipoSfc' /\ motivo' \in [Node -> Motivo]
  BY <1>1, <1>3, <1>4 DEF TipoSfc, TipoNodo
<1>6. PasoFiel
  BY <1>1, <1>4, ColaQuieta
<1>7. IInvR'
  BY <1>1, <1>2, <1>4, <1>5, <1>6, Avanza DEF ConCopia
<1>8. QED
  BY <1>6, <1>7 DEF PasoFiel

\* A step with an item that changes neither the SFC nor the reason.
LEMMA AvanzaCallado ==
    ASSUME IInvR, PasoFiel, NEW n \in Node, NEW f \in ConCopia \cup {"soltar"}, f # "persistir",
           fase[n] \in ConCopia, Ir(n, f),
           UNCHANGED <<wid, porLeer, lote, actual, copia, caso, motivo, fallas, lockVars, enviados>>,
           confirmados' = confirmados, TipoSfc',
           f \in {"crm", "cerrar"} =>
              fase[n] \in {"crm", "cerrar"} \/ item'[actual[n]].sfc_completado
    PROVE  IInvR'
<1>1. Recuerda /\ motivo' \in [Node -> Motivo] /\ Trabajando(n)
  BY EnConCopia, TipoPorPartes DEF Recuerda, TipoNodo
<1>2. QED
  BY <1>1, Avanza

\* SFC_DONE is recorded for the version that was sent, refused, or lost with Redis.
LEMMA PasoPersistirSfc ==
    ASSUME IInvR, NEW n \in Node, PersistirSfc(n)
    PROVE  IInvR' /\ PasoCola
<1> DEFINE v == copia[n].version
           M == MarcarSfcCompletado(actual[n], wid[n], v, copia[n].payload)
<1>1. /\ fase[n] = "persistir" /\ fase[n] \in ConCopia
      /\ UNCHANGED <<wid, porLeer, lote, actual, copia, caso, motivo, fallas, lockVars, enviados>>
      /\ confirmados' = confirmados
      /\ \/ M /\ Ir(n, "crm") /\ perdidos' = perdidos
         \/ Rechazado(actual[n], wid[n], v) /\ Ir(n, "soltar") /\ perdidos' = perdidos
         \/ M /\ Ir(n, "soltar") /\ perdidos' = perdidos
         \/ UNCHANGED colaVars /\ Ir(n, "soltar") /\ PierdeConfirmacion(n)
  BY DEF PersistirSfc, ConCopia
<1>2. /\ Trabajando(n) /\ Recuerda /\ actual[n] \in Id /\ wid[n] \in WorkerId /\ Cola /\ Nodo(n)
      /\ copia[n].payload \in Payload /\ TipoSfc /\ fase[n] \in ConCopia
  BY <1>1, EnConCopia, EnMano DEF Recuerda
<1>3. ASSUME M PROVE PasoFiel /\ item'[actual[n]].sfc_completado
  <2>1. Autorizado(actual[n], wid[n], copia[n].version)
    BY <1>3 DEF MarcarSfcCompletado
  <2>2. item[actual[n]].slot = copia[n].slot /\ item[actual[n]].payload = copia[n].payload
    BY <1>2, <2>1, CopiaVale
  <2>3. copia[n].payload \in enviados'[item[actual[n]].slot]
    BY <1>1, <1>2, <2>2 DEF Nodo, PorConfirmar
  <2>4. QED
    BY <1>2, <1>3, <2>2, <2>3, GuionMarcar
<1>4. CASE M /\ perdidos' = perdidos /\ (Ir(n, "crm") \/ Ir(n, "soltar"))
  <2>1. TipoSfc'
    BY <1>1, <1>2, <1>4 DEF TipoSfc
  <2>2. IInvR'
    BY <1>1, <1>3, <1>4, <2>1, AvanzaCallado DEF ConCopia
  <2>3. QED
    BY <1>3, <1>4, <2>2 DEF PasoFiel
<1>5. CASE Rechazado(actual[n], wid[n], v) /\ Ir(n, "soltar") /\ perdidos' = perdidos
  <2>1. TipoSfc'
    BY <1>1, <1>2, <1>5 DEF TipoSfc
  <2>2. PasoFiel
    BY <1>2, <1>5, Rechazo
  <2>3. IInvR'
    BY <1>1, <1>5, <2>1, <2>2, AvanzaCallado DEF ConCopia
  <2>4. QED
    BY <2>2, <2>3 DEF PasoFiel
<1>6. CASE UNCHANGED colaVars /\ Ir(n, "soltar") /\ PierdeConfirmacion(n)
  <2>1. PasoFiel
    BY <1>2, <1>6, ColaQuieta
  <2>2. perdidos' = perdidos \cup {<<actual[n], copia[n].version>>}
    BY <1>1, <1>6 DEF PierdeConfirmacion
  <2>3. <<actual[n], copia[n].version>> \in confirmados
    BY <1>1, <1>2 DEF Nodo, PorConfirmar
  <2>4. TipoSfc'
    BY <1>1, <1>2, <2>2, <2>3 DEF TipoSfc
  <2>5. IInvR'
    BY <1>1, <1>6, <2>1, <2>4, AvanzaCallado DEF ConCopia
  <2>6. QED
    BY <2>1, <2>5 DEF PasoFiel
<1>7. QED
  BY <1>1, <1>4, <1>5, <1>6

\* The webhook is called with the SFC already done.
LEMMA PasoNotificarCrmOk ==
    ASSUME IInvR, NEW n \in Node, NotificarCrmOk(n)
    PROVE  IInvR' /\ PasoCola
<1>1. /\ fase[n] = "crm" /\ fase[n] \in ConCopia /\ Ir(n, "cerrar") /\ UNCHANGED colaVars
      /\ UNCHANGED <<wid, porLeer, lote, actual, copia, caso, motivo, fallas, lockVars, enviados>>
      /\ UNCHANGED sfcVars /\ confirmados' = confirmados
  BY DEF NotificarCrmOk, ConCopia, sfcVars
<1>2. Recuerda /\ TipoSfc'
  BY <1>1, SfcQuieta
<1>3. PasoFiel
  BY <1>1, <1>2, ColaQuieta
<1>4. IInvR'
  BY <1>1, <1>2, <1>3, AvanzaCallado DEF ConCopia
<1>5. QED
  BY <1>3, <1>4 DEF PasoFiel

\* A webhook that fails leaves sfc_completado as it was.
LEMMA PasoNotificarCrmFalla ==
    ASSUME IInvR, NEW n \in Node, NEW m \in Motivo, NotificarCrmFalla(n, m)
    PROVE  IInvR' /\ PasoCola
<1>1. /\ fase[n] = "crm" /\ fase[n] \in ConCopia /\ Ir(n, "fallar") /\ UNCHANGED colaVars
      /\ UNCHANGED <<wid, porLeer, lote, actual, copia, caso, fallas, lockVars>>
      /\ motivo' = [motivo EXCEPT ![n] = m] /\ UNCHANGED sfcVars
  BY DEF NotificarCrmFalla, ConCopia
<1>2. Recuerda /\ TipoSfc' /\ Trabajando(n)
  BY <1>1, SfcQuieta, EnConCopia
<1>3. PasoFiel
  BY <1>1, <1>2, ColaQuieta
<1>4. motivo' \in [Node -> Motivo]
  BY <1>1, TipoPorPartes DEF TipoNodo
<1>5. IInvR'
  BY <1>1, <1>2, <1>3, <1>4, Avanza DEF ConCopia
<1>6. QED
  BY <1>3, <1>5 DEF PasoFiel

\* Only the claimant of the same version removes the item as done.
LEMMA PasoCerrarItem ==
    ASSUME IInvR, NEW n \in Node, CerrarItem(n)
    PROVE  IInvR' /\ PasoCola
<1>1. /\ fase[n] = "cerrar" /\ fase[n] \in ConCopia /\ Ir(n, "soltar")
      /\ UNCHANGED <<wid, porLeer, lote, actual, copia, caso, motivo, fallas, lockVars, enviados>>
      /\ UNCHANGED sfcVars /\ confirmados' = confirmados
      /\ \/ MarcarExitoso(actual[n], wid[n], copia[n].version)
         \/ Rechazado(actual[n], wid[n], copia[n].version)
         \/ UNCHANGED colaVars
  BY DEF CerrarItem, ConCopia, sfcVars
<1>2. /\ Trabajando(n) /\ actual[n] \in Id /\ wid[n] \in WorkerId /\ Cola
      /\ Recuerda /\ TipoSfc'
  BY <1>1, SfcQuieta, EnConCopia, EnMano
<1>3. PasoFiel
  <2>1. CASE MarcarExitoso(actual[n], wid[n], copia[n].version)
    <3>1. item[actual[n]].sfc_completado
      BY <1>1, <1>2, <2>1, CopiaVale DEF MarcarExitoso
    <3>2. QED
      BY <1>2, <2>1, <3>1, GuionExitoso
  <2>2. CASE Rechazado(actual[n], wid[n], copia[n].version)
    BY <1>1, <1>2, <2>2, Rechazo
  <2>3. CASE UNCHANGED colaVars
    BY <1>2, <2>3, ColaQuieta
  <2>4. QED
    BY <1>1, <2>1, <2>2, <2>3
<1>4. IInvR'
  BY <1>1, <1>2, <1>3, AvanzaCallado DEF ConCopia
<1>5. QED
  BY <1>3, <1>4 DEF PasoFiel

\* A failed item is put off or sent to the DLQ by its claimant, or by nobody.
LEMMA PasoFallarItem ==
    ASSUME IInvR, NEW n \in Node, FallarItem(n)
    PROVE  IInvR' /\ PasoCola
<1>1. /\ fase[n] = "fallar" /\ fase[n] \in ConCopia /\ (Ir(n, "soltar") \/ Ir(n, "liberar"))
      /\ UNCHANGED <<wid, porLeer, lote, actual, copia, caso, motivo, fallas, lockVars, enviados>>
      /\ UNCHANGED sfcVars /\ confirmados' = confirmados
      /\ \/ Fallo(n)
         \/ Rechazado(actual[n], wid[n], copia[n].version)
         \/ UNCHANGED colaVars
  BY DEF FallarItem, ConCopia, sfcVars
<1>2. /\ Trabajando(n) /\ actual[n] \in Id /\ wid[n] \in WorkerId /\ Cola /\ copia[n] \in Item
      /\ Recuerda /\ TipoSfc'
  BY <1>1, SfcQuieta, EnConCopia, EnMano
<1>3. PasoFiel
  <2>1. CASE Fallo(n) /\ EsDefinitivo(n)
    BY <1>2, <2>1, GuionDefinitivo DEF Fallo
  <2>2. CASE Fallo(n) /\ ~EsDefinitivo(n)
    <3>1. RegistrarFalloReintentable(actual[n], wid[n], copia[n].version, Consume(n))
      BY <2>2 DEF Fallo
    <3>2. item[actual[n]].intentos = copia[n].intentos /\ copia[n].intentos \in Nat
      BY <1>2, <3>1, CopiaVale DEF RegistrarFalloReintentable, Item
    <3>3. Consume(n) => item[actual[n]].intentos + 1 < MaxIntentos
      BY <2>2, <3>2, ConstantesAssumption DEF EsDefinitivo
    <3>4. Consume(n) \in BOOLEAN
      BY DEF Consume
    <3>5. QED
      BY <1>2, <3>1, <3>3, <3>4, GuionReintentable
  <2>3. CASE Rechazado(actual[n], wid[n], copia[n].version)
    BY <1>1, <1>2, <2>3, Rechazo
  <2>4. CASE UNCHANGED colaVars
    BY <1>2, <2>4, ColaQuieta
  <2>5. QED
    BY <1>1, <2>1, <2>2, <2>3, <2>4
<1>4. IInvR'
  BY <1>1, <1>2, <1>3, AvanzaCallado DEF ConCopia
<1>5. QED
  BY <1>3, <1>4 DEF PasoFiel

\* Deleting a record makes nobody believe anything.
LEMMA BorraIdem ==
    ASSUME Cola, NEW s \in Slot, NEW p \in Payload, idem' = [idem EXCEPT ![s][p] = IdemLibre],
           UNCHANGED <<counter, item, index, pendientes, completados, fallidos, zset, creados,
                       claim, purga>>
    PROVE  SoloIdem /\ IdemHonesto
<1>1. idem \in [Slot -> [Payload -> Idem]] /\ IdemLibre \in Idem
  BY ColaTipos, ConstantesAssumption DEF TypeOK, IdemLibre, Idem, StatusIdem
<1>2. idem' \in [Slot -> [Payload -> Idem]]
  BY <1>1
<1>3. \A t \in Slot, r \in Payload : idem'[t][r] = idem[t][r] \/ idem'[t][r] = IdemLibre
  BY <1>1
<1>4. QED
  BY <1>2, <1>3 DEF SoloIdem, IdemHonesto, IdemLibre

\* The idempotency record is released without touching the item.
LEMMA PasoLiberarIdem ==
    ASSUME IInvR, NEW n \in Node, LiberarIdem(n)
    PROVE  IInvR' /\ PasoCola
<1>1. /\ fase[n] = "liberar" /\ fase[n] \in ConCopia /\ Ir(n, "soltar")
      /\ UNCHANGED <<wid, porLeer, lote, actual, copia, caso, motivo, fallas, lockVars, enviados>>
      /\ UNCHANGED sfcVars /\ confirmados' = confirmados
      /\ UNCHANGED <<counter, item, index, pendientes, completados, fallidos, zset, creados,
                     claim, purga>>
      /\ idem' = [idem EXCEPT ![copia[n].slot][copia[n].payload] = IdemLibre] \/ idem' = idem
  BY DEF LiberarIdem, ConCopia, sfcVars
<1>2. /\ Trabajando(n) /\ copia[n].slot \in Slot /\ copia[n].payload \in Payload /\ Cola
      /\ Recuerda /\ TipoSfc'
  BY <1>1, SfcQuieta, EnConCopia, EnMano
<1>3. PasoFiel
  <2>1. CASE idem' = idem
    BY <1>1, <1>2, <2>1, ColaQuieta DEF colaVars
  <2>2. CASE idem' = [idem EXCEPT ![copia[n].slot][copia[n].payload] = IdemLibre]
    BY <1>1, <1>2, <2>2, BorraIdem, GuionIdem
  <2>3. QED
    BY <1>1, <2>1, <2>2
<1>4. IInvR'
  BY <1>1, <1>2, <1>3, AvanzaCallado DEF ConCopia
<1>5. QED
  BY <1>3, <1>4 DEF PasoFiel

\* The node gives back the lock of the case and forgets its copy.
LEMMA PasoSoltarCaso ==
    ASSUME IInvR, NEW n \in Node, SoltarCaso(n)
    PROVE  IInvR' /\ PasoCola
<1>1. TipoNodo /\ TipoLock /\ fase[n] = "soltar" /\ UNCHANGED colaVars /\ UNCHANGED sfcVars
  BY TipoPorPartes DEF SoltarCaso
<1>2. PICK f \in {"diferir", "lote"} : fase' = [fase EXCEPT ![n] = f]
  BY DEF SoltarCaso, Ir
<1>3. /\ caso' = [caso EXCEPT ![n] = Nadie] /\ actual' = [actual EXCEPT ![n] = 0]
      /\ copia' = [copia EXCEPT ![n] = SinItem] /\ motivo' = [motivo EXCEPT ![n] = "omitido"]
      /\ fallas' = [fallas EXCEPT ![n] = FallasTras(n)]
      /\ jobLock' = jobLock /\ wid' = wid /\ porLeer' = porLeer /\ lote' = lote
      /\ \/ casoLock' = [c \in Caso |-> IF c = caso[n] /\ casoLock[c] = n THEN Nadie ELSE casoLock[c]]
         \/ casoLock' = casoLock
  BY DEF SoltarCaso
<1>4. FallasTras(n) \in Nat
  BY <1>1 DEF FallasTras, TipoNodo
<1>5. /\ fase' \in [Node -> Fase] /\ fase'[n] = f
      /\ copia' \in [Node -> Item \cup {SinItem}] /\ copia'[n] = SinItem
      /\ actual' \in [Node -> 0..MaxId]
      /\ \A m \in Node : m # n => /\ fase'[m] = fase[m] /\ copia'[m] = copia[m]
                                  /\ actual'[m] = actual[m]
  <2>1. f \in Fase /\ 0 \in 0..MaxId
    BY ConstantesAssumption DEF Fase
  <2>2. QED
    BY <1>1, <1>2, <1>3, <2>1 DEF TipoNodo
<1>6. /\ caso' \in [Node -> Caso \cup {Nadie}] /\ motivo' \in [Node -> Motivo]
      /\ fallas' \in [Node -> Nat]
  BY <1>1, <1>3, <1>4 DEF TipoNodo, Motivo
<1>7. casoLock' \in [Caso -> Node \cup Peticion \cup {Nadie}]
  BY <1>1, <1>3 DEF TipoLock
<1>8. TipoNodo' /\ TipoLock'
  BY <1>1, <1>3, <1>5, <1>6, <1>7 DEF TipoNodo, TipoLock
<1>9. wid'[n] \in WorkerId
  BY <1>1, <1>3 DEF IInvR, Nodo, Situado
<1>10. Recuerda /\ TipoSfc'
  BY <1>1, SfcQuieta
<1>11. PasoFiel
  BY <1>1, <1>10, ColaQuieta
<1>12. \A m \in Node : m # n => Quieto(m) /\ (Trabajando(m) => Respeta(actual[m], wid[m]))
  BY <1>3, <1>5, <1>11, Respetados DEF Quieto
<1>13. fase'[n] \notin ConCopia /\ fase'[n] # "reclamar"
  BY <1>2, <1>5 DEF ConCopia
<1>14. IInvR'
  BY <1>3, <1>5, <1>8, <1>9, <1>10, <1>11, <1>12, <1>13, SinCopia, WidQuieto DEF PasoFiel, RespetaTodo
<1>15. QED
  BY <1>11, <1>14 DEF PasoFiel

\* The end of a cycle and the end of a process.
LEMMA PasoLimpiar ==
    ASSUME IInvR, NEW n \in Node, LimpiarNodo(n), UNCHANGED colaVars, TipoLock', TipoSfc', Recuerda
    PROVE  IInvR' /\ PasoCola
<1>1. TipoNodo
  BY TipoPorPartes
<1>2. /\ fase' = [fase EXCEPT ![n] = "libre"] /\ wid' = [wid EXCEPT ![n] = Nadie]
      /\ porLeer' = [porLeer EXCEPT ![n] = {}] /\ lote' = [lote EXCEPT ![n] = {}]
      /\ actual' = [actual EXCEPT ![n] = 0] /\ copia' = [copia EXCEPT ![n] = SinItem]
      /\ caso' = [caso EXCEPT ![n] = Nadie] /\ motivo' = [motivo EXCEPT ![n] = "omitido"]
      /\ fallas' = [fallas EXCEPT ![n] = 0]
  BY DEF LimpiarNodo, Ir
<1>3. /\ fase'[n] = "libre" /\ copia'[n] = SinItem
      /\ \A m \in Node : m # n => Quieto(m)
  BY <1>1, <1>2 DEF TipoNodo, Quieto
<1>4. TipoNodo'
  <2>1. 0 \in 0..MaxId /\ "libre" \in Fase /\ "omitido" \in Motivo
    BY ConstantesAssumption DEF Fase, Motivo
  <2>2. /\ fase' \in [Node -> Fase] /\ wid' \in [Node -> WorkerId \cup {Nadie}]
        /\ actual' \in [Node -> 0..MaxId] /\ copia' \in [Node -> Item \cup {SinItem}]
    BY <1>1, <1>2, <2>1 DEF TipoNodo
  <2>3. /\ porLeer' \in [Node -> SUBSET Id]
        /\ lote' \in [Node -> SUBSET [id : Id, version : Nat, slot : Slot]]
    BY <1>1, <1>2 DEF TipoNodo
  <2>4. /\ caso' \in [Node -> Caso \cup {Nadie}] /\ motivo' \in [Node -> Motivo]
        /\ fallas' \in [Node -> Nat]
    BY <1>1, <1>2, <2>1 DEF TipoNodo
  <2>5. QED
    BY <2>2, <2>3, <2>4 DEF TipoNodo
<1>5. PasoFiel
  BY ColaQuieta
<1>6. \A m \in Node : m # n => Quieto(m) /\ (Trabajando(m) => Respeta(actual[m], wid[m]))
  BY <1>3, <1>5, Respetados
<1>7. fase'[n] \notin ConCopia /\ fase'[n] # "reclamar"
  BY <1>3 DEF ConCopia
<1>8. IInvR'
  BY <1>2, <1>3, <1>4, <1>5, <1>6, <1>7, SinCopia, WidLibre DEF PasoFiel, RespetaTodo
<1>9. QED
  BY <1>5, <1>8 DEF PasoFiel

\* A cycle that ends forgets its worker id.
LEMMA PasoTerminarCiclo ==
    ASSUME IInvR, NEW n \in Node, TerminarCiclo(n)
    PROVE  IInvR' /\ PasoCola
<1>1. /\ LimpiarNodo(n) /\ UNCHANGED colaVars /\ UNCHANGED sfcVars /\ casoLock' = casoLock
      /\ jobLock' \in {jobLock, Nadie}
  BY DEF TerminarCiclo
<1>2. TipoLock' /\ TipoSfc' /\ Recuerda
  BY <1>1, SfcQuieta, TipoPorPartes DEF TipoLock
<1>3. QED
  BY <1>1, <1>2, PasoLimpiar

\* A node that crashes leaves the store as it is: claims and locks wait for their expiry.
LEMMA PasoCaer ==
    ASSUME IInvR, NEW n \in Node, Caer(n)
    PROVE  IInvR' /\ PasoCola
<1>1. /\ LimpiarNodo(n) /\ UNCHANGED colaVars /\ UNCHANGED lockVars /\ enviados' = enviados
      /\ confirmados' = confirmados /\ PierdeConfirmacion(n)
  BY DEF Caer
<1>2. TipoLock /\ TipoSfc /\ Nodo(n)
  BY TipoPorPartes DEF IInvR
<1>3. fase[n] = "persistir" => <<actual[n], copia[n].version>> \in confirmados
  BY <1>2 DEF Nodo, PorConfirmar
<1>4. TipoLock' /\ TipoSfc' /\ Recuerda
  BY <1>1, <1>2, <1>3 DEF lockVars, TipoLock, TipoSfc, PierdeConfirmacion, Recuerda
<1>5. QED
  BY <1>1, <1>4, PasoLimpiar

\* Every step of a node, or its crash, keeps the invariant and is a step of the store.
LEMMA PasoDeNodo ==
    ASSUME IInvR, NEW n \in Node, PasoNodo(n) \/ Caer(n)
    PROVE  IInvR' /\ PasoCola
BY PasoIniciar, PasoJobLockPerdido, PasoListarVencidos, PasoLeerPendiente, PasoErrorListado,
   PasoTomarCaso, PasoSaltarItem, PasoDiferirUno, PasoReclamarItem, PasoNoReclamado,
   PasoEnviarSfcOk, PasoEnviarSfcFalla, PasoPersistirSfc, PasoNotificarCrmOk,
   PasoNotificarCrmFalla, PasoCerrarItem, PasoFallarItem, PasoLiberarIdem, PasoSoltarCaso,
   PasoTerminarCiclo, PasoCaer DEF PasoNodo

-----------------------------------------------------------------------------
(* Leases and the environment.                                              *)

\* So does the expiry of the job lock, of the lock of a case or of a claim,
LEMMA PasoVencimientos ==
    ASSUME IInvR, Vencimientos
    PROVE  IInvR' /\ PasoCola
<1>1. UNCHANGED nodoVars /\ UNCHANGED sfcVars
  BY DEF Vencimientos, VenceJobLock, VenceCasoLock, VenceClaim
<1>2. TipoLock /\ Recuerda /\ TipoSfc' /\ Cola
  BY <1>1, SfcQuieta, TipoPorPartes
<1>3. PasoFiel /\ TipoLock'
  <2>1. CASE VenceJobLock
    <3>1. jobLock' = Nadie /\ casoLock' = casoLock /\ UNCHANGED colaVars
      BY <2>1 DEF VenceJobLock
    <3>2. QED
      BY <1>2, <3>1, ColaQuieta DEF TipoLock
  <2>2. CASE \E c \in Caso : VenceCasoLock(c)
    <3>1. PICK c \in Caso : VenceCasoLock(c)
      BY <2>2
    <3>2. jobLock' = jobLock /\ casoLock' = [casoLock EXCEPT ![c] = Nadie] /\ UNCHANGED colaVars
      BY <3>1 DEF VenceCasoLock
    <3>3. TipoLock'
      BY <1>2, <3>2 DEF TipoLock
    <3>4. QED
      BY <1>2, <3>2, <3>3, ColaQuieta
  <2>3. CASE \E i \in Id : VenceClaim(i)
    <3>1. PICK i \in Id : ExpirarClaim(i) /\ UNCHANGED lockVars
      BY <2>3 DEF VenceClaim
    <3>2. PasoFiel
      BY <1>2, <3>1, GuionSuelta
    <3>3. TipoLock'
      BY <1>2, <3>1 DEF TipoLock, lockVars
    <3>4. QED
      BY <3>2, <3>3
  <2>4. QED
    BY <2>1, <2>2, <2>3 DEF Vencimientos
<1>4. IInvR'
  BY <1>1, <1>2, <1>3, PasoDeNadie
<1>5. QED
  BY <1>3, <1>4 DEF PasoFiel

\* and every call of others: enqueue, cancel, requeue, due time, the locks of requests.
LEMMA PasoAmbiente ==
    ASSUME IInvR, Ambiente
    PROVE  IInvR' /\ PasoCola
<1>1. UNCHANGED nodoVars /\ UNCHANGED sfcVars
  BY DEF Ambiente, TomarCasoPeticion, SoltarCasoPeticion
<1>2. TipoLock /\ Recuerda /\ TipoSfc' /\ Cola
  BY <1>1, SfcQuieta, TipoPorPartes
<1>3. PasoFiel /\ TipoLock'
  <2>1. CASE \E q \in Peticion, c \in Caso : TomarCasoPeticion(q, c) \/ SoltarCasoPeticion(q, c)
    <3>1. PICK q \in Peticion, c \in Caso : TomarCasoPeticion(q, c) \/ SoltarCasoPeticion(q, c)
      BY <2>1
    <3>2. /\ jobLock' = jobLock /\ UNCHANGED colaVars
          /\ casoLock' = [casoLock EXCEPT ![c] = q] \/ casoLock' = [casoLock EXCEPT ![c] = Nadie]
      BY <3>1 DEF TomarCasoPeticion, SoltarCasoPeticion
    <3>3. TipoLock'
      BY <1>2, <3>2 DEF TipoLock
    <3>4. QED
      BY <1>2, <3>2, <3>3, ColaQuieta
  <2>2. CASE /\ \/ \E s \in Slot, p \in Payload : Encolar(s, p)
                \/ \E s \in Slot, i \in Id, p \in Payload : Cancelar(s, i, p)
                \/ \E i \in Id : Reencolar(i) \/ Vencer(i)
             /\ UNCHANGED lockVars
    <3>1. TipoLock'
      BY <1>2, <2>2 DEF TipoLock, lockVars
    <3>2. PasoFiel
      BY <1>2, <2>2, GuionEncolar, GuionCancelar, GuionReencolar, GuionSuelta
    <3>3. QED
      BY <3>1, <3>2
  <2>3. QED
    BY <2>1, <2>2 DEF Ambiente
<1>4. IInvR'
  BY <1>1, <1>2, <1>3, PasoDeNadie
<1>5. QED
  BY <1>3, <1>4 DEF PasoFiel

-----------------------------------------------------------------------------
(* What follows for every choice of Fallos.                                 *)

\* The inductive invariant holds at the start.
LEMMA InvarianteInicial == InitR => IInvR
<1> SUFFICES ASSUME InitR PROVE IInvR
  OBVIOUS
<1>1. Init /\ IInv
  BY IInvInicial DEF InitR
<1>2. (\A i \in Id : ~Existe(i)) /\ \A s \in Slot, p \in Payload : idem[s][p].status = "LIBRE"
  BY <1>1 DEF Init, Existe, IdemLibre
<1>3. Cola
  BY <1>1, <1>2 DEF Cola, VersionesValidas, PendienteReintentable, ConfirmadoFueEnviado, Vivo
<1>4. TipoNodo /\ TipoLock /\ TipoSfc
  <2>1. 0 \in 0..MaxId /\ "libre" \in Fase /\ "omitido" \in Motivo
    BY ConstantesAssumption DEF Fase, Motivo
  <2>2. TipoNodo
    BY <2>1 DEF InitR, TipoNodo
  <2>3. TipoLock /\ TipoSfc
    BY DEF InitR, TipoLock, TipoSfc
  <2>4. QED
    BY <2>2, <2>3
<1>5. \A n \in Node : fase[n] = "libre" /\ wid[n] = Nadie /\ copia[n] = SinItem
  BY DEF InitR
<1>6. WidUnico
  BY <1>5, ConstantesAssumption DEF WidUnico
<1>7. \A n \in Node : Nodo(n)
  BY <1>5 DEF Nodo, Situado, CopiaFiel, PorConfirmar, Trabajando, ConCopia
<1>8. QED
  BY <1>1, <1>3, <1>4, <1>6, <1>7, TipoPorPartes DEF IInvR, IInv

\* Every step keeps it and is a step of the store, or leaves the store alone.
LEMMA InvariantePaso ==
    ASSUME IInvR, [NextR]_vars
    PROVE  IInvR' /\ PasoCola
<1>1. CASE NextR
  BY <1>1, PasoDeNodo, PasoVencimientos, PasoAmbiente DEF NextR
<1>2. CASE UNCHANGED vars
  <2>1. UNCHANGED nodoVars /\ UNCHANGED colaVars /\ UNCHANGED sfcVars /\ UNCHANGED lockVars
    BY <1>2 DEF vars
  <2>2. Recuerda /\ TipoSfc' /\ TipoLock'
    BY <2>1, SfcQuieta, TipoPorPartes DEF TipoLock, lockVars
  <2>3. PasoFiel
    BY <2>1, <2>2, ColaQuieta
  <2>4. QED
    BY <2>1, <2>2, <2>3, PasoDeNadie DEF PasoFiel
<1>3. QED
  BY <1>1, <1>2

\* IInvR holds of every reachable state of the retry cycle.
THEOREM InvarianteReintentos == SpecR => []IInvR
<1>1. IInvR /\ [NextR]_vars => IInvR'
  BY InvariantePaso
<1>2. QED
  BY <1>1, InvarianteInicial, PTL DEF SpecR

\* Every reachable state of the retry cycle is well typed, with any number of
\* worker processes that crash, lose leases and lose the answers of Redis.
THEOREM TipadoReintentos == SpecR => []TypeOKR
<1>1. IInvR => TypeOKR
  BY DEF IInvR
<1>2. QED
  BY <1>1, InvarianteReintentos, PTL

\* registrar_fallo computes from the copy: whenever its script accepts, the
\* copy is what Redis holds.
THEOREM CopiaSiempreExacta == SpecR => []CopiaExacta
<1>1. IInvR => CopiaExacta
  BY CopiaVale DEF CopiaExacta
<1>2. QED
  BY <1>1, InvarianteReintentos, PTL

\* No pending item is without attempts: the lister never drops one for good.
THEOREM SiempreReintentable == SpecR => []PendienteReintentable
<1>1. IInvR => PendienteReintentable
  BY DEF IInvR, Cola
<1>2. QED
  BY <1>1, InvarianteReintentos, PTL

\* sfc_completado, COMPLETED and the idempotency record are never written for a
\* content the SFC did not take.
THEOREM ConfirmadoVeraz == SpecR => []ConfirmadoFueEnviado
<1>1. IInvR => ConfirmadoFueEnviado
  BY DEF IInvR, Cola
<1>2. QED
  BY <1>1, InvarianteReintentos, PTL

\* The cycle uses the store as SpecAbierta allows, so all that ColaRedisProofs
\* proves of SpecAbierta holds of the scheduler.
THEOREM ImplementaCola == SpecR => SpecAbierta
<1>1. InitR => Init
  BY DEF InitR
<1>2. IInvR /\ [NextR]_vars => [Next \/ SoloIdem]_colaVars
  BY InvariantePaso DEF PasoCola
<1>3. QED
  BY <1>1, <1>2, InvarianteReintentos, PTL DEF SpecR, SpecAbierta

-----------------------------------------------------------------------------
(* With leases that hold: the lock of a case.                               *)

\* The lock of a case is given to n, given back by n, or runs out.
TomaLock(n) ==
    \E c \in Caso : /\ LockLibre(c) /\ casoLock' = [casoLock EXCEPT ![c] = n]
                    /\ caso' \in {caso, [caso EXCEPT ![n] = c]}
DejaLock(n) ==
    /\ caso' = [caso EXCEPT ![n] = Nadie]
    /\ \/ casoLock' = casoLock
       \/ casoLock' = [c \in Caso |-> IF c = caso[n] /\ casoLock[c] = n THEN Nadie ELSE casoLock[c]]

\* A node takes a free lock of a case, gives back its own, or leaves the locks alone.
LEMMA LockDeNodo ==
    ASSUME TipoNodo, NEW n \in Node, PasoNodo(n) \/ Caer(n)
    PROVE  TomaLock(n) \/ DejaLock(n) \/ UNCHANGED <<caso, casoLock>>
<1>1. ASSUME NEW r \in lote[n] PROVE CasoDe[r.slot] \in Caso
  BY <1>1, ReintentosAssumption DEF TipoNodo
<1>2. CASE \E r \in lote[n] : TomarCaso(n, r) \/ SaltarItem(n, r)
  BY <1>1, <1>2 DEF TomarCaso, SaltarItem, TomaLock
<1>3. CASE SoltarCaso(n) \/ TerminarCiclo(n) \/ Caer(n)
  BY <1>3 DEF SoltarCaso, TerminarCiclo, Caer, LimpiarNodo, DejaLock, lockVars
<1>4. CASE \/ IniciarCiclo(n) \/ JobLockPerdido(n) \/ ListarVencidos(n) \/ ErrorListado(n)
           \/ \E i \in Id : LeerPendiente(n, i)
           \/ \E r \in lote[n] : DiferirUno(n, r)
  BY <1>4 DEF IniciarCiclo, JobLockPerdido, ListarVencidos, ErrorListado, LeerPendiente,
              DiferirUno, nodoVars, lockVars
<1>5. CASE \/ ReclamarItem(n) \/ NoReclamado(n) \/ EnviarSfcOk(n) \/ PersistirSfc(n)
           \/ \E m \in Motivo : EnviarSfcFalla(n, m) \/ NotificarCrmFalla(n, m)
           \/ NotificarCrmOk(n) \/ CerrarItem(n) \/ FallarItem(n) \/ LiberarIdem(n)
  BY <1>5 DEF ReclamarItem, NoReclamado, EnviarSfcOk, PersistirSfc, EnviarSfcFalla,
              NotificarCrmFalla, NotificarCrmOk, CerrarItem, FallarItem, LiberarIdem, lockVars
<1>6. QED
  BY <1>2, <1>3, <1>4, <1>5 DEF PasoNodo

\* So a step of a node keeps at most one of them on a case,
LEMMA ExclusionNodo ==
    ASSUME TipoNodo, TipoLock, ExclusionPorCaso, NEW n \in Node, PasoNodo(n) \/ Caer(n)
    PROVE  ExclusionPorCaso'
<1> SUFFICES ASSUME NEW m \in Node, caso'[m] # Nadie PROVE casoLock'[caso'[m]] = m
  BY DEF ExclusionPorCaso
<1>1. Nadie \notin Node
  BY ReintentosAssumption
<1>2. caso[m] # Nadie => caso[m] \in Caso /\ casoLock[caso[m]] = m
  BY DEF ExclusionPorCaso, TipoNodo
<1>3. CASE TomaLock(n)
  <2>1. PICK c \in Caso : /\ casoLock[c] = Nadie /\ casoLock' = [casoLock EXCEPT ![c] = n]
                          /\ caso' = caso \/ caso' = [caso EXCEPT ![n] = c]
    BY <1>3 DEF TomaLock, LockLibre
  <2>2. caso'[m] = caso[m] \/ (m = n /\ caso'[m] = c)
    BY <2>1 DEF TipoNodo
  <2>3. QED
    BY <1>1, <1>2, <2>1, <2>2 DEF TipoLock
<1>4. CASE DejaLock(n)
  <2>1. m # n /\ caso'[m] = caso[m]
    BY <1>4 DEF DejaLock, TipoNodo
  <2>2. QED
    BY <1>2, <1>4, <2>1 DEF DejaLock
<1>5. CASE UNCHANGED <<caso, casoLock>>
  BY <1>2, <1>5
<1>6. QED
  BY <1>3, <1>4, <1>5, LockDeNodo

\* the expiry of a lock too, while no lease is lost by a node at work,
LEMMA ExclusionVence ==
    ASSUME TipoNodo, TipoLock, ExclusionPorCaso, "lease" \notin Fallos, Vencimientos
    PROVE  ExclusionPorCaso'
<1>1. caso' = caso
  BY DEF Vencimientos, VenceJobLock, VenceCasoLock, VenceClaim, nodoVars
<1>2. CASE casoLock' = casoLock
  BY <1>1, <1>2 DEF ExclusionPorCaso
<1>3. CASE \E c \in Caso : VenceCasoLock(c)
  <2>1. PICK c \in Caso : caso[casoLock[c]] # c /\ casoLock' = [casoLock EXCEPT ![c] = Nadie]
    BY <1>3 DEF VenceCasoLock, LeaseFragil
  <2>2. QED
    BY <1>1, <2>1 DEF ExclusionPorCaso, TipoLock, TipoNodo
<1>4. QED
  BY <1>2, <1>3 DEF Vencimientos, VenceJobLock, VenceClaim, lockVars

\* and so do the requests, which take free locks and give back their own.
LEMMA ExclusionAmbiente ==
    ASSUME TipoNodo, TipoLock, ExclusionPorCaso, Ambiente
    PROVE  ExclusionPorCaso'
<1>1. caso' = caso
  BY DEF Ambiente, TomarCasoPeticion, SoltarCasoPeticion, nodoVars
<1>2. CASE casoLock' = casoLock
  BY <1>1, <1>2 DEF ExclusionPorCaso
<1>3. CASE \E q \in Peticion, c \in Caso : TomarCasoPeticion(q, c) \/ SoltarCasoPeticion(q, c)
  <2>1. PICK q \in Peticion, c \in Caso : TomarCasoPeticion(q, c) \/ SoltarCasoPeticion(q, c)
    BY <1>3
  <2>2. casoLock[c] \notin Node
    BY <2>1, ReintentosAssumption DEF TomarCasoPeticion, SoltarCasoPeticion, LockLibre
  <2>3. \A d \in Caso : d # c => casoLock'[d] = casoLock[d]
    BY <2>1 DEF TomarCasoPeticion, SoltarCasoPeticion, TipoLock
  <2>4. QED
    BY <1>1, <2>2, <2>3 DEF ExclusionPorCaso, TipoNodo
<1>4. QED
  BY <1>2, <1>3 DEF Ambiente, lockVars

\* Two processes never work on the same case, workers and requests, as long as
\* the heartbeats keep the leases.
THEOREM CasoExclusivo ==
    ASSUME "lease" \notin Fallos
    PROVE  SpecR => []ExclusionPorCaso
<1>1. InitR => ExclusionPorCaso
  BY DEF InitR, ExclusionPorCaso
<1>2. IInvR /\ ExclusionPorCaso /\ [NextR]_vars => ExclusionPorCaso'
  <2> SUFFICES ASSUME IInvR, ExclusionPorCaso, [NextR]_vars PROVE ExclusionPorCaso'
    OBVIOUS
  <2>1. TipoNodo /\ TipoLock
    BY TipoPorPartes
  <2>2. CASE NextR
    BY <2>1, <2>2, ExclusionNodo, ExclusionVence, ExclusionAmbiente DEF NextR
  <2>3. CASE UNCHANGED vars
    BY <2>3 DEF vars, nodoVars, lockVars, ExclusionPorCaso
  <2>4. QED
    BY <2>2, <2>3
<1>3. QED
  BY <1>1, <1>2, InvarianteReintentos, PTL DEF SpecR

-----------------------------------------------------------------------------
(* With leases that hold: nothing confirmed is sent again.                  *)

\* What a script leaves of an item: the same version keeps its confirmation.
Hereda(i) ==
    i <= counter /\ Existe(i)' =>
        /\ Existe(i) /\ item[i].version <= item'[i].version
        /\ item'[i].version = item[i].version /\ item[i].sfc_completado => item'[i].sfc_completado

\* Every script leaves the items of the same version with their confirmation.
LEMMA ItemHereda ==
    ASSUME IInv, PasoCola, NEW i \in Id
    PROVE  Hereda(i)
<1> SUFFICES ASSUME i <= counter, Existe(i)'
             PROVE  /\ Existe(i) /\ item[i].version <= item'[i].version
                    /\ item'[i].version = item[i].version /\ item[i].sfc_completado
                         => item'[i].sfc_completado
  BY DEF Hereda
<1>0. /\ TypeOK /\ item \in [Id -> Item \cup {SinItem}] /\ counter \in Nat
      /\ Existe(i) => item[i] \in Item /\ item[i].version \in Nat
  BY ExisteEsItem DEF IInv, TypeOK, Item
<1>1. CASE item'[i] = item[i]
  BY <1>0, <1>1 DEF Existe
<1>2. CASE \E s \in Slot, p \in Payload : EncolarSobrescribe(s, p)
  <2>1. PICK s \in Slot, p \in Payload : EncolarSobrescribe(s, p)
    BY <1>2
  <2>2. CASE i = index[s]
    <3>1. Existe(i) /\ item'[i] = ItemEncolado(item[i].slot, p, item[i].version + 1)
      BY <1>0, <2>1, <2>2 DEF EncolarSobrescribe, SlotOcupado, Vivo, VersionSiguiente
    <3>2. QED
      BY <1>0, <3>1 DEF ItemEncolado
  <2>3. CASE i # index[s]
    BY <1>0, <1>1, <2>1, <2>3 DEF EncolarSobrescribe
  <2>4. QED
    BY <2>2, <2>3
<1>3. CASE \E s \in Slot, p \in Payload : EncolarNuevo(s, p)
  <2>1. PICK s \in Slot, p \in Payload : EncolarNuevo(s, p)
    BY <1>3
  <2>2. item' = [item EXCEPT ![counter + 1] = ItemEncolado(s, p, 1)] /\ i # counter + 1
    BY <1>0, <2>1 DEF EncolarNuevo, Id
  <2>3. QED
    BY <1>0, <1>1, <2>2
<1>4. ASSUME NEW j \in Id, Existe(j), NEW y, item' = [item EXCEPT ![j] = y],
             item[j] \in Item => /\ y.version = item[j].version \/ y.version = item[j].version + 1
                                 /\ item[j].sfc_completado => y.sfc_completado
      PROVE  /\ Existe(i) /\ item[i].version <= item'[i].version
             /\ item'[i].version = item[i].version /\ item[i].sfc_completado
                  => item'[i].sfc_completado
  <2>1. CASE i = j
    BY <1>0, <1>4, <2>1
  <2>2. CASE i # j
    BY <1>0, <1>1, <1>4, <2>2
  <2>3. QED
    BY <2>1, <2>2
<1>5. CASE \E j \in Id, w \in WorkerId : Reclamar(j, w)
  <2>1. PICK j \in Id, w \in WorkerId : Reclamar(j, w)
    BY <1>5
  <2>2. Existe(j) /\ item' = [item EXCEPT ![j] = [item[j] EXCEPT !.estado = "PROCESSING"]]
    BY <1>0, <2>1 DEF Reclamar, Reclamable, Vivo
  <2>3. QED
    BY <1>4, <2>2 DEF Item
<1>6. CASE \E j \in Id : Reencolar(j)
  <2>1. PICK j \in Id : Reencolar(j)
    BY <1>6
  <2>2. Existe(j) /\ item' = [item EXCEPT ![j] = [item[j] EXCEPT !.estado = "PENDING",
                                           !.intentos = 0, !.version = item[j].version + 1]]
    BY <1>0, <2>1 DEF Reencolar, VersionSiguiente
  <2>3. QED
    BY <1>4, <2>2 DEF Item
<1>7. CASE \E j \in Id, w \in WorkerId, v \in 1..MaxVersion : Escritura(j, w, v)
  <2>1. PICK j \in Id, w \in WorkerId, v \in 1..MaxVersion : Escritura(j, w, v)
    BY <1>7
  <2>2. CASE RechazarTransicion(j, w, v)
    BY <1>1, <2>2 DEF RechazarTransicion
  <2>3. CASE \E p \in Payload : MarcarSfcCompletado(j, w, v, p)
    <3>1. PICK p \in Payload : MarcarSfcCompletado(j, w, v, p)
      BY <2>3
    <3>2. Existe(j) /\ item' = [item EXCEPT ![j] = [item[j] EXCEPT !.sfc_completado = TRUE,
                                             !.estado = "SFC_DONE", !.sfc_response = p]]
      BY <1>0, <3>1 DEF MarcarSfcCompletado, Autorizado, VersionVigente
    <3>3. QED
      BY <1>4, <3>2 DEF Item
  <2>4. CASE MarcarExitoso(j, w, v)
    <3>1. Existe(j) /\ item' = [item EXCEPT ![j] = [item[j] EXCEPT !.estado = "COMPLETED"]]
      BY <1>0, <2>4 DEF MarcarExitoso, Autorizado, VersionVigente
    <3>2. QED
      BY <1>4, <3>1 DEF Item
  <2>5. CASE RegistrarFalloDefinitivo(j, w, v)
    <3>1. Existe(j) /\ item' = [item EXCEPT ![j] = [item[j] EXCEPT !.estado = "FAILED_FINAL",
                                                                  !.intentos = @ + 1]]
      BY <1>0, <2>5 DEF RegistrarFalloDefinitivo, Autorizado, VersionVigente
    <3>2. QED
      BY <1>4, <3>1 DEF Item
  <2>6. CASE \E c \in BOOLEAN : RegistrarFalloReintentable(j, w, v, c)
    <3>1. PICK c \in BOOLEAN : RegistrarFalloReintentable(j, w, v, c)
      BY <2>6
    <3>2. Existe(j) /\ item' = [item EXCEPT ![j] = [item[j] EXCEPT !.estado = "PENDING",
                                             !.intentos = IF c THEN @ + 1 ELSE @]]
      BY <1>0, <3>1 DEF RegistrarFalloReintentable, Autorizado, VersionVigente
    <3>3. QED
      BY <1>4, <3>2 DEF Item
  <2>7. QED
    BY <2>1, <2>2, <2>3, <2>4, <2>5, <2>6 DEF Escritura
<1>8. CASE item'[i] = SinItem
  BY <1>8 DEF Existe
<1>9. CASE \E s \in Slot, j \in Id, p \in Payload : Cancelar(s, j, p)
  BY <1>0, <1>1, <1>8, <1>9 DEF Cancelar
<1>10. CASE PurgaEjecutar
  BY <1>1, <1>8, <1>10 DEF PurgaEjecutar
<1>11. CASE \/ \E j \in Id : ExpirarClaim(j) \/ Vencer(j)
            \/ \E j \in Id, v \in 1..MaxVersion : Diferir(j, v)
            \/ PurgaIniciar \/ (\E j \in Id : PurgaLeer(j)) \/ PurgaAbortar
            \/ SoloIdem \/ UNCHANGED colaVars
  BY <1>1, <1>11 DEF ExpirarClaim, Vencer, Diferir, PurgaIniciar, PurgaLeer, PurgaAbortar, SoloIdem,
                     colaVars
<1>12. QED
  BY <1>2, <1>3, <1>5, <1>6, <1>7, <1>9, <1>10, <1>11 DEF PasoCola, Next, Encolar, Purga

\* The lock of the job: one cycle at a time.
UnSoloCiclo == \A n \in Node : fase[n] # "libre" => jobLock = n

\* A node that is sending still has its claim.
ClaimVigente == \A n \in Node : fase[n] \in {"sfc", "persistir"} => claim[actual[n]] = wid[n]

\* What was confirmed is not a version still to come.
ConfirmadoPasado ==
    \A i \in Id, v \in Nat : <<i, v>> \in confirmados =>
        i <= counter /\ (Existe(i) => v <= item[i].version)

\* A confirmation is in Redis, is about to be written, or was lost.
Pendiente(i, v) == \E n \in Node : fase[n] = "persistir" /\ actual[n] = i /\ copia[n].version = v
Anotado ==
    \A i \in Id, v \in Nat :
        <<i, v>> \in confirmados \ perdidos /\ Existe(i) /\ item[i].version = v =>
            item[i].sfc_completado \/ Pendiente(i, v)

SinConfirmar(n) == fase[n] = "sfc" => <<actual[n], copia[n].version>> \notin confirmados \ perdidos

EntregaInv ==
    /\ UnSoloCiclo /\ ClaimVigente /\ ConfirmadoPasado /\ Anotado
    /\ \A n \in Node : SinConfirmar(n)

\* A step of a node finds every other one idle.
LEMMA LosDemasLibres ==
    ASSUME IInvR, UnSoloCiclo, NEW n \in Node, PasoNodo(n) \/ Caer(n)
    PROVE  /\ \A m \in Node : m # n => fase[m] = "libre" /\ fase'[m] = "libre"
           /\ fase'[n] # "libre" => jobLock' = n
           /\ UnSoloCiclo'
<1>1. TipoNodo /\ Nadie \notin Node
  BY TipoPorPartes, ReintentosAssumption
<1>2. jobLock = Nadie \/ fase[n] # "libre"
  BY DEF PasoNodo, IniciarCiclo, JobLockPerdido, ListarVencidos, LeerPendiente, ErrorListado, TomarCaso,
         SaltarItem, DiferirUno, ReclamarItem, NoReclamado, EnviarSfcOk, EnviarSfcFalla, PersistirSfc,
         NotificarCrmOk, NotificarCrmFalla, CerrarItem, FallarItem, LiberarIdem, SoltarCaso,
         TerminarCiclo, Caer
<1>3. \A m \in Node : m # n => fase[m] = "libre"
  BY <1>1, <1>2 DEF UnSoloCiclo
<1>4. fase' = fase \/ \E f : fase' = [fase EXCEPT ![n] = f]
  BY DEF PasoNodo, IniciarCiclo, JobLockPerdido, ListarVencidos, LeerPendiente, ErrorListado, TomarCaso,
         SaltarItem, DiferirUno, ReclamarItem, NoReclamado, EnviarSfcOk, EnviarSfcFalla, PersistirSfc,
         NotificarCrmOk, NotificarCrmFalla, CerrarItem, FallarItem, LiberarIdem, SoltarCaso,
         TerminarCiclo, Caer, LimpiarNodo, Ir, nodoVars
<1>5. \A m \in Node : m # n => fase'[m] = "libre"
  BY <1>1, <1>3, <1>4 DEF TipoNodo
<1>6. \/ jobLock' = n
      \/ jobLock' = jobLock /\ fase[n] # "libre"
      \/ fase' = [fase EXCEPT ![n] = "libre"]
  BY DEF PasoNodo, IniciarCiclo, JobLockPerdido, ListarVencidos, LeerPendiente, ErrorListado, TomarCaso,
         SaltarItem, DiferirUno, ReclamarItem, NoReclamado, EnviarSfcOk, EnviarSfcFalla, PersistirSfc,
         NotificarCrmOk, NotificarCrmFalla, CerrarItem, FallarItem, LiberarIdem, SoltarCaso,
         TerminarCiclo, Caer, LimpiarNodo, Ir, lockVars
<1>7. fase'[n] # "libre" => jobLock' = n
  BY <1>1, <1>6 DEF UnSoloCiclo, TipoNodo
<1>8. QED
  BY <1>3, <1>5, <1>7 DEF UnSoloCiclo

\* A script keeps what is written about confirmed versions.
LEMMA EscritoQueda ==
    ASSUME IInvR, IInvR', PasoCola, ConfirmadoPasado, Anotado, perdidos \subseteq perdidos',
           NEW i \in Id, NEW v \in Nat, <<i, v>> \in confirmados
    PROVE  /\ i <= counter' /\ (Existe(i)' => v <= item'[i].version)
           /\ <<i, v>> \notin perdidos' /\ Existe(i)' /\ item'[i].version = v =>
                 /\ Existe(i) /\ item[i].version = v
                 /\ item'[i].sfc_completado \/ Pendiente(i, v)
<1>1. Hereda(i) /\ i <= counter /\ (Existe(i) => v <= item[i].version)
  BY ItemHereda DEF IInvR, Cola, ConfirmadoPasado
<1>2. Existe(i)' => /\ Existe(i) /\ item[i].version <= item'[i].version
                    /\ item'[i].version = item[i].version /\ item[i].sfc_completado
                         => item'[i].sfc_completado
  BY <1>1 DEF Hereda
<1>3. /\ Existe(i) => item[i].version \in Nat
      /\ Existe(i)' => item'[i].version \in Nat
  BY DEF IInvR, Cola, VersionesValidas
<1>4. Existe(i)' => v <= item'[i].version
  BY <1>1, <1>2, <1>3
<1>5. i <= counter'
  <2>1. counter \in Nat /\ counter' \in Nat /\ i \in Nat
    BY DEF IInvR, Cola, IInv, TypeOK, Id
  <2>2. counter' = counter \/ counter' = counter + 1
    BY DEF PasoCola, Next, SoloIdem, colaVars, Encolar, EncolarSobrescribe, EncolarNuevo, Reclamar,
               ExpirarClaim, Reencolar, Vencer, Escritura, RechazarTransicion, MarcarSfcCompletado,
               MarcarExitoso, RegistrarFalloDefinitivo, RegistrarFalloReintentable, Diferir, Cancelar,
               Purga, PurgaIniciar, PurgaLeer, PurgaEjecutar, PurgaAbortar
  <2>3. QED
    BY <1>1, <2>1, <2>2
<1>6. ASSUME <<i, v>> \notin perdidos', Existe(i)', item'[i].version = v
      PROVE  Existe(i) /\ item[i].version = v /\ (item'[i].sfc_completado \/ Pendiente(i, v))
  <2>1. Existe(i) /\ item[i].version = v
    BY <1>1, <1>2, <1>3, <1>6
  <2>2. item[i].sfc_completado \/ Pendiente(i, v)
    BY <1>6, <2>1 DEF Anotado
  <2>3. QED
    BY <1>2, <1>6, <2>1, <2>2
<1>7. QED
  BY <1>4, <1>5, <1>6

\* But for the call to the SFC and the claim, a step confirms nothing new.
LEMMA PasosSinEnvio ==
    ASSUME TipoNodo, NEW n \in Node, PasoNodo(n) \/ Caer(n), ~EnviarSfcOk(n), ~ReclamarItem(n)
    PROVE  /\ fase'[n] \notin {"sfc", "persistir"} /\ confirmados' = confirmados
           /\ perdidos' = perdidos \/ PierdeConfirmacion(n)
           /\ fase[n] = "persistir" => PersistirSfc(n) \/ Caer(n)
<1>1. CASE \/ IniciarCiclo(n) \/ JobLockPerdido(n) \/ ListarVencidos(n) \/ ErrorListado(n)
           \/ \E i \in Id : LeerPendiente(n, i)
           \/ \E r \in lote[n] : TomarCaso(n, r) \/ SaltarItem(n, r) \/ DiferirUno(n, r)
  BY <1>1 DEF IniciarCiclo, JobLockPerdido, ListarVencidos, ErrorListado, LeerPendiente, TomarCaso,
              SaltarItem, DiferirUno, nodoVars, sfcVars, Ir, TipoNodo
<1>2. CASE \/ NoReclamado(n) \/ \E m \in Motivo : EnviarSfcFalla(n, m) \/ NotificarCrmFalla(n, m)
           \/ NotificarCrmOk(n) \/ CerrarItem(n) \/ FallarItem(n) \/ LiberarIdem(n)
           \/ SoltarCaso(n)
  BY <1>2 DEF NoReclamado, EnviarSfcFalla, NotificarCrmFalla, NotificarCrmOk, CerrarItem, FallarItem,
              LiberarIdem, SoltarCaso, sfcVars, Ir, TipoNodo
<1>3. CASE PersistirSfc(n)
  BY <1>3 DEF PersistirSfc, Ir, TipoNodo
<1>4. CASE TerminarCiclo(n) \/ Caer(n)
  BY <1>4 DEF TerminarCiclo, Caer, LimpiarNodo, sfcVars, Ir, TipoNodo
<1>5. QED
  BY <1>1, <1>2, <1>3, <1>4 DEF PasoNodo

\* marcar_sfc_completado leaves the confirmation in the item.
LEMMA MarcaQueda ==
    ASSUME IInvR, NEW i \in Id, NEW w, NEW v, NEW p, MarcarSfcCompletado(i, w, v, p)
    PROVE  item'[i].sfc_completado
<1>1. Existe(i) /\ item' = [item EXCEPT ![i].sfc_completado = TRUE, ![i].estado = "SFC_DONE",
                                        ![i].sfc_response = p]
  BY DEF MarcarSfcCompletado, Autorizado, VersionVigente
<1>2. item[i] \in Item /\ item \in [Id -> Item \cup {SinItem}]
  BY <1>1, ColaTipos DEF IInvR, TypeOK
<1>3. QED
  BY <1>1, <1>2 DEF Item

\* Such a step keeps that nothing confirmed is about to be sent again.
LEMMA EntregaSinEnvio ==
    ASSUME IInvR, EntregaInv, NEW n \in Node, PasoNodo(n) \/ Caer(n),
           ~EnviarSfcOk(n), ~ReclamarItem(n)
    PROVE  EntregaInv'
<1>1. IInvR' /\ PasoCola /\ TipoNodo
  BY PasoDeNodo, TipoPorPartes
<1>2. /\ UnSoloCiclo /\ ClaimVigente /\ ConfirmadoPasado /\ Anotado
      /\ \A m \in Node : m # n => fase[m] = "libre" /\ fase'[m] = "libre"
      /\ UnSoloCiclo'
  BY LosDemasLibres DEF EntregaInv
<1>3. /\ fase'[n] \notin {"sfc", "persistir"} /\ confirmados' = confirmados
      /\ perdidos' = perdidos \/ PierdeConfirmacion(n)
      /\ fase[n] = "persistir" => PersistirSfc(n) \/ Caer(n)
  BY <1>1, PasosSinEnvio
<1>4. perdidos \subseteq perdidos'
  BY <1>3 DEF PierdeConfirmacion
<1>5. ClaimVigente' /\ \A m \in Node : SinConfirmar(m)'
  BY <1>2, <1>3 DEF ClaimVigente, SinConfirmar
<1>6. ConfirmadoPasado'
  <2> SUFFICES ASSUME NEW i \in Id, NEW v \in Nat, <<i, v>> \in confirmados'
               PROVE  i <= counter' /\ (Existe(i)' => v <= item'[i].version)
    BY DEF ConfirmadoPasado
  <2>1. QED
    BY <1>1, <1>2, <1>3, <1>4, EscritoQueda
<1>7. Anotado'
  <2> SUFFICES ASSUME NEW i \in Id, NEW v \in Nat, <<i, v>> \in confirmados', <<i, v>> \notin perdidos',
                      Existe(i)', item'[i].version = v
               PROVE  item'[i].sfc_completado
    BY DEF Anotado
  <2>1. Existe(i) /\ item[i].version = v /\ (item'[i].sfc_completado \/ Pendiente(i, v))
    BY <1>1, <1>2, <1>3, <1>4, EscritoQueda
  <2>2. ASSUME Pendiente(i, v) PROVE item'[i].sfc_completado
    <3>1. fase[n] = "persistir" /\ actual[n] = i /\ copia[n].version = v
      BY <1>2, <2>2 DEF Pendiente
    <3>2. ~PierdeConfirmacion(n)
      BY <3>1 DEF PierdeConfirmacion
    <3>3. PersistirSfc(n)
      BY <1>3, <3>1, <3>2 DEF Caer
    <3>4. claim[i] = wid[n]
      BY <1>2, <3>1 DEF ClaimVigente
    <3>5. ~Rechazado(i, wid[n], v)
      BY <2>1, <3>4 DEF Rechazado, RechazarTransicion, EsDueno, VersionVigente
    <3>6. MarcarSfcCompletado(i, wid[n], v, copia[n].payload)
      BY <3>1, <3>2, <3>3, <3>5 DEF PersistirSfc
    <3>7. QED
      BY <3>6, MarcaQueda
  <2>3. QED
    BY <2>1, <2>2
<1>8. QED
  BY <1>2, <1>5, <1>6, <1>7 DEF EntregaInv

\* A claim of an item already confirmed skips the SFC, unless its record was lost.
LEMMA EntregaReclamar ==
    ASSUME IInvR, EntregaInv, NEW n \in Node, ReclamarItem(n)
    PROVE  EntregaInv'
<1>1. IInvR' /\ PasoCola /\ TipoNodo /\ Cola /\ Nodo(n)
  BY PasoDeNodo, TipoPorPartes DEF PasoNodo, IInvR
<1>2. /\ UnSoloCiclo /\ ConfirmadoPasado /\ Anotado
      /\ \A m \in Node : m # n => fase[m] = "libre" /\ fase'[m] = "libre"
      /\ UnSoloCiclo'
  BY LosDemasLibres DEF EntregaInv, PasoNodo
<1>3. PICK j \in Id : j = actual[n]
  BY <1>1 DEF Nodo, Situado, ReclamarItem
<1>4. /\ fase[n] = "reclamar" /\ Reclamar(j, wid[n]) /\ copia' = [copia EXCEPT ![n] = item'[j]]
      /\ actual' = actual /\ wid' = wid /\ confirmados' = confirmados /\ perdidos' = perdidos
      /\ fase' = [fase EXCEPT ![n] = FaseTrasClaim(item[j])]
  BY <1>3 DEF ReclamarItem, sfcVars, Ir
<1>5. wid[n] \in WorkerId
  BY <1>1, <1>4 DEF Nodo, Situado
<1>6. Recuerda
  BY <1>4 DEF ReclamarItem, sfcVars, Recuerda
<1>7. /\ claim'[j] = wid[n] /\ Existe(j) /\ Existe(j)'
      /\ item'[j] = [item[j] EXCEPT !.estado = "PROCESSING"]
  BY <1>1, <1>4, <1>5, <1>6, GuionReclamar
<1>8. item'[j].version = item[j].version /\ item[j].version \in Nat
  <2>1. item[j] \in Item
    BY <1>1, <1>7, ColaTipos
  <2>2. QED
    BY <1>7, <2>1 DEF Item
<1>9. /\ fase'[n] = FaseTrasClaim(item[j]) /\ copia'[n] = item'[j]
      /\ fase'[n] \in {"sfc", "crm"} /\ (fase'[n] = "sfc" => ~item[j].sfc_completado)
  BY <1>1, <1>4 DEF TipoNodo, FaseTrasClaim
<1>10. ClaimVigente'
  BY <1>2, <1>3, <1>4, <1>7, <1>9 DEF ClaimVigente
<1>11. \A i \in Id, v \in Nat : ~Pendiente(i, v)
  BY <1>2, <1>4 DEF Pendiente
<1>12. \A m \in Node : SinConfirmar(m)'
  <2>1. ASSUME fase'[n] = "sfc", <<j, item[j].version>> \in confirmados \ perdidos PROVE FALSE
    BY <1>2, <1>7, <1>8, <1>9, <1>11, <2>1 DEF Anotado
  <2>2. actual'[n] = j /\ copia'[n].version = item[j].version
    BY <1>3, <1>4, <1>8, <1>9
  <2>3. QED
    BY <1>2, <1>4, <2>1, <2>2 DEF SinConfirmar
<1>13. ConfirmadoPasado'
  <2> SUFFICES ASSUME NEW i \in Id, NEW v \in Nat, <<i, v>> \in confirmados'
               PROVE  i <= counter' /\ (Existe(i)' => v <= item'[i].version)
    BY DEF ConfirmadoPasado
  <2>1. QED
    BY <1>1, <1>2, <1>4, EscritoQueda
<1>14. Anotado'
  <2> SUFFICES ASSUME NEW i \in Id, NEW v \in Nat, <<i, v>> \in confirmados', <<i, v>> \notin perdidos',
                      Existe(i)', item'[i].version = v
               PROVE  item'[i].sfc_completado
    BY DEF Anotado
  <2>1. QED
    BY <1>1, <1>2, <1>4, <1>11, EscritoQueda
<1>15. QED
  BY <1>2, <1>10, <1>12, <1>13, <1>14 DEF EntregaInv

\* The SFC confirms a version that was not confirmed before.
LEMMA EntregaEnviar ==
    ASSUME IInvR, EntregaInv, NEW n \in Node, EnviarSfcOk(n)
    PROVE  EntregaInv'
<1>1. IInvR' /\ PasoCola /\ TipoNodo /\ Nodo(n) /\ Cola
  BY PasoDeNodo, TipoPorPartes DEF PasoNodo, IInvR
<1>2. /\ UnSoloCiclo /\ ConfirmadoPasado /\ Anotado /\ ClaimVigente
      /\ \A m \in Node : m # n => fase[m] = "libre" /\ fase'[m] = "libre"
      /\ UnSoloCiclo'
  BY LosDemasLibres DEF EntregaInv, PasoNodo
<1>3. /\ fase[n] = "sfc" /\ fase' = [fase EXCEPT ![n] = "persistir"] /\ UNCHANGED colaVars
      /\ actual' = actual /\ wid' = wid /\ copia' = copia /\ perdidos' = perdidos
      /\ confirmados' = confirmados \cup {<<actual[n], copia[n].version>>}
  BY DEF EnviarSfcOk, Ir
<1>4. fase'[n] = "persistir"
  BY <1>1, <1>3 DEF TipoNodo
<1>5. claim' = claim /\ item' = item /\ counter' = counter
  BY <1>3 DEF colaVars
<1>6. ClaimVigente' /\ \A m \in Node : SinConfirmar(m)'
  BY <1>2, <1>3, <1>4, <1>5 DEF ClaimVigente, SinConfirmar
<1>7. /\ Trabajando(n) /\ actual[n] <= counter
      /\ Existe(actual[n]) => copia[n].version <= item[actual[n]].version
  BY <1>1, <1>3 DEF Nodo, Situado, CopiaFiel, ConCopia
<1>8. ConfirmadoPasado'
  BY <1>2, <1>3, <1>5, <1>7 DEF ConfirmadoPasado, Existe
<1>9. \A i, v : Pendiente(i, v) => Pendiente(i, v)'
  BY <1>2, <1>3 DEF Pendiente
<1>10. Pendiente(actual[n], copia[n].version)'
  BY <1>3, <1>4 DEF Pendiente
<1>11. Anotado'
  <2> SUFFICES ASSUME NEW i \in Id, NEW v \in Nat, <<i, v>> \in confirmados', <<i, v>> \notin perdidos',
                      Existe(i)', item'[i].version = v
               PROVE  item'[i].sfc_completado \/ Pendiente(i, v)'
    BY DEF Anotado
  <2>1. CASE <<i, v>> \in confirmados
    BY <1>2, <1>3, <1>5, <1>9, <2>1 DEF Anotado, Existe
  <2>2. CASE i = actual[n] /\ v = copia[n].version
    BY <1>3, <1>4, <2>2 DEF Pendiente
  <2>3. QED
    BY <1>3, <2>1, <2>2
<1>12. QED
  BY <1>2, <1>6, <1>8, <1>11 DEF EntregaInv

\* A step that no node takes, when it leaves the claims in use alone.
LEMMA EntregaNadie ==
    ASSUME IInvR, IInvR', PasoCola, EntregaInv, UNCHANGED nodoVars, UNCHANGED sfcVars, UnSoloCiclo',
           \A n \in Node : fase[n] \in {"sfc", "persistir"} => claim'[actual[n]] = claim[actual[n]]
    PROVE  EntregaInv'
<1>1. fase' = fase /\ actual' = actual /\ wid' = wid /\ copia' = copia
      /\ confirmados' = confirmados /\ perdidos' = perdidos
  BY DEF nodoVars, sfcVars
<1>2. ConfirmadoPasado /\ Anotado
  BY DEF EntregaInv
<1>3. ClaimVigente' /\ \A m \in Node : SinConfirmar(m)'
  BY <1>1 DEF EntregaInv, ClaimVigente, SinConfirmar
<1>4. \A i, v : Pendiente(i, v) => Pendiente(i, v)'
  BY <1>1 DEF Pendiente
<1>5. ConfirmadoPasado'
  <2> SUFFICES ASSUME NEW i \in Id, NEW v \in Nat, <<i, v>> \in confirmados'
               PROVE  i <= counter' /\ (Existe(i)' => v <= item'[i].version)
    BY DEF ConfirmadoPasado
  <2>1. QED
    BY <1>1, <1>2, EscritoQueda
<1>6. Anotado'
  <2> SUFFICES ASSUME NEW i \in Id, NEW v \in Nat, <<i, v>> \in confirmados', <<i, v>> \notin perdidos',
                      Existe(i)', item'[i].version = v
               PROVE  item'[i].sfc_completado \/ Pendiente(i, v)'
    BY DEF Anotado
  <2>1. QED
    BY <1>1, <1>2, <1>4, EscritoQueda
<1>7. QED
  BY <1>3, <1>5, <1>6 DEF EntregaInv

\* With leases that hold, every step keeps it.
LEMMA EntregaPaso ==
    ASSUME IInvR, EntregaInv, "lease" \notin Fallos, [NextR]_vars
    PROVE  EntregaInv'
<1>1. IInvR' /\ PasoCola
  BY InvariantePaso
<1>2. ASSUME NEW n \in Node, PasoNodo(n) \/ Caer(n) PROVE EntregaInv'
  BY <1>2, EntregaSinEnvio, EntregaReclamar, EntregaEnviar
<1>3. CASE Vencimientos
  <2>1. UNCHANGED nodoVars /\ UNCHANGED sfcVars /\ fase' = fase
    BY <1>3 DEF Vencimientos, VenceJobLock, VenceCasoLock, VenceClaim, nodoVars
  <2>2. UnSoloCiclo'
    <3>1. jobLock' = jobLock \/ fase[jobLock] = "libre"
      BY <1>3 DEF Vencimientos, VenceJobLock, VenceCasoLock, VenceClaim, lockVars, LeaseFragil
    <3>2. QED
      BY <2>1, <3>1 DEF EntregaInv, UnSoloCiclo
  <2>3. ASSUME NEW n \in Node, fase[n] \in {"sfc", "persistir"}
        PROVE  claim'[actual[n]] = claim[actual[n]]
    <3>1. copia[n] # SinItem /\ actual[n] \in Id /\ claim[actual[n]] = wid[n]
      BY <2>3 DEF IInvR, Nodo, Situado, ConCopia, Trabajando, EntregaInv, ClaimVigente
    <3>2. CASE claim' = claim
      BY <3>2
    <3>3. CASE \E i \in Id : VenceClaim(i)
      <4>1. PICK i \in Id : i # actual[n] /\ claim' = [claim EXCEPT ![i] = Nadie]
        BY <3>1, <3>3 DEF VenceClaim, LeaseFragil, ExpirarClaim
      <4>2. QED
        BY <3>1, <4>1 DEF IInvR, Cola, IInv, TypeOK
    <3>4. QED
      BY <1>3, <3>2, <3>3 DEF Vencimientos, VenceJobLock, VenceCasoLock, colaVars
  <2>4. QED
    BY <1>1, <2>1, <2>2, <2>3, EntregaNadie
<1>4. CASE Ambiente \/ UNCHANGED vars
  <2>1. UNCHANGED nodoVars /\ UNCHANGED sfcVars /\ fase' = fase /\ jobLock' = jobLock
    BY <1>4 DEF Ambiente, TomarCasoPeticion, SoltarCasoPeticion, nodoVars, lockVars, vars
  <2>2. claim' = claim
    BY <1>4 DEF Ambiente, TomarCasoPeticion, SoltarCasoPeticion, colaVars, vars, Encolar,
                EncolarSobrescribe, EncolarNuevo, Cancelar, Reencolar, Vencer
  <2>3. UnSoloCiclo'
    BY <2>1 DEF EntregaInv, UnSoloCiclo
  <2>4. QED
    BY <1>1, <2>1, <2>2, <2>3, EntregaNadie
<1>5. QED
  BY <1>2, <1>3, <1>4 DEF NextR

\* A version the SFC has confirmed to a worker is never sent again, unless the
\* confirmation was lost before SFC_DONE could be written.
THEOREM EntregaSinRepetir ==
    ASSUME "lease" \notin Fallos
    PROVE  SpecR => EntregaUnica
<1>1. InitR => EntregaInv
  BY DEF InitR, EntregaInv, UnSoloCiclo, ClaimVigente, ConfirmadoPasado, Anotado, SinConfirmar
<1>2. IInvR /\ EntregaInv /\ [NextR]_vars => EntregaInv'
  BY EntregaPaso
<1>3. EntregaInv => [\A n \in Node : ~EnviaOtraVez(n)]_vars
  BY DEF EntregaInv, SinConfirmar, EnviaOtraVez
<1>4. QED
  BY <1>1, <1>2, <1>3, InvarianteReintentos, PTL DEF SpecR, EntregaUnica

=============================================================================
