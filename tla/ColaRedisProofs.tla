--------------------------- MODULE ColaRedisProofs ---------------------------
(***************************************************************************)
(* Invariance proofs for the queue store, for every number of obligations, *)
(* contents, workers, ids and versions.                                    *)
(***************************************************************************)
EXTENDS ColaRedis, TLAPS

USE DEF Programar, VersionSiguiente, Desocupar, SlotDisponible

\* Ids above the counter have never been used.
IdsAsignados ==
    \A i \in Id : i > counter =>
        ~Existe(i) /\ i \notin pendientes \cup completados \cup fallidos

\* An item key and its entry in created_zset are written and deleted together.
ExistenteCreado == \A i \in Id : Existe(i) => i \in creados

\* What the purge noted as inconsistent stays without item: ids are not reused.
PurgaFiel == \A i \in purga.incons : ~Existe(i) /\ i <= counter

IInv ==
    /\ TypeOK
    /\ IndiceApuntaAlVivo
    /\ PendienteVisible
    /\ EstadoFielAlConjunto
    /\ ClaimSoloDePendiente
    /\ IdsAsignados
    /\ ExistenteCreado
    /\ PurgaFiel

-----------------------------------------------------------------------------
\* What is in Redis under an item key is a record of type Item.
LEMMA ExisteEsItem ==
    ASSUME TypeOK, NEW i \in Id, Existe(i)
    PROVE  item[i] \in Item
  BY DEF TypeOK, Existe

\* Init establishes the type invariant (redis empty).
LEMMA TipoInicial == Init => TypeOK
  BY ConstantesAssumption DEF Init, TypeOK, Id, PurgaInactiva, Idem, IdemLibre, StatusIdem

\* Every script and every step of the purge keeps the type invariant.
LEMMA TipoPaso == TypeOK /\ [Next \/ SoloIdem]_colaVars => TypeOK'
  <1> SUFFICES ASSUME TypeOK, [Next \/ SoloIdem]_colaVars PROVE TypeOK'
    OBVIOUS
  <1> USE ConstantesAssumption
  <1>1. ASSUME NEW s \in Slot, NEW p \in Payload, EncolarSobrescribe(s, p) PROVE TypeOK'
    <2>1. index[s] \in Id /\ Existe(index[s])
      BY <1>1 DEF EncolarSobrescribe, SlotOcupado, Vivo, TypeOK, Id
    <2>2. item[index[s]] \in Item
      BY <2>1, ExisteEsItem
    <2> QED
      BY <1>1, <2>1, <2>2 DEF EncolarSobrescribe, ItemEncolado, TypeOK, Item, Estado, EstadoActivo
  <1>2. ASSUME NEW s \in Slot, NEW p \in Payload, EncolarNuevo(s, p) PROVE TypeOK'
    <2>1. counter + 1 \in Id
      BY <1>2 DEF EncolarNuevo, TypeOK, Id
    <2> QED
      BY <1>2, <2>1 DEF EncolarNuevo, ItemEncolado, TypeOK, Item, Estado, EstadoActivo, Id
  <1>3. ASSUME NEW i \in Id, NEW w \in WorkerId, Reclamar(i, w) PROVE TypeOK'
    <2>1. item[i] \in Item
      BY <1>3, ExisteEsItem DEF Reclamar, Reclamable, Vivo
    <2> QED
      BY <1>3, <2>1 DEF Reclamar, TypeOK, Item, Estado, EstadoActivo
  <1>4. ASSUME NEW i \in Id, ExpirarClaim(i) PROVE TypeOK'
    BY <1>4 DEF ExpirarClaim, TypeOK
  <1>5. ASSUME NEW i \in Id, Reencolar(i) PROVE TypeOK'
    <2>1. item[i] \in Item
      BY <1>5, ExisteEsItem DEF Reencolar
    <2>2. item' \in [Id -> Item \cup {SinItem}]
      BY <1>5, <2>1 DEF Reencolar, TypeOK, Item, Estado, EstadoActivo
    <2>3. index' \in [Slot -> 0..MaxId]
      BY <1>5, <2>1 DEF Reencolar, TypeOK, Item, Id
    <2> QED
      BY <1>5, <2>2, <2>3 DEF Reencolar, TypeOK
  <1>6. ASSUME NEW i \in Id, Vencer(i) PROVE TypeOK'
    BY <1>6 DEF Vencer, TypeOK
  <1>7. ASSUME NEW i \in Id, NEW w \in WorkerId, NEW v \in 1..MaxVersion,
               Escritura(i, w, v) PROVE TypeOK'
    <2>1. CASE RechazarTransicion(i, w, v)
      BY <2>1 DEF RechazarTransicion, TypeOK
    <2>2. ASSUME Autorizado(i, w, v) PROVE item[i] \in Item
      BY <2>2, ExisteEsItem DEF Autorizado, VersionVigente
    <2>3. ASSUME NEW p \in Payload, MarcarSfcCompletado(i, w, v, p) PROVE TypeOK'
      <3>1. item[i] \in Item
        BY <2>2, <2>3 DEF MarcarSfcCompletado
      <3>2. item' \in [Id -> Item \cup {SinItem}]
        BY <2>3, <3>1 DEF MarcarSfcCompletado, TypeOK, Item, Estado, EstadoActivo
      <3>3. item[i].slot \in Slot /\ IdemCompletado \in Idem
        BY <3>1 DEF Item, IdemCompletado, Idem, StatusIdem
      <3>4. idem' \in [Slot -> [Payload -> Idem]]
        BY <2>3, <3>3 DEF MarcarSfcCompletado, TypeOK
      <3> QED
        BY <2>3, <3>2, <3>4 DEF MarcarSfcCompletado, TypeOK
    <2>4. CASE MarcarExitoso(i, w, v)
      <3>1. item[i] \in Item
        BY <2>2, <2>4 DEF MarcarExitoso
      <3>2. item' \in [Id -> Item \cup {SinItem}]
        BY <2>4, <3>1 DEF MarcarExitoso, TypeOK, Item, Estado, EstadoActivo
      <3>3. index' \in [Slot -> 0..MaxId]
        BY <2>4, <3>1 DEF MarcarExitoso, TypeOK, Item, Id
      <3> QED
        BY <2>4, <3>2, <3>3 DEF MarcarExitoso, TypeOK
    <2>5. CASE RegistrarFalloDefinitivo(i, w, v)
      <3>1. item[i] \in Item
        BY <2>2, <2>5 DEF RegistrarFalloDefinitivo
      <3>2. item' \in [Id -> Item \cup {SinItem}]
        BY <2>5, <3>1 DEF RegistrarFalloDefinitivo, TypeOK, Item, Estado, EstadoActivo
      <3>3. index' \in [Slot -> 0..MaxId]
        BY <2>5, <3>1 DEF RegistrarFalloDefinitivo, TypeOK, Item, Id
      <3> QED
        BY <2>5, <3>2, <3>3 DEF RegistrarFalloDefinitivo, TypeOK
    <2>6. ASSUME NEW c \in BOOLEAN, RegistrarFalloReintentable(i, w, v, c) PROVE TypeOK'
      <3>1. item[i] \in Item
        BY <2>2, <2>6 DEF RegistrarFalloReintentable
      <3>2. item' \in [Id -> Item \cup {SinItem}]
        <4>1. CASE c
          BY <2>6, <3>1, <4>1 DEF RegistrarFalloReintentable, TypeOK, Item, Estado, EstadoActivo
        <4>2. CASE ~c
          BY <2>6, <3>1, <4>2 DEF RegistrarFalloReintentable, TypeOK, Item, Estado, EstadoActivo
        <4> QED
          BY <4>1, <4>2
      <3> QED
        BY <2>6, <3>2 DEF RegistrarFalloReintentable, TypeOK
    <2> QED
      BY <1>7, <2>1, <2>3, <2>4, <2>5, <2>6 DEF Escritura
  <1>8. ASSUME NEW i \in Id, NEW v \in 1..MaxVersion, Diferir(i, v) PROVE TypeOK'
    BY <1>8 DEF Diferir, TypeOK
  <1>9. ASSUME NEW s \in Slot, NEW i \in Id, NEW p \in Payload, Cancelar(s, i, p)
        PROVE TypeOK'
    BY <1>9 DEF Cancelar, TypeOK, Id
  <1>10. CASE Purga
    <2>1. CASE PurgaIniciar
      BY <2>1 DEF PurgaIniciar, PurgaInactiva, TypeOK
    <2>2. ASSUME NEW i \in Id, PurgaLeer(i) PROVE TypeOK'
      BY <2>2 DEF PurgaLeer, TypeOK
    <2>3. CASE PurgaEjecutar
      BY <2>3 DEF PurgaEjecutar, PurgaInactiva, TypeOK
    <2>4. CASE PurgaAbortar
      BY <2>4 DEF PurgaAbortar, PurgaInactiva, TypeOK
    <2> QED
      BY <1>10, <2>1, <2>2, <2>3, <2>4 DEF Purga
  <1>11. CASE UNCHANGED colaVars \/ SoloIdem
    BY <1>11 DEF colaVars, SoloIdem, TypeOK
  <1> QED
    BY <1>1, <1>2, <1>3, <1>4, <1>5, <1>6, <1>7, <1>8, <1>9, <1>10, <1>11 DEF Next, Encolar

\* The scripts alone are a special case of the scripts plus the commands of the
\* idempotency service: what is proved of SpecAbierta holds of Spec.
THEOREM CasoCerrado == Spec => SpecAbierta
  BY PTL DEF Spec, SpecAbierta

\* Every reachable state of the store is well typed.
THEOREM TipoCorrecto == SpecAbierta => []TypeOK
  BY TipoInicial, TipoPaso, PTL DEF SpecAbierta

-----------------------------------------------------------------------------
\* The conjuncts of IInv beyond the types, which the steps below re-establish.
Resto ==
    /\ IndiceApuntaAlVivo
    /\ PendienteVisible
    /\ EstadoFielAlConjunto
    /\ ClaimSoloDePendiente
    /\ IdsAsignados
    /\ ExistenteCreado
    /\ PurgaFiel


\* An overwrite by a newer event of the same obligation keeps the invariant.
LEMMA PasoSobrescribe ==
    ASSUME IInv, TypeOK', NEW s \in Slot, NEW p \in Payload, EncolarSobrescribe(s, p)
    PROVE  Resto'
  <1> USE ConstantesAssumption
  <1>0. PICK i : i = index[s]
    OBVIOUS
  <1>1. i \in Id /\ Existe(i) /\ i \in pendientes
    BY <1>0 DEF EncolarSobrescribe, SlotOcupado, Vivo, IInv, TypeOK, Id
  <1>2. item[i] \in Item
    BY <1>1, ExisteEsItem DEF IInv
  <1>3. /\ \A j \in Id : j # i => item'[j] = item[j]
        /\ item'[i].slot = item[i].slot /\ item'[i].estado = "PENDING"
        /\ item'[i] \in Item
    BY <1>0, <1>1, <1>2 DEF EncolarSobrescribe, ItemEncolado, IInv, TypeOK, Item, Estado, EstadoActivo
  <1>4. \A j \in Id : Existe(j)' <=> Existe(j)
    BY <1>1, <1>3 DEF Existe
  <1>5. item[i].estado \in EstadoActivo
    BY <1>1 DEF IInv, EstadoFielAlConjunto
  <1>6. IndiceApuntaAlVivo'
    BY <1>3, <1>4 DEF EncolarSobrescribe, IInv, IndiceApuntaAlVivo, Vivo
  <1>7. PendienteVisible'
    BY <1>0, <1>1, <1>4 DEF EncolarSobrescribe, IInv, TypeOK, PendienteVisible, Vivo
  <1>8. EstadoFielAlConjunto'
    BY <1>3, <1>4, <1>5 DEF EncolarSobrescribe, IInv, EstadoFielAlConjunto, EstadoActivo
  <1>9. ClaimSoloDePendiente' /\ IdsAsignados' /\ ExistenteCreado'
    BY <1>4 DEF EncolarSobrescribe, IInv, ClaimSoloDePendiente, IdsAsignados, ExistenteCreado
  <1>10. PurgaFiel'
    BY <1>4 DEF EncolarSobrescribe, IInv, TypeOK, PurgaFiel
  <1> QED
    BY <1>6, <1>7, <1>8, <1>9, <1>10 DEF Resto

\* A new item takes an id never used and a slot with no live item.
LEMMA PasoNuevo ==
    ASSUME IInv, TypeOK', NEW s \in Slot, NEW p \in Payload, EncolarNuevo(s, p)
    PROVE  Resto'
  <1> USE ConstantesAssumption
  <1>0. PICK i : i = counter + 1
    OBVIOUS
  <1>1. i \in Id /\ i > counter /\ counter \in Nat
    BY <1>0 DEF EncolarNuevo, IInv, TypeOK, Id
  <1>2. ~Existe(i) /\ i \notin pendientes \cup completados \cup fallidos
    BY <1>1 DEF IInv, IdsAsignados
  <1>3. /\ \A j \in Id : j # i => item'[j] = item[j]
        /\ item'[i].slot = s /\ item'[i].estado = "PENDING"
        /\ item'[i] \in Item
    BY <1>0, <1>1 DEF EncolarNuevo, ItemEncolado, IInv, TypeOK, Item, Estado, EstadoActivo
  <1>4. Existe(i)' /\ \A j \in Id : j # i => (Existe(j)' <=> Existe(j))
    BY <1>1, <1>3 DEF Existe
  <1>5. \A j \in Id : Vivo(j) => item[j].slot # s
    <2> SUFFICES ASSUME NEW j \in Id, Vivo(j), item[j].slot = s PROVE FALSE
      OBVIOUS
    <2>1. index[s] = j
      BY DEF IInv, IndiceApuntaAlVivo
    <2> QED
      BY <2>1 DEF EncolarNuevo, SlotOcupado, Id
  <1>6. IndiceApuntaAlVivo'
    <2> SUFFICES ASSUME NEW j \in Id, Vivo(j)' PROVE index'[item'[j].slot] = j
      BY DEF IndiceApuntaAlVivo
    <2>1. CASE j = i
      BY <1>0, <1>3, <2>1 DEF EncolarNuevo, IInv, TypeOK
    <2>2. CASE j # i
      <3>1. Vivo(j)
        BY <1>0, <1>4, <2>2 DEF Vivo, EncolarNuevo
      <3>2. item[j] \in Item
        BY <3>1, ExisteEsItem DEF Vivo, IInv
      <3> QED
        BY <1>3, <1>5, <2>2, <3>1, <3>2 DEF EncolarNuevo, IInv, TypeOK, IndiceApuntaAlVivo, Item
    <2> QED
      BY <2>1, <2>2
  <1>7. PendienteVisible'
    BY <1>0, <1>1, <1>4 DEF EncolarNuevo, IInv, TypeOK, PendienteVisible, Vivo
  <1>8. EstadoFielAlConjunto' /\ ClaimSoloDePendiente'
    BY <1>0, <1>1, <1>2, <1>3, <1>4 DEF EncolarNuevo, IInv, TypeOK, EstadoFielAlConjunto,
       ClaimSoloDePendiente, EstadoActivo
  <1>9. IdsAsignados' /\ ExistenteCreado' /\ PurgaFiel'
    <2>1. IdsAsignados'
      BY <1>0, <1>1, <1>4 DEF EncolarNuevo, IInv, TypeOK, IdsAsignados, Id
    <2>2. ExistenteCreado'
      BY <1>0, <1>1, <1>4 DEF EncolarNuevo, IInv, TypeOK, ExistenteCreado
    <2>3. PurgaFiel'
      BY <1>0, <1>1, <1>4 DEF EncolarNuevo, IInv, TypeOK, PurgaFiel, Id
    <2> QED
      BY <2>1, <2>2, <2>3
  <1> QED
    BY <1>6, <1>7, <1>8, <1>9 DEF Resto

\* A claim marks a live item as being processed.
LEMMA PasoReclamar ==
    ASSUME IInv, TypeOK', NEW i \in Id, NEW w \in WorkerId, Reclamar(i, w)
    PROVE  Resto'
  <1>1. Existe(i) /\ i \in pendientes
    BY DEF Reclamar, Reclamable, Vivo
  <1>2. item[i] \in Item
    BY <1>1, ExisteEsItem DEF IInv
  <1>3. /\ \A j \in Id : j # i => item'[j] = item[j]
        /\ item'[i].slot = item[i].slot /\ item'[i].estado = "PROCESSING"
    BY <1>1, <1>2 DEF Reclamar, IInv, TypeOK, Item
  <1>4. \A j \in Id : Existe(j)' <=> Existe(j)
    <2>1. item'[i] # SinItem
      BY <1>2, ConstantesAssumption DEF Reclamar, IInv, TypeOK, Item, Estado, EstadoActivo
    <2> QED
      BY <1>1, <1>3, <2>1 DEF Existe
  <1>5. IndiceApuntaAlVivo'
    <2>1. pendientes' = pendientes /\ index' = index
      BY DEF Reclamar
    <2>2. \A j \in Id : item'[j].slot = item[j].slot
      BY <1>3
    <2> QED
      BY <1>4, <2>1, <2>2 DEF IInv, IndiceApuntaAlVivo, Vivo
  <1>6. PendienteVisible'
    BY <1>4 DEF Reclamar, IInv, TypeOK, PendienteVisible, Vivo
  <1>7. EstadoFielAlConjunto'
    BY <1>1, <1>3, <1>4 DEF Reclamar, IInv, EstadoFielAlConjunto, EstadoActivo
  <1>8. ClaimSoloDePendiente'
    BY <1>1, <1>4 DEF Reclamar, IInv, TypeOK, ClaimSoloDePendiente
  <1>9. IdsAsignados' /\ ExistenteCreado'
    BY <1>4 DEF Reclamar, IInv, IdsAsignados, ExistenteCreado
  <1>10. PurgaFiel'
    BY <1>4 DEF Reclamar, IInv, TypeOK, PurgaFiel
  <1> QED
    BY <1>5, <1>6, <1>7, <1>8, <1>9, <1>10 DEF Resto

\* SFC_DONE is written on a claimed item, which is pending.
LEMMA PasoSfcCompletado ==
    ASSUME IInv, TypeOK', NEW i \in Id, NEW w \in WorkerId, NEW v \in 1..MaxVersion,
           NEW p \in Payload, MarcarSfcCompletado(i, w, v, p)
    PROVE  Resto'
  <1>1. Existe(i) /\ i \in pendientes
    BY ConstantesAssumption DEF MarcarSfcCompletado, Autorizado, EsDueno, VersionVigente, IInv, ClaimSoloDePendiente
  <1>2. item[i] \in Item
    BY <1>1, ExisteEsItem DEF IInv
  <1>3. /\ \A j \in Id : j # i => item'[j] = item[j]
        /\ item'[i].slot = item[i].slot /\ item'[i].estado = "SFC_DONE"
    BY <1>1, <1>2 DEF MarcarSfcCompletado, IInv, TypeOK, Item
  <1>4. \A j \in Id : Existe(j)' <=> Existe(j)
    <2>1. item'[i] \in Item
      BY <1>2 DEF MarcarSfcCompletado, IInv, TypeOK, Item, Estado, EstadoActivo
    <2> QED
      BY <1>1, <1>3, <2>1, ConstantesAssumption DEF Existe
  <1>5. IndiceApuntaAlVivo'
    <2>1. pendientes' = pendientes /\ index' = index
      BY DEF MarcarSfcCompletado
    <2>2. \A j \in Id : item'[j].slot = item[j].slot
      BY <1>3
    <2> QED
      BY <1>4, <2>1, <2>2 DEF IInv, IndiceApuntaAlVivo, Vivo
  <1>6. PendienteVisible'
    BY <1>4 DEF MarcarSfcCompletado, IInv, TypeOK, PendienteVisible, Vivo
  <1>7. EstadoFielAlConjunto'
    <2>1. pendientes' = pendientes /\ completados' = completados /\ fallidos' = fallidos
      BY DEF MarcarSfcCompletado
    <2> QED
      BY <1>1, <1>3, <1>4, <2>1 DEF IInv, EstadoFielAlConjunto, EstadoActivo
  <1>8. ClaimSoloDePendiente'
    BY <1>1, <1>4 DEF MarcarSfcCompletado, IInv, TypeOK, ClaimSoloDePendiente
  <1>9. IdsAsignados' /\ ExistenteCreado'
    BY <1>4 DEF MarcarSfcCompletado, IInv, IdsAsignados, ExistenteCreado
  <1>10. PurgaFiel'
    BY <1>4 DEF MarcarSfcCompletado, IInv, TypeOK, PurgaFiel
  <1> QED
    BY <1>5, <1>6, <1>7, <1>8, <1>9, <1>10 DEF Resto

\* A failure that is not definitive puts a claimed item back to wait.
LEMMA PasoFalloReintentable ==
    ASSUME IInv, TypeOK', NEW i \in Id, NEW w \in WorkerId, NEW v \in 1..MaxVersion,
           NEW c \in BOOLEAN, RegistrarFalloReintentable(i, w, v, c)
    PROVE  Resto'
  <1>1. Existe(i) /\ i \in pendientes
    BY ConstantesAssumption DEF RegistrarFalloReintentable, Autorizado, EsDueno, VersionVigente, IInv, ClaimSoloDePendiente
  <1>2. item[i] \in Item
    BY <1>1, ExisteEsItem DEF IInv
  <1>3. /\ \A j \in Id : j # i => item'[j] = item[j]
        /\ item'[i].slot = item[i].slot /\ item'[i].estado = "PENDING"
    BY <1>1, <1>2 DEF RegistrarFalloReintentable, IInv, TypeOK, Item
  <1>4. \A j \in Id : Existe(j)' <=> Existe(j)
    <2>1. item'[i] \in Item
      <3>1. CASE c
        BY <1>2, <3>1 DEF RegistrarFalloReintentable, IInv, TypeOK, Item, Estado, EstadoActivo
      <3>2. CASE ~c
        BY <1>2, <3>2 DEF RegistrarFalloReintentable, IInv, TypeOK, Item, Estado, EstadoActivo
      <3> QED
        BY <3>1, <3>2
    <2> QED
      BY <1>1, <1>3, <2>1, ConstantesAssumption DEF Existe
  <1>5. IndiceApuntaAlVivo'
    <2>1. pendientes' = pendientes /\ index' = index
      BY DEF RegistrarFalloReintentable
    <2>2. \A j \in Id : item'[j].slot = item[j].slot
      BY <1>3
    <2> QED
      BY <1>4, <2>1, <2>2 DEF IInv, IndiceApuntaAlVivo, Vivo
  <1>6. PendienteVisible'
    BY <1>4 DEF RegistrarFalloReintentable, IInv, TypeOK, PendienteVisible, Vivo
  <1>7. EstadoFielAlConjunto'
    BY <1>1, <1>3, <1>4 DEF RegistrarFalloReintentable, IInv, EstadoFielAlConjunto, EstadoActivo
  <1>8. ClaimSoloDePendiente'
    BY <1>1, <1>4 DEF RegistrarFalloReintentable, IInv, TypeOK, ClaimSoloDePendiente
  <1>9. IdsAsignados' /\ ExistenteCreado'
    BY <1>4 DEF RegistrarFalloReintentable, IInv, IdsAsignados, ExistenteCreado
  <1>10. PurgaFiel'
    BY <1>4 DEF RegistrarFalloReintentable, IInv, TypeOK, PurgaFiel
  <1> QED
    BY <1>5, <1>6, <1>7, <1>8, <1>9, <1>10 DEF Resto

\* Completing a claimed item empties its slot, which was its own.
LEMMA PasoExitoso ==
    ASSUME IInv, TypeOK', NEW i \in Id, NEW w \in WorkerId, NEW v \in 1..MaxVersion, MarcarExitoso(i, w, v)
    PROVE  Resto'
  <1>1. Existe(i) /\ i \in pendientes
    BY ConstantesAssumption DEF MarcarExitoso, Autorizado, EsDueno, VersionVigente, IInv, ClaimSoloDePendiente
  <1>2. item[i] \in Item
    BY <1>1, ExisteEsItem DEF IInv
  <1>3. /\ \A j \in Id : j # i => item'[j] = item[j]
        /\ item'[i].slot = item[i].slot /\ item'[i].estado = "COMPLETED"
    BY <1>1, <1>2 DEF MarcarExitoso, IInv, TypeOK, Item
  <1>4. \A j \in Id : Existe(j)' <=> Existe(j)
    <2>1. item'[i] # SinItem
      BY <1>2, ConstantesAssumption DEF MarcarExitoso, IInv, TypeOK, Item, Estado, EstadoActivo
    <2> QED
      BY <1>1, <1>3, <2>1 DEF Existe
  <1>5. \A j \in Id : Vivo(j)' => j # i /\ Vivo(j)
    BY <1>4 DEF MarcarExitoso, Vivo
  <1>6. IndiceApuntaAlVivo'
    <2> SUFFICES ASSUME NEW j \in Id, j # i, Vivo(j) PROVE index'[item[j].slot] = j
      BY <1>3, <1>5 DEF IndiceApuntaAlVivo
    <2>1. index[item[j].slot] = j /\ index[item[i].slot] = i
      BY <1>1 DEF IInv, IndiceApuntaAlVivo, Vivo
    <2>2. item[j] \in Item
      BY ExisteEsItem DEF Vivo, IInv
    <2> QED
      BY <1>2, <2>1, <2>2 DEF MarcarExitoso, IInv, TypeOK, Item
  <1>7. PendienteVisible'
    BY <1>5 DEF MarcarExitoso, IInv, TypeOK, PendienteVisible
  <1>8. EstadoFielAlConjunto'
    BY <1>1, <1>3, <1>4 DEF MarcarExitoso, IInv, EstadoFielAlConjunto, EstadoActivo
  <1>9. ClaimSoloDePendiente'
    BY <1>4 DEF MarcarExitoso, IInv, TypeOK, ClaimSoloDePendiente
  <1>10. IdsAsignados' /\ ExistenteCreado'
    BY <1>1, <1>4 DEF MarcarExitoso, IInv, IdsAsignados, ExistenteCreado
  <1>11. PurgaFiel'
    BY <1>4 DEF MarcarExitoso, IInv, TypeOK, PurgaFiel
  <1> QED
    BY <1>6, <1>7, <1>8, <1>9, <1>10, <1>11 DEF Resto

\* A definitive failure empties the slot of the claimed item, its own.
LEMMA PasoFalloDefinitivo ==
    ASSUME IInv, TypeOK', NEW i \in Id, NEW w \in WorkerId, NEW v \in 1..MaxVersion, RegistrarFalloDefinitivo(i, w, v)
    PROVE  Resto'
  <1>1. Existe(i) /\ i \in pendientes
    BY ConstantesAssumption DEF RegistrarFalloDefinitivo, Autorizado, EsDueno, VersionVigente, IInv, ClaimSoloDePendiente
  <1>2. item[i] \in Item
    BY <1>1, ExisteEsItem DEF IInv
  <1>3. /\ \A j \in Id : j # i => item'[j] = item[j]
        /\ item'[i].slot = item[i].slot /\ item'[i].estado = "FAILED_FINAL"
    BY <1>1, <1>2 DEF RegistrarFalloDefinitivo, IInv, TypeOK, Item
  <1>4. \A j \in Id : Existe(j)' <=> Existe(j)
    <2>1. item'[i] # SinItem
      BY <1>2, ConstantesAssumption DEF RegistrarFalloDefinitivo, IInv, TypeOK, Item, Estado, EstadoActivo
    <2> QED
      BY <1>1, <1>3, <2>1 DEF Existe
  <1>5. \A j \in Id : Vivo(j)' => j # i /\ Vivo(j)
    BY <1>4 DEF RegistrarFalloDefinitivo, Vivo
  <1>6. IndiceApuntaAlVivo'
    <2> SUFFICES ASSUME NEW j \in Id, j # i, Vivo(j) PROVE index'[item[j].slot] = j
      BY <1>3, <1>5 DEF IndiceApuntaAlVivo
    <2>1. index[item[j].slot] = j /\ index[item[i].slot] = i
      BY <1>1 DEF IInv, IndiceApuntaAlVivo, Vivo
    <2>2. item[j] \in Item
      BY ExisteEsItem DEF Vivo, IInv
    <2> QED
      BY <1>2, <2>1, <2>2 DEF RegistrarFalloDefinitivo, IInv, TypeOK, Item
  <1>7. PendienteVisible'
    BY <1>5 DEF RegistrarFalloDefinitivo, IInv, TypeOK, PendienteVisible
  <1>8. EstadoFielAlConjunto'
    BY <1>1, <1>3, <1>4 DEF RegistrarFalloDefinitivo, IInv, EstadoFielAlConjunto, EstadoActivo
  <1>9. ClaimSoloDePendiente'
    BY <1>4 DEF RegistrarFalloDefinitivo, IInv, TypeOK, ClaimSoloDePendiente
  <1>10. IdsAsignados' /\ ExistenteCreado'
    BY <1>1, <1>4 DEF RegistrarFalloDefinitivo, IInv, IdsAsignados, ExistenteCreado
  <1>11. PurgaFiel'
    BY <1>4 DEF RegistrarFalloDefinitivo, IInv, TypeOK, PurgaFiel
  <1> QED
    BY <1>6, <1>7, <1>8, <1>9, <1>10, <1>11 DEF Resto

\* A replay takes a slot that no other live item occupies.
LEMMA PasoReencolar ==
    ASSUME IInv, TypeOK', NEW i \in Id, Reencolar(i)
    PROVE  Resto'
  <1>1. Existe(i) /\ i \notin pendientes /\ i \notin completados /\ i \in fallidos
    BY DEF Reencolar, IInv, EstadoFielAlConjunto, EstadoActivo
  <1>2. item[i] \in Item
    BY <1>1, ExisteEsItem DEF IInv
  <1>3. /\ \A j \in Id : j # i => item'[j] = item[j]
        /\ item'[i].slot = item[i].slot /\ item'[i].estado = "PENDING"
    BY <1>1, <1>2 DEF Reencolar, IInv, TypeOK, Item
  <1>4. \A j \in Id : Existe(j)' <=> Existe(j)
    <2>1. item'[i] # SinItem
      BY <1>2, ConstantesAssumption DEF Reencolar, IInv, TypeOK, Item, Estado, EstadoActivo
    <2> QED
      BY <1>1, <1>3, <2>1 DEF Existe
  <1>5. \A j \in Id : j # i => (Vivo(j)' <=> Vivo(j))
    BY <1>4 DEF Reencolar, Vivo
  <1>6. IndiceApuntaAlVivo'
    <2> SUFFICES ASSUME NEW j \in Id, Vivo(j)' PROVE index'[item'[j].slot] = j
      BY DEF IndiceApuntaAlVivo
    <2>1. CASE j = i
      BY <1>2, <1>3, <2>1 DEF Reencolar, IInv, TypeOK, Item
    <2>2. CASE j # i
      <3>1. Vivo(j) /\ index[item[j].slot] = j
        BY <1>5, <2>2 DEF IInv, IndiceApuntaAlVivo
      <3>2. item[j].slot # item[i].slot
        BY <2>2, <3>1 DEF Reencolar, Id
      <3>3. item[j] \in Item
        BY <3>1, ExisteEsItem DEF Vivo, IInv
      <3> QED
        BY <1>2, <1>3, <2>2, <3>1, <3>2, <3>3 DEF Reencolar, IInv, TypeOK, Item
    <2> QED
      BY <2>1, <2>2
  <1>7. PendienteVisible'
    BY <1>1, <1>5 DEF Reencolar, IInv, TypeOK, PendienteVisible, ExistenteCreado
  <1>8. EstadoFielAlConjunto'
    BY <1>1, <1>3, <1>4 DEF Reencolar, IInv, EstadoFielAlConjunto, EstadoActivo
  <1>9. ClaimSoloDePendiente'
    BY <1>4 DEF Reencolar, IInv, TypeOK, ClaimSoloDePendiente
  <1>10. IdsAsignados' /\ ExistenteCreado'
    BY <1>1, <1>4 DEF Reencolar, IInv, IdsAsignados, ExistenteCreado
  <1>11. PurgaFiel'
    BY <1>4 DEF Reencolar, IInv, TypeOK, PurgaFiel
  <1> QED
    BY <1>6, <1>7, <1>8, <1>9, <1>10, <1>11 DEF Resto

\* A cancellation deletes the live item of its slot with its index.
LEMMA PasoCancelar ==
    ASSUME IInv, TypeOK', NEW s \in Slot, NEW i \in Id, NEW p \in Payload, Cancelar(s, i, p)
    PROVE  Resto'
  <1>1. index[s] = i /\ Existe(i) /\ i \in pendientes
    BY DEF Cancelar, Cancelable, Vivo
  <1>2. /\ \A j \in Id : j # i => item'[j] = item[j]
        /\ item'[i] = SinItem
    BY DEF Cancelar, IInv, TypeOK
  <1>3. ~Existe(i)' /\ \A j \in Id : j # i => (Existe(j)' <=> Existe(j))
    BY <1>2 DEF Existe
  <1>4. \A j \in Id : Vivo(j)' => j # i /\ Vivo(j)
    BY <1>3 DEF Cancelar, Vivo
  <1>5. IndiceApuntaAlVivo'
    <2> SUFFICES ASSUME NEW j \in Id, j # i, Vivo(j) PROVE index'[item[j].slot] = j
      BY <1>2, <1>4 DEF IndiceApuntaAlVivo
    <2>1. index[item[j].slot] = j
      BY DEF IInv, IndiceApuntaAlVivo
    <2>2. item[j] \in Item
      BY ExisteEsItem DEF Vivo, IInv
    <2> QED
      BY <1>1, <2>1, <2>2 DEF Cancelar, IInv, TypeOK, Item
  <1>6. PendienteVisible'
    BY <1>4 DEF Cancelar, IInv, TypeOK, PendienteVisible
  <1>7. EstadoFielAlConjunto' /\ ClaimSoloDePendiente'
    BY <1>2, <1>3 DEF Cancelar, IInv, EstadoFielAlConjunto, ClaimSoloDePendiente
  <1>8. IdsAsignados' /\ ExistenteCreado'
    BY <1>3 DEF Cancelar, IInv, IdsAsignados, ExistenteCreado
  <1>9. PurgaFiel'
    BY <1>3 DEF Cancelar, IInv, TypeOK, PurgaFiel
  <1> QED
    BY <1>5, <1>6, <1>7, <1>8, <1>9 DEF Resto

\* The pipeline of the purge deletes records; no live item appears or moves.
LEMMA PasoPurgaEjecutar ==
    ASSUME IInv, TypeOK', PurgaEjecutar
    PROVE  Resto'
  <1>1. \A j \in Id : Existe(j)' => Existe(j) /\ item'[j] = item[j] /\ j \notin purga.borrar
    BY DEF PurgaEjecutar, Existe
  <1>2. \A j \in Id : Vivo(j)' => Vivo(j)
    BY <1>1 DEF PurgaEjecutar, Vivo
  <1>3. \A j \in Id : Existe(j)' => j \notin purga.incons
    BY <1>1 DEF IInv, PurgaFiel
  <1>4. IndiceApuntaAlVivo'
    BY <1>1, <1>2 DEF PurgaEjecutar, IInv, IndiceApuntaAlVivo, Vivo
  <1>5. ExistenteCreado'
    BY <1>1 DEF PurgaEjecutar, IInv, ExistenteCreado
  <1>6. PendienteVisible'
    BY <1>2, <1>5 DEF PurgaEjecutar, IInv, PendienteVisible, Vivo, ExistenteCreado
  <1>7. EstadoFielAlConjunto'
    <2> SUFFICES ASSUME NEW j \in Id, Existe(j)'
                 PROVE  /\ j \in pendientes'  <=> item'[j].estado \in EstadoActivo
                        /\ j \in completados' <=> item'[j].estado = "COMPLETED"
                        /\ j \in fallidos'    <=> item'[j].estado = "FAILED_FINAL"
      BY DEF EstadoFielAlConjunto
    <2>1. (j \in completados' <=> j \in completados) /\ (j \in fallidos' <=> j \in fallidos)
      BY <1>1, <1>3 DEF PurgaEjecutar
    <2> QED
      BY <1>1, <2>1 DEF PurgaEjecutar, IInv, EstadoFielAlConjunto
  <1>8. ClaimSoloDePendiente'
    BY <1>1 DEF PurgaEjecutar, IInv, ClaimSoloDePendiente
  <1>9. IdsAsignados'
    BY <1>1 DEF PurgaEjecutar, IInv, IdsAsignados
  <1>10. PurgaFiel'
    BY DEF PurgaEjecutar, PurgaInactiva, PurgaFiel
  <1> QED
    BY <1>4, <1>5, <1>6, <1>7, <1>8, <1>9, <1>10 DEF Resto

\* Steps that touch neither an item nor a status set nor the index.
LEMMA PasoSilencioso ==
    ASSUME IInv, TypeOK',
           UNCHANGED <<counter, item, index, pendientes, completados, fallidos, creados>>,
           \A i \in Id : claim'[i] \in {claim[i], Nadie},
           \A i \in Id : zset[i] # "fuera" => zset'[i] # "fuera",
           \A i \in purga'.incons : ~Existe(i) /\ i <= counter
    PROVE  Resto'
  <1>1. IndiceApuntaAlVivo' /\ EstadoFielAlConjunto' /\ IdsAsignados' /\ ExistenteCreado'
    BY DEF IInv, IndiceApuntaAlVivo, EstadoFielAlConjunto, IdsAsignados, ExistenteCreado, Vivo, Existe
  <1>2. PendienteVisible'
    BY DEF IInv, PendienteVisible, Vivo, Existe
  <1>3. ClaimSoloDePendiente'
    BY DEF IInv, ClaimSoloDePendiente, Existe
  <1>4. PurgaFiel'
    BY DEF PurgaFiel, Existe
  <1> QED
    BY <1>1, <1>2, <1>3, <1>4 DEF Resto

\* A purge reads an id of a status set: ids in use are at most the counter.
LEMMA PasoPurgaLeer ==
    ASSUME IInv, TypeOK', NEW i \in Id, PurgaLeer(i)
    PROVE  Resto'
  <1>1. i <= counter
    BY ConstantesAssumption DEF PurgaLeer, IInv, IdsAsignados, TypeOK, Id
  <1>2. \A j \in purga'.incons : ~Existe(j) /\ j <= counter
    BY <1>1 DEF PurgaLeer, IInv, TypeOK, PurgaFiel
  <1> QED
    BY <1>2, PasoSilencioso DEF PurgaLeer

-----------------------------------------------------------------------------
\* Init establishes the inductive invariant.
LEMMA IInvInicial == Init => IInv
  BY TipoInicial, ConstantesAssumption DEF Init, IInv, IndiceApuntaAlVivo, PendienteVisible,
     EstadoFielAlConjunto, ClaimSoloDePendiente, IdsAsignados, ExistenteCreado, PurgaFiel,
     PurgaInactiva, Vivo, Existe

\* Every step of the store preserves the inductive invariant.
LEMMA IInvPaso == IInv /\ [Next \/ SoloIdem]_colaVars => IInv'
  <1> SUFFICES ASSUME IInv, [Next \/ SoloIdem]_colaVars PROVE IInv'
    OBVIOUS
  <1>0. TypeOK'
    BY TipoPaso DEF IInv
  <1> SUFFICES Resto'
    BY <1>0 DEF IInv, Resto
  <1>1. ASSUME NEW s \in Slot, NEW p \in Payload, Encolar(s, p) PROVE Resto'
    BY <1>0, <1>1, PasoSobrescribe, PasoNuevo DEF Encolar
  <1>2. ASSUME NEW i \in Id, NEW w \in WorkerId, Reclamar(i, w) PROVE Resto'
    BY <1>0, <1>2, PasoReclamar
  <1>3. ASSUME NEW i \in Id, ExpirarClaim(i) PROVE Resto'
    BY <1>0, <1>3, PasoSilencioso DEF ExpirarClaim, IInv, TypeOK, PurgaFiel
  <1>4. ASSUME NEW i \in Id, Reencolar(i) PROVE Resto'
    BY <1>0, <1>4, PasoReencolar
  <1>5. ASSUME NEW i \in Id, Vencer(i) PROVE Resto'
    BY <1>0, <1>5, PasoSilencioso DEF Vencer, IInv, TypeOK, PurgaFiel
  <1>6. ASSUME NEW i \in Id, NEW w \in WorkerId, NEW v \in 1..MaxVersion,
               Escritura(i, w, v) PROVE Resto'
    <2>1. CASE RechazarTransicion(i, w, v)
      BY <1>0, <2>1, PasoSilencioso DEF RechazarTransicion, IInv, TypeOK, PurgaFiel
    <2>2. ASSUME NEW p \in Payload, MarcarSfcCompletado(i, w, v, p) PROVE Resto'
      BY <1>0, <2>2, PasoSfcCompletado
    <2>3. CASE MarcarExitoso(i, w, v)
      BY <1>0, <2>3, PasoExitoso
    <2>4. CASE RegistrarFalloDefinitivo(i, w, v)
      BY <1>0, <2>4, PasoFalloDefinitivo
    <2>5. ASSUME NEW c \in BOOLEAN, RegistrarFalloReintentable(i, w, v, c) PROVE Resto'
      BY <1>0, <2>5, PasoFalloReintentable
    <2> QED
      BY <1>6, <2>1, <2>2, <2>3, <2>4, <2>5 DEF Escritura
  <1>7. ASSUME NEW i \in Id, NEW v \in 1..MaxVersion, Diferir(i, v) PROVE Resto'
    BY <1>0, <1>7, PasoSilencioso DEF Diferir, IInv, TypeOK, PurgaFiel
  <1>8. ASSUME NEW s \in Slot, NEW i \in Id, NEW p \in Payload, Cancelar(s, i, p) PROVE Resto'
    BY <1>0, <1>8, PasoCancelar
  <1>9. CASE Purga
    <2>1. CASE PurgaIniciar
      BY <1>0, <2>1, PasoSilencioso DEF PurgaIniciar, PurgaInactiva
    <2>2. ASSUME NEW i \in Id, PurgaLeer(i) PROVE Resto'
      BY <1>0, <2>2, PasoPurgaLeer
    <2>3. CASE PurgaEjecutar
      BY <1>0, <2>3, PasoPurgaEjecutar
    <2>4. CASE PurgaAbortar
      BY <1>0, <2>4, PasoSilencioso DEF PurgaAbortar, PurgaInactiva
    <2> QED
      BY <1>9, <2>1, <2>2, <2>3, <2>4 DEF Purga
  <1>10. CASE UNCHANGED colaVars
    BY <1>0, <1>10, PasoSilencioso DEF colaVars, IInv, PurgaFiel
  <1>11. CASE SoloIdem
    BY <1>0, <1>11, PasoSilencioso DEF SoloIdem, IInv, PurgaFiel
  <1> QED
    BY <1>1, <1>2, <1>3, <1>4, <1>5, <1>6, <1>7, <1>8, <1>9, <1>10, <1>11 DEF Next

\* The inductive invariant holds in every reachable state.
THEOREM Inductiva == SpecAbierta => []IInv
  BY IInvInicial, IInvPaso, PTL DEF SpecAbierta

\* "una obligacion pendiente = un slot en cola": for any callers of the
\* scripts, two live pending items never share an obligation.
THEOREM SlotUnico == SpecAbierta => []UnSlotPorObligacion
  <1>1. IInv => UnSlotPorObligacion
    BY DEF IInv, IndiceApuntaAlVivo, UnSlotPorObligacion
  <1> QED
    BY <1>1, Inductiva, PTL

\* No live pending item is hidden from the retry lister or the SLA monitor.
THEOREM Visibilidad == SpecAbierta => []PendienteVisible
  BY Inductiva, PTL DEF IInv

\* Status field and status set of every item agree, purge races included.
THEOREM EstadoFiel == SpecAbierta => []EstadoFielAlConjunto
  BY Inductiva, PTL DEF IInv

\* Nobody holds a claim on a settled item.
THEOREM ClaimFiel == SpecAbierta => []ClaimSoloDePendiente
  BY Inductiva, PTL DEF IInv

-----------------------------------------------------------------------------
\* One step of any script leaves the content of an item or gives it a newer
\* version, and leaves a settled item or replays it.
LEMMA PasoDeItem ==
    ASSUME IInv, [Next \/ SoloIdem]_colaVars, NEW k \in Id, Existe(k), Existe(k)'
    PROVE  ContenidoConVersion(k) /\ TerminalQuieto(k)
  <1>0. item[k] \in Item /\ item[k].version \in Nat
    BY ExisteEsItem DEF IInv, Item
  <1>i. ASSUME item'[k] = item[k] PROVE ContenidoConVersion(k) /\ TerminalQuieto(k)
    BY <1>0, <1>i DEF ContenidoConVersion, TerminalQuieto
  <1>a. ASSUME k \in pendientes PROVE item[k].estado \notin {"COMPLETED", "FAILED_FINAL"}
    BY <1>a DEF IInv, EstadoFielAlConjunto, EstadoActivo
  <1>1. ASSUME NEW s \in Slot, NEW p \in Payload, EncolarSobrescribe(s, p)
        PROVE  ContenidoConVersion(k) /\ TerminalQuieto(k)
    <2>1. index[s] \in Id /\ index[s] \in pendientes
      BY <1>1 DEF EncolarSobrescribe, SlotOcupado, Vivo, IInv, TypeOK, Id
    <2>2. CASE k = index[s]
      <3>1. item'[k].version = item[k].version + 1
        BY <1>1, <2>2 DEF EncolarSobrescribe, ItemEncolado, IInv, TypeOK
      <3> QED
        BY <1>0, <1>a, <2>1, <2>2, <3>1 DEF ContenidoConVersion, TerminalQuieto
    <2>3. CASE k # index[s]
      BY <1>1, <1>i, <2>3 DEF EncolarSobrescribe, IInv, TypeOK
    <2> QED
      BY <2>2, <2>3
  <1>2. ASSUME NEW s \in Slot, NEW p \in Payload, EncolarNuevo(s, p)
        PROVE  ContenidoConVersion(k) /\ TerminalQuieto(k)
    <2>1. k # counter + 1
      BY <1>2 DEF IInv, TypeOK, IdsAsignados
    <2> QED
      BY <1>2, <1>i, <2>1 DEF EncolarNuevo, IInv, TypeOK
  <1>3. ASSUME NEW i \in Id, NEW w \in WorkerId, Reclamar(i, w)
        PROVE  ContenidoConVersion(k) /\ TerminalQuieto(k)
    <2>1. CASE k = i
      <3>1. /\ item'[k].version = item[k].version
            /\ item'[k].payload = item[k].payload /\ item'[k].slot = item[k].slot
        BY <1>0, <1>3, <2>1 DEF Reclamar, IInv, TypeOK, Item
      <3>2. k \in pendientes
        BY <1>3, <2>1 DEF Reclamar, Reclamable, Vivo
      <3> QED
        BY <1>0, <1>a, <3>1, <3>2 DEF ContenidoConVersion, TerminalQuieto
    <2>2. CASE k # i
      BY <1>3, <1>i, <2>2 DEF Reclamar, IInv, TypeOK
    <2> QED
      BY <2>1, <2>2
  <1>4. ASSUME NEW i \in Id, Reencolar(i)
        PROVE  ContenidoConVersion(k) /\ TerminalQuieto(k)
    <2>1. CASE k = i
      <3>1. item'[k].version = item[k].version + 1 /\ item'[k].intentos = 0
        BY <1>0, <1>4, <2>1 DEF Reencolar, IInv, TypeOK, Item
      <3>2. k \in pendientes' /\ item[k].estado = "FAILED_FINAL"
        BY <1>4, <2>1 DEF Reencolar
      <3>3. index'[item[k].slot] = k
        BY <1>0, <1>4, <2>1 DEF Reencolar, IInv, TypeOK, Item
      <3> QED
        BY <1>0, <3>1, <3>2, <3>3 DEF ContenidoConVersion, TerminalQuieto
    <2>2. CASE k # i
      BY <1>4, <1>i, <2>2 DEF Reencolar, IInv, TypeOK
    <2> QED
      BY <2>1, <2>2
  <1>5. ASSUME NEW i \in Id, NEW w \in WorkerId, NEW v \in 1..MaxVersion, Escritura(i, w, v)
        PROVE  ContenidoConVersion(k) /\ TerminalQuieto(k)
    <2>1. CASE RechazarTransicion(i, w, v)
      BY <1>i, <2>1 DEF RechazarTransicion
    <2>2. CASE k # i /\ ~RechazarTransicion(i, w, v)
      BY <1>5, <1>i, <2>2 DEF Escritura, MarcarSfcCompletado, MarcarExitoso,
            RegistrarFalloDefinitivo, RegistrarFalloReintentable, IInv, TypeOK
    <2>3. CASE k = i /\ ~RechazarTransicion(i, w, v)
      <3>1. Autorizado(i, w, v)
        BY <1>5, <2>3 DEF Escritura, MarcarSfcCompletado, MarcarExitoso,
            RegistrarFalloDefinitivo, RegistrarFalloReintentable
      <3>2. k \in pendientes
        BY <2>3, <3>1, ConstantesAssumption
           DEF Autorizado, EsDueno, VersionVigente, IInv, ClaimSoloDePendiente
      <3>3. /\ item'[k].version = item[k].version
            /\ item'[k].payload = item[k].payload /\ item'[k].slot = item[k].slot
        <4>1. CASE MarcarExitoso(i, w, v)
          BY <1>0, <2>3, <4>1 DEF MarcarExitoso, IInv, TypeOK, Item
        <4>2. CASE RegistrarFalloDefinitivo(i, w, v)
          BY <1>0, <2>3, <4>2 DEF RegistrarFalloDefinitivo, IInv, TypeOK, Item
        <4>3. CASE \E p \in Payload : MarcarSfcCompletado(i, w, v, p)
          BY <1>0, <2>3, <4>3 DEF MarcarSfcCompletado, IInv, TypeOK, Item
        <4>4. CASE \E c \in BOOLEAN : RegistrarFalloReintentable(i, w, v, c)
          BY <1>0, <2>3, <4>4 DEF RegistrarFalloReintentable, IInv, TypeOK, Item
        <4> QED
          BY <1>5, <2>3, <4>1, <4>2, <4>3, <4>4 DEF Escritura
      <3> QED
        BY <1>0, <1>a, <3>2, <3>3 DEF ContenidoConVersion, TerminalQuieto
    <2> QED
      BY <2>1, <2>2, <2>3
  <1>6. ASSUME NEW s \in Slot, NEW i \in Id, NEW p \in Payload, Cancelar(s, i, p)
        PROVE  ContenidoConVersion(k) /\ TerminalQuieto(k)
    BY <1>6, <1>i DEF Cancelar, Existe, IInv, TypeOK
  <1>7. CASE PurgaEjecutar
    BY <1>7, <1>i DEF PurgaEjecutar, Existe
  <1>8. CASE item' = item
    BY <1>8, <1>i
  <1>9. CASE Purga
    BY <1>7, <1>8, <1>9 DEF Purga, PurgaIniciar, PurgaLeer, PurgaAbortar
  <1>10. ASSUME NEW i \in Id, ExpirarClaim(i) \/ Vencer(i) \/ (\E v \in 1..MaxVersion : Diferir(i, v))
         PROVE  item' = item
    BY <1>10 DEF ExpirarClaim, Vencer, Diferir
  <1>11. CASE UNCHANGED colaVars \/ SoloIdem
    BY <1>8, <1>11 DEF colaVars, SoloIdem
  <1> QED
    BY <1>1, <1>2, <1>3, <1>4, <1>5, <1>6, <1>8, <1>9, <1>10, <1>11 DEF Next, Encolar

\* Versions order the contents of an item, for any callers of the scripts.
THEOREM ContenidoVersionado == SpecAbierta => ContenidoCambiaConVersion
  <1>1. IInv /\ [Next \/ SoloIdem]_colaVars => [\A i \in Id : ContenidoConVersion(i)]_colaVars
    BY PasoDeItem DEF ContenidoConVersion
  <1> QED
    BY <1>1, Inductiva, PTL DEF SpecAbierta, ContenidoCambiaConVersion

\* A settled item only changes by a replay, for any callers of the scripts.
THEOREM TerminalSinTocar == SpecAbierta => TerminalEstable
  <1>1. IInv /\ [Next \/ SoloIdem]_colaVars => [\A i \in Id : TerminalQuieto(i)]_colaVars
    BY PasoDeItem DEF TerminalQuieto
  <1> QED
    BY <1>1, Inductiva, PTL DEF SpecAbierta, TerminalEstable

=============================================================================
