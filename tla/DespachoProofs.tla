---------------------------- MODULE DespachoProofs ----------------------------
(***************************************************************************)
(* Proofs about the synchronous dispatch next to the retry cycle: for any  *)
(* number of requests and workers, and whatever Fallos allows to fail      *)
(* unless a theorem says otherwise.  What the cycle and the store promise  *)
(* is taken from ReintentosProofs and ColaRedisProofs.                     *)
(***************************************************************************)
EXTENDS Despacho, ReintentosProofs, FiniteSetTheorems

-----------------------------------------------------------------------------
(* The inductive invariant.                                                 *)

\* The part of TypeOKD about the requests.
TipoPet ==
    /\ pf \in [Peticion -> FaseP]
    /\ ps \in [Peticion -> Slot \cup {Nadie}]
    /\ pp \in [Peticion -> Payload \cup {SinRespuesta}]
    /\ pid \in [Peticion -> 0..MaxId]
    /\ ph \in [Peticion -> Payload \cup {SinRespuesta}]
    /\ candados \subseteq Peticion
    /\ resp \in [Peticion -> Respuesta]
    /\ orden \in [Peticion -> Nat]
    /\ replay \subseteq [id : Id, leido : (Slot \X Payload) \cup {SinItem}]

\* The index of an obligation leads to an item of that obligation.
IndiceFiel ==
    \A s \in Slot :
        /\ index[s] <= counter
        /\ index[s] # 0 /\ Existe(index[s]) => item[index[s]].slot = s

\* Obligation s has not vanished: some content was sent, or waits in the queue.
Atendida(s) == \E p \in Payload : p \in enviados[s] \/ EnCola(s, p)

Enviado(q) == pp[q] \in enviados[ps[q]]
Cuidada(q) == Atendida(ps[q])

\* What a request has seen or done justifies what it answers.
Peti(q) ==
    /\ pf[q] = "nueva" => resp[q] = "ninguna"
    /\ pf[q] # "nueva" => ps[q] \in Slot /\ pp[q] \in Payload
    /\ pf[q] \in {"exito", "leer", "cancelar"} => Enviado(q)
    /\ pf[q] \in {"vigencia", "registrar"} => Cuidada(q)
    /\ resp[q] = "ok" => Enviado(q)
    /\ resp[q] \in {"encolado", "ya_encolado"} => Cuidada(q)

\* A QUEUED record and what a replay has read are about such an obligation.
IdemVeraz == \A s \in Slot, p \in Payload : idem[s][p].status = "QUEUED" => Atendida(s)
ReplayVeraz == \A r \in replay : r.leido # SinItem => Atendida(r.leido[1])

IInvD ==
    /\ IInvR /\ TipoPet /\ IndiceFiel /\ IdemVeraz /\ ReplayVeraz
    /\ \A q \in Peticion : Peti(q)

-----------------------------------------------------------------------------
(* What the scripts do to the index and to the items, for any caller.       *)

\* A script that puts y in the place of an existing item of the same obligation.
Reemplaza(j, y) == Existe(j) /\ item' = [item EXCEPT ![j] = y] /\ y.slot = item[j].slot

MueveIndice(j) ==
    \/ index' = index
    \/ index' = [index EXCEPT ![item[j].slot] = j]
    \/ index' = [index EXCEPT ![item[j].slot] = 0]
Sustituye ==
    \E j \in Id, y \in Item : Reemplaza(j, y) /\ counter' = counter /\ MueveIndice(j)

\* A script replaces one item, adds one, cancels one, purges, or touches none.
LEMMA QueHaceUnGuion ==
    ASSUME IInv, PasoCola
    PROVE  \/ item' = item /\ index' = index /\ counter' = counter
           \/ Sustituye
           \/ \E s \in Slot, p \in Payload : EncolarNuevo(s, p)
           \/ \E s \in Slot, j \in Id, p \in Payload : Cancelar(s, j, p)
           \/ PurgaEjecutar
<1>0. /\ TypeOK /\ item \in [Id -> Item \cup {SinItem}] /\ counter \in Nat
      /\ \A i \in Id : Existe(i) => item[i] \in Item
  BY ExisteEsItem DEF IInv, TypeOK
<1>a. ASSUME NEW j \in Id, NEW y \in Item, Reemplaza(j, y), counter' = counter, MueveIndice(j)
      PROVE  Sustituye
  BY <1>a DEF Sustituye
<1>1. ASSUME NEW s \in Slot, NEW p \in Payload, EncolarSobrescribe(s, p) PROVE Sustituye
  <2>1. PICK j \in Id : j = index[s] /\ Existe(j)
    BY <1>0, <1>1 DEF EncolarSobrescribe, SlotOcupado, Vivo, TypeOK, Id
  <2>2. item[j] \in Item
    BY <1>0, <2>1
  <2>3. PICK y : y = ItemEncolado(item[j].slot, p, item[j].version + 1)
    OBVIOUS
  <2>4. y \in Item /\ y.slot = item[j].slot
    BY <2>2, <2>3 DEF ItemEncolado, Item, Estado, EstadoActivo
  <2>5. item' = [item EXCEPT ![j] = y] /\ counter' = counter /\ MueveIndice(j)
    BY <1>1, <2>1, <2>3 DEF EncolarSobrescribe, VersionSiguiente, MueveIndice
  <2>6. QED
    BY <2>1, <2>4, <2>5, <1>a DEF Reemplaza
<1>2. ASSUME NEW j \in Id, NEW w \in WorkerId, Reclamar(j, w) PROVE Sustituye
  <2>1. Existe(j) /\ item[j] \in Item
    BY <1>0, <1>2 DEF Reclamar, Reclamable, Vivo
  <2>2. PICK y : y = [item[j] EXCEPT !.estado = "PROCESSING"]
    OBVIOUS
  <2>3. y \in Item /\ y.slot = item[j].slot
    BY <2>1, <2>2 DEF Item, Estado, EstadoActivo
  <2>4. item' = [item EXCEPT ![j] = y] /\ counter' = counter /\ MueveIndice(j)
    BY <1>2, <2>2 DEF Reclamar, MueveIndice
  <2>5. QED
    BY <2>1, <2>3, <2>4, <1>a DEF Reemplaza
<1>3. ASSUME NEW j \in Id, Reencolar(j) PROVE Sustituye
  <2>1. Existe(j) /\ item[j] \in Item
    BY <1>0, <1>3 DEF Reencolar
  <2>0. item[j].version + 1 \in Nat /\ "PENDING" \in Estado
    BY <2>1 DEF Item, Estado, EstadoActivo
  <2>2. PICK y : y = [item[j] EXCEPT !.estado = "PENDING", !.intentos = 0,
                                     !.version = item[j].version + 1]
    OBVIOUS
  <2>3. y \in Item /\ y.slot = item[j].slot
    BY <2>0, <2>1, <2>2 DEF Item
  <2>4. item' = [item EXCEPT ![j] = y] /\ counter' = counter /\ MueveIndice(j)
    BY <1>3, <2>2 DEF Reencolar, VersionSiguiente, MueveIndice
  <2>5. QED
    BY <2>1, <2>3, <2>4, <1>a DEF Reemplaza
<1>4. ASSUME NEW j \in Id, NEW w \in WorkerId, NEW v \in 1..MaxVersion, Escritura(j, w, v)
      PROVE  Sustituye \/ (item' = item /\ index' = index /\ counter' = counter)
  <2>1. CASE RechazarTransicion(j, w, v)
    BY <2>1 DEF RechazarTransicion
  <2>2. CASE ~RechazarTransicion(j, w, v)
    <3>1. Existe(j) /\ item[j] \in Item
      BY <1>0, <1>4, <2>2 DEF Escritura, MarcarSfcCompletado, MarcarExitoso, RegistrarFalloDefinitivo,
                              RegistrarFalloReintentable, Autorizado, VersionVigente
    <3>2. ASSUME NEW p \in Payload, MarcarSfcCompletado(j, w, v, p) PROVE Sustituye
      <4>1. PICK y : y = [item[j] EXCEPT !.sfc_completado = TRUE, !.estado = "SFC_DONE",
                                         !.sfc_response = p]
        OBVIOUS
      <4>2. y \in Item /\ y.slot = item[j].slot
        BY <3>1, <4>1 DEF Item, Estado, EstadoActivo
      <4>3. item' = [item EXCEPT ![j] = y] /\ counter' = counter /\ MueveIndice(j)
        BY <3>2, <4>1 DEF MarcarSfcCompletado, MueveIndice
      <4>4. QED
        BY <3>1, <4>2, <4>3, <1>a DEF Reemplaza
    <3>3. CASE MarcarExitoso(j, w, v)
      <4>1. PICK y : y = [item[j] EXCEPT !.estado = "COMPLETED"]
        OBVIOUS
      <4>2. y \in Item /\ y.slot = item[j].slot
        BY <3>1, <4>1 DEF Item, Estado
      <4>3. item' = [item EXCEPT ![j] = y] /\ counter' = counter /\ MueveIndice(j)
        BY <3>3, <4>1 DEF MarcarExitoso, Desocupar, MueveIndice
      <4>4. QED
        BY <3>1, <4>2, <4>3, <1>a DEF Reemplaza
    <3>4. CASE RegistrarFalloDefinitivo(j, w, v)
      <4>0. item[j].intentos + 1 \in Nat /\ "FAILED_FINAL" \in Estado
        BY <3>1 DEF Item, Estado
      <4>1. PICK y : y = [item[j] EXCEPT !.estado = "FAILED_FINAL", !.intentos = item[j].intentos + 1]
        OBVIOUS
      <4>2. y \in Item /\ y.slot = item[j].slot
        BY <3>1, <4>0, <4>1 DEF Item
      <4>3. item' = [item EXCEPT ![j] = y] /\ counter' = counter /\ MueveIndice(j)
        BY <3>4, <4>1 DEF RegistrarFalloDefinitivo, Desocupar, MueveIndice
      <4>4. QED
        BY <3>1, <4>2, <4>3, <1>a DEF Reemplaza
    <3>5. ASSUME NEW c \in BOOLEAN, RegistrarFalloReintentable(j, w, v, c) PROVE Sustituye
      <4>0. PICK k \in Nat : k = IF c THEN item[j].intentos + 1 ELSE item[j].intentos
        BY <3>1 DEF Item
      <4>1. PICK y : y = [item[j] EXCEPT !.estado = "PENDING", !.intentos = k]
        OBVIOUS
      <4>2. y \in Item /\ y.slot = item[j].slot
        BY <3>1, <4>1 DEF Item, Estado, EstadoActivo
      <4>3. item' = [item EXCEPT ![j] = y] /\ counter' = counter /\ MueveIndice(j)
        BY <3>5, <4>0, <4>1 DEF RegistrarFalloReintentable, MueveIndice
      <4>4. QED
        BY <3>1, <4>2, <4>3, <1>a DEF Reemplaza
    <3>6. QED
      BY <1>4, <2>2, <3>2, <3>3, <3>4, <3>5 DEF Escritura
  <2>3. QED
    BY <2>1, <2>2
<1>5. CASE \/ \E j \in Id : ExpirarClaim(j) \/ Vencer(j)
           \/ \E j \in Id, v \in 1..MaxVersion : Diferir(j, v)
           \/ PurgaIniciar \/ (\E j \in Id : PurgaLeer(j)) \/ PurgaAbortar
           \/ SoloIdem \/ UNCHANGED colaVars
  BY <1>5 DEF ExpirarClaim, Vencer, Diferir, PurgaIniciar, PurgaLeer, PurgaAbortar, SoloIdem, colaVars
<1>6. QED
  BY <1>1, <1>2, <1>3, <1>4, <1>5 DEF PasoCola, Next, Encolar, Purga

\* An item keeps its obligation, and ids are not used again.
LEMMA SlotQueda ==
    ASSUME IInv, PasoCola, NEW k \in Id, k <= counter
    PROVE  Existe(k)' => Existe(k) /\ item'[k].slot = item[k].slot
<1>0. item \in [Id -> Item \cup {SinItem}] /\ counter \in Nat /\ k \in Nat
  BY DEF IInv, TypeOK, Id
<1>1. CASE item'[k] = item[k] \/ item'[k] = SinItem
  BY <1>1 DEF Existe
<1>2. CASE Sustituye
  <2>1. PICK j \in Id, y \in Item : Reemplaza(j, y)
    BY <1>2 DEF Sustituye
  <2>2. CASE j = k
    BY <1>0, <2>1, <2>2 DEF Reemplaza
  <2>3. CASE j # k
    BY <1>0, <1>1, <2>1, <2>3 DEF Reemplaza
  <2>4. QED
    BY <2>2, <2>3
<1>3. CASE \E s \in Slot, p \in Payload : EncolarNuevo(s, p)
  <2>1. k # counter + 1
    BY <1>0
  <2>2. QED
    BY <1>0, <1>1, <1>3, <2>1 DEF EncolarNuevo
<1>4. CASE (\E s \in Slot, j \in Id, p \in Payload : Cancelar(s, j, p)) \/ PurgaEjecutar
  BY <1>0, <1>1, <1>4 DEF Cancelar, PurgaEjecutar
<1>5. QED
  BY <1>1, <1>2, <1>3, <1>4, QueHaceUnGuion

\* Every script keeps the index of an obligation on an item of that obligation.
LEMMA IndicePaso ==
    ASSUME IInv, IndiceFiel, PasoCola
    PROVE  IndiceFiel'
<1>0. /\ item \in [Id -> Item \cup {SinItem}] /\ counter \in Nat /\ index \in [Slot -> 0..MaxId]
      /\ MaxId \in Nat
  BY ConstantesAssumption DEF IInv, TypeOK
<1>1. SUFFICES ASSUME NEW s \in Slot
               PROVE  /\ index'[s] <= counter'
                      /\ index'[s] # 0 /\ item'[index'[s]] # SinItem => item'[index'[s]].slot = s
  BY DEF IndiceFiel, Existe
<1>2. /\ index[s] \in 0..MaxId /\ index[s] <= counter
      /\ index[s] # 0 /\ item[index[s]] # SinItem => item[index[s]].slot = s
  BY <1>0 DEF IndiceFiel, Existe
<1>3. ASSUME index'[s] = index[s], counter <= counter', counter' \in Nat
      PROVE  /\ index'[s] <= counter'
             /\ index'[s] # 0 /\ item'[index'[s]] # SinItem => item'[index'[s]].slot = s
  <2>1. index'[s] <= counter'
    BY <1>0, <1>2, <1>3
  <2>2. CASE index[s] # 0
    <3>1. PICK k \in Id : k = index[s]
      BY <1>2, <2>2 DEF Id
    <3>2. item'[k] # SinItem => item[k] # SinItem /\ item'[k].slot = item[k].slot
      BY <1>2, <3>1, SlotQueda DEF Existe
    <3>3. QED
      BY <1>2, <1>3, <2>1, <3>1, <3>2
  <2>3. QED
    BY <1>3, <2>1, <2>2
<1>4. CASE item' = item /\ index' = index /\ counter' = counter
  BY <1>2, <1>4
<1>5. CASE Sustituye
  <2>1. PICK j \in Id, y \in Item : Reemplaza(j, y) /\ counter' = counter /\ MueveIndice(j)
    BY <1>5 DEF Sustituye
  <2>2. Existe(j) /\ item[j] \in Item /\ j <= counter /\ item'[j] = y /\ y.slot = item[j].slot
    BY <1>0, <2>1, ExisteEsItem DEF Reemplaza, IInv, IdsAsignados, Id
  <2>3. index'[s] = index[s] \/ index'[s] = 0 \/ (s = item[j].slot /\ index'[s] = j)
    BY <1>0, <2>1 DEF MueveIndice
  <2>4. CASE index'[s] = index[s]
    BY <1>0, <1>3, <2>1, <2>4
  <2>5. CASE index'[s] = 0
    BY <1>0, <2>1, <2>5
  <2>6. CASE s = item[j].slot /\ index'[s] = j
    BY <2>1, <2>2, <2>6
  <2>7. QED
    BY <2>3, <2>4, <2>5, <2>6
<1>6. CASE \E t \in Slot, p \in Payload : EncolarNuevo(t, p)
  <2>1. PICK t \in Slot, p \in Payload : EncolarNuevo(t, p)
    BY <1>6
  <2>2. PICK k \in Id : k = counter + 1
    BY <1>0, <2>1 DEF EncolarNuevo, Id
  <2>3. /\ counter' = k /\ item' = [item EXCEPT ![k] = ItemEncolado(t, p, 1)]
        /\ index' = [index EXCEPT ![t] = k]
    BY <2>1, <2>2 DEF EncolarNuevo
  <2>4. CASE s = t
    <3>1. index'[s] = k /\ item'[k] = ItemEncolado(t, p, 1)
      BY <1>0, <2>3, <2>4
    <3>2. QED
      BY <1>0, <2>2, <2>3, <2>4, <3>1 DEF ItemEncolado
  <2>5. CASE s # t
    <3>1. index'[s] = index[s] /\ counter <= counter' /\ counter' \in Nat
      BY <1>0, <2>2, <2>3, <2>5
    <3>2. QED
      BY <1>3, <3>1
  <2>6. QED
    BY <2>4, <2>5
<1>7. CASE \E t \in Slot, j \in Id, p \in Payload : Cancelar(t, j, p)
  <2>1. PICK t \in Slot : index' = [index EXCEPT ![t] = 0] /\ counter' = counter
    BY <1>7 DEF Cancelar
  <2>2. index'[s] = 0 \/ index'[s] = index[s]
    BY <1>0, <2>1
  <2>3. QED
    BY <1>0, <1>3, <2>1, <2>2
<1>8. CASE PurgaEjecutar
  BY <1>0, <1>3, <1>8 DEF PurgaEjecutar
<1>9. QED
  BY <1>4, <1>5, <1>6, <1>7, <1>8, QueHaceUnGuion

\* Only a cancellation or the purge deletes an item, and both take it out of
\* created_zset.
LEMMA SinBorrado ==
    ASSUME IInv, PasoCola, creados \subseteq creados', NEW k \in Id, Existe(k)
    PROVE  Existe(k)' /\ item'[k].slot = item[k].slot
<1>0. /\ item \in [Id -> Item \cup {SinItem}] /\ counter \in Nat /\ k \in creados /\ k <= counter
      /\ k \in Nat
  BY DEF IInv, TypeOK, ExistenteCreado, IdsAsignados, Id
<1>1. CASE item'[k] = item[k]
  BY <1>1 DEF Existe
<1>2. CASE Sustituye
  <2>1. PICK j \in Id, y \in Item : Reemplaza(j, y)
    BY <1>2 DEF Sustituye
  <2>2. CASE j = k
    BY <1>0, <2>1, <2>2, ConstantesAssumption DEF Reemplaza, Existe
  <2>3. CASE j # k
    BY <1>0, <1>1, <2>1, <2>3 DEF Reemplaza
  <2>4. QED
    BY <2>2, <2>3
<1>3. CASE \E s \in Slot, p \in Payload : EncolarNuevo(s, p)
  <2>1. k # counter + 1
    BY <1>0
  <2>2. QED
    BY <1>0, <1>1, <1>3, <2>1 DEF EncolarNuevo
<1>4. CASE \E s \in Slot, j \in Id, p \in Payload : Cancelar(s, j, p)
  <2>1. PICK j \in Id : item' = [item EXCEPT ![j] = SinItem] /\ creados' = creados \ {j}
    BY <1>4 DEF Cancelar
  <2>2. j # k
    BY <1>0, <2>1
  <2>3. QED
    BY <1>0, <1>1, <2>1, <2>2
<1>5. CASE PurgaEjecutar
  <2>1. k \notin purga.borrar
    BY <1>0, <1>5 DEF PurgaEjecutar
  <2>2. QED
    BY <1>1, <1>5, <2>1 DEF PurgaEjecutar
<1>6. QED
  BY <1>1, <1>2, <1>3, <1>4, <1>5, QueHaceUnGuion

\* An obligation that was attended to stays so, unless an item is deleted.
LEMMA AtendidaQueda ==
    ASSUME Cola, Cola', PasoCola, Recuerda, creados \subseteq creados', NEW s \in Slot, Atendida(s)
    PROVE  Atendida(s)'
<1>1. PICK p \in Payload : p \in enviados[s] \/ EnCola(s, p)
  BY DEF Atendida
<1>2. CASE p \in enviados[s]
  BY <1>2 DEF Atendida, Recuerda
<1>3. CASE EnCola(s, p)
  <2>1. PICK i \in Id : Existe(i) /\ item[i].slot = s
    BY <1>3 DEF EnCola
  <2>2. Existe(i)' /\ item'[i].slot = s
    BY <2>1, SinBorrado DEF Cola
  <2>3. PICK r \in Payload : r = item'[i].payload
    BY <2>2 DEF Cola, IInv, TypeOK, Existe, Item
  <2>4. EnCola(s, r)'
    BY <2>2, <2>3 DEF EnCola
  <2>5. QED
    BY <2>3, <2>4 DEF Atendida
<1>4. QED
  BY <1>1, <1>2, <1>3

-----------------------------------------------------------------------------
(* What the steps of the workers mean to the requests.                      *)

IdemDeTrabajador ==
    \A s \in Slot, p \in Payload : idem'[s][p] \in {idem[s][p], IdemLibre, IdemCompletado}

\* The scripts of a worker delete no item and leave no PROCESSING or QUEUED record.
LEMMA ColaDeNodo ==
    ASSUME IInvR, NEW n \in Node, PasoNodo(n) \/ Caer(n)
    PROVE  creados' = creados /\ IdemDeTrabajador
<1>0. idem \in [Slot -> [Payload -> Idem]]
  BY TipoPorPartes DEF TypeOK
<1>1. CASE UNCHANGED colaVars
  BY <1>1 DEF colaVars, IdemDeTrabajador
<1>2. CASE creados' = creados /\ idem' = idem
  BY <1>2 DEF IdemDeTrabajador
<1>3. ASSUME NEW s \in Slot, NEW p \in Payload, NEW r \in {IdemLibre, IdemCompletado},
             idem' = [idem EXCEPT ![s][p] = r], creados' = creados
      PROVE  creados' = creados /\ IdemDeTrabajador
  BY <1>0, <1>3 DEF IdemDeTrabajador
<1>4. ASSUME NEW i, NEW w, NEW v, Rechazado(i, w, v) PROVE creados' = creados /\ idem' = idem
  BY <1>4 DEF Rechazado, RechazarTransicion, colaVars
<1>5. CASE \/ IniciarCiclo(n) \/ JobLockPerdido(n) \/ ListarVencidos(n) \/ ErrorListado(n)
           \/ \E i \in Id : LeerPendiente(n, i)
           \/ \E r \in lote[n] : TomarCaso(n, r) \/ SaltarItem(n, r)
           \/ EnviarSfcOk(n) \/ (\E m \in Motivo : EnviarSfcFalla(n, m) \/ NotificarCrmFalla(n, m))
           \/ NotificarCrmOk(n) \/ SoltarCaso(n) \/ TerminarCiclo(n) \/ Caer(n)
  BY <1>1, <1>5 DEF IniciarCiclo, JobLockPerdido, ListarVencidos, ErrorListado, LeerPendiente, TomarCaso,
         SaltarItem, EnviarSfcOk, EnviarSfcFalla, NotificarCrmFalla, NotificarCrmOk, SoltarCaso,
         TerminarCiclo, Caer
<1>6. CASE (\E r \in lote[n] : DiferirUno(n, r)) \/ ReclamarItem(n) \/ NoReclamado(n) \/ CerrarItem(n)
           \/ FallarItem(n)
  BY <1>2, <1>4, <1>6 DEF DiferirUno, Diferir, ReclamarItem, NoReclamado, Reclamar, CerrarItem,
         MarcarExitoso, FallarItem, Fallo, RegistrarFalloDefinitivo, RegistrarFalloReintentable, colaVars
<1>7. CASE PersistirSfc(n)
  <2>1. \/ UNCHANGED colaVars
        \/ Rechazado(actual[n], wid[n], copia[n].version)
        \/ MarcarSfcCompletado(actual[n], wid[n], copia[n].version, copia[n].payload)
    BY <1>7 DEF PersistirSfc
  <2>2. ASSUME MarcarSfcCompletado(actual[n], wid[n], copia[n].version, copia[n].payload)
        PROVE  creados' = creados /\ IdemDeTrabajador
    <3>1. Trabajando(n)
      BY <1>7, EnConCopia DEF PersistirSfc, ConCopia
    <3>2. /\ Autorizado(actual[n], wid[n], copia[n].version) /\ creados' = creados
          /\ idem' = [idem EXCEPT ![item[actual[n]].slot][copia[n].payload] = IdemCompletado]
      BY <2>2 DEF MarcarSfcCompletado
    <3>3. item[actual[n]].slot = copia[n].slot
      BY <3>1, <3>2, CopiaVale
    <3>4. copia[n].slot \in Slot /\ copia[n].payload \in Payload
      BY <1>7, <3>1, EnMano DEF PersistirSfc, ConCopia
    <3>5. QED
      BY <1>3, <3>2, <3>3, <3>4
  <2>3. QED
    BY <1>1, <1>2, <1>4, <2>1, <2>2
<1>8. CASE LiberarIdem(n)
  <2>1. copia[n].slot \in Slot /\ copia[n].payload \in Payload
    BY <1>8, EnMano, EnConCopia DEF LiberarIdem, ConCopia
  <2>2. QED
    BY <1>2, <1>3, <1>8, <2>1 DEF LiberarIdem
<1>9. QED
  BY <1>5, <1>6, <1>7, <1>8 DEF PasoNodo

\* No step of a node makes the SFC forget.
LEMMA MemoriaDeNodo ==
    ASSUME IInvR, NEW n \in Node, PasoNodo(n) \/ Caer(n)
    PROVE  Recuerda
<1>1. CASE EnviarSfcOk(n)
  <2>1. fase[n] = "sfc" /\ Aceptar(n) /\ confirmados \subseteq confirmados'
    BY <1>1 DEF EnviarSfcOk
  <2>2. QED
    BY <2>1, Acepta
<1>2. CASE \E m \in Motivo : EnviarSfcFalla(n, m)
  <2>1. /\ fase[n] = "sfc" /\ (Aceptar(n) \/ enviados' = enviados)
        /\ confirmados \subseteq confirmados'
    BY <1>2 DEF EnviarSfcFalla
  <2>2. QED
    BY <2>1, Acepta DEF Recuerda
<1>3. CASE enviados' = enviados /\ confirmados' = confirmados
  BY <1>3 DEF Recuerda
<1>4. ASSUME ~EnviarSfcOk(n), ~\E m \in Motivo : EnviarSfcFalla(n, m)
      PROVE  enviados' = enviados /\ confirmados' = confirmados
  BY <1>4 DEF PasoNodo, IniciarCiclo, JobLockPerdido, ListarVencidos, LeerPendiente, ErrorListado, TomarCaso,
         SaltarItem, DiferirUno, ReclamarItem, NoReclamado, PersistirSfc, NotificarCrmOk,
         NotificarCrmFalla, CerrarItem, FallarItem, LiberarIdem, SoltarCaso, TerminarCiclo, Caer, sfcVars
<1>5. QED
  BY <1>1, <1>2, <1>3, <1>4

-----------------------------------------------------------------------------
(* What any step does to the requests.                                      *)

\* Nothing sent is forgotten and no obligation vanishes.
Estable == Recuerda /\ \A s \in Slot : Atendida(s) => Atendida(s)'

\* A QUEUED record is not written about an obligation that has vanished.
IdemSinInventar ==
    \A s \in Slot, p \in Payload :
        idem'[s][p].status = "QUEUED" => idem[s][p].status = "QUEUED" \/ Atendida(s)'

\* The type invariant is the one of the retries and the one of the requests.
LEMMA TipoPorPartesD == TypeOKD <=> TypeOKR /\ TipoPet
BY DEF TypeOKD, TipoPet

\* No script makes an obligation vanish: it is sent, or some content of it waits.
LEMMA EstablePaso ==
    ASSUME IInvR, IInvR', PasoCola, Recuerda, creados \subseteq creados'
    PROVE  Estable
BY AtendidaQueda DEF IInvR, Estable

\* A request that does not move is still right.
QuietaP(q) == pf'[q] = pf[q] /\ ps'[q] = ps[q] /\ pp'[q] = pp[q] /\ resp'[q] = resp[q]

\* What justifies the answer of a request goes on justifying it.
LEMMA SigueCuidada ==
    ASSUME Estable, NEW q \in Peticion, ps[q] \in Slot, ps'[q] = ps[q], pp'[q] = pp[q]
    PROVE  /\ Enviado(q) => Enviado(q)'
           /\ Cuidada(q) => Cuidada(q)'
<1>1. Enviado(q) => Enviado(q)'
  BY DEF Estable, Recuerda, Enviado
<1>2. PICK s \in Slot : s = ps[q]
  OBVIOUS
<1>3. Atendida(s) => Atendida(s)'
  BY DEF Estable
<1>4. QED
  BY <1>1, <1>2, <1>3 DEF Cuidada, Atendida, EnCola

\* A request the step does not touch keeps its part of the invariant.
LEMMA PetiQuieta ==
    ASSUME Estable, NEW q \in Peticion, Peti(q), QuietaP(q)
    PROVE  Peti(q)'
<1>1. CASE pf[q] = "nueva"
  BY <1>1 DEF Peti, QuietaP
<1>2. CASE pf[q] # "nueva"
  BY <1>2, SigueCuidada DEF Peti, QuietaP
<1>3. QED
  BY <1>1, <1>2

\* What a step does to the workers, the store and the obligations.
PasoSano == IInvR' /\ PasoCola /\ Estable /\ IdemSinInventar

\* A script called outside the cycle is sound if it forgets nothing.
LEMMA SanoSinBorrar ==
    ASSUME IInvR, PasoFiel, UNCHANGED nodoVars, TipoLock', TipoSfc', Recuerda,
           creados \subseteq creados', IdemSinInventar
    PROVE  PasoSano
<1>1. IInvR' /\ PasoCola
  BY PasoDeNadie DEF PasoFiel
<1>2. QED
  BY <1>1, EstablePaso DEF PasoSano

\* A step that only touches the requests and the locks of the cases.
LEMMA SanoLock ==
    ASSUME IInvR, UNCHANGED <<colaVars, nodoVars, jobLock, sfcVars>>,
           casoLock' \in [Caso -> Node \cup Peticion \cup {Nadie}]
    PROVE  PasoSano
<1>1. UNCHANGED colaVars /\ UNCHANGED nodoVars /\ UNCHANGED sfcVars /\ jobLock' = jobLock
  OBVIOUS
<1>2. Recuerda /\ TipoSfc' /\ TipoLock'
  BY <1>1, SfcQuieta, TipoPorPartes DEF TipoLock
<1>3. PasoFiel
  BY <1>1, <1>2, ColaQuieta
<1>4. creados' = creados /\ idem' = idem
  BY <1>1 DEF colaVars
<1>5. IdemSinInventar
  BY <1>4 DEF IdemSinInventar
<1>6. QED
  BY <1>1, <1>2, <1>3, <1>4, <1>5, SanoSinBorrar

\* A step that leaves the queue alone is sound.
LEMMA SanoQuieto ==
    ASSUME IInvR, UNCHANGED vars
    PROVE  PasoSano
<1>1. UNCHANGED <<colaVars, nodoVars, jobLock, sfcVars>> /\ casoLock' = casoLock
  BY DEF vars, lockVars
<1>2. casoLock \in [Caso -> Node \cup Peticion \cup {Nadie}]
  BY TipoPorPartes DEF TipoLock
<1>3. QED
  BY <1>1, <1>2, SanoLock

\* What stays when only the queue, its claims and its records change.
LEMMA RestoQuieto ==
    ASSUME IInvR, UNCHANGED restoVars
    PROVE  UNCHANGED nodoVars /\ TipoLock' /\ TipoSfc' /\ Recuerda /\ enviados' = enviados /\ Cola
<1>1. UNCHANGED nodoVars /\ UNCHANGED sfcVars /\ jobLock' = jobLock /\ casoLock' = casoLock
  BY DEF restoVars
<1>2. QED
  BY <1>1, SfcQuieta, TipoPorPartes DEF TipoLock

\* A SET or a DEL of one idempotency record that tells no lie.
LEMMA SanoRegistro ==
    ASSUME IInvR, UNCHANGED restoVars, UNCHANGED colaSinIdem,
           NEW s \in Slot, NEW p \in Payload, NEW r \in Idem,
           idem' = [idem EXCEPT ![s][p] = r],
           r.status = "COMPLETED" => p \in enviados[s],
           r.status = "QUEUED" => Atendida(s)
    PROVE  PasoSano
<1>1. UNCHANGED nodoVars /\ TipoLock' /\ TipoSfc' /\ Recuerda /\ enviados' = enviados /\ Cola
  BY RestoQuieto
<1>2. idem \in [Slot -> [Payload -> Idem]]
  BY TipoPorPartes DEF TypeOK
<1>3. idem' \in [Slot -> [Payload -> Idem]]
  BY <1>2
<1>4. \A t \in Slot, x \in Payload : idem'[t][x] = idem[t][x] \/ (t = s /\ x = p /\ idem'[t][x] = r)
  BY <1>2
<1>5. SoloIdem /\ creados' = creados /\ item' = item
  BY <1>3 DEF SoloIdem, colaSinIdem
<1>6. IdemHonesto
  BY <1>1, <1>4 DEF IdemHonesto
<1>7. PasoFiel
  BY <1>1, <1>5, <1>6, GuionIdem
<1>8. Atendida(s) => Atendida(s)'
  BY <1>1, <1>5 DEF Atendida, EnCola, Existe
<1>9. IdemSinInventar
  BY <1>4, <1>8 DEF IdemSinInventar
<1>10. QED
  BY <1>1, <1>5, <1>7, <1>9, SanoSinBorrar

\* ENQUEUE: the obligation is in the queue from here on.
LEMMA SanoEncolar ==
    ASSUME IInvR, IndiceFiel, UNCHANGED restoVars, NEW s \in Slot, NEW p \in Payload, Encolar(s, p)
    PROVE  PasoSano /\ index'[s] \in 0..MaxId /\ Atendida(s)'
<1>1. UNCHANGED nodoVars /\ TipoLock' /\ TipoSfc' /\ Recuerda /\ enviados' = enviados /\ Cola
  BY RestoQuieto
<1>2. PasoFiel
  BY <1>1, GuionEncolar
<1>3. creados \subseteq creados' /\ idem' = idem
  BY DEF Encolar, EncolarSobrescribe, EncolarNuevo
<1>4. IdemSinInventar
  BY <1>3 DEF IdemSinInventar
<1>5. PasoSano
  BY <1>1, <1>2, <1>3, <1>4, SanoSinBorrar
<1>6. index'[s] \in 0..MaxId
  BY <1>5, TipoPorPartes DEF PasoSano, IInvR, TypeOKR, TypeOK
<1>7. PICK i \in Id : Existe(i)' /\ item'[i].slot = s /\ item'[i].payload = p
  <2>1. CASE EncolarSobrescribe(s, p)
    <3>1. PICK i \in Id : i = index[s]
      BY <2>1, TipoPorPartes DEF EncolarSobrescribe, SlotOcupado, TypeOK, Id
    <3>2. item'[i] = ItemEncolado(item[i].slot, p, VersionSiguiente(i))
      BY <2>1, <3>1, TipoPorPartes DEF EncolarSobrescribe, TypeOK
    <3>3. Existe(i) /\ item[i].slot = s
      BY <2>1, <3>1 DEF EncolarSobrescribe, SlotOcupado, Vivo, IndiceFiel
    <3>4. Existe(i)'
      BY <1>1, <1>2, <1>3, <3>3, SinBorrado DEF PasoFiel, Cola
    <3>5. QED
      BY <3>2, <3>3, <3>4 DEF ItemEncolado
  <2>2. CASE EncolarNuevo(s, p)
    <3>1. PICK i \in Id : i = counter + 1
      BY <2>2, TipoPorPartes, ConstantesAssumption DEF EncolarNuevo, TypeOK, Id
    <3>2. item'[i] = ItemEncolado(s, p, 1)
      BY <2>2, <3>1, TipoPorPartes DEF EncolarNuevo, TypeOK
    <3>3. ItemEncolado(s, p, 1) \in Item
      BY DEF ItemEncolado, Item, Estado, EstadoActivo
    <3>4. QED
      BY <3>2, <3>3, ConstantesAssumption DEF ItemEncolado, Existe
  <2>3. QED
    BY <2>1, <2>2 DEF Encolar
<1>8. EnCola(s, p)'
  BY <1>7 DEF EnCola
<1>9. QED
  BY <1>5, <1>6, <1>8 DEF Atendida

\* CANCEL: what was waiting for the obligation goes, but the SFC has taken a
\* content of it; no other obligation loses an item.
LEMMA SanoCancelar ==
    ASSUME IInvR, IndiceFiel, UNCHANGED restoVars, NEW s \in Slot, NEW j \in 0..MaxId, NEW p,
           Cancelar(s, j, p), NEW x \in Payload, x \in enviados[s]
    PROVE  PasoSano
<1>1. UNCHANGED nodoVars /\ TipoLock' /\ TipoSfc' /\ Recuerda /\ enviados' = enviados /\ Cola
  BY RestoQuieto
<1>2. j \in Id /\ index[s] = j /\ Existe(j) /\ item[j].payload = p /\ item[j].slot = s
  <2>1. j \in Id /\ index[s] = j /\ j # 0 /\ Existe(j) /\ item[j].payload = p
    BY ConstantesAssumption DEF Cancelar, Cancelable, Vivo, Id
  <2>2. QED
    BY <2>1 DEF IndiceFiel
<1>3. p \in Payload
  BY <1>1, <1>2, ColaTipos DEF Item
<1>4. PasoFiel
  BY <1>1, <1>2, <1>3, GuionCancelar
<1>5. item' = [item EXCEPT ![j] = SinItem] /\ idem' = idem
  BY DEF Cancelar
<1>6. IInvR' /\ PasoCola
  BY <1>1, <1>4, PasoDeNadie DEF PasoFiel
<1>7. ASSUME NEW t \in Slot, Atendida(t) PROVE Atendida(t)'
  <2>1. CASE t = s
    BY <1>1, <2>1 DEF Atendida
  <2>2. CASE t # s
    <3>1. PICK y \in Payload : y \in enviados[t] \/ EnCola(t, y)
      BY <1>7 DEF Atendida
    <3>2. CASE y \in enviados[t]
      BY <1>1, <3>2 DEF Atendida
    <3>3. CASE EnCola(t, y)
      <4>1. PICK i \in Id : Existe(i) /\ item[i].slot = t /\ item[i].payload = y
        BY <3>3 DEF EnCola
      <4>2. item'[i] = item[i]
        BY <1>1, <1>2, <1>5, <2>2, <4>1, ColaTipos DEF TypeOK
      <4>3. EnCola(t, y)'
        BY <4>1, <4>2 DEF EnCola, Existe
      <4>4. QED
        BY <4>3 DEF Atendida
    <3>4. QED
      BY <3>1, <3>2, <3>3
  <2>3. QED
    BY <2>1, <2>2
<1>8. Estable /\ IdemSinInventar
  BY <1>1, <1>5, <1>7 DEF Estable, IdemSinInventar
<1>9. QED
  BY <1>6, <1>8 DEF PasoSano

\* The replay of the operator, and a retry date that passes.
LEMMA SanoReencolar ==
    ASSUME IInvR, UNCHANGED restoVars, NEW i \in Id, Reencolar(i) \/ Vencer(i)
    PROVE  PasoSano
<1>1. UNCHANGED nodoVars /\ TipoLock' /\ TipoSfc' /\ Recuerda /\ enviados' = enviados /\ Cola
  BY RestoQuieto
<1>2. PasoFiel
  BY <1>1, GuionReencolar, GuionSuelta
<1>3. creados' = creados /\ idem' = idem
  BY DEF Reencolar, Vencer
<1>4. IdemSinInventar
  BY <1>3 DEF IdemSinInventar
<1>5. QED
  BY <1>1, <1>2, <1>3, <1>4, SanoSinBorrar

\* The SFC takes a content, from a request.
LEMMA SanoAceptar ==
    ASSUME IInvR, NEW s \in Slot, NEW p \in Payload,
           enviados' \in {enviados, [enviados EXCEPT ![s] = @ \cup {p}]},
           UNCHANGED <<colaVars, nodoVars, lockVars, confirmados, perdidos>>
    PROVE  PasoSano
<1>1. UNCHANGED colaVars /\ UNCHANGED nodoVars /\ UNCHANGED lockVars /\ confirmados' = confirmados
      /\ perdidos' = perdidos
  OBVIOUS
<1>2. TipoSfc /\ TipoLock
  BY TipoPorPartes
<1>3. Recuerda /\ enviados' \in [Slot -> SUBSET Payload]
  BY <1>1, <1>2 DEF Recuerda, TipoSfc
<1>4. TipoSfc' /\ TipoLock'
  BY <1>1, <1>2, <1>3 DEF TipoSfc, TipoLock, lockVars
<1>5. PasoFiel
  BY <1>1, <1>3, ColaQuieta
<1>6. creados' = creados /\ idem' = idem
  BY <1>1 DEF colaVars
<1>7. IdemSinInventar
  BY <1>6 DEF IdemSinInventar
<1>8. QED
  BY <1>1, <1>3, <1>4, <1>5, <1>6, <1>7, SanoSinBorrar

\* Every step of a node is sound for the requests,
LEMMA SanoNodo ==
    ASSUME IInvR, NEW n \in Node, PasoNodo(n) \/ Caer(n)
    PROVE  PasoSano
<1>1. IInvR' /\ PasoCola /\ Recuerda /\ creados' = creados /\ IdemDeTrabajador
  BY PasoDeNodo, MemoriaDeNodo, ColaDeNodo
<1>2. IdemSinInventar
  BY <1>1 DEF IdemDeTrabajador, IdemSinInventar, IdemLibre, IdemCompletado
<1>3. QED
  BY <1>1, <1>2, EstablePaso DEF PasoSano

\* and so is every expiry.
LEMMA SanoVencimientos ==
    ASSUME IInvR, Vencimientos
    PROVE  PasoSano
<1>1. IInvR' /\ PasoCola
  BY PasoVencimientos
<1>2. UNCHANGED sfcVars /\ creados' = creados /\ idem' = idem
  BY DEF Vencimientos, VenceJobLock, VenceCasoLock, VenceClaim, ExpirarClaim, colaVars
<1>3. IdemSinInventar
  BY <1>2 DEF IdemSinInventar
<1>4. QED
  BY <1>1, <1>2, <1>3, SfcQuieta, EstablePaso DEF PasoSano

-----------------------------------------------------------------------------
(* The steps of the requests.                                               *)

\* A sound step with the requests in order keeps the whole invariant.
LEMMA PasoD ==
    ASSUME IInvD, PasoSano, TipoPet', ReplayVeraz', \A q \in Peticion : Peti(q)'
    PROVE  IInvD'
<1>1. IInvR' /\ PasoCola /\ Estable /\ IdemSinInventar /\ IInv
  BY DEF PasoSano, IInvD, IInvR, Cola
<1>2. IndiceFiel'
  BY <1>1, IndicePaso DEF IInvD
<1>3. ASSUME NEW s \in Slot, NEW p \in Payload, idem'[s][p].status = "QUEUED" PROVE Atendida(s)'
  BY <1>1, <1>3 DEF IInvD, IdemVeraz, IdemSinInventar, Estable
<1>4. IdemVeraz'
  BY <1>3 DEF IdemVeraz
<1>5. QED
  BY <1>1, <1>2, <1>4 DEF IInvD

\* What the replays have read stays true.
LEMMA ReplayQueda ==
    ASSUME IInvD, Estable,
           \A r \in replay' : r \in replay \/ r.leido = SinItem \/ Atendida(r.leido[1])'
    PROVE  ReplayVeraz'
<1>1. SUFFICES ASSUME NEW r \in replay', r.leido # SinItem PROVE Atendida(r.leido[1])'
  BY DEF ReplayVeraz
<1>2. CASE r \in replay
  <2>1. PICK s \in Slot : s = r.leido[1]
    BY <1>1, <1>2 DEF IInvD, TipoPet
  <2>2. Atendida(s)
    BY <1>1, <1>2, <2>1 DEF IInvD, ReplayVeraz
  <2>3. QED
    BY <2>1, <2>2 DEF Estable
<1>3. QED
  BY <1>1, <1>2

\* Steps that leave the requests alone.
LEMMA PasoSinPeticion ==
    ASSUME IInvD, PasoSano, UNCHANGED petVars
    PROVE  IInvD'
<1>1. TipoPet' /\ replay' = replay /\ \A q \in Peticion : QuietaP(q)
  BY DEF petVars, IInvD, TipoPet, QuietaP
<1>2. ReplayVeraz'
  BY <1>1, ReplayQueda DEF PasoSano
<1>3. \A q \in Peticion : Peti(q)'
  BY <1>1, PetiQuieta DEF IInvD, PasoSano
<1>4. QED
  BY <1>1, <1>2, <1>3, PasoD

\* Request q goes to place f, and its answer becomes r unless it stays ("igual").
Mueve(q, f, r) ==
    /\ IrP(q, f)
    /\ (r \in Respuesta /\ Decidir(q, r)) \/ (UNCHANGED resp /\ r = "igual")
    /\ pid' = pid \/ pid' \in [Peticion -> 0..MaxId]
    /\ ph' = ph \/ ph' \in [Peticion -> Payload \cup {SinRespuesta}]
    /\ candados' \in {candados, candados \cup {q}, candados \ {q}}
    /\ UNCHANGED <<ps, pp, orden, replay>>

\* The move is justified by what the request knows or has just done.
Justifica(q, f, r) ==
    /\ f \in {"exito", "leer", "cancelar"} \/ r = "ok" => Enviado(q) \/ Enviado(q)'
    /\ f \in {"vigencia", "registrar"} \/ r \in {"encolado", "ya_encolado"} =>
          Cuidada(q) \/ Cuidada(q)'

\* What a request past its arrival can rely on.
LEMMA Llegada ==
    ASSUME IInvD, NEW q \in Peticion, pf[q] # "nueva"
    PROVE  /\ IInvR /\ IndiceFiel /\ TipoPet /\ ps[q] \in Slot /\ pp[q] \in Payload
           /\ CasoDe[ps[q]] \in Caso /\ pid[q] \in 0..MaxId
           /\ pf[q] \in {"exito", "leer", "cancelar"} => Enviado(q)
           /\ pf[q] \in {"vigencia", "registrar"} => Cuidada(q)
<1>1. IInvR /\ IndiceFiel /\ TipoPet /\ Peti(q)
  BY DEF IInvD
<1>2. ps[q] \in Slot
  BY <1>1 DEF Peti
<1>3. CasoDe[ps[q]] \in Caso
  BY <1>2, ReintentosAssumption
<1>4. pid[q] \in 0..MaxId
  BY <1>1 DEF TipoPet
<1>5. QED
  BY <1>1, <1>3, <1>4 DEF Peti

\* A request that moves for a reason keeps the invariant.
LEMMA PasoMueve ==
    ASSUME IInvD, PasoSano, NEW q \in Peticion, pf[q] # "nueva",
           NEW f \in FaseP \ {"nueva"}, NEW r,
           Mueve(q, f, r), Justifica(q, f, r)
    PROVE  IInvD' /\ PasoSano
<1>1. TipoPet /\ Estable /\ Peti(q) /\ ps[q] \in Slot
  BY Llegada DEF IInvD, PasoSano
<1>2. TipoPet'
  <2>1. resp' \in [Peticion -> Respuesta] /\ pf' \in [Peticion -> FaseP]
    <3>1. CASE resp' = resp
      BY <1>1, <3>1 DEF Mueve, IrP, TipoPet
    <3>2. CASE Decidir(q, r) /\ r \in Respuesta
      BY <1>1, <3>2 DEF Mueve, IrP, Decidir, TipoPet
    <3>3. QED
      BY <3>1, <3>2 DEF Mueve
  <2>2. pid' \in [Peticion -> 0..MaxId] /\ ph' \in [Peticion -> Payload \cup {SinRespuesta}]
    BY <1>1 DEF Mueve, TipoPet
  <2>3. candados' \subseteq Peticion
    BY <1>1 DEF Mueve, TipoPet
  <2>4. QED
    BY <1>1, <2>1, <2>2, <2>3 DEF Mueve, TipoPet
<1>3. ReplayVeraz'
  BY <1>1, ReplayQueda DEF Mueve
<1>4. /\ pf'[q] = f /\ ps'[q] = ps[q] /\ pp'[q] = pp[q]
      /\ resp'[q] = r \/ (resp'[q] = resp[q] /\ r = "igual")
  BY <1>1 DEF Mueve, IrP, Decidir, TipoPet
<1>5. (Enviado(q) => Enviado(q)') /\ (Cuidada(q) => Cuidada(q)')
  BY <1>1, <1>4, SigueCuidada
<1>6. Peti(q)'
  BY <1>1, <1>4, <1>5 DEF Peti, Justifica
<1>7. ASSUME NEW x \in Peticion, x # q PROVE Peti(x)'
  <2>1. QuietaP(x)
    BY <1>1, <1>7 DEF Mueve, IrP, Decidir, TipoPet, QuietaP
  <2>2. QED
    BY <1>1, <2>1, PetiQuieta DEF IInvD
<1>8. QED
  BY <1>2, <1>3, <1>6, <1>7, PasoD

\* The answers from a record: what others wrote is true of this content.
LEMMA PasoVerificar ==
    ASSUME IInvD, NEW q \in Peticion, Verificar(q)
    PROVE  IInvD' /\ PasoSano
<1>1. pf[q] = "verificar" /\ pf[q] # "nueva" /\ UNCHANGED vars /\ UNCHANGED <<ps, pp, ph, candados, orden, replay>>
  BY DEF Verificar
<1>2. IInvR /\ TipoPet /\ ps[q] \in Slot /\ pp[q] \in Payload /\ PasoSano
  BY <1>1, Llegada, SanoQuieto
<1>3. Registro(q) \in Idem
  BY <1>2, TipoPorPartes DEF Registro, TypeOK
<1>4. ASSUME NEW f \in FaseP \ {"nueva"}, NEW r, IrP(q, f), Justifica(q, f, r),
             (r \in Respuesta /\ Decidir(q, r)) \/ (UNCHANGED resp /\ r = "igual"),
             pid' = pid \/ pid' = [pid EXCEPT ![q] = Registro(q).item]
      PROVE  IInvD' /\ PasoSano
  <2>1. pid' \in [Peticion -> 0..MaxId]
    BY <1>2, <1>3, <1>4 DEF TipoPet, Idem
  <2>2. Mueve(q, f, r)
    BY <1>1, <1>4, <2>1 DEF Mueve
  <2>3. QED
    BY <1>1, <1>2, <1>4, <2>2, PasoMueve
<1>5. CASE Registro(q).status = "LIBRE" /\ IrP(q, "iniciar") /\ UNCHANGED <<resp, pid>>
  BY <1>4, <1>5 DEF FaseP, Justifica
<1>6. CASE Registro(q).status = "COMPLETED" /\ Decidir(q, "ok") /\ IrP(q, "fin") /\ UNCHANGED pid
  <2>1. Enviado(q)
    BY <1>2, <1>6 DEF IInvR, Cola, ConfirmadoFueEnviado, Registro, Enviado
  <2>2. QED
    BY <1>4, <1>6, <2>1 DEF FaseP, Respuesta, Justifica
<1>7. CASE Decidir(q, "en_proceso") /\ IrP(q, "fin") /\ UNCHANGED pid
  BY <1>4, <1>7 DEF FaseP, Respuesta, Justifica
<1>8. CASE /\ Registro(q).status = "QUEUED" /\ IrP(q, "vigencia")
           /\ pid' = [pid EXCEPT ![q] = Registro(q).item] /\ UNCHANGED resp
  <2>1. Cuidada(q)
    BY <1>2, <1>8 DEF IInvD, IdemVeraz, Registro, Cuidada
  <2>2. QED
    BY <1>4, <1>8, <2>1 DEF FaseP, Justifica
<1>9. CASE Decidir(q, "no_disponible") /\ IrP(q, "fin") /\ UNCHANGED pid
  BY <1>4, <1>9 DEF FaseP, Respuesta, Justifica
<1>10. QED
  BY <1>5, <1>6, <1>7, <1>8, <1>9 DEF Verificar

\* A repeated request is told that it waits only about an obligation attended.
LEMMA PasoVigencia ==
    ASSUME IInvD, NEW q \in Peticion, Vigencia(q)
    PROVE  IInvD' /\ PasoSano
<1>1. /\ pf[q] = "vigencia" /\ pf[q] # "nueva" /\ UNCHANGED vars
      /\ UNCHANGED <<ps, pp, pid, ph, candados, orden, replay>>
  BY DEF Vigencia
<1>2. PasoSano /\ Cuidada(q)
  BY <1>1, Llegada, SanoQuieto
<1>3. CASE Decidir(q, "ya_encolado") /\ IrP(q, "fin")
  <2>1. Mueve(q, "fin", "ya_encolado") /\ Justifica(q, "fin", "ya_encolado")
    BY <1>1, <1>2, <1>3 DEF Mueve, Justifica, Respuesta
  <2>2. QED
    BY <1>1, <1>2, <2>1, PasoMueve DEF FaseP
<1>4. CASE IrP(q, "borrar") /\ UNCHANGED resp
  <2>1. Mueve(q, "borrar", "igual") /\ Justifica(q, "borrar", "igual")
    BY <1>1, <1>4 DEF Mueve, Justifica
  <2>2. QED
    BY <1>1, <1>2, <2>1, PasoMueve DEF FaseP
<1>5. QED
  BY <1>3, <1>4 DEF Vigencia

\* A request told that its content was processed has a COMPLETED record behind it.
LEMMA PasoRevisar ==
    ASSUME IInvD, NEW q \in Peticion, Revisar(q)
    PROVE  IInvD' /\ PasoSano
<1>1. /\ pf[q] = "revisar" /\ pf[q] # "nueva" /\ UNCHANGED vars /\ IrP(q, "fin")
      /\ UNCHANGED <<ps, pp, pid, ph, candados, orden, replay>>
  BY DEF Revisar
<1>2. PasoSano /\ IInvR /\ ps[q] \in Slot /\ pp[q] \in Payload
  BY <1>1, Llegada, SanoQuieto
<1>3. CASE Decidir(q, RespuestaDeHit(Registro(q).status))
  <2>1. PICK r : r = RespuestaDeHit(Registro(q).status)
    OBVIOUS
  <2>2. r \in {"ok", "en_proceso"} /\ (r = "ok" => Enviado(q))
    BY <1>2, <2>1 DEF RespuestaDeHit, IInvR, Cola, ConfirmadoFueEnviado, Registro, Enviado
  <2>3. Mueve(q, "fin", r) /\ Justifica(q, "fin", r)
    BY <1>1, <1>2, <1>3, <2>1, <2>2 DEF Mueve, Justifica, Respuesta
  <2>4. QED
    BY <1>1, <1>2, <2>3, PasoMueve DEF FaseP
<1>4. CASE Decidir(q, "no_disponible")
  <2>1. Mueve(q, "fin", "no_disponible") /\ Justifica(q, "fin", "no_disponible")
    BY <1>1, <1>4 DEF Mueve, Justifica, Respuesta
  <2>2. QED
    BY <1>1, <1>2, <2>1, PasoMueve DEF FaseP
<1>5. QED
  BY <1>3, <1>4 DEF Revisar

\* A SET or a DEL of the record of the request.
LEMMA SanoEscribir ==
    ASSUME IInvD, NEW q \in Peticion, pf[q] # "nueva", UNCHANGED restoVars,
           \/ UNCHANGED colaVars
           \/ \E r \in Idem : /\ Escribir(q, r)
                              /\ r.status = "COMPLETED" => Enviado(q)
                              /\ r.status = "QUEUED" => Cuidada(q)
    PROVE  PasoSano
<1>1. IInvR /\ ps[q] \in Slot /\ pp[q] \in Payload
  BY Llegada
<1>2. CASE UNCHANGED colaVars
  <2>1. UNCHANGED vars
    BY <1>2 DEF vars, restoVars, lockVars
  <2>2. QED
    BY <1>1, <2>1, SanoQuieto
<1>3. CASE \E r \in Idem : /\ Escribir(q, r)
                           /\ r.status = "COMPLETED" => Enviado(q)
                           /\ r.status = "QUEUED" => Cuidada(q)
  <2>1. PICK r \in Idem : /\ Escribir(q, r)
                          /\ r.status = "COMPLETED" => Enviado(q)
                          /\ r.status = "QUEUED" => Cuidada(q)
    BY <1>3
  <2>2. PICK s \in Slot, p \in Payload : s = ps[q] /\ p = pp[q]
    BY <1>1
  <2>3. UNCHANGED colaSinIdem /\ idem' = [idem EXCEPT ![s][p] = r]
    BY <2>1, <2>2 DEF Escribir
  <2>4. (r.status = "COMPLETED" => p \in enviados[s]) /\ (r.status = "QUEUED" => Atendida(s))
    BY <2>1, <2>2 DEF Enviado, Cuidada
  <2>5. QED
    BY <1>1, <2>3, <2>4, SanoRegistro
<1>4. QED
  BY <1>2, <1>3

\* The records a request writes.
LEMMA Registros ==
    /\ IdemLibre \in Idem /\ IdemProcessing \in Idem /\ IdemCompletado \in Idem
    /\ \A i \in 0..MaxId : IdemEncolado(i) \in Idem
    /\ IdemLibre.status = "LIBRE" /\ IdemProcessing.status = "PROCESSING"
    /\ IdemCompletado.status = "COMPLETED"
<1>1. 0 \in 0..MaxId
  BY ConstantesAssumption
<1>2. QED
  BY <1>1 DEF IdemLibre, IdemProcessing, IdemCompletado, IdemEncolado, Idem, StatusIdem

\* The orphaned record is deleted, whatever it is by now: no answer follows from it.
LEMMA PasoBorrar ==
    ASSUME IInvD, NEW q \in Peticion, Borrar(q)
    PROVE  IInvD' /\ PasoSano
<1>1. /\ pf[q] = "borrar" /\ pf[q] # "nueva" /\ UNCHANGED restoVars
      /\ UNCHANGED <<ps, pp, pid, ph, candados, orden, replay>>
      /\ UNCHANGED colaVars \/ Escribir(q, IdemLibre)
      /\ \/ IrP(q, "iniciar") /\ UNCHANGED resp
         \/ IrP(q, "fin") /\ Decidir(q, "no_disponible")
  BY DEF Borrar, Falla, SinEfecto
<1>2. PasoSano
  BY <1>1, Registros, SanoEscribir
<1>3. CASE IrP(q, "iniciar") /\ UNCHANGED resp
  <2>1. Mueve(q, "iniciar", "igual") /\ Justifica(q, "iniciar", "igual")
    BY <1>1, <1>3 DEF Mueve, Justifica
  <2>2. QED
    BY <1>1, <1>2, <2>1, PasoMueve DEF FaseP
<1>4. CASE IrP(q, "fin") /\ Decidir(q, "no_disponible")
  <2>1. Mueve(q, "fin", "no_disponible") /\ Justifica(q, "fin", "no_disponible")
    BY <1>1, <1>4 DEF Mueve, Justifica, Respuesta
  <2>2. QED
    BY <1>1, <1>2, <2>1, PasoMueve DEF FaseP
<1>5. QED
  BY <1>1, <1>3, <1>4

\* The PROCESSING record is written if nobody else wrote one.
LEMMA PasoIniciarP ==
    ASSUME IInvD, NEW q \in Peticion, Iniciar(q)
    PROVE  IInvD' /\ PasoSano
<1>1. /\ pf[q] = "iniciar" /\ pf[q] # "nueva" /\ UNCHANGED restoVars
      /\ UNCHANGED <<ps, pp, pid, ph, candados, orden, replay>>
      /\ UNCHANGED colaVars \/ Escribir(q, IdemProcessing)
      /\ \/ IrP(q, "lock") /\ UNCHANGED resp
         \/ IrP(q, "revisar") /\ UNCHANGED resp
         \/ IrP(q, "fin") /\ Decidir(q, "no_disponible")
  BY DEF Iniciar, Falla, SinEfecto
<1>2. PasoSano
  BY <1>1, Registros, SanoEscribir
<1>3. ASSUME NEW f \in {"lock", "revisar"}, IrP(q, f), UNCHANGED resp
      PROVE  IInvD' /\ PasoSano
  <2>1. Mueve(q, f, "igual") /\ Justifica(q, f, "igual")
    BY <1>1, <1>3 DEF Mueve, Justifica
  <2>2. QED
    BY <1>1, <1>2, <2>1, PasoMueve DEF FaseP
<1>4. CASE IrP(q, "fin") /\ Decidir(q, "no_disponible")
  <2>1. Mueve(q, "fin", "no_disponible") /\ Justifica(q, "fin", "no_disponible")
    BY <1>1, <1>4 DEF Mueve, Justifica, Respuesta
  <2>2. QED
    BY <1>1, <1>2, <2>1, PasoMueve DEF FaseP
<1>5. QED
  BY <1>1, <1>3, <1>4

\* The COMPLETED record is written after the SFC took the content.
LEMMA PasoRegistrarExito ==
    ASSUME IInvD, NEW q \in Peticion, RegistrarExito(q)
    PROVE  IInvD' /\ PasoSano
<1>1. /\ pf[q] = "exito" /\ pf[q] # "nueva" /\ UNCHANGED restoVars /\ IrP(q, "leer")
      /\ UNCHANGED <<ps, pp, pid, ph, candados, resp, orden, replay>>
      /\ UNCHANGED colaVars \/ Escribir(q, IdemCompletado)
  BY DEF RegistrarExito, SinEfecto
<1>2. Enviado(q)
  BY <1>1, Llegada
<1>3. PasoSano
  BY <1>1, <1>2, Registros, SanoEscribir
<1>4. Mueve(q, "leer", "igual") /\ Justifica(q, "leer", "igual")
  BY <1>1, <1>2 DEF Mueve, Justifica
<1>5. QED
  BY <1>1, <1>3, <1>4, PasoMueve DEF FaseP

\* The QUEUED record is written after the content is in the queue.
LEMMA PasoRegistrarEncolado ==
    ASSUME IInvD, NEW q \in Peticion, RegistrarEncolado(q)
    PROVE  IInvD' /\ PasoSano
<1>1. /\ pf[q] = "registrar" /\ pf[q] # "nueva" /\ UNCHANGED restoVars /\ IrP(q, "soltar")
      /\ UNCHANGED <<ps, pp, pid, ph, candados, orden, replay>>
      /\ UNCHANGED colaVars \/ Escribir(q, IdemEncolado(pid[q]))
      /\ Decidir(q, "encolado") \/ Decidir(q, "fallo_doble")
  BY DEF RegistrarEncolado, Falla, SinEfecto
<1>2. Cuidada(q) /\ pid[q] \in 0..MaxId
  BY <1>1, Llegada
<1>3. IdemEncolado(pid[q]) \in Idem /\ IdemEncolado(pid[q]).status = "QUEUED"
  BY <1>2, Registros DEF IdemEncolado
<1>4. PasoSano
  BY <1>1, <1>2, <1>3, SanoEscribir
<1>5. ASSUME NEW r \in {"encolado", "fallo_doble"}, Decidir(q, r) PROVE IInvD' /\ PasoSano
  <2>1. Mueve(q, "soltar", r) /\ Justifica(q, "soltar", r)
    BY <1>1, <1>2, <1>5 DEF Mueve, Justifica, Respuesta
  <2>2. QED
    BY <1>1, <1>4, <2>1, PasoMueve DEF FaseP
<1>6. QED
  BY <1>1, <1>5

\* The record is deleted when the request did not end well; no record says more than before.
LEMMA PasoLiberar ==
    ASSUME IInvD, NEW q \in Peticion, Liberar(q)
    PROVE  IInvD' /\ PasoSano
<1>1. /\ pf[q] = "liberar" /\ pf[q] # "nueva" /\ UNCHANGED restoVars /\ IrP(q, "fin")
      /\ UNCHANGED <<ps, pp, pid, ph, candados, resp, orden, replay>>
      /\ UNCHANGED colaVars \/ Escribir(q, IdemLibre)
  BY DEF Liberar, SinEfecto
<1>2. PasoSano
  BY <1>1, Registros, SanoEscribir
<1>3. Mueve(q, "fin", "igual") /\ Justifica(q, "fin", "igual")
  BY <1>1 DEF Mueve, Justifica
<1>4. QED
  BY <1>1, <1>2, <1>3, PasoMueve DEF FaseP

\* The lock of the case is taken, or the request goes to the queue.
LEMMA PasoTomarLock ==
    ASSUME IInvD, NEW q \in Peticion, TomarLock(q)
    PROVE  IInvD' /\ PasoSano
<1>1. /\ pf[q] = "lock" /\ pf[q] # "nueva" /\ UNCHANGED <<colaVars, nodoVars, jobLock, sfcVars>>
      /\ UNCHANGED <<ps, pp, pid, ph, resp, orden, replay>>
      /\ casoLock' \in {casoLock, [casoLock EXCEPT ![CasoDe[ps[q]]] = q]}
      /\ candados' \in {candados, candados \cup {q}}
      /\ IrP(q, "sfc") \/ IrP(q, "encolar")
  BY DEF TomarLock
<1>2. IInvR /\ CasoDe[ps[q]] \in Caso
  BY <1>1, Llegada
<1>3. casoLock' \in [Caso -> Node \cup Peticion \cup {Nadie}]
  BY <1>1, <1>2, TipoPorPartes DEF TipoLock
<1>4. PasoSano
  BY <1>1, <1>2, <1>3, SanoLock
<1>5. ASSUME NEW f \in {"sfc", "encolar"}, IrP(q, f) PROVE IInvD' /\ PasoSano
  <2>1. Mueve(q, f, "igual") /\ Justifica(q, f, "igual")
    BY <1>1, <1>5 DEF Mueve, Justifica
  <2>2. QED
    BY <1>1, <1>4, <2>1, PasoMueve DEF FaseP
<1>6. QED
  BY <1>1, <1>5

\* The lock is given back by its owner, and the answer stays.
LEMMA PasoSoltar ==
    ASSUME IInvD, NEW q \in Peticion, Soltar(q)
    PROVE  IInvD' /\ PasoSano
<1>1. PICK f : f = FaseTrasSoltar(resp[q])
  OBVIOUS
<1>2. /\ pf[q] = "soltar" /\ pf[q] # "nueva" /\ UNCHANGED <<colaVars, nodoVars, jobLock, sfcVars>>
      /\ UNCHANGED <<ps, pp, pid, ph, resp, orden, replay>>
      /\ casoLock' \in {casoLock, [casoLock EXCEPT ![CasoDe[ps[q]]] = Nadie]}
      /\ candados' = candados \ {q}
      /\ IrP(q, f) /\ f \in {"fin", "liberar"}
  BY <1>1 DEF Soltar, FaseTrasSoltar
<1>3. IInvR /\ CasoDe[ps[q]] \in Caso
  BY <1>2, Llegada
<1>4. casoLock' \in [Caso -> Node \cup Peticion \cup {Nadie}]
  BY <1>2, <1>3, TipoPorPartes DEF TipoLock
<1>5. PasoSano
  BY <1>2, <1>3, <1>4, SanoLock
<1>6. Mueve(q, f, "igual") /\ Justifica(q, f, "igual")
  BY <1>2 DEF Mueve, Justifica
<1>7. QED
  BY <1>2, <1>5, <1>6, PasoMueve DEF FaseP

\* The SFC takes the content, rejects it, or fails and the content is to be queued.
LEMMA PasoEnviar ==
    ASSUME IInvD, NEW q \in Peticion, Enviar(q)
    PROVE  IInvD' /\ PasoSano
<1>1. /\ pf[q] = "sfc" /\ pf[q] # "nueva" /\ UNCHANGED <<ps, pp, pid, ph, candados, orden, replay>>
      /\ UNCHANGED <<colaVars, nodoVars, lockVars, confirmados, perdidos>>
      /\ AceptarP(q) \/ enviados' = enviados
      /\ \/ AceptarP(q) /\ IrP(q, "exito") /\ UNCHANGED resp
         \/ Decidir(q, "rechazado") /\ IrP(q, "soltar")
         \/ IrP(q, "encolar") /\ UNCHANGED resp
  BY DEF Enviar
<1>2. PICK s \in Slot, p \in Payload : s = ps[q] /\ p = pp[q]
  BY <1>1, Llegada
<1>3. enviados' \in {enviados, [enviados EXCEPT ![s] = @ \cup {p}]}
  BY <1>1, <1>2 DEF AceptarP
<1>4. IInvR
  BY DEF IInvD
<1>5. PasoSano
  BY <1>1, <1>3, <1>4, SanoAceptar
<1>6. CASE AceptarP(q) /\ IrP(q, "exito") /\ UNCHANGED resp
  <2>1. Enviado(q)'
    BY <1>1, <1>2, <1>4, <1>6, TipoPorPartes DEF AceptarP, Enviado, TipoSfc
  <2>2. Mueve(q, "exito", "igual") /\ Justifica(q, "exito", "igual")
    BY <1>1, <1>6, <2>1 DEF Mueve, Justifica
  <2>3. QED
    BY <1>1, <1>5, <2>2, PasoMueve DEF FaseP
<1>7. CASE Decidir(q, "rechazado") /\ IrP(q, "soltar")
  <2>1. Mueve(q, "soltar", "rechazado") /\ Justifica(q, "soltar", "rechazado")
    BY <1>1, <1>7 DEF Mueve, Justifica, Respuesta
  <2>2. QED
    BY <1>1, <1>5, <2>1, PasoMueve DEF FaseP
<1>8. CASE IrP(q, "encolar") /\ UNCHANGED resp
  <2>1. Mueve(q, "encolar", "igual") /\ Justifica(q, "encolar", "igual")
    BY <1>1, <1>8 DEF Mueve, Justifica
  <2>2. QED
    BY <1>1, <1>5, <2>1, PasoMueve DEF FaseP
<1>9. QED
  BY <1>1, <1>6, <1>7, <1>8

\* After a success the request looks for an older content in the queue,
LEMMA PasoLeerObsoleto ==
    ASSUME IInvD, NEW q \in Peticion, LeerObsoleto(q)
    PROVE  IInvD' /\ PasoSano
<1>1. pf[q] = "leer" /\ pf[q] # "nueva" /\ UNCHANGED vars /\ UNCHANGED <<ps, pp, candados, orden, replay>>
  BY DEF LeerObsoleto
<1>2. PasoSano /\ Enviado(q) /\ IInvR /\ TipoPet /\ ps[q] \in Slot
  BY <1>1, Llegada, SanoQuieto
<1>3. CASE /\ SlotOcupado(ps[q])
           /\ pid' = [pid EXCEPT ![q] = index[ps[q]]]
           /\ ph' = [ph EXCEPT ![q] = item[index[ps[q]]].payload]
           /\ IrP(q, "cancelar") /\ UNCHANGED resp
  <2>1. PICK j \in Id : j = index[ps[q]] /\ Existe(j)
    BY <1>2, <1>3, TipoPorPartes DEF SlotOcupado, Vivo, TypeOK, Id
  <2>2. j \in 0..MaxId
    BY <2>1 DEF Id
  <2>3. PICK p \in Payload : p = item[j].payload
    BY <1>2, <2>1, ColaTipos, TipoPorPartes DEF Item
  <2>4. pid' \in [Peticion -> 0..MaxId] /\ ph' \in [Peticion -> Payload \cup {SinRespuesta}]
    BY <1>2, <1>3, <2>1, <2>2, <2>3 DEF TipoPet
  <2>5. Mueve(q, "cancelar", "igual") /\ Justifica(q, "cancelar", "igual")
    BY <1>1, <1>2, <1>3, <2>4 DEF Mueve, Justifica
  <2>6. QED
    BY <1>1, <1>2, <2>5, PasoMueve DEF FaseP
<1>4. CASE Decidir(q, "ok") /\ IrP(q, "soltar") /\ UNCHANGED <<pid, ph>>
  <2>1. Mueve(q, "soltar", "ok") /\ Justifica(q, "soltar", "ok")
    BY <1>1, <1>2, <1>4 DEF Mueve, Justifica, Respuesta
  <2>2. QED
    BY <1>1, <1>2, <2>1, PasoMueve DEF FaseP
<1>5. QED
  BY <1>3, <1>4 DEF LeerObsoleto

\* and cancels it: its obligation has been sent, so it does not vanish.
LEMMA PasoCancelarObsoleto ==
    ASSUME IInvD, NEW q \in Peticion, CancelarObsoleto(q)
    PROVE  IInvD' /\ PasoSano
<1>1. /\ pf[q] = "cancelar" /\ pf[q] # "nueva" /\ UNCHANGED restoVars
      /\ UNCHANGED <<ps, pp, pid, ph, candados, orden, replay>>
      /\ UNCHANGED colaVars \/ Cancelar(ps[q], pid[q], ph[q])
      /\ Decidir(q, "ok") /\ IrP(q, "soltar")
  BY DEF CancelarObsoleto, SinEfecto
<1>2. /\ IInvR /\ IndiceFiel /\ ps[q] \in Slot /\ pp[q] \in Payload /\ pid[q] \in 0..MaxId
      /\ Enviado(q)
  BY <1>1, Llegada
<1>3. PasoSano
  <2>1. CASE UNCHANGED colaVars
    BY <1>1, <2>1, SanoEscribir
  <2>2. CASE Cancelar(ps[q], pid[q], ph[q])
    <3>1. PICK s \in Slot, x \in Payload, j \in 0..MaxId : s = ps[q] /\ x = pp[q] /\ j = pid[q]
      BY <1>2
    <3>2. Cancelar(s, j, ph[q]) /\ x \in enviados[s]
      BY <1>2, <2>2, <3>1 DEF Enviado
    <3>3. QED
      BY <1>1, <1>2, <3>2, SanoCancelar
  <2>3. QED
    BY <1>1, <2>1, <2>2
<1>4. Mueve(q, "soltar", "ok") /\ Justifica(q, "soltar", "ok")
  BY <1>1, <1>2 DEF Mueve, Justifica, Respuesta
<1>5. QED
  BY <1>1, <1>3, <1>4, PasoMueve DEF FaseP

\* The content is queued before the request says so.
LEMMA PasoEncolarContingencia ==
    ASSUME IInvD, NEW q \in Peticion, EncolarContingencia(q)
    PROVE  IInvD' /\ PasoSano
<1>1. /\ pf[q] = "encolar" /\ pf[q] # "nueva" /\ UNCHANGED restoVars
      /\ UNCHANGED <<ps, pp, ph, candados, orden, replay>>
      /\ \/ /\ Encolar(ps[q], pp[q]) /\ pid' = [pid EXCEPT ![q] = index'[ps[q]]]
            /\ IrP(q, "registrar") /\ UNCHANGED resp
         \/ /\ UNCHANGED colaVars \/ Encolar(ps[q], pp[q])
            /\ Decidir(q, "fallo_doble") /\ IrP(q, "soltar") /\ UNCHANGED pid
  BY DEF EncolarContingencia, Falla, SinEfecto
<1>2. IInvR /\ IndiceFiel /\ TipoPet
  BY <1>1, Llegada
<1>3. PICK s \in Slot, p \in Payload : s = ps[q] /\ p = pp[q]
  BY <1>1, Llegada
<1>4. Encolar(s, p) => PasoSano /\ index'[s] \in 0..MaxId /\ Atendida(s)'
  BY <1>1, <1>2, SanoEncolar
<1>5. PasoSano
  BY <1>1, <1>3, <1>4, SanoEscribir
<1>6. CASE /\ Encolar(ps[q], pp[q]) /\ pid' = [pid EXCEPT ![q] = index'[ps[q]]]
           /\ IrP(q, "registrar") /\ UNCHANGED resp
  <2>1. index'[s] \in 0..MaxId /\ Atendida(s)' /\ s = ps'[q]
    BY <1>1, <1>3, <1>4, <1>6
  <2>2. pid' \in [Peticion -> 0..MaxId]
    BY <1>2, <1>3, <1>6, <2>1 DEF TipoPet
  <2>3. Cuidada(q)'
    BY <2>1 DEF Cuidada, Atendida, EnCola
  <2>4. Mueve(q, "registrar", "igual") /\ Justifica(q, "registrar", "igual")
    BY <1>1, <1>6, <2>2, <2>3 DEF Mueve, Justifica
  <2>5. QED
    BY <1>1, <1>5, <2>4, PasoMueve DEF FaseP
<1>7. CASE Decidir(q, "fallo_doble") /\ IrP(q, "soltar") /\ UNCHANGED pid
  <2>1. Mueve(q, "soltar", "fallo_doble") /\ Justifica(q, "soltar", "fallo_doble")
    BY <1>1, <1>7 DEF Mueve, Justifica, Respuesta
  <2>2. QED
    BY <1>1, <1>5, <2>1, PasoMueve DEF FaseP
<1>8. QED
  BY <1>1, <1>6, <1>7

\* A request cut off answers nothing and leaves its record and its lock.
LEMMA PasoCaerPeticion ==
    ASSUME IInvD, NEW q \in Peticion, CaerPeticion(q)
    PROVE  IInvD' /\ PasoSano
<1>1. /\ pf[q] # "nueva" /\ UNCHANGED vars /\ IrP(q, "fin") /\ Decidir(q, "cortada")
      /\ candados' = candados \ {q} /\ UNCHANGED <<ps, pp, pid, ph, orden, replay>>
  BY DEF CaerPeticion
<1>2. PasoSano
  BY <1>1, Llegada, SanoQuieto
<1>3. Mueve(q, "fin", "cortada") /\ Justifica(q, "fin", "cortada")
  BY <1>1 DEF Mueve, Justifica, Respuesta
<1>4. QED
  BY <1>1, <1>2, <1>3, PasoMueve DEF FaseP

\* A new request: nothing is known of it, and nobody has answered it.
LEMMA PasoLlegar ==
    ASSUME IInvD, NEW q \in Peticion, NEW s \in Slot, NEW p \in Payload, Llegar(q, s, p)
    PROVE  IInvD' /\ PasoSano
<1>1. /\ pf[q] = "nueva" /\ UNCHANGED vars /\ IrP(q, "verificar")
      /\ ps' = [ps EXCEPT ![q] = s] /\ pp' = [pp EXCEPT ![q] = p]
      /\ orden' = [orden EXCEPT ![q] = 1 + Cardinality({r \in Peticion : orden[r] # 0})]
      /\ UNCHANGED <<pid, ph, candados, resp, replay>>
  BY DEF Llegar
<1>2. IInvR /\ TipoPet /\ Peti(q)
  BY DEF IInvD
<1>3. PasoSano
  BY <1>1, <1>2, SanoQuieto
<1>4. PICK k \in Nat : k = Cardinality({r \in Peticion : orden[r] # 0})
  <2>1. IsFiniteSet({r \in Peticion : orden[r] # 0})
    BY FS_Subset, DespachoAssumption
  <2>2. QED
    BY <2>1, FS_CardinalityType
<1>5. TipoPet'
  <2>1. orden' \in [Peticion -> Nat]
    BY <1>1, <1>2, <1>4 DEF TipoPet
  <2>2. pf' \in [Peticion -> FaseP]
    BY <1>1, <1>2 DEF TipoPet, IrP, FaseP
  <2>3. QED
    BY <1>1, <1>2, <2>1, <2>2 DEF TipoPet
<1>6. ReplayVeraz'
  BY <1>1, <1>3, ReplayQueda DEF PasoSano
<1>7. Peti(q)'
  <2>1. pf'[q] = "verificar" /\ ps'[q] = s /\ pp'[q] = p /\ resp'[q] = "ninguna"
    BY <1>1, <1>2 DEF TipoPet, IrP, Peti
  <2>2. QED
    BY <2>1 DEF Peti
<1>8. ASSUME NEW x \in Peticion, x # q PROVE Peti(x)'
  <2>1. QuietaP(x)
    BY <1>1, <1>2, <1>8 DEF IrP, TipoPet, QuietaP
  <2>2. QED
    BY <1>3, <2>1, PetiQuieta DEF IInvD, PasoSano
<1>9. QED
  BY <1>3, <1>5, <1>6, <1>7, <1>8, PasoD

-----------------------------------------------------------------------------
(* The replays of the operator, and the leases.                             *)

\* A step of a replay: the requests are as they were.
LEMMA PasoDeReplay ==
    ASSUME IInvD, PasoSano, UNCHANGED <<pf, ps, pp, pid, ph, candados, resp, orden>>,
           replay' \subseteq [id : Id, leido : (Slot \X Payload) \cup {SinItem}],
           \A r \in replay' : r \in replay \/ r.leido = SinItem \/ Atendida(r.leido[1])'
    PROVE  IInvD'
<1>1. TipoPet' /\ \A q \in Peticion : QuietaP(q)
  BY DEF IInvD, TipoPet, QuietaP
<1>2. ReplayVeraz'
  BY ReplayQueda DEF PasoSano
<1>3. \A q \in Peticion : Peti(q)'
  BY <1>1, PetiQuieta DEF IInvD, PasoSano
<1>4. QED
  BY <1>1, <1>2, <1>3, PasoD

\* The requeue of the operator revives an item and leaves a replay to register.
LEMMA PasoReencolarOperador ==
    ASSUME IInvD, NEW i \in Id, ReencolarOperador(i)
    PROVE  IInvD' /\ PasoSano
<1>1. /\ Reencolar(i) /\ UNCHANGED restoVars /\ replay' = replay \cup {PorLeer(i)}
      /\ UNCHANGED <<pf, ps, pp, pid, ph, candados, resp, orden>>
  BY DEF ReencolarOperador
<1>2. PasoSano
  BY <1>1, SanoReencolar DEF IInvD
<1>3. PorLeer(i) \in [id : Id, leido : (Slot \X Payload) \cup {SinItem}] /\ PorLeer(i).leido = SinItem
  BY DEF PorLeer
<1>4. replay' \subseteq [id : Id, leido : (Slot \X Payload) \cup {SinItem}]
  BY <1>1, <1>3 DEF IInvD, TipoPet
<1>5. \A r \in replay' : r \in replay \/ r.leido = SinItem
  BY <1>1, <1>3
<1>6. QED
  BY <1>1, <1>2, <1>4, <1>5, PasoDeReplay

\* What the replay reads of its item is an obligation attended,
LEMMA PasoLeerReplay ==
    ASSUME IInvD, NEW i \in Id, LeerReplay(i)
    PROVE  IInvD' /\ PasoSano
<1>1. /\ UNCHANGED vars /\ UNCHANGED <<pf, ps, pp, pid, ph, candados, resp, orden>>
      /\ replay' = (replay \ {PorLeer(i)}) \cup
                     (IF Existe(i)
                        THEN {[id |-> i, leido |-> <<item[i].slot, item[i].payload>>]} ELSE {})
  BY DEF LeerReplay
<1>2. PasoSano /\ IInvR /\ replay \subseteq [id : Id, leido : (Slot \X Payload) \cup {SinItem}]
  BY <1>1, SanoQuieto DEF IInvD, TipoPet
<1>3. CASE ~Existe(i)
  <2>1. replay' \subseteq replay
    BY <1>1, <1>3
  <2>2. replay' \subseteq [id : Id, leido : (Slot \X Payload) \cup {SinItem}]
        /\ \A r \in replay' : r \in replay
    BY <1>2, <2>1
  <2>3. QED
    BY <1>1, <1>2, <2>2, PasoDeReplay
<1>4. CASE Existe(i)
  <2>1. PICK s \in Slot, p \in Payload : s = item[i].slot /\ p = item[i].payload
    BY <1>2, <1>4, ColaTipos, TipoPorPartes DEF Item
  <2>2. PICK x : x = [id |-> i, leido |-> <<s, p>>]
    OBVIOUS
  <2>3. replay' = (replay \ {PorLeer(i)}) \cup {x}
    BY <1>1, <1>4, <2>1, <2>2
  <2>4. x \in [id : Id, leido : (Slot \X Payload) \cup {SinItem}] /\ x.leido[1] = s
    BY <2>2
  <2>5. Atendida(s)'
    <3>1. Atendida(s)
      BY <1>4, <2>1 DEF Atendida, EnCola
    <3>2. QED
      BY <1>2, <3>1 DEF PasoSano, Estable
  <2>6. Atendida(x.leido[1])'
    BY <2>4, <2>5
  <2>7. /\ replay' \subseteq [id : Id, leido : (Slot \X Payload) \cup {SinItem}]
        /\ \A r \in replay' : r \in replay \/ r = x
    BY <1>2, <2>3, <2>4
  <2>8. QED
    BY <1>1, <1>2, <2>6, <2>7, PasoDeReplay
<1>5. QED
  BY <1>3, <1>4

\* so the QUEUED record it writes, if it does, is about one.
LEMMA PasoQuitaReplay ==
    ASSUME IInvD, NEW r \in replay, RegistrarReplay(r) \/ AbandonarReplay(r)
    PROVE  IInvD' /\ PasoSano
<1>1. replay' = replay \ {r} /\ UNCHANGED <<pf, ps, pp, pid, ph, candados, resp, orden>>
  BY DEF RegistrarReplay, AbandonarReplay
<1>2. IInvR /\ replay \subseteq [id : Id, leido : (Slot \X Payload) \cup {SinItem}]
  BY DEF IInvD, TipoPet
<1>3. PasoSano
  <2>1. CASE AbandonarReplay(r)
    BY <1>2, <2>1, SanoQuieto DEF AbandonarReplay
  <2>2. CASE RegistrarReplay(r)
    <3>0. r.leido \in Slot \X Payload /\ r.id \in Id
      BY <1>2, <2>2 DEF RegistrarReplay
    <3>1. PICK s \in Slot, p \in Payload, i \in Id : r.leido = <<s, p>> /\ i = r.id
      BY <3>0
    <3>2. /\ r.leido # SinItem /\ UNCHANGED restoVars /\ UNCHANGED colaSinIdem
          /\ idem' = [idem EXCEPT ![s][p] = IdemEncolado(i)]
      BY <2>2, <3>1 DEF RegistrarReplay
    <3>3. Atendida(s)
      <4>1. r.leido[1] = s
        BY <3>1
      <4>2. QED
        BY <3>2, <4>1 DEF IInvD, ReplayVeraz
    <3>4. IdemEncolado(i) \in Idem /\ IdemEncolado(i).status = "QUEUED"
      BY Registros DEF IdemEncolado, Id
    <3>5. QED
      BY <1>2, <3>2, <3>3, <3>4, SanoRegistro
  <2>3. QED
    BY <2>1, <2>2
<1>4. replay' \subseteq [id : Id, leido : (Slot \X Payload) \cup {SinItem}]
      /\ \A x \in replay' : x \in replay
  BY <1>1, <1>2
<1>5. QED
  BY <1>1, <1>3, <1>4, PasoDeReplay

\* A PROCESSING record that expires changes no other.
LEMMA PasoVenceProcessing ==
    ASSUME IInvD, NEW s \in Slot, NEW p \in Payload, VenceProcessing(s, p)
    PROVE  IInvD' /\ PasoSano
<1>1. /\ UNCHANGED petVars /\ UNCHANGED restoVars /\ UNCHANGED colaSinIdem
      /\ idem' = [idem EXCEPT ![s][p] = IdemLibre]
  BY DEF VenceProcessing
<1>2. PasoSano
  BY <1>1, Registros, SanoRegistro DEF IInvD
<1>3. QED
  BY <1>1, <1>2, PasoSinPeticion

\* The lock of a request that expires touches neither records nor items.
LEMMA PasoVenceLockPeticion ==
    ASSUME IInvD, NEW c \in Caso, VenceLockPeticion(c)
    PROVE  IInvD' /\ PasoSano
<1>1. /\ UNCHANGED <<colaVars, nodoVars, jobLock, sfcVars>> /\ UNCHANGED petVars
      /\ casoLock' = [casoLock EXCEPT ![c] = Nadie]
  BY DEF VenceLockPeticion
<1>2. IInvR
  BY DEF IInvD
<1>3. casoLock' \in [Caso -> Node \cup Peticion \cup {Nadie}]
  BY <1>1, <1>2, TipoPorPartes DEF TipoLock
<1>4. PasoSano
  BY <1>1, <1>2, <1>3, SanoLock
<1>5. QED
  BY <1>1, <1>4, PasoSinPeticion

\* The workers and the dates of the queue.
LEMMA PasoAjeno ==
    ASSUME IInvD,
           \/ \E n \in Node : PasoNodoD(n) \/ CaerD(n)
           \/ VencimientosD
           \/ \E i \in Id : VencerD(i)
           \/ UNCHANGED todo
    PROVE  IInvD' /\ PasoSano
<1>1. IInvR
  BY DEF IInvD
<1>2. CASE \E n \in Node : PasoNodoD(n) \/ CaerD(n)
  BY <1>1, <1>2, SanoNodo, PasoSinPeticion DEF PasoNodoD, CaerD
<1>3. CASE VencimientosD
  BY <1>1, <1>3, SanoVencimientos, PasoSinPeticion DEF VencimientosD
<1>4. CASE \E i \in Id : VencerD(i)
  <2>1. PICK i \in Id : Vencer(i) /\ UNCHANGED restoVars /\ UNCHANGED petVars
    BY <1>4 DEF VencerD
  <2>2. QED
    BY <1>1, <2>1, SanoReencolar, PasoSinPeticion
<1>5. CASE UNCHANGED todo
  <2>1. UNCHANGED vars /\ UNCHANGED petVars
    BY <1>5 DEF todo
  <2>2. QED
    BY <1>1, <2>1, SanoQuieto, PasoSinPeticion
<1>6. QED
  BY <1>2, <1>3, <1>4, <1>5

\* Every step of a request, or its cut, keeps the invariant.
LEMMA PasoDePeticion ==
    ASSUME IInvD, NEW q \in Peticion, PasoPeticion(q) \/ CaerPeticion(q)
    PROVE  IInvD' /\ PasoSano
BY PasoVerificar, PasoVigencia, PasoBorrar, PasoIniciarP, PasoRevisar, PasoTomarLock, PasoEnviar,
   PasoRegistrarExito, PasoLeerObsoleto, PasoCancelarObsoleto, PasoEncolarContingencia,
   PasoRegistrarEncolado, PasoSoltar, PasoLiberar, PasoCaerPeticion DEF PasoPeticion

\* Every step of the whole system keeps it and is sound.
LEMMA InvariantePasoD ==
    ASSUME IInvD, [NextD]_todo
    PROVE  IInvD' /\ PasoSano
<1>1. CASE \/ \E q \in Peticion, s \in Slot, p \in Payload : Llegar(q, s, p)
           \/ \E q \in Peticion : PasoPeticion(q) \/ CaerPeticion(q)
  BY <1>1, PasoLlegar, PasoDePeticion
<1>2. CASE \/ \E n \in Node : PasoNodoD(n) \/ CaerD(n)
           \/ VencimientosD
           \/ \E i \in Id : VencerD(i)
           \/ UNCHANGED todo
  BY <1>2, PasoAjeno
<1>3. CASE \/ \E s \in Slot, p \in Payload : VenceProcessing(s, p)
           \/ \E c \in Caso : VenceLockPeticion(c)
  BY <1>3, PasoVenceProcessing, PasoVenceLockPeticion
<1>4. CASE \/ \E i \in Id : ReencolarOperador(i)
           \/ PasoReplay
           \/ \E r \in replay : AbandonarReplay(r)
  BY <1>4, PasoReencolarOperador, PasoLeerReplay, PasoQuitaReplay DEF PasoReplay
<1>5. QED
  BY <1>1, <1>2, <1>3, <1>4 DEF NextD

\* The inductive invariant holds at the start.
LEMMA InvarianteInicialD == InitD => IInvD
<1> SUFFICES ASSUME InitD PROVE IInvD
  OBVIOUS
<1>1. IInvR /\ Init
  BY InvarianteInicial DEF InitD, InitR
<1>2. TipoPet
  <2>1. 0 \in 0..MaxId /\ "nueva" \in FaseP /\ "ninguna" \in Respuesta
    BY ConstantesAssumption DEF FaseP, Respuesta
  <2>2. QED
    BY <2>1 DEF InitD, TipoPet
<1>3. IndiceFiel
  <2>1. counter = 0 /\ \A s \in Slot : index[s] = 0
    BY <1>1 DEF Init
  <2>2. ASSUME NEW s \in Slot PROVE index[s] <= counter /\ ~(index[s] # 0)
    BY <2>1
  <2>3. QED
    BY <2>2 DEF IndiceFiel
<1>4. IdemVeraz /\ ReplayVeraz
  <2>1. \A s \in Slot, p \in Payload : idem[s][p].status = "LIBRE"
    BY <1>1 DEF Init, IdemLibre
  <2>2. QED
    BY <2>1 DEF InitD, IdemVeraz, ReplayVeraz
<1>5. \A q \in Peticion : Peti(q)
  BY DEF InitD, Peti
<1>6. QED
  BY <1>1, <1>2, <1>3, <1>4, <1>5 DEF IInvD

-----------------------------------------------------------------------------
(* What follows for every choice of Fallos.                                 *)

\* IInvD holds of every reachable state of requests and workers together.
THEOREM InvarianteDespacho == SpecD => []IInvD
<1>1. IInvD /\ [NextD]_todo => IInvD'
  BY InvariantePasoD
<1>2. QED
  BY <1>1, InvarianteInicialD, PTL DEF SpecD

\* Every reachable state of requests, replays and workers is well typed, whatever
\* fails.
THEOREM TipadoDespacho == SpecD => []TypeOKD
<1>1. IInvD => TypeOKD
  BY TipoPorPartesD DEF IInvD, IInvR
<1>2. QED
  BY <1>1, InvarianteDespacho, PTL

\* despachar_queja_crm tells the CRM the truth, whatever fails and however the
\* requests, the workers and the replays interleave: 200 only for a content the
\* SFC has taken, 202 "queued" only for an obligation that has not vanished.
THEOREM RespuestaSiempreHonesta == SpecD => []RespuestaHonesta
<1>1. IInvD => RespuestaHonesta
  BY DEF IInvD, Peti, Enviado, Cuidada, Atendida, RespuestaHonesta
<1>2. QED
  BY <1>1, InvarianteDespacho, PTL

\* sfc_completado, COMPLETED and the idempotency record stay true with the
\* requests writing them next to the workers.
THEOREM ConfirmadoVerazDespacho == SpecD => []ConfirmadoFueEnviado
<1>1. IInvD => ConfirmadoFueEnviado
  BY DEF IInvD, IInvR, Cola
<1>2. QED
  BY <1>1, InvarianteDespacho, PTL

\* Requests, replays and workers together use the store as SpecAbierta allows, so
\* what ColaRedisProofs proves of it holds of the whole service.
THEOREM ImplementaColaDespacho == SpecD => SpecAbierta
<1>1. InitD => Init
  BY DEF InitD, InitR
<1>2. IInvD /\ [NextD]_todo => [Next \/ SoloIdem]_colaVars
  BY InvariantePasoD DEF PasoSano, PasoCola
<1>3. QED
  BY <1>1, <1>2, InvarianteDespacho, PTL DEF SpecD, SpecAbierta

-----------------------------------------------------------------------------
(* With leases that hold: one caller of the SFC per case.                   *)

\* A request that calls the SFC holds the lock of its case, and knows it.
Candado(q) == pf[q] = "sfc" => q \in candados /\ casoLock[CasoDe[ps[q]]] = q
LockInv == ExclusionPorCaso /\ \A q \in Peticion : Candado(q)

\* What a step of request q does to the locks: it takes a free one or gives back
\* its own, and does not go to the SFC without it.
UsaLock(q) ==
    /\ caso' = caso
    /\ \A r \in Peticion : r # q => /\ pf'[r] = pf[r] /\ ps'[r] = ps[r]
                                    /\ r \in candados => r \in candados'
    /\ \A c \in Caso : casoLock'[c] = casoLock[c] \/ casoLock[c] \in {Nadie, q}
    /\ pf'[q] = "sfc" => q \in candados' /\ casoLock'[CasoDe[ps'[q]]] = q

\* A step of a request uses the lock of its case as its owner only.
LEMMA LockDePeticion ==
    ASSUME TipoPet, TipoLock, NEW q \in Peticion, pf[q] # "nueva" => CasoDe[ps[q]] \in Caso,
           \/ PasoPeticion(q) \/ CaerPeticion(q)
           \/ \E s \in Slot, p \in Payload : Llegar(q, s, p)
    PROVE  UsaLock(q)
<1>1. ASSUME NEW f, IrP(q, f), f # "sfc", caso' = caso, casoLock' = casoLock,
             candados' \in {candados, candados \ {q}},
             \A r \in Peticion : r # q => ps'[r] = ps[r]
      PROVE  UsaLock(q)
  <2>1. pf'[q] = f /\ \A r \in Peticion : r # q => pf'[r] = pf[r]
    BY <1>1 DEF IrP, TipoPet
  <2>2. \A r \in Peticion : r # q /\ r \in candados => r \in candados'
    BY <1>1
  <2>3. QED
    BY <1>1, <2>1, <2>2 DEF UsaLock
<1>2. CASE \E s \in Slot, p \in Payload : Llegar(q, s, p)
  <2>1. PICK s \in Slot : /\ UNCHANGED vars /\ candados' = candados /\ IrP(q, "verificar")
                          /\ ps' = [ps EXCEPT ![q] = s]
    BY <1>2 DEF Llegar
  <2>2. caso' = caso /\ casoLock' = casoLock
    BY <2>1 DEF vars, nodoVars, lockVars
  <2>3. \A r \in Peticion : r # q => ps'[r] = ps[r]
    BY <2>1 DEF TipoPet
  <2>4. QED
    BY <1>1, <2>1, <2>2, <2>3
<1>3. CASE Verificar(q) \/ Vigencia(q) \/ Revisar(q) \/ LeerObsoleto(q) \/ CaerPeticion(q)
  <2>1. /\ UNCHANGED vars /\ candados' \in {candados, candados \ {q}} /\ ps' = ps
        /\ \E f \in {"iniciar", "fin", "vigencia", "borrar", "cancelar", "soltar"} : IrP(q, f)
    BY <1>3 DEF Verificar, Vigencia, Revisar, LeerObsoleto, CaerPeticion
  <2>2. caso' = caso /\ casoLock' = casoLock
    BY <2>1 DEF vars, nodoVars, lockVars
  <2>3. QED
    BY <1>1, <2>1, <2>2
<1>4. CASE \/ Borrar(q) \/ Iniciar(q) \/ RegistrarExito(q) \/ CancelarObsoleto(q)
           \/ EncolarContingencia(q) \/ RegistrarEncolado(q) \/ Liberar(q)
  <2>1. /\ UNCHANGED restoVars /\ candados' = candados /\ ps' = ps
        /\ \E f \in {"iniciar", "fin", "lock", "revisar", "leer", "soltar", "registrar"} : IrP(q, f)
    BY <1>4 DEF Borrar, Iniciar, RegistrarExito, CancelarObsoleto, EncolarContingencia,
                RegistrarEncolado, Liberar
  <2>2. caso' = caso /\ casoLock' = casoLock
    BY <2>1 DEF restoVars, nodoVars
  <2>3. QED
    BY <1>1, <2>1, <2>2
<1>5. CASE Enviar(q)
  <2>1. /\ UNCHANGED <<nodoVars, lockVars>> /\ candados' = candados /\ ps' = ps
        /\ \E f \in {"exito", "soltar", "encolar"} : IrP(q, f)
    BY <1>5 DEF Enviar
  <2>2. caso' = caso /\ casoLock' = casoLock
    BY <2>1 DEF nodoVars, lockVars
  <2>3. QED
    BY <1>1, <2>1, <2>2
<1>6. CASE TomarLock(q) \/ Soltar(q)
  <2>1. PICK c \in Caso : c = CasoDe[ps[q]]
    BY <1>6 DEF TomarLock, Soltar
  <2>2. /\ UNCHANGED nodoVars /\ ps' = ps /\ candados' \in {candados, candados \cup {q}, candados \ {q}}
        /\ \/ casoLock' = casoLock
           \/ casoLock[c] = Nadie /\ casoLock' = [casoLock EXCEPT ![c] = q]
           \/ casoLock[c] = q /\ casoLock' = [casoLock EXCEPT ![c] = Nadie]
    BY <1>6, <2>1 DEF TomarLock, Soltar, LockLibre
  <2>3. PICK f : /\ IrP(q, f)
                 /\ f = "sfc" => candados' = candados \cup {q} /\ casoLock' = [casoLock EXCEPT ![c] = q]
    BY <1>6, <2>1 DEF TomarLock, Soltar, FaseTrasSoltar
  <2>4. pf'[q] = f /\ \A r \in Peticion : r # q => pf'[r] = pf[r]
    BY <2>3 DEF IrP, TipoPet
  <2>5. caso' = caso
    BY <2>2 DEF nodoVars
  <2>6. \A r \in Peticion : r # q /\ r \in candados => r \in candados'
    BY <2>2
  <2>7. \A d \in Caso : casoLock'[d] = casoLock[d] \/ casoLock[d] \in {Nadie, q}
    BY <2>2 DEF TipoLock
  <2>8. f = "sfc" => q \in candados' /\ casoLock'[CasoDe[ps'[q]]] = q
    BY <2>1, <2>2, <2>3 DEF TipoLock
  <2>9. QED
    BY <2>2, <2>4, <2>5, <2>6, <2>7, <2>8 DEF UsaLock
<1>7. QED
  BY <1>2, <1>3, <1>4, <1>5, <1>6 DEF PasoPeticion

\* So it keeps one actor on each case.
LEMMA LockPeticion ==
    ASSUME IInvD, LockInv, NEW q \in Peticion, UsaLock(q)
    PROVE  LockInv'
<1>1. TipoNodo /\ TipoLock /\ TipoPet /\ Nadie \notin Node /\ Nadie \notin Peticion
  BY TipoPorPartes, ReintentosAssumption DEF IInvD
<1>2. ASSUME NEW n \in Node, caso'[n] # Nadie PROVE casoLock'[caso'[n]] = n
  <2>1. PICK c \in Caso : c = caso[n] /\ casoLock[c] = n /\ caso'[n] = c
    BY <1>1, <1>2 DEF LockInv, ExclusionPorCaso, UsaLock, TipoNodo
  <2>2. n # Nadie /\ n # q
    BY ReintentosAssumption
  <2>3. QED
    BY <2>1, <2>2 DEF UsaLock
<1>3. ASSUME NEW r \in Peticion PROVE Candado(r)'
  <2>1. CASE r = q
    BY <2>1 DEF UsaLock, Candado
  <2>2. CASE r # q /\ pf[r] = "sfc"
    <3>1. PICK c \in Caso : c = CasoDe[ps[r]]
      BY <2>2, Llegada
    <3>2. casoLock[c] = r /\ r \in candados
      BY <2>2, <3>1 DEF LockInv, Candado
    <3>3. casoLock'[c] = r
      BY <1>1, <2>2, <3>2 DEF UsaLock
    <3>4. QED
      BY <2>2, <3>1, <3>2, <3>3 DEF UsaLock, Candado
  <2>3. CASE r # q /\ pf[r] # "sfc"
    BY <2>3 DEF UsaLock, Candado
  <2>4. QED
    BY <2>1, <2>2, <2>3
<1>4. QED
  BY <1>2, <1>3 DEF LockInv, ExclusionPorCaso

\* The steps of the others leave the locks of the requests.
LEMMA LockAjeno ==
    ASSUME IInvD, LockInv, ExclusionPorCaso', UNCHANGED petVars,
           \A c \in Caso : casoLock[c] \in candados => casoLock'[c] = casoLock[c]
    PROVE  LockInv'
<1>1. ASSUME NEW r \in Peticion PROVE Candado(r)'
  <2>1. pf' = pf /\ ps' = ps /\ candados' = candados
    BY DEF petVars
  <2>2. CASE pf[r] = "sfc"
    <3>1. PICK c \in Caso : c = CasoDe[ps[r]]
      BY <2>2, Llegada
    <3>2. casoLock[c] = r /\ r \in candados
      BY <2>2, <3>1 DEF LockInv, Candado
    <3>3. QED
      BY <2>1, <3>1, <3>2 DEF Candado
  <2>3. QED
    BY <2>1, <2>2 DEF Candado
<1>2. QED
  BY <1>1 DEF LockInv

\* With leases that hold, every step does.
LEMMA LockPaso ==
    ASSUME "lease" \notin Fallos, IInvD, LockInv, [NextD]_todo
    PROVE  LockInv'
<1>1. TipoNodo /\ TipoLock /\ TipoPet /\ ExclusionPorCaso /\ candados \subseteq Peticion
  BY TipoPorPartes DEF IInvD, LockInv, TipoPet
<1>2. \A c \in Caso : casoLock[c] \in candados => casoLock[c] \notin Node /\ casoLock[c] # Nadie
  BY <1>1, ReintentosAssumption
<1>3. CASE \/ \E q \in Peticion, s \in Slot, p \in Payload : Llegar(q, s, p)
           \/ \E q \in Peticion : PasoPeticion(q) \/ CaerPeticion(q)
  <2>1. PICK q \in Peticion : \/ PasoPeticion(q) \/ CaerPeticion(q)
                              \/ \E s \in Slot, p \in Payload : Llegar(q, s, p)
    BY <1>3
  <2>2. pf[q] # "nueva" => CasoDe[ps[q]] \in Caso
    BY Llegada
  <2>3. UsaLock(q)
    BY <1>1, <2>1, <2>2, LockDePeticion
  <2>4. QED
    BY <2>3, LockPeticion
<1>4. CASE \E n \in Node : PasoNodoD(n) \/ CaerD(n)
  <2>1. PICK n \in Node : (PasoNodo(n) \/ Caer(n)) /\ UNCHANGED petVars
    BY <1>4 DEF PasoNodoD, CaerD
  <2>2. ExclusionPorCaso'
    BY <1>1, <2>1, ExclusionNodo
  <2>3. TomaLock(n) \/ DejaLock(n) \/ UNCHANGED <<caso, casoLock>>
    BY <1>1, <2>1, LockDeNodo
  <2>4. \A c \in Caso : casoLock'[c] = casoLock[c] \/ casoLock[c] \in {Nadie, n}
    BY <1>1, <2>3 DEF TomaLock, DejaLock, LockLibre, TipoLock
  <2>5. QED
    BY <1>2, <2>1, <2>2, <2>4, LockAjeno
<1>5. CASE VencimientosD
  <2>1. Vencimientos /\ UNCHANGED petVars
    BY <1>5 DEF VencimientosD
  <2>2. ExclusionPorCaso'
    BY <1>1, <2>1, ExclusionVence
  <2>3. casoLock' = casoLock \/ \E d \in Caso : casoLock[d] \in Node /\ casoLock' = [casoLock EXCEPT ![d] = Nadie]
    BY <2>1 DEF Vencimientos, VenceJobLock, VenceCasoLock, VenceClaim, lockVars
  <2>4. \A c \in Caso : casoLock'[c] = casoLock[c] \/ casoLock[c] \in Node
    BY <1>1, <2>3 DEF TipoLock
  <2>5. QED
    BY <1>2, <2>1, <2>2, <2>4, LockAjeno
<1>6. CASE \E c \in Caso : VenceLockPeticion(c)
  <2>1. PICK c \in Caso : VenceLockPeticion(c)
    BY <1>6
  <2>2. /\ casoLock[c] \in Peticion /\ casoLock[c] \notin candados /\ UNCHANGED petVars
        /\ casoLock' = [casoLock EXCEPT ![c] = Nadie] /\ caso' = caso
    BY <2>1 DEF VenceLockPeticion, LeaseFragil, nodoVars
  <2>3. \A d \in Caso : casoLock'[d] = casoLock[d] \/ d = c
    BY <1>1, <2>2 DEF TipoLock
  <2>4. casoLock[c] \notin Node
    BY <2>2, ReintentosAssumption
  <2>5. ExclusionPorCaso'
    BY <1>1, <2>2, <2>3, <2>4 DEF ExclusionPorCaso, TipoNodo
  <2>6. QED
    BY <2>2, <2>3, <2>5, LockAjeno
<1>7. ASSUME caso' = caso, casoLock' = casoLock, candados' = candados, pf' = pf, ps' = ps
      PROVE  LockInv'
  BY <1>7 DEF LockInv, ExclusionPorCaso, Candado
<1>8. CASE \/ \E i \in Id : VencerD(i) \/ ReencolarOperador(i)
           \/ \E s \in Slot, p \in Payload : VenceProcessing(s, p)
           \/ PasoReplay
           \/ \E r \in replay : AbandonarReplay(r)
           \/ UNCHANGED todo
  <2>1. candados' = candados /\ pf' = pf /\ ps' = ps
    BY <1>8 DEF VencerD, ReencolarOperador, VenceProcessing, PasoReplay, LeerReplay, RegistrarReplay,
                AbandonarReplay, todo, petVars
  <2>2. caso' = caso /\ casoLock' = casoLock
    BY <1>8 DEF VencerD, ReencolarOperador, VenceProcessing, PasoReplay, LeerReplay, RegistrarReplay,
                AbandonarReplay, todo, vars, restoVars, nodoVars, lockVars
  <2>3. QED
    BY <1>7, <2>1, <2>2
<1>9. QED
  BY <1>3, <1>4, <1>5, <1>6, <1>8 DEF NextD

\* Of all requests and workers at most one calls the SFC for a case, as long as
\* the heartbeats keep the leases.
THEOREM ExclusionDeDespacho ==
    ASSUME "lease" \notin Fallos
    PROVE  SpecD => []ExclusionDespacho
<1>1. InitD => LockInv
  BY DEF InitD, InitR, LockInv, ExclusionPorCaso, Candado
<1>2. IInvD /\ LockInv /\ [NextD]_todo => LockInv'
  BY LockPaso
<1>3. ASSUME LockInv, NEW c \in Caso PROVE Cardinality(EnSfc(c)) <= 1
  <2>1. \A x \in EnSfc(c) : x = casoLock[c]
    BY <1>3, ReintentosAssumption DEF LockInv, ExclusionPorCaso, Candado, EnSfc
  <2>2. EnSfc(c) = {} \/ EnSfc(c) = {casoLock[c]}
    BY <2>1
  <2>3. CASE EnSfc(c) = {}
    <3>1. Cardinality(EnSfc(c)) = 0
      BY <2>3, FS_EmptySet
    <3>2. QED
      BY <3>1
  <2>4. CASE EnSfc(c) = {casoLock[c]}
    <3>1. Cardinality(EnSfc(c)) = 1
      BY <2>4, FS_Singleton
    <3>2. QED
      BY <3>1
  <2>5. QED
    BY <2>2, <2>3, <2>4
<1>4. LockInv => ExclusionDespacho
  BY <1>3 DEF ExclusionDespacho
<1>5. QED
  BY <1>1, <1>2, <1>4, InvarianteDespacho, PTL DEF SpecD

-----------------------------------------------------------------------------
(* As long as Redis answers: who owns a PROCESSING record.                  *)

\* Request q, at f with answer r, still has to write over or delete its record,
\* or died before it did.
DuenoEn(f, r) ==
    \/ f \in {"lock", "sfc", "exito", "encolar", "registrar", "liberar"}
    \/ f = "soltar" /\ r \notin {"ok", "encolado"}
    \/ r = "cortada"
Dueno(q) == DuenoEn(pf[q], resp[q])

ConDueno(s, p) == \E q \in Peticion : ps[q] = s /\ pp[q] = p /\ Dueno(q)
DuenoInv ==
    /\ \A s \in Slot, p \in Payload : idem[s][p].status = "PROCESSING" => ConDueno(s, p)
    /\ \A q \in Peticion : resp[q] = "cortada" => pf[q] = "fin"

\* What a step of request q does to the records: a PROCESSING one it leaves has
\* an owner, and q does not stop being the owner of one that stays.
UsaRegistro(q) ==
    /\ \A r \in Peticion : r # q => QuietaP(r)
    /\ Dueno(q) => ps'[q] = ps[q] /\ pp'[q] = pp[q]
    /\ Dueno(q) => Dueno(q)' \/ idem'[ps[q]][pp[q]].status # "PROCESSING"
    /\ \A s \in Slot, p \in Payload :
          idem'[s][p].status = "PROCESSING" =>
              idem[s][p].status = "PROCESSING" \/ (s = ps'[q] /\ p = pp'[q] /\ Dueno(q)')
    /\ resp'[q] = "cortada" => pf'[q] = "fin"

\* A step of a request leaves each PROCESSING record with an owner.
LEMMA DuenoPeticion ==
    ASSUME DuenoInv, NEW q \in Peticion, UsaRegistro(q)
    PROVE  DuenoInv'
<1>1. ASSUME NEW s \in Slot, NEW p \in Payload, idem'[s][p].status = "PROCESSING" PROVE ConDueno(s, p)'
  <2>1. CASE idem[s][p].status = "PROCESSING"
    <3>1. PICK r \in Peticion : ps[r] = s /\ pp[r] = p /\ Dueno(r)
      BY <2>1 DEF DuenoInv, ConDueno
    <3>2. CASE r = q
      <4>1. Dueno(q)' /\ ps'[q] = s /\ pp'[q] = p
        BY <1>1, <3>1, <3>2 DEF UsaRegistro
      <4>2. QED
        BY <4>1 DEF ConDueno
    <3>3. CASE r # q
      <4>1. QuietaP(r)
        BY <3>3 DEF UsaRegistro
      <4>2. Dueno(r)' /\ ps'[r] = s /\ pp'[r] = p
        BY <3>1, <4>1 DEF QuietaP, Dueno
      <4>3. QED
        BY <4>2 DEF ConDueno
    <3>4. QED
      BY <3>2, <3>3
  <2>2. CASE idem[s][p].status # "PROCESSING"
    BY <1>1, <2>2 DEF UsaRegistro, ConDueno
  <2>3. QED
    BY <2>1, <2>2
<1>2. ASSUME NEW r \in Peticion, resp'[r] = "cortada" PROVE pf'[r] = "fin"
  BY <1>2 DEF UsaRegistro, QuietaP, DuenoInv
<1>3. QED
  BY <1>1, <1>2 DEF DuenoInv

\* Steps that leave the requests alone make no PROCESSING record.
LEMMA DuenoAjeno ==
    ASSUME DuenoInv, pf' = pf, ps' = ps, pp' = pp, resp' = resp,
           \A s \in Slot, p \in Payload :
              idem'[s][p].status = "PROCESSING" => idem[s][p].status = "PROCESSING"
    PROVE  DuenoInv'
<1>1. ASSUME NEW s \in Slot, NEW p \in Payload, idem'[s][p].status = "PROCESSING" PROVE ConDueno(s, p)'
  <2>1. ConDueno(s, p)
    BY <1>1 DEF DuenoInv
  <2>2. QED
    BY <2>1 DEF ConDueno, Dueno
<1>2. QED
  BY <1>1 DEF DuenoInv

\* With a Redis that answers, a request frees or completes the record it wrote.
LEMMA RegistroDePeticion ==
    ASSUME "redis" \notin Fallos, IInvD, DuenoInv, NEW q \in Peticion, pf[q] # "nueva",
           PasoPeticion(q) \/ CaerPeticion(q)
    PROVE  UsaRegistro(q)
<1>1. PICK s \in Slot, p \in Payload : s = ps[q] /\ p = pp[q]
  BY Llegada
<1>2. /\ TipoPet /\ idem \in [Slot -> [Payload -> Idem]] /\ pid[q] \in 0..MaxId
      /\ resp[q] = "cortada" => pf[q] = "fin"
  BY Llegada, TipoPorPartes DEF IInvD, TypeOK, DuenoInv
<1>3. ASSUME NEW f, NEW r, IrP(q, f), Decidir(q, r) \/ (resp' = resp /\ r = resp[q]),
             ps' = ps, pp' = pp, r = "cortada" => f = "fin",
             \/ idem' = idem /\ (Dueno(q) => DuenoEn(f, r))
             \/ \E x \in Idem : /\ idem' = [idem EXCEPT ![s][p] = x]
                                /\ x.status = "PROCESSING" => DuenoEn(f, r)
      PROVE  UsaRegistro(q)
  <2>1. pf'[q] = f /\ resp'[q] = r /\ \A y \in Peticion : y # q => QuietaP(y)
    BY <1>2, <1>3 DEF IrP, Decidir, TipoPet, QuietaP
  <2>2. Dueno(q)' <=> DuenoEn(f, r)
    BY <2>1 DEF Dueno
  <2>3. CASE idem' = idem /\ (Dueno(q) => DuenoEn(f, r))
    BY <1>3, <2>1, <2>2, <2>3 DEF UsaRegistro
  <2>4. CASE \E x \in Idem : /\ idem' = [idem EXCEPT ![s][p] = x]
                             /\ x.status = "PROCESSING" => DuenoEn(f, r)
    <3>1. PICK x \in Idem : /\ idem' = [idem EXCEPT ![s][p] = x]
                            /\ x.status = "PROCESSING" => DuenoEn(f, r)
      BY <2>4
    <3>2. \A t \in Slot, y \in Payload :
             IF t = s /\ y = p THEN idem'[t][y] = x ELSE idem'[t][y] = idem[t][y]
      BY <1>2, <3>1
    <3>3. \A t \in Slot, y \in Payload : idem'[t][y].status = "PROCESSING" =>
             idem[t][y].status = "PROCESSING" \/ (t = s /\ y = p /\ DuenoEn(f, r))
      BY <3>1, <3>2
    <3>4. DuenoEn(f, r) \/ idem'[s][p].status # "PROCESSING"
      BY <3>1, <3>2
    <3>5. QED
      BY <1>1, <1>3, <2>1, <2>2, <3>3, <3>4 DEF UsaRegistro
  <2>5. QED
    BY <1>3, <2>3, <2>4
<1>4. ASSUME pf[q] \in {"verificar", "vigencia", "borrar", "iniciar", "revisar", "leer", "cancelar"}
      PROVE  ~Dueno(q) /\ resp[q] # "cortada"
  BY <1>2, <1>4 DEF Dueno, DuenoEn
<1>5. ASSUME UNCHANGED vars \/ UNCHANGED colaVars PROVE idem' = idem
  BY <1>5 DEF vars, colaVars
<1>6. CASE Verificar(q) \/ Vigencia(q) \/ Revisar(q) \/ LeerObsoleto(q)
  <2>1. /\ pf[q] \in {"verificar", "vigencia", "revisar", "leer"}
        /\ UNCHANGED vars /\ ps' = ps /\ pp' = pp /\ (\E f : IrP(q, f))
        /\ resp' = resp \/ \E r \in Respuesta \ {"cortada"} : Decidir(q, r)
    BY <1>6 DEF Verificar, Vigencia, Revisar, LeerObsoleto, RespuestaDeHit, Respuesta
  <2>2. QED
    BY <1>3, <1>4, <1>5, <2>1
<1>7. CASE CaerPeticion(q)
  BY <1>3, <1>5, <1>7 DEF CaerPeticion, DuenoEn
<1>8. CASE Borrar(q)
  <2>1. /\ idem' = [idem EXCEPT ![s][p] = IdemLibre] /\ IrP(q, "iniciar") /\ resp' = resp
        /\ ps' = ps /\ pp' = pp /\ resp[q] # "cortada"
    BY <1>1, <1>4, <1>8 DEF Borrar, Falla, SinEfecto, RedisFalla, Escribir
  <2>2. QED
    BY <1>3, <2>1, Registros
<1>9. CASE Iniciar(q)
  <2>1. /\ ps' = ps /\ pp' = pp /\ resp' = resp /\ ~Dueno(q) /\ resp[q] # "cortada"
        /\ \/ idem' = [idem EXCEPT ![s][p] = IdemProcessing] /\ IrP(q, "lock")
           \/ idem' = idem /\ IrP(q, "revisar")
    BY <1>1, <1>4, <1>5, <1>9 DEF Iniciar, Falla, SinEfecto, RedisFalla, Escribir
  <2>2. DuenoEn("lock", resp[q])
    BY DEF DuenoEn
  <2>3. QED
    BY <1>3, <2>1, <2>2, Registros
<1>10. CASE TomarLock(q) \/ Enviar(q) \/ EncolarContingencia(q)
  <2>1. /\ ps' = ps /\ pp' = pp /\ resp[q] # "cortada" /\ idem' = idem
        /\ \/ resp' = resp /\ \E f \in {"sfc", "encolar", "exito", "registrar"} : IrP(q, f)
           \/ Decidir(q, "rechazado") /\ IrP(q, "soltar")
    <3>1. pf[q] # "fin"
      BY <1>10 DEF TomarLock, Enviar, EncolarContingencia
    <3>2. CASE TomarLock(q)
      BY <1>2, <1>5, <3>1, <3>2 DEF TomarLock
    <3>3. CASE Enviar(q)
      BY <1>2, <1>5, <3>1, <3>3 DEF Enviar
    <3>4. CASE EncolarContingencia(q)
      BY <1>2, <3>1, <3>4 DEF EncolarContingencia, Falla, SinEfecto, RedisFalla, Encolar,
                              EncolarSobrescribe, EncolarNuevo
    <3>5. QED
      BY <1>10, <3>2, <3>3, <3>4
  <2>2. /\ \A f \in {"sfc", "encolar", "exito", "registrar"} : DuenoEn(f, resp[q])
        /\ DuenoEn("soltar", "rechazado")
    BY DEF DuenoEn
  <2>3. QED
    BY <1>3, <2>1, <2>2
<1>11. CASE RegistrarExito(q)
  <2>1. /\ idem' = [idem EXCEPT ![s][p] = IdemCompletado] /\ IrP(q, "leer") /\ resp' = resp
        /\ ps' = ps /\ pp' = pp /\ resp[q] # "cortada"
    BY <1>1, <1>2, <1>11 DEF RegistrarExito, SinEfecto, RedisFalla, Escribir
  <2>2. QED
    BY <1>3, <2>1, Registros
<1>12. CASE CancelarObsoleto(q)
  <2>1. /\ ps' = ps /\ pp' = pp /\ Decidir(q, "ok") /\ IrP(q, "soltar") /\ idem' = idem /\ ~Dueno(q)
    BY <1>4, <1>5, <1>12 DEF CancelarObsoleto, SinEfecto, Cancelar
  <2>2. QED
    BY <1>3, <2>1
<1>13. CASE RegistrarEncolado(q)
  <2>1. IrP(q, "soltar") /\ Decidir(q, "encolado") /\ ps' = ps /\ pp' = pp
    BY <1>13 DEF RegistrarEncolado, Falla, SinEfecto, RedisFalla
  <2>2. PICK x \in Idem : x = IdemEncolado(pid[q]) /\ x.status # "PROCESSING"
    BY <1>2, Registros DEF IdemEncolado
  <2>3. idem' = [idem EXCEPT ![s][p] = x]
    BY <1>1, <1>13, <2>2 DEF RegistrarEncolado, Falla, SinEfecto, RedisFalla, Escribir
  <2>4. PICK f, r : f = "soltar" /\ r = "encolado"
    OBVIOUS
  <2>5. IrP(q, f) /\ Decidir(q, r) /\ (r = "cortada" => f = "fin")
    BY <2>1, <2>4
  <2>6. QED
    BY <1>3, <2>1, <2>2, <2>3, <2>5
<1>14. CASE Soltar(q)
  <2>1. /\ ps' = ps /\ pp' = pp /\ resp' = resp /\ idem' = idem /\ resp[q] # "cortada"
        /\ IrP(q, FaseTrasSoltar(resp[q])) /\ pf[q] = "soltar"
    BY <1>2, <1>5, <1>14 DEF Soltar
  <2>2. Dueno(q) => DuenoEn(FaseTrasSoltar(resp[q]), resp[q])
    BY <2>1 DEF Dueno, DuenoEn, FaseTrasSoltar
  <2>3. QED
    BY <1>3, <2>1, <2>2
<1>15. CASE Liberar(q)
  <2>1. /\ idem' = [idem EXCEPT ![s][p] = IdemLibre] /\ IrP(q, "fin") /\ resp' = resp
        /\ ps' = ps /\ pp' = pp
    BY <1>1, <1>15 DEF Liberar, SinEfecto, RedisFalla, Escribir
  <2>2. QED
    BY <1>3, <2>1, Registros
<1>16. QED
  BY <1>6, <1>7, <1>8, <1>9, <1>10, <1>11, <1>12, <1>13, <1>14, <1>15 DEF PasoPeticion

\* With a Redis that answers, every step leaves each PROCESSING record with an owner.
LEMMA DuenoPaso ==
    ASSUME "redis" \notin Fallos, IInvD, DuenoInv, [NextD]_todo
    PROVE  DuenoInv'
<1>0. idem \in [Slot -> [Payload -> Idem]] /\ TipoPet
  BY TipoPorPartes DEF IInvD, TypeOK
<1>1. CASE \E q \in Peticion : PasoPeticion(q) \/ CaerPeticion(q)
  <2>1. PICK q \in Peticion : PasoPeticion(q) \/ CaerPeticion(q)
    BY <1>1
  <2>2. pf[q] # "nueva"
    BY <2>1 DEF PasoPeticion, CaerPeticion, Verificar, Vigencia, Borrar, Iniciar, Revisar, TomarLock,
                Enviar, RegistrarExito, LeerObsoleto, CancelarObsoleto, EncolarContingencia,
                RegistrarEncolado, Soltar, Liberar
  <2>3. QED
    BY <2>1, <2>2, RegistroDePeticion, DuenoPeticion
<1>2. CASE \E q \in Peticion, s \in Slot, p \in Payload : Llegar(q, s, p)
  <2>1. PICK q \in Peticion, s \in Slot, p \in Payload : Llegar(q, s, p)
    BY <1>2
  <2>2. /\ pf[q] = "nueva" /\ IrP(q, "verificar") /\ UNCHANGED vars /\ resp' = resp
        /\ ps' = [ps EXCEPT ![q] = s] /\ pp' = [pp EXCEPT ![q] = p]
    BY <2>1 DEF Llegar
  <2>3. resp[q] = "ninguna" /\ idem' = idem
    BY <2>2 DEF IInvD, Peti, vars, colaVars
  <2>4. ~Dueno(q)
    BY <2>2, <2>3 DEF Dueno, DuenoEn
  <2>5. \A r \in Peticion : r # q => QuietaP(r)
    BY <1>0, <2>2 DEF IrP, TipoPet, QuietaP
  <2>6. UsaRegistro(q)
    BY <2>2, <2>3, <2>4, <2>5 DEF UsaRegistro
  <2>7. QED
    BY <2>6, DuenoPeticion
<1>3. ASSUME pf' = pf, ps' = ps, pp' = pp, resp' = resp, NEW s \in Slot, NEW p \in Payload, NEW x \in Idem,
             idem' = [idem EXCEPT ![s][p] = x], x.status # "PROCESSING"
      PROVE  DuenoInv'
  <2>1. \A t \in Slot, y \in Payload : idem'[t][y] = idem[t][y] \/ idem'[t][y] = x
    BY <1>0, <1>3
  <2>2. QED
    BY <1>3, <2>1, DuenoAjeno
<1>4. CASE \E n \in Node : PasoNodoD(n) \/ CaerD(n)
  <2>1. PICK n \in Node : (PasoNodo(n) \/ Caer(n)) /\ UNCHANGED petVars
    BY <1>4 DEF PasoNodoD, CaerD
  <2>2. IdemDeTrabajador
    BY <2>1, ColaDeNodo DEF IInvD
  <2>3. \A s \in Slot, p \in Payload :
           idem'[s][p].status = "PROCESSING" => idem[s][p].status = "PROCESSING"
    BY <2>2 DEF IdemDeTrabajador, IdemLibre, IdemCompletado
  <2>4. pf' = pf /\ ps' = ps /\ pp' = pp /\ resp' = resp
    BY <2>1 DEF petVars
  <2>5. QED
    BY <2>3, <2>4, DuenoAjeno
<1>5. CASE \E s \in Slot, p \in Payload : VenceProcessing(s, p)
  <2>1. PICK s \in Slot, p \in Payload : VenceProcessing(s, p)
    BY <1>5
  <2>2. idem' = [idem EXCEPT ![s][p] = IdemLibre] /\ pf' = pf /\ ps' = ps /\ pp' = pp /\ resp' = resp
    BY <2>1 DEF VenceProcessing, petVars
  <2>3. QED
    BY <1>3, <2>2, Registros
<1>6. CASE \E r \in replay : RegistrarReplay(r)
  <2>1. PICK r \in replay : RegistrarReplay(r)
    BY <1>6
  <2>2. r.leido \in Slot \X Payload /\ r.id \in Id
    BY <1>0, <2>1 DEF RegistrarReplay, TipoPet
  <2>3. PICK s \in Slot, p \in Payload, i \in Id : r.leido = <<s, p>> /\ i = r.id
    BY <2>2
  <2>4. /\ idem' = [idem EXCEPT ![s][p] = IdemEncolado(i)]
        /\ pf' = pf /\ ps' = ps /\ pp' = pp /\ resp' = resp
    BY <2>1, <2>3 DEF RegistrarReplay
  <2>5. IdemEncolado(i) \in Idem /\ IdemEncolado(i).status = "QUEUED"
    BY Registros DEF IdemEncolado, Id
  <2>6. IdemEncolado(i).status # "PROCESSING"
    BY <2>5
  <2>7. QED
    BY <1>3, <2>4, <2>5, <2>6
<1>7. CASE \/ VencimientosD
           \/ \E c \in Caso : VenceLockPeticion(c)
           \/ \E i \in Id : VencerD(i) \/ ReencolarOperador(i) \/ LeerReplay(i)
           \/ \E r \in replay : AbandonarReplay(r)
           \/ UNCHANGED todo
  <2>1. pf' = pf /\ ps' = ps /\ pp' = pp /\ resp' = resp
    BY <1>7 DEF VencimientosD, VenceLockPeticion, VencerD, ReencolarOperador, LeerReplay,
                AbandonarReplay, todo, petVars
  <2>2. idem' = idem
    <3>1. CASE VencimientosD
      BY <3>1 DEF VencimientosD, Vencimientos, VenceJobLock, VenceCasoLock, VenceClaim, ExpirarClaim,
                  colaVars
    <3>2. CASE \E i \in Id : VencerD(i) \/ ReencolarOperador(i)
      BY <3>2 DEF VencerD, Vencer, ReencolarOperador, Reencolar
    <3>3. CASE \/ \E c \in Caso : VenceLockPeticion(c)
               \/ \E i \in Id : LeerReplay(i)
               \/ \E r \in replay : AbandonarReplay(r)
               \/ UNCHANGED todo
      BY <3>3 DEF VenceLockPeticion, LeerReplay, AbandonarReplay, todo, vars, colaVars
    <3>4. QED
      BY <1>7, <3>1, <3>2, <3>3
  <2>3. QED
    BY <2>1, <2>2, DuenoAjeno
<1>8. QED
  BY <1>1, <1>2, <1>4, <1>5, <1>6, <1>7 DEF NextD, PasoReplay

\* No path of the handler leaves a PROCESSING record that no request will write
\* over or delete, unless the process died: as long as Redis answers.  That leases
\* hold is not needed.
THEOREM ProcessingConDueno ==
    ASSUME "redis" \notin Fallos
    PROVE  SpecD => []ProcessingTieneDueno
<1>1. InitD => DuenoInv
  <2> SUFFICES ASSUME InitD PROVE DuenoInv
    OBVIOUS
  <2>1. \A s \in Slot, p \in Payload : idem[s][p].status = "LIBRE"
    BY DEF InitD, InitR, Init, IdemLibre
  <2>2. QED
    BY <2>1 DEF InitD, DuenoInv
<1>2. IInvD /\ DuenoInv /\ [NextD]_todo => DuenoInv'
  BY DuenoPaso
<1>3. DuenoInv => ProcessingTieneDueno
  BY DEF DuenoInv, ConDueno, Dueno, DuenoEn, ProcessingTieneDueno, EnVuelo
<1>4. QED
  BY <1>1, <1>2, <1>3, InvarianteDespacho, PTL DEF SpecD

=============================================================================
