-------------------------------- MODULE Lectura --------------------------------
(***************************************************************************)
(* Moments 1 and 4 (momento_1_sync.py, momento_4_sync.py): the CRM asks    *)
(* for what the SFC has pending, new complaints or updated consumers, the  *)
(* service follows the pages of the SFC and answers a list; later the CRM  *)
(* acknowledges what it has taken and the SFC stops listing it.  A reading *)
(* and an acknowledgement may overlap, and records arrive meanwhile, so    *)
(* the pages move under the reading.                                       *)
(*                                                                         *)
(* Both moments run the same loop; modo says which of them this one is.    *)
(* Every failure spends one unit of MaxFallos: a call to the SFC or to S3, *)
(* an answer lost on its way back, the time limit of a reading.            *)
(***************************************************************************)
EXTENDS Naturals, FiniteSets, SequencesExt

CONSTANTS
    Registro,       \* complaints or consumers that the SFC may list
    Iniciales,      \* the ones it lists at first, the others arrive later
    Adjunto,        \* the attachments of a complaint (moment 1)
    ConAnexos,      \* complaints that have them
    Rotos,          \* complaints with an attachment that never transfers
    Ilegibles,      \* records whose mapping raises
    Modos,          \* the moments of this instance: "M1", "M4"
    SinCodigo,      \* records without codigo_queja or numero_id_CF
    Blanco,         \* an empty id of an acknowledgement
    TamPagina,      \* records in a page of the SFC
    MaxPaginas,     \* SFC_SYNC_MAX_PAGINAS
    TamLote,        \* TAMANO_LOTE of an acknowledgement
    MaxFallos       \* failures in a behaviour

ASSUME LecturaAssumption ==
    /\ Iniciales \subseteq Registro /\ IsFiniteSet(Iniciales)
    /\ ConAnexos \subseteq Registro
    /\ Rotos \subseteq ConAnexos
    /\ Ilegibles \subseteq Registro /\ SinCodigo \subseteq Registro
    /\ Modos \subseteq {"M1", "M4"}
    /\ Blanco \notin Registro
    /\ {TamPagina, MaxPaginas, TamLote} \subseteq Nat \ {0}
    /\ MaxFallos \in Nat

VARIABLES
    modo,           \* "M1" or "M4"
    pendientes,     \* what the SFC lists, in its order
    llegados,       \* records it has listed some time
    s3,             \* attachments copied: <<record, attachment>>
    sinLista,       \* complaints whose list of attachments once came back
                    \* in a shape the code does not know (history)
    crm,            \* records the CRM has taken
    confirmadas,    \* records the CRM was told to be acknowledged
    fallos,
    \* the reading
    pc, pagina, lista, mas,
    vistos, entrega, fallidos,
    cortada,        \* paginacion_incompleta
    alInicio,       \* records listed when it began (history)
    deforme,        \* a page of it had an unknown shape (history)
    encogio,        \* the SFC dropped a record during it (history)
    \* the acknowledgement
    ack, pedidos, ids, exitosos, conError

sfcVars == <<pendientes, llegados>>
crmVars == <<crm, confirmadas>>
lecturaVars ==
    <<pc, pagina, lista, mas, vistos, entrega, fallidos, cortada, alInicio,
      deforme>>
ackVars == <<ack, pedidos, ids, exitosos, conError>>
vars == <<modo, sfcVars, s3, sinLista, crmVars, fallos, lecturaVars, encogio,
          ackVars>>

Falla == fallos < MaxFallos /\ fallos' = fallos + 1
Bien == UNCHANGED fallos

\* Attachments of a record; those of consumers are none.
Anexos(r) == IF modo = "M1" /\ r \in ConAnexos THEN {r} \X Adjunto ELSE {}

Init ==
    /\ modo \in Modos
    /\ pendientes \in SetToSeqs(Iniciales)
    /\ llegados = Iniciales
    /\ s3 = {} /\ sinLista = {} /\ crm = {} /\ confirmadas = {} /\ fallos = 0
    /\ pc = "libre" /\ pagina = 0 /\ lista = <<>> /\ mas = FALSE
    /\ vistos = {} /\ entrega = <<>> /\ fallidos = {} /\ cortada = FALSE
    /\ alInicio = {} /\ deforme = FALSE /\ encogio = FALSE
    /\ ack = "libre" /\ pedidos = {} /\ ids = <<>>
    /\ exitosos = <<>> /\ conError = <<>>

\* The elements of s at the positions of K, in their order.
Rango(K, i) == Cardinality({j \in K : j <= i})

EnPosiciones(s, K) ==
    [k \in 1..Cardinality(K) |-> s[CHOOSE i \in K : Rango(K, i) = k]]

\* s without the elements of rs.
Sin(s, rs) == EnPosiciones(s, {i \in DOMAIN s : s[i] \notin rs})

-----------------------------------------------------------------------------
(* The SFC lists by position: a record that arrives, in front or at the    *)
(* end, or that is acknowledged moves the ones behind it.                  *)

Llega(r) ==
    /\ r \notin llegados
    /\ llegados' = llegados \cup {r}
    /\ pendientes' \in {<<r>> \o pendientes, Append(pendientes, r)}
    /\ UNCHANGED <<modo, s3, sinLista, crmVars, fallos, lecturaVars, encogio,
                   ackVars>>

PaginaSfc(n) ==
    LET desde == (n - 1) * TamPagina + 1
        hasta == IF n * TamPagina < Len(pendientes)
                 THEN n * TamPagina ELSE Len(pendientes)
    IN  SubSeq(pendientes, desde, hasta)

HayMas(n) == n * TamPagina < Len(pendientes)

\* The SFC takes the acknowledgement of some records.
Retira(rs) ==
    /\ pendientes' = Sin(pendientes, rs)
    /\ encogio' = (encogio \/ (pc # "libre" /\ pendientes' # pendientes))

-----------------------------------------------------------------------------
(* ejecutar_flujo_completo_momento_1 and sincronizar_usuarios.             *)

\* The request is over; what it had in memory goes with it.
FinLectura ==
    /\ pc' = "libre" /\ pagina' = 0 /\ lista' = <<>> /\ mas' = FALSE
    /\ vistos' = {} /\ entrega' = <<>> /\ fallidos' = {} /\ cortada' = FALSE
    /\ alInicio' = {} /\ deforme' = FALSE /\ encogio' = FALSE

Pedir ==
    /\ pc = "libre"
    /\ pc' = "pagina" /\ alInicio' = ToSet(pendientes)
    /\ UNCHANGED <<modo, sfcVars, s3, sinLista, crmVars, fallos, pagina, lista,
                   mas, vistos, entrega, fallidos, cortada, deforme, encogio,
                   ackVars>>

UnaPaginaMenos(n) == n >= MaxPaginas        \* mutant
UnaPaginaMas(n) == n > MaxPaginas + 1       \* mutant

LimiteDePaginas(n) == n > MaxPaginas

\* Out of pages or of time: what was read is answered.
Cortar ==
    /\ pc = "pagina"
    /\ \/ LimiteDePaginas(pagina + 1) /\ Bien
       \/ pagina > 0 /\ ~LimiteDePaginas(pagina + 1) /\ Falla
    /\ pc' = "responde" /\ cortada' = TRUE
    /\ UNCHANGED <<modo, sfcVars, s3, sinLista, crmVars, pagina, lista, mas,
                   vistos, entrega, fallidos, alInicio, deforme, encogio,
                   ackVars>>

\* What is made of a 200 whose body is not a dict with results: nothing; the
\* records of a bare list; in moment 4, a consumer that is the body itself.
Degradada(n) ==
    LET p == PaginaSfc(n)
    IN  {<<>>, p} \cup IF modo = "M4" /\ p # <<>> THEN {SubSeq(p, 1, 1)} ELSE {}

\* An empty page ends the reading, and so does a body of an unknown shape: it
\* carries no next.  A call that fails ends the request, with nothing of what
\* the pages before it brought.
LeerPagina ==
    /\ pc = "pagina" /\ ~LimiteDePaginas(pagina + 1)
    /\ \/ /\ \/ /\ Bien /\ UNCHANGED deforme
                /\ lista' = PaginaSfc(pagina + 1)
                /\ mas' = HayMas(pagina + 1)
             \/ /\ Falla /\ deforme' = TRUE
                /\ lista' \in Degradada(pagina + 1)
                /\ mas' = FALSE
          /\ pagina' = pagina + 1
          /\ pc' = IF lista' = <<>> THEN "responde" ELSE "procesa"
          /\ UNCHANGED <<vistos, entrega, fallidos, cortada, alInicio, encogio>>
       \/ Falla /\ FinLectura
    /\ UNCHANGED <<modo, sfcVars, s3, sinLista, crmVars, ackVars>>

\* After a record: the next one, the next page or the answer.
Avanza ==
    /\ lista' = Tail(lista)
    /\ pc' = CASE Len(lista) > 1 -> "procesa"
               [] Len(lista) = 1 /\ mas -> "pagina"
               [] OTHER -> "responde"
    /\ UNCHANGED <<pagina, mas, cortada, alInicio, deforme>>

NingunoVisto(r) == FALSE                    \* mutant

\* Records without a code are not compared with each other.
YaVisto(r) == r \notin SinCodigo /\ r \in vistos

Marca(r) == vistos \cup ({r} \ SinCodigo)

Repetido ==
    /\ pc = "procesa" /\ YaVisto(Head(lista))
    /\ Avanza
    /\ UNCHANGED <<modo, sfcVars, s3, sinLista, crmVars, fallos, vistos,
                   entrega, fallidos, encogio, ackVars>>

AlgunoBasta(r, hechos) == Anexos(r) = {} \/ hechos # {}     \* mutant

\* len(adjuntos_procesados) < len(lista_adjuntos) discards the complaint.
Completa(r, hechos) == Anexos(r) \subseteq hechos

\* transferir_lote_sfc_a_s3: the sets of attachments that may reach S3, none
\* of them when the list itself cannot be read.  All do when nothing fails.
Transferidos(r) ==
    IF Anexos(r) # {} /\ r \in Rotos THEN SUBSET Anexos(r) \ {Anexos(r)}
    ELSE SUBSET Anexos(r)

\* Moment 1 marks a complaint as seen before it tries it, and leaves it out
\* without a word to the CRM when an attachment or its mapping fails.  A 200
\* whose list of attachments has no results is taken for an empty list.
ProcesarQueja ==
    LET r == Head(lista) IN
    /\ pc = "procesa" /\ modo = "M1" /\ ~YaVisto(r)
    /\ vistos' = Marca(r)
    /\ \/ \E hechos \in Transferidos(r) :
             /\ IF hechos = Anexos(r) \/ r \in Rotos THEN Bien ELSE Falla
             /\ s3' = s3 \cup hechos
             /\ entrega' = IF Completa(r, hechos) /\ r \notin Ilegibles
                           THEN Append(entrega, r) ELSE entrega
             /\ UNCHANGED sinLista
       \/ /\ Anexos(r) # {} /\ Falla
          /\ sinLista' = sinLista \cup {r}
          /\ entrega' = IF r \notin Ilegibles
                        THEN Append(entrega, r) ELSE entrega
          /\ UNCHANGED s3
    /\ Avanza
    /\ UNCHANGED <<modo, sfcVars, crmVars, fallidos, encogio, ackVars>>

\* Moment 4 marks a consumer as seen once it is mapped.
ProcesarUsuario ==
    LET r == Head(lista) IN
    /\ pc = "procesa" /\ modo = "M4" /\ ~YaVisto(r)
    /\ IF r \in Ilegibles \cup SinCodigo
       THEN fallidos' = fallidos \cup {r} /\ UNCHANGED <<vistos, entrega>>
       ELSE /\ vistos' = Marca(r)
            /\ entrega' = Append(entrega, r)
            /\ UNCHANGED fallidos
    /\ Avanza
    /\ UNCHANGED <<modo, sfcVars, s3, sinLista, crmVars, fallos, encogio, ackVars>>

SinMirarElCorte == IF fallidos = {} THEN "success" ELSE "partial"   \* mutant

\* status of moment 4.
Status ==
    CASE cortada -> "partial"
      [] ~cortada /\ fallidos = {} -> "success"
      [] ~cortada /\ fallidos # {} /\ entrega # <<>> -> "partial"
      [] OTHER -> "error"

\* The response model of moment 1 asks every complaint for its code: one that
\* lacks it turns the whole answer into a 500.
Valida == modo = "M1" => ToSet(entrega) \cap SinCodigo = {}

\* The answer reaches the CRM, is refused by the response model or is lost.
Responder ==
    /\ pc = "responde"
    /\ \/ Bien /\ crm' = IF Valida THEN crm \cup ToSet(entrega) ELSE crm
       \/ Falla /\ UNCHANGED crm
    /\ FinLectura
    /\ UNCHANGED <<modo, sfcVars, s3, sinLista, confirmadas, ackVars>>

-----------------------------------------------------------------------------
(* confirmar_recepcion_ack and confirmar_recepcion_ack_usuarios.           *)

\* What the CRM asks to confirm: what it has and knows nothing of yet.  It
\* may repeat an id or send an empty one.
Solicitudes ==
    LET s == SetToSeq(crm \ confirmadas)
    IN  {s, Append(s, Head(s)), Append(s, Blanco)}

\* dict.fromkeys over the ids that are not empty: the first of each.
Unicos(s) ==
    EnPosiciones(s, {i \in DOMAIN s :
                        s[i] # Blanco /\ \A j \in 1..(i - 1) : s[j] # s[i]})

PedirAck ==
    /\ ack = "libre" /\ crm \ confirmadas # {}
    /\ \E s \in Solicitudes : ids' = Unicos(s)
    /\ pedidos' = crm \ confirmadas
    /\ ack' = "envia"
    /\ UNCHANGED <<modo, sfcVars, s3, sinLista, crmVars, fallos, lecturaVars,
                   encogio, exitosos, conError>>

Lote == SubSeq(ids, 1, IF TamLote < Len(ids) THEN TamLote ELSE Len(ids))
Resto == SubSeq(ids, Len(Lote) + 1, Len(ids))

\* The ids of a batch that the SFC did not list as errors.
Aceptados(lote, errores) == Sin(lote, errores)

ExcepcionEsExito(lote) == exitosos' = exitosos \o lote /\ UNCHANGED conError \* mutant

\* A call that raises counts its whole batch as failed.
LoteFallido(lote) == conError' = conError \o lote /\ UNCHANGED exitosos

\* A batch: answered, with some ids refused perhaps; or lost, before the SFC
\* took it or after.  The ids refused come under the key that the code reads
\* (pqrs_error, numero_id_CF_error); under another it would take them for
\* accepted.
EnviarLote ==
    /\ ack = "envia" /\ ids # <<>>
    /\ \/ \E errores \in SUBSET ToSet(Lote) :
             /\ IF errores = {} THEN Bien ELSE Falla
             /\ Retira(ToSet(Lote) \ errores)
             /\ exitosos' = exitosos \o Aceptados(Lote, errores)
             /\ conError' = conError \o Sin(Lote, ToSet(Lote) \ errores)
       \/ Falla /\ LoteFallido(Lote) /\ UNCHANGED <<pendientes, encogio>>
       \/ Falla /\ LoteFallido(Lote) /\ Retira(ToSet(Lote))
    /\ ids' = Resto
    /\ UNCHANGED <<modo, llegados, s3, sinLista, crmVars, lecturaVars, ack,
                   pedidos>>

StatusAck ==
    CASE conError = <<>> -> "success"
      [] conError # <<>> /\ modo = "M4" /\ exitosos = <<>> -> "error"
      [] OTHER -> "partial"

\* The CRM keeps the ids of ids_procesados; an answer that is lost tells it
\* nothing.
ResponderAck ==
    /\ ack = "envia" /\ ids = <<>>
    /\ \/ Bien /\ confirmadas' = confirmadas \cup ToSet(exitosos)
       \/ Falla /\ UNCHANGED confirmadas
    /\ ack' = "libre" /\ pedidos' = {} /\ exitosos' = <<>> /\ conError' = <<>>
    /\ UNCHANGED <<modo, sfcVars, s3, sinLista, crm, lecturaVars, encogio, ids>>

-----------------------------------------------------------------------------
Leer == Pedir \/ Cortar \/ LeerPagina \/ Repetido \/ ProcesarQueja
          \/ ProcesarUsuario \/ Responder
Confirmar == PedirAck \/ EnviarLote \/ ResponderAck

Next == (\E r \in Registro : Llega(r)) \/ Leer \/ Confirmar

\* The CRM polls and acknowledges on a schedule of its own, and a request
\* that has begun goes on: every await in it has a timeout.
Spec == Init /\ [][Next]_vars /\ WF_vars(Leer) /\ WF_vars(Confirmar)

-----------------------------------------------------------------------------
(* Properties                                                               *)

\* Type correctness: a reading stays within its pages and its page, holds
\* only records the SFC has listed, and an acknowledgement only ids that the
\* CRM asked for (ejecutar_flujo_completo_momento_1, confirmar_recepcion_ack).
TypeOKL ==
    /\ modo \in Modos
    /\ ToSet(pendientes) \subseteq llegados /\ llegados \subseteq Registro
    /\ s3 \subseteq Registro \X Adjunto /\ sinLista \subseteq ConAnexos
    /\ confirmadas \subseteq crm /\ crm \subseteq llegados
    /\ fallos \in 0..MaxFallos
    /\ pc \in {"libre", "pagina", "procesa", "responde"}
    /\ pagina \in 0..MaxPaginas /\ Len(lista) <= TamPagina
    /\ pc = "procesa" <=> lista # <<>>
    /\ {mas, cortada, deforme, encogio} \subseteq BOOLEAN
    /\ vistos \subseteq Registro \ SinCodigo
    /\ ToSet(entrega) \cup fallidos \cup alInicio \subseteq llegados
    /\ ack \in {"libre", "envia"}
    /\ ToSet(ids) \cup ToSet(exitosos) \cup ToSet(conError) \subseteq pedidos

\* A list never brings a record twice (momento_1_sync.py:92,
\* momento_4_sync.py:66), although the record appears in two pages when
\* another one arrives in front of it between the two calls.
SinDuplicados ==
    \A i, j \in DOMAIN entrega :
        i # j /\ entrega[i] = entrega[j] => entrega[i] \in SinCodigo

\* Whatever the CRM takes has all its attachments in S3, however many
\* readings it took (momento_1_sync.py:159, "All-or-Nothing"), save the
\* complaints whose list of attachments the SFC answered in a shape without
\* results (momento_1_sync.py:147): those are delivered with none.
EntregaCompleta == \A r \in crm \ sinLista : Anexos(r) \subseteq s3

\* "success" of moment 4 (momento_4_sync.py:125) is a promise about the whole
\* list: every record listed when the reading began is in the answer, unless
\* an acknowledgement moved the pages meanwhile, or a page came in a shape
\* that _extraer_lista_usuarios (momento_4_sync.py:42) takes for the end of
\* the list: the code answers success then too, with records missing.
ExitoCubreTodo ==
    modo = "M4" /\ pc = "responde" /\ Status = "success" /\ ~encogio /\ ~deforme
        => alInicio \subseteq ToSet(entrega)

\* The answer of an acknowledgement (momento_1_sync.py:225,
\* momento_4_sync.py:215) counts each id once, as processed or as failed, and
\* the SFC lists none of the processed ones any more, as long as the SFC names
\* the ids it refuses where the code looks for them.
AckVeraz ==
    ack = "envia" =>
        LET contados == exitosos \o conError \o ids IN
        /\ ToSet(contados) = pedidos /\ Len(contados) = Cardinality(pedidos)
        /\ ToSet(exitosos) \cap ToSet(pendientes) = {}
        /\ ids = <<>> /\ StatusAck = "success"
              => pedidos \cap ToSet(pendientes) = {}

\* Records that nothing keeps from being delivered.
Sanas == Registro \ (Ilegibles \cup SinCodigo
                        \cup IF modo = "M1" THEN Rotos ELSE {})

\* Records that always fail stay in the list of the SFC for good, and each
\* reading starts again at the first page; the ones behind them are
\* nevertheless delivered and acknowledged in the end, as long as those that
\* fail do not fill the pages a reading may follow (momento_1_sync.py:41).
SanasSeConfirman == []<>(Sanas \cap ToSet(pendientes) = {})
=============================================================================
