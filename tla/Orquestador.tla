------------------------------ MODULE Orquestador ------------------------------
(***************************************************************************)
(* One complaint on its way to the SFC: DespachoQuejaOrquestador, Momento  *)
(* 2 (registration), Momento 3 (update, fraud, closing), the batches of    *)
(* attachments of S3StorageService and their checkpoint in Redis, and the  *)
(* classification of the SFC's answers (SfcErrorTranslator).               *)
(*                                                                         *)
(* A dispatch is one coroutine, or several while a batch is being sent:    *)
(* each file advances on its own and the batch ends when all have.  A call *)
(* to the SFC and its answer are one step; a call that fails may have      *)
(* taken effect.  Every failure (SFC, S3, Redis, process, lease of the     *)
(* lock of the case) spends one unit of MaxFallos.                         *)
(***************************************************************************)
EXTENDS Integers, Sequences, FiniteSets

CONSTANTS
    Despacho,       \* dispatches of the complaint
    Archivo,        \* files of the CRM in S3 (an s3_key each)
    Pdf,            \* the final answer the closing generates, by key and hash
    Copia,          \* the copy of it that the closing leaves in S3, by key
    Escenarios,     \* what the dispatches may ask for
    Lotes,          \* the values of archivos_s3 to try
    Directorio,     \* dispatches that bring directorio_s3 instead
    Tardios,        \* files whose upload ends after the dispatch came, or never
    Invalidos,      \* files that are empty, corrupt, too large or of another case
    Colision,       \* TRUE: another complaint with the same motive exists
    MaxFallos       \* failures in a behaviour

VARIABLES
    estado, docs,           \* the SFC: the complaint and its documents
    s3,                     \* files uploaded so far
    chk,                    \* file_checkpoint of the case in Redis
    op,                     \* what each dispatch asks for (es_m2_puro, es_fraude, es_cierre)
    via,                    \* "sincrono" (the route) or "worker" (the retry cycle)
    pc, paso, sana,         \* place, step of the pipeline, in self-healing
    arch,                   \* payload.archivos_s3
    ent,                    \* where each file of the current batch is
    durable,                \* nothing is left to persist about the result
    res,                    \* result of the dispatch
    fallos,                 \* failures so far
    aplicadas,              \* dispatches whose PATCH with estado_cod 2 the SFC took (history)
    recibidas,              \* identities under which it took or recognised a file (history)
    perdidas,               \* files whose mark the checkpoint may lack (history)
    solape                  \* the lease of the lock was lost once (history)

sfcVars == <<estado, docs, aplicadas, recibidas>>
dVars == <<pc, paso, sana, arch, ent, durable, res, via>>
histVars == <<perdidas, solape>>
vars == <<sfcVars, s3, chk, op, dVars, fallos, histVars>>

Operacion == {"alta", "tramite", "fraude", "cierre", "fraude_cierre"}

ASSUME OrquestadorAssumption ==
    /\ Pdf \notin Archivo /\ Copia \notin Archivo \cup {Pdf}
    /\ Escenarios \subseteq [Despacho -> Operacion]
    /\ Lotes \subseteq SUBSET Archivo
    /\ Directorio \subseteq Despacho
    /\ Tardios \subseteq Archivo /\ Invalidos \subseteq Archivo
    /\ Colision \in BOOLEAN
    /\ MaxFallos \in Nat

Fraude(d) == op[d] \in {"fraude", "fraude_cierre"}
Cierre(d) == op[d] \in {"cierre", "fraude_cierre"}

\* What the checkpoint calls a file (identificador_archivo): its s3_key, and
\* for the PDF, which is sent from memory, its s3_key and a hash.  The PDF and
\* the copy of it in S3 have the same name and two identities.
Identidad == Archivo \cup {Pdf, Copia}
Nombre(x) == IF x = Copia THEN Pdf ELSE x

\* What the SFC calls it: the name and the affix it was sent with.
Final == <<Pdf, "final">>
Documento == (Archivo \X {"sin", "fraude"}) \cup {Final, <<Pdf, "fraude">>}

-----------------------------------------------------------------------------
(* What the SFC and S3 answer, and how the code classifies it.  A message  *)
(* is its status, the fields it names and the phrases of the matrix in it. *)

SfcDice ==
    [no_existe_anexo |-> [status |-> 400, campos |-> {"codigo_queja"}, frases |-> {"does not exist"}],
     no_existe |-> [status |-> 404, campos |-> {}, frases |-> {"not found"}],
     ya_existe |-> [status |-> 400, campos |-> {"codigo_queja"}, frases |-> {"ya existe queja con este codigo"}],
     colision |-> [status |-> 400, campos |-> {}, frases |-> {"ya existe una queja con el mismo motivo"}],
     cerrada |-> [status |-> 400, campos |-> {}, frases |-> {"se encuentra cerrada"}],
     duplicado |-> [status |-> 400, campos |-> {}, frases |-> {"el anexo ya existe"}],
     regla |-> [status |-> 400, campos |-> {"estado_cod"}, frases |-> {}],
     caida |-> [status |-> 503, campos |-> {}, frases |-> {"upstream request timeout"}]]

Regla(s, t) == [subcadena |-> s, tipo |-> t]

\* The rules of errores_sfc.json that these messages meet, in its order.
Matriz ==
    << Regla("se encuentra cerrada", "BUSINESS_RULE_ERROR"),
       Regla("estado_cod", "BUSINESS_RULE_ERROR"),
       Regla("el anexo ya existe", "DUPLICATE_FILE"),
       Regla("ya existe queja con este codigo", "ALREADY_EXISTS"),
       Regla("codigo_queja", "ALREADY_EXISTS"),
       Regla("ya existe una queja con el mismo motivo", "ALREADY_EXISTS"),
       Regla("upstream request timeout", "TIMEOUT_ERROR"),
       Regla("not found", "NOT_FOUND_ERROR"),
       Regla("does not exist", "NOT_FOUND_ERROR") >>

\* The type of the first of the given rules that matches, or the given one.
PrimeraCoincidencia(reglas, m, defecto) ==
    LET aplica == {i \in reglas : Matriz[i].subcadena \in m.campos \cup m.frases}
    IN  IF aplica = {} THEN defecto
        ELSE Matriz[CHOOSE i \in aplica : \A j \in aplica : i <= j].tipo

EnOrdenDeMatriz(m) == PrimeraCoincidencia(DOMAIN Matriz, m, "UNKNOWN_SFC_ERROR")    \* mutant

\* procesar_y_lanzar: about codigo_queja, NOT_FOUND_ERROR goes first.
ErrorType(m) ==
    LET noExiste == {i \in DOMAIN Matriz : Matriz[i].tipo = "NOT_FOUND_ERROR"}
        resto == PrimeraCoincidencia(DOMAIN Matriz, m, "UNKNOWN_SFC_ERROR")
    IN  IF "codigo_queja" \in m.campos
        THEN PrimeraCoincidencia(noExiste, m, resto)
        ELSE resto

\* The exceptions that S3StorageService raises by itself.
DeS3 ==
    [s3_404 |-> [status |-> 404, tipo |-> "S3_FILE_NOT_FOUND"],
     s3_caido |-> [status |-> 500, tipo |-> "S3_INFRASTRUCTURE_ERROR"],
     invalido |-> [status |-> 400, tipo |-> "CORRUPTED_OR_INVALID_FILE"]]

Excepcion == DOMAIN SfcDice \cup DOMAIN DeS3
Status(e) == IF e \in DOMAIN DeS3 THEN DeS3[e].status ELSE SfcDice[e].status
Tipo(e) == IF e \in DOMAIN DeS3 THEN DeS3[e].tipo ELSE ErrorType(SfcDice[e])
Frases(e) == IF e \in DOMAIN DeS3 THEN {} ELSE SfcDice[e].frases

\* es_transitoria
TiposTransitorios == {"SERVER_ERROR", "SFC_DOWN", "TIMEOUT", "NETWORK_ERROR", "INFRASTRUCTURE_ERROR",
                      "THROTTLED_ERROR", "RATE_LIMIT_ERROR", "RESOURCE_EXHAUSTED"}
Transitoria(e) == Status(e) >= 500 \/ Status(e) = 429 \/ Tipo(e) \in TiposTransitorios

\* _es_error_caso_ya_cerrado, es_caso_no_encontrado, es_duplicado and
\* _es_error_queja_ya_existe_m2
CerradoSiRechaza(e) == Status(e) = 400    \* mutant
YaCerrado(e) == "se encuentra cerrada" \in Frases(e)
NoEncontrado(e) == Status(e) = 404 \/ Tipo(e) = "NOT_FOUND_ERROR"
CerradoEsDuplicado(e) == Tipo(e) = "DUPLICATE_FILE" \/ YaCerrado(e)    \* mutant
EsDuplicado(e) == Tipo(e) = "DUPLICATE_FILE"
YaExisteM2(e) ==
    \/ Tipo(e) = "ALREADY_EXISTS"
    \/ /\ "ya existe una queja con el mismo motivo" \notin Frases(e)
       /\ "ya existe queja con este codigo" \in Frases(e)

-----------------------------------------------------------------------------

Init ==
    /\ estado = "ausente" /\ docs = {} /\ aplicadas = {} /\ recibidas = {}
    /\ s3 = Archivo \ Tardios
    /\ chk = {}
    /\ op \in Escenarios
    /\ via = [d \in Despacho |-> "sincrono"]
    /\ pc = [d \in Despacho |-> "nuevo"]
    /\ paso = [d \in Despacho |-> "m2"]
    /\ sana = [d \in Despacho |-> FALSE]
    /\ arch \in {f \in [Despacho -> Lotes \cup {{}}] : \A d \in Directorio : f[d] = {}}
    /\ ent = [d \in Despacho |-> [x \in Identidad |-> "fuera"]]
    /\ durable = [d \in Despacho |-> FALSE]
    /\ res = [d \in Despacho |-> "nada"]
    /\ fallos = 0
    /\ perdidas = {} /\ solape = FALSE

Falla == fallos < MaxFallos /\ fallos' = fallos + 1
Bien == UNCHANGED fallos

Ir(d, p) == pc' = [pc EXCEPT ![d] = p]

SinLote == [x \in Identidad |-> "fuera"]
Reposo == {"nuevo", "reintento", "fin"}
EnCurso(d) == pc[d] \notin Reposo
Libre(d) == \A e \in Despacho \ {d} : ~EnCurso(e)

-----------------------------------------------------------------------------
(* Where the pipeline goes next: assignments to pc, paso, sana, durable,   *)
(* res, from the attachments as this step leaves them.                      *)

\* The first batch of step k of Momento 3: the PDF of a closing, else the
\* attachments.
EmpezarPaso(d, k) ==
    /\ paso' = [paso EXCEPT ![d] = k]
    /\ Ir(d, IF k = "cierre" THEN "subir_pdf" ELSE IF arch'[d] # {} THEN "leer" ELSE "put")
    /\ UNCHANGED <<durable, res>>

\* _ejecutar_pasos_momento_3
PasosM3(d) ==
    EmpezarPaso(d, IF Fraude(d) THEN "fraude" ELSE IF Cierre(d) THEN "cierre" ELSE "tramite")

\* ejecutar_envio_momento_2
Momento2(d) ==
    /\ paso' = [paso EXCEPT ![d] = "m2"]
    /\ Ir(d, "alta")
    /\ UNCHANGED <<durable, res>>

LimpiaSiempre(d) == TRUE    \* mutant
LimpiaEnExito(d) == via[d] = "sincrono"

\* A result: the route answers; the worker still has to persist SFC_DONE.
\* The checkpoint of a closing is cleaned when nothing is left to do.
Resultado(d, r) ==
    /\ res' = [res EXCEPT ![d] = r]
    /\ durable' = [durable EXCEPT ![d] = via[d] = "sincrono"]
    /\ Ir(d, IF Cierre(d) /\ r = "success" /\ LimpiaEnExito(d) THEN "limpiar"
             ELSE IF via[d] = "sincrono" THEN "responder" ELSE "persistir")
    /\ UNCHANGED paso

SinResultado(esCierre) == "nada"    \* mutant
ResultadoPorCierre(esCierre) == IF esCierre THEN "success" ELSE "noop"

SanaOtraVez(d) == TRUE    \* mutant
\* What fails inside the recovery is not recovered again.
PuedeSanar(d) == ~sana[d]

\* An exception leaves the current step.
Excepciona(d, e) ==
    CASE YaCerrado(e) /\ paso[d] = "fraude" /\ Cierre(d) ->
           EmpezarPaso(d, "cierre") /\ UNCHANGED sana
      [] YaCerrado(e) /\ paso[d] \in {"cierre", "tramite"} ->
           Resultado(d, ResultadoPorCierre(paso[d] = "cierre")) /\ UNCHANGED sana
      [] ~YaCerrado(e) /\ NoEncontrado(e) /\ PuedeSanar(d) ->
           Momento2(d) /\ sana' = [sana EXCEPT ![d] = TRUE]
      [] OTHER ->
           /\ Ir(d, IF Transitoria(e) THEN "reintento" ELSE "fin")
           /\ res' = [res EXCEPT ![d] = IF Transitoria(e) THEN "nada" ELSE "rechazo"]
           /\ UNCHANGED <<paso, sana, durable>>

\* A step of Momento 2 or 3 ends well.
TerminaPaso(d) ==
    /\ CASE paso[d] = "m2" /\ sana[d] -> PasosM3(d)
         [] paso[d] = "fraude" /\ Cierre(d) -> EmpezarPaso(d, "cierre")
         [] OTHER -> Resultado(d, "success")
    /\ UNCHANGED sana

-----------------------------------------------------------------------------

\* The CRM finishes an upload to S3.
Subir(x) ==
    /\ x \notin s3
    /\ s3' = s3 \cup {x}
    /\ UNCHANGED <<sfcVars, chk, op, dVars, fallos, histVars>>

\* The lock of the case is taken: the route queues the event.
Encolar(d) ==
    /\ pc[d] = "nuevo" /\ via[d] = "sincrono" /\ ~Libre(d)
    /\ via' = [via EXCEPT ![d] = "worker"]
    /\ UNCHANGED <<sfcVars, s3, chk, op, pc, paso, sana, arch, ent, durable, res, fallos, histVars>>

\* procesar_despacho up to its try: the directory is listed, with the copy of
\* the PDF that an earlier closing left in it, and a fraud without documents is
\* rejected.  Two dispatches overlap only when a lease was lost.
Procesar(d) ==
    LET sinDocumentos == Fraude(d) /\ arch'[d] = {} IN
    /\ pc[d] = "nuevo"
    /\ \/ Libre(d) /\ Bien /\ UNCHANGED solape
       \/ ~Libre(d) /\ Falla /\ solape' = TRUE
    /\ arch' = [arch EXCEPT ![d] = IF d \in Directorio THEN s3 ELSE @]
    /\ sana' = [sana EXCEPT ![d] = FALSE]
    /\ \/ /\ sinDocumentos
          /\ res' = [res EXCEPT ![d] = "rechazo"] /\ Ir(d, "fin")
          /\ UNCHANGED <<paso, durable>>
       \/ ~sinDocumentos /\ op[d] = "alta" /\ Momento2(d)
       \/ ~sinDocumentos /\ op[d] # "alta" /\ PasosM3(d)
    /\ UNCHANGED <<sfcVars, s3, chk, op, ent, via, perdidas>>

\* The listing fails (S3_LIST_ERROR, 500): transient.
ListarFalla(d) ==
    /\ pc[d] = "nuevo" /\ d \in Directorio /\ Libre(d) /\ Falla
    /\ Ir(d, "reintento")
    /\ UNCHANGED <<sfcVars, s3, chk, op, paso, sana, arch, ent, durable, res, via, histVars>>

\* Momento 2: the POST of the complaint, whose duplicate is tolerated.  In
\* self-healing it goes without attachments; otherwise a directory that was
\* empty is listed once more before the POST.
Alta(d) ==
    LET dice == IF estado # "ausente" THEN "ya_existe" ELSE IF Colision THEN "colision" ELSE "ok"
        radicada == estado' = IF dice = "ok" THEN "abierta" ELSE estado
        relista == d \in Directorio /\ arch[d] = {} /\ ~sana[d]
    IN
    /\ pc[d] = "alta"
    /\ \/ /\ dice # "ok" => YaExisteM2(dice)
          /\ radicada /\ Bien
          /\ arch' = [arch EXCEPT ![d] = IF relista THEN s3 ELSE @]
          /\ IF ~sana[d] /\ arch'[d] # {}
             THEN Ir(d, "leer") /\ UNCHANGED <<paso, sana, durable, res>>
             ELSE TerminaPaso(d)
       \/ /\ Bien /\ UNCHANGED <<estado, arch>>
          /\ \E e \in {"regla", dice} \ {"ok"} : ~YaExisteM2(e) /\ Excepciona(d, e)
       \/ /\ UNCHANGED arch /\ Falla
          /\ UNCHANGED estado \/ radicada
          /\ Excepciona(d, "caida")
    /\ UNCHANGED <<docs, aplicadas, recibidas, s3, chk, op, ent, via, histVars>>

-----------------------------------------------------------------------------
(* transferir_lote_s3_a_sfc                                                 *)

\* _generar_y_enviar_pdf_respuesta_final: a copy of the PDF goes to the
\* directory of the case in S3 before it is sent; a failure is only logged.
SubirPdf(d) ==
    /\ pc[d] = "subir_pdf"
    /\ \/ s3' = s3 \cup {Copia} /\ Bien
       \/ UNCHANGED s3 /\ Falla
    /\ Ir(d, "leer_pdf")
    /\ UNCHANGED <<sfcVars, chk, op, paso, sana, arch, ent, durable, res, via, histVars>>

\* The PDF is sent from memory, the attachments from S3.
LoteDe(d) == IF pc[d] = "leer_pdf" THEN {Pdf} ELSE arch[d]

\* obtener_archivos_completados: the files the checkpoint confirms are not
\* sent again.  It fails open, with the empty set.
LeerCheckpoint(d) ==
    /\ pc[d] \in {"leer_pdf", "leer"}
    /\ \E ya \in {chk, {}} :
          /\ \/ ya = chk /\ Bien /\ UNCHANGED perdidas
             \/ ya = {} /\ Falla /\ perdidas' = perdidas \cup chk
          /\ ent' = [ent EXCEPT ![d] = [x \in Identidad |->
                        IF x \notin LoteDe(d) THEN "fuera"
                        ELSE IF x \in ya THEN "listo" ELSE "por_enviar"]]
    /\ Ir(d, IF pc[d] = "leer_pdf" THEN "lote_pdf" ELSE "lote")
    /\ UNCHANGED <<sfcVars, s3, chk, op, paso, sana, arch, durable, res, via, solape>>

\* _resolver_nombre_final_envio: the affix of the name the SFC gets.  The name
\* of the PDF has its own; a fraud adds its affix to all it sends.
ConAfijo(d, x) ==
    IF paso[d] = "fraude" /\ x # Pdf THEN <<Nombre(x), "fraude">>
    ELSE IF Nombre(x) = Pdf THEN Final ELSE <<x, "sin">>

Pasa(d, x, e) == ent' = [ent EXCEPT ![d][x] = e]

\* obtener_stream_archivo: what S3 has to say before the file is sent.
ErrorDeS3(x) ==
    IF x = Pdf THEN {} ELSE IF x \in Invalidos THEN {"invalido"}
    ELSE IF x \notin s3 THEN {"s3_404"} ELSE {}

RespuestaAnexo(doc) ==
    CASE estado = "ausente" -> "no_existe_anexo"
      [] estado = "cerrada" -> "cerrada"
      [] estado = "abierta" /\ doc \in docs -> "duplicado"
      [] OTHER -> "ok"

\* _procesar_envio_s3_a_sfc up to the answer of the SFC.
EnviarArchivo(d, x) ==
    LET doc == ConAfijo(d, x)
        dice == RespuestaAnexo(doc)
        tomado == dice = "ok" \/ EsDuplicado(dice)
        llega == /\ docs' = IF dice = "ok" THEN docs \cup {doc} ELSE docs
                 /\ recibidas' = IF tomado THEN recibidas \cup {x} ELSE recibidas
    IN
    /\ pc[d] \in {"lote_pdf", "lote"} /\ ent[d][x] = "por_enviar"
    /\ \/ /\ Bien /\ UNCHANGED <<docs, recibidas, perdidas>>
          /\ \E e \in ErrorDeS3(x) : Pasa(d, x, e)
       \/ /\ ErrorDeS3(x) = {} /\ Bien /\ UNCHANGED perdidas
          /\ llega
          /\ Pasa(d, x, IF tomado THEN "enviado" ELSE dice)
       \/ /\ ErrorDeS3(x) = {} /\ Falla
          /\ \/ llega /\ Pasa(d, x, "caida")
             \/ UNCHANGED <<docs, recibidas>> /\ Pasa(d, x, IF x = Pdf THEN "caida" ELSE "s3_caido")
          /\ perdidas' = perdidas \cup {x}
    /\ UNCHANGED <<estado, aplicadas, s3, chk, op, pc, paso, sana, arch, durable, res, via, solape>>

\* marcar_archivo_completado, at once after the answer; a failure is logged.
MarcarArchivo(d, x) ==
    /\ ent[d][x] = "enviado"
    /\ Pasa(d, x, "listo")
    /\ \/ chk' = chk \cup {x} /\ Bien /\ UNCHANGED perdidas
       \/ UNCHANGED chk /\ Falla /\ perdidas' = perdidas \cup {x}
    /\ UNCHANGED <<sfcVars, s3, op, pc, paso, sana, arch, durable, res, via, solape>>

SoloRegistra(d) == {}    \* mutant
Fallidos(d) == {ent[d][x] : x \in Identidad} \ {"fuera", "listo"}

\* gather has collected every file: the first exception of the list is raised.
CerrarLote(d) ==
    /\ pc[d] \in {"lote_pdf", "lote"}
    /\ \A x \in Identidad : ent[d][x] \notin {"por_enviar", "enviado"}
    /\ UNCHANGED arch
    /\ \/ \E e \in Fallidos(d) : Excepciona(d, e)
       \/ /\ Fallidos(d) = {} /\ pc[d] = "lote_pdf"
          /\ Ir(d, IF arch[d] # {} THEN "leer" ELSE "put")
          /\ UNCHANGED <<paso, sana, durable, res>>
       \/ Fallidos(d) = {} /\ pc[d] = "lote" /\ paso[d] = "m2" /\ TerminaPaso(d)
       \/ /\ Fallidos(d) = {} /\ pc[d] = "lote" /\ paso[d] # "m2"
          /\ Ir(d, "put") /\ UNCHANGED <<paso, sana, durable, res>>
    /\ ent' = [ent EXCEPT ![d] = SinLote]
    /\ UNCHANGED <<sfcVars, s3, chk, op, via, fallos, histVars>>

-----------------------------------------------------------------------------

\* put_actualizar_queja: estado_cod 4 closes the complaint, 2 updates it.
Put(d) ==
    LET dice == CASE estado = "ausente" -> "no_existe" [] estado = "cerrada" -> "cerrada"
                  [] OTHER -> "ok"
        nada == UNCHANGED <<estado, aplicadas>>
        aplica == IF paso[d] = "cierre" THEN estado' = "cerrada" /\ UNCHANGED aplicadas
                  ELSE aplicadas' = aplicadas \cup {d} /\ UNCHANGED estado
    IN
    /\ pc[d] = "put"
    /\ UNCHANGED arch
    /\ \/ dice = "ok" /\ aplica /\ Bien /\ TerminaPaso(d)
       \/ dice = "ok" /\ nada /\ Bien /\ Excepciona(d, "regla")
       \/ dice # "ok" /\ nada /\ Bien /\ Excepciona(d, dice)
       \/ nada /\ Falla /\ Excepciona(d, "caida")
       \/ dice = "ok" /\ aplica /\ Falla /\ Excepciona(d, "caida")
    /\ UNCHANGED <<docs, recibidas, s3, chk, op, ent, via, histVars>>

\* marcar_sfc_completado, of the worker: when it fails everything is run again.
Persistir(d) ==
    /\ pc[d] = "persistir"
    /\ \/ /\ Bien /\ durable' = [durable EXCEPT ![d] = TRUE] /\ UNCHANGED res
          /\ Ir(d, IF Cierre(d) /\ res[d] = "success" THEN "limpiar" ELSE "fin")
       \/ /\ Falla /\ Ir(d, "reintento")
          /\ res' = [res EXCEPT ![d] = "nada"] /\ UNCHANGED durable
    /\ UNCHANGED <<sfcVars, s3, chk, op, paso, sana, arch, ent, via, histVars>>

\* limpiar_checkpoint_si_cierre_exitoso: best effort.  Once the result is
\* durable, forgetting the marks is intended.
Limpiar(d) ==
    /\ pc[d] = "limpiar"
    /\ \/ chk' = {} /\ Bien
       \/ UNCHANGED chk /\ Falla
    /\ perdidas' = IF durable[d] THEN perdidas \cup chk ELSE perdidas
    /\ Ir(d, IF durable[d] THEN "fin" ELSE "persistir")
    /\ UNCHANGED <<sfcVars, s3, op, paso, sana, arch, ent, durable, res, via, solape>>

\* The answer of the route.
Responder(d) ==
    /\ pc[d] = "responder"
    /\ Ir(d, "fin")
    /\ UNCHANGED <<sfcVars, s3, chk, op, paso, sana, arch, ent, durable, res, via, fallos, histVars>>

\* The process dies: what the SFC answered and was not marked is in doubt.
\* The CRM sends again what got no answer; the queue recovers what a worker
\* held, unless it is SFC_DONE.
Caida(d) ==
    /\ EnCurso(d) /\ Falla
    /\ \/ /\ via[d] = "worker" /\ durable[d]
          /\ Ir(d, "fin") /\ UNCHANGED res
       \/ /\ ~(via[d] = "worker" /\ durable[d])
          /\ Ir(d, IF via[d] = "worker" THEN "reintento" ELSE "nuevo")
          /\ res' = [res EXCEPT ![d] = "nada"]
    /\ perdidas' = perdidas \cup {x \in Identidad : ent[d][x] = "enviado"}
    /\ ent' = [ent EXCEPT ![d] = SinLote]
    /\ durable' = [durable EXCEPT ![d] = FALSE]
    /\ UNCHANGED <<sfcVars, s3, chk, op, paso, sana, arch, via, solape>>

\* The queue gives the item to a worker: the whole dispatch is run again.
Reintentar(d) ==
    /\ pc[d] = "reintento"
    /\ Ir(d, "nuevo")
    /\ via' = [via EXCEPT ![d] = "worker"]
    /\ UNCHANGED <<sfcVars, s3, chk, op, paso, sana, arch, ent, durable, res, fallos, histVars>>

Avanza(d) ==
    \/ Encolar(d) \/ Procesar(d) \/ Alta(d) \/ SubirPdf(d) \/ LeerCheckpoint(d)
    \/ \E x \in Identidad : EnviarArchivo(d, x) \/ MarcarArchivo(d, x)
    \/ CerrarLote(d) \/ Put(d) \/ Persistir(d) \/ Limpiar(d) \/ Responder(d) \/ Reintentar(d)

Next ==
    \/ \E x \in Archivo : Subir(x)
    \/ \E d \in Despacho : Avanza(d) \/ ListarFalla(d) \/ Caida(d)

\* Coroutines advance, and the retry cycle comes back to what is queued.
Equidad == \A d \in Despacho : WF_vars(Avanza(d))

Spec == Init /\ [][Next]_vars /\ Equidad

-----------------------------------------------------------------------------
(* Properties                                                               *)

\* The SFC has the file; of the PDF, as the final answer.
EnSfc(x) == IF x = Pdf THEN Final \in docs ELSE \E doc \in docs : doc[1] = Nombre(x)
Terminado(d, r) == pc[d] = "fin" /\ res[d] = r

\* Type correctness: a result exists from the moment the pipeline ends until
\* the dispatch is run again, and a batch only while it is being sent.
TypeOKO ==
    /\ estado \in {"ausente", "abierta", "cerrada"}
    /\ docs \subseteq Documento
    /\ s3 \subseteq Archivo \cup {Copia}
    /\ chk \subseteq Identidad /\ perdidas \subseteq Identidad /\ recibidas \subseteq Identidad
    /\ aplicadas \subseteq Despacho
    /\ op \in [Despacho -> Operacion]
    /\ via \in [Despacho -> {"sincrono", "worker"}]
    /\ pc \in [Despacho -> Reposo \cup {"alta", "subir_pdf", "leer_pdf", "lote_pdf", "leer", "lote",
                                        "put", "persistir", "limpiar", "responder"}]
    /\ paso \in [Despacho -> {"m2", "fraude", "cierre", "tramite"}]
    /\ sana \in [Despacho -> BOOLEAN] /\ durable \in [Despacho -> BOOLEAN]
    /\ arch \in [Despacho -> SUBSET (Archivo \cup {Copia})]
    /\ ent \in [Despacho -> [Identidad -> {"fuera", "por_enviar", "enviado", "listo"} \cup Excepcion]]
    /\ res \in [Despacho -> {"nada", "success", "noop", "rechazo"}]
    /\ fallos \in 0..MaxFallos /\ solape \in BOOLEAN
    /\ \A d \in Despacho :
          /\ res[d] # "nada" <=> pc[d] \in {"persistir", "limpiar", "responder", "fin"}
          /\ pc[d] \notin {"lote_pdf", "lote"} => ent[d] = SinLote

\* The checkpoint never lies: a file it confirms is at the SFC, whatever
\* failed, overlapped or was rejected because the complaint was closed
\* (_manejar_duplicado_o_cerrado), so that no retry skips a file the SFC lacks.
CheckpointVeraz == \A x \in chk : EnSfc(x)

\* A dispatch that is not a closing and answers "success" has delivered every
\* attachment it brought, self-healing and retries included
\* (transferir_lote_s3_a_sfc raises what any file raised).
ExitoConAdjuntos ==
    \A d \in Despacho : Terminado(d, "success") /\ ~Cierre(d) => \A x \in arch[d] : EnSfc(x)

\* A file that the SFC took or recognised is sent again under the same
\* identity only when its mark could not be written or read, its dispatch died
\* before writing it, the closed complaint was already settled, or the lease of
\* the lock was lost (limpiar_checkpoint_si_cierre_exitoso,
\* marcar_archivo_completado).  Identities are those of the checkpoint: the PDF
\* of a closing and its copy in S3 are two, and a retry that lists the
\* directory does send the copy of a PDF the SFC has.
SinReenvio ==
    \A d \in Despacho, x \in Identidad :
        ent[d][x] = "por_enviar" /\ x \in recibidas => x \in perdidas \/ solape

\* While the complaint does not exist at the SFC, no update, fraud or closing
\* with sound documents is rejected before self-healing has tried to register
\* it (procesar_y_lanzar, es_caso_no_encontrado).
AusenteSeSana ==
    \A d \in Despacho :
        /\ Terminado(d, "rechazo") /\ op[d] # "alta" /\ estado = "ausente"
        /\ arch[d] \cap Invalidos = {}
        /\ ~(Fraude(d) /\ arch[d] = {})
        => sana[d]

\* What the CRM is told: nothing before the end.
Dicho == [d \in Despacho |-> IF pc[d] = "fin" THEN res[d] ELSE "nada"]
Pide == [d \in Despacho |-> IF Cierre(d) THEN "cierre" ELSE IF op[d] = "alta" THEN "alta" ELSE "cambio"]

Q == INSTANCE QuejaSfc WITH documentos <- docs, pide <- Pide, dicho <- Dicho

\* The pipeline implements QuejaSfc: one registration, documents only while
\* the complaint is open, no closing without the final answer, and no answer
\* to the CRM that is not true of the SFC (procesar_despacho).
ImplementaQueja == Q!Spec

\* Every dispatch is answered: neither self-healing, nor the tolerance of a
\* closed complaint, nor the retries go round for ever.
DespachoTermina == <>(\A d \in Despacho : pc[d] = "fin")

\* An answer "success" is about a complaint the SFC has
\* (_es_error_queja_ya_existe_m2).
ExitoConCaso == \A d \in Despacho : Terminado(d, "success") => estado # "ausente"
=============================================================================
