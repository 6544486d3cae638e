--------------------------- MODULE OrquestadorProofs ---------------------------
(***************************************************************************)
(* Proofs about Orquestador: for any number of dispatches and files, any   *)
(* mix of operations and any budget of failures.                           *)
(***************************************************************************)
EXTENDS Orquestador, TLAPS

-----------------------------------------------------------------------------
(* The classification of the answers (SfcErrorTranslator).                  *)

SfcExc == {"no_existe_anexo", "no_existe", "ya_existe", "colision", "cerrada", "duplicado",
           "regla", "caida"}
S3Exc == {"s3_404", "s3_caido", "invalido"}

\* The two tables of exceptions cover what the SFC and S3 can raise.
LEMMA Dominios == DOMAIN SfcDice = SfcExc /\ DOMAIN DeS3 = S3Exc
BY DEF SfcDice, DeS3, SfcExc, S3Exc

\* Nothing else is raised.
LEMMA Excepciones == Excepcion = SfcExc \cup S3Exc
BY Dominios DEF Excepcion

\* Only one answer says that the complaint is closed.
LEMMA SoloCerrada == \A e \in Excepcion : YaCerrado(e) <=> e = "cerrada"
<1>1. YaCerrado("cerrada")
  BY Dominios DEF S3Exc, YaCerrado, Frases, SfcDice
<1>2. ~YaCerrado("no_existe_anexo")
  BY Dominios DEF S3Exc, YaCerrado, Frases, SfcDice
<1>3. ~YaCerrado("no_existe")
  BY Dominios DEF S3Exc, YaCerrado, Frases, SfcDice
<1>4. ~YaCerrado("ya_existe")
  BY Dominios DEF S3Exc, YaCerrado, Frases, SfcDice
<1>5. ~YaCerrado("colision")
  BY Dominios DEF S3Exc, YaCerrado, Frases, SfcDice
<1>6. ~YaCerrado("duplicado")
  BY Dominios DEF S3Exc, YaCerrado, Frases, SfcDice
<1>7. ~YaCerrado("regla")
  BY Dominios DEF S3Exc, YaCerrado, Frases, SfcDice
<1>8. ~YaCerrado("caida")
  BY Dominios DEF S3Exc, YaCerrado, Frases, SfcDice
<1>9. \A e \in S3Exc : ~YaCerrado(e)
  BY Dominios DEF YaCerrado, Frases
<1>10. QED
  BY <1>1, <1>2, <1>3, <1>4, <1>5, <1>6, <1>7, <1>8, <1>9, Excepciones DEF SfcExc, S3Exc

\* The HTTP status under which four of the failures reach the orchestrator.
LEMMA Estatus ==
    /\ Status("caida") = 503 /\ Status("s3_caido") = 500
    /\ Status("s3_404") = 404 /\ Status("no_existe") = 404
<1>1. Status("caida") = 503
  BY DEF Status, SfcDice, DeS3
<1>2. Status("s3_caido") = 500
  BY DEF Status, SfcDice, DeS3
<1>3. Status("s3_404") = 404
  BY DEF Status, SfcDice, DeS3
<1>4. Status("no_existe") = 404
  BY DEF Status, SfcDice, DeS3
<1>5. QED
  BY <1>1, <1>2, <1>3, <1>4

\* An outage of the SFC and one of S3 are both worth a retry.
LEMMA FallosTransitorios == Transitoria("caida") /\ Transitoria("s3_caido")
BY Estatus DEF Transitoria

\* The rows of the error matrix, spelled out once for the provers.
LEMMA MatrizTabla ==
    /\ DOMAIN Matriz = 1..9
    /\ Matriz[1].subcadena = "se encuentra cerrada" /\ Matriz[1].tipo = "BUSINESS_RULE_ERROR"
    /\ Matriz[2].subcadena = "estado_cod" /\ Matriz[2].tipo = "BUSINESS_RULE_ERROR"
    /\ Matriz[3].subcadena = "el anexo ya existe" /\ Matriz[3].tipo = "DUPLICATE_FILE"
    /\ Matriz[4].subcadena = "ya existe queja con este codigo" /\ Matriz[4].tipo = "ALREADY_EXISTS"
    /\ Matriz[5].subcadena = "codigo_queja" /\ Matriz[5].tipo = "ALREADY_EXISTS"
    /\ Matriz[6].subcadena = "ya existe una queja con el mismo motivo" /\ Matriz[6].tipo = "ALREADY_EXISTS"
    /\ Matriz[7].subcadena = "upstream request timeout" /\ Matriz[7].tipo = "TIMEOUT_ERROR"
    /\ Matriz[8].subcadena = "not found" /\ Matriz[8].tipo = "NOT_FOUND_ERROR"
    /\ Matriz[9].subcadena = "does not exist" /\ Matriz[9].tipo = "NOT_FOUND_ERROR"
<1>1. DOMAIN Matriz = 1..9
  BY DEF Matriz
<1>2. Matriz[1].subcadena = "se encuentra cerrada" /\ Matriz[1].tipo = "BUSINESS_RULE_ERROR"
  BY DEF Matriz, Regla
<1>3. Matriz[2].subcadena = "estado_cod" /\ Matriz[2].tipo = "BUSINESS_RULE_ERROR"
  BY DEF Matriz, Regla
<1>4. Matriz[3].subcadena = "el anexo ya existe" /\ Matriz[3].tipo = "DUPLICATE_FILE"
  BY DEF Matriz, Regla
<1>5. Matriz[4].subcadena = "ya existe queja con este codigo" /\ Matriz[4].tipo = "ALREADY_EXISTS"
  BY DEF Matriz, Regla
<1>6. Matriz[5].subcadena = "codigo_queja" /\ Matriz[5].tipo = "ALREADY_EXISTS"
  BY DEF Matriz, Regla
<1>7. Matriz[6].subcadena = "ya existe una queja con el mismo motivo" /\ Matriz[6].tipo = "ALREADY_EXISTS"
  BY DEF Matriz, Regla
<1>8. Matriz[7].subcadena = "upstream request timeout" /\ Matriz[7].tipo = "TIMEOUT_ERROR"
  BY DEF Matriz, Regla
<1>9. Matriz[8].subcadena = "not found" /\ Matriz[8].tipo = "NOT_FOUND_ERROR"
  BY DEF Matriz, Regla
<1>10. Matriz[9].subcadena = "does not exist" /\ Matriz[9].tipo = "NOT_FOUND_ERROR"
  BY DEF Matriz, Regla
<1>11. QED
  BY <1>1, <1>2, <1>3, <1>4, <1>5, <1>6, <1>7, <1>8, <1>9, <1>10

\* An index of the matrix is one of nine.
LEMMA NueveReglas == \A i \in 1..9 : i \in {1, 2, 3, 4, 5, 6, 7, 8, 9}
OBVIOUS

\* One rule applies: it gives the type.
LEMMA UnaRegla ==
    ASSUME NEW R, NEW m, NEW def, NEW k \in R, k \in Int,
           \A i \in R : Matriz[i].subcadena \in m.campos \cup m.frases <=> i = k
    PROVE  PrimeraCoincidencia(R, m, def) = Matriz[k].tipo
<1>1. {i \in R : Matriz[i].subcadena \in m.campos \cup m.frases} = {k}
  OBVIOUS
<1>2. (CHOOSE i \in {k} : \A j \in {k} : i <= j) = k
  OBVIOUS
<1>3. QED
  BY <1>1, <1>2 DEF PrimeraCoincidencia

\* About a closed complaint, the refusal of a document is no duplicate.
LEMMA CerradaNoEsDuplicado == ~EsDuplicado("cerrada")
<1> DEFINE m == SfcDice["cerrada"]
<1>1. m.campos = {} /\ m.frases = {"se encuentra cerrada"}
  BY DEF SfcDice
<1>2. \A i \in 1..9 : Matriz[i].subcadena \in m.campos \cup m.frases <=> i = 1
  <2>1. m.campos \cup m.frases = {"se encuentra cerrada"}
    BY <1>1
  <2>2. QED
    BY <2>1, MatrizTabla, NueveReglas
<1>3. PrimeraCoincidencia(1..9, m, "UNKNOWN_SFC_ERROR") = "BUSINESS_RULE_ERROR"
  <2>1. 1 \in 1..9 /\ 1 \in Int
    OBVIOUS
  <2> HIDE DEF m
  <2>2. PrimeraCoincidencia(1..9, m, "UNKNOWN_SFC_ERROR") = Matriz[1].tipo
    BY <1>2, <2>1, UnaRegla
  <2>3. QED
    BY <2>2, MatrizTabla
<1>4. Tipo("cerrada") = "BUSINESS_RULE_ERROR"
  <2>1. Tipo("cerrada") = ErrorType(m)
    BY Dominios DEF Tipo, S3Exc
  <2>2. "codigo_queja" \notin m.campos
    BY <1>1
  <2>3. ErrorType(m) = PrimeraCoincidencia(DOMAIN Matriz, m, "UNKNOWN_SFC_ERROR")
    BY <2>2 DEF ErrorType
  <2>4. QED
    BY <1>3, <2>1, <2>3, MatrizTabla
<1>5. QED
  BY <1>4 DEF EsDuplicado

\* A document the SFC already has is one.
LEMMA DuplicadoEsDuplicado == EsDuplicado("duplicado")
<1> DEFINE m == SfcDice["duplicado"]
<1>1. m.campos = {} /\ m.frases = {"el anexo ya existe"}
  BY DEF SfcDice
<1>2. \A i \in 1..9 : Matriz[i].subcadena \in m.campos \cup m.frases <=> i = 3
  <2>1. m.campos \cup m.frases = {"el anexo ya existe"}
    BY <1>1
  <2>2. QED
    BY <2>1, MatrizTabla, NueveReglas
<1>3. PrimeraCoincidencia(1..9, m, "UNKNOWN_SFC_ERROR") = "DUPLICATE_FILE"
  <2>1. 3 \in 1..9 /\ 3 \in Int
    OBVIOUS
  <2> HIDE DEF m
  <2>2. PrimeraCoincidencia(1..9, m, "UNKNOWN_SFC_ERROR") = Matriz[3].tipo
    BY <1>2, <2>1, UnaRegla
  <2>3. QED
    BY <2>2, MatrizTabla
<1>4. Tipo("duplicado") = "DUPLICATE_FILE"
  <2>1. Tipo("duplicado") = ErrorType(m)
    BY Dominios DEF Tipo, S3Exc
  <2>2. "codigo_queja" \notin m.campos
    BY <1>1
  <2>3. ErrorType(m) = PrimeraCoincidencia(DOMAIN Matriz, m, "UNKNOWN_SFC_ERROR")
    BY <2>2 DEF ErrorType
  <2>4. QED
    BY <1>3, <2>1, <2>3, MatrizTabla
<1>5. QED
  BY <1>4 DEF EsDuplicado

\* A document for a complaint that does not exist: NOT_FOUND_ERROR, although
\* the message is about codigo_queja.
LEMMA AnexoNoEncontrado == Tipo("no_existe_anexo") = "NOT_FOUND_ERROR"
<1> DEFINE m == SfcDice["no_existe_anexo"]
           R == {i \in DOMAIN Matriz : Matriz[i].tipo = "NOT_FOUND_ERROR"}
<1>1. m.campos = {"codigo_queja"} /\ m.frases = {"does not exist"}
  BY DEF SfcDice
<1>2. R = {8, 9}
  <2>1. \A i \in 1..9 : Matriz[i].tipo = "NOT_FOUND_ERROR" <=> i \in {8, 9}
    BY MatrizTabla, NueveReglas
  <2>2. DOMAIN Matriz = 1..9
    BY MatrizTabla
  <2>3. 8 \in 1..9 /\ 9 \in 1..9
    OBVIOUS
  <2>4. QED
    BY <2>1, <2>2, <2>3
<1>3. \A i \in {8, 9} : Matriz[i].subcadena \in m.campos \cup m.frases <=> i = 9
  <2>1. m.campos \cup m.frases = {"codigo_queja", "does not exist"}
    BY <1>1
  <2>2. QED
    BY <2>1, MatrizTabla
<1>4. \A def : PrimeraCoincidencia({8, 9}, m, def) = "NOT_FOUND_ERROR"
  <2>1. 9 \in {8, 9} /\ 9 \in Int
    OBVIOUS
  <2> HIDE DEF m
  <2>2. \A def : PrimeraCoincidencia({8, 9}, m, def) = Matriz[9].tipo
    BY <1>3, <2>1, UnaRegla
  <2>3. QED
    BY <2>2, MatrizTabla
<1>5. ErrorType(m) = "NOT_FOUND_ERROR"
  <2>1. "codigo_queja" \in m.campos
    BY <1>1
  <2>2. ErrorType(m) =
           PrimeraCoincidencia(R, m, PrimeraCoincidencia(DOMAIN Matriz, m, "UNKNOWN_SFC_ERROR"))
    BY <2>1 DEF ErrorType
  <2>3. QED
    BY <1>2, <1>4, <2>2
<1>6. QED
  BY <1>5, Dominios DEF Tipo, S3Exc

\* The three failures classified as not found.
LEMMA NoEncontrados ==
    NoEncontrado("no_existe_anexo") /\ NoEncontrado("no_existe") /\ NoEncontrado("s3_404")
BY AnexoNoEncontrado, Estatus DEF NoEncontrado

\* A missing attachment is never taken for a file the SFC already has.
LEMMA AnexoAusenteNoEsDuplicado == ~EsDuplicado("no_existe_anexo")
BY AnexoNoEncontrado DEF EsDuplicado

-----------------------------------------------------------------------------
(* The inductive invariant.                                                 *)

\* The step of the pipeline fits the operation, and the place fits the step.
PasoCoherente(d) ==
    /\ paso[d] = "cierre" => Cierre(d)
    /\ paso[d] = "tramite" => ~Cierre(d)
    /\ pc[d] \in {"subir_pdf", "leer_pdf", "lote_pdf"} => paso[d] = "cierre"
    /\ pc[d] = "alta" => paso[d] = "m2"
    /\ pc[d] = "put" => paso[d] # "m2"
    /\ pc[d] \in {"alta", "leer", "lote"} /\ paso[d] = "m2" /\ ~sana[d] => op[d] = "alta"
    /\ pc[d] \in {"leer", "lote"} /\ paso[d] = "m2" => ~sana[d] /\ (Colision \/ estado # "ausente")

\* A file is in the batch or out of it, and what its task knows is true.
EntVeraz(d, x) ==
    /\ ent[d][x] \in {"fuera", "por_enviar", "enviado", "listo", "cerrada", "invalido", "caida",
                      "s3_caido", "s3_404", "no_existe_anexo"}
    /\ ent[d][x] \in {"enviado", "listo"} => EnSfc(x)
    /\ ent[d][x] = "cerrada" => estado = "cerrada"
    /\ ent[d][x] = "invalido" => x \in Invalidos
    /\ pc[d] = "lote" => (ent[d][x] # "fuera" <=> x \in arch[d])
    /\ pc[d] = "lote_pdf" => (ent[d][x] # "fuera" <=> x = Pdf)
LoteVeraz(d) == \A x \in Identidad : EntVeraz(d, x)

\* Before the PUT every attachment is at the SFC, and the final answer of a
\* closing before the attachments.
Entregado(d) ==
    /\ pc[d] = "put" => \A x \in arch[d] : EnSfc(x)
    /\ pc[d] \in {"leer", "lote", "put"} /\ paso[d] = "cierre" => Final \in docs

\* The rejections that need no self-healing.
SinCura(d) == arch[d] \cap Invalidos # {} \/ (Fraude(d) /\ arch[d] = {})

\* What a result says is true from the moment it exists.
ResultadoVeraz(d) ==
    /\ durable[d] => pc[d] \in {"limpiar", "responder", "fin"}
    /\ pc[d] = "limpiar" => durable[d]
    /\ res[d] = "success" =>
          /\ op[d] = "alta" => Colision \/ estado # "ausente"
          /\ op[d] \in {"tramite", "fraude"} => d \in aplicadas
          /\ Cierre(d) => estado = "cerrada"
          /\ ~Cierre(d) => \A x \in arch[d] : EnSfc(x)
    /\ res[d] = "noop" => ~Cierre(d) /\ estado = "cerrada"
    /\ res[d] = "rechazo" /\ op[d] # "alta" /\ estado = "ausente" => SinCura(d) \/ sana[d]

\* The lock of the case, while no lease is lost.
UnoEnCurso == solape \/ \A d, e \in Despacho : EnCurso(d) /\ EnCurso(e) => d = e

\* Meanwhile a file the SFC took is marked, about to be, or its mark was lost.
Marcado ==
    solape \/ \A x \in Identidad : x \in recibidas =>
                  x \in chk \cup perdidas \/ \E d \in Despacho : ent[d][x] = "enviado"

Local(d) == PasoCoherente(d) /\ LoteVeraz(d) /\ Entregado(d) /\ ResultadoVeraz(d)

IInv ==
    /\ TypeOKO /\ CheckpointVeraz /\ UnoEnCurso /\ Marcado /\ SinReenvio
    /\ \A d \in Despacho : Local(d)

-----------------------------------------------------------------------------
(* TypeOKO by parts: what a step of a dispatch changes, and what it shares. *)

Lugar == Reposo \cup {"alta", "subir_pdf", "leer_pdf", "lote_pdf", "leer", "lote", "put",
                      "persistir", "limpiar", "responder"}
ConResultado == {"persistir", "limpiar", "responder", "fin"}
Tramo == {"m2", "fraude", "cierre", "tramite"}
Dicta == {"nada", "success", "noop", "rechazo"}
Entrega == {"fuera", "por_enviar", "enviado", "listo"} \cup Excepcion

TipoPlan ==
    /\ pc \in [Despacho -> Lugar] /\ paso \in [Despacho -> Tramo] /\ res \in [Despacho -> Dicta]
    /\ sana \in [Despacho -> BOOLEAN] /\ durable \in [Despacho -> BOOLEAN]
TipoLote ==
    /\ arch \in [Despacho -> SUBSET (Archivo \cup {Copia})] /\ ent \in [Despacho -> [Identidad -> Entrega]]
    /\ via \in [Despacho -> {"sincrono", "worker"}]
TipoComun ==
    /\ estado \in {"ausente", "abierta", "cerrada"} /\ docs \subseteq Documento
    /\ s3 \subseteq Archivo \cup {Copia}
    /\ chk \subseteq Identidad /\ perdidas \subseteq Identidad /\ recibidas \subseteq Identidad
    /\ aplicadas \subseteq Despacho /\ op \in [Despacho -> Operacion]
    /\ fallos \in 0..MaxFallos /\ solape \in BOOLEAN
TipoDe(d) ==
    /\ res[d] # "nada" <=> pc[d] \in ConResultado
    /\ pc[d] \notin {"lote_pdf", "lote"} => ent[d] = SinLote

\* The type invariant, split by what a step of one dispatch may touch.
LEMMA TipoPorPartes ==
    TypeOKO <=> TipoPlan /\ TipoLote /\ TipoComun /\ \A d \in Despacho : TipoDe(d)
BY DEF TypeOKO, TipoPlan, TipoLote, TipoComun, TipoDe, Lugar, Tramo, Dicta, Entrega, ConResultado

\* The other dispatches are left alone.
AislaPlan(d) ==
    \A e \in Despacho : e # d =>
        /\ pc'[e] = pc[e] /\ paso'[e] = paso[e] /\ res'[e] = res[e]
        /\ sana'[e] = sana[e] /\ durable'[e] = durable[e]
AislaLote(d) ==
    \A e \in Despacho : e # d => arch'[e] = arch[e] /\ ent'[e] = ent[e]

\* The SFC only goes forward, and history is kept.
Crece ==
    /\ docs \subseteq docs' /\ aplicadas \subseteq aplicadas' /\ op' = op
    /\ \/ estado' = estado
       \/ estado = "ausente" /\ estado' = "abierta"
       \/ estado = "abierta" /\ estado' = "cerrada"

\* What the SFC has taken stays taken, and a complaint never goes back in its life.
LEMMA SfcCrece ==
    ASSUME Crece
    PROVE  /\ \A x : EnSfc(x) => EnSfc(x)'
           /\ \A d : (Cierre(d)' <=> Cierre(d)) /\ (Fraude(d)' <=> Fraude(d))
           /\ estado # "ausente" => estado' # "ausente"
           /\ estado = "cerrada" => estado' = "cerrada"
BY DEF Crece, EnSfc, Cierre, Fraude

\* What is true of a dispatch stays true when another one moves.
LEMMA LocalAjeno ==
    ASSUME IInv, Crece, NEW d \in Despacho, AislaPlan(d), AislaLote(d),
           NEW e \in Despacho, e # d
    PROVE  Local(e)'
<1>1. /\ pc'[e] = pc[e] /\ paso'[e] = paso[e] /\ res'[e] = res[e]
      /\ (sana'[e] <=> sana[e]) /\ (durable'[e] <=> durable[e])
      /\ arch'[e] = arch[e] /\ ent'[e] = ent[e] /\ op'[e] = op[e]
  BY DEF AislaPlan, AislaLote, Crece
<1>2. /\ \A x : EnSfc(x) => EnSfc(x)'
      /\ (Cierre(e)' <=> Cierre(e)) /\ (Fraude(e)' <=> Fraude(e))
      /\ estado # "ausente" => estado' # "ausente"
      /\ estado = "cerrada" => estado' = "cerrada"
      /\ Final \in docs => Final \in docs'
      /\ e \in aplicadas => e \in aplicadas'
  BY SfcCrece DEF Crece
<1>3. Local(e)
  BY DEF IInv
<1>4. PasoCoherente(e)'
  BY <1>1, <1>2, <1>3 DEF Local, PasoCoherente
<1>5. LoteVeraz(e)'
  BY <1>1, <1>2, <1>3 DEF Local, LoteVeraz, EntVeraz, Identidad
<1>6. Entregado(e)'
  BY <1>1, <1>2, <1>3 DEF Local, Entregado
<1>7. SinCura(e) => SinCura(e)'
  BY <1>1, <1>2 DEF SinCura
<1>8. ResultadoVeraz(e)'
  BY <1>1, <1>2, <1>3, <1>7 DEF Local, ResultadoVeraz
<1>9. QED
  BY <1>4, <1>5, <1>6, <1>8 DEF Local

-----------------------------------------------------------------------------
(* Where the pipeline of d can go: the next step of Momento 3, Momento 2, a *)
(* result, or out.                                                          *)

Mueve(d) == TipoPlan' /\ AislaPlan(d)

Empieza(d) ==
    /\ Mueve(d)
    /\ paso'[d] \in {"fraude", "cierre", "tramite"}
    /\ paso'[d] = "cierre" => Cierre(d)
    /\ paso'[d] = "tramite" => ~Cierre(d)
    /\ pc'[d] \in {"subir_pdf", "leer", "put"}
    /\ pc'[d] = "subir_pdf" <=> paso'[d] = "cierre"
    /\ pc'[d] = "put" => arch'[d] = {}
    /\ res'[d] = "nada" /\ ~durable'[d]

Registra(d) ==
    /\ Mueve(d)
    /\ paso'[d] = "m2" /\ pc'[d] = "alta"
    /\ ~sana'[d] => op[d] = "alta"
    /\ res'[d] = "nada" /\ ~durable'[d]

Resuelve(d, r) ==
    /\ Mueve(d)
    /\ paso'[d] = paso[d] /\ (sana'[d] <=> sana[d])
    /\ pc'[d] \in {"limpiar", "responder", "persistir"}
    /\ durable'[d] <=> pc'[d] \in {"limpiar", "responder"}
    /\ res'[d] = r

Abandona(d) ==
    /\ Mueve(d)
    /\ paso'[d] = paso[d] /\ ~durable'[d]
    /\ \/ pc'[d] \in {"nuevo", "reintento"} /\ res'[d] = "nada"
       \/ pc'[d] = "fin" /\ res'[d] = "rechazo"

\* With its result, towards the end.
Concluye(d) ==
    /\ Mueve(d)
    /\ pc[d] \in ConResultado
    /\ paso'[d] = paso[d] /\ (sana'[d] <=> sana[d]) /\ res'[d] = res[d] /\ arch'[d] = arch[d]
    /\ \/ pc'[d] = "limpiar" /\ durable'[d]
       \/ pc'[d] = "fin"

\* Within the step, to its attachments or to its PUT.
Adjunta(d) ==
    /\ Mueve(d)
    /\ paso'[d] = paso[d] /\ (sana'[d] <=> sana[d])
    /\ pc'[d] \in {"leer", "put"}
    /\ res'[d] = "nada" /\ ~durable'[d]

\* A dispatch without a result has nothing durable.
LEMMA SinResultadoAun ==
    ASSUME IInv, NEW d \in Despacho, pc[d] \notin ConResultado
    PROVE  res[d] = "nada" /\ ~durable[d]
BY TipoPorPartes DEF IInv, Local, ResultadoVeraz, TipoDe, ConResultado

\* EmpezarPaso takes the dispatch to the first place of the step it starts.
LEMMA EmpezarHace ==
    ASSUME IInv, NEW d \in Despacho, NEW k \in {"fraude", "cierre", "tramite"},
           pc[d] \notin ConResultado, EmpezarPaso(d, k),
           sana' = sana \/ sana' = [sana EXCEPT ![d] = FALSE],
           k = "cierre" => Cierre(d), k = "tramite" => ~Cierre(d)
    PROVE  Empieza(d)
<1> DEFINE q == IF k = "cierre" THEN "subir_pdf" ELSE IF arch'[d] # {} THEN "leer" ELSE "put"
<1>1. /\ paso' = [paso EXCEPT ![d] = k] /\ durable' = durable /\ res' = res
      /\ pc' = [pc EXCEPT ![d] = q]
  BY DEF EmpezarPaso, Ir
<1>2. TipoPlan
  BY TipoPorPartes DEF IInv
<1>3. q \in Lugar /\ k \in Tramo
  BY DEF Lugar, Tramo
<1>4. TipoPlan'
  BY <1>1, <1>2, <1>3 DEF TipoPlan
<1>5. AislaPlan(d)
  BY <1>1, <1>2 DEF TipoPlan, AislaPlan
<1>6. pc'[d] = q /\ paso'[d] = k /\ res'[d] = res[d] /\ durable'[d] = durable[d]
  BY <1>1, <1>2 DEF TipoPlan
<1>7. QED
  BY <1>4, <1>5, <1>6, SinResultadoAun DEF Empieza, Mueve

\* The steps of Momento 3 start with the fraud report, the closing or the update.
LEMMA PasosM3Hace ==
    ASSUME IInv, NEW d \in Despacho, pc[d] \notin ConResultado, PasosM3(d),
           sana' = sana \/ sana' = [sana EXCEPT ![d] = FALSE]
    PROVE  Empieza(d)
<1>1. CASE Fraude(d)
  BY <1>1, EmpezarHace DEF PasosM3
<1>2. CASE ~Fraude(d) /\ Cierre(d)
  BY <1>2, EmpezarHace DEF PasosM3
<1>3. CASE ~Fraude(d) /\ ~Cierre(d)
  BY <1>3, EmpezarHace DEF PasosM3
<1>4. QED
  BY <1>1, <1>2, <1>3

\* Momento 2 starts with the registration of the complaint, healing or as an alta.
LEMMA Momento2Hace ==
    ASSUME IInv, NEW d \in Despacho, pc[d] \notin ConResultado, Momento2(d),
           \/ sana' = [sana EXCEPT ![d] = TRUE]
           \/ sana' = [sana EXCEPT ![d] = FALSE] /\ op[d] = "alta"
    PROVE  Registra(d)
<1>1. /\ paso' = [paso EXCEPT ![d] = "m2"] /\ durable' = durable /\ res' = res
      /\ pc' = [pc EXCEPT ![d] = "alta"]
  BY DEF Momento2, Ir
<1>2. TipoPlan
  BY TipoPorPartes DEF IInv
<1>3. TipoPlan'
  BY <1>1, <1>2 DEF TipoPlan, Lugar, Tramo
<1>4. AislaPlan(d)
  BY <1>1, <1>2 DEF TipoPlan, AislaPlan
<1>5. /\ pc'[d] = "alta" /\ paso'[d] = "m2" /\ res'[d] = res[d] /\ durable'[d] = durable[d]
      /\ sana'[d] \/ op[d] = "alta"
  BY <1>1, <1>2 DEF TipoPlan
<1>6. QED
  BY <1>3, <1>4, <1>5, SinResultadoAun DEF Registra, Mueve

\* A dispatch that has its result goes on to record it and to answer.
LEMMA ResultadoHace ==
    ASSUME IInv, NEW d \in Despacho, NEW r \in {"success", "noop"}, Resultado(d, r), sana' = sana
    PROVE  Resuelve(d, r)
<1> DEFINE q == IF Cierre(d) /\ r = "success" /\ LimpiaEnExito(d) THEN "limpiar"
                ELSE IF via[d] = "sincrono" THEN "responder" ELSE "persistir"
<1>1. /\ res' = [res EXCEPT ![d] = r] /\ paso' = paso
      /\ durable' = [durable EXCEPT ![d] = via[d] = "sincrono"]
      /\ pc' = [pc EXCEPT ![d] = q]
  BY DEF Resultado, Ir
<1>2. TipoPlan
  BY TipoPorPartes DEF IInv
<1>3. /\ q \in {"limpiar", "responder", "persistir"}
      /\ (via[d] = "sincrono") <=> q \in {"limpiar", "responder"}
  BY DEF LimpiaEnExito
<1>4. TipoPlan'
  <2>1. q \in Lugar /\ r \in Dicta /\ (via[d] = "sincrono") \in BOOLEAN
    BY <1>3 DEF Lugar, Dicta
  <2>2. QED
    BY <1>1, <1>2, <2>1 DEF TipoPlan
<1>5. AislaPlan(d)
  BY <1>1, <1>2 DEF TipoPlan, AislaPlan
<1>6. pc'[d] = q /\ paso'[d] = paso[d] /\ res'[d] = r /\ (durable'[d] <=> via[d] = "sincrono")
  BY <1>1, <1>2 DEF TipoPlan
<1>7. QED
  BY <1>3, <1>4, <1>5, <1>6 DEF Resuelve, Mueve

\* An exception: tolerated because the complaint is closed, cured, or raised.
LEMMA ExcepcionaHace ==
    ASSUME IInv, NEW d \in Despacho, NEW e \in Excepcion, pc[d] \notin ConResultado,
           Excepciona(d, e)
    PROVE  \/ Empieza(d)
           \/ e = "cerrada" /\ paso[d] = "cierre" /\ Resuelve(d, "success")
           \/ e = "cerrada" /\ paso[d] = "tramite" /\ Resuelve(d, "noop")
           \/ Registra(d)
           \/ /\ Abandona(d) /\ (sana'[d] <=> sana[d])
              /\ pc'[d] = "fin" => ~Transitoria(e)
              /\ pc'[d] = "fin" => e = "cerrada" \/ ~NoEncontrado(e) \/ sana'[d]
<1>1. YaCerrado(e) <=> e = "cerrada"
  BY SoloCerrada
<1>2. CASE YaCerrado(e) /\ paso[d] = "fraude" /\ Cierre(d)
  <2>1. EmpezarPaso(d, "cierre") /\ sana' = sana
    BY <1>2 DEF Excepciona
  <2>2. QED
    BY <1>2, <2>1, EmpezarHace
<1>3. CASE YaCerrado(e) /\ paso[d] = "cierre"
  <2>1. Resultado(d, "success") /\ sana' = sana
    BY <1>3 DEF Excepciona, ResultadoPorCierre
  <2>2. QED
    BY <1>1, <1>3, <2>1, ResultadoHace
<1>4. CASE YaCerrado(e) /\ paso[d] = "tramite"
  <2>1. Resultado(d, "noop") /\ sana' = sana
    BY <1>4 DEF Excepciona, ResultadoPorCierre
  <2>2. QED
    BY <1>1, <1>4, <2>1, ResultadoHace
<1>5. CASE ~YaCerrado(e) /\ NoEncontrado(e) /\ PuedeSanar(d)
  <2>1. Momento2(d) /\ sana' = [sana EXCEPT ![d] = TRUE]
    BY <1>5 DEF Excepciona
  <2>2. QED
    BY <2>1, Momento2Hace
<1>6. CASE /\ ~(YaCerrado(e) /\ paso[d] = "fraude" /\ Cierre(d))
           /\ ~(YaCerrado(e) /\ paso[d] = "cierre")
           /\ ~(YaCerrado(e) /\ paso[d] = "tramite")
           /\ ~(~YaCerrado(e) /\ NoEncontrado(e) /\ PuedeSanar(d))
  <2>1. /\ pc' = [pc EXCEPT ![d] = IF Transitoria(e) THEN "reintento" ELSE "fin"]
        /\ res' = [res EXCEPT ![d] = IF Transitoria(e) THEN "nada" ELSE "rechazo"]
        /\ paso' = paso /\ sana' = sana /\ durable' = durable
    BY <1>6 DEF Excepciona, Ir
  <2>2. TipoPlan
    BY TipoPorPartes DEF IInv
  <2>3. Mueve(d)
    <3>1. TipoPlan'
      BY <2>1, <2>2 DEF TipoPlan, Lugar, Reposo, Dicta
    <3>2. AislaPlan(d)
      BY <2>1, <2>2 DEF TipoPlan, AislaPlan
    <3>3. QED
      BY <3>1, <3>2 DEF Mueve
  <2>4. /\ pc'[d] = IF Transitoria(e) THEN "reintento" ELSE "fin"
        /\ res'[d] = IF Transitoria(e) THEN "nada" ELSE "rechazo"
        /\ paso'[d] = paso[d] /\ (sana'[d] <=> sana[d]) /\ ~durable'[d]
    BY <2>1, <2>2, SinResultadoAun DEF TipoPlan
  <2>5. QED
    BY <1>1, <1>6, <2>3, <2>4 DEF Abandona, PuedeSanar
<1>7. QED
  BY <1>2, <1>3, <1>4, <1>5, <1>6

\* A step that ends leads to the next one of the plan, or to the success of the last.
LEMMA TerminaHace ==
    ASSUME IInv, NEW d \in Despacho, pc[d] \notin ConResultado, TerminaPaso(d)
    PROVE  \/ Empieza(d)
           \/ /\ Resuelve(d, "success")
              /\ ~(paso[d] = "m2" /\ sana[d]) /\ ~(paso[d] = "fraude" /\ Cierre(d))
<1>0. sana' = sana
  BY DEF TerminaPaso
<1>1. CASE paso[d] = "m2" /\ sana[d]
  <2>1. PasosM3(d)
    BY <1>1 DEF TerminaPaso
  <2>2. QED
    BY <1>0, <2>1, PasosM3Hace
<1>2. CASE paso[d] = "fraude" /\ Cierre(d)
  <2>1. EmpezarPaso(d, "cierre")
    BY <1>2 DEF TerminaPaso
  <2>2. QED
    BY <1>0, <1>2, <2>1, EmpezarHace
<1>3. CASE ~(paso[d] = "m2" /\ sana[d]) /\ ~(paso[d] = "fraude" /\ Cierre(d))
  <2>1. Resultado(d, "success")
    BY <1>3 DEF TerminaPaso
  <2>2. QED
    BY <1>0, <1>3, <2>1, ResultadoHace
<1>4. QED
  BY <1>1, <1>2, <1>3

-----------------------------------------------------------------------------
(* After any of those moves, what is said of the dispatch is true.          *)

\* Without a batch there is nothing to say about its files.
LEMMA SinLoteVeraz ==
    ASSUME NEW d \in Despacho, ent'[d] = SinLote, pc'[d] \notin {"lote_pdf", "lote"}
    PROVE  LoteVeraz(d)'
BY DEF LoteVeraz, EntVeraz, SinLote, Identidad

\* A dispatch that starts a step satisfies its part of the invariant.
LEMMA EmpiezaLocal ==
    ASSUME IInv, Crece, NEW d \in Despacho, Empieza(d), ent'[d] = SinLote
    PROVE  Local(d)' /\ TipoDe(d)'
<1>1. (Cierre(d)' <=> Cierre(d))
  BY SfcCrece
<1>2. PasoCoherente(d)'
  BY <1>1 DEF Empieza, PasoCoherente
<1>3. LoteVeraz(d)'
  BY SinLoteVeraz DEF Empieza
<1>4. Entregado(d)'
  BY DEF Empieza, Entregado
<1>5. ResultadoVeraz(d)'
  BY DEF Empieza, ResultadoVeraz
<1>6. TipoDe(d)'
  BY DEF Empieza, TipoDe, ConResultado, SinLote, Identidad
<1>7. QED
  BY <1>2, <1>3, <1>4, <1>5, <1>6 DEF Local

\* So does one that goes to register the complaint,
LEMMA RegistraLocal ==
    ASSUME IInv, Crece, NEW d \in Despacho, Registra(d), ent'[d] = SinLote
    PROVE  Local(d)' /\ TipoDe(d)'
<1>1. op'[d] = op[d]
  BY DEF Crece
<1>2. PasoCoherente(d)'
  BY <1>1 DEF Registra, PasoCoherente
<1>3. LoteVeraz(d)'
  BY SinLoteVeraz DEF Registra
<1>4. Entregado(d)'
  BY DEF Registra, Entregado
<1>5. ResultadoVeraz(d)'
  BY DEF Registra, ResultadoVeraz
<1>6. TipoDe(d)'
  BY DEF Registra, TipoDe, ConResultado, SinLote, Identidad
<1>7. QED
  BY <1>2, <1>3, <1>4, <1>5, <1>6 DEF Local

\* one that ends with a result backed by what the SFC holds,
LEMMA ResuelveLocal ==
    ASSUME IInv, Crece, NEW d \in Despacho, NEW r \in {"success", "noop"}, Resuelve(d, r),
           ent'[d] = SinLote,
           r = "success" => /\ op[d] = "alta" => Colision \/ estado' # "ausente"
                            /\ op[d] \in {"tramite", "fraude"} => d \in aplicadas'
                            /\ Cierre(d) => estado' = "cerrada"
                            /\ ~Cierre(d) => \A x \in arch'[d] : EnSfc(x)',
           r = "noop" => ~Cierre(d) /\ estado' = "cerrada"
    PROVE  Local(d)' /\ TipoDe(d)'
<1>1. op'[d] = op[d] /\ (Cierre(d)' <=> Cierre(d))
  BY SfcCrece DEF Crece
<1>2. PasoCoherente(d)'
  BY <1>1 DEF Resuelve, PasoCoherente, IInv, Local
<1>3. LoteVeraz(d)'
  BY SinLoteVeraz DEF Resuelve
<1>4. Entregado(d)'
  BY DEF Resuelve, Entregado
<1>5. ResultadoVeraz(d)'
  BY <1>1 DEF Resuelve, ResultadoVeraz
<1>6. TipoDe(d)'
  BY DEF Resuelve, TipoDe, ConResultado, SinLote, Identidad
<1>7. QED
  BY <1>2, <1>3, <1>4, <1>5, <1>6 DEF Local

\* one that is put off or rejected, if a missing complaint was healed or has no cure,
LEMMA AbandonaLocal ==
    ASSUME IInv, Crece, NEW d \in Despacho, Abandona(d), ent'[d] = SinLote,
           pc'[d] = "fin" /\ op[d] # "alta" /\ estado' = "ausente" => SinCura(d)' \/ sana'[d]
    PROVE  Local(d)' /\ TipoDe(d)'
<1>1. op'[d] = op[d] /\ (Cierre(d)' <=> Cierre(d))
  BY SfcCrece DEF Crece
<1>2. PasoCoherente(d)'
  BY <1>1 DEF Abandona, PasoCoherente, IInv, Local
<1>3. LoteVeraz(d)'
  BY SinLoteVeraz DEF Abandona
<1>4. Entregado(d)'
  BY DEF Abandona, Entregado
<1>5. ResultadoVeraz(d)'
  BY <1>1 DEF Abandona, ResultadoVeraz
<1>6. TipoDe(d)'
  BY DEF Abandona, TipoDe, ConResultado, SinLote, Identidad
<1>7. QED
  BY <1>2, <1>3, <1>4, <1>5, <1>6 DEF Local

\* and one that already had its result and goes towards its end.
LEMMA ConcluyeLocal ==
    ASSUME IInv, Crece, NEW d \in Despacho, Concluye(d), ent'[d] = SinLote
    PROVE  Local(d)' /\ TipoDe(d)'
<1>1. /\ op'[d] = op[d] /\ (Cierre(d)' <=> Cierre(d)) /\ (Fraude(d)' <=> Fraude(d))
      /\ \A x : EnSfc(x) => EnSfc(x)'
      /\ estado # "ausente" => estado' # "ausente"
      /\ estado = "cerrada" => estado' = "cerrada"
      /\ d \in aplicadas => d \in aplicadas'
  BY SfcCrece DEF Crece
<1>2. PasoCoherente(d)'
  BY <1>1 DEF Concluye, PasoCoherente, IInv, Local
<1>3. LoteVeraz(d)'
  BY SinLoteVeraz DEF Concluye
<1>4. Entregado(d)'
  BY DEF Concluye, Entregado
<1>5. SinCura(d) => SinCura(d)'
  BY <1>1 DEF SinCura, Concluye
<1>6. ResultadoVeraz(d)'
  BY <1>1, <1>5 DEF Concluye, ResultadoVeraz, IInv, Local
<1>7. TipoDe(d)'
  BY TipoPorPartes DEF Concluye, TipoDe, ConResultado, SinLote, Identidad, IInv
<1>8. QED
  BY <1>2, <1>3, <1>4, <1>6, <1>7 DEF Local

-----------------------------------------------------------------------------
(* From one dispatch to the whole.                                          *)

\* A step of one dispatch keeps the part of every other: the SFC only grows.
LEMMA TodosPaso ==
    ASSUME IInv, Crece, NEW d \in Despacho, Mueve(d), AislaLote(d), TipoLote', TipoComun',
           Local(d)', TipoDe(d)'
    PROVE  TypeOKO' /\ \A e \in Despacho : Local(e)'
<1>1. \A e \in Despacho : Local(e)'
  BY LocalAjeno DEF Mueve
<1>2. \A e \in Despacho : TipoDe(e)'
  <2> SUFFICES ASSUME NEW e \in Despacho, e # d PROVE TipoDe(e)'
    OBVIOUS
  <2>1. TipoDe(e)
    BY TipoPorPartes DEF IInv
  <2>2. pc'[e] = pc[e] /\ res'[e] = res[e] /\ ent'[e] = ent[e]
    BY DEF Mueve, AislaPlan, AislaLote
  <2>3. QED
    BY <2>1, <2>2 DEF TipoDe, SinLote, Identidad
<1>3. TypeOKO'
  <2>1. TipoPlan' /\ TipoLote' /\ TipoComun' /\ \A e \in Despacho : TipoDe(e)'
    BY <1>2 DEF Mueve
  <2>2. QED
    BY <2>1 DEF TypeOKO, TipoPlan, TipoLote, TipoComun, TipoDe, Lugar, Tramo, Dicta, Entrega,
                ConResultado
<1>4. QED
  BY <1>1, <1>3

\* The shared invariants, when no document is added and no mark is forgotten
\* in silence.
LEMMA ComunPaso ==
    ASSUME IInv, NEW d \in Despacho, AislaPlan(d), AislaLote(d), docs' = docs,
           recibidas' = recibidas,
           chk' \subseteq chk, chk \subseteq chk' \cup perdidas', perdidas \subseteq perdidas',
           solape => solape',
           \A x \in Identidad : ent[d][x] = "enviado" =>
                                    ent'[d][x] = "enviado" \/ x \in perdidas',
           \A x \in Identidad : ent'[d][x] = "por_enviar" => ent[d][x] = "por_enviar",
           pc'[d] \notin Reposo => EnCurso(d) \/ Libre(d) \/ solape'
    PROVE  CheckpointVeraz' /\ UnoEnCurso' /\ Marcado' /\ SinReenvio'
<1>0. \A x : EnSfc(x)' <=> EnSfc(x)
  BY DEF EnSfc
<1>1. CheckpointVeraz'
  BY <1>0 DEF CheckpointVeraz, IInv
<1>2. UnoEnCurso'
  BY DEF UnoEnCurso, EnCurso, Libre, AislaPlan, IInv
<1>3. Marcado'
  <2> SUFFICES ASSUME ~solape', NEW x \in Identidad, x \in recibidas'
               PROVE  x \in chk' \cup perdidas' \/ \E e \in Despacho : ent'[e][x] = "enviado"
    BY DEF Marcado, Identidad
  <2>1. CASE x \in chk \cup perdidas
    BY <2>1
  <2>2. CASE \E e \in Despacho : ent[e][x] = "enviado"
    BY <2>2 DEF AislaLote
  <2>3. QED
    BY <1>0, <2>1, <2>2 DEF Marcado, IInv
<1>4. SinReenvio'
  <2> SUFFICES ASSUME NEW e \in Despacho, NEW x \in Identidad, ent'[e][x] = "por_enviar",
                      x \in recibidas'
               PROVE  x \in perdidas' \/ solape'
    BY DEF SinReenvio, Identidad
  <2>1. ent[e][x] = "por_enviar"
    BY DEF AislaLote
  <2>2. QED
    BY <1>0, <2>1 DEF SinReenvio, IInv
<1>5. QED
  BY <1>1, <1>2, <1>3, <1>4

\* Both together: a step of d that sends and marks nothing.
LEMMA PasoQuieto ==
    ASSUME IInv, Crece, NEW d \in Despacho, Mueve(d), AislaLote(d), TipoLote', TipoComun',
           Local(d)', TipoDe(d)', docs' = docs, recibidas' = recibidas, ent'[d] = SinLote,
           chk' \subseteq chk, chk \subseteq chk' \cup perdidas', perdidas \subseteq perdidas',
           solape => solape',
           \A x \in Identidad : ent[d][x] = "enviado" => x \in perdidas',
           pc'[d] \notin Reposo => EnCurso(d) \/ Libre(d) \/ solape'
    PROVE  IInv' /\ AislaPlan(d)
<1>1. TypeOKO' /\ \A e \in Despacho : Local(e)'
  BY TodosPaso
<1>2. \A x \in Identidad : ent'[d][x] = "fuera"
  BY DEF SinLote
<1>3. CheckpointVeraz' /\ UnoEnCurso' /\ Marcado' /\ SinReenvio'
  BY <1>2, ComunPaso DEF Mueve
<1>4. QED
  BY <1>1, <1>3 DEF IInv, Mueve

\* Out of a batch nothing is being sent.
LEMMA FueraDeLote ==
    ASSUME IInv, NEW d \in Despacho, pc[d] \notin {"lote_pdf", "lote"}
    PROVE  ent[d] = SinLote /\ \A x \in Identidad : ent[d][x] = "fuera"
BY TipoPorPartes DEF IInv, TipoDe, SinLote

\* The parts of the typing, out of the invariant.
LEMMA TiposDe == IInv => TipoPlan /\ TipoLote /\ TipoComun
BY TipoPorPartes DEF IInv

\* The count of failures stays within its bound.
LEMMA FallosPaso ==
    ASSUME IInv, Falla \/ Bien
    PROVE  fallos' \in 0..MaxFallos
<1>1. MaxFallos \in Nat /\ fallos \in 0..MaxFallos
  BY OrquestadorAssumption, TiposDe DEF TipoComun
<1>2. QED
  BY <1>1 DEF Falla, Bien

-----------------------------------------------------------------------------
(* One lemma per action.                                                    *)

\* A dispatch that finds the case busy goes to the queue, and the invariant holds.
LEMMA EncolarPaso ==
    ASSUME IInv, NEW d \in Despacho, Encolar(d)
    PROVE  IInv' /\ AislaPlan(d)
<1> USE TiposDe
<1>1. /\ pc[d] \in Reposo \ {"fin"} /\ pc' = [pc EXCEPT ![d] = "nuevo"]
      /\ paso' = paso /\ sana' = sana /\ arch' = arch /\ ent' = ent /\ durable' = durable
      /\ res' = res /\ docs' = docs /\ recibidas' = recibidas
      /\ aplicadas' = aplicadas /\ estado' = estado /\ s3' = s3
      /\ chk' = chk /\ op' = op /\ perdidas' = perdidas /\ solape' = solape
  BY DEF Encolar, Ir, sfcVars, histVars, Reposo, TipoPlan
<1>2. Crece /\ AislaLote(d) /\ ent'[d] = SinLote
  BY <1>1, FueraDeLote DEF Crece, AislaLote, Reposo
<1>3. Mueve(d) /\ pc'[d] = "nuevo"
  BY <1>1 DEF Mueve, TipoPlan, AislaPlan, Lugar, Reposo
<1>4. Abandona(d)
  BY <1>1, <1>3, SinResultadoAun DEF Abandona, ConResultado, Reposo
<1>5. Local(d)' /\ TipoDe(d)'
  BY <1>2, <1>3, <1>4, AbandonaLocal
<1>6. TipoLote'
  BY <1>1 DEF Encolar, TipoLote
<1>7. fallos' \in 0..MaxFallos
  BY FallosPaso DEF Encolar, Bien
<1>8. TipoComun'
  BY <1>1, <1>7 DEF TipoComun
<1>9. QED
  BY <1>1, <1>2, <1>3, <1>5, <1>6, <1>8, PasoQuieto, FueraDeLote DEF Reposo

\* So it does after a listing of S3 that fails: the dispatch waits for a retry.
LEMMA ListarFallaPaso ==
    ASSUME IInv, NEW d \in Despacho, ListarFalla(d)
    PROVE  IInv' /\ AislaPlan(d)
<1> USE TiposDe
<1>1. /\ pc[d] \in Reposo \ {"fin"} /\ pc' = [pc EXCEPT ![d] = "reintento"]
      /\ paso' = paso /\ sana' = sana /\ arch' = arch /\ ent' = ent /\ durable' = durable
      /\ res' = res /\ docs' = docs /\ recibidas' = recibidas
      /\ aplicadas' = aplicadas /\ estado' = estado /\ s3' = s3
      /\ chk' = chk /\ op' = op /\ perdidas' = perdidas /\ solape' = solape
  BY DEF ListarFalla, Ir, sfcVars, histVars, Reposo, TipoPlan
<1>2. Crece /\ AislaLote(d) /\ ent'[d] = SinLote
  BY <1>1, FueraDeLote DEF Crece, AislaLote, Reposo
<1>3. Mueve(d) /\ pc'[d] = "reintento"
  BY <1>1 DEF Mueve, TipoPlan, AislaPlan, Lugar, Reposo
<1>4. Abandona(d)
  BY <1>1, <1>3, SinResultadoAun DEF Abandona, ConResultado, Reposo
<1>5. Local(d)' /\ TipoDe(d)'
  BY <1>2, <1>3, <1>4, AbandonaLocal
<1>6. TipoLote'
  BY <1>1 DEF ListarFalla, TipoLote
<1>7. fallos' \in 0..MaxFallos
  BY FallosPaso DEF ListarFalla, Bien
<1>8. TipoComun'
  BY <1>1, <1>7 DEF TipoComun
<1>9. QED
  BY <1>1, <1>2, <1>3, <1>5, <1>6, <1>8, PasoQuieto, FueraDeLote DEF Reposo

\* And when a worker runs the whole dispatch again.
LEMMA ReintentarPaso ==
    ASSUME IInv, NEW d \in Despacho, Reintentar(d)
    PROVE  IInv' /\ AislaPlan(d)
<1> USE TiposDe
<1>1. /\ pc[d] \in Reposo \ {"fin"} /\ pc' = [pc EXCEPT ![d] = "nuevo"]
      /\ paso' = paso /\ sana' = sana /\ arch' = arch /\ ent' = ent /\ durable' = durable
      /\ res' = res /\ docs' = docs /\ recibidas' = recibidas
      /\ aplicadas' = aplicadas /\ estado' = estado /\ s3' = s3
      /\ chk' = chk /\ op' = op /\ perdidas' = perdidas /\ solape' = solape
  BY DEF Reintentar, Ir, sfcVars, histVars, Reposo, TipoPlan
<1>2. Crece /\ AislaLote(d) /\ ent'[d] = SinLote
  BY <1>1, FueraDeLote DEF Crece, AislaLote, Reposo
<1>3. Mueve(d) /\ pc'[d] = "nuevo"
  BY <1>1 DEF Mueve, TipoPlan, AislaPlan, Lugar, Reposo
<1>4. Abandona(d)
  BY <1>1, <1>3, SinResultadoAun DEF Abandona, ConResultado, Reposo
<1>5. Local(d)' /\ TipoDe(d)'
  BY <1>2, <1>3, <1>4, AbandonaLocal
<1>6. TipoLote'
  BY <1>1 DEF Reintentar, TipoLote
<1>7. fallos' \in 0..MaxFallos
  BY FallosPaso DEF Reintentar, Bien
<1>8. TipoComun'
  BY <1>1, <1>7 DEF TipoComun
<1>9. QED
  BY <1>1, <1>2, <1>3, <1>5, <1>6, <1>8, PasoQuieto, FueraDeLote DEF Reposo

\* A dispatch that goes on to its attachments, or to its PUT with all of them delivered.
LEMMA AdjuntaLocal ==
    ASSUME IInv, Crece, NEW d \in Despacho, Adjunta(d), ent'[d] = SinLote,
           paso[d] = "m2" => /\ pc'[d] = "leer" /\ ~sana[d] /\ op[d] = "alta"
                             /\ Colision \/ estado' # "ausente",
           paso[d] = "cierre" => Final \in docs',
           pc'[d] = "put" => \A x \in arch'[d] : EnSfc(x)'
    PROVE  Local(d)' /\ TipoDe(d)'
<1>1. op'[d] = op[d] /\ (Cierre(d)' <=> Cierre(d))
  BY SfcCrece DEF Crece
<1>2. PasoCoherente(d)'
  BY <1>1 DEF Adjunta, PasoCoherente, IInv, Local
<1>3. LoteVeraz(d)'
  BY SinLoteVeraz DEF Adjunta
<1>4. Entregado(d)'
  BY DEF Adjunta, Entregado
<1>5. ResultadoVeraz(d)'
  BY DEF Adjunta, ResultadoVeraz
<1>6. TipoDe(d)'
  BY DEF Adjunta, TipoDe, ConResultado, SinLote, Identidad
<1>7. QED
  BY <1>2, <1>3, <1>4, <1>5, <1>6 DEF Local

\* The choice of the plan starts a step that the operation justifies.
LEMMA ProcesarPaso ==
    ASSUME IInv, NEW d \in Despacho, Procesar(d)
    PROVE  IInv' /\ AislaPlan(d)
<1> USE TiposDe
<1>1. /\ pc[d] = "nuevo" /\ arch' = [arch EXCEPT ![d] = IF d \in Directorio THEN s3 ELSE @]
      /\ ent' = ent /\ via' = via /\ docs' = docs /\ recibidas' = recibidas
      /\ aplicadas' = aplicadas /\ estado' = estado
      /\ s3' = s3 /\ chk' = chk /\ op' = op /\ perdidas' = perdidas
      /\ sana' = [sana EXCEPT ![d] = FALSE]
  BY DEF Procesar, sfcVars
<1>2. /\ Falla \/ Bien
      /\ solape => solape'
      /\ Libre(d) \/ solape'
      /\ solape' \in BOOLEAN
  <2>1. \/ Libre(d) /\ Bien /\ solape' = solape
        \/ Falla /\ solape' = TRUE
    BY DEF Procesar
  <2>2. solape \in BOOLEAN
    BY DEF TipoComun
  <2>3. CASE Libre(d) /\ Bien /\ solape' = solape
    BY <2>2, <2>3
  <2>4. CASE Falla /\ solape' = TRUE
    BY <2>4
  <2>5. QED
    BY <2>1, <2>3, <2>4
<1>3. Crece /\ ent'[d] = SinLote
  BY <1>1, FueraDeLote DEF Crece
<1>4. TipoLote' /\ AislaLote(d)
  BY <1>1 DEF TipoLote, TipoComun, AislaLote
<1>5. TipoComun'
  <2>1. fallos' \in 0..MaxFallos
    BY <1>2, FallosPaso
  <2>2. QED
    BY <1>1, <1>2, <2>1 DEF TipoComun
<1>6. pc[d] \notin ConResultado
  BY <1>1 DEF ConResultado
<1>7. Mueve(d) /\ Local(d)' /\ TipoDe(d)'
  <2>1. CASE Fraude(d) /\ arch'[d] = {} /\ pc' = [pc EXCEPT ![d] = "fin"] /\ paso' = paso
             /\ res' = [res EXCEPT ![d] = "rechazo"] /\ durable' = durable
    <3>1. Mueve(d) /\ pc'[d] = "fin" /\ res'[d] = "rechazo" /\ durable'[d] = durable[d]
      BY <1>1, <2>1 DEF Mueve, TipoPlan, AislaPlan, Lugar, Reposo, Dicta
    <3>2. Abandona(d)
      BY <1>6, <2>1, <3>1, SinResultadoAun DEF Abandona
    <3>3. SinCura(d)'
      BY <1>3, <2>1, SfcCrece DEF SinCura
    <3>4. QED
      BY <1>3, <3>1, <3>2, <3>3, AbandonaLocal
  <2>2. CASE op[d] = "alta" /\ Momento2(d)
    <3>1. Registra(d)
      BY <1>1, <1>6, <2>2, Momento2Hace
    <3>2. QED
      BY <1>3, <3>1, RegistraLocal DEF Registra
  <2>3. CASE PasosM3(d)
    <3>1. Empieza(d)
      BY <1>1, <1>6, <2>3, PasosM3Hace
    <3>2. QED
      BY <1>3, <3>1, EmpiezaLocal DEF Empieza
  <2>4. QED
    BY <2>1, <2>2, <2>3 DEF Procesar, Ir
<1>8. QED
  BY <1>1, <1>2, <1>3, <1>4, <1>5, <1>7, PasoQuieto, FueraDeLote

\* The answer of the POST: created, already there, rejected or down.
LEMMA AltaPaso ==
    ASSUME IInv, NEW d \in Despacho, Alta(d)
    PROVE  IInv' /\ AislaPlan(d)
<1> USE TiposDe
<1> DEFINE dice == IF estado # "ausente" THEN "ya_existe" ELSE IF Colision THEN "colision" ELSE "ok"
           radicada == estado' = IF dice = "ok" THEN "abierta" ELSE estado
           relista == d \in Directorio /\ arch[d] = {} /\ ~sana[d]
<1>1. /\ pc[d] = "alta" /\ ent' = ent /\ via' = via /\ docs' = docs /\ recibidas' = recibidas
      /\ aplicadas' = aplicadas
      /\ s3' = s3 /\ chk' = chk /\ op' = op /\ perdidas' = perdidas /\ solape' = solape
  BY DEF Alta, histVars
<1>2. Falla \/ Bien
  BY DEF Alta
<1>3. estado' = estado \/ (estado = "ausente" /\ estado' = "abierta")
  BY DEF Alta
<1>4. arch' = arch \/ arch' = [arch EXCEPT ![d] = IF relista THEN s3 ELSE @]
  BY DEF Alta
<1>5. Crece /\ ent'[d] = SinLote
  BY <1>1, <1>3, FueraDeLote DEF Crece
<1>6. TipoLote' /\ AislaLote(d)
  BY <1>1, <1>4 DEF TipoLote, TipoComun, AislaLote
<1>7. TipoComun'
  BY <1>1, <1>2, <1>3, FallosPaso DEF TipoComun
<1>8. pc[d] \notin ConResultado /\ paso[d] = "m2" /\ (~sana[d] => op[d] = "alta")
  BY <1>1 DEF ConResultado, IInv, Local, PasoCoherente
<1>9. Mueve(d) /\ Local(d)' /\ TipoDe(d)'
  <2>1. CASE radicada /\ ~sana[d] /\ arch'[d] # {} /\ pc' = [pc EXCEPT ![d] = "leer"]
             /\ paso' = paso /\ sana' = sana /\ durable' = durable /\ res' = res
    <3>1. Mueve(d) /\ pc'[d] = "leer"
      BY <2>1 DEF Mueve, TipoPlan, AislaPlan, Lugar
    <3>2. Adjunta(d)
      BY <1>8, <2>1, <3>1, SinResultadoAun DEF Adjunta
    <3>3. Colision \/ estado' # "ausente"
      BY <2>1
    <3>4. QED
      BY <1>5, <1>8, <2>1, <3>1, <3>2, <3>3, AdjuntaLocal
  <2>2. CASE radicada /\ ~(~sana[d] /\ arch'[d] # {}) /\ TerminaPaso(d)
    <3>1. CASE Empieza(d)
      BY <1>5, <3>1, EmpiezaLocal DEF Empieza
    <3>2. CASE Resuelve(d, "success") /\ ~sana[d]
      <4>1. op[d] = "alta" /\ ~Cierre(d) /\ arch'[d] = {} /\ (Colision \/ estado' # "ausente")
        BY <1>8, <2>2, <3>2 DEF Cierre
      <4>2. QED
        BY <1>5, <3>2, <4>1, ResuelveLocal DEF Resuelve
    <3>3. QED
      BY <1>8, <2>2, <3>1, <3>2, TerminaHace
  <2>3. ASSUME NEW e \in {"regla", "ya_existe", "colision", "caida"}, Excepciona(d, e)
        PROVE  Mueve(d) /\ Local(d)' /\ TipoDe(d)'
    <3>1. e \in Excepcion /\ e # "cerrada"
      BY Excepciones DEF SfcExc
    <3>2. CASE Empieza(d)
      BY <1>5, <3>2, EmpiezaLocal DEF Empieza
    <3>3. CASE Registra(d)
      BY <1>5, <3>3, RegistraLocal DEF Registra
    <3>4. CASE Abandona(d) /\ (sana'[d] <=> sana[d])
      BY <1>5, <1>8, <3>4, AbandonaLocal DEF Abandona
    <3>5. QED
      BY <1>8, <2>3, <3>1, <3>2, <3>3, <3>4, ExcepcionaHace
  <2>4. QED
    BY <2>1, <2>2, <2>3 DEF Alta, Ir
<1>10. QED
  BY <1>1, <1>5, <1>6, <1>7, <1>9, PasoQuieto, FueraDeLote DEF EnCurso, Reposo

\* A document sent for a file is the file at the SFC.
LEMMA AfijoNombra ==
    ASSUME NEW d, NEW x \in Identidad
    PROVE  /\ ConAfijo(d, x) \in Documento
           /\ ConAfijo(d, x) \in docs => EnSfc(x)
           /\ ConAfijo(d, x) \in docs' => EnSfc(x)'
<1>1. Pdf \notin Archivo /\ Copia \notin Archivo /\ Copia # Pdf
  BY OrquestadorAssumption
<1>2. CASE x = Pdf
  <2>1. ConAfijo(d, x) = Final
    BY <1>1, <1>2 DEF ConAfijo, Nombre
  <2>2. QED
    BY <1>2, <2>1 DEF EnSfc, Documento
<1>3. CASE x = Copia
  <2>1. ConAfijo(d, x) \in {Final, <<Pdf, "fraude">>} /\ Nombre(x) = Pdf
    BY <1>1, <1>3 DEF ConAfijo, Nombre
  <2>2. ConAfijo(d, x)[1] = Pdf
    BY <2>1 DEF Final
  <2>3. QED
    BY <1>1, <1>3, <2>1, <2>2 DEF EnSfc, Documento
<1>4. CASE x \in Archivo
  <2>1. ConAfijo(d, x) \in {<<x, "sin">>, <<x, "fraude">>} /\ Nombre(x) = x
    BY <1>1, <1>4 DEF ConAfijo, Nombre
  <2>2. ConAfijo(d, x)[1] = x
    BY <2>1
  <2>3. ConAfijo(d, x) \in Documento
    BY <1>4, <2>1 DEF Documento
  <2>4. QED
    BY <1>1, <1>4, <2>1, <2>2, <2>3 DEF EnSfc
<1>5. QED
  BY <1>2, <1>3, <1>4 DEF Identidad

\* A batch without failures has delivered its files.
LEMMA LoteEntregado ==
    ASSUME IInv, NEW d \in Despacho, Fallidos(d) = {}
    PROVE  /\ pc[d] = "lote_pdf" => Final \in docs
           /\ pc[d] = "lote" => \A x \in arch[d] : EnSfc(x)
<1>1. \A x \in Identidad : ent[d][x] \in {"fuera", "listo"}
  BY DEF Fallidos
<1>2. \A x \in Identidad : EntVeraz(d, x)
  BY DEF IInv, Local, LoteVeraz
<1>3. ASSUME pc[d] = "lote_pdf" PROVE Final \in docs
  <2>1. Pdf \in Identidad
    BY DEF Identidad
  <2>2. ent[d][Pdf] = "listo"
    BY <1>1, <1>2, <1>3, <2>1 DEF EntVeraz
  <2>3. EnSfc(Pdf)
    BY <1>2, <2>1, <2>2 DEF EntVeraz
  <2>4. QED
    BY <2>3 DEF EnSfc
<1>4. ASSUME pc[d] = "lote", NEW x \in arch[d] PROVE EnSfc(x)
  <2>1. x \in Identidad
    BY TiposDe DEF TipoLote, Identidad
  <2>2. ent[d][x] = "listo"
    BY <1>1, <1>2, <1>4, <2>1 DEF EntVeraz
  <2>3. QED
    BY <1>2, <2>1, <2>2 DEF EntVeraz
<1>5. QED
  BY <1>3, <1>4

\* A batch is closed as delivered only if every file of it is in the SFC.
LEMMA CerrarLotePaso ==
    ASSUME IInv, NEW d \in Despacho, CerrarLote(d)
    PROVE  IInv' /\ AislaPlan(d)
<1> USE TiposDe
<1>1. /\ pc[d] \in {"lote_pdf", "lote"} /\ arch' = arch /\ ent' = [ent EXCEPT ![d] = SinLote]
      /\ via' = via /\ docs' = docs /\ recibidas' = recibidas
      /\ aplicadas' = aplicadas /\ estado' = estado /\ s3' = s3
      /\ chk' = chk /\ op' = op /\ fallos' = fallos /\ perdidas' = perdidas /\ solape' = solape
      /\ \A x \in Identidad : ent[d][x] # "enviado" /\ ent[d][x] # "por_enviar"
  BY DEF CerrarLote, sfcVars, histVars
<1>2. Crece /\ ent'[d] = SinLote /\ AislaLote(d)
  BY <1>1 DEF Crece, AislaLote, TipoLote
<1>3. TipoLote'
  <2>1. SinLote \in [Identidad -> Entrega]
    BY DEF SinLote, Entrega
  <2>2. QED
    BY <1>1, <2>1 DEF TipoLote
<1>4. TipoComun'
  BY <1>1 DEF TipoComun
<1>5. pc[d] \notin ConResultado /\ PasoCoherente(d) /\ \A x \in Identidad : EntVeraz(d, x)
  BY <1>1 DEF ConResultado, IInv, Local, LoteVeraz
<1>6. Mueve(d) /\ Local(d)' /\ TipoDe(d)'
  <2>1. ASSUME NEW e \in Fallidos(d), Excepciona(d, e)
        PROVE  Mueve(d) /\ Local(d)' /\ TipoDe(d)'
    <3>1. PICK x \in Identidad : e = ent[d][x] /\ e \notin {"fuera", "listo"}
      BY DEF Fallidos
    <3>2. /\ e \in {"cerrada", "invalido", "caida", "s3_caido", "s3_404", "no_existe_anexo"}
          /\ e = "cerrada" => estado = "cerrada"
          /\ e = "invalido" => x \in Invalidos
          /\ pc[d] = "lote" => x \in arch[d]
          /\ pc[d] = "lote_pdf" => x = Pdf
      BY <1>1, <1>5, <3>1 DEF EntVeraz
    <3>3. e \in Excepcion
      BY <3>2, Excepciones DEF SfcExc, S3Exc
    <3>4. CASE Empieza(d)
      BY <1>2, <3>4, EmpiezaLocal DEF Empieza
    <3>5. CASE e = "cerrada" /\ paso[d] = "cierre" /\ Resuelve(d, "success")
      <4>1. Cierre(d) /\ estado' = "cerrada"
        BY <1>1, <1>5, <3>2, <3>5 DEF PasoCoherente
      <4>2. op[d] \notin {"alta", "tramite", "fraude"}
        BY <4>1 DEF Cierre
      <4>3. QED
        BY <1>2, <3>5, <4>1, <4>2, ResuelveLocal DEF Resuelve
    <3>6. CASE e = "cerrada" /\ paso[d] = "tramite" /\ Resuelve(d, "noop")
      <4>1. ~Cierre(d) /\ estado' = "cerrada"
        BY <1>1, <1>5, <3>2, <3>6 DEF PasoCoherente
      <4>2. QED
        BY <1>2, <3>6, <4>1, ResuelveLocal DEF Resuelve
    <3>7. CASE Registra(d)
      BY <1>2, <3>7, RegistraLocal DEF Registra
    <3>8. CASE /\ Abandona(d) /\ (sana'[d] <=> sana[d])
               /\ pc'[d] = "fin" => ~Transitoria(e)
               /\ pc'[d] = "fin" => e = "cerrada" \/ ~NoEncontrado(e) \/ sana'[d]
      <4>1. pc'[d] = "fin" /\ estado' = "ausente" => e = "invalido" \/ sana'[d]
        BY <1>1, <3>2, <3>8, FallosTransitorios, NoEncontrados
      <4>2. e = "invalido" => x \in arch'[d] \cap Invalidos
        BY <1>1, <3>2, OrquestadorAssumption
      <4>3. pc'[d] = "fin" /\ estado' = "ausente" => SinCura(d)' \/ sana'[d]
        BY <4>1, <4>2 DEF SinCura
      <4>4. QED
        BY <1>2, <3>8, <4>3, AbandonaLocal DEF Abandona
    <3>9. QED
      BY <1>5, <2>1, <3>3, <3>4, <3>5, <3>6, <3>7, <3>8, ExcepcionaHace
  <2>2. ASSUME NEW q \in {"leer", "put"}, Fallidos(d) = {}, pc' = [pc EXCEPT ![d] = q],
               paso' = paso /\ sana' = sana /\ durable' = durable /\ res' = res,
               paso[d] # "m2",
               pc[d] = "lote_pdf" => (q = "put" => arch[d] = {})
        PROVE  Mueve(d) /\ Local(d)' /\ TipoDe(d)'
    <3>1. Mueve(d) /\ pc'[d] = q
      BY <2>2 DEF Mueve, TipoPlan, AislaPlan, Lugar
    <3>2. Adjunta(d)
      BY <1>5, <2>2, <3>1, SinResultadoAun DEF Adjunta
    <3>3. \A x : EnSfc(x) => EnSfc(x)'
      BY <1>2, SfcCrece
    <3>4. q = "put" => \A x \in arch'[d] : EnSfc(x)'
      BY <1>1, <2>2, <3>3, LoteEntregado
    <3>5. paso[d] = "cierre" => Final \in docs'
      BY <1>1, <2>2, LoteEntregado DEF IInv, Local, Entregado
    <3>6. QED
      BY <1>2, <2>2, <3>1, <3>2, <3>4, <3>5, AdjuntaLocal
  <2>3. CASE Fallidos(d) = {} /\ pc[d] = "lote" /\ paso[d] = "m2" /\ TerminaPaso(d)
    <3>1. CASE Empieza(d)
      BY <1>2, <3>1, EmpiezaLocal DEF Empieza
    <3>2. CASE Resuelve(d, "success")
      <4>1. op[d] = "alta" /\ ~Cierre(d) /\ (Colision \/ estado' # "ausente")
        BY <1>1, <1>5, <2>3 DEF PasoCoherente, Cierre
      <4>2. \A x : EnSfc(x) => EnSfc(x)'
        BY <1>2, SfcCrece
      <4>3. \A x \in arch'[d] : EnSfc(x)'
        BY <1>1, <2>3, <4>2, LoteEntregado
      <4>4. QED
        BY <1>2, <3>2, <4>1, <4>3, ResuelveLocal DEF Resuelve
    <3>3. QED
      BY <1>5, <2>3, <3>1, <3>2, TerminaHace
  <2>4. CASE /\ Fallidos(d) = {} /\ pc[d] = "lote_pdf"
             /\ pc' = [pc EXCEPT ![d] = IF arch[d] # {} THEN "leer" ELSE "put"]
             /\ paso' = paso /\ sana' = sana /\ durable' = durable /\ res' = res
    <3>1. paso[d] = "cierre"
      BY <1>5, <2>4 DEF PasoCoherente
    <3>2. CASE arch[d] # {}
      BY <2>2, <2>4, <3>1, <3>2
    <3>3. CASE arch[d] = {}
      BY <2>2, <2>4, <3>1, <3>3
    <3>4. QED
      BY <3>2, <3>3
  <2>5. CASE /\ Fallidos(d) = {} /\ pc[d] = "lote" /\ paso[d] # "m2"
             /\ pc' = [pc EXCEPT ![d] = "put"]
             /\ paso' = paso /\ sana' = sana /\ durable' = durable /\ res' = res
    BY <2>2, <2>5
  <2>6. QED
    BY <2>1, <2>3, <2>4, <2>5 DEF CerrarLote, Ir
<1>7. EnCurso(d)
  BY <1>1 DEF EnCurso, Reposo
<1>8. QED
  BY <1>1, <1>2, <1>3, <1>4, <1>6, <1>7, PasoQuieto

\* The answer of the PUT: applied, closed before, complaint missing (healed once) or down.
LEMMA PutPaso ==
    ASSUME IInv, NEW d \in Despacho, Put(d)
    PROVE  IInv' /\ AislaPlan(d)
<1> USE TiposDe
<1> DEFINE dice == CASE estado = "ausente" -> "no_existe" [] estado = "cerrada" -> "cerrada"
                     [] OTHER -> "ok"
           nada == estado' = estado /\ aplicadas' = aplicadas
           aplica == IF paso[d] = "cierre" THEN estado' = "cerrada" /\ aplicadas' = aplicadas
                     ELSE aplicadas' = aplicadas \cup {d} /\ estado' = estado
<1>1. /\ pc[d] = "put" /\ arch' = arch /\ ent' = ent /\ via' = via /\ docs' = docs /\ s3' = s3
      /\ recibidas' = recibidas
      /\ chk' = chk /\ op' = op /\ perdidas' = perdidas /\ solape' = solape
  BY DEF Put, histVars
<1>2. Falla \/ Bien
  BY DEF Put
<1>3. nada \/ (estado = "abierta" /\ aplica)
  BY DEF Put, TipoComun
<1>4. Crece /\ ent'[d] = SinLote
  BY <1>1, <1>3, FueraDeLote DEF Crece
<1>5. TipoLote' /\ AislaLote(d)
  BY <1>1 DEF TipoLote, AislaLote
<1>6. TipoComun'
  <2>1. fallos' \in 0..MaxFallos
    BY <1>2, FallosPaso
  <2>2. QED
    BY <1>1, <1>3, <2>1 DEF TipoComun
<1>7. /\ pc[d] \notin ConResultado /\ PasoCoherente(d) /\ paso[d] # "m2"
      /\ \A x \in arch[d] : EnSfc(x)
  BY <1>1 DEF ConResultado, IInv, Local, PasoCoherente, Entregado
<1>8. Mueve(d) /\ Local(d)' /\ TipoDe(d)'
  <2>1. ASSUME NEW e \in {"regla", "no_existe", "cerrada", "caida"}, Excepciona(d, e),
               e = "regla" => estado' # "ausente", e = "cerrada" => estado' = "cerrada"
        PROVE  Mueve(d) /\ Local(d)' /\ TipoDe(d)'
    <3>1. e \in Excepcion
      BY Excepciones DEF SfcExc
    <3>2. CASE Empieza(d)
      BY <1>4, <3>2, EmpiezaLocal DEF Empieza
    <3>3. CASE e = "cerrada" /\ paso[d] = "cierre" /\ Resuelve(d, "success")
      <4>1. Cierre(d) /\ estado' = "cerrada"
        BY <1>7, <2>1, <3>3 DEF PasoCoherente
      <4>2. op[d] \notin {"alta", "tramite", "fraude"}
        BY <4>1 DEF Cierre
      <4>3. QED
        BY <1>4, <3>3, <4>1, <4>2, ResuelveLocal DEF Resuelve
    <3>4. CASE e = "cerrada" /\ paso[d] = "tramite" /\ Resuelve(d, "noop")
      <4>1. ~Cierre(d) /\ estado' = "cerrada"
        BY <1>7, <2>1, <3>4 DEF PasoCoherente
      <4>2. QED
        BY <1>4, <3>4, <4>1, ResuelveLocal DEF Resuelve
    <3>5. CASE Registra(d)
      BY <1>4, <3>5, RegistraLocal DEF Registra
    <3>6. CASE /\ Abandona(d) /\ (sana'[d] <=> sana[d])
               /\ pc'[d] = "fin" => ~Transitoria(e)
               /\ pc'[d] = "fin" => e = "cerrada" \/ ~NoEncontrado(e) \/ sana'[d]
      <4>1. pc'[d] = "fin" /\ estado' = "ausente" => sana'[d]
        BY <2>1, <3>6, FallosTransitorios, NoEncontrados
      <4>2. QED
        BY <1>4, <3>6, <4>1, AbandonaLocal DEF Abandona
    <3>7. QED
      BY <1>7, <2>1, <3>1, <3>2, <3>3, <3>4, <3>5, <3>6, ExcepcionaHace
  <2>2. CASE estado = "abierta" /\ aplica /\ TerminaPaso(d)
    <3>1. CASE Empieza(d)
      BY <1>4, <3>1, EmpiezaLocal DEF Empieza
    <3>2. CASE Resuelve(d, "success") /\ ~(paso[d] = "fraude" /\ Cierre(d))
      <4>1. paso[d] = "cierre" => Cierre(d) /\ estado' = "cerrada"
        BY <1>7, <2>2 DEF PasoCoherente
      <4>2. paso[d] # "cierre" => ~Cierre(d) /\ d \in aplicadas' /\ estado' = "abierta"
        BY <1>7, <2>2, <3>2 DEF PasoCoherente, TipoPlan, Tramo
      <4>3. Cierre(d) => op[d] \notin {"alta", "tramite", "fraude"}
        BY DEF Cierre
      <4>4. \A x : EnSfc(x) => EnSfc(x)'
        BY <1>4, SfcCrece
      <4>5. \A x \in arch'[d] : EnSfc(x)'
        BY <1>1, <1>7, <4>4
      <4>6. QED
        BY <1>4, <3>2, <4>1, <4>2, <4>3, <4>5, ResuelveLocal DEF Resuelve
    <3>3. QED
      BY <1>7, <2>2, <3>1, <3>2, TerminaHace
  <2>3. CASE estado = "abierta" /\ nada /\ Excepciona(d, "regla")
    BY <2>1, <2>3
  <2>4. CASE estado = "ausente" /\ nada /\ Excepciona(d, "no_existe")
    BY <2>1, <2>4
  <2>5. CASE estado = "cerrada" /\ nada /\ Excepciona(d, "cerrada")
    BY <2>1, <2>5
  <2>6. CASE Excepciona(d, "caida")
    BY <2>1, <2>6
  <2>7. QED
    BY <2>2, <2>3, <2>4, <2>5, <2>6 DEF Put, TipoComun
<1>9. EnCurso(d)
  BY <1>1 DEF EnCurso, Reposo
<1>10. QED
  BY <1>1, <1>4, <1>5, <1>6, <1>8, <1>9, PasoQuieto, FueraDeLote

\* SFC_DONE is recorded, or the dispatch is run again; what it says was true already.
LEMMA PersistirPaso ==
    ASSUME IInv, NEW d \in Despacho, Persistir(d)
    PROVE  IInv' /\ AislaPlan(d)
<1> USE TiposDe
<1>1. /\ pc[d] = "persistir" /\ paso' = paso /\ sana' = sana /\ arch' = arch /\ ent' = ent
      /\ via' = via /\ docs' = docs /\ recibidas' = recibidas
      /\ aplicadas' = aplicadas /\ estado' = estado /\ s3' = s3
      /\ chk' = chk /\ op' = op /\ perdidas' = perdidas /\ solape' = solape
  BY DEF Persistir, sfcVars, histVars
<1>2. Crece /\ AislaLote(d) /\ ent'[d] = SinLote /\ TipoLote'
  BY <1>1, FueraDeLote DEF Crece, AislaLote, TipoLote
<1>3. TipoComun'
  <2>1. fallos' \in 0..MaxFallos
    BY FallosPaso DEF Persistir
  <2>2. QED
    BY <1>1, <2>1 DEF TipoComun
<1>4. pc[d] \in ConResultado /\ ~durable[d]
  BY <1>1 DEF ConResultado, IInv, Local, ResultadoVeraz
<1>5. Mueve(d) /\ Local(d)' /\ TipoDe(d)'
  <2>1. ASSUME NEW q \in {"limpiar", "fin"}, pc' = [pc EXCEPT ![d] = q], res' = res,
               durable' = [durable EXCEPT ![d] = TRUE]
        PROVE  Mueve(d) /\ Local(d)' /\ TipoDe(d)'
    <3>1. Mueve(d) /\ pc'[d] = q /\ durable'[d]
      BY <1>1, <2>1 DEF Mueve, TipoPlan, AislaPlan, Lugar, Reposo
    <3>2. Concluye(d)
      BY <1>1, <1>4, <2>1, <3>1 DEF Concluye
    <3>3. QED
      BY <1>2, <3>1, <3>2, ConcluyeLocal
  <2>2. CASE /\ pc' = [pc EXCEPT ![d] = "reintento"] /\ res' = [res EXCEPT ![d] = "nada"]
             /\ durable' = durable
    <3>1. Mueve(d) /\ pc'[d] = "reintento" /\ res'[d] = "nada"
      BY <1>1, <2>2 DEF Mueve, TipoPlan, AislaPlan, Lugar, Reposo, Dicta
    <3>2. Abandona(d)
      BY <1>1, <1>4, <2>2, <3>1 DEF Abandona
    <3>3. QED
      BY <1>2, <3>1, <3>2, AbandonaLocal
  <2>3. QED
    BY <2>1, <2>2 DEF Persistir, Ir
<1>6. EnCurso(d)
  BY <1>1 DEF EnCurso, Reposo
<1>7. QED
  BY <1>1, <1>2, <1>3, <1>5, <1>6, PasoQuieto, FueraDeLote

\* The marks are forgotten only once the result is durable.
LEMMA LimpiarPaso ==
    ASSUME IInv, NEW d \in Despacho, Limpiar(d)
    PROVE  IInv' /\ AislaPlan(d)
<1> USE TiposDe
<1>1. pc[d] = "limpiar" /\ durable[d]
  BY DEF Limpiar, IInv, Local, ResultadoVeraz
<1>2. /\ pc' = [pc EXCEPT ![d] = "fin"] /\ paso' = paso /\ sana' = sana /\ arch' = arch /\ ent' = ent
      /\ durable' = durable /\ res' = res
      /\ via' = via /\ docs' = docs /\ recibidas' = recibidas
      /\ aplicadas' = aplicadas /\ estado' = estado /\ s3' = s3
      /\ chk' \subseteq chk /\ op' = op /\ perdidas' = perdidas \cup chk /\ solape' = solape
  BY <1>1 DEF Limpiar, Ir, sfcVars
<1>3. Crece /\ AislaLote(d) /\ ent'[d] = SinLote /\ TipoLote'
  BY <1>1, <1>2, FueraDeLote DEF Crece, AislaLote, TipoLote
<1>4. TipoComun'
  <2>1. fallos' \in 0..MaxFallos
    BY FallosPaso DEF Limpiar
  <2>2. QED
    BY <1>2, <2>1 DEF TipoComun
<1>5. Mueve(d) /\ pc'[d] = "fin"
  BY <1>2 DEF Mueve, TipoPlan, AislaPlan, Lugar, Reposo
<1>6. Concluye(d)
  BY <1>1, <1>2, <1>5 DEF Concluye, ConResultado
<1>7. Local(d)' /\ TipoDe(d)'
  BY <1>3, <1>6, ConcluyeLocal
<1>8. QED
  BY <1>1, <1>2, <1>3, <1>4, <1>5, <1>7, PasoQuieto, FueraDeLote DEF Reposo

\* The answer repeats the result.
LEMMA ResponderPaso ==
    ASSUME IInv, NEW d \in Despacho, Responder(d)
    PROVE  IInv' /\ AislaPlan(d)
<1> USE TiposDe
<1>1. /\ pc[d] = "responder"
      /\ pc' = [pc EXCEPT ![d] = "fin"] /\ paso' = paso /\ sana' = sana /\ arch' = arch /\ ent' = ent
      /\ durable' = durable /\ res' = res /\ fallos' = fallos
      /\ via' = via /\ docs' = docs /\ recibidas' = recibidas
      /\ aplicadas' = aplicadas /\ estado' = estado /\ s3' = s3
      /\ chk' = chk /\ op' = op /\ perdidas' = perdidas /\ solape' = solape
  BY DEF Responder, Ir, sfcVars, histVars
<1>2. Crece /\ AislaLote(d) /\ ent'[d] = SinLote /\ TipoLote' /\ TipoComun'
  BY <1>1, FueraDeLote DEF Crece, AislaLote, TipoLote, TipoComun
<1>3. Mueve(d) /\ pc'[d] = "fin"
  BY <1>1 DEF Mueve, TipoPlan, AislaPlan, Lugar, Reposo
<1>4. Concluye(d)
  BY <1>1, <1>3 DEF Concluye, ConResultado
<1>5. Local(d)' /\ TipoDe(d)'
  BY <1>2, <1>4, ConcluyeLocal
<1>6. QED
  BY <1>1, <1>2, <1>3, <1>5, PasoQuieto, FueraDeLote DEF Reposo

\* A crash puts in doubt what was sent and not marked, and no more.
LEMMA CaidaPaso ==
    ASSUME IInv, NEW d \in Despacho, Caida(d)
    PROVE  IInv' /\ AislaPlan(d)
<1> USE TiposDe
<1> DEFINE enviados == {x \in Identidad : ent[d][x] = "enviado"}
<1>1. /\ EnCurso(d) /\ paso' = paso /\ sana' = sana /\ arch' = arch
      /\ ent' = [ent EXCEPT ![d] = SinLote] /\ durable' = [durable EXCEPT ![d] = FALSE]
      /\ via' = via /\ docs' = docs /\ recibidas' = recibidas
      /\ aplicadas' = aplicadas /\ estado' = estado /\ s3' = s3
      /\ chk' = chk /\ op' = op /\ perdidas' = perdidas \cup enviados /\ solape' = solape
  BY DEF Caida, sfcVars
<1>2. Crece /\ ent'[d] = SinLote /\ AislaLote(d)
  BY <1>1 DEF Crece, AislaLote, TipoLote
<1>3. TipoLote'
  <2>1. SinLote \in [Identidad -> Entrega]
    BY DEF SinLote, Entrega
  <2>2. QED
    BY <1>1, <2>1 DEF TipoLote
<1>4. TipoComun'
  <2>1. fallos' \in 0..MaxFallos
    BY FallosPaso DEF Caida
  <2>2. enviados \subseteq Identidad
    OBVIOUS
  <2> HIDE DEF enviados
  <2>3. QED
    BY <1>1, <2>1, <2>2 DEF TipoComun
<1>5. Mueve(d) /\ Local(d)' /\ TipoDe(d)'
  <2>1. CASE durable[d] /\ pc' = [pc EXCEPT ![d] = "fin"] /\ res' = res
    <3>1. pc[d] \in ConResultado
      BY <2>1 DEF IInv, Local, ResultadoVeraz, ConResultado
    <3>2. Mueve(d) /\ pc'[d] = "fin"
      BY <1>1, <2>1 DEF Mueve, TipoPlan, AislaPlan, Lugar, Reposo
    <3>3. Concluye(d)
      BY <1>1, <2>1, <3>1, <3>2 DEF Concluye
    <3>4. QED
      BY <1>2, <3>2, <3>3, ConcluyeLocal
  <2>2. ASSUME NEW q \in {"nuevo", "reintento"}, pc' = [pc EXCEPT ![d] = q],
               res' = [res EXCEPT ![d] = "nada"]
        PROVE  Mueve(d) /\ Local(d)' /\ TipoDe(d)'
    <3>1. Mueve(d) /\ pc'[d] = q /\ res'[d] = "nada" /\ ~durable'[d]
      BY <1>1, <2>2 DEF Mueve, TipoPlan, AislaPlan, Lugar, Reposo, Dicta
    <3>2. Abandona(d)
      BY <1>1, <3>1 DEF Abandona
    <3>3. QED
      BY <1>2, <3>1, <3>2, AbandonaLocal
  <2>3. QED
    BY <2>1, <2>2 DEF Caida, Ir
<1>6. \A x \in Identidad : ent[d][x] = "enviado" => x \in perdidas'
  BY <1>1
<1>7. QED
  BY <1>1, <1>2, <1>3, <1>4, <1>5, <1>6, PasoQuieto

\* Only the uploads to S3 change, or nothing at all.
LEMMA NadaPasa ==
    ASSUME IInv, s3' \subseteq Archivo \cup {Copia}, sfcVars' = sfcVars,
           chk' = chk, op' = op, dVars' = dVars,
           fallos' = fallos, histVars' = histVars
    PROVE  IInv'
<1>1. /\ estado' = estado /\ docs' = docs /\ recibidas' = recibidas
      /\ aplicadas' = aplicadas /\ pc' = pc /\ paso' = paso
      /\ sana' = sana /\ arch' = arch /\ ent' = ent /\ durable' = durable /\ res' = res
      /\ via' = via /\ perdidas' = perdidas /\ solape' = solape
  BY DEF sfcVars, dVars, histVars
<1>2. TypeOKO'
  BY <1>1 DEF IInv, TypeOKO, SinLote
<1>3. CheckpointVeraz' /\ UnoEnCurso' /\ Marcado' /\ SinReenvio'
  BY <1>1 DEF IInv, CheckpointVeraz, UnoEnCurso, Marcado, SinReenvio, EnSfc, EnCurso
<1>4. ASSUME NEW d \in Despacho PROVE Local(d)'
  <2>1. Local(d)
    BY DEF IInv
  <2>2. PasoCoherente(d)'
    BY <1>1, <2>1 DEF Local, PasoCoherente, Cierre
  <2>3. LoteVeraz(d)'
    BY <1>1, <2>1 DEF Local, LoteVeraz, EntVeraz, EnSfc
  <2>4. Entregado(d)'
    BY <1>1, <2>1 DEF Local, Entregado, EnSfc
  <2>5. ResultadoVeraz(d)'
    BY <1>1, <2>1 DEF Local, ResultadoVeraz, SinCura, Cierre, Fraude, EnSfc
  <2>6. QED
    BY <2>2, <2>3, <2>4, <2>5 DEF Local
<1>5. QED
  BY <1>2, <1>3, <1>4 DEF IInv

\* A file uploaded to S3 by the CRM changes no dispatch.
LEMMA SubirPaso ==
    ASSUME IInv, NEW x \in Archivo, Subir(x)
    PROVE  IInv'
<1>1. s3' \subseteq Archivo \cup {Copia}
  BY TiposDe DEF Subir, TipoComun
<1>2. QED
  BY <1>1, NadaPasa DEF Subir

\* The copy of the PDF goes to S3, or does not: the closing goes on to send it.
LEMMA SubirPdfPaso ==
    ASSUME IInv, NEW d \in Despacho, SubirPdf(d)
    PROVE  IInv' /\ AislaPlan(d)
<1> USE TiposDe
<1>1. /\ pc[d] = "subir_pdf" /\ pc' = [pc EXCEPT ![d] = "leer_pdf"]
      /\ paso' = paso /\ sana' = sana /\ arch' = arch /\ ent' = ent /\ durable' = durable
      /\ res' = res /\ via' = via /\ docs' = docs /\ recibidas' = recibidas
      /\ aplicadas' = aplicadas /\ estado' = estado
      /\ chk' = chk /\ op' = op /\ perdidas' = perdidas /\ solape' = solape
      /\ s3' \subseteq s3 \cup {Copia}
  BY DEF SubirPdf, Ir, sfcVars, histVars
<1>2. Crece /\ AislaLote(d) /\ ent'[d] = SinLote /\ TipoLote'
  BY <1>1, FueraDeLote DEF Crece, AislaLote, TipoLote
<1>3. TipoComun'
  <2>1. fallos' \in 0..MaxFallos
    BY FallosPaso DEF SubirPdf
  <2>2. QED
    BY <1>1, <2>1 DEF TipoComun
<1>4. Mueve(d) /\ pc'[d] = "leer_pdf"
  BY <1>1 DEF Mueve, TipoPlan, AislaPlan, Lugar
<1>5. res[d] = "nada" /\ ~durable[d]
  BY <1>1, SinResultadoAun DEF ConResultado
<1>6. Local(d)' /\ TipoDe(d)'
  <2>1. PasoCoherente(d)'
    BY <1>1, <1>4 DEF PasoCoherente, IInv, Local, Cierre
  <2>2. LoteVeraz(d)'
    BY <1>2, <1>4, SinLoteVeraz
  <2>3. Entregado(d)'
    BY <1>4 DEF Entregado
  <2>4. ResultadoVeraz(d)'
    BY <1>1, <1>4, <1>5 DEF ResultadoVeraz
  <2>5. TipoDe(d)'
    BY <1>1, <1>2, <1>4, <1>5 DEF TipoDe, ConResultado, SinLote, Identidad
  <2>6. QED
    BY <2>1, <2>2, <2>3, <2>4, <2>5 DEF Local
<1>7. EnCurso(d)
  BY <1>1 DEF EnCurso, Reposo
<1>8. QED
  BY <1>1, <1>2, <1>3, <1>4, <1>6, <1>7, PasoQuieto, FueraDeLote

-----------------------------------------------------------------------------
(* The batch: reading the checkpoint, sending, marking.                     *)

\* A file on its way belongs to a dispatch that is in course.
LEMMA EnLote ==
    ASSUME IInv, NEW d \in Despacho, NEW x \in Identidad, ent[d][x] # "fuera"
    PROVE  pc[d] \in {"lote_pdf", "lote"} /\ EnCurso(d)
BY FueraDeLote DEF EnCurso, Reposo

\* A batch starts with the files the checkpoint does not mark: those it marks are in the SFC.
LEMMA LeerCheckpointPaso ==
    ASSUME IInv, NEW d \in Despacho, LeerCheckpoint(d)
    PROVE  IInv' /\ AislaPlan(d)
<1> USE TiposDe
<1> DEFINE q == IF pc[d] = "leer_pdf" THEN "lote_pdf" ELSE "lote"
           lote(ya) == [x \in Identidad |-> IF x \notin LoteDe(d) THEN "fuera"
                                            ELSE IF x \in ya THEN "listo" ELSE "por_enviar"]
<1>1. /\ pc[d] \in {"leer_pdf", "leer"} /\ pc' = [pc EXCEPT ![d] = q]
      /\ paso' = paso /\ sana' = sana /\ arch' = arch /\ durable' = durable /\ res' = res
      /\ via' = via /\ docs' = docs /\ recibidas' = recibidas
      /\ aplicadas' = aplicadas /\ estado' = estado /\ s3' = s3
      /\ chk' = chk /\ op' = op /\ solape' = solape
  BY DEF LeerCheckpoint, Ir, sfcVars
<1>2. PICK ya \in {chk, {}} :
        /\ \/ ya = chk /\ Bien /\ perdidas' = perdidas
           \/ ya = {} /\ Falla /\ perdidas' = perdidas \cup chk
        /\ ent' = [ent EXCEPT ![d] = lote(ya)]
  BY DEF LeerCheckpoint
<1>3. /\ ya \subseteq chk /\ chk \subseteq ya \cup perdidas'
      /\ perdidas \subseteq perdidas' /\ perdidas' \subseteq perdidas \cup chk
  BY <1>2
<1>4. ent'[d] = lote(ya) /\ AislaLote(d) /\ Crece
  BY <1>1, <1>2 DEF TipoLote, AislaLote, Crece
<1>5. TipoLote'
  <2>1. lote(ya) \in [Identidad -> Entrega]
    BY DEF Entrega
  <2> HIDE DEF lote
  <2>2. QED
    BY <1>1, <1>2, <2>1 DEF TipoLote
<1>6. TipoComun'
  <2>1. fallos' \in 0..MaxFallos
    BY <1>2, FallosPaso
  <2>2. QED
    BY <1>1, <1>3, <2>1 DEF TipoComun
<1>7. Mueve(d) /\ pc'[d] = q
  BY <1>1 DEF Mueve, TipoPlan, AislaPlan, Lugar
<1>8. res[d] = "nada" /\ ~durable[d]
  BY <1>1, SinResultadoAun DEF ConResultado
<1>9. \A x : EnSfc(x)' <=> EnSfc(x)
  BY <1>1 DEF EnSfc
<1>10. Local(d)' /\ TipoDe(d)'
  <2>1. PasoCoherente(d)'
    BY <1>1, <1>7 DEF PasoCoherente, IInv, Local, Cierre
  <2>2. LoteVeraz(d)'
    <3> SUFFICES ASSUME NEW x \in Identidad PROVE EntVeraz(d, x)'
      BY DEF LoteVeraz, Identidad
    <3>1. ent'[d][x] = IF x \notin LoteDe(d) THEN "fuera"
                       ELSE IF x \in ya THEN "listo" ELSE "por_enviar"
      BY <1>4
    <3>2. x \in ya => EnSfc(x)'
      BY <1>3, <1>9 DEF CheckpointVeraz, IInv
    <3>3. pc'[d] = "lote" => LoteDe(d) = arch'[d]
      BY <1>1, <1>7 DEF LoteDe
    <3>4. pc'[d] = "lote_pdf" => LoteDe(d) = {Pdf}
      BY <1>1, <1>7 DEF LoteDe
    <3>5. QED
      BY <3>1, <3>2, <3>3, <3>4 DEF EntVeraz
  <2>3. Entregado(d)'
    BY <1>1, <1>7 DEF Entregado, IInv, Local
  <2>4. ResultadoVeraz(d)'
    BY <1>1, <1>7, <1>8 DEF ResultadoVeraz
  <2>5. TipoDe(d)'
    BY <1>1, <1>7, <1>8 DEF TipoDe, ConResultado
  <2>6. QED
    BY <2>1, <2>2, <2>3, <2>4, <2>5 DEF Local
<1>11. TypeOKO' /\ \A e \in Despacho : Local(e)'
  BY <1>4, <1>5, <1>6, <1>7, <1>10, TodosPaso
<1>12. EnCurso(d) /\ \A x \in Identidad : ent[d][x] = "fuera"
  BY <1>1, FueraDeLote DEF EnCurso, Reposo
<1>13. CheckpointVeraz' /\ UnoEnCurso'
  <2>1. CheckpointVeraz'
    BY <1>1, <1>9 DEF CheckpointVeraz, IInv
  <2>2. UnoEnCurso'
    BY <1>1, <1>7, <1>12 DEF UnoEnCurso, EnCurso, Mueve, AislaPlan, IInv
  <2>3. QED
    BY <2>1, <2>2
<1>14. Marcado'
  <2> SUFFICES ASSUME ~solape', NEW x \in Identidad, x \in recibidas'
               PROVE  x \in chk' \cup perdidas' \/ \E e \in Despacho : ent'[e][x] = "enviado"
    BY DEF Marcado, Identidad
  <2>1. x \in chk \cup perdidas \/ \E e \in Despacho : ent[e][x] = "enviado"
    BY <1>1, <1>9 DEF Marcado, IInv
  <2>2. \A e \in Despacho : ent[e][x] = "enviado" => ent'[e][x] = "enviado"
    BY <1>4, <1>12 DEF AislaLote
  <2>3. QED
    BY <1>1, <1>3, <2>1, <2>2
<1>15. SinReenvio'
  <2> SUFFICES ASSUME NEW e \in Despacho, NEW x \in Identidad, ent'[e][x] = "por_enviar",
                      x \in recibidas', ~solape'
               PROVE  x \in perdidas'
    BY DEF SinReenvio, Identidad
  <2>1. CASE e # d
    BY <1>1, <1>3, <1>4, <1>9, <2>1 DEF SinReenvio, IInv, AislaLote
  <2>2. CASE e = d
    <3>1. x \notin ya
      BY <1>4, <2>2
    <3>2. ASSUME NEW f \in Despacho, ent[f][x] = "enviado" PROVE FALSE
      <4>1. EnCurso(f)
        BY <3>2, EnLote
      <4>2. f = d
        BY <1>1, <1>12, <4>1 DEF UnoEnCurso, IInv
      <4>3. QED
        BY <1>12, <3>2, <4>2
    <3>3. x \in chk \cup perdidas
      BY <1>1, <1>9, <3>2 DEF Marcado, IInv
    <3>4. QED
      BY <1>3, <3>1, <3>3
  <2>3. QED
    BY <2>1, <2>2
<1>16. QED
  BY <1>7, <1>11, <1>13, <1>14, <1>15 DEF IInv, Mueve

\* One file of the batch of d goes from one state to another.
Avance(d, x, v) ==
    /\ pc[d] \in {"lote_pdf", "lote"} /\ ent[d][x] # "fuera"
    /\ ent' = [ent EXCEPT ![d][x] = v]
    /\ pc' = pc /\ paso' = paso /\ sana' = sana /\ arch' = arch /\ durable' = durable /\ res' = res
    /\ via' = via /\ aplicadas' = aplicadas /\ estado' = estado /\ s3' = s3 /\ op' = op
    /\ solape' = solape /\ docs \subseteq docs'
    /\ v \in {"enviado", "listo", "cerrada", "invalido", "caida", "s3_caido", "s3_404",
              "no_existe_anexo"}
    /\ v \in {"enviado", "listo"} => EnSfc(x)'
    /\ v = "cerrada" => estado = "cerrada"
    /\ v = "invalido" => x \in Invalidos

\* A file of a batch that moves leaves every dispatch in order but for the marks.
LEMMA AvancePaso ==
    ASSUME IInv, NEW d \in Despacho, NEW x \in Identidad, NEW v, Avance(d, x, v), TipoComun'
    PROVE  /\ TypeOKO' /\ UnoEnCurso' /\ \A e \in Despacho : Local(e)'
           /\ AislaPlan(d)
           /\ ent'[d][x] = v
           /\ \A e \in Despacho, y \in Identidad : e # d \/ y # x => ent'[e][y] = ent[e][y]
<1> USE TiposDe
<1>1. /\ ent'[d] = [ent[d] EXCEPT ![x] = v]
      /\ \A e \in Despacho : e # d => ent'[e] = ent[e]
  BY DEF Avance, TipoLote
<1>2. /\ ent'[d][x] = v
      /\ \A y \in Identidad : y # x => ent'[d][y] = ent[d][y]
  BY <1>1 DEF TipoLote
<1>3. Mueve(d) /\ AislaLote(d) /\ Crece
  BY <1>1 DEF Avance, Mueve, TipoPlan, AislaPlan, AislaLote, Crece
<1>4. TipoLote'
  <2>1. v \in Entrega
    BY Excepciones DEF Avance, Entrega, SfcExc, S3Exc
  <2>2. ent' \in [Despacho -> [Identidad -> Entrega]]
    BY <2>1 DEF Avance, TipoLote
  <2>3. QED
    BY <2>2 DEF Avance, TipoLote
<1>5. Local(d)' /\ TipoDe(d)'
  <2>0. Local(d) /\ TipoDe(d)
    BY TipoPorPartes DEF IInv
  <2>1. PasoCoherente(d)'
    BY <2>0 DEF Avance, Local, PasoCoherente, Cierre
  <2>2. LoteVeraz(d)'
    <3> SUFFICES ASSUME NEW y \in Identidad PROVE EntVeraz(d, y)'
      BY DEF LoteVeraz, Identidad
    <3>1. EntVeraz(d, y)
      BY <2>0 DEF Local, LoteVeraz
    <3>2. EnSfc(y) => EnSfc(y)'
      BY <1>3, SfcCrece
    <3>3. CASE y = x
      BY <1>2, <3>1, <3>3 DEF EntVeraz, Avance
    <3>4. CASE y # x
      <4>1. ent'[d][y] = ent[d][y]
        BY <1>2, <3>4
      <4>2. pc' = pc /\ arch' = arch /\ estado' = estado
        BY DEF Avance
      <4>3. QED
        BY <3>1, <3>2, <4>1, <4>2 DEF EntVeraz
    <3>5. QED
      BY <3>3, <3>4
  <2>3. Entregado(d)'
    BY <2>0 DEF Avance, Local, Entregado
  <2>4. ResultadoVeraz(d)'
    <3>1. pc[d] \notin ConResultado
      BY DEF Avance, ConResultado
    <3>2. res'[d] = "nada" /\ ~durable'[d] /\ pc'[d] # "limpiar"
      BY <3>1, SinResultadoAun DEF Avance
    <3>3. QED
      BY <3>2 DEF ResultadoVeraz
  <2>5. TipoDe(d)'
    BY <2>0 DEF Avance, TipoDe
  <2>6. QED
    BY <2>1, <2>2, <2>3, <2>4, <2>5 DEF Local
<1>6. TypeOKO' /\ \A e \in Despacho : Local(e)'
  BY <1>3, <1>4, <1>5, TodosPaso
<1>7. UnoEnCurso'
  BY DEF Avance, UnoEnCurso, EnCurso, IInv
<1>8. QED
  BY <1>1, <1>2, <1>3, <1>6, <1>7 DEF Mueve

\* The SFC takes a document only while the complaint is open, and its file is
\* then known as sent, unless the answer was lost.
Envio(d, x) ==
    /\ ent[d][x] = "por_enviar" /\ chk' = chk /\ (Falla \/ Bien)
    /\ perdidas' = perdidas \/ perdidas' = perdidas \cup {x}
    /\ docs' = docs \/ (estado = "abierta" /\ docs' = docs \cup {ConAfijo(d, x)})
    /\ recibidas' = recibidas \/ recibidas' = recibidas \cup {x}
    /\ \E v : /\ Avance(d, x, v) /\ v # "listo"
              /\ recibidas' # recibidas => v = "enviado" \/ x \in perdidas'

\* A file that is sent reaches the SFC only while the complaint is open.
LEMMA EnviarHace ==
    ASSUME IInv, NEW d \in Despacho, NEW x \in Identidad, EnviarArchivo(d, x)
    PROVE  Envio(d, x)
<1> USE TiposDe
<1> DEFINE doc == ConAfijo(d, x)
           dice == RespuestaAnexo(doc)
           tomado == dice = "ok" \/ EsDuplicado(dice)
           llega == /\ docs' = IF dice = "ok" THEN docs \cup {doc} ELSE docs
                    /\ recibidas' = IF tomado THEN recibidas \cup {x} ELSE recibidas
<1>1. /\ pc[d] \in {"lote_pdf", "lote"} /\ ent[d][x] = "por_enviar"
      /\ pc' = pc /\ paso' = paso /\ sana' = sana /\ arch' = arch /\ durable' = durable
      /\ res' = res /\ via' = via /\ aplicadas' = aplicadas /\ estado' = estado /\ s3' = s3
      /\ chk' = chk /\ op' = op /\ solape' = solape
  BY DEF EnviarArchivo
<1>2. doc \in docs' => EnSfc(x)'
  BY AfijoNombra
<1>3. /\ dice \in {"ok", "duplicado", "cerrada", "no_existe_anexo"}
      /\ dice = "ok" => estado = "abierta"
      /\ dice = "duplicado" => doc \in docs
      /\ dice = "cerrada" => estado = "cerrada"
  BY DEF RespuestaAnexo, TipoComun
<1> HIDE DEF dice
<1>4. llega => /\ docs' = docs \/ (estado = "abierta" /\ docs' = docs \cup {doc})
               /\ recibidas' = recibidas \/ recibidas' = recibidas \cup {x}
  BY <1>3
<1>5. CASE /\ Bien /\ docs' = docs /\ recibidas' = recibidas /\ perdidas' = perdidas
           /\ \E e \in ErrorDeS3(x) : Pasa(d, x, e)
  <2>1. PICK e \in ErrorDeS3(x) : Pasa(d, x, e)
    BY <1>5
  <2>2. e \in {"invalido", "s3_404"} /\ (e = "invalido" => x \in Invalidos)
    BY <2>1 DEF ErrorDeS3
  <2>3. Avance(d, x, e)
    BY <1>1, <1>5, <2>1, <2>2 DEF Avance, Pasa
  <2>4. QED
    BY <1>1, <1>5, <2>2, <2>3 DEF Envio
<1>6. CASE /\ Bien /\ perdidas' = perdidas /\ llega
           /\ Pasa(d, x, IF tomado THEN "enviado" ELSE dice)
  <2> DEFINE v == IF tomado THEN "enviado" ELSE dice
  <2>1. ~EsDuplicado("cerrada") /\ ~EsDuplicado("no_existe_anexo")
    BY CerradaNoEsDuplicado, AnexoAusenteNoEsDuplicado
  <2>2. /\ v \in {"enviado", "cerrada", "no_existe_anexo", "duplicado"}
        /\ v = "enviado" => dice \in {"ok", "duplicado"}
        /\ v = "cerrada" => estado = "cerrada"
        /\ tomado => v = "enviado"
    BY <1>3, <2>1
  <2>3. v # "duplicado"
    BY <1>3, DuplicadoEsDuplicado
  <2>4. v = "enviado" => EnSfc(x)'
    BY <1>2, <1>3, <1>6, <2>2
  <2>5. ent' = [ent EXCEPT ![d][x] = v]
    BY <1>6 DEF Pasa
  <2>6. docs \subseteq docs' /\ (recibidas' # recibidas => tomado)
    BY <1>6
  <2> HIDE DEF v
  <2>7. Avance(d, x, v)
    BY <1>1, <2>2, <2>3, <2>4, <2>5, <2>6 DEF Avance
  <2>8. QED
    BY <1>1, <1>4, <1>6, <2>2, <2>6, <2>7 DEF Envio
<1>7. ASSUME NEW v \in {"caida", "s3_caido"}, Falla, perdidas' = perdidas \cup {x},
             llega \/ (docs' = docs /\ recibidas' = recibidas), Pasa(d, x, v)
      PROVE  Envio(d, x)
  <2>1. docs \subseteq docs'
    BY <1>7
  <2>2. Avance(d, x, v)
    BY <1>1, <1>7, <2>1 DEF Avance, Pasa
  <2>3. QED
    BY <1>1, <1>4, <1>7, <2>2 DEF Envio
<1>8. QED
  <2>1. CASE Falla /\ perdidas' = perdidas \cup {x} /\ llega /\ Pasa(d, x, "caida")
    BY <1>7, <2>1
  <2>2. CASE /\ Falla /\ perdidas' = perdidas \cup {x} /\ docs' = docs /\ recibidas' = recibidas
             /\ Pasa(d, x, IF x = Pdf THEN "caida" ELSE "s3_caido")
    BY <1>7, <2>2
  <2>3. QED
    BY <1>5, <1>6, <2>1, <2>2 DEF EnviarArchivo, dice

\* Sending a file keeps the invariant: the file will be marked, or its mark is lost.
LEMMA EnviarArchivoPaso ==
    ASSUME IInv, NEW d \in Despacho, NEW x \in Identidad, Envio(d, x)
    PROVE  IInv' /\ AislaPlan(d)
<1> USE TiposDe
<1>1. PICK v : /\ Avance(d, x, v) /\ v # "listo"
               /\ recibidas' # recibidas => v = "enviado" \/ x \in perdidas'
  BY DEF Envio
<1>2. /\ docs \subseteq docs'
      /\ recibidas' = recibidas \/ recibidas' = recibidas \cup {x}
      /\ chk' = chk /\ perdidas \subseteq perdidas' /\ solape' = solape
  BY <1>1 DEF Envio, Avance
<1>3. TipoComun'
  <2>1. fallos' \in 0..MaxFallos
    BY FallosPaso DEF Envio
  <2>2. ConAfijo(d, x) \in Documento
    BY AfijoNombra
  <2>3. docs' \subseteq Documento /\ perdidas' \subseteq Identidad /\ recibidas' \subseteq Identidad
    BY <2>2 DEF Envio, TipoComun
  <2>4. QED
    BY <1>1, <1>2, <2>1, <2>3 DEF TipoComun, Avance
<1>4. /\ TypeOKO' /\ UnoEnCurso' /\ \A e \in Despacho : Local(e)'
      /\ AislaPlan(d)
      /\ ent'[d][x] = v
      /\ \A e \in Despacho, y \in Identidad : e # d \/ y # x => ent'[e][y] = ent[e][y]
  BY <1>1, <1>3, AvancePaso
<1>5. /\ \A y : EnSfc(y) => EnSfc(y)'
      /\ \A y : y \in recibidas' => y \in recibidas \/ (y = x /\ recibidas' # recibidas)
  BY <1>2 DEF EnSfc, Nombre
<1>6. CheckpointVeraz'
  BY <1>2, <1>5 DEF CheckpointVeraz, IInv
<1>7. Marcado'
  <2> SUFFICES ASSUME ~solape', NEW y \in Identidad, y \in recibidas'
               PROVE  y \in chk' \cup perdidas' \/ \E e \in Despacho : ent'[e][y] = "enviado"
    BY DEF Marcado, Identidad
  <2>1. CASE y = x /\ recibidas' # recibidas
    BY <1>1, <1>4, <2>1
  <2>2. CASE y \in recibidas
    <3>1. y \in chk \cup perdidas \/ \E e \in Despacho : ent[e][y] = "enviado"
      BY <1>2, <2>2 DEF Marcado, IInv
    <3>2. \A e \in Despacho : ent[e][y] = "enviado" => ent'[e][y] = "enviado"
      BY <1>4 DEF Envio
    <3>3. QED
      BY <1>2, <3>1, <3>2
  <2>3. QED
    BY <1>5, <2>1, <2>2
<1>8. SinReenvio'
  <2> SUFFICES ASSUME NEW e \in Despacho, NEW y \in Identidad, ent'[e][y] = "por_enviar",
                      y \in recibidas', ~solape'
               PROVE  y \in perdidas'
    BY DEF SinReenvio, Identidad
  <2>1. v # "por_enviar"
    BY <1>1 DEF Avance
  <2>2. ent[e][y] = "por_enviar" /\ (y = x => e # d)
    BY <1>4, <2>1
  <2>3. CASE y \in recibidas
    BY <1>2, <2>2, <2>3 DEF SinReenvio, IInv
  <2>4. CASE y = x
    <3>1. EnCurso(e) /\ EnCurso(d)
      BY <2>2, EnLote DEF Envio
    <3>2. QED
      BY <1>2, <2>2, <2>4, <3>1 DEF UnoEnCurso, IInv
  <2>5. QED
    BY <1>5, <2>3, <2>4
<1>9. QED
  BY <1>4, <1>6, <1>7, <1>8 DEF IInv

\* The mark of a file is written after the SFC has it.
LEMMA MarcarArchivoPaso ==
    ASSUME IInv, NEW d \in Despacho, NEW x \in Identidad, MarcarArchivo(d, x)
    PROVE  IInv' /\ AislaPlan(d)
<1> USE TiposDe
<1>1. /\ ent[d][x] = "enviado" /\ ent' = [ent EXCEPT ![d][x] = "listo"]
      /\ pc' = pc /\ paso' = paso /\ sana' = sana /\ arch' = arch /\ durable' = durable
      /\ res' = res /\ via' = via /\ docs' = docs /\ recibidas' = recibidas
      /\ aplicadas' = aplicadas /\ estado' = estado
      /\ s3' = s3 /\ op' = op /\ solape' = solape
      /\ Falla \/ Bien
      /\ \/ chk' = chk \cup {x} /\ perdidas' = perdidas
         \/ chk' = chk /\ perdidas' = perdidas \cup {x}
  BY DEF MarcarArchivo, Pasa, sfcVars
<1>2. EnSfc(x) /\ \A y : EnSfc(y)' <=> EnSfc(y)
  BY <1>1 DEF EnSfc, IInv, Local, LoteVeraz, EntVeraz
<1>3. Avance(d, x, "listo")
  BY <1>1, <1>2, EnLote DEF Avance
<1>4. TipoComun'
  <2>1. fallos' \in 0..MaxFallos
    BY <1>1, FallosPaso
  <2>2. chk' \subseteq Identidad /\ perdidas' \subseteq Identidad
    BY <1>1 DEF TipoComun
  <2>3. QED
    BY <1>1, <2>1, <2>2 DEF TipoComun
<1>5. /\ TypeOKO' /\ UnoEnCurso' /\ \A e \in Despacho : Local(e)'
      /\ AislaPlan(d)
      /\ ent'[d][x] = "listo"
      /\ \A e \in Despacho, y \in Identidad : e # d \/ y # x => ent'[e][y] = ent[e][y]
  BY <1>3, <1>4, AvancePaso
<1>6. CheckpointVeraz'
  BY <1>1, <1>2 DEF CheckpointVeraz, IInv
<1>7. Marcado'
  <2> SUFFICES ASSUME ~solape', NEW y \in Identidad, y \in recibidas'
               PROVE  y \in chk' \cup perdidas' \/ \E e \in Despacho : ent'[e][y] = "enviado"
    BY DEF Marcado, Identidad
  <2>1. y \in chk \cup perdidas \/ \E e \in Despacho : ent[e][y] = "enviado"
    BY <1>1, <1>2 DEF Marcado, IInv
  <2>2. QED
    BY <1>1, <1>5, <2>1
<1>8. SinReenvio'
  <2> SUFFICES ASSUME NEW e \in Despacho, NEW y \in Identidad, ent'[e][y] = "por_enviar",
                      y \in recibidas', ~solape'
               PROVE  y \in perdidas'
    BY DEF SinReenvio, Identidad
  <2>1. ent[e][y] = "por_enviar"
    BY <1>5
  <2>2. QED
    BY <1>1, <1>2, <2>1 DEF SinReenvio, IInv
<1>9. QED
  BY <1>5, <1>6, <1>7, <1>8 DEF IInv

-----------------------------------------------------------------------------
(* The invariant, and what it gives.                                        *)

\* The inductive invariant holds at the start.
LEMMA InvInicio == Init => IInv
<1> SUFFICES ASSUME Init PROVE IInv
  OBVIOUS
<1>1. TypeOKO
  <2>1. op \in [Despacho -> Operacion]
    BY OrquestadorAssumption DEF Init
  <2>2. arch \in [Despacho -> SUBSET (Archivo \cup {Copia})]
    BY OrquestadorAssumption DEF Init
  <2>3. TipoPlan
    BY DEF Init, TipoPlan, Lugar, Reposo, Tramo, Dicta
  <2>4. TipoLote
    BY <2>2 DEF Init, TipoLote, Entrega
  <2>5. TipoComun
    <3>1. 0 \in 0..MaxFallos
      BY OrquestadorAssumption
    <3>2. QED
      BY <2>1, <3>1 DEF Init, TipoComun
  <2>6. \A d \in Despacho : TipoDe(d)
    BY DEF Init, TipoDe, SinLote, ConResultado
  <2>7. QED
    BY <2>3, <2>4, <2>5, <2>6, TipoPorPartes
<1>2. CheckpointVeraz /\ UnoEnCurso /\ Marcado /\ SinReenvio
  BY DEF Init, CheckpointVeraz, UnoEnCurso, EnCurso, Reposo, Marcado, SinReenvio, EnSfc
<1>3. \A d \in Despacho : Local(d)
  BY DEF Init, Local, PasoCoherente, LoteVeraz, EntVeraz, Entregado, ResultadoVeraz
<1>4. QED
  BY <1>1, <1>2, <1>3 DEF IInv

\* Every step keeps it, one case per action.
LEMMA InvPaso == IInv /\ [Next]_vars => IInv'
<1> SUFFICES ASSUME IInv, [Next]_vars PROVE IInv'
  OBVIOUS
<1>1. CASE UNCHANGED vars
  <2>1. s3' = s3 /\ s3 \subseteq Archivo \cup {Copia}
    BY <1>1, TiposDe DEF vars, TipoComun
  <2>2. QED
    BY <1>1, <2>1, NadaPasa DEF vars
<1>2. ASSUME NEW x \in Archivo, Subir(x) PROVE IInv'
  BY <1>2, SubirPaso
<1>3. ASSUME NEW d \in Despacho, ListarFalla(d) PROVE IInv'
  BY <1>3, ListarFallaPaso
<1>4. ASSUME NEW d \in Despacho, Caida(d) PROVE IInv'
  BY <1>4, CaidaPaso
<1>5. ASSUME NEW d \in Despacho, Avanza(d) PROVE IInv'
  <2>1. CASE Encolar(d)
    BY <2>1, EncolarPaso
  <2>2. CASE Procesar(d)
    BY <2>2, ProcesarPaso
  <2>3. CASE Alta(d)
    BY <2>3, AltaPaso
  <2>4. CASE LeerCheckpoint(d)
    BY <2>4, LeerCheckpointPaso
  <2>5. ASSUME NEW x \in Identidad, EnviarArchivo(d, x) PROVE IInv'
    BY <2>5, EnviarHace, EnviarArchivoPaso
  <2>6. ASSUME NEW x \in Identidad, MarcarArchivo(d, x) PROVE IInv'
    BY <2>6, MarcarArchivoPaso
  <2>7. CASE CerrarLote(d)
    BY <2>7, CerrarLotePaso
  <2>8. CASE Put(d)
    BY <2>8, PutPaso
  <2>9. CASE Persistir(d)
    BY <2>9, PersistirPaso
  <2>10. CASE Limpiar(d)
    BY <2>10, LimpiarPaso
  <2>11. CASE Responder(d)
    BY <2>11, ResponderPaso
  <2>12. CASE Reintentar(d)
    BY <2>12, ReintentarPaso
  <2>13. CASE SubirPdf(d)
    BY <2>13, SubirPdfPaso
  <2>14. QED
    BY <1>5, <2>1, <2>2, <2>3, <2>4, <2>5, <2>6, <2>7, <2>8, <2>9, <2>10, <2>11, <2>12,
       <2>13 DEF Avanza
<1>6. QED
  BY <1>1, <1>2, <1>3, <1>4, <1>5 DEF Next

\* The inductive invariant holds throughout.
THEOREM Invariante == Spec => []IInv
BY InvInicio, InvPaso, PTL DEF Spec

\* Type correctness: there is a result exactly from the end of the pipeline to
\* the next run, and a batch only while it is being sent (procesar_despacho,
\* transferir_lote_s3_a_sfc).
THEOREM Tipado == Spec => []TypeOKO
<1>1. IInv => TypeOKO
  BY DEF IInv
<1>2. QED
  BY <1>1, Invariante, PTL

\* A file the checkpoint confirms is at the SFC, whatever failed or overlapped
\* (marcar_archivo_completado, _manejar_duplicado_o_cerrado).
THEOREM CheckpointFiel == Spec => []CheckpointVeraz
<1>1. IInv => CheckpointVeraz
  BY DEF IInv
<1>2. QED
  BY <1>1, Invariante, PTL

\* A dispatch that is not a closing and answers "success" has delivered every
\* attachment it brought (transferir_lote_s3_a_sfc, procesar_despacho).
THEOREM ExitoEntrega == Spec => []ExitoConAdjuntos
<1>1. IInv => ExitoConAdjuntos
  BY DEF IInv, Local, ResultadoVeraz, ExitoConAdjuntos, Terminado
<1>2. QED
  BY <1>1, Invariante, PTL

\* A file the SFC took is sent again under the same identity of the checkpoint
\* only when its mark was lost or the lease of the lock was
\* (obtener_archivos_completados, marcar_archivo_completado).  The PDF of a
\* closing and its copy in S3 are two identities of one document.
THEOREM EnvioUnico == Spec => []SinReenvio
<1>1. IInv => SinReenvio
  BY DEF IInv
<1>2. QED
  BY <1>1, Invariante, PTL

\* About a complaint the SFC does not have, no dispatch with sound documents is
\* rejected before self-healing has tried (procesar_y_lanzar,
\* es_caso_no_encontrado).
THEOREM SanaAntesDeRechazar == Spec => []AusenteSeSana
<1>1. IInv => AusenteSeSana
  BY DEF IInv, Local, ResultadoVeraz, SinCura, AusenteSeSana, Terminado
<1>2. QED
  BY <1>1, Invariante, PTL

-----------------------------------------------------------------------------
(* Orquestador implements QuejaSfc: a step registers, attaches, updates,    *)
(* closes, answers the CRM, or is silent.                                   *)

\* What the dispatches ask of the SFC does not change.
LEMMA MismoPedido == ASSUME op' = op PROVE Pide' = Pide
BY DEF Pide, Cierre

\* Nothing is said while the dispatch goes on.
LEMMA Callado ==
    ASSUME NEW d \in Despacho, AislaPlan(d), pc[d] # "fin", pc'[d] # "fin"
    PROVE  Dicho' = Dicho
BY DEF Dicho, AislaPlan

\* What is said is true of the SFC: the result is (ResultadoVeraz).
LEMMA Contesta ==
    ASSUME Colision = FALSE, IInv', NEW d \in Despacho, AislaPlan(d), pc[d] # "fin",
           estado' = estado, docs' = docs, aplicadas' = aplicadas, op' = op
    PROVE  [Q!Next]_(Q!abstVars)
<1>0. Pide' = Pide
  BY MismoPedido
<1>1. CASE pc'[d] # "fin"
  BY <1>0, <1>1, Callado DEF Q!abstVars
<1>2. CASE pc'[d] = "fin"
  <2>1. /\ TypeOKO' /\ ResultadoVeraz(d)'
    BY DEF IInv, Local
  <2>2. res'[d] \in {"success", "noop", "rechazo"}
    BY <1>2, <2>1 DEF TypeOKO
  <2>3. Dicho[d] = "nada" /\ Dicho' = [Dicho EXCEPT ![d] = res'[d]]
    BY <1>2 DEF Dicho, AislaPlan
  <2>4. /\ Pide[d] = "alta" => op[d] = "alta"
        /\ Pide[d] = "cambio" => op[d] \in {"tramite", "fraude"}
        /\ Pide[d] = "cierre" <=> Cierre(d)
        /\ Pide[d] \in {"alta", "cambio", "cierre"}
    BY <2>1 DEF Pide, Cierre, TypeOKO, Operacion
  <2>5. Cierre(d)' <=> Cierre(d)
    BY DEF Cierre
  <2>6. /\ res'[d] = "success" /\ Pide[d] = "alta" => estado # "ausente"
        /\ res'[d] = "success" /\ Pide[d] = "cambio" => d \in aplicadas
        /\ res'[d] = "success" /\ Pide[d] = "cierre" => estado = "cerrada"
        /\ res'[d] = "noop" => Pide[d] # "cierre" /\ estado = "cerrada"
    BY <2>1, <2>4, <2>5 DEF ResultadoVeraz
  <2>7. Q!Cierto(d, res'[d])
    BY <2>2, <2>4, <2>6 DEF Q!Cierto
  <2>8. Q!Responder(d, res'[d])
    BY <1>0, <2>3, <2>7 DEF Q!Responder
  <2>9. QED
    BY <2>2, <2>8 DEF Q!Next
<1>3. QED
  BY <1>1, <1>2

\* A call whose answer is lost is retried, and a step that ends well goes on.
LEMMA SigueVivo ==
    ASSUME IInv, NEW d \in Despacho, pc[d] \notin ConResultado,
           TerminaPaso(d) \/ Excepciona(d, "caida")
    PROVE  pc'[d] # "fin"
<1>1. CASE TerminaPaso(d)
  BY <1>1, TerminaHace DEF Empieza, Resuelve
<1>2. CASE Excepciona(d, "caida")
  <2>1. "caida" \in Excepcion /\ Transitoria("caida")
    BY Excepciones, FallosTransitorios DEF SfcExc
  <2>2. QED
    BY <1>2, <2>1, ExcepcionaHace DEF Empieza, Resuelve, Registra
<1>3. QED
  BY <1>1, <1>2

\* The POST is the opening of the abstract complaint, or nothing to it.
LEMMA AltaRefina ==
    ASSUME Colision = FALSE, IInv, NEW d \in Despacho, Alta(d)
    PROVE  [Q!Next]_(Q!abstVars)
<1>1. /\ pc[d] = "alta" /\ docs' = docs /\ recibidas' = recibidas
      /\ aplicadas' = aplicadas /\ op' = op
      /\ IInv' /\ AislaPlan(d)
  BY AltaPaso DEF Alta
<1>2. CASE estado' = estado
  BY <1>1, <1>2, Contesta
<1>3. CASE estado' # estado
  <2>1. estado = "ausente" /\ estado' = "abierta"
    BY <1>3 DEF Alta
  <2>2. pc'[d] # "fin"
    <3>1. \/ pc' = [pc EXCEPT ![d] = "leer"]
          \/ TerminaPaso(d) \/ Excepciona(d, "caida")
      BY <1>3 DEF Alta, Ir
    <3>2. QED
      BY <1>1, <3>1, SigueVivo, TiposDe DEF ConResultado, TipoPlan
  <2>3. Q!Radicar
    BY <1>1, <2>1, <2>2, Callado, MismoPedido DEF Q!Radicar
  <2>4. QED
    BY <2>3 DEF Q!Next
<1>4. QED
  BY <1>2, <1>3

\* The PUT is its update or its closing, or nothing to it.
LEMMA PutRefina ==
    ASSUME Colision = FALSE, IInv, NEW d \in Despacho, Put(d)
    PROVE  [Q!Next]_(Q!abstVars)
<1>1. /\ pc[d] = "put" /\ docs' = docs /\ op' = op
      /\ IInv' /\ AislaPlan(d)
  BY PutPaso DEF Put
<1>2. CASE estado' = estado /\ aplicadas' = aplicadas
  BY <1>1, <1>2, Contesta
<1>3. CASE ~(estado' = estado /\ aplicadas' = aplicadas)
  <2>1. /\ estado = "abierta"
        /\ \/ paso[d] = "cierre" /\ estado' = "cerrada" /\ aplicadas' = aplicadas
           \/ aplicadas' = aplicadas \cup {d} /\ estado' = estado
        /\ TerminaPaso(d) \/ Excepciona(d, "caida")
    BY <1>3, TiposDe DEF Put, TipoComun
  <2>2. pc'[d] # "fin"
    BY <1>1, <2>1, SigueVivo DEF ConResultado
  <2>3. Dicho' = Dicho /\ Pide' = Pide
    BY <1>1, <2>2, Callado, MismoPedido
  <2>4. CASE paso[d] = "cierre" /\ estado' = "cerrada" /\ aplicadas' = aplicadas
    <3>1. Final \in docs
      BY <1>1, <2>4 DEF IInv, Local, Entregado
    <3>2. Q!Cerrar
      BY <1>1, <2>1, <2>3, <2>4, <3>1 DEF Q!Cerrar
    <3>3. QED
      BY <3>2 DEF Q!Next
  <2>5. CASE aplicadas' = aplicadas \cup {d} /\ estado' = estado
    <3>1. Q!Actualizar(d)
      BY <1>1, <2>1, <2>3, <2>5 DEF Q!Actualizar
    <3>2. QED
      BY <3>1 DEF Q!Next
  <2>6. QED
    BY <2>1, <2>4, <2>5
<1>4. QED
  BY <1>2, <1>3

\* A file sent is the attachment of the abstract complaint, or nothing to it.
LEMMA EnviarRefina ==
    ASSUME Colision = FALSE, IInv, NEW d \in Despacho, NEW x \in Identidad, EnviarArchivo(d, x)
    PROVE  [Q!Next]_(Q!abstVars)
<1>1. Envio(d, x) /\ IInv' /\ AislaPlan(d)
  BY EnviarHace, EnviarArchivoPaso
<1>2. /\ pc[d] # "fin" /\ pc' = pc /\ estado' = estado /\ aplicadas' = aplicadas /\ op' = op
      /\ docs' = docs \/ (estado = "abierta" /\ docs' = docs \cup {ConAfijo(d, x)})
  BY <1>1 DEF Envio, Avance
<1>3. CASE docs' = docs
  BY <1>1, <1>2, <1>3, Contesta
<1>4. CASE estado = "abierta" /\ docs' = docs \cup {ConAfijo(d, x)}
  <2>1. ConAfijo(d, x) \in Documento
    BY AfijoNombra
  <2>2. Q!Anexar(ConAfijo(d, x))
    BY <1>1, <1>2, <1>4, Callado, MismoPedido DEF Q!Anexar
  <2>3. QED
    BY <2>1, <2>2 DEF Q!Next
<1>5. QED
  BY <1>2, <1>3, <1>4

\* Everything else leaves the SFC as it is.
LEMMA RestoRefina ==
    ASSUME Colision = FALSE, IInv, NEW d \in Despacho,
           \/ Encolar(d) \/ Procesar(d) \/ SubirPdf(d) \/ LeerCheckpoint(d)
           \/ \E x \in Identidad : MarcarArchivo(d, x)
           \/ CerrarLote(d) \/ Persistir(d) \/ Limpiar(d) \/ Responder(d) \/ Reintentar(d)
           \/ ListarFalla(d) \/ Caida(d)
    PROVE  [Q!Next]_(Q!abstVars)
<1>1. IInv' /\ AislaPlan(d)
  BY EncolarPaso, ProcesarPaso, SubirPdfPaso, LeerCheckpointPaso, MarcarArchivoPaso, CerrarLotePaso,
     PersistirPaso, LimpiarPaso, ResponderPaso, ReintentarPaso, ListarFallaPaso, CaidaPaso
<1>2. estado' = estado /\ docs' = docs /\ recibidas' = recibidas
      /\ aplicadas' = aplicadas /\ op' = op
  BY DEF Encolar, Procesar, SubirPdf, LeerCheckpoint, MarcarArchivo, CerrarLote, Persistir, Limpiar,
         Responder, Reintentar, ListarFalla, Caida, sfcVars
<1>3. pc[d] # "fin"
  <2>1. CASE \E x \in Identidad : MarcarArchivo(d, x)
    BY <2>1, EnLote DEF MarcarArchivo
  <2>2. CASE Encolar(d) \/ Procesar(d) \/ Reintentar(d) \/ ListarFalla(d)
    BY <2>2 DEF Encolar, Procesar, Reintentar, ListarFalla
  <2>3. CASE SubirPdf(d) \/ LeerCheckpoint(d) \/ CerrarLote(d)
    BY <2>3 DEF SubirPdf, LeerCheckpoint, CerrarLote
  <2>4. CASE Persistir(d) \/ Limpiar(d) \/ Responder(d) \/ Caida(d)
    BY <2>4 DEF Persistir, Limpiar, Responder, Caida, EnCurso, Reposo
  <2>5. QED
    BY <2>1, <2>2, <2>3, <2>4
<1>4. QED
  BY <1>1, <1>2, <1>3, Contesta

\* The first state is the one of the abstract complaint.
LEMMA RefinaInicio == Init => Q!Init
<1> SUFFICES ASSUME Init PROVE Q!Init
  OBVIOUS
<1>1. estado = "ausente" /\ docs = {} /\ aplicadas = {}
  BY DEF Init
<1>2. Pide \in [Despacho -> {"alta", "cambio", "cierre"}]
  BY DEF Pide
<1>3. Dicho = [d \in Despacho |-> "nada"]
  BY DEF Dicho, Init
<1>4. QED
  BY <1>1, <1>2, <1>3 DEF Q!Init

\* Every step is one of the abstract complaint or a stutter, if no code is reused.
LEMMA RefinaPaso ==
    ASSUME Colision = FALSE, IInv, [Next]_vars
    PROVE  [Q!Next]_(Q!abstVars)
<1>1. CASE UNCHANGED vars
  BY <1>1 DEF vars, sfcVars, dVars, Q!abstVars, Dicho, Pide, Cierre
<1>2. CASE \E x \in Archivo : Subir(x)
  BY <1>2 DEF Subir, sfcVars, dVars, Q!abstVars, Dicho, Pide, Cierre
<1>3. ASSUME NEW d \in Despacho, Avanza(d) \/ ListarFalla(d) \/ Caida(d)
      PROVE  [Q!Next]_(Q!abstVars)
  <2>1. CASE Alta(d)
    BY <2>1, AltaRefina
  <2>2. CASE Put(d)
    BY <2>2, PutRefina
  <2>3. CASE \E x \in Identidad : EnviarArchivo(d, x)
    BY <2>3, EnviarRefina
  <2>4. CASE \/ Encolar(d) \/ Procesar(d) \/ SubirPdf(d) \/ LeerCheckpoint(d)
             \/ \E x \in Identidad : MarcarArchivo(d, x)
             \/ CerrarLote(d) \/ Persistir(d) \/ Limpiar(d) \/ Responder(d) \/ Reintentar(d)
             \/ ListarFalla(d) \/ Caida(d)
    BY <2>4, RestoRefina
  <2>5. QED
    BY <1>3, <2>1, <2>2, <2>3, <2>4 DEF Avanza
<1>4. QED
  BY <1>1, <1>2, <1>3 DEF Next

\* The pipeline implements QuejaSfc when no other complaint shares the motive
\* of this one: registered once, documents only while it is open, never closed
\* without its final answer, and the CRM is told only what is true of the SFC
\* (procesar_despacho).  With such a collision the CRM can be told that a
\* complaint exists that the SFC does not have (run exito_sin_caso).
THEOREM Implementa == ASSUME Colision = FALSE PROVE Spec => ImplementaQueja
<1>1. Init => Q!Init
  BY RefinaInicio
<1>2. IInv /\ [Next]_vars => [Q!Next]_(Q!abstVars)
  BY RefinaPaso
<1>3. QED
  BY <1>1, <1>2, Invariante, PTL DEF Spec, ImplementaQueja, Q!Spec
=============================================================================
