# SSV integration service: a TLA+ verification project

The service dispatches complaints of a Salesforce CRM to the Superintendencia
Financiera de Colombia (SFC). When the SFC cannot be reached, or another operation of the
same case is in flight, the event is kept in a contingency queue in Redis and a worker
retries it until it is delivered or its attempts run out. Losing an event, delivering a
stale one over a newer one, or telling the CRM that something was delivered when it was not
are regulatory failures, and all of them depend on interleavings of API processes, workers,
leases, Redis commands, pages and files. That is what this project models.

## Inventory

| Component | State | Operations | What makes it correct |
|---|---|---|---|
| Contingency queue (`queue_service.py`) | items, index by obligation, status sets, two sorted sets, claims with lease | 8 Lua scripts, purge | one live item per obligation; sets, sorted sets, claims and status fields agree; content never changes without a version |
| Retry cycle (`scheduler.py`) | job lock, listed batch, claimed copy, consecutive outages | list, lock case, claim, SFC, persist, CRM, settle, defer | no late worker writes on newer content; no double delivery once `SFC_DONE` is written; nothing pending is starved |
| Dispatch endpoint (`routes_quejas.py`) | one coroutine per request | verify idempotency, lock case, dispatch, register, cancel the queue, or enqueue | what it answers to the CRM is true and stays true |
| Idempotency store (`idempotency_service.py`) | one record per (case, operation, hash): PROCESSING, QUEUED, COMPLETED | SET NX, SET, DEL, heartbeat | no record left behind, no completed operation forgotten |
| Distributed lock (`distributed_lock.py`) | key with owner token and lease | acquire, heartbeat, release | one owner; nobody releases the lock of another |
| Orchestrator, Momentos 2 and 3 (`despacho_queja_orchestrator.py`, `momento_2_sync.py`, `momento_3_sync.py`) | place in the pipeline, batch of files in flight, checkpoint of files in Redis | register, self-heal after a 404, fraud before closing, tolerate an existing or a closed complaint, clean the checkpoint | the SFC gets each document once and while the complaint is open; what is answered is true of the SFC; the checkpoint never lies |
| Translation of SFC errors (`exceptions.py`, `errores_sfc.json`) | a matrix of rules | first rule that matches, two passes for `codigo_queja` | what each caller concludes from a rejection is right |
| Momentos 1 and 4 (`momento_1_sync.py`, `momento_4_sync.py`) | pages read, records seen, list to deliver | bounded pagination, deduplication, attachments to S3, ACK in batches | no duplicates, no complaint without its files, true status, nothing starved |
| SFC authentication (`auth.py`) | token in the memory of each process and in Redis, local lock, renewal lock | load, renew, wait, renew alone, invalidate after a 401 | one renewal is shared; a late 401 discards nothing good; no request waits for ever |
| Attachments in S3 (`s3_service.py`) | files in flight | batches in both directions | part of the two rows above |
| Webhook client, mail, metrics, schemas, mapping | - | I/O and pure translation | not modelled: no shared state of their own |

How they interact: API processes and worker processes share nothing but Redis. The API
enqueues and cancels; workers claim and settle; both write idempotency records; both take
the lock of a case before they call the SFC. Every Lua script is atomic; everything else is
a sequence of round trips between which any other process may run, a lease may expire, or
the process may die. The hazards this leads to are listed in `PROJECT.json`, each at its
line.

## Modules

**`ColaRedis`**: the keys of the queue are its variables and every Lua script is an action
(`Encolar`, `Reclamar`, `MarcarSfcCompletado`, `MarcarExitoso`, `RegistrarFallo...`,
`Reencolar`, `Diferir`, `Cancelar`), with the refusals of the scripts as
`RechazarTransicion`. Leases and retry dates pass by `ExpirarClaim` and `Vencer`. The purge
is split where the code awaits: it reads items one by one and deletes by id in a pipeline
(`PurgaLeer`, `PurgaEjecutar`). The scripts are offered to any caller with any arguments, so
the invariants do not depend on discipline of the callers, with one exception:
`registrar_fallo` is not offered a retry for an item without attempts left, which
`Reintentos` justifies (`PendienteReintentable`). A slot is the index key
`{smart_code}:{operacion}`, a payload stands for the content and its hash (the code stores
`payload_json` as an opaque string, so the hash survives the round trip through Lua).
`SpecAbierta` adds arbitrary writes of idempotency records; it is what the modules of the
callers are shown to implement.

**`Reintentos`** extends it with `reintentar_despachos_pendientes_job` on several nodes. Each
phase of a node ends at an await: list, read one by one, lock the case, claim, SFC, persist
`SFC_DONE`, CRM, settle, release, defer. `copia` is the item as the claim returned it,
`motivo` the classification of the failure. What may fail is a parameter (`Fallos`): a Redis
command may fail before or after it took effect, a lease may expire under its owner, a
process may die. The API is the environment here.

**`Despacho`** extends `Reintentos` with `POST /sync/despacho` and the idempotency store. A
request is a coroutine whose place `pf` changes at each await: first GET (`Verificar`), check of
the queue item behind a QUEUED record (`Vigencia`), DEL of an orphan (`Borrar`), SET NX
(`Iniciar`), second GET (`Revisar`), lock of the case (`TomarLock`), the dispatch (`Enviar`),
then either `RegistrarExito`, `LeerObsoleto`, `CancelarObsoleto`, or `EncolarContingencia`,
`RegistrarEncolado`; the `finally` is `Soltar` and `Liberar`. `resp` is what the CRM is told.
`POST /queue/{id}/reencolar` is the script (`ReencolarOperador`), a second read and the QUEUED
record (`LeerReplay`, `RegistrarReplay`). The requests here take the place of the environment of
`Reintentos`; the nodes are the same. `orden` is a history variable, the order of arrival.
`"caida_api"` in `Fallos` lets API processes die, as `"caida"` does for workers. The dispatch
itself (Momentos 2 and 3, attachments) is one step with three outcomes (`Orquestador` opens it):
accepted, rejected, transient error after which the SFC may or may not have taken the content. A
request comes once: a retry of the CRM is another request with the same content.

**`QuejaSfc`** says what the dispatch of one complaint promises: registered once, documents only
while it is open, closed once and not without the final answer, and for each dispatch one answer
that is true of the complaint when it is given (`Cierto`).

**`Orquestador`** opens the one step that `Despacho` and `Reintentos` have for the dispatch. A
dispatch is a coroutine (`pc`, `paso`, `sana`); inside a batch every file is one of its own
(`ent`), as `asyncio.gather` runs them, and the batch raises one of the exceptions when all have
ended. `procesar_despacho` is `Procesar`, Momento 2 is `Alta`, a batch is `LeerCheckpoint`,
`EnviarArchivo`, `MarcarArchivo`, `CerrarLote`, the PATCH is `Put`; before a closing sends its PDF it
puts a copy into the directory of the case (`SubirPdf`), which the next dispatch that lists the
directory finds. The checkpoint knows the PDF (key and hash) and its copy (key) by two identities
(`Identidad`), the SFC by one name (`Nombre`). `Excepciona` is the nest of
`except` clauses: tolerance of a closed complaint, self-healing, transient error, rejection.
What the SFC says is a record of status, fields and phrases, and goes through the matrix of
rules (`ErrorType`), so that the predicates of the code (`YaCerrado`, `NoEncontrado`,
`EsDuplicado`, `YaExisteM2`) are applied to what the translation makes of it. The route and the
worker differ in `via`: the worker persists `SFC_DONE` before the checkpoint is cleaned. A
transient failure queues the dispatch, which is then run again from the start; a process that
dies leaves it to the CRM, which sends again what got no answer, or to the queue. `aplicadas`,
`perdidas`, `recibidas` and `solape` are history variables. `Q` maps it to `QuejaSfc`: the CRM is told the
result when the dispatch is at its end (`Dicho`).

**`Autenticacion`** is `SfcAuthManager`: tasks of several processes, each place of a task an
await of `get_valid_token`, `_renovar_token_coordinado` or `async_auth_flow`. A token is the number of
its emission. Expiry is known to clients, revocation is not. The lease of the renewal lock is
never renewed, so it may end under its owner. A login or refresh whose answer does not decode has
replaced the tokens in memory by then (`Malforma`): they keep the expiry of the old ones.

**`Lectura`** is Momentos 1 and 4: one loop over the pages of the SFC, whose list is kept by
position, and one acknowledgement, which may run at the same time. Records arrive in front or
behind, an acknowledged one moves those after it. `modo` chooses where the two moments differ:
when a record is marked as seen, what a failing record does to the answer, and the status. A 200
whose body has another shape is a failure of its own: a page is taken for nothing, for a bare list or,
in Momento 4, for one consumer, and ends the reading as a last page would (`Degradada`, noted in
`deforme`); a list of attachments without `results` is taken for none (noted in `sinLista`).

**`MCColaRedis`, `MCReintentos`, `MCDespacho`, `MCOrquestador`, `MCAutenticacion`, `MCLectura`**
give TLC its symmetry sets and the functions and sets of an instance.

**`ColaRedisProofs`, `ReintentosProofs`, `DespachoProofs`, `OrquestadorProofs`,
`AutenticacionProofs`, `LecturaProofs`** hold the theorems about the module they are named after.

## Runs

| Run | Instance | Shows |
|---|---|---|
| `cola` | 1 obligation, 2 contents, 2 workers, 2 ids, 2 versions | structure of the queue under every order of scripts and an interrupted purge |
| `reintentos_fallos` | 2 nodes, 1 obligation, 2 contents, all failures | what Python computes from its copy is right; nothing is reported as delivered that was not |
| `reintentos_sanos` | 2 nodes, 1 request, 2 obligations of one case | with leases that hold, lost answers of Redis and crashes: exclusion by case, no second delivery; the cycle implements `SpecAbierta` |
| `reintentos_vivo` | 1 node, 2 obligations, crashes | every pending item is settled |
| `despacho` | 2 requests, 1 node that may die, the operator's replay, 1 obligation, 2 contents | one caller of the SFC per case, no PROCESSING record without an owner, true answers and delivery records |
| `despacho_fallos` | 2 requests, 2 contents, all failures | answers to the CRM stay true when answers of Redis are lost, leases expire early and processes die; PROCESSING records and locks of requests are given back |
| `cancela_nuevo` | 2 requests, 2 contents | *violation*: a success cancels newer content |
| `orquestador` | 2 dispatches in five combinations of operations, 2 files (one uploaded late, one invalid), the PDF and its copy in S3, 2 failures | implements `QuejaSfc`; true checkpoint, complete deliveries, no file sent again under its identity without a reason, a missing complaint is always healed, every dispatch ends |
| `exito_sin_caso` | 1 dispatch, a functional collision | *violation*: success about a complaint the SFC refused |
| `autenticacion` | 3 requests in 2 processes, 1 failure, 1 revocation | the second sending has another token, one renewal is shared, only rejected tokens are discarded, every request ends |
| `lectura` | 5 records (1 arrives late, 1 with a broken attachment, 1 that cannot be mapped), 2 pages of 2, both moments, 1 failure | no duplicates, complete deliveries, true answers, sound records are acknowledged; what is excepted after an answer of another shape is said in the properties |
| `registro_malformado` | one record without its code | *violation*: no other record reaches the CRM |

Bounds: `MaxId` = 2 lets an item be settled, replayed or purged while a second one takes its
slot; `MaxVersion` = 2 is one overwrite, enough for a worker to be one version behind;
`MaxIntentos` = 2 or 3 makes the last attempt reachable; two workers are one that is late and
one that overtakes it. `UmbralInfra` = 1 makes deferral happen with a batch of two (the code
uses 3). Two obligations of one case are what the lock by case is for. Two requests are an older
and a newer event, or an event and its retry. In `Despacho` a replay leaves a version for each
request that may still enqueue (`QuedanVersiones`), so that no request is stopped by that bound.
`despacho` has one item with three versions, so that the operator may replay it while a request
is still to enqueue; a request that would need a second item, after the worker has settled the
first, stops there. Enqueueing next to settled items is in `cola` and in the runs of
`Reintentos`. In `orquestador` the pairs of operations are those in which one dispatch registers
or closes the complaint under the other; two failures are, for instance, a lost answer and the
crash that follows, or a lost lease and a failure in the overlap. In `autenticacion` two tasks
share the memory and the lock of a process and the third competes from another; one failure with
one revocation is a renewal that fails, or dies, while others wait. In `lectura` the list is
longer than what a reading may follow, so the limit cuts it, and two records fail for ever at
its head: with as many as fit into `MaxPaginas` pages the others would never be reached, which
the code accepts. Every initial order of the list is tried. A batch of one id makes a failure
between two batches happen (the code uses 100). The largest runs are `orquestador` with 1.1 million
distinct states, `lectura` with 0.84 and `autenticacion` with 0.76. `orquestador`, `autenticacion`,
`despacho_fallos` and the violation runs of requests allow the end of all requests
(`CHECK_DEADLOCK FALSE`): without a node nothing is left to do then; so do dispatches and
authenticated requests, which are a fixed number.

Symmetry (workers, contents, nodes) is used in runs without liveness only.

## Fairness

`SpecVivo` assumes that APScheduler starts cycles and the event loop goes on with them (weak
fairness of each node), that dates pass and orphaned leases expire, that requests end, that
processes do not die for ever, that requests for a case do not come for ever (the worker
does not wait for a busy lock, so each one could hold it just when the cycle asks), and that the
CRM webhook, whose outages cost no attempt, answers now and then (strong fairness of
`NotificarCrmOk`). Nothing is assumed of the SFC: its failures spend attempts and end in the DLQ.

`SpecDVivo` assumes only that the event loop goes on with requests that have arrived and that
what nobody renews expires (`PX`/`EX` of Redis).

`Orquestador` assumes weak fairness of each dispatch: the event loop goes on with it, and the retry
cycle comes back to a queued one (`TodoPendienteSeResuelve` is that fact about the queue). Failures
are bounded by `MaxFallos`; the attempts, which bound them in the code, are in `Reintentos`.

`Autenticacion` assumes weak fairness of each task. That is enough for the local lock, because
a task takes it twice at most; the lock in Redis is polled, so nothing is assumed of its owner.

`Lectura` assumes that the CRM polls and acknowledges on its schedule and that a request which has
begun goes on (weak fairness of both); records arrive or not.

## Proofs

Six modules hold theorems, one per component: `ColaRedisProofs`, `ReintentosProofs`,
`DespachoProofs`, `OrquestadorProofs`, `AutenticacionProofs` and `LecturaProofs`. They hold for every
value of the constants (any number of obligations, contents, workers, requests, tasks, files and
records, any bound) that satisfies the named assumptions. Every invariant and every safety action
property of the passing runs is a theorem. Each proof has an inductive invariant, which TLC checked
on the instances of the runs before it was proved, one lemma per action, and under it one step per
conjunct the action can disturb.

**`ColaRedisProofs`**: `SpecAbierta` (and with it `Spec`, theorem `CasoCerrado`) satisfies the
invariants and action properties of the run `cola`. `IInv` adds: ids above the counter are unused;
the index of an obligation points to the live item of it (`IndiceApuntaAlVivo`), which is what makes
overwrite, replay and cancellation agree on one slot; an item that exists is where its status says;
what the purge has read is settled or was replayed since; a claim is on a pending item.

**`ReintentosProofs`**: the retry cycle implements `SpecAbierta` (`ImplementaCola`), so the theorems of
the queue apply to it. `IInvR` says what a worker at each stage may rely on: a work id names one claim
(`WidUnico`), the stage agrees with the item it works on (`Situado`), the copy is exact as long as the
claim and the version are still the worker's (`CopiaFiel`), and what it is about to confirm was sent
(`PorConfirmar`). From it follow `CopiaExacta`, `PendienteReintentable` and `ConfirmadoFueEnviado`,
whatever fails. `ExclusionPorCaso` and `EntregaUnica` need leases that hold (`"lease" \notin Fallos`);
for `EntregaUnica`, `EntregaInv` adds that one cycle runs at a time per item, that its claim is in
force, and that a confirmed version is either noted in Redis or known to the worker that will note it.

**`DespachoProofs`**: requests, the operator's replay and the workers together implement `SpecAbierta`
(`ImplementaColaDespacho`), and the truth of delivery records carries over. `IInvD` adds to `IInvR`
that the index is faithful, that idempotency records and replays say what is true of the SFC or of
the queue, and what each request knows at each stage (`Peti`). `RespuestaHonesta` needs nothing of
Redis or of leases. `ExclusionDespacho` needs leases that hold (`LockInv`: the holder of the lock of a
case is the one request or worker past it). `ProcessingTieneDueno` needs that Redis answers
(`"redis" \notin Fallos`) but not that leases hold.

**`OrquestadorProofs`**: `IInv` ties the checkpoint to the SFC, a batch to what it has still to send,
and the result of each stage of a dispatch (`Local`) to what the SFC has; `UnoEnCurso` says that
dispatches overlap only after a lost lease, which is what `SinReenvio` excepts. `SinReenvio`
(`EnvioUnico`) is about identities of the checkpoint: that the PDF of a closing and its copy are two of
them is a gap of the code, not of the proof (see Findings). `Implementa`: the
pipeline implements `QuejaSfc`, under `Colision = FALSE`; with a collision it does not, which is the run
`exito_sin_caso`. `ErrorType` looks for the least index of the matrix that matches, the first match of
the code's loop.

**`AutenticacionProofs`**: `IInv` says who holds the lock of a process and the lease in Redis
(`Arrienda`), that the holder found the token expired (`RenuevaCaducado`), and that between a 401 and
the second sending the rejected token is in neither memory nor Redis as seen by that task
(`RecuperaRechazado`, `GuardaNuevo`, `RechazadoOlvidado`). An answer that does not decode brings a
token that is new, so it cannot bring the rejected one back.

**`LecturaProofs`**: `Cubierto` is the argument of `ExitoCubreTodo`: while no record is dropped, each
one listed at the beginning is delivered, failed, in the page or behind it, since a record that
arrives only moves others back. It says nothing once a page came in another shape (`deforme`): the
code ends the reading there and answers `success`, and so does the model. `Marcados` gives `SinDuplicados`, `Completos` gives `EntregaCompleta`, and
`Contados` counts the ids of an acknowledgement through each batch. Subsequences (dedup, refused ids)
are defined by the rank of their positions (`EnPosiciones`), and the lemmas about them rest on the
rank being a bijection: no induction over data is needed.

Assumptions on constants: `ConstantesAssumption` (at least two attempts and one version, model values
outside the data sets), `ReintentosAssumption` (`Nadie` is no process, request or case),
`DespachoAssumption` (finitely many requests), those of `Orquestador` and `Autenticacion`, and
`LecturaAssumption` (the SFC lists finitely many records at first; pages, batches and the limit of
pages are positive).

Only model-checked: liveness (`TodoPendienteSeResuelve`, `ProcessingSeLibera`, `DespachoTermina`,
`PeticionTermina`, `SanasSeConfirman`), which is out of this prover's reach, and the runs
that expect a violation.

## Assumptions

The phrase of a closed complaint (`se encuentra cerrada`, or that it has a final answer already)
comes only from a closed complaint. Files of one complaint have different keys: attachments of
Momento 1 without an id would share `adjunto_<codigo>.<ext>`. In the passing run of `Orquestador`
there is no functional collision (`Colision`). Tokens issued during a behaviour of `Autenticacion`
outlive its requests: they last minutes, a request seconds. A complaint is dispatched by one version
of its content in `Orquestador`; versions are the subject of `Despacho`. So the closings of a complaint
bring the same PDF: another text would have another hash, that is, another identity. The directory that
a dispatch lists is that of its case (`caso/{case_id}/`), where the copy of the PDF goes. An
acknowledgement that the SFC answers with 200 names the ids it refused under the keys the code reads
(`pqrs_error`, `numero_id_CF_error`); in a body of another shape the code finds none and counts the whole
batch as processed (`momento_1_sync.py:212`, `momento_4_sync.py:199`), and `AckVeraz` would not hold.

## Not modelled

- Fields: schemas, mapping, catalogues, sanitizing, signatures, the text of the PDF and of mails.
  They are functions of one record without state; a record that fails in them is `Ilegibles`,
  `SinCodigo` or a `rechazo`.
- HTTP, streams, sizes and MIME types; the semaphore of five uploads (any order of files is allowed);
  the mini-retries after a 429, which end in an answer or a failure; the refresh of the error matrix
  from a spreadsheet.
- Records: TTL of COMPLETED and QUEUED (30 days) and of the checkpoint; QUEUED records without
  `queue_item_id` are only the `i = 0` case of `SigueVigente`; the legacy index key without partition
  and the `LEGACY` suffix. These exist for items from before a past deployment.
- The purge next to `Reintentos` (it only touches settled items; its race with the replay is in
  `ColaRedis`); the graceful shutdown of the scheduler, which is a crash with a grace period; the order
  of a batch of the queue, abstracted to a set, which allows every order.
- SLA listing, mails, metrics, logging, rate limit: output, or read only.
- Local storage mode (`is_local`) and empty requests of acknowledgement (answered `warning`).

## Findings

1. The cancellation that follows a successful dispatch looks into the slot after the SFC has
   answered. A newer event that found the lock of the case taken and was queued (202) in that
   time is deleted as if it were the obsolete one (`cancela_nuevo`).
2. A registration that the SFC refuses because another complaint has the same motive is answered
   `success`: the rule of that message has the type `ALREADY_EXISTS`, which Momento 2 tolerates
   before it looks at the words (`exito_sin_caso`).
3. A complaint without `codigo_queja` is delivered by Momento 1, and the response model of the
   endpoint rejects the whole list, at every reading, so that no complaint reaches the CRM
   (`registro_malformado`).

Seen in the models without a run of its own:

- The nightly purge deletes by id what it read as old; an item replayed meanwhile is lost and its
  id stays in the pending set (`queue_service.py:1518`, `PurgaLeer` and `PurgaEjecutar`).
- A dispatch that ends in a transient error queues its content over that of a newer event queued
  while it ran (`routes_quejas.py:241`): versions order the writes to the queue, not the events.
- While a worker has an item claimed its status is not `PENDIENTE`, so a retry of the CRM takes its
  QUEUED record for an orphan and starts the operation again (`idempotency_service.py:576`).
- Two retries that see the same orphan both get the reservation: the DEL of the second removes the
  PROCESSING record of the first (`idempotency_service.py:370`). The lock of the case still keeps
  them apart at the SFC (`ExclusionDespacho`).
- After a confirmed delivery whose `SFC_DONE` could not be written, the next cycle delivers again,
  although the comment at `scheduler.py:301` says that only the persistence is retried
  (`EntregaUnica` excepts this case, `perdidos`).
- An outage of the SFC spends an attempt of each item that meets it before the rest is deferred,
  although `Readme.md:258` says that it does not.
- A definitive failure of the webhook deletes the COMPLETED record of a delivery that did take place.
- A file that went without affix before the fraud was declared is in the checkpoint, and the fraud
  step skips it: the SFC never gets it as `INV_FRAUDE_SFC` (`FLUJO_MOMENTOS.md:106`). This is why
  `ExitoConAdjuntos` speaks of files, not of names.
- A closing that sent its PDF and then failed is run again, and a retry with `directorio_s3` lists the
  copy in the directory of the case: the copy has no mark under its key, so the SFC gets the final
  answer a second time, and in a step of fraud under the name of an `INV_FRAUDE_SFC`, although
  `test_momento_3.py:257` says that a retry does not send the PDF again. A fraud whose only file is that
  copy also passes the test for a fraud without documents (`momento_3_sync.py:275`, `SubirPdf`).
- A page with a body of another shape ends a reading of Momento 4 with `success` and
  `paginacion_incompleta` false, although records are missing; the next reading brings them
  (`momento_4_sync.py:51`, `deforme`). The docstring at `momento_1_sync.py:83` wants this degradation.
- A complaint whose list of attachments comes without `results` is delivered without them, in spite of
  "All-or-Nothing" (`momento_1_sync.py:147`, `sinLista`).
- A file missing in S3 is a 404 too, and starts the self-healing (a POST that is tolerated).
- An acknowledgement during a reading can make it skip records, of Momento 4 with `success`; the
  next reading brings them (`encogio`, `SanasSeConfirman`).

## Plan

All modules, runs and theorems of the plan are in place. Left to extend: theorems about the
purge next to the workers (`Reintentos` leaves the purge out), and the refinement between
`Orquestador` and the `enviado` step of `Reintentos`, which today share only their interface.
