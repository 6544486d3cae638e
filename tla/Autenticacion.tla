----------------------------- MODULE Autenticacion -----------------------------
(***************************************************************************)
(* SfcAuthManager (app/core/auth.py): the token of the SFC, cached by each *)
(* process and shared through Redis.  The tasks of a process share its     *)
(* cache and an asyncio.Lock; the processes compete for a lock in Redis    *)
(* whose lease nobody renews.                                              *)
(*                                                                         *)
(* A token is the number of its emission.  Clients know when a token has   *)
(* expired (vencidos), not when the SFC has revoked it (revocados).  Every *)
(* failure spends one unit of MaxFallos: a Redis command, a login or       *)
(* refresh, a process that dies, a lease that ends under its owner.        *)
(***************************************************************************)
EXTENDS Integers, FiniteSets

CONSTANTS
    Proceso, Tarea,
    ProcesoDe,          \* [Tarea -> Proceso]
    Nadie,
    MaxSondeos,         \* polls within LOCK_WAIT_TIMEOUT_SECONDS
    MaxFallos,          \* failures in a behaviour
    MaxRevocados        \* access tokens that the SFC revokes

ASSUME AutenticacionAssumption ==
    /\ ProcesoDe \in [Tarea -> Proceso]
    /\ Nadie \notin Proceso \cup Tarea
    /\ MaxSondeos \in Nat /\ MaxFallos \in Nat
    /\ MaxRevocados \in Nat

VARIABLES
    loc,                    \* access_token and refresh_token of each process
    red,                    \* the record of REDIS_TOKEN_KEY
    lockR,                  \* owner of REDIS_LOCK_KEY
    lockL,                  \* task that holds the _local_lock of each process
    pc, fase,               \* place of a task; "pide" or, after a 401, "recupera"
    tok, nuevo,             \* token of its first and of its second sending
    sondeos,                \* polls in this wait
    res,                    \* "", "ok", "401", "error" or "muerta"
    emitidos, vencidos, revocados,
    fallos,
    rechazados,             \* tokens the SFC answered 401 to (history)
    perdido,                \* a lease ended under its owner (history)
    ciega                   \* tasks whose read or DEL in Redis failed (history)

sfcVars == <<emitidos, vencidos, revocados, rechazados>>
tareaVars == <<pc, fase, tok, nuevo, sondeos, res>>
vars == <<loc, red, lockR, lockL, tareaVars, sfcVars, fallos, perdido, ciega>>

SinToken == [acc |-> 0, ref |-> 0]
Par(a, r) == [acc |-> a, ref |-> r]

\* _is_access_token_valid: known, and not within a minute of its expiry.
Vigente(par) == par.acc # 0 /\ par.acc \notin vencidos

Init ==
    /\ \E viejo \in {SinToken, Par(1, 1)} :
          /\ red = viejo
          /\ loc \in [Proceso -> {SinToken, viejo}]
          /\ emitidos = viejo.acc
    /\ lockR = Nadie /\ lockL = [p \in Proceso |-> Nadie]
    /\ pc = [t \in Tarea |-> "inicio"]
    /\ fase = [t \in Tarea |-> "pide"]
    /\ tok = [t \in Tarea |-> 0] /\ nuevo = [t \in Tarea |-> 0]
    /\ sondeos = [t \in Tarea |-> 0]
    /\ res = [t \in Tarea |-> ""]
    /\ vencidos = {} /\ revocados = {} /\ rechazados = {}
    /\ fallos = 0 /\ perdido = FALSE /\ ciega = {}

P(t) == ProcesoDe[t]
Falla == fallos < MaxFallos /\ fallos' = fallos + 1
Bien == UNCHANGED fallos
Ir(t, f) == pc' = [pc EXCEPT ![t] = f]

\* The request is over, and with it the variables of its coroutine.
Termina(t, r) ==
    /\ res' = [res EXCEPT ![t] = r]
    /\ Ir(t, "fin")
    /\ fase' = [fase EXCEPT ![t] = "pide"]
    /\ tok' = [tok EXCEPT ![t] = 0] /\ nuevo' = [nuevo EXCEPT ![t] = 0]

-----------------------------------------------------------------------------
(* How a renewal ends: the task has a token, or an exception.               *)

SueltaSiempre(t) == [lockL EXCEPT ![P(t)] = Nadie]    \* mutant
SueltaSiPide(t) == IF fase[t] = "pide" THEN [lockL EXCEPT ![P(t)] = Nadie] ELSE lockL

\* The first sending goes on without the local lock; the second keeps it.
Obtiene(t, n) ==
    /\ IF fase[t] = "pide"
       THEN tok' = [tok EXCEPT ![t] = n] /\ UNCHANGED nuevo /\ Ir(t, "enviar")
       ELSE nuevo' = [nuevo EXCEPT ![t] = n] /\ UNCHANGED tok /\ Ir(t, "reenviar")
    /\ lockL' = SueltaSiPide(t)
    /\ UNCHANGED <<res, fase>>

\* Without a token the request fails; in the recovery its 401 stands.
Excepciona(t) ==
    /\ Termina(t, IF fase[t] = "pide" THEN "error" ELSE "401")
    /\ lockL' = [lockL EXCEPT ![P(t)] = Nadie]

Sigue(t, f) == Ir(t, f) /\ UNCHANGED <<tok, nuevo, res, fase, lockL>>

\* _load_from_redis: a missing record, or a failure, leaves the cache alone.
Carga(t) ==
    \/ loc' = [loc EXCEPT ![P(t)] = IF red = SinToken THEN @ ELSE red] /\ Bien /\ UNCHANGED ciega
    \/ UNCHANGED loc /\ Falla /\ ciega' = ciega \cup {t}

-----------------------------------------------------------------------------

\* get_valid_token: the fast path takes no lock.
Inicio(t) ==
    /\ pc[t] = "inicio"
    /\ IF Vigente(loc[P(t)])
       THEN tok' = [tok EXCEPT ![t] = loc[P(t)].acc] /\ Ir(t, "enviar")
       ELSE Ir(t, "lock_local") /\ UNCHANGED tok
    /\ UNCHANGED <<loc, red, lockR, lockL, fase, nuevo, sondeos, res, sfcVars, fallos, perdido, ciega>>

LockLocal(t) ==
    /\ pc[t] = "lock_local" /\ lockL[P(t)] = Nadie
    /\ lockL' = [lockL EXCEPT ![P(t)] = t]
    /\ Ir(t, IF fase[t] = "pide" THEN "verificar" ELSE "invalidar")
    /\ UNCHANGED <<loc, red, lockR, fase, tok, nuevo, sondeos, res, sfcVars, fallos, perdido, ciega>>

\* _get_valid_token_unlocked: second look at the cache; without a Redis
\* client the renewal is local.
Verificar(t) ==
    /\ pc[t] = "verificar"
    /\ \/ Vigente(loc[P(t)]) /\ Obtiene(t, loc[P(t)].acc) /\ Bien
       \/ ~Vigente(loc[P(t)]) /\ Sigue(t, "cargar") /\ Bien
       \/ ~Vigente(loc[P(t)]) /\ Sigue(t, "directo") /\ Falla
    /\ UNCHANGED <<loc, red, lockR, sondeos, sfcVars, perdido, ciega>>

\* Perhaps another process has renewed it.
Cargar(t) ==
    /\ pc[t] = "cargar"
    /\ Carga(t)
    /\ IF Vigente(loc'[P(t)]) THEN Obtiene(t, loc'[P(t)].acc) ELSE Sigue(t, "competir")
    /\ UNCHANGED <<red, lockR, sondeos, sfcVars, perdido>>

\* _acquire_distributed_lock: SET NX PX; a failure, which may have set the
\* key, counts as busy.
Competir(t) ==
    LET toma == lockR' = IF lockR = Nadie THEN P(t) ELSE lockR IN
    /\ pc[t] = "competir"
    /\ \/ /\ lockR = Nadie /\ toma /\ Bien /\ Ir(t, "recargar")
          /\ sondeos' = [sondeos EXCEPT ![t] = 0]
       \/ lockR # Nadie /\ UNCHANGED <<lockR, sondeos>> /\ Bien /\ Ir(t, "esperar")
       \/ (UNCHANGED lockR \/ toma) /\ Falla /\ Ir(t, "esperar") /\ UNCHANGED sondeos
    /\ UNCHANGED <<loc, red, lockL, fase, tok, nuevo, res, sfcVars, perdido, ciega>>

\* The deadline passes, or a poll finds what another process renewed.
Esperar(t) ==
    /\ pc[t] = "esperar"
    /\ IF sondeos[t] >= MaxSondeos
       THEN /\ Sigue(t, "directo") /\ Bien /\ UNCHANGED <<loc, ciega>>
            /\ sondeos' = [sondeos EXCEPT ![t] = 0]
       ELSE /\ Carga(t)
            /\ \/ /\ Vigente(loc'[P(t)]) /\ Obtiene(t, loc'[P(t)].acc)
                  /\ sondeos' = [sondeos EXCEPT ![t] = 0]
               \/ /\ ~Vigente(loc'[P(t)]) /\ Sigue(t, "competir")
                  /\ sondeos' = [sondeos EXCEPT ![t] = @ + 1]
    /\ UNCHANGED <<red, lockR, sfcVars, perdido>>

RecargaOmitida(t) == Bien /\ UNCHANGED <<loc, ciega>>    \* mutant
\* Under the lock the record is read again before anything is renewed.
RecargaBajoLock(t) == Carga(t)

TrasRecargar(t) ==
    /\ pc[t] = "recargar"
    /\ RecargaBajoLock(t)
    /\ IF Vigente(loc'[P(t)]) THEN Sigue(t, "liberar")
       ELSE Sigue(t, IF loc'[P(t)].ref # 0 THEN "refrescar" ELSE "login")
    /\ UNCHANGED <<red, lockR, sondeos, sfcVars, perdido>>

-----------------------------------------------------------------------------
(* _refresh_access_token and _login, coordinated or local.                  *)

\* _save_tokens_local of an answer that decodes.
Emite(t, r) ==
    /\ emitidos' = emitidos + 1
    /\ loc' = [loc EXCEPT ![P(t)] = Par(emitidos + 1, IF r = 0 THEN emitidos + 1 ELSE r)]
    /\ UNCHANGED <<vencidos, revocados, rechazados>>

\* Of one that does not decode: the tokens are assigned before, and keep the
\* expiry of those they replace.  An access token that passes for expired by
\* it, or is missing, is 0 here: nobody sends it.
Malforma(t) ==
    /\ emitidos' = emitidos + 1
    /\ \E a \in {0, emitidos + 1}, r \in {0, loc[P(t)].ref, emitidos + 1} :
          loc' = [loc EXCEPT ![P(t)] = Par(a, r)]
    /\ UNCHANGED <<vencidos, revocados, rechazados>>

\* The call raises, before it touches the cache or after.
NoRenueva(t) == UNCHANGED <<sfcVars, loc>> \/ Malforma(t)

\* Whatever makes the refresh fail leads to a login.
Refrescar(t) ==
    /\ pc[t] = "refrescar"
    /\ \/ Emite(t, loc[P(t)].ref) /\ Ir(t, "guardar") /\ Bien
       \/ NoRenueva(t) /\ Ir(t, "login") /\ Falla
    /\ UNCHANGED <<red, lockR, lockL, fase, tok, nuevo, sondeos, res, perdido, ciega>>

\* A login that fails leaves through the finally, without a token.
Login(t) ==
    /\ pc[t] = "login"
    /\ \/ Emite(t, 0) /\ Ir(t, "guardar") /\ Bien
       \/ NoRenueva(t) /\ Ir(t, "liberar_error") /\ Falla
    /\ UNCHANGED <<red, lockR, lockL, fase, tok, nuevo, sondeos, res, perdido, ciega>>

\* _save_to_redis: a failure is logged.
Guardar(t) ==
    /\ pc[t] = "guardar"
    /\ \/ red' = loc[P(t)] /\ Bien
       \/ UNCHANGED red /\ Falla
    /\ Ir(t, "liberar")
    /\ UNCHANGED <<loc, lockR, lockL, fase, tok, nuevo, sondeos, res, sfcVars, perdido, ciega>>

\* _release_distributed_lock: only its owner deletes the key.
Liberar(t) ==
    LET suelta == lockR' = IF lockR = P(t) THEN Nadie ELSE lockR IN
    /\ pc[t] \in {"liberar", "liberar_error"}
    /\ \/ suelta /\ Bien
       \/ UNCHANGED lockR /\ Falla
    /\ IF pc[t] = "liberar" THEN Obtiene(t, loc[P(t)].acc) ELSE Excepciona(t)
    /\ UNCHANGED <<loc, red, sondeos, sfcVars, perdido, ciega>>

\* _renovar_token_directo_local: refresh, else login; nothing is shared.
Directo(t) ==
    /\ pc[t] = "directo"
    /\ \/ Emite(t, loc[P(t)].ref) /\ Bien /\ Obtiene(t, emitidos + 1)
       \/ loc[P(t)].ref # 0 /\ Emite(t, 0) /\ Falla /\ Obtiene(t, emitidos + 1)
       \/ NoRenueva(t) /\ Falla /\ Excepciona(t)
    /\ UNCHANGED <<red, lockR, sondeos, perdido, ciega>>

-----------------------------------------------------------------------------
(* async_auth_flow                                                          *)

TomaOtraVez(t) == "lock_local"    \* mutant
\* The recovery renews with the _unlocked variant.
TrasInvalidar(t) == "verificar"

Enviar(t) ==
    /\ pc[t] = "enviar"
    /\ IF tok[t] \in revocados
       THEN /\ rechazados' = rechazados \cup {tok[t]}
            /\ fase' = [fase EXCEPT ![t] = "recupera"]
            /\ Ir(t, "lock_local") /\ UNCHANGED <<tok, nuevo, res>>
       ELSE Termina(t, "ok") /\ UNCHANGED rechazados
    /\ UNCHANGED <<loc, red, lockR, lockL, sondeos, emitidos, vencidos, revocados,
                   fallos, perdido, ciega>>

BorraSiempre(t) == TRUE    \* mutant
NoBorra(t) == FALSE        \* mutant
CoincideCompartido(t) == red.acc = tok[t]

\* INVALIDATE_IF_MATCHES, then the same for the cache: the refresh token stays.
Invalidar(t) ==
    LET borra == red' = IF CoincideCompartido(t) THEN SinToken ELSE red IN
    /\ pc[t] = "invalidar"
    /\ \/ borra /\ Bien /\ UNCHANGED ciega
       \/ UNCHANGED red /\ Falla /\ ciega' = ciega \cup {t}
    /\ loc' = [loc EXCEPT ![P(t)] = IF @.acc = tok[t] THEN Par(0, @.ref) ELSE @]
    /\ Ir(t, TrasInvalidar(t))
    /\ UNCHANGED <<lockR, lockL, fase, tok, nuevo, sondeos, res, sfcVars, perdido>>

\* One second sending, with the local lock held.
Reenviar(t) ==
    /\ pc[t] = "reenviar"
    /\ Termina(t, IF nuevo[t] \in revocados THEN "401" ELSE "ok")
    /\ rechazados' = rechazados \cup ({nuevo[t]} \cap revocados)
    /\ lockL' = [lockL EXCEPT ![P(t)] = Nadie]
    /\ UNCHANGED <<loc, red, lockR, sondeos, emitidos, vencidos, revocados,
                   fallos, perdido, ciega>>

-----------------------------------------------------------------------------
(* Time, the SFC and crashes                                                *)

\* The first token of the behaviour expires; those issued during it outlive
\* its requests.
Vencer ==
    /\ emitidos > 0 /\ vencidos = {}
    /\ vencidos' = {1}
    /\ UNCHANGED <<loc, red, lockR, lockL, tareaVars, emitidos, revocados, rechazados, fallos, perdido, ciega>>

Revocar(n) ==
    /\ n \in 1..emitidos \ revocados /\ Cardinality(revocados) < MaxRevocados
    /\ revocados' = revocados \cup {n}
    /\ UNCHANGED <<loc, red, lockR, lockL, tareaVars, emitidos, vencidos, rechazados, fallos, perdido, ciega>>

BajoLock == {"recargar", "refrescar", "login", "guardar", "liberar", "liberar_error"}
Duena(t) == pc[t] \in BajoLock

\* A process dies with its tasks; its lock in Redis stays.
Muere(p) ==
    /\ Falla
    /\ \E t \in Tarea : P(t) = p /\ pc[t] # "fin"
    /\ LET muere(t) == P(t) = p /\ pc[t] # "fin" IN
       /\ pc' = [t \in Tarea |-> IF muere(t) THEN "fin" ELSE pc[t]]
       /\ res' = [t \in Tarea |-> IF muere(t) THEN "muerta" ELSE res[t]]
    /\ loc' = [loc EXCEPT ![p] = SinToken]
    /\ lockL' = [lockL EXCEPT ![p] = Nadie]
    /\ UNCHANGED <<red, lockR, fase, tok, nuevo, sondeos, sfcVars, perdido, ciega>>

\* LOCK_TTL_MS passes: after a crash or a lost SET or DEL, or under an owner
\* that takes longer.
VenceLock ==
    /\ lockR # Nadie
    /\ \/ ~(\E t \in Tarea : P(t) = lockR /\ Duena(t)) /\ Bien /\ UNCHANGED perdido
       \/ (\E t \in Tarea : P(t) = lockR /\ Duena(t)) /\ Falla /\ perdido' = TRUE
    /\ lockR' = Nadie
    /\ UNCHANGED <<loc, red, lockL, tareaVars, sfcVars, ciega>>

Avanza(t) ==
    \/ Inicio(t) \/ LockLocal(t) \/ Verificar(t) \/ Cargar(t) \/ Competir(t) \/ Esperar(t)
    \/ TrasRecargar(t) \/ Refrescar(t) \/ Login(t) \/ Guardar(t) \/ Liberar(t) \/ Directo(t)
    \/ Enviar(t) \/ Invalidar(t) \/ Reenviar(t)

Next ==
    \/ \E t \in Tarea : Avanza(t)
    \/ Vencer
    \/ \E n \in 1..emitidos : Revocar(n)
    \/ \E p \in Proceso : Muere(p)
    \/ VenceLock

\* Coroutines advance.  A task takes the local lock twice at most, so weak
\* fairness is enough for those that wait for it.
Equidad == \A t \in Tarea : WF_vars(Avanza(t))

Spec == Init /\ [][Next]_vars /\ Equidad

-----------------------------------------------------------------------------
(* Properties                                                               *)

Token == [acc : 0..emitidos, ref : 0..emitidos]

\* Type correctness; a task past the local lock of its process holds it
\* (_get_valid_token_unlocked assumes that its caller does).
TypeOKA ==
    /\ loc \in [Proceso -> Token] /\ red \in Token
    /\ lockR \in Proceso \cup {Nadie} /\ lockL \in [Proceso -> Tarea \cup {Nadie}]
    /\ fase \in [Tarea -> {"pide", "recupera"}]
    /\ tok \in [Tarea -> 0..emitidos] /\ nuevo \in [Tarea -> 0..emitidos]
    /\ sondeos \in [Tarea -> 0..MaxSondeos]
    /\ res \in [Tarea -> {"", "ok", "401", "error", "muerta"}]
    /\ vencidos \subseteq 1..emitidos /\ rechazados \subseteq revocados
    /\ revocados \subseteq 1..emitidos
    /\ \A t \in Tarea :
          /\ pc[t] \in BajoLock \cup {"verificar", "cargar", "competir", "esperar", "directo",
                                      "invalidar", "reenviar"} => lockL[P(t)] = t
          /\ (res[t] # "") <=> (pc[t] = "fin")

\* The second sending never repeats the token that the SFC has just rejected,
\* whatever the other tasks and processes read, save or renew meanwhile, as
\* long as the invalidation and the reads of this task reached Redis
\* (_invalidar_token_compartido_si_coincide).
ReintentoConOtroToken ==
    \A t \in Tarea : pc[t] = "reenviar" /\ t \notin ciega => nuevo[t] # tok[t]

\* Nobody calls refresh or login under the lock while Redis holds a token
\* that is still good: the processes renew once and share the result, unless
\* a lease was lost or the read failed (_renovar_token_coordinado).
SinRenovacionDoble ==
    \A t \in Tarea :
        pc[t] \in {"refrescar", "login"} /\ t \notin ciega /\ ~perdido
        => ~Vigente(red) /\ lockR = P(t)

\* A token disappears from Redis only after the SFC rejected that very token:
\* a late 401 about an old one never discards what another process renewed
\* (INVALIDATE_IF_MATCHES_LUA_SCRIPT).
SoloInvalidaRechazados ==
    [][red # SinToken /\ red' = SinToken => red.acc \in rechazados]_vars

\* Every request ends: a dead owner of the lock, a task that waits for
\* another, and the recovery after a 401 under the local lock included.
PeticionTermina == <>(\A t \in Tarea : pc[t] = "fin")
=============================================================================
