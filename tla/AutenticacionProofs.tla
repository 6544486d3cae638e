-------------------------- MODULE AutenticacionProofs --------------------------
(***************************************************************************)
(* Proofs about Autenticacion: for any number of processes and tasks, any  *)
(* budget of failures and of revoked tokens.                               *)
(***************************************************************************)
EXTENDS Autenticacion, TLAPS

\* The places where the task holds the _local_lock of its process.
ConLockLocal == BajoLock \cup {"verificar", "cargar", "competir", "esperar", "directo",
                               "invalidar", "reenviar"}
Lugar == ConLockLocal \cup {"inicio", "lock_local", "enviar", "fin"}

\* TypeOKA, the types it leaves out, and its parts by name.
TipoTokens ==
    /\ emitidos \in Nat
    /\ loc \in [Proceso -> Token] /\ red \in Token
    /\ tok \in [Tarea -> 0..emitidos] /\ nuevo \in [Tarea -> 0..emitidos]
TipoSfc ==
    /\ vencidos \subseteq 1..emitidos /\ revocados \subseteq 1..emitidos
    /\ rechazados \subseteq revocados
TipoTareas ==
    /\ pc \in [Tarea -> Lugar] /\ fase \in [Tarea -> {"pide", "recupera"}]
    /\ sondeos \in [Tarea -> 0..MaxSondeos]
    /\ res \in [Tarea -> {"", "ok", "401", "error", "muerta"}]
    /\ ciega \subseteq Tarea
    /\ \A t \in Tarea : (res[t] # "") <=> (pc[t] = "fin")
TipoLocks ==
    /\ lockR \in Proceso \cup {Nadie} /\ lockL \in [Proceso -> Tarea \cup {Nadie}]
    /\ \A t \in Tarea : pc[t] \in ConLockLocal => lockL[P(t)] = t
Tipos == TipoTokens /\ TipoSfc /\ TipoTareas /\ TipoLocks

\* Every task runs in a process of the deployment.
LEMMA ProcesoDeTarea == \A t \in Tarea : P(t) \in Proceso
BY AutenticacionAssumption DEF P

\* The mark of a free lock is neither a process nor a task.
LEMMA NadieAparte == Nadie \notin Proceso /\ Nadie \notin Tarea
BY AutenticacionAssumption

\* The bound on the polls of the Redis lock is a natural.
LEMMA ConstantesNat == MaxSondeos \in Nat /\ 0 \in 0..MaxSondeos
<1>1. MaxSondeos \in Nat
  BY AutenticacionAssumption
<1>2. QED
  BY <1>1

\* The parts of the typing give the type invariant that TLC checks.
LEMMA TiposImplicaTypeOKA == Tipos => TypeOKA
BY DEF Tipos, TipoTokens, TipoSfc, TipoTareas, TipoLocks, TypeOKA, ConLockLocal

\* The parts of the typing hold at the start.
LEMMA TiposInicio == Init => Tipos
<1> SUFFICES ASSUME Init PROVE Tipos
  OBVIOUS
<1> USE AutenticacionAssumption
<1>1. TipoTokens
  <2>1. PICK viejo \in {SinToken, Par(1, 1)} :
            red = viejo /\ loc \in [Proceso -> {SinToken, viejo}] /\ emitidos = viejo.acc
    BY DEF Init
  <2>2. viejo \in Token /\ SinToken \in Token /\ emitidos \in Nat
    BY <2>1 DEF SinToken, Par, Token
  <2>3. loc \in [Proceso -> Token] /\ red \in Token
    BY <2>1, <2>2
  <2>4. tok = [t \in Tarea |-> 0] /\ nuevo = [t \in Tarea |-> 0]
    BY DEF Init
  <2>5. QED
    BY <2>2, <2>3, <2>4 DEF TipoTokens
<1>2. TipoSfc
  BY DEF Init, TipoSfc
<1>3. TipoTareas
  <2>1. /\ pc = [t \in Tarea |-> "inicio"] /\ fase = [t \in Tarea |-> "pide"]
        /\ sondeos = [t \in Tarea |-> 0] /\ res = [t \in Tarea |-> ""]
        /\ ciega = {}
    BY DEF Init
  <2>2. pc \in [Tarea -> Lugar] /\ fase \in [Tarea -> {"pide", "recupera"}]
    BY <2>1 DEF Lugar
  <2>3. sondeos \in [Tarea -> 0..MaxSondeos]
    BY <2>1, ConstantesNat
  <2>5. res \in [Tarea -> {"", "ok", "401", "error", "muerta"}]
    BY <2>1
  <2>6. \A t \in Tarea : (res[t] # "") <=> (pc[t] = "fin")
    BY <2>1
  <2>4. QED
    BY <2>1, <2>2, <2>3, <2>5, <2>6 DEF TipoTareas
<1>4. TipoLocks
  BY DEF Init, TipoLocks, Lugar, ConLockLocal, BajoLock
<1>5. QED
  BY <1>1, <1>2, <1>3, <1>4 DEF Tipos

-----------------------------------------------------------------------------
(* A step of a task changes its own variables and those of its process.     *)

\* What a step of t leaves alone: the other tasks, and the cache and the
\* local lock of the other processes.
Aisla(t) ==
    /\ \A u \in Tarea : u # t =>
          /\ pc'[u] = pc[u] /\ fase'[u] = fase[u] /\ tok'[u] = tok[u]
          /\ nuevo'[u] = nuevo[u] /\ sondeos'[u] = sondeos[u] /\ res'[u] = res[u]
    /\ \A q \in Proceso : q # P(t) => loc'[q] = loc[q] /\ lockL'[q] = lockL[q]

\* What it does with the local lock: takes it free, leaves what it holds.
LockLocalDe(t) ==
    /\ lockL' \in [Proceso -> Tarea \cup {Nadie}]
    /\ pc'[t] \in ConLockLocal => lockL'[P(t)] = t
    /\ lockL'[P(t)] # lockL[P(t)] => lockL[P(t)] \in {t, Nadie}

\* A step that moves only the locks of one task keeps the locks well typed.
LEMMA LocksPaso ==
    ASSUME NEW t \in Tarea, TipoLocks, Aisla(t), LockLocalDe(t),
           lockR' \in Proceso \cup {Nadie}
    PROVE  TipoLocks'
<1>1. ASSUME NEW u \in Tarea, pc'[u] \in ConLockLocal PROVE lockL'[P(u)] = u
  <2>1. CASE u = t
    BY <1>1, <2>1 DEF LockLocalDe
  <2>2. CASE u # t /\ P(u) = P(t)
    BY <1>1, <2>2, NadieAparte DEF Aisla, LockLocalDe, TipoLocks
  <2>3. CASE P(u) # P(t)
    BY <1>1, <2>3, ProcesoDeTarea DEF Aisla, TipoLocks
  <2>4. QED
    BY <2>1, <2>2, <2>3
<1>2. QED
  BY <1>1 DEF TipoLocks, LockLocalDe, P

\* Obtiene: the task gets the token n, for its first or its second sending.
LEMMA ObtieneHace ==
    ASSUME NEW t \in Tarea, NEW n, Tipos, Obtiene(t, n), pc[t] \in ConLockLocal
    PROVE  /\ pc' = [pc EXCEPT ![t] = IF fase[t] = "pide" THEN "enviar" ELSE "reenviar"]
           /\ tok' = [tok EXCEPT ![t] = IF fase[t] = "pide" THEN n ELSE @]
           /\ nuevo' = [nuevo EXCEPT ![t] = IF fase[t] = "pide" THEN @ ELSE n]
           /\ res' = res /\ fase' = fase
           /\ LockLocalDe(t)
           /\ \A q \in Proceso : q # P(t) => lockL'[q] = lockL[q]
<1> USE ProcesoDeTarea DEF Tipos, TipoTareas, TipoLocks, TipoTokens
<1>1. pc' = [pc EXCEPT ![t] = IF fase[t] = "pide" THEN "enviar" ELSE "reenviar"]
  BY DEF Obtiene, Ir
<1>2. tok' = [tok EXCEPT ![t] = IF fase[t] = "pide" THEN n ELSE @]
  BY DEF Obtiene
<1>3. nuevo' = [nuevo EXCEPT ![t] = IF fase[t] = "pide" THEN @ ELSE n]
  BY DEF Obtiene
<1>4. res' = res /\ fase' = fase /\ lockL' = SueltaSiPide(t)
  BY DEF Obtiene
<1>5. LockLocalDe(t) /\ \A q \in Proceso : q # P(t) => lockL'[q] = lockL[q]
  <2>1. CASE fase[t] = "pide"
    <3>1. pc'[t] = "enviar" /\ lockL' = [lockL EXCEPT ![P(t)] = Nadie]
      BY <1>1, <1>4, <2>1 DEF SueltaSiPide
    <3>2. QED
      BY <3>1 DEF LockLocalDe, ConLockLocal, BajoLock
  <2>2. CASE fase[t] # "pide"
    BY <1>4, <2>2 DEF SueltaSiPide, LockLocalDe
  <2>3. QED
    BY <2>1, <2>2
<1>6. QED
  BY <1>1, <1>2, <1>3, <1>4, <1>5

\* Excepciona: the request ends and leaves the local lock.
LEMMA ExcepcionaHace ==
    ASSUME NEW t \in Tarea, Tipos, Excepciona(t), pc[t] \in ConLockLocal
    PROVE  /\ pc' = [pc EXCEPT ![t] = "fin"]
           /\ tok' = [tok EXCEPT ![t] = 0] /\ nuevo' = [nuevo EXCEPT ![t] = 0]
           /\ fase' = [fase EXCEPT ![t] = "pide"]
           /\ \E r \in {"error", "401"} : res' = [res EXCEPT ![t] = r]
           /\ LockLocalDe(t)
           /\ \A q \in Proceso : q # P(t) => lockL'[q] = lockL[q]
<1> USE ProcesoDeTarea DEF Tipos, TipoTareas, TipoLocks
<1>1. /\ pc' = [pc EXCEPT ![t] = "fin"]
      /\ tok' = [tok EXCEPT ![t] = 0] /\ nuevo' = [nuevo EXCEPT ![t] = 0]
      /\ fase' = [fase EXCEPT ![t] = "pide"]
      /\ \E r \in {"error", "401"} : res' = [res EXCEPT ![t] = r]
      /\ lockL' = [lockL EXCEPT ![P(t)] = Nadie]
  BY DEF Excepciona, Termina, Ir
<1>2. LockLocalDe(t) /\ \A q \in Proceso : q # P(t) => lockL'[q] = lockL[q]
  BY <1>1 DEF LockLocalDe, ConLockLocal, BajoLock
<1>3. QED
  BY <1>1, <1>2

\* One more token emitted: the sets of old tokens stay within bounds.
LEMMA SfcCrece ==
    ASSUME Tipos, emitidos' = emitidos \/ emitidos' = emitidos + 1,
           vencidos' = vencidos, revocados' = revocados, rechazados' = rechazados
    PROVE  TipoSfc'
<1>1. emitidos \in Nat
  BY DEF Tipos, TipoTokens
<1>2. \A n \in 1..emitidos : n \in 1..emitidos'
  BY <1>1
<1>3. QED
  BY <1>2 DEF Tipos, TipoSfc

\* The changes of a task that gets a token, an exception or its next step.
Mueve(t) ==
    /\ pc' \in [Tarea -> Lugar] /\ fase' \in [Tarea -> {"pide", "recupera"}]
    /\ res' \in [Tarea -> {"", "ok", "401", "error", "muerta"}]
    /\ tok' \in [Tarea -> 0..emitidos'] /\ nuevo' \in [Tarea -> 0..emitidos']
    /\ \A u \in Tarea : (res'[u] # "") <=> (pc'[u] = "fin")
    /\ \A u \in Tarea : u # t =>
          /\ pc'[u] = pc[u] /\ fase'[u] = fase[u] /\ tok'[u] = tok[u]
          /\ nuevo'[u] = nuevo[u] /\ res'[u] = res[u]
    /\ \A q \in Proceso : q # P(t) => lockL'[q] = lockL[q]
    /\ LockLocalDe(t)

EmiteUno == emitidos' = emitidos \/ emitidos' = emitidos + 1

\* The SFC issues tokens upwards: those seen before are still tokens after a login.
LEMMA EmiteCrece ==
    ASSUME Tipos, EmiteUno
    PROVE  /\ emitidos' \in Nat /\ 0 \in 0..emitidos'
           /\ \A n \in 0..emitidos : n \in 0..emitidos'
           /\ Token \subseteq Token'
           /\ tok \in [Tarea -> 0..emitidos'] /\ nuevo \in [Tarea -> 0..emitidos']
<1>1. emitidos \in Nat
  BY DEF Tipos, TipoTokens
<1>2. emitidos' \in Nat /\ 0 \in 0..emitidos' /\ \A n \in 0..emitidos : n \in 0..emitidos'
  BY <1>1 DEF EmiteUno
<1>3. QED
  BY <1>2 DEF Tipos, TipoTokens, Token

\* A caller that gets its token leaves the local lock, and only it moves.
LEMMA ObtieneMueve ==
    ASSUME NEW t \in Tarea, Tipos, EmiteUno, NEW n \in 0..emitidos', Obtiene(t, n),
           pc[t] \in ConLockLocal
    PROVE  Mueve(t)
<1>1. /\ pc' = [pc EXCEPT ![t] = IF fase[t] = "pide" THEN "enviar" ELSE "reenviar"]
      /\ tok' = [tok EXCEPT ![t] = IF fase[t] = "pide" THEN n ELSE @]
      /\ nuevo' = [nuevo EXCEPT ![t] = IF fase[t] = "pide" THEN @ ELSE n]
      /\ res' = res /\ fase' = fase /\ LockLocalDe(t)
      /\ \A q \in Proceso : q # P(t) => lockL'[q] = lockL[q]
  BY ObtieneHace
<1>2. tok' \in [Tarea -> 0..emitidos'] /\ nuevo' \in [Tarea -> 0..emitidos']
  BY <1>1, EmiteCrece
<1>3. pc' \in [Tarea -> Lugar] /\ pc[t] # "fin" /\ pc'[t] # "fin"
  BY <1>1 DEF Tipos, TipoTareas, Lugar, ConLockLocal, BajoLock
<1>4. \A u \in Tarea : (res'[u] # "") <=> (pc'[u] = "fin")
  BY <1>1, <1>3 DEF Tipos, TipoTareas
<1>5. QED
  BY <1>1, <1>2, <1>3, <1>4 DEF Mueve, Tipos, TipoTareas, TipoTokens

\* A caller whose login raises leaves the local lock, and only it moves.
LEMMA ExcepcionaMueve ==
    ASSUME NEW t \in Tarea, Tipos, EmiteUno, Excepciona(t), pc[t] \in ConLockLocal
    PROVE  Mueve(t)
<1>1. /\ pc' = [pc EXCEPT ![t] = "fin"]
      /\ tok' = [tok EXCEPT ![t] = 0] /\ nuevo' = [nuevo EXCEPT ![t] = 0]
      /\ fase' = [fase EXCEPT ![t] = "pide"]
      /\ \E r \in {"error", "401"} : res' = [res EXCEPT ![t] = r]
      /\ LockLocalDe(t) /\ \A q \in Proceso : q # P(t) => lockL'[q] = lockL[q]
  BY ExcepcionaHace
<1>2. tok' \in [Tarea -> 0..emitidos'] /\ nuevo' \in [Tarea -> 0..emitidos']
  BY <1>1, EmiteCrece
<1>3. \A u \in Tarea : (res'[u] # "") <=> (pc'[u] = "fin")
  BY <1>1 DEF Tipos, TipoTareas
<1>4. pc' \in [Tarea -> Lugar] /\ fase' \in [Tarea -> {"pide", "recupera"}]
  BY <1>1 DEF Tipos, TipoTareas, Lugar
<1>5. res' \in [Tarea -> {"", "ok", "401", "error", "muerta"}]
  BY <1>1 DEF Tipos, TipoTareas
<1>6. \A u \in Tarea : u # t =>
          /\ pc'[u] = pc[u] /\ fase'[u] = fase[u] /\ tok'[u] = tok[u]
          /\ nuevo'[u] = nuevo[u] /\ res'[u] = res[u]
  BY <1>1 DEF Tipos, TipoTareas, TipoTokens
<1>7. QED
  BY <1>1, <1>2, <1>3, <1>4, <1>5, <1>6 DEF Mueve

\* A caller that goes on inside the critical section keeps the local lock.
LEMMA SigueMueve ==
    ASSUME NEW t \in Tarea, Tipos, EmiteUno, NEW f \in ConLockLocal, Sigue(t, f),
           pc[t] \in ConLockLocal
    PROVE  Mueve(t)
<1>1. /\ pc' = [pc EXCEPT ![t] = f]
      /\ tok' = tok /\ nuevo' = nuevo /\ res' = res /\ fase' = fase /\ lockL' = lockL
  BY DEF Sigue, Ir
<1>2. tok' \in [Tarea -> 0..emitidos'] /\ nuevo' \in [Tarea -> 0..emitidos']
  BY <1>1, EmiteCrece
<1>3. pc' \in [Tarea -> Lugar] /\ pc[t] # "fin" /\ pc'[t] # "fin"
  BY <1>1 DEF Tipos, TipoTareas, Lugar, ConLockLocal, BajoLock
<1>4. \A u \in Tarea : (res'[u] # "") <=> (pc'[u] = "fin")
  BY <1>1, <1>3 DEF Tipos, TipoTareas
<1>5. LockLocalDe(t)
  BY <1>1 DEF LockLocalDe, Tipos, TipoLocks
<1>6. QED
  BY <1>1, <1>2, <1>3, <1>4, <1>5 DEF Mueve, Tipos, TipoTareas, TipoTokens

\* _load_from_redis: the cache of the process becomes the record, or stays.
LEMMA CargaHace ==
    ASSUME NEW t \in Tarea, Tipos, Carga(t)
    PROVE  /\ loc' \in [Proceso -> Token] /\ ciega' \subseteq Tarea
           /\ \A q \in Proceso : q # P(t) => loc'[q] = loc[q]
           /\ \/ ciega' = ciega /\ red # SinToken /\ loc'[P(t)] = red
              \/ ciega' = ciega /\ red = SinToken /\ loc' = loc
              \/ ciega' = ciega \cup {t} /\ loc' = loc
<1>1. \/ ciega' = ciega /\ red # SinToken /\ loc' = [loc EXCEPT ![P(t)] = red]
      \/ ciega' = ciega /\ red = SinToken /\ loc' = [loc EXCEPT ![P(t)] = @]
      \/ ciega' = ciega \cup {t} /\ loc' = loc
  BY DEF Carga
<1>2. /\ loc \in [Proceso -> Token] /\ red \in Token /\ ciega \subseteq Tarea
      /\ P(t) \in Proceso
  BY ProcesoDeTarea DEF Tipos, TipoTokens, TipoTareas
<1>3. QED
  BY <1>1, <1>2

\* The rest of such a step: the cache of the process, Redis and the polls.
LEMMA MuevePaso ==
    ASSUME NEW t \in Tarea, Tipos, EmiteUno, Mueve(t),
           loc' \in [Proceso -> Token'], \A q \in Proceso : q # P(t) => loc'[q] = loc[q],
           red' \in Token', lockR' \in Proceso \cup {Nadie},
           sondeos' \in [Tarea -> 0..MaxSondeos],
           \A u \in Tarea : u # t => sondeos'[u] = sondeos[u],
           vencidos' = vencidos, revocados' = revocados, rechazados' = rechazados,
           ciega' \subseteq Tarea
    PROVE  Aisla(t) /\ Tipos'
<1>1. Aisla(t)
  BY DEF Mueve, Aisla
<1>2. TipoTokens'
  BY EmiteCrece DEF TipoTokens, Mueve
<1>3. TipoSfc'
  BY SfcCrece DEF EmiteUno
<1>4. TipoTareas'
  BY DEF TipoTareas, Mueve
<1>5. TipoLocks'
  BY <1>1, LocksPaso DEF Mueve, Tipos
<1>6. QED
  BY <1>1, <1>2, <1>3, <1>4, <1>5 DEF Tipos

\* A step of a task isolates the others and keeps the types.
LEMMA AvanzaPaso ==
    ASSUME NEW t \in Tarea, Tipos, Avanza(t)
    PROVE  Aisla(t) /\ Tipos'
<1> USE ProcesoDeTarea, NadieAparte, ConstantesNat DEF Tipos
<1>1. CASE Inicio(t)
  <2>1. Aisla(t)
    BY <1>1 DEF Inicio, Ir, Aisla, TipoTareas, TipoTokens, TipoLocks
  <2>2. TipoTokens'
    BY <1>1 DEF Inicio, Ir, TipoTokens, sfcVars, Token
  <2>3. TipoSfc'
    BY <1>1 DEF Inicio, Ir, TipoSfc, TipoTokens, sfcVars
  <2>4. TipoTareas'
    BY <1>1 DEF Inicio, Ir, TipoTareas, Lugar, ConLockLocal, BajoLock
  <2>5. LockLocalDe(t) /\ lockR' \in Proceso \cup {Nadie}
    BY <1>1 DEF Inicio, Ir, LockLocalDe, TipoLocks, TipoTareas, ConLockLocal, BajoLock
  <2>6. QED
    BY <2>1, <2>2, <2>3, <2>4, <2>5, LocksPaso
<1>2. CASE LockLocal(t)
  <2>1. Aisla(t)
    BY <1>2 DEF LockLocal, Ir, Aisla, TipoTareas, TipoTokens, TipoLocks
  <2>2. TipoTokens'
    BY <1>2 DEF LockLocal, Ir, TipoTokens, sfcVars, Token
  <2>3. TipoSfc'
    BY <1>2 DEF LockLocal, Ir, TipoSfc, TipoTokens, sfcVars
  <2>4. TipoTareas'
    BY <1>2 DEF LockLocal, Ir, TipoTareas, Lugar, ConLockLocal, BajoLock
  <2>5. LockLocalDe(t) /\ lockR' \in Proceso \cup {Nadie}
    BY <1>2 DEF LockLocal, Ir, LockLocalDe, TipoLocks, TipoTareas, ConLockLocal, BajoLock
  <2>6. QED
    BY <2>1, <2>2, <2>3, <2>4, <2>5, LocksPaso
<1>3. CASE Competir(t)
  <2>1. Aisla(t)
    BY <1>3 DEF Competir, Ir, Bien, Falla, Aisla, TipoTareas, TipoTokens, TipoLocks
  <2>2. TipoTokens'
    BY <1>3 DEF Competir, Ir, Bien, Falla, TipoTokens, sfcVars, Token
  <2>3. TipoSfc'
    BY <1>3 DEF Competir, Ir, Bien, Falla, TipoSfc, TipoTokens, sfcVars
  <2>4. TipoTareas'
    BY <1>3 DEF Competir, Ir, Bien, Falla, TipoTareas, Lugar, ConLockLocal, BajoLock
  <2>5. LockLocalDe(t) /\ lockR' \in Proceso \cup {Nadie}
    BY <1>3 DEF Competir, Ir, Bien, Falla, LockLocalDe, TipoLocks, TipoTareas, ConLockLocal, BajoLock
  <2>6. QED
    BY <2>1, <2>2, <2>3, <2>4, <2>5, LocksPaso
<1>4. CASE TrasRecargar(t)
  <2>1. Aisla(t)
    BY <1>4 DEF TrasRecargar, Ir, Sigue, RecargaBajoLock, Carga, Bien, Falla, SinToken, Aisla, TipoTareas, TipoTokens, TipoLocks
  <2>2. TipoTokens'
    BY <1>4 DEF TrasRecargar, Ir, Sigue, RecargaBajoLock, Carga, Bien, Falla, SinToken, TipoTokens, sfcVars, Token
  <2>3. TipoSfc'
    BY <1>4 DEF TrasRecargar, Ir, Sigue, RecargaBajoLock, Carga, Bien, Falla, SinToken, TipoSfc, TipoTokens, sfcVars
  <2>4. TipoTareas'
    BY <1>4 DEF TrasRecargar, Ir, Sigue, RecargaBajoLock, Carga, Bien, Falla, SinToken, TipoTareas, Lugar, ConLockLocal, BajoLock
  <2>5. LockLocalDe(t) /\ lockR' \in Proceso \cup {Nadie}
    BY <1>4 DEF TrasRecargar, Ir, Sigue, RecargaBajoLock, Carga, Bien, Falla, SinToken, LockLocalDe, TipoLocks, TipoTareas, ConLockLocal, BajoLock
  <2>6. QED
    BY <2>1, <2>2, <2>3, <2>4, <2>5, LocksPaso
<1>5. CASE Refrescar(t)
  <2>1. Aisla(t)
    BY <1>5 DEF Refrescar, Ir, Bien, Falla, Emite, NoRenueva, Malforma, Par, Aisla, TipoTareas, TipoTokens, TipoLocks
  <2>2. TipoTokens'
    BY <1>5 DEF Refrescar, Ir, Bien, Falla, Emite, NoRenueva, Malforma, Par, TipoTokens, sfcVars, Token
  <2>3. TipoSfc'
    <3>1. /\ emitidos' = emitidos \/ emitidos' = emitidos + 1
          /\ vencidos' = vencidos /\ revocados' = revocados /\ rechazados' = rechazados
      BY <1>5 DEF Refrescar, Emite, NoRenueva, Malforma, sfcVars
    <3>2. QED
      BY <3>1, SfcCrece
  <2>4. TipoTareas'
    BY <1>5 DEF Refrescar, Ir, Bien, Falla, Emite, Par, TipoTareas, Lugar, ConLockLocal, BajoLock
  <2>5. LockLocalDe(t) /\ lockR' \in Proceso \cup {Nadie}
    BY <1>5 DEF Refrescar, Ir, Bien, Falla, Emite, Par, LockLocalDe, TipoLocks, TipoTareas, ConLockLocal, BajoLock
  <2>6. QED
    BY <2>1, <2>2, <2>3, <2>4, <2>5, LocksPaso
<1>6. CASE Login(t)
  <2>1. Aisla(t)
    BY <1>6 DEF Login, Ir, Bien, Falla, Emite, NoRenueva, Malforma, Par, Aisla, TipoTareas, TipoTokens, TipoLocks
  <2>2. TipoTokens'
    BY <1>6 DEF Login, Ir, Bien, Falla, Emite, NoRenueva, Malforma, Par, TipoTokens, sfcVars, Token
  <2>3. TipoSfc'
    <3>1. /\ emitidos' = emitidos \/ emitidos' = emitidos + 1
          /\ vencidos' = vencidos /\ revocados' = revocados /\ rechazados' = rechazados
      BY <1>6 DEF Login, Emite, NoRenueva, Malforma, sfcVars
    <3>2. QED
      BY <3>1, SfcCrece
  <2>4. TipoTareas'
    BY <1>6 DEF Login, Ir, Bien, Falla, Emite, Par, TipoTareas, Lugar, ConLockLocal, BajoLock
  <2>5. LockLocalDe(t) /\ lockR' \in Proceso \cup {Nadie}
    BY <1>6 DEF Login, Ir, Bien, Falla, Emite, Par, LockLocalDe, TipoLocks, TipoTareas, ConLockLocal, BajoLock
  <2>6. QED
    BY <2>1, <2>2, <2>3, <2>4, <2>5, LocksPaso
<1>7. CASE Guardar(t)
  <2>1. Aisla(t)
    BY <1>7 DEF Guardar, Ir, Bien, Falla, Aisla, TipoTareas, TipoTokens, TipoLocks
  <2>2. TipoTokens'
    BY <1>7 DEF Guardar, Ir, Bien, Falla, TipoTokens, sfcVars, Token
  <2>3. TipoSfc'
    BY <1>7 DEF Guardar, Ir, Bien, Falla, TipoSfc, TipoTokens, sfcVars
  <2>4. TipoTareas'
    BY <1>7 DEF Guardar, Ir, Bien, Falla, TipoTareas, Lugar, ConLockLocal, BajoLock
  <2>5. LockLocalDe(t) /\ lockR' \in Proceso \cup {Nadie}
    BY <1>7 DEF Guardar, Ir, Bien, Falla, LockLocalDe, TipoLocks, TipoTareas, ConLockLocal, BajoLock
  <2>6. QED
    BY <2>1, <2>2, <2>3, <2>4, <2>5, LocksPaso
<1>8. CASE Enviar(t)
  <2>1. Aisla(t)
    BY <1>8 DEF Enviar, Ir, Termina, Aisla, TipoTareas, TipoTokens, TipoLocks
  <2>2. TipoTokens'
    BY <1>8 DEF Enviar, Ir, Termina, TipoTokens, sfcVars, Token
  <2>3. TipoSfc'
    BY <1>8 DEF Enviar, Ir, Termina, TipoSfc, TipoTokens, sfcVars
  <2>4. TipoTareas'
    BY <1>8 DEF Enviar, Ir, Termina, TipoTareas, Lugar, ConLockLocal, BajoLock
  <2>5. LockLocalDe(t) /\ lockR' \in Proceso \cup {Nadie}
    BY <1>8 DEF Enviar, Ir, Termina, LockLocalDe, TipoLocks, TipoTareas, ConLockLocal, BajoLock
  <2>6. QED
    BY <2>1, <2>2, <2>3, <2>4, <2>5, LocksPaso
<1>9. CASE Invalidar(t)
  <2>1. Aisla(t)
    BY <1>9 DEF Invalidar, Ir, Bien, Falla, TrasInvalidar, SinToken, Par, Aisla, TipoTareas, TipoTokens, TipoLocks
  <2>2. TipoTokens'
    BY <1>9 DEF Invalidar, Ir, Bien, Falla, TrasInvalidar, SinToken, Par, TipoTokens, sfcVars, Token
  <2>3. TipoSfc'
    BY <1>9 DEF Invalidar, Ir, Bien, Falla, TrasInvalidar, SinToken, Par, TipoSfc, TipoTokens, sfcVars
  <2>4. TipoTareas'
    BY <1>9 DEF Invalidar, Ir, Bien, Falla, TrasInvalidar, SinToken, Par, TipoTareas, Lugar, ConLockLocal, BajoLock
  <2>5. LockLocalDe(t) /\ lockR' \in Proceso \cup {Nadie}
    BY <1>9 DEF Invalidar, Ir, Bien, Falla, TrasInvalidar, SinToken, Par, LockLocalDe, TipoLocks, TipoTareas, ConLockLocal, BajoLock
  <2>6. QED
    BY <2>1, <2>2, <2>3, <2>4, <2>5, LocksPaso
<1>10. CASE Reenviar(t)
  <2>1. Aisla(t)
    BY <1>10 DEF Reenviar, Ir, Termina, Aisla, TipoTareas, TipoTokens, TipoLocks
  <2>2. TipoTokens'
    BY <1>10 DEF Reenviar, Ir, Termina, TipoTokens, sfcVars, Token
  <2>3. TipoSfc'
    BY <1>10 DEF Reenviar, Ir, Termina, TipoSfc, TipoTokens, sfcVars
  <2>4. TipoTareas'
    BY <1>10 DEF Reenviar, Ir, Termina, TipoTareas, Lugar, ConLockLocal, BajoLock
  <2>5. LockLocalDe(t) /\ lockR' \in Proceso \cup {Nadie}
    BY <1>10 DEF Reenviar, Ir, Termina, LockLocalDe, TipoLocks, TipoTareas, ConLockLocal, BajoLock
  <2>6. QED
    BY <2>1, <2>2, <2>3, <2>4, <2>5, LocksPaso
<1>11. CASE Verificar(t)
  <2>1. /\ EmiteUno /\ pc[t] \in ConLockLocal
        /\ loc' = loc /\ red' = red /\ lockR' = lockR /\ sondeos' = sondeos /\ ciega' = ciega
        /\ vencidos' = vencidos /\ revocados' = revocados /\ rechazados' = rechazados
    BY <1>11 DEF Verificar, sfcVars, EmiteUno, ConLockLocal
  <2>2. Mueve(t)
    <3>1. loc[P(t)].acc \in 0..emitidos'
      BY <1>11 DEF Verificar, sfcVars, TipoTokens, Token
    <3>2. CASE Obtiene(t, loc[P(t)].acc)
      BY <2>1, <3>1, <3>2, ObtieneMueve
    <3>3. CASE Sigue(t, "cargar") \/ Sigue(t, "directo")
      BY <2>1, <3>3, SigueMueve DEF ConLockLocal
    <3>4. QED
      BY <1>11, <3>2, <3>3 DEF Verificar
  <2>3. QED
    BY <2>1, <2>2, MuevePaso, EmiteCrece DEF TipoTokens, TipoLocks, TipoTareas
<1>12. CASE Cargar(t)
  <2>1. /\ EmiteUno /\ pc[t] \in ConLockLocal
        /\ red' = red /\ lockR' = lockR /\ sondeos' = sondeos
        /\ vencidos' = vencidos /\ revocados' = revocados /\ rechazados' = rechazados
        /\ emitidos' = emitidos
    BY <1>12 DEF Cargar, sfcVars, EmiteUno, ConLockLocal
  <2>2. Carga(t)
    BY <1>12 DEF Cargar
  <2>3. /\ loc' \in [Proceso -> Token'] /\ ciega' \subseteq Tarea
        /\ \A q \in Proceso : q # P(t) => loc'[q] = loc[q]
    BY <2>1, <2>2, CargaHace DEF TipoTokens, TipoTareas, Token
  <2>4. Mueve(t)
    <3>1. loc'[P(t)].acc \in 0..emitidos'
      BY <2>3 DEF Token
    <3>2. CASE Obtiene(t, loc'[P(t)].acc)
      BY <2>1, <3>1, <3>2, ObtieneMueve
    <3>3. CASE Sigue(t, "competir")
      BY <2>1, <3>3, SigueMueve DEF ConLockLocal
    <3>4. QED
      BY <1>12, <3>2, <3>3 DEF Cargar
  <2>5. QED
    BY <2>1, <2>3, <2>4, MuevePaso, EmiteCrece DEF TipoTokens, TipoLocks, TipoTareas
<1>13. CASE Esperar(t)
  <2>1. /\ EmiteUno /\ pc[t] \in ConLockLocal
        /\ red' = red /\ lockR' = lockR
        /\ vencidos' = vencidos /\ revocados' = revocados /\ rechazados' = rechazados
        /\ emitidos' = emitidos
    BY <1>13 DEF Esperar, sfcVars, EmiteUno, ConLockLocal
  <2>2. Carga(t) \/ (loc' = loc /\ ciega' = ciega)
    BY <1>13 DEF Esperar
  <2>3. /\ loc' \in [Proceso -> Token'] /\ ciega' \subseteq Tarea
        /\ \A q \in Proceso : q # P(t) => loc'[q] = loc[q]
    BY <2>1, <2>2, CargaHace DEF TipoTokens, TipoTareas, Token
  <2>4. Mueve(t)
    <3>1. loc'[P(t)].acc \in 0..emitidos'
      BY <2>3 DEF Token
    <3>2. CASE Obtiene(t, loc'[P(t)].acc)
      BY <2>1, <3>1, <3>2, ObtieneMueve
    <3>3. CASE Sigue(t, "competir") \/ Sigue(t, "directo")
      BY <2>1, <3>3, SigueMueve DEF ConLockLocal
    <3>4. QED
      BY <1>13, <3>2, <3>3 DEF Esperar
  <2>5. /\ sondeos' \in [Tarea -> 0..MaxSondeos]
        /\ \A u \in Tarea : u # t => sondeos'[u] = sondeos[u]
    <3>1. \/ sondeos' = [sondeos EXCEPT ![t] = 0]
          \/ ~(sondeos[t] >= MaxSondeos) /\ sondeos' = [sondeos EXCEPT ![t] = @ + 1]
      BY <1>13 DEF Esperar
    <3>2. sondeos \in [Tarea -> 0..MaxSondeos]
      BY DEF TipoTareas
    <3>3. MaxSondeos \in Nat
      BY ConstantesNat
    <3>4. sondeos[t] \in 0..MaxSondeos
      BY <3>2
    <3>5. 0 \in 0..MaxSondeos /\ (~(sondeos[t] >= MaxSondeos) => sondeos[t] + 1 \in 0..MaxSondeos)
      BY <3>3, <3>4
    <3>6. QED
      BY <3>1, <3>2, <3>5
  <2>6. QED
    BY <2>1, <2>3, <2>4, <2>5, MuevePaso, EmiteCrece DEF TipoTokens, TipoLocks
<1>14. CASE Liberar(t)
  <2>1. /\ EmiteUno /\ pc[t] \in ConLockLocal
        /\ loc' = loc /\ red' = red /\ sondeos' = sondeos /\ ciega' = ciega
        /\ vencidos' = vencidos /\ revocados' = revocados /\ rechazados' = rechazados
        /\ lockR' \in Proceso \cup {Nadie}
    BY <1>14 DEF Liberar, sfcVars, EmiteUno, ConLockLocal, BajoLock, TipoLocks
  <2>2. Mueve(t)
    <3>1. loc[P(t)].acc \in 0..emitidos'
      BY <1>14 DEF Liberar, sfcVars, TipoTokens, Token
    <3>2. CASE Obtiene(t, loc[P(t)].acc)
      BY <2>1, <3>1, <3>2, ObtieneMueve
    <3>3. CASE Excepciona(t)
      BY <2>1, <3>3, ExcepcionaMueve
    <3>4. QED
      BY <1>14, <3>2, <3>3 DEF Liberar
  <2>3. QED
    BY <2>1, <2>2, MuevePaso, EmiteCrece DEF TipoTokens, TipoTareas
<1>15. CASE Directo(t)
  <2>1. /\ EmiteUno /\ pc[t] \in ConLockLocal
        /\ red' = red /\ lockR' = lockR /\ sondeos' = sondeos /\ ciega' = ciega
        /\ vencidos' = vencidos /\ revocados' = revocados /\ rechazados' = rechazados
    BY <1>15 DEF Directo, Emite, NoRenueva, Malforma, sfcVars, EmiteUno, ConLockLocal
  <2>2. \/ loc' = loc
        \/ /\ emitidos' = emitidos + 1
           /\ \E a, r \in 0..emitidos' : loc' = [loc EXCEPT ![P(t)] = Par(a, r)]
    <3>1. /\ emitidos \in Nat /\ loc[P(t)].ref \in 0..emitidos
          /\ P(t) \in Proceso
      BY DEF TipoTokens, Token
    <3>2. ASSUME NEW q, Emite(t, q), q \in 0..emitidos
          PROVE  \E a, r \in 0..emitidos' : loc' = [loc EXCEPT ![P(t)] = Par(a, r)]
      <4>1. /\ emitidos' = emitidos + 1
            /\ loc' = [loc EXCEPT ![P(t)] = Par(emitidos + 1, IF q = 0 THEN emitidos + 1 ELSE q)]
        BY <3>2 DEF Emite
      <4>2. emitidos + 1 \in 0..emitidos' /\ q \in 0..emitidos'
        BY <3>1, <3>2, <4>1
      <4>3. QED
        BY <4>1, <4>2
    <3>3. ASSUME Malforma(t)
          PROVE  \E a, r \in 0..emitidos' : loc' = [loc EXCEPT ![P(t)] = Par(a, r)]
      <4>1. PICK a \in {0, emitidos + 1}, r \in {0, loc[P(t)].ref, emitidos + 1} :
                loc' = [loc EXCEPT ![P(t)] = Par(a, r)]
        BY <3>3 DEF Malforma
      <4>2. emitidos' = emitidos + 1
        BY <3>3 DEF Malforma
      <4>3. a \in 0..emitidos' /\ r \in 0..emitidos'
        BY <3>1, <4>1, <4>2
      <4>4. QED
        BY <4>1, <4>3
    <3>4. QED
      BY <1>15, <3>1, <3>2, <3>3 DEF Directo, NoRenueva, Emite, Malforma
  <2>3. /\ loc' \in [Proceso -> Token']
        /\ \A q \in Proceso : q # P(t) => loc'[q] = loc[q]
    <3>1. loc \in [Proceso -> Token'] /\ P(t) \in Proceso /\ emitidos' \in Nat
      BY <2>1, EmiteCrece DEF TipoTokens
    <3>2. \A a, r \in 0..emitidos' : Par(a, r) \in Token'
      BY <3>1 DEF Par, Token, TipoTokens
    <3>3. loc' = loc \/ \E par \in Token' : loc' = [loc EXCEPT ![P(t)] = par]
      BY <2>2, <3>2
    <3>4. QED
      BY <3>1, <3>3
  <2>4. Mueve(t)
    <3>1. CASE emitidos' = emitidos + 1 /\ Obtiene(t, emitidos + 1)
      BY <2>1, <3>1, ObtieneMueve DEF TipoTokens
    <3>2. CASE Excepciona(t)
      BY <2>1, <3>2, ExcepcionaMueve
    <3>3. QED
      BY <1>15, <3>1, <3>2 DEF Directo, Emite
  <2>5. QED
    BY <2>1, <2>3, <2>4, MuevePaso, EmiteCrece DEF TipoTokens, TipoLocks, TipoTareas
<1>16. QED
  BY <1>1, <1>2, <1>3, <1>4, <1>5, <1>6, <1>7, <1>8, <1>9, <1>10, <1>11, <1>12, <1>13, <1>14,
     <1>15 DEF Avanza

\* Every step keeps the typing, one case per handler of the login and refresh paths.
LEMMA TiposPaso == Tipos /\ [Next]_vars => Tipos'
<1> SUFFICES ASSUME Tipos, [Next]_vars PROVE Tipos'
  OBVIOUS
<1> USE DEF Tipos
<1>1. ASSUME NEW t \in Tarea, Avanza(t) PROVE Tipos'
  BY <1>1, AvanzaPaso
<1>2. CASE Vencer
  <2>1. TipoSfc'
    BY <1>2 DEF Vencer, TipoSfc, TipoTokens
  <2>2. TipoTokens' /\ TipoTareas' /\ TipoLocks'
    BY <1>2 DEF Vencer, tareaVars, TipoTokens, TipoTareas, TipoLocks, Token, P
  <2>3. QED
    BY <2>1, <2>2
<1>3. ASSUME NEW n \in 1..emitidos, Revocar(n) PROVE Tipos'
  <2>1. TipoSfc'
    BY <1>3 DEF Revocar, TipoSfc, TipoTokens
  <2>2. TipoTokens' /\ TipoTareas' /\ TipoLocks'
    BY <1>3 DEF Revocar, tareaVars, TipoTokens, TipoTareas, TipoLocks, Token, P
  <2>3. QED
    BY <2>1, <2>2
<1>4. ASSUME NEW p \in Proceso, Muere(p) PROVE Tipos'
  <2>1. TipoSfc' /\ TipoTokens'
    BY <1>4 DEF Muere, sfcVars, TipoSfc, TipoTokens, Token, SinToken
  <2>2. TipoTareas'
    BY <1>4 DEF Muere, TipoTareas, Lugar
  <2>3. TipoLocks'
    <3>1. /\ lockL' = [lockL EXCEPT ![p] = Nadie] /\ lockR' = lockR
          /\ \A t \in Tarea : pc'[t] = IF P(t) = p /\ pc[t] # "fin" THEN "fin" ELSE pc[t]
      BY <1>4 DEF Muere
    <3>2. \A t \in Tarea : pc'[t] \in ConLockLocal => P(t) # p /\ pc'[t] = pc[t]
      BY <3>1 DEF ConLockLocal, BajoLock
    <3>3. QED
      BY <3>1, <3>2, ProcesoDeTarea DEF TipoLocks, P
  <2>4. QED
    BY <2>1, <2>2, <2>3
<1>5. CASE VenceLock
  BY <1>5 DEF VenceLock, sfcVars, tareaVars, TipoSfc, TipoTokens, TipoTareas, TipoLocks, Token, P
<1>6. CASE UNCHANGED vars
  BY <1>6 DEF vars, sfcVars, tareaVars, TipoSfc, TipoTokens, TipoTareas, TipoLocks, Token, P
<1>7. QED
  BY <1>1, <1>2, <1>3, <1>4, <1>5, <1>6 DEF Next

\* SfcAuthManager keeps its types, and a task past the _local_lock of its
\* process holds it, whatever dies, expires or fails.
THEOREM Tipado == Spec => []TypeOKA
<1>1. Spec => []Tipos
  BY TiposInicio, TiposPaso, PTL DEF Spec
<1>2. QED
  BY <1>1, TiposImplicaTypeOKA, PTL

-----------------------------------------------------------------------------
(* The effects of a step of a task on what it shares.                       *)

\* Where its cache, the record of Redis and its token come from.
EfectoTokens(t) ==
    /\ EmiteUno /\ vencidos' = vencidos
    /\ \/ loc'[P(t)] = loc[P(t)] \/ loc'[P(t)] = red \/ loc'[P(t)].acc = 0
       \/ emitidos' = emitidos + 1 /\ loc'[P(t)].acc = emitidos'
    /\ red' = red \/ red' = SinToken \/ (pc[t] = "guardar" /\ red' = loc[P(t)])
    /\ tok'[t] \in {tok[t], 0, loc'[P(t)].acc}
    /\ pc[t] \notin ConLockLocal => loc' = loc /\ red' = red
    /\ pc'[t] = "guardar" => emitidos' = emitidos + 1 /\ loc'[P(t)].acc = emitidos'
    /\ ciega \subseteq ciega' /\ ciega' \subseteq ciega \cup {t}

\* What happens to the lock in Redis.
EfectoLock(t) ==
    /\ perdido' = perdido
    /\ pc'[t] \in BajoLock => lockR' = P(t) \/ (pc[t] \in BajoLock /\ lockR' = lockR)
    /\ lockR' # lockR => lockR = Nadie \/ pc[t] \in BajoLock

\* A refresh or a login: the cache holds the token just emitted.
LEMMA EmiteHace ==
    ASSUME NEW t \in Tarea, NEW r, Tipos, Emite(t, r)
    PROVE  /\ emitidos' = emitidos + 1 /\ loc'[P(t)].acc = emitidos'
           /\ vencidos' = vencidos /\ revocados' = revocados /\ rechazados' = rechazados
BY ProcesoDeTarea DEF Emite, Par, Tipos, TipoTokens

\* One that fails: the cache is as it was, or holds no token that anyone would
\* send, or one that is new.
LEMMA NoRenuevaHace ==
    ASSUME NEW t \in Tarea, Tipos, NoRenueva(t)
    PROVE  /\ \/ emitidos' = emitidos /\ loc' = loc
              \/ /\ emitidos' = emitidos + 1
                 /\ loc'[P(t)].acc = 0 \/ loc'[P(t)].acc = emitidos'
           /\ vencidos' = vencidos /\ revocados' = revocados /\ rechazados' = rechazados
BY ProcesoDeTarea DEF NoRenueva, Malforma, Par, Tipos, TipoTokens, sfcVars

\* What each step of a task does to the tokens and to the Redis lock.
LEMMA EfectoPaso ==
    ASSUME NEW t \in Tarea, Tipos, Avanza(t)
    PROVE  EfectoTokens(t) /\ EfectoLock(t)
<1> USE ProcesoDeTarea DEF Tipos
<1>a. TipoTokens' /\ TipoTareas'
  BY AvanzaPaso
<1>1. CASE Inicio(t)
  <2>1. EfectoTokens(t)
    BY <1>1, <1>a DEF Inicio, Ir, EfectoTokens, EmiteUno, TipoTokens, TipoTareas, sfcVars, ConLockLocal, BajoLock
  <2>2. EfectoLock(t)
    BY <1>1, <1>a DEF Inicio, Ir, EfectoLock, TipoTareas, BajoLock
  <2>3. QED
    BY <2>1, <2>2
<1>2. CASE LockLocal(t)
  <2>1. EfectoTokens(t)
    BY <1>2, <1>a DEF LockLocal, Ir, EfectoTokens, EmiteUno, TipoTokens, TipoTareas, sfcVars, ConLockLocal, BajoLock
  <2>2. EfectoLock(t)
    BY <1>2, <1>a DEF LockLocal, Ir, EfectoLock, TipoTareas, BajoLock
  <2>3. QED
    BY <2>1, <2>2
<1>3. CASE Competir(t)
  <2>1. EfectoTokens(t)
    BY <1>3, <1>a DEF Competir, Ir, Bien, Falla, EfectoTokens, EmiteUno, TipoTokens, TipoTareas, sfcVars, ConLockLocal, BajoLock
  <2>2. EfectoLock(t)
    BY <1>3, <1>a DEF Competir, Ir, Bien, Falla, EfectoLock, TipoTareas, BajoLock
  <2>3. QED
    BY <2>1, <2>2
<1>4. CASE TrasRecargar(t)
  <2>1. EfectoTokens(t)
    BY <1>4, <1>a DEF TrasRecargar, Ir, Sigue, RecargaBajoLock, Carga, Bien, Falla, EfectoTokens, EmiteUno, TipoTokens, TipoTareas, sfcVars, ConLockLocal, BajoLock
  <2>2. EfectoLock(t)
    BY <1>4, <1>a DEF TrasRecargar, Ir, Sigue, RecargaBajoLock, Carga, Bien, Falla, EfectoLock, TipoTareas, BajoLock
  <2>3. QED
    BY <2>1, <2>2
<1>5. CASE Refrescar(t)
  <2>1. EfectoTokens(t)
    <3>1. /\ pc[t] = "refrescar" /\ red' = red /\ tok' = tok /\ ciega' = ciega
          /\ pc'[t] \in {"guardar", "login", "liberar_error"}
      BY <1>5, <1>a DEF Refrescar, Ir, TipoTareas
    <3>2. \/ emitidos' = emitidos + 1 /\ loc'[P(t)].acc = emitidos' /\ vencidos' = vencidos
          \/ NoRenueva(t) /\ pc'[t] # "guardar"
      BY <1>5, <1>a, EmiteHace DEF Refrescar, Ir, TipoTareas
    <3>3. QED
      BY <3>1, <3>2, NoRenuevaHace DEF EfectoTokens, EmiteUno, ConLockLocal, BajoLock
  <2>2. EfectoLock(t)
    BY <1>5, <1>a DEF Refrescar, Ir, Bien, Falla, Emite, Par, EfectoLock, TipoTareas, BajoLock
  <2>3. QED
    BY <2>1, <2>2
<1>6. CASE Login(t)
  <2>1. EfectoTokens(t)
    <3>1. /\ pc[t] = "login" /\ red' = red /\ tok' = tok /\ ciega' = ciega
          /\ pc'[t] \in {"guardar", "login", "liberar_error"}
      BY <1>6, <1>a DEF Login, Ir, TipoTareas
    <3>2. \/ emitidos' = emitidos + 1 /\ loc'[P(t)].acc = emitidos' /\ vencidos' = vencidos
          \/ NoRenueva(t) /\ pc'[t] # "guardar"
      BY <1>6, <1>a, EmiteHace DEF Login, Ir, TipoTareas
    <3>3. QED
      BY <3>1, <3>2, NoRenuevaHace DEF EfectoTokens, EmiteUno, ConLockLocal, BajoLock
  <2>2. EfectoLock(t)
    BY <1>6, <1>a DEF Login, Ir, Bien, Falla, Emite, Par, EfectoLock, TipoTareas, BajoLock
  <2>3. QED
    BY <2>1, <2>2
<1>7. CASE Guardar(t)
  <2>1. EfectoTokens(t)
    BY <1>7, <1>a DEF Guardar, Ir, Bien, Falla, EfectoTokens, EmiteUno, TipoTokens, TipoTareas, sfcVars, ConLockLocal, BajoLock
  <2>2. EfectoLock(t)
    BY <1>7, <1>a DEF Guardar, Ir, Bien, Falla, EfectoLock, TipoTareas, BajoLock
  <2>3. QED
    BY <2>1, <2>2
<1>8. CASE Enviar(t)
  <2>1. EfectoTokens(t)
    BY <1>8, <1>a DEF Enviar, Ir, Termina, EfectoTokens, EmiteUno, TipoTokens, TipoTareas, sfcVars, ConLockLocal, BajoLock
  <2>2. EfectoLock(t)
    BY <1>8, <1>a DEF Enviar, Ir, Termina, EfectoLock, TipoTareas, BajoLock
  <2>3. QED
    BY <2>1, <2>2
<1>9. CASE Invalidar(t)
  <2>1. EfectoTokens(t)
    BY <1>9, <1>a DEF Invalidar, Ir, Bien, Falla, TrasInvalidar, SinToken, Par, EfectoTokens, EmiteUno, TipoTokens, TipoTareas, sfcVars, ConLockLocal, BajoLock
  <2>2. EfectoLock(t)
    BY <1>9, <1>a DEF Invalidar, Ir, Bien, Falla, TrasInvalidar, SinToken, Par, EfectoLock, TipoTareas, BajoLock
  <2>3. QED
    BY <2>1, <2>2
<1>10. CASE Reenviar(t)
  <2>1. EfectoTokens(t)
    BY <1>10, <1>a DEF Reenviar, Ir, Termina, EfectoTokens, EmiteUno, TipoTokens, TipoTareas, sfcVars, ConLockLocal, BajoLock
  <2>2. EfectoLock(t)
    BY <1>10, <1>a DEF Reenviar, Ir, Termina, EfectoLock, TipoTareas, BajoLock
  <2>3. QED
    BY <2>1, <2>2
<1>11. CASE Verificar(t)
  <2>1. EfectoTokens(t)
    BY <1>11, <1>a DEF Verificar, Ir, Sigue, Obtiene, Bien, Falla, EfectoTokens, EmiteUno, TipoTokens, TipoTareas, sfcVars, ConLockLocal, BajoLock
  <2>2. EfectoLock(t)
    BY <1>11, <1>a DEF Verificar, Ir, Sigue, Obtiene, Bien, Falla, EfectoLock, TipoTareas, BajoLock
  <2>3. QED
    BY <2>1, <2>2
<1>12. CASE Cargar(t)
  <2>1. EfectoTokens(t)
    BY <1>12, <1>a DEF Cargar, Ir, Sigue, Obtiene, Carga, Bien, Falla, EfectoTokens, EmiteUno, TipoTokens, TipoTareas, sfcVars, ConLockLocal, BajoLock
  <2>2. EfectoLock(t)
    BY <1>12, <1>a DEF Cargar, Ir, Sigue, Obtiene, Carga, Bien, Falla, EfectoLock, TipoTareas, BajoLock
  <2>3. QED
    BY <2>1, <2>2
<1>13. CASE Esperar(t)
  <2>1. EfectoTokens(t)
    BY <1>13, <1>a DEF Esperar, Ir, Sigue, Obtiene, Carga, Bien, Falla, EfectoTokens, EmiteUno, TipoTokens, TipoTareas, sfcVars, ConLockLocal, BajoLock
  <2>2. EfectoLock(t)
    BY <1>13, <1>a DEF Esperar, Ir, Sigue, Obtiene, Carga, Bien, Falla, EfectoLock, TipoTareas, BajoLock
  <2>3. QED
    BY <2>1, <2>2
<1>14. CASE Liberar(t)
  <2>1. EfectoTokens(t)
    BY <1>14, <1>a DEF Liberar, Ir, Termina, Obtiene, Excepciona, Bien, Falla, EfectoTokens, EmiteUno, TipoTokens, TipoTareas, sfcVars, ConLockLocal, BajoLock
  <2>2. EfectoLock(t)
    BY <1>14, <1>a DEF Liberar, Ir, Termina, Obtiene, Excepciona, Bien, Falla, EfectoLock, TipoTareas, BajoLock
  <2>3. QED
    BY <2>1, <2>2
<1>15. CASE Directo(t)
  <2>1. EfectoTokens(t)
    <3>1. pc[t] = "directo" /\ red' = red /\ ciega' = ciega
      BY <1>15 DEF Directo
    <3>2. CASE emitidos' = emitidos + 1 /\ loc'[P(t)].acc = emitidos' /\ vencidos' = vencidos
               /\ Obtiene(t, emitidos + 1)
      <4>1. /\ tok' = [tok EXCEPT ![t] = IF fase[t] = "pide" THEN emitidos + 1 ELSE @]
            /\ pc' = [pc EXCEPT ![t] = IF fase[t] = "pide" THEN "enviar" ELSE "reenviar"]
        BY <3>1, <3>2, ObtieneHace DEF ConLockLocal
      <4>2. tok'[t] \in {tok[t], emitidos'} /\ pc'[t] # "guardar"
        BY <3>2, <4>1 DEF TipoTokens, TipoTareas
      <4>3. QED
        BY <3>1, <3>2, <4>2 DEF EfectoTokens, EmiteUno, ConLockLocal
    <3>3. CASE NoRenueva(t) /\ Excepciona(t)
      <4>1. tok'[t] = 0 /\ pc'[t] # "guardar"
        BY <3>1, <3>3, ExcepcionaHace DEF ConLockLocal, TipoTokens, TipoTareas
      <4>2. QED
        BY <3>1, <3>3, <4>1, NoRenuevaHace DEF EfectoTokens, EmiteUno, ConLockLocal
    <3>4. QED
      BY <1>15, <3>2, <3>3, EmiteHace DEF Directo
  <2>2. EfectoLock(t)
    BY <1>15, <1>a DEF Directo, Ir, Termina, Obtiene, Excepciona, Bien, Falla, Emite, Par, EfectoLock, TipoTareas, BajoLock
  <2>3. QED
    BY <2>1, <2>2
<1>16. QED
  BY <1>1, <1>2, <1>3, <1>4, <1>5, <1>6, <1>7, <1>8, <1>9, <1>10, <1>11, <1>12, <1>13, <1>14,
     <1>15 DEF Avanza

\* Where a recovery comes from, and what it carries.
EfectoFase(t) ==
    /\ rechazados \subseteq rechazados'
    /\ fase'[t] = "recupera" /\ pc[t] # "inicio" =>
          /\ tok'[t] = tok[t] /\ pc[t] # "fin"
          /\ fase[t] = "recupera" \/ tok[t] \in rechazados'
    /\ pc'[t] \in {"invalidar", "reenviar"} => fase'[t] = "recupera"
    /\ pc'[t] # "inicio"
    /\ pc'[t] \in {"refrescar", "login"} => TrasRecargar(t) \/ Refrescar(t)
    /\ fase'[t] = "recupera" /\ pc'[t] \in ConLockLocal \ {"invalidar"} =>
          \/ Invalidar(t)
          \/ /\ pc[t] \in ConLockLocal \ {"invalidar"} /\ fase[t] = "recupera"
             /\ pc'[t] = "reenviar" => nuevo'[t] = loc'[P(t)].acc

\* What each step of a task does to the phase of its request (first try, retry, end).
LEMMA FasePaso ==
    ASSUME NEW t \in Tarea, Tipos, Avanza(t)
    PROVE  EfectoFase(t)
<1> USE ProcesoDeTarea DEF Tipos
<1>1. CASE Inicio(t)
  BY <1>1 DEF Inicio, Ir, sfcVars, EfectoFase, TipoTokens, TipoTareas, ConLockLocal, BajoLock
<1>2. CASE LockLocal(t)
  BY <1>2 DEF LockLocal, Ir, sfcVars, EfectoFase, TipoTokens, TipoTareas, ConLockLocal, BajoLock
<1>3. CASE Competir(t)
  BY <1>3 DEF Competir, Ir, sfcVars, EfectoFase, TipoTokens, TipoTareas, ConLockLocal, BajoLock
<1>4. CASE TrasRecargar(t)
  BY <1>4 DEF TrasRecargar, Ir, Sigue, sfcVars, EfectoFase, TipoTokens, TipoTareas, ConLockLocal, BajoLock
<1>5. CASE Refrescar(t)
  BY <1>5 DEF Refrescar, Ir, Emite, NoRenueva, Malforma, sfcVars, EfectoFase, TipoTokens, TipoTareas, ConLockLocal, BajoLock
<1>6. CASE Login(t)
  BY <1>6 DEF Login, Ir, Emite, NoRenueva, Malforma, sfcVars, EfectoFase, TipoTokens, TipoTareas, ConLockLocal, BajoLock
<1>7. CASE Guardar(t)
  BY <1>7 DEF Guardar, Ir, sfcVars, EfectoFase, TipoTokens, TipoTareas, ConLockLocal, BajoLock
<1>8. CASE Enviar(t)
  BY <1>8 DEF Enviar, Ir, Termina, EfectoFase, TipoTokens, TipoTareas, ConLockLocal, BajoLock
<1>9. CASE Invalidar(t)
  BY <1>9 DEF Invalidar, Ir, TrasInvalidar, sfcVars, EfectoFase, TipoTokens, TipoTareas, ConLockLocal, BajoLock
<1>10. CASE Reenviar(t)
  BY <1>10 DEF Reenviar, Ir, Termina, EfectoFase, TipoTokens, TipoTareas, ConLockLocal, BajoLock
<1>11. CASE Verificar(t)
  BY <1>11 DEF Verificar, Ir, Sigue, Obtiene, sfcVars, EfectoFase, TipoTokens, TipoTareas, ConLockLocal, BajoLock
<1>12. CASE Cargar(t)
  BY <1>12 DEF Cargar, Ir, Sigue, Obtiene, sfcVars, EfectoFase, TipoTokens, TipoTareas, ConLockLocal, BajoLock
<1>13. CASE Esperar(t)
  BY <1>13 DEF Esperar, Ir, Sigue, Obtiene, sfcVars, EfectoFase, TipoTokens, TipoTareas, ConLockLocal, BajoLock
<1>14. CASE Liberar(t)
  BY <1>14 DEF Liberar, Ir, Termina, Obtiene, Excepciona, sfcVars, EfectoFase, TipoTokens, TipoTareas, ConLockLocal, BajoLock
<1>15. CASE Directo(t)
  <2>1. pc[t] = "directo" /\ rechazados' = rechazados
    BY <1>15, EmiteHace, NoRenuevaHace DEF Directo
  <2>2. CASE emitidos' = emitidos + 1 /\ loc'[P(t)].acc = emitidos' /\ Obtiene(t, emitidos + 1)
    <3>1. /\ tok' = [tok EXCEPT ![t] = IF fase[t] = "pide" THEN emitidos + 1 ELSE @]
          /\ nuevo' = [nuevo EXCEPT ![t] = IF fase[t] = "pide" THEN @ ELSE emitidos + 1]
          /\ pc' = [pc EXCEPT ![t] = IF fase[t] = "pide" THEN "enviar" ELSE "reenviar"]
          /\ fase' = fase
      BY <2>1, <2>2, ObtieneHace DEF ConLockLocal
    <3>2. QED
      BY <2>1, <2>2, <3>1 DEF EfectoFase, TipoTokens, TipoTareas, ConLockLocal, BajoLock
  <2>3. CASE Excepciona(t)
    <3>1. pc' = [pc EXCEPT ![t] = "fin"] /\ fase' = [fase EXCEPT ![t] = "pide"]
      BY <2>1, <2>3, ExcepcionaHace DEF ConLockLocal
    <3>2. pc'[t] = "fin" /\ fase'[t] = "pide"
      BY <3>1 DEF TipoTareas
    <3>3. QED
      BY <2>1, <3>2 DEF EfectoFase, ConLockLocal, BajoLock
  <2>4. QED
    BY <1>15, <2>2, <2>3, EmiteHace DEF Directo
<1>16. QED
  BY <1>1, <1>2, <1>3, <1>4, <1>5, <1>6, <1>7, <1>8, <1>9, <1>10, <1>11, <1>12, <1>13, <1>14,
     <1>15 DEF Avanza

-----------------------------------------------------------------------------
(* The inductive invariant.                                                 *)

\* Whoever renews under the lock owns its lease, unless a lease was lost.
Arrienda == \A t \in Tarea : Duena(t) /\ ~perdido => lockR = P(t)

\* Whoever is about to renew has seen that the shared token is no good.
RenuevaCaducado ==
    \A t \in Tarea :
        pc[t] \in {"refrescar", "login"} /\ t \notin ciega /\ ~perdido => ~Vigente(red)

\* A recovery is about a token that the SFC answered 401 to.
RecuperaRechazado ==
    \A t \in Tarea :
        /\ fase[t] = "recupera" /\ pc[t] # "fin" => tok[t] \in rechazados
        /\ pc[t] \in {"invalidar", "reenviar"} => fase[t] = "recupera"
        /\ pc[t] = "inicio" => fase[t] = "pide"

\* What is about to be saved is new: only its process knows it.
GuardaNuevo ==
    \A t \in Tarea : pc[t] = "guardar" =>
        /\ loc[P(t)].acc # 0 /\ red.acc # loc[P(t)].acc
        /\ \A q \in Proceso : q # P(t) => loc[q].acc # loc[P(t)].acc
        /\ \A u \in Tarea : P(u) # P(t) => tok[u] # loc[P(t)].acc

\* After its invalidation, a recovery finds the rejected token nowhere.
RechazadoOlvidado ==
    \A t \in Tarea :
        /\ fase[t] = "recupera" /\ pc[t] \in ConLockLocal \ {"invalidar"} /\ t \notin ciega
        => /\ red.acc # tok[t] /\ loc[P(t)].acc # tok[t]
           /\ pc[t] = "reenviar" => nuevo[t] # tok[t]

IInv == Tipos /\ Arrienda /\ RenuevaCaducado /\ RecuperaRechazado /\ GuardaNuevo /\ RechazadoOlvidado

\* The inductive invariant holds at the start.
LEMMA InvInicio == Init => IInv
<1> SUFFICES ASSUME Init PROVE IInv
  OBVIOUS
<1>1. Tipos
  BY TiposInicio
<1>2. \A t \in Tarea : pc[t] = "inicio" /\ fase[t] = "pide"
  BY DEF Init
<1>3. QED
  BY <1>1, <1>2 DEF IInv, Arrienda, RenuevaCaducado, RecuperaRechazado, GuardaNuevo,
                    RechazadoOlvidado, Duena, BajoLock, ConLockLocal

\* Two tasks past the local lock belong to different processes.
LEMMA Exclusivo ==
    ASSUME Tipos, NEW t \in Tarea, NEW u \in Tarea, t # u,
           pc[t] \in ConLockLocal, pc[u] \in ConLockLocal
    PROVE  P(t) # P(u)
BY DEF Tipos, TipoLocks

\* While u holds the local lock, nobody else changes the cache of its process.
LEMMA CacheAjena ==
    ASSUME Tipos, NEW t \in Tarea, NEW u \in Tarea, t # u, Avanza(t), pc[u] \in ConLockLocal
    PROVE  loc'[P(u)] = loc[P(u)]
<1>1. CASE pc[t] \in ConLockLocal
  BY <1>1, Exclusivo, AvanzaPaso, ProcesoDeTarea DEF Aisla
<1>2. CASE pc[t] \notin ConLockLocal
  BY <1>2, EfectoPaso DEF EfectoTokens
<1>3. QED
  BY <1>1, <1>2

\* Whoever renews under the lock still owns its lease after any step, unless one was lost.
LEMMA ArriendaPaso ==
    ASSUME IInv, NEW t \in Tarea, Avanza(t)
    PROVE  Arrienda'
<1> SUFFICES ASSUME NEW u \in Tarea, Duena(u)', ~perdido' PROVE lockR' = P(u)
  BY DEF Arrienda, P
<1>1. Aisla(t) /\ EfectoLock(t)
  BY AvanzaPaso, EfectoPaso DEF IInv
<1>2. CASE u = t
  BY <1>1, <1>2 DEF EfectoLock, IInv, Arrienda, Duena
<1>3. CASE u # t
  <2>1. pc[u] \in BajoLock /\ lockR = P(u)
    BY <1>1, <1>3 DEF Aisla, EfectoLock, IInv, Arrienda, Duena
  <2>2. lockR # Nadie
    BY <2>1, ProcesoDeTarea, NadieAparte
  <2>3. pc[t] \notin BajoLock
    BY <1>1, <1>3, <2>1, Exclusivo DEF EfectoLock, IInv, Arrienda, Duena, ConLockLocal
  <2>4. QED
    BY <1>1, <2>1, <2>2, <2>3 DEF EfectoLock
<1>4. QED
  BY <1>2, <1>3

\* The shared token is still no good when a task is about to renew, after any step.
LEMMA RenuevaPaso ==
    ASSUME IInv, NEW t \in Tarea, Avanza(t)
    PROVE  RenuevaCaducado'
<1> SUFFICES ASSUME NEW u \in Tarea, pc'[u] \in {"refrescar", "login"}, u \notin ciega', ~perdido'
             PROVE  ~Vigente(red)'
  BY DEF RenuevaCaducado
<1>1. Aisla(t) /\ EfectoLock(t) /\ EfectoTokens(t) /\ EfectoFase(t)
  BY AvanzaPaso, EfectoPaso, FasePaso DEF IInv
<1>2. u \notin ciega /\ ~perdido /\ vencidos' = vencidos
  BY <1>1 DEF EfectoTokens, EfectoLock
<1>3. CASE u = t
  <2>1. CASE TrasRecargar(t)
    <3>1. /\ pc[t] = "recargar" /\ red' = red /\ Carga(t)
          /\ pc' = [pc EXCEPT ![t] = IF Vigente(loc'[P(t)]) THEN "liberar"
                                     ELSE IF loc'[P(t)].ref # 0 THEN "refrescar" ELSE "login"]
      BY <2>1 DEF TrasRecargar, RecargaBajoLock, Sigue, Ir
    <3>2. ~Vigente(loc'[P(t)])
      BY <1>3, <3>1 DEF IInv, Tipos, TipoTareas
    <3>3. loc'[P(t)] = red \/ red = SinToken
      BY <1>2, <1>3, <3>1, CargaHace DEF IInv
    <3>4. QED
      BY <1>2, <3>1, <3>2, <3>3 DEF Vigente, SinToken
  <2>2. CASE Refrescar(t)
    BY <1>2, <1>3, <2>2 DEF Refrescar, Vigente, IInv, RenuevaCaducado
  <2>3. QED
    BY <1>1, <1>3, <2>1, <2>2 DEF EfectoFase
<1>4. CASE u # t
  <2>1. pc[u] \in {"refrescar", "login"}
    BY <1>1, <1>4 DEF Aisla
  <2>2. ~Vigente(red)
    BY <1>2, <2>1 DEF IInv, RenuevaCaducado
  <2>3. pc[t] # "guardar"
    BY <1>2, <1>4, <2>1, Exclusivo DEF IInv, Arrienda, Duena, BajoLock, ConLockLocal
  <2>4. red' = red \/ red' = SinToken
    BY <1>1, <2>3 DEF EfectoTokens
  <2>5. QED
    BY <1>2, <2>2, <2>4 DEF Vigente, SinToken
<1>5. QED
  BY <1>3, <1>4

\* A recovery is still about a token the SFC answered 401 to, after any step.
LEMMA RecuperaPaso ==
    ASSUME IInv, NEW t \in Tarea, Avanza(t)
    PROVE  RecuperaRechazado'
<1> SUFFICES ASSUME NEW u \in Tarea
             PROVE  /\ fase'[u] = "recupera" /\ pc'[u] # "fin" => tok'[u] \in rechazados'
                    /\ pc'[u] \in {"invalidar", "reenviar"} => fase'[u] = "recupera"
                    /\ pc'[u] = "inicio" => fase'[u] = "pide"
  BY DEF RecuperaRechazado
<1>1. Aisla(t) /\ EfectoFase(t)
  BY AvanzaPaso, FasePaso DEF IInv
<1>2. CASE u # t
  BY <1>1, <1>2 DEF Aisla, EfectoFase, IInv, RecuperaRechazado
<1>3. CASE u = t /\ pc[t] # "inicio"
  BY <1>1, <1>3 DEF EfectoFase, IInv, RecuperaRechazado
<1>4. CASE u = t /\ pc[t] = "inicio"
  <2>1. Inicio(t)
    BY <1>4 DEF Avanza, Inicio, LockLocal, Verificar, Cargar, Competir, Esperar, TrasRecargar,
               Refrescar, Login, Guardar, Liberar, Directo, Enviar, Invalidar, Reenviar
  <2>2. fase'[t] = "pide"
    BY <1>4, <2>1 DEF Inicio, IInv, RecuperaRechazado
  <2>3. QED
    BY <1>1, <1>4, <2>2 DEF EfectoFase
<1>5. QED
  BY <1>2, <1>3, <1>4

\* Every token in sight has been emitted.
LEMMA Emitidos ==
    ASSUME Tipos
    PROVE  /\ emitidos \in Nat /\ red.acc \in 0..emitidos
           /\ \A q \in Proceso : loc[q].acc \in 0..emitidos
           /\ \A t \in Tarea : tok[t] \in 0..emitidos
BY DEF Tipos, TipoTokens, Token

\* What is about to be saved is still known to its process only, after any step.
LEMMA GuardaPaso ==
    ASSUME IInv, NEW t \in Tarea, Avanza(t)
    PROVE  GuardaNuevo'
<1> SUFFICES ASSUME NEW u \in Tarea, pc'[u] = "guardar"
             PROVE  /\ loc'[P(u)].acc # 0 /\ red'.acc # loc'[P(u)].acc
                    /\ \A q \in Proceso : q # P(u) => loc'[q].acc # loc'[P(u)].acc
                    /\ \A v \in Tarea : P(v) # P(u) => tok'[v] # loc'[P(u)].acc
  BY DEF GuardaNuevo, P
<1> DEFINE a == loc'[P(u)].acc
<1>1. Aisla(t) /\ EfectoTokens(t)
  BY AvanzaPaso, EfectoPaso DEF IInv
<1>2. /\ emitidos \in Nat /\ red.acc \in 0..emitidos
      /\ \A q \in Proceso : loc[q].acc \in 0..emitidos
      /\ \A v \in Tarea : tok[v] \in 0..emitidos
  BY Emitidos DEF IInv
<1>3. P(t) \in Proceso /\ P(u) \in Proceso /\ SinToken.acc = 0
  BY ProcesoDeTarea DEF SinToken
<1>4. CASE u = t
  <2>1. a = emitidos + 1
    BY <1>1, <1>4 DEF EfectoTokens
  <2>2. red'.acc # a
    BY <1>1, <1>2, <1>3, <2>1 DEF EfectoTokens
  <2>3. \A q \in Proceso : q # P(t) => loc'[q].acc # a
    BY <1>1, <1>2, <2>1 DEF Aisla
  <2>4. \A v \in Tarea : P(v) # P(t) => tok'[v] # a
    BY <1>1, <1>2, <2>1 DEF Aisla
  <2>5. QED
    BY <1>2, <1>4, <2>1, <2>2, <2>3, <2>4
<1>5. CASE u # t
  <2>1. pc[u] = "guardar" /\ pc[u] \in ConLockLocal
    BY <1>1, <1>5 DEF Aisla, ConLockLocal, BajoLock
  <2>2. loc'[P(u)] = loc[P(u)]
    BY <1>5, <2>1, CacheAjena DEF IInv
  <2>3. /\ a # 0 /\ red.acc # a /\ a \in 0..emitidos
        /\ \A q \in Proceso : q # P(u) => loc[q].acc # a
        /\ \A v \in Tarea : P(v) # P(u) => tok[v] # a
    BY <1>2, <1>3, <2>1, <2>2 DEF IInv, GuardaNuevo
  <2>4. red'.acc # a
    <3>1. pc[t] = "guardar" => P(t) # P(u)
      BY <1>5, <2>1, Exclusivo DEF IInv, ConLockLocal, BajoLock
    <3>2. QED
      BY <1>1, <1>3, <2>3, <3>1 DEF EfectoTokens
  <2>5. P(t) # P(u) => loc'[P(t)].acc # a
    BY <1>1, <1>2, <1>3, <2>3 DEF EfectoTokens
  <2>6. \A q \in Proceso : q # P(u) => loc'[q].acc # a
    BY <1>1, <2>3, <2>5 DEF Aisla
  <2>7. \A v \in Tarea : P(v) # P(u) => tok'[v] # a
    BY <1>1, <2>3, <2>5 DEF Aisla, EfectoTokens
  <2>8. QED
    BY <2>3, <2>4, <2>6, <2>7
<1>6. QED
  BY <1>4, <1>5

\* A rejected token does not come back to Redis, to the process or to the retry.
LEMMA OlvidadoPaso ==
    ASSUME IInv, NEW t \in Tarea, Avanza(t)
    PROVE  RechazadoOlvidado'
<1> SUFFICES ASSUME NEW u \in Tarea, fase'[u] = "recupera",
                    pc'[u] \in ConLockLocal \ {"invalidar"}, u \notin ciega'
             PROVE  /\ red'.acc # tok'[u] /\ loc'[P(u)].acc # tok'[u]
                    /\ pc'[u] = "reenviar" => nuevo'[u] # tok'[u]
  BY DEF RechazadoOlvidado, P
<1>1. Aisla(t) /\ EfectoTokens(t) /\ EfectoFase(t)
  BY AvanzaPaso, EfectoPaso, FasePaso DEF IInv
<1>2. /\ emitidos \in Nat /\ red.acc \in 0..emitidos /\ tok[u] \in 0..emitidos
      /\ loc[P(u)].acc \in 0..emitidos
  BY Emitidos, ProcesoDeTarea DEF IInv
<1>3. P(t) \in Proceso /\ P(u) \in Proceso /\ SinToken.acc = 0
  BY ProcesoDeTarea DEF SinToken
<1>4. u \notin ciega
  BY <1>1 DEF EfectoTokens
<1>5. fase[u] = "recupera" /\ pc[u] # "fin" => tok[u] # 0
  <2>1. fase[u] = "recupera" /\ pc[u] # "fin" => tok[u] \in 1..emitidos
    BY DEF IInv, RecuperaRechazado, Tipos, TipoSfc
  <2>2. QED
    BY <1>2, <2>1
<1>6. CASE u # t
  <2>1. /\ fase[u] = "recupera" /\ pc[u] \in ConLockLocal \ {"invalidar"}
        /\ tok'[u] = tok[u] /\ nuevo'[u] = nuevo[u] /\ pc'[u] = pc[u]
    BY <1>1, <1>6 DEF Aisla
  <2>2. /\ red.acc # tok[u] /\ loc[P(u)].acc # tok[u]
        /\ pc[u] = "reenviar" => nuevo[u] # tok[u]
    BY <1>4, <2>1 DEF IInv, RechazadoOlvidado
  <2>3. loc'[P(u)] = loc[P(u)]
    BY <1>6, <2>1, CacheAjena DEF IInv
  <2>4. tok[u] # 0
    BY <1>5, <2>1 DEF ConLockLocal, BajoLock
  <2>5. pc[t] = "guardar" => loc[P(t)].acc # tok[u]
    <3>1. pc[t] = "guardar" => P(t) # P(u)
      BY <1>6, <2>1, Exclusivo DEF IInv, ConLockLocal, BajoLock
    <3>2. QED
      BY <3>1 DEF IInv, GuardaNuevo
  <2>6. red'.acc # tok[u]
    BY <1>1, <1>3, <2>2, <2>4, <2>5 DEF EfectoTokens
  <2>7. QED
    BY <2>1, <2>2, <2>3, <2>6
<1>7. CASE u = t /\ Invalidar(t)
  <2>1. /\ pc[t] = "invalidar" /\ tok' = tok /\ pc'[t] # "reenviar"
        /\ loc' = [loc EXCEPT ![P(t)] = IF @.acc = tok[t] THEN Par(0, @.ref) ELSE @]
        /\ red' = IF CoincideCompartido(t) THEN SinToken ELSE red
    <3>1. ciega' # ciega \cup {t}
      BY <1>7
    <3>2. QED
      BY <1>7, <3>1 DEF Invalidar, Ir, TrasInvalidar, IInv, Tipos, TipoTareas
  <2>2. tok[t] # 0
    BY <1>5, <1>7, <2>1 DEF IInv, RecuperaRechazado
  <2>3. red'.acc # tok[t]
    BY <1>3, <2>1, <2>2 DEF CoincideCompartido
  <2>4. loc'[P(t)].acc # tok[t]
    BY <1>3, <2>1, <2>2 DEF Par, IInv, Tipos, TipoTokens
  <2>5. QED
    BY <1>7, <2>1, <2>3, <2>4
<1>8. CASE u = t /\ ~Invalidar(t)
  <2>1. /\ pc[t] \in ConLockLocal \ {"invalidar"} /\ fase[t] = "recupera"
        /\ pc'[t] = "reenviar" => nuevo'[t] = loc'[P(t)].acc
    BY <1>1, <1>8 DEF EfectoFase
  <2>2. pc[t] # "fin" /\ pc[t] # "inicio"
    BY <2>1 DEF ConLockLocal, BajoLock
  <2>3. tok'[t] = tok[t] /\ tok[t] # 0
    BY <1>1, <1>5, <1>8, <2>1, <2>2 DEF EfectoFase
  <2>4. red.acc # tok[t] /\ loc[P(t)].acc # tok[t]
    BY <1>4, <1>8, <2>1 DEF IInv, RechazadoOlvidado
  <2>5. red'.acc # tok[t]
    BY <1>1, <1>3, <2>3, <2>4 DEF EfectoTokens
  <2>6. loc'[P(t)].acc # tok[t]
    BY <1>1, <1>2, <1>8, <2>3, <2>4 DEF EfectoTokens
  <2>7. QED
    BY <1>8, <2>1, <2>3, <2>5, <2>6
<1>9. QED
  BY <1>6, <1>7, <1>8

\* The inductive invariant is kept by every step, one part at a time.
LEMMA InvPaso == IInv /\ [Next]_vars => IInv'
<1> SUFFICES ASSUME IInv, [Next]_vars PROVE IInv'
  OBVIOUS
<1>a. Tipos'
  BY TiposPaso DEF IInv
<1> USE DEF Arrienda, RenuevaCaducado, RecuperaRechazado, GuardaNuevo, RechazadoOlvidado
<1>1. ASSUME NEW t \in Tarea, Avanza(t) PROVE IInv'
  BY <1>1, <1>a, ArriendaPaso, RenuevaPaso, RecuperaPaso, GuardaPaso, OlvidadoPaso DEF IInv
<1>2. CASE Vencer \/ \E n \in 1..emitidos : Revocar(n)
  <2>1. /\ loc' = loc /\ red' = red /\ lockR' = lockR /\ pc' = pc /\ fase' = fase /\ tok' = tok
        /\ nuevo' = nuevo /\ rechazados' = rechazados /\ ciega' = ciega /\ perdido' = perdido
    BY <1>2 DEF Vencer, Revocar, tareaVars
  <2>2. vencidos \subseteq vencidos'
    BY <1>2 DEF Vencer, Revocar
  <2>3. RenuevaCaducado'
    BY <2>1, <2>2 DEF IInv, Vigente
  <2>4. QED
    BY <1>a, <2>1, <2>3 DEF IInv, Duena, P
<1>3. ASSUME NEW p \in Proceso, Muere(p) PROVE IInv'
  <2>1. /\ loc' = [loc EXCEPT ![p] = SinToken] /\ red' = red /\ lockR' = lockR
        /\ fase' = fase /\ tok' = tok /\ nuevo' = nuevo /\ rechazados' = rechazados
        /\ vencidos' = vencidos /\ ciega' = ciega /\ perdido' = perdido
    BY <1>3 DEF Muere, sfcVars
  <2>2. \A t \in Tarea : pc'[t] = IF P(t) = p /\ pc[t] # "fin" THEN "fin" ELSE pc[t]
    BY <1>3 DEF Muere
  <2>3. \A t \in Tarea : pc'[t] # "fin" => pc'[t] = pc[t] /\ P(t) # p /\ loc'[P(t)] = loc[P(t)]
    BY <2>1, <2>2, ProcesoDeTarea DEF IInv, Tipos, TipoTokens
  <2>4. Arrienda' /\ RenuevaCaducado'
    BY <2>1, <2>3 DEF IInv, Duena, BajoLock, Vigente, P
  <2>5. RecuperaRechazado'
    BY <2>1, <2>3 DEF IInv
  <2>6. GuardaNuevo'
    <3>1. \A q \in Proceso : loc'[q].acc \in {0, loc[q].acc}
      BY <2>1 DEF SinToken, IInv, Tipos, TipoTokens
    <3>2. \A t \in Tarea : pc'[t] = "guardar" => pc[t] = "guardar" /\ loc'[P(t)] = loc[P(t)]
      BY <2>3
    <3>3. QED
      BY <2>1, <3>1, <3>2 DEF IInv, P
  <2>7. RechazadoOlvidado'
    BY <2>1, <2>3 DEF IInv, ConLockLocal, BajoLock, P
  <2>8. QED
    BY <1>a, <2>4, <2>5, <2>6, <2>7 DEF IInv
<1>4. CASE VenceLock
  <2>1. /\ loc' = loc /\ red' = red /\ pc' = pc /\ fase' = fase /\ tok' = tok /\ nuevo' = nuevo
        /\ rechazados' = rechazados /\ vencidos' = vencidos /\ ciega' = ciega
    BY <1>4 DEF VenceLock, tareaVars, sfcVars
  <2>2. Arrienda'
    <3>1. CASE perdido'
      BY <3>1
    <3>2. CASE ~perdido'
      <4>1. ~perdido /\ ~\E t \in Tarea : P(t) = lockR /\ Duena(t)
        BY <1>4, <3>2 DEF VenceLock
      <4>2. QED
        BY <2>1, <4>1 DEF IInv, Duena
    <3>3. QED
      BY <3>1, <3>2
  <2>3. RenuevaCaducado'
    <3>1. ~perdido' => ~perdido
      BY <1>4 DEF VenceLock
    <3>2. QED
      BY <2>1, <3>1 DEF IInv, Vigente
  <2>4. RecuperaRechazado' /\ GuardaNuevo' /\ RechazadoOlvidado'
    BY <2>1 DEF IInv, P
  <2>5. QED
    BY <1>a, <2>2, <2>3, <2>4 DEF IInv
<1>5. CASE UNCHANGED vars
  <2>1. /\ loc' = loc /\ red' = red /\ lockR' = lockR /\ pc' = pc /\ fase' = fase /\ tok' = tok
        /\ nuevo' = nuevo /\ rechazados' = rechazados /\ ciega' = ciega /\ perdido' = perdido
        /\ vencidos' = vencidos
    BY <1>5 DEF vars, tareaVars, sfcVars
  <2>2. QED
    BY <1>a, <2>1 DEF IInv, Duena, Vigente, P
<1>6. QED
  BY <1>1, <1>2, <1>3, <1>4, <1>5 DEF Next

\* The inductive invariant holds always.
LEMMA Invariante == Spec => []IInv
BY InvInicio, InvPaso, PTL DEF Spec

\* Nobody calls refresh or login under the lock while Redis holds a good
\* token, unless a lease was lost or a read failed
\* (_renovar_token_coordinado).
THEOREM RenovacionUnica == Spec => []SinRenovacionDoble
<1>1. IInv => SinRenovacionDoble
  BY DEF IInv, Arrienda, RenuevaCaducado, SinRenovacionDoble, Duena, BajoLock
<1>2. QED
  BY <1>1, Invariante, PTL

\* The second sending after a 401 carries another token, whatever the other
\* tasks and processes do (_invalidar_token_compartido_si_coincide).
THEOREM ReintentoDistinto == Spec => []ReintentoConOtroToken
<1>1. IInv => ReintentoConOtroToken
  <2> SUFFICES ASSUME IInv, NEW t \in Tarea, pc[t] = "reenviar", t \notin ciega
               PROVE  nuevo[t] # tok[t]
    BY DEF ReintentoConOtroToken
  <2>1. fase[t] = "recupera"
    BY DEF IInv, RecuperaRechazado
  <2>2. QED
    BY <2>1 DEF IInv, RechazadoOlvidado, ConLockLocal
<1>2. QED
  BY <1>1, Invariante, PTL

\* A token leaves Redis only after the SFC rejected that very token
\* (INVALIDATE_IF_MATCHES_LUA_SCRIPT).
THEOREM InvalidacionJustificada == Spec => SoloInvalidaRechazados
<1>1. ASSUME IInv, [Next]_vars, red # SinToken, red' = SinToken PROVE red.acc \in rechazados
  <2>1. PICK t \in Tarea : Avanza(t)
    BY <1>1 DEF Next, vars, Vencer, Revocar, Muere, VenceLock
  <2>2. Guardar(t) \/ Invalidar(t)
    BY <1>1, <2>1 DEF Avanza, Inicio, LockLocal, Verificar, Cargar, Competir, Esperar, TrasRecargar,
                      Refrescar, Login, Liberar, Directo, Enviar, Reenviar
  <2>3. CASE Guardar(t)
    <3>1. pc[t] = "guardar" /\ red' = loc[P(t)]
      BY <1>1, <2>3 DEF Guardar
    <3>2. QED
      BY <1>1, <3>1 DEF IInv, GuardaNuevo, SinToken
  <2>4. CASE Invalidar(t)
    <3>1. pc[t] = "invalidar" /\ red.acc = tok[t]
      BY <1>1, <2>4 DEF Invalidar, CoincideCompartido
    <3>2. QED
      BY <1>1, <3>1 DEF IInv, RecuperaRechazado
  <2>5. QED
    BY <2>2, <2>3, <2>4
<1>2. QED
  BY <1>1, Invariante, PTL DEF Spec, SoloInvalidaRechazados
=============================================================================
