---------------------------- MODULE LecturaProofs ----------------------------
(***************************************************************************)
(* Theorems about Lectura: what a reading of moments 1 and 4 delivers and  *)
(* what an acknowledgement answers, for any list, page, batch and limit.   *)
(***************************************************************************)
EXTENDS Lectura, Integers, FiniteSetTheorems, SequenceTheorems, TLAPS

-----------------------------------------------------------------------------
(* EnPosiciones enumerates the positions in their order: the rank is a      *)
(* bijection from the positions to the places of the result.                *)

\* Positions of different rank: the one in front has the smaller rank.
LEMMA RangoCrece ==
    ASSUME NEW K, IsFiniteSet(K), K \subseteq Nat,
           NEW i \in K, NEW j \in K, i < j
    PROVE  Rango(K, i) # Rango(K, j)
<1> DEFINE A == {l \in K : l <= i}
           B == {l \in K : l <= j}
<1>1. IsFiniteSet(B)
  <2>1. B \in SUBSET K
    OBVIOUS
  <2> HIDE DEF B
  <2> QED
    BY <2>1, FS_Subset
<1>2. A \in SUBSET B
  <2>1. \A l \in K : l <= i => l <= j
    BY i \in Nat, j \in Nat
  <2> QED
    BY <2>1
<1>3. j \in B /\ j \notin A
  BY i \in Nat, j \in Nat
<1>4. Cardinality(B) # Cardinality(A)
  <2> HIDE DEF A, B
  <2> QED
    BY <1>1, <1>2, <1>3, FS_Subset
<1> QED
  BY <1>4 DEF Rango

\* Every place of the result is the rank of a position.
LEMMA RangoCubre ==
    ASSUME NEW K, IsFiniteSet(K), K \subseteq Nat
    PROVE  \A k \in 1..Cardinality(K) : \E i \in K : Rango(K, i) = k
<1> DEFINE n == Cardinality(K)
           f == [i \in K |-> Rango(K, i)]
<1>1. n \in Nat
  BY FS_CardinalityType
<1>2. ASSUME NEW i \in K PROVE Rango(K, i) \in 1..n
  <2> DEFINE A == {l \in K : l <= i}
  <2>1. A \in SUBSET K /\ i \in A
    BY i \in Nat
  <2> HIDE DEF A
  <2>2. IsFiniteSet(A) /\ Cardinality(A) <= n
    BY <2>1, FS_Subset
  <2>3. Cardinality(A) \in Nat /\ Cardinality(A) # 0
    BY <2>1, <2>2, FS_CardinalityType, FS_EmptySet
  <2>4. Rango(K, i) = Cardinality(A)
    BY DEF Rango, A
  <2> QED
    BY <1>1, <2>2, <2>3, <2>4
<1>3. f \in [K -> 1..n]
  BY <1>2
<1>4. ASSUME NEW a \in K, NEW b \in K, f[a] = f[b] PROVE a = b
  <2>1. Rango(K, a) = Rango(K, b)
    BY <1>4
  <2>2. ~(a < b) /\ ~(b < a)
    BY <2>1, RangoCrece
  <2> QED
    BY <2>2, a \in Nat, b \in Nat
<1>5. f \in Injection(K, 1..n)
  BY <1>3, <1>4, Zenon DEF Injection, IsInjective
<1>6. IsFiniteSet(1..n) /\ Cardinality(1..n) = n
  BY <1>1, FS_Interval
<1>7. f \in Surjection(K, 1..n)
  <2> HIDE DEF f
  <2> QED
    BY <1>5, <1>6, FS_Injection
<1>8. ASSUME NEW k \in 1..n PROVE \E i \in K : Rango(K, i) = k
  BY <1>7, <1>8 DEF Surjection
<1> QED
  BY <1>8

\* What EnPosiciones returns: as many elements as positions, and exactly theirs.
LEMMA EnPosicionesCuenta ==
    ASSUME NEW T, NEW s \in Seq(T), NEW K \in SUBSET DOMAIN s
    PROVE  /\ EnPosiciones(s, K) \in Seq(T)
           /\ IsFiniteSet(K)
           /\ Len(EnPosiciones(s, K)) = Cardinality(K)
           /\ ToSet(EnPosiciones(s, K)) = {s[i] : i \in K}
<1> DEFINE n == Cardinality(K)
           pos(k) == CHOOSE i \in K : Rango(K, i) = k
           e == EnPosiciones(s, K)
<1>1. DOMAIN s = 1..Len(s) /\ Len(s) \in Nat
  BY LenProperties
<1>2. IsFiniteSet(K) /\ K \subseteq Nat
  <2>1. IsFiniteSet(1..Len(s)) /\ K \in SUBSET (1..Len(s))
    BY <1>1, FS_Interval
  <2> QED
    BY <2>1, FS_Subset
<1>3. n \in Nat
  BY <1>2, FS_CardinalityType
<1>4. \A k \in 1..n : \E i \in K : Rango(K, i) = k
  BY <1>2, RangoCubre
<1>5. \A k \in 1..n : pos(k) \in K /\ Rango(K, pos(k)) = k
  BY <1>4
<1>6. e = [k \in 1..n |-> s[pos(k)]]
  BY DEF EnPosiciones
<1> HIDE DEF e, pos, n
<1>7. \A k \in 1..n : s[pos(k)] \in T
  BY <1>1, <1>5, ElementOfSeq
<1>8. e \in [1..n -> T]
  BY <1>6, <1>7
<1>9. e \in Seq(T) /\ Len(e) = n /\ DOMAIN e = 1..n
  BY <1>3, <1>8
<1>10. ASSUME NEW i \in K PROVE \E k \in 1..n : pos(k) = i
  <2>1. Rango(K, i) \in 1..n
    <3> DEFINE A == {l \in K : l <= i}
    <3>1. A \in SUBSET K /\ i \in A
      BY <1>2
    <3> HIDE DEF A
    <3>2. IsFiniteSet(A) /\ Cardinality(A) <= n
      BY <1>2, <3>1, FS_Subset DEF n
    <3>3. Cardinality(A) \in Nat /\ Cardinality(A) # 0
      BY <3>1, <3>2, FS_CardinalityType, FS_EmptySet
    <3>4. Rango(K, i) = Cardinality(A)
      BY DEF Rango, A
    <3> QED
      BY <1>3, <3>2, <3>3, <3>4
  <2>2. PICK k \in 1..n : k = Rango(K, i)
    BY <2>1
  <2>3. pos(k) \in K /\ Rango(K, pos(k)) = Rango(K, i)
    BY <1>5, <2>2
  <2>4. ~(pos(k) < i) /\ ~(i < pos(k))
    BY <1>2, <2>3, RangoCrece
  <2> QED
    BY <1>2, <2>3, <2>4
<1>11. ToSet(e) = {s[i] : i \in K}
  <2>1. ToSet(e) = {e[k] : k \in 1..n}
    BY <1>9 DEF ToSet
  <2>2. \A k \in 1..n : e[k] = s[pos(k)] /\ pos(k) \in K
    BY <1>5, <1>6
  <2> QED
    BY <2>1, <2>2, <1>10
<1> QED
  BY <1>2, <1>9, <1>11 DEF e, n

\* Sin keeps the elements outside rs and no others.
LEMMA SinQuita ==
    ASSUME NEW T, NEW s \in Seq(T), NEW rs
    PROVE  /\ Sin(s, rs) \in Seq(T)
           /\ ToSet(Sin(s, rs)) = ToSet(s) \ rs
<1> DEFINE K == {i \in DOMAIN s : s[i] \notin rs}
<1>1. /\ EnPosiciones(s, K) \in Seq(T)
      /\ ToSet(EnPosiciones(s, K)) = {s[i] : i \in K}
  BY EnPosicionesCuenta
<1>2. {s[i] : i \in K} = ToSet(s) \ rs
  BY DEF ToSet
<1> QED
  BY <1>1, <1>2 DEF Sin

\* What is left out of a sequence and what is kept make up its length.
LEMMA SinReparte ==
    ASSUME NEW T, NEW s \in Seq(T), NEW rs \in SUBSET ToSet(s)
    PROVE  Len(Sin(s, rs)) + Len(Sin(s, ToSet(s) \ rs)) = Len(s)
<1> DEFINE D == DOMAIN s
           K == {i \in D : s[i] \notin rs}
           L == {i \in D : s[i] \notin ToSet(s) \ rs}
<1>1. D = 1..Len(s) /\ Len(s) \in Nat
  BY LenProperties
<1>2. Len(Sin(s, rs)) = Cardinality(K) /\ IsFiniteSet(K)
  BY EnPosicionesCuenta DEF Sin
<1>3. Len(Sin(s, ToSet(s) \ rs)) = Cardinality(L) /\ IsFiniteSet(L)
  BY EnPosicionesCuenta DEF Sin
<1>4. K \cup L = D /\ K \cap L = {}
  BY DEF ToSet
<1>5. Cardinality(D) = Len(s)
  BY <1>1, FS_Interval
<1> HIDE DEF D, K, L
<1>6. Cardinality(K \cup L) =
         Cardinality(K) + Cardinality(L) - Cardinality(K \cap L)
  BY <1>2, <1>3, FS_Union
<1>7. Cardinality(K) \in Nat /\ Cardinality(L) \in Nat
  BY <1>2, <1>3, FS_CardinalityType
<1>8. Cardinality(K \cap L) = 0
  BY <1>4, FS_EmptySet
<1>9. Cardinality(K \cup L) = Len(s)
  BY <1>4, <1>5
<1> QED
  BY <1>2, <1>3, <1>6, <1>7, <1>8, <1>9

\* SetToSeq enumerates a finite set.
LEMMA Enumera ==
    ASSUME NEW S, IsFiniteSet(S)
    PROVE  LET s == SetToSeq(S) IN
           /\ s \in Seq(S) /\ Len(s) = Cardinality(S)
           /\ \A i, j \in 1..Len(s) : s[i] = s[j] => i = j
           /\ ToSet(s) = S
<1> DEFINE n == Cardinality(S)
           s == SetToSeq(S)
<1>1. n \in Nat /\ ExistsBijection(1..n, S)
  BY FS_CardinalityType
<1>2. \E f \in [1..n -> S] : IsInjective(f)
  BY <1>1 DEF ExistsBijection, Bijection, Injection
<1>3. s \in [1..n -> S] /\ IsInjective(s)
  BY <1>2 DEF SetToSeq
<1>4. s \in Injection(1..n, S)
  BY <1>3 DEF Injection
<1> HIDE DEF s
<1>5. Cardinality(1..n) = n
  BY <1>1, FS_Interval
<1>6. s \in Surjection(1..n, S)
  BY <1>4, <1>5, FS_Injection
<1>7. s \in Seq(S) /\ Len(s) = n /\ DOMAIN s = 1..n
  BY <1>1, <1>3
<1>8. ToSet(s) = S
  BY <1>6, <1>7 DEF Surjection, ToSet
<1>9. \A i, j \in 1..Len(s) : s[i] = s[j] => i = j
  BY <1>3, <1>7 DEF IsInjective
<1> QED
  BY <1>7, <1>8, <1>9 DEF s

\* What Unicos makes of an enumeration of n ids with something appended that is
\* empty or repeated: the first n positions are kept.
LEMMA UnicosDeEnumeracion ==
    ASSUME NEW T, NEW n \in Nat, NEW m \in {n, n + 1}, NEW s \in [1..m -> T],
           \A i \in 1..n : s[i] # Blanco,
           \A i, j \in 1..n : s[i] = s[j] => i = j,
           m = n + 1 => \/ s[m] = Blanco
                        \/ \E j \in 1..n : s[j] = s[m]
    PROVE  /\ Unicos(s) \in Seq(T)
           /\ Len(Unicos(s)) = n
           /\ ToSet(Unicos(s)) = {s[i] : i \in 1..n}
<1> DEFINE K == {i \in DOMAIN s : /\ s[i] # Blanco
                                  /\ \A j \in 1..(i - 1) : s[j] # s[i]}
<1>1. DOMAIN s = 1..m /\ m \in Nat
  OBVIOUS
<1>2. s \in Seq(T)
  BY <1>1
<1>3. ASSUME NEW i \in 1..n PROVE i \in K
  <2>1. i \in DOMAIN s
    BY <1>1
  <2>2. ASSUME NEW j \in 1..(i - 1) PROVE s[j] # s[i]
    <3>1. j \in 1..n /\ j # i
      OBVIOUS
    <3> QED
      BY <3>1
  <2> QED
    BY <2>1, <2>2
<1>4. ASSUME NEW i \in K PROVE i \in 1..n
  <2> SUFFICES ASSUME i \notin 1..n PROVE FALSE
    OBVIOUS
  <2>1. i \in 1..m
    BY <1>1
  <2>2. i = n + 1 /\ m = n + 1
    BY <2>1
  <2>3. s[i] # Blanco /\ \A j \in 1..(i - 1) : s[j] # s[i]
    OBVIOUS
  <2>4. PICK j \in 1..n : s[j] = s[i]
    BY <2>2, <2>3
  <2>5. j \in 1..(i - 1)
    BY <2>2
  <2> QED
    BY <2>3, <2>4, <2>5
<1>5. K \in SUBSET DOMAIN s
  OBVIOUS
<1>6. Unicos(s) = EnPosiciones(s, K)
  BY DEF Unicos
<1> HIDE DEF K
<1>7. K = 1..n
  BY <1>3, <1>4
<1>10. Unicos(s) = EnPosiciones(s, 1..n) /\ 1..n \in SUBSET DOMAIN s
  BY <1>5, <1>6, <1>7
<1>8. /\ Unicos(s) \in Seq(T)
      /\ Len(Unicos(s)) = Cardinality(1..n)
      /\ ToSet(Unicos(s)) = {s[i] : i \in 1..n}
  BY <1>2, <1>10, EnPosicionesCuenta
<1>9. Cardinality(1..n) = n
  BY FS_Interval
<1> QED
  BY <1>8, <1>9

\* confirmar_recepcion_ack counts each id of a request once, whether the CRM
\* repeats one or sends an empty one.
LEMMA UnicosDeSolicitud ==
    ASSUME NEW S, IsFiniteSet(S), S # {}, Blanco \notin S,
           crm \ confirmadas = S, NEW s \in Solicitudes
    PROVE  /\ Unicos(s) \in Seq(S)
           /\ Len(Unicos(s)) = Cardinality(S)
           /\ ToSet(Unicos(s)) = S
<1> DEFINE t == SetToSeq(S)
           T == S \cup {Blanco}
<1>1. /\ t \in Seq(S) /\ Len(t) = Cardinality(S) /\ ToSet(t) = S
      /\ \A i, j \in 1..Len(t) : t[i] = t[j] => i = j
  BY Enumera
<1>2. s \in {t, Append(t, Head(t)), Append(t, Blanco)}
  BY DEF Solicitudes
<1> HIDE DEF t
<1>3. PICK n \in Nat : n = Len(t)
  BY <1>1, LenProperties
<1>4. t \in [1..n -> S] /\ DOMAIN t = 1..n
  BY <1>1, <1>3, LenProperties
<1>5. n # 0
  BY <1>1, <1>4 DEF ToSet
<1>6. t \in Seq(T) /\ Head(t) = t[1] /\ t[1] \in T /\ Blanco \in T
  BY <1>1, <1>3, <1>4, <1>5
<1> HIDE DEF T
<1>7. ASSUME NEW x \in T
      PROVE  /\ Append(t, x) \in [1..(n + 1) -> T]
             /\ \A i \in 1..n : Append(t, x)[i] = t[i]
             /\ Append(t, x)[n + 1] = x
  <2>1. /\ Append(t, x) \in Seq(T)
        /\ Len(Append(t, x)) = Len(t) + 1
        /\ \A i \in 1..Len(t) : Append(t, x)[i] = t[i]
        /\ Append(t, x)[Len(t) + 1] = x
    BY <1>6, AppendProperties
  <2>2. Append(t, x) \in [1..Len(Append(t, x)) -> T]
    BY <2>1, LenProperties
  <2> QED
    BY <1>3, <2>1, <2>2
<1>8. PICK m \in {n, n + 1} :
        /\ s \in [1..m -> T]
        /\ \A i \in 1..n : s[i] = t[i]
        /\ m = n + 1 => s[m] = Blanco \/ s[m] = t[1]
  <2>1. CASE s = t
    BY <1>4, <2>1 DEF T
  <2>2. CASE s = Append(t, Head(t))
    BY <1>6, <1>7, <2>2
  <2>3. CASE s = Append(t, Blanco)
    BY <1>6, <1>7, <2>3
  <2> QED
    BY <1>2, <2>1, <2>2, <2>3
<1>9. /\ Unicos(s) \in Seq(T)
      /\ Len(Unicos(s)) = n
      /\ ToSet(Unicos(s)) = {s[i] : i \in 1..n}
  <2>1. \A i \in 1..n : s[i] # Blanco
    BY <1>4, <1>8
  <2>2. \A i, j \in 1..n : s[i] = s[j] => i = j
    BY <1>1, <1>3, <1>8
  <2>3. m = n + 1 => s[m] = Blanco \/ \E j \in 1..n : s[j] = s[m]
    BY <1>5, <1>8
  <2>4. m \in {n, n + 1} /\ s \in [1..m -> T]
    BY <1>8
  <2> QED
    <3>1. PICK U : U = T
      OBVIOUS
    <3>2. s \in [1..m -> U]
      BY <2>4, <3>1
    <3>3. /\ Unicos(s) \in Seq(U)
          /\ Len(Unicos(s)) = n
          /\ ToSet(Unicos(s)) = {s[i] : i \in 1..n}
      BY <3>2, <2>1, <2>2, <2>3, <2>4, UnicosDeEnumeracion
    <3> QED
      BY <3>1, <3>3
<1>11. {s[i] : i \in 1..n} = S
  BY <1>1, <1>4, <1>8 DEF ToSet
<1>10. Unicos(s) \in Seq(S)
  <2> DEFINE u == Unicos(s)
  <2>1. u \in Seq(T) /\ ToSet(u) = S
    BY <1>9, <1>11
  <2> HIDE DEF u
  <2>2. DOMAIN u = 1..Len(u) /\ Len(u) \in Nat /\ u \in [1..Len(u) -> T]
    BY <2>1, LenProperties
  <2>3. \A i \in 1..Len(u) : u[i] \in S
    BY <2>1, <2>2 DEF ToSet
  <2>4. u \in [1..Len(u) -> S]
    BY <2>2, <2>3
  <2> QED
    BY <2>2, <2>4 DEF u
<1> QED
  BY <1>1, <1>3, <1>9, <1>10, <1>11

-----------------------------------------------------------------------------
(* The elements of a sequence, and of a page of the SFC.                    *)

\* An empty sequence has no elements.
LEMMA ConjuntoVacio == ToSet(<<>>) = {}
BY DEF ToSet

\* The elements of a concatenation.
LEMMA ConjuntoConcat ==
    ASSUME NEW T, NEW s \in Seq(T), NEW t \in Seq(T)
    PROVE  s \o t \in Seq(T) /\ ToSet(s \o t) = ToSet(s) \cup ToSet(t)
<1> DEFINE u == s \o t
<1>1. PICK a \in Nat, b \in Nat : a = Len(s) /\ b = Len(t)
  BY LenProperties
<1>2. /\ u \in Seq(T) /\ Len(u) = a + b
      /\ \A i \in 1..(a + b) : u[i] = IF i <= a THEN s[i] ELSE t[i - a]
  BY <1>1, ConcatProperties
<1> HIDE DEF u
<1>3. DOMAIN s = 1..a /\ DOMAIN t = 1..b /\ DOMAIN u = 1..(a + b)
  BY <1>1, <1>2, LenProperties
<1>4. ASSUME NEW i \in 1..a PROVE \E k \in 1..(a + b) : u[k] = s[i]
  <2>1. i \in 1..(a + b) /\ i <= a
    BY <1>1
  <2> QED
    BY <1>2, <2>1
<1>5. ASSUME NEW i \in 1..b PROVE \E k \in 1..(a + b) : u[k] = t[i]
  <2>1. PICK k \in 1..(a + b) : k = a + i
    BY <1>1
  <2>2. ~(k <= a) /\ k - a = i
    BY <1>1, <2>1
  <2> QED
    BY <1>2, <2>2
<1>6. ASSUME NEW k \in 1..(a + b)
      PROVE  (\E i \in 1..a : u[k] = s[i]) \/ (\E i \in 1..b : u[k] = t[i])
  <2>1. CASE k <= a
    BY <1>1, <1>2, <2>1
  <2>2. CASE ~(k <= a)
    <3>1. k - a \in 1..b
      BY <1>1, <2>2
    <3> QED
      BY <1>2, <2>2, <3>1
  <2> QED
    BY <2>1, <2>2
<1>7. ToSet(u) = ToSet(s) \cup ToSet(t)
  <2>1. ASSUME NEW x \in ToSet(u) PROVE x \in ToSet(s) \cup ToSet(t)
    BY <1>3, <1>6 DEF ToSet
  <2>2. ASSUME NEW x \in ToSet(s) PROVE x \in ToSet(u)
    BY <1>3, <1>4 DEF ToSet
  <2>3. ASSUME NEW x \in ToSet(t) PROVE x \in ToSet(u)
    BY <1>3, <1>5 DEF ToSet
  <2> QED
    BY <2>1, <2>2, <2>3
<1> QED
  BY <1>2, <1>7 DEF u

\* The elements of a sequence with one appended.
LEMMA ConjuntoAppend ==
    ASSUME NEW T, NEW s \in Seq(T), NEW x \in T
    PROVE  Append(s, x) \in Seq(T) /\ ToSet(Append(s, x)) = ToSet(s) \cup {x}
<1>1. PICK u : u = Append(s, x)
  OBVIOUS
<1>2. PICK n \in Nat : n = Len(s)
  BY LenProperties
<1>3. /\ u \in Seq(T) /\ Len(u) = n + 1
      /\ \A i \in 1..n : u[i] = s[i]
      /\ u[n + 1] = x
  BY <1>1, <1>2, AppendProperties
<1>4. DOMAIN s = 1..n /\ DOMAIN u = 1..(n + 1)
  BY <1>2, <1>3, LenProperties
<1>5. ToSet(u) = ToSet(s) \cup {x}
  <2>1. 1..(n + 1) = (1..n) \cup {n + 1}
    BY <1>2
  <2> QED
    BY <1>3, <1>4, <2>1 DEF ToSet
<1> QED
  BY <1>1, <1>3, <1>5

\* A record of a page is its head or in its tail (Avanza).
LEMMA ConjuntoTail ==
    ASSUME NEW T, NEW s \in Seq(T), s # <<>>
    PROVE  /\ Head(s) \in T /\ Tail(s) \in Seq(T)
           /\ Len(Tail(s)) = Len(s) - 1 /\ Len(s) \in Nat \ {0}
           /\ ToSet(s) = {Head(s)} \cup ToSet(Tail(s))
<1>1. PICK u : u = Tail(s)
  OBVIOUS
<1>2. PICK n \in Nat : n = Len(s)
  BY LenProperties
<1>3. n # 0
  BY <1>2, EmptySeq
<1>4. /\ Head(s) \in T /\ u \in Seq(T) /\ Len(u) = n - 1
      /\ \A i \in 1..(n - 1) : u[i] = s[i + 1]
  BY <1>1, <1>2, HeadTailProperties
<1>5. Head(s) = s[1]
  BY <1>2, <1>3
<1>6. DOMAIN s = 1..n /\ DOMAIN u = 1..(n - 1)
  BY <1>2, <1>4, LenProperties
<1>7. ASSUME NEW i \in 1..n PROVE s[i] = s[1] \/ \E k \in 1..(n - 1) : s[i] = u[k]
  <2>1. CASE i = 1
    BY <2>1
  <2>2. CASE i # 1
    <3>1. PICK k \in 1..(n - 1) : k = i - 1
      BY <2>2
    <3>2. k + 1 = i
      BY <3>1
    <3> QED
      BY <1>4, <3>1, <3>2
  <2> QED
    BY <2>1, <2>2
<1>8. ASSUME NEW k \in 1..(n - 1) PROVE \E i \in 1..n : s[i] = u[k]
  <2>1. k + 1 \in 1..n
    OBVIOUS
  <2> QED
    BY <1>4, <2>1
<1>9. ToSet(s) = {Head(s)} \cup ToSet(u)
  <2>1. ASSUME NEW x \in ToSet(s) PROVE x \in {Head(s)} \cup ToSet(u)
    BY <1>5, <1>6, <1>7 DEF ToSet
  <2>2. ASSUME NEW x \in ToSet(u) PROVE x \in ToSet(s)
    BY <1>6, <1>8 DEF ToSet
  <2>3. Head(s) \in ToSet(s)
    BY <1>3, <1>5, <1>6 DEF ToSet
  <2> QED
    BY <2>1, <2>2, <2>3
<1> QED
  BY <1>1, <1>2, <1>3, <1>4, <1>9

\* Length, domain and elements of a sequence.
LEMMA Longitud ==
    ASSUME NEW T, NEW s \in Seq(T)
    PROVE  /\ Len(s) \in Nat /\ DOMAIN s = 1..Len(s)
           /\ ToSet(s) \subseteq T
           /\ \A i \in 1..Len(s) : s[i] \in ToSet(s)
           /\ s = <<>> <=> Len(s) = 0
           /\ s = <<>> <=> ToSet(s) = {}
<1>1. Len(s) \in Nat /\ DOMAIN s = 1..Len(s)
  BY LenProperties
<1>2. \A i \in 1..Len(s) : s[i] \in T /\ s[i] \in ToSet(s)
  BY <1>1, ElementOfSeq DEF ToSet
<1>3. ToSet(s) \subseteq T
  BY <1>1, <1>2 DEF ToSet
<1>4. s = <<>> <=> Len(s) = 0
  BY EmptySeq
<1>5. s = <<>> => ToSet(s) = {}
  BY ConjuntoVacio
<1>6. s # <<>> => s[1] \in ToSet(s)
  BY <1>1, <1>2, <1>4
<1> QED
  BY <1>1, <1>2, <1>3, <1>4, <1>5, <1>6

\* The positions behind the first n pages are those of page n + 1 and those
\* behind it; an empty page has nothing behind it.
LEMMA PaginaSiguiente ==
    ASSUME NEW T, pendientes \in Seq(T), NEW n \in Nat
    PROVE  LET p == PaginaSfc(n + 1)
               tras(m) == {pendientes[i] :
                              i \in (m * TamPagina + 1)..Len(pendientes)}
           IN  /\ p \in Seq(T) /\ Len(p) <= TamPagina
               /\ tras(n) \subseteq ToSet(p) \cup tras(n + 1)
               /\ ~HayMas(n + 1) => tras(n + 1) = {}
               /\ p = <<>> => tras(n) = {}
<1>1. TamPagina \in Nat \ {0}
  BY LecturaAssumption
<1>2. PICK L \in Nat : L = Len(pendientes)
  BY LenProperties
<1>3. PICK a \in Nat, b \in Nat : a = n * TamPagina /\ b = (n + 1) * TamPagina
  BY <1>1
<1>4. b = a + TamPagina
  BY <1>1, <1>3
<1>15. a \in Nat /\ b \in Nat
  BY <1>3
<1>5. PICK h \in Nat : h = IF b < L THEN b ELSE L
  BY <1>2, <1>15
<1>6. PICK p : p = PaginaSfc(n + 1)
  OBVIOUS
<1>7. p = SubSeq(pendientes, a + 1, h)
  <2>1. (n + 1) - 1 = n
    OBVIOUS
  <2> QED
    BY <1>2, <1>3, <1>5, <1>6, <2>1 DEF PaginaSfc
<1>8. \A i \in (a + 1)..h : pendientes[i] \in T
  BY <1>2, <1>15, <1>5, ElementOfSeq
<1>9. /\ p \in Seq(T)
      /\ Len(p) = IF a + 1 <= h THEN h - (a + 1) + 1 ELSE 0
      /\ \A i \in 1..(h - (a + 1) + 1) : p[i] = pendientes[(a + 1) + i - 1]
  <2>1. a + 1 \in Int /\ h \in Int
    BY <1>15, <1>5
  <2>2. PICK q : q = SubSeq(pendientes, a + 1, h)
    OBVIOUS
  <2>3. /\ q \in Seq(T)
        /\ Len(q) = IF a + 1 <= h THEN h - (a + 1) + 1 ELSE 0
        /\ \A i \in 1..(h - (a + 1) + 1) : q[i] = pendientes[(a + 1) + i - 1]
    BY <1>8, <2>1, <2>2, SubSeqProperties
  <2> QED
    BY <1>7, <2>2, <2>3
<1>10. Len(p) = IF a < h THEN h - a ELSE 0
  BY <1>15, <1>5, <1>9
<1>11. Len(p) <= TamPagina
  BY <1>1, <1>2, <1>15, <1>4, <1>5, <1>10
<1>12. ASSUME NEW i \in (a + 1)..L PROVE pendientes[i] \in ToSet(p) \/ i \in (b + 1)..L
  <2>1. CASE i <= h
    <3>1. PICK k \in 1..(h - a) : k = i - a
      BY <1>2, <1>15, <1>5, <2>1
    <3>6. i \in Nat /\ k \in Nat
      BY <1>2, <1>15, <3>1
    <3>2. h - (a + 1) + 1 = h - a /\ (a + 1) + k - 1 = i
      BY <1>15, <1>5, <3>1, <3>6
    <3>5. h - a = Len(p)
      BY <1>2, <1>15, <1>5, <1>10, <2>1
    <3>3. p[k] = pendientes[i]
      BY <1>9, <3>1, <3>2
    <3>4. DOMAIN p = 1..(h - a)
      BY <1>9, <3>5, LenProperties
    <3> QED
      BY <3>1, <3>3, <3>4 DEF ToSet
  <2>2. CASE ~(i <= h)
    BY <1>2, <1>15, <1>5, <2>2
  <2> QED
    BY <2>1, <2>2
<1>13. ~HayMas(n + 1) => (b + 1)..L = {}
  BY <1>2, <1>3 DEF HayMas
<1>14. p = <<>> => (a + 1)..L = {}
  <2>1. p = <<>> => Len(p) = 0
    BY <1>9, EmptySeq
  <2> QED
    BY <1>1, <1>2, <1>4, <1>5, <1>10, <1>15, <2>1
<1> QED
  BY <1>2, <1>3, <1>6, <1>9, <1>11, <1>12, <1>13, <1>14

-----------------------------------------------------------------------------
(* The inductive invariant.                                                 *)

\* What the SFC lists, what the CRM has and what was copied to S3.
TipoSfc ==
    /\ modo \in Modos
    /\ llegados \subseteq Registro /\ IsFiniteSet(llegados)
    /\ pendientes \in Seq(llegados)
    /\ s3 \subseteq Registro \X Adjunto
    /\ crm \subseteq llegados /\ confirmadas \subseteq crm
    /\ fallos \in 0..MaxFallos

\* A reading holds a page only while it works on it, and nothing when idle.
TipoLectura ==
    /\ pc \in {"libre", "pagina", "procesa", "responde"}
    /\ pagina \in 0..MaxPaginas
    /\ lista \in Seq(llegados) /\ Len(lista) <= TamPagina
    /\ pc = "procesa" <=> lista # <<>>
    /\ mas \in BOOLEAN /\ cortada \in BOOLEAN
    /\ deforme \in BOOLEAN /\ encogio \in BOOLEAN
    /\ vistos \subseteq Registro \ SinCodigo
    /\ entrega \in Seq(llegados)
    /\ fallidos \subseteq llegados /\ alInicio \subseteq llegados
    /\ pc = "libre" => pagina = 0 /\ entrega = <<>> /\ vistos = {}

\* An acknowledgement holds ids the CRM asked for, and nothing when idle.
TipoAck ==
    /\ ack \in {"libre", "envia"}
    /\ pedidos \subseteq crm
    /\ ids \in Seq(pedidos) /\ exitosos \in Seq(pedidos)
    /\ conError \in Seq(pedidos)
    /\ ack = "libre" =>
          pedidos = {} /\ ids = <<>> /\ exitosos = <<>> /\ conError = <<>>

\* What is delivered is marked; moment 4 marks nothing else.
Marcados ==
    /\ ToSet(entrega) \subseteq vistos \cup SinCodigo
    /\ modo = "M4" => vistos \subseteq ToSet(entrega)

\* What is delivered, or is about to be, has its attachments in S3, if their
\* list could be read.
Completos ==
    /\ sinLista \subseteq ConAnexos
    /\ \A r \in (crm \cup ToSet(entrega)) \ sinLista : Anexos(r) \subseteq s3

\* Records the reading has not come to: those behind the pages it has read,
\* if it will read on.
Detras ==
    IF pc = "pagina" \/ (pc = "procesa" /\ mas)
    THEN {pendientes[i] : i \in (pagina * TamPagina + 1)..Len(pendientes)}
    ELSE {}

\* While nothing moves forward and every page has its shape, each record that
\* was listed when the reading began is delivered, has failed, is in the page
\* or is behind it.
Cubierto ==
    modo = "M4" /\ pc # "libre" /\ ~encogio /\ ~cortada /\ ~deforme =>
        alInicio \subseteq ToSet(entrega) \cup fallidos
                              \cup ToSet(lista) \cup Detras

\* Every id is counted once, and the SFC has dropped the processed ones.
Contados ==
    ack = "envia" =>
        /\ ToSet(exitosos) \cup ToSet(conError) \cup ToSet(ids) = pedidos
        /\ Len(exitosos) + Len(conError) + Len(ids) = Cardinality(pedidos)
        /\ ToSet(exitosos) \cap ToSet(pendientes) = {}

Tipos == TipoSfc /\ TipoLectura /\ TipoAck

IInv == Tipos /\ SinDuplicados /\ Marcados /\ Completos /\ Cubierto /\ Contados

-----------------------------------------------------------------------------
(* The invariant holds at first.                                            *)

\* Nothing is read, delivered or acknowledged at first.
LEMMA InvInicio == Init => IInv
<1> SUFFICES ASSUME Init PROVE IInv
  OBVIOUS
<1>1. pendientes \in Seq(Iniciales)
  <2>1. Cardinality(Iniciales) \in Nat
    BY LecturaAssumption, FS_CardinalityType
  <2>2. pendientes \in [1..Cardinality(Iniciales) -> Iniciales]
    BY DEF Init, SetToSeqs
  <2> QED
    BY <2>1, <2>2
<1>2. TipoSfc
  BY <1>1, LecturaAssumption DEF Init, TipoSfc
<1>3. TipoLectura
  <2>1. \A T : <<>> \in Seq(T) /\ Len(<<>>) = 0
    BY EmptySeq
  <2>2. /\ pc = "libre" /\ pagina = 0 /\ lista = <<>> /\ mas = FALSE
        /\ vistos = {} /\ entrega = <<>> /\ fallidos = {} /\ cortada = FALSE
        /\ alInicio = {} /\ deforme = FALSE /\ encogio = FALSE
    BY DEF Init
  <2>3. pagina \in 0..MaxPaginas /\ 0 <= TamPagina
    BY <2>2, LecturaAssumption
  <2> QED
    BY <2>1, <2>2, <2>3 DEF TipoLectura
<1>4. TipoAck
  BY EmptySeq DEF Init, TipoAck
<1>5. SinDuplicados /\ Marcados /\ Completos /\ Cubierto /\ Contados
  BY ConjuntoVacio
     DEF Init, SinDuplicados, Marcados, Completos, Cubierto, Contados
<1> QED
  BY <1>2, <1>3, <1>4, <1>5 DEF IInv, Tipos

-----------------------------------------------------------------------------
(* The list of the SFC moves: a record arrives.                             *)

\* A record at the end leaves every other one at its place.
LEMMA LlegaAlFinal ==
    ASSUME NEW U, NEW s \in Seq(U), NEW r \in U, NEW t, t = Append(s, r)
    PROVE  \A i \in 1..Len(s) : \E k \in 1..Len(t) : k >= i /\ t[k] = s[i]
<1>1. PICK n \in Nat : n = Len(s)
  BY LenProperties
<1>2. Len(t) = n + 1 /\ \A i \in 1..n : t[i] = s[i]
  BY <1>1, AppendProperties
<1>3. ASSUME NEW i \in 1..n
      PROVE  \E k \in 1..(n + 1) : k >= i /\ t[k] = s[i]
  <2>1. i \in 1..(n + 1) /\ i >= i
    BY <1>1
  <2> QED
    BY <1>2, <2>1
<1> QED
  BY <1>1, <1>2, <1>3

\* A record in front moves every other one back.
LEMMA LlegaAlFrente ==
    ASSUME NEW U, NEW s \in Seq(U), NEW u \in Seq(U), Len(u) = 1,
           NEW t, t = u \o s
    PROVE  \A i \in 1..Len(s) : \E k \in 1..Len(t) : k >= i /\ t[k] = s[i]
<1>1. PICK n \in Nat : n = Len(s)
  BY LenProperties
<1>2. /\ Len(t) = 1 + n
      /\ \A i \in 1..(1 + n) : t[i] = IF i <= 1 THEN u[i] ELSE s[i - 1]
  <2>1. /\ Len(u \o s) = Len(u) + Len(s)
        /\ \A i \in 1..Len(u) + Len(s) :
              (u \o s)[i] = IF i <= Len(u) THEN u[i] ELSE s[i - Len(u)]
    BY ConcatProperties
  <2> QED
    BY <1>1, <2>1
<1>3. ASSUME NEW i \in 1..n
      PROVE  \E k \in 1..(1 + n) : k >= i /\ t[k] = s[i]
  <2>1. PICK k \in 1..(1 + n) : k = i + 1
    OBVIOUS
  <2>2. ~(k <= 1) /\ k - 1 = i /\ k >= i
    BY <2>1
  <2> QED
    BY <1>2, <2>2
<1> QED
  BY <1>1, <1>2, <1>3

\* A record that arrives keeps the invariant.
LEMMA PasoLlega ==
    ASSUME IInv, NEW r \in Registro, Llega(r)
    PROVE  IInv'
<1>1. /\ r \notin llegados /\ llegados' = llegados \cup {r}
      /\ pendientes' \in {<<r>> \o pendientes, Append(pendientes, r)}
      /\ UNCHANGED <<modo, s3, sinLista, crmVars, fallos, lecturaVars, encogio,
                     ackVars>>
  BY DEF Llega
<1>2. /\ modo' = modo /\ s3' = s3 /\ sinLista' = sinLista
      /\ crm' = crm /\ confirmadas' = confirmadas
      /\ fallos' = fallos /\ pc' = pc /\ pagina' = pagina /\ lista' = lista
      /\ mas' = mas /\ vistos' = vistos /\ entrega' = entrega
      /\ fallidos' = fallidos /\ cortada' = cortada /\ alInicio' = alInicio
      /\ deforme' = deforme /\ encogio' = encogio
      /\ ack' = ack /\ pedidos' = pedidos /\ ids' = ids
      /\ exitosos' = exitosos /\ conError' = conError
  BY <1>1 DEF crmVars, lecturaVars, ackVars
<1>3. TipoSfc /\ TipoLectura /\ TipoAck
  BY DEF IInv, Tipos
<1>4. /\ pendientes' \in Seq(llegados')
      /\ ToSet(pendientes') = ToSet(pendientes) \cup {r}
      /\ \A i \in 1..Len(pendientes) :
            \E k \in 1..Len(pendientes') : k >= i /\ pendientes'[k] = pendientes[i]
  <2>1. PICK p, q, v, V : /\ p = pendientes /\ q = pendientes'
                          /\ v = <<r>> /\ V = llegados'
    OBVIOUS
  <2>2. p \in Seq(V) /\ r \in V
    BY <1>1, <1>3, <2>1, SeqMonotonic DEF TipoSfc
  <2>3. q = v \o p \/ q = Append(p, r)
    BY <1>1, <2>1
  <2>4. v \in Seq(V) /\ Len(v) = 1 /\ ToSet(v) = {r}
    BY <2>1, <2>2 DEF ToSet
  <2>5. /\ q \in Seq(V)
        /\ ToSet(q) = ToSet(p) \cup {r}
        /\ \A i \in 1..Len(p) : \E k \in 1..Len(q) : k >= i /\ q[k] = p[i]
    <3>1. q \in Seq(V) /\ ToSet(q) = ToSet(p) \cup {r}
      <4>1. CASE q = Append(p, r)
        BY <2>2, <4>1, ConjuntoAppend
      <4>2. CASE q = v \o p
        BY <2>2, <2>4, <4>2, ConjuntoConcat
      <4> QED
        BY <2>3, <4>1, <4>2
    <3>3. \A i \in 1..Len(p) : \E k \in 1..Len(q) : k >= i /\ q[k] = p[i]
      <4>1. CASE q = Append(p, r)
        BY <2>2, <4>1, LlegaAlFinal
      <4>2. CASE q = v \o p
        BY <2>2, <2>4, <4>2, LlegaAlFrente
      <4> QED
        BY <2>3, <4>1, <4>2
    <3> QED
      BY <3>1, <3>3
  <2> QED
    BY <1>1, <2>1, <2>5
<1>5. TipoSfc'
  BY <1>1, <1>2, <1>3, <1>4, FS_AddElement DEF TipoSfc
<1>6. TipoLectura'
  <2>1. lista' \in Seq(llegados') /\ entrega' \in Seq(llegados')
    BY <1>1, <1>2, <1>3, SeqMonotonic DEF TipoLectura
  <2> QED
    BY <1>1, <1>2, <1>3, <2>1 DEF TipoLectura
<1>7. TipoAck'
  BY <1>2, <1>3 DEF TipoAck
<1>8. SinDuplicados' /\ Marcados' /\ Completos'
  BY <1>2 DEF IInv, SinDuplicados, Marcados, Completos, Anexos
<1>9. Cubierto'
  <2>1. ASSUME NEW x \in Detras PROVE x \in Detras'
    <3>1. pc = "pagina" \/ (pc = "procesa" /\ mas)
      BY DEF Detras
    <3>2. PICK i \in (pagina * TamPagina + 1)..Len(pendientes) : x = pendientes[i]
      BY <3>1 DEF Detras
    <3>3. PICK a \in Nat : a = pagina * TamPagina
      BY <1>3, LecturaAssumption DEF TipoLectura
    <3>4. Len(pendientes) \in Nat /\ Len(pendientes') \in Nat
      BY <1>3, <1>4, LenProperties DEF TipoSfc
    <3>5. i \in 1..Len(pendientes)
      BY <3>2, <3>3, <3>4
    <3>6. PICK k \in 1..Len(pendientes') : k >= i /\ pendientes'[k] = pendientes[i]
      BY <1>4, <3>5
    <3>7. k \in (a + 1)..Len(pendientes')
      BY <3>2, <3>3, <3>4, <3>6
    <3> QED
      BY <1>2, <3>1, <3>2, <3>3, <3>6, <3>7 DEF Detras
  <2>2. Cubierto
    BY DEF IInv
  <2> QED
    BY <1>2, <2>1, <2>2 DEF Cubierto
<1>10. Contados'
  <2>1. ToSet(exitosos) \subseteq llegados
    BY <1>3, Longitud DEF TipoAck, TipoSfc
  <2>2. Contados
    BY DEF IInv
  <2>3. ASSUME ack = "envia" PROVE ToSet(exitosos) \cap ToSet(pendientes') = {}
    BY <1>1, <1>4, <2>1, <2>2, <2>3 DEF Contados
  <2> QED
    BY <1>2, <2>2, <2>3 DEF Contados
<1> QED
  BY <1>5, <1>6, <1>7, <1>8, <1>9, <1>10 DEF IInv, Tipos

-----------------------------------------------------------------------------
(* The steps of a reading.                                                  *)

\* A step of the reading that leaves the SFC and the acknowledgement alone
\* keeps what the invariant says of them.
LEMMA LecturaAparte ==
    ASSUME IInv, UNCHANGED <<modo, sfcVars, confirmadas, ackVars>>,
           crm \subseteq crm', crm' \subseteq llegados,
           s3' \subseteq Registro \X Adjunto, Bien \/ Falla
    PROVE  TipoSfc' /\ TipoAck' /\ Contados'
<1>1. /\ modo' = modo /\ pendientes' = pendientes /\ llegados' = llegados
      /\ confirmadas' = confirmadas /\ ack' = ack /\ pedidos' = pedidos
      /\ ids' = ids /\ exitosos' = exitosos /\ conError' = conError
  BY DEF sfcVars, ackVars
<1>2. TipoSfc /\ TipoAck /\ Contados
  BY DEF IInv, Tipos
<1>3. fallos' \in 0..MaxFallos
  BY <1>2, LecturaAssumption DEF TipoSfc, Bien, Falla
<1>4. TipoSfc'
  BY <1>1, <1>2, <1>3 DEF TipoSfc
<1>5. TipoAck'
  BY <1>1, <1>2 DEF TipoAck
<1>6. Contados'
  BY <1>1, <1>2 DEF Contados
<1> QED
  BY <1>4, <1>5, <1>6

\* The end of a request leaves nothing behind.
LEMMA FinVacio ==
    ASSUME IInv, FinLectura, llegados' = llegados, modo' = modo
    PROVE  TipoLectura' /\ SinDuplicados' /\ Marcados' /\ Cubierto'
<1>1. /\ pc' = "libre" /\ pagina' = 0 /\ lista' = <<>> /\ mas' = FALSE
      /\ vistos' = {} /\ entrega' = <<>> /\ fallidos' = {} /\ cortada' = FALSE
      /\ alInicio' = {} /\ deforme' = FALSE /\ encogio' = FALSE
  BY DEF FinLectura
<1>2. \A T : <<>> \in Seq(T) /\ Len(<<>>) = 0
  BY EmptySeq
<1>3. 0 \in 0..MaxPaginas /\ 0 <= TamPagina
  BY LecturaAssumption
<1>4. TipoLectura'
  BY <1>1, <1>2, <1>3 DEF TipoLectura
<1>5. SinDuplicados'
  BY <1>1 DEF SinDuplicados
<1>6. Marcados' /\ Cubierto'
  BY <1>1, ConjuntoVacio DEF Marcados, Cubierto
<1> QED
  BY <1>4, <1>5, <1>6

\* A reading begins with the whole list still ahead.
LEMMA PasoPedir ==
    ASSUME IInv, Pedir
    PROVE  IInv'
<1>1. /\ pc = "libre" /\ pc' = "pagina" /\ alInicio' = ToSet(pendientes)
      /\ UNCHANGED <<modo, sfcVars, s3, sinLista, crmVars, fallos, pagina, lista, mas,
                     vistos, entrega, fallidos, cortada, deforme, encogio, ackVars>>
  BY DEF Pedir
<1>2. TipoSfc /\ TipoLectura
  BY DEF IInv, Tipos
<1>3. TipoSfc' /\ TipoAck' /\ Contados'
  BY <1>1, <1>2, LecturaAparte DEF TipoSfc, crmVars, Bien
<1>4. ToSet(pendientes) \subseteq llegados
  BY <1>2, Longitud DEF TipoSfc
<1>5. TipoLectura'
  BY <1>1, <1>2, <1>4 DEF TipoLectura, sfcVars
<1>6. SinDuplicados' /\ Marcados' /\ Completos'
  BY <1>1 DEF IInv, SinDuplicados, Marcados, Completos, Anexos, crmVars
<1>7. Cubierto'
  <2>1. pagina * TamPagina + 1 = 1
    BY <1>1, <1>2, LecturaAssumption DEF TipoLectura
  <2>2. DOMAIN pendientes = 1..Len(pendientes)
    BY <1>2, LenProperties DEF TipoSfc
  <2>3. Detras' = ToSet(pendientes)
    BY <1>1, <2>1, <2>2 DEF Detras, ToSet, sfcVars
  <2> QED
    BY <1>1, <2>3 DEF Cubierto
<1> QED
  BY <1>3, <1>5, <1>6, <1>7 DEF IInv, Tipos

\* A reading that is cut promises nothing of the rest.
LEMMA PasoCortar ==
    ASSUME IInv, Cortar
    PROVE  IInv'
<1>1. /\ pc = "pagina" /\ pc' = "responde" /\ cortada' = TRUE
      /\ UNCHANGED <<modo, sfcVars, s3, sinLista, crmVars, pagina, lista, mas, vistos,
                     entrega, fallidos, alInicio, deforme, encogio, ackVars>>
      /\ Bien \/ Falla
  BY DEF Cortar
<1>2. TipoSfc /\ TipoLectura
  BY DEF IInv, Tipos
<1>3. TipoSfc' /\ TipoAck' /\ Contados'
  BY <1>1, <1>2, LecturaAparte DEF TipoSfc, crmVars
<1>4. TipoLectura'
  BY <1>1, <1>2 DEF TipoLectura, sfcVars
<1>5. SinDuplicados' /\ Marcados' /\ Completos' /\ Cubierto'
  BY <1>1 DEF IInv, SinDuplicados, Marcados, Completos, Cubierto, Anexos, crmVars
<1> QED
  BY <1>3, <1>4, <1>5 DEF IInv, Tipos

\* A page is read: what was behind is in it or behind it.
LEMMA PaginaLeida ==
    ASSUME IInv, pc = "pagina", ~LimiteDePaginas(pagina + 1), Bien,
           UNCHANGED deforme,
           pagina' = pagina + 1, lista' = PaginaSfc(pagina + 1),
           mas' = HayMas(pagina + 1),
           pc' = IF lista' = <<>> THEN "responde" ELSE "procesa",
           UNCHANGED <<vistos, entrega, fallidos, cortada, alInicio, encogio>>,
           UNCHANGED <<modo, sfcVars, s3, sinLista, crmVars, ackVars>>
    PROVE  IInv'
<1>1. TipoSfc /\ TipoLectura
  BY DEF IInv, Tipos
<1>2. TipoSfc' /\ TipoAck' /\ Contados'
  BY <1>1, LecturaAparte DEF TipoSfc, crmVars
<1>3. pagina \in Nat /\ pendientes \in Seq(llegados)
  BY <1>1, LecturaAssumption DEF TipoLectura, TipoSfc
<1> DEFINE tras(m) == {pendientes[i] : i \in (m * TamPagina + 1)..Len(pendientes)}
<1>4. /\ lista' \in Seq(llegados) /\ Len(lista') <= TamPagina
      /\ tras(pagina) \subseteq ToSet(lista') \cup tras(pagina + 1)
      /\ ~mas' => tras(pagina + 1) = {}
      /\ lista' = <<>> => tras(pagina) = {}
  BY <1>3, PaginaSiguiente
<1>5. pagina + 1 \in 0..MaxPaginas
  BY <1>1, LecturaAssumption DEF TipoLectura, LimiteDePaginas
<1>6. mas' \in BOOLEAN
  BY DEF HayMas
<1>7. TipoLectura'
  BY <1>1, <1>4, <1>5, <1>6 DEF TipoLectura, sfcVars
<1>8. SinDuplicados' /\ Marcados' /\ Completos'
  BY DEF IInv, SinDuplicados, Marcados, Completos, Anexos, crmVars
<1>9. Cubierto'
  <2> SUFFICES ASSUME modo = "M4", ~encogio, ~cortada, ~deforme
               PROVE  alInicio \subseteq ToSet(entrega) \cup fallidos
                                             \cup ToSet(lista') \cup Detras'
    BY DEF Cubierto
  <2>1. ToSet(lista) = {}
    BY <1>1, ConjuntoVacio DEF TipoLectura
  <2>2. Detras = tras(pagina)
    BY DEF Detras
  <2>3. alInicio \subseteq ToSet(entrega) \cup fallidos \cup tras(pagina)
    BY <2>1, <2>2 DEF IInv, Cubierto
  <2>4. pendientes' = pendientes /\ pc' = (IF lista' = <<>> THEN "responde" ELSE "procesa")
    BY DEF sfcVars
  <2>5. lista' # <<>> /\ mas' => Detras' = tras(pagina + 1)
    BY <2>4 DEF Detras
  <2> HIDE DEF tras
  <2>6. tras(pagina) \subseteq ToSet(lista') \cup Detras'
    BY <1>4, <2>5
  <2> QED
    BY <2>3, <2>6
<1> QED
  BY <1>2, <1>7, <1>8, <1>9 DEF IInv, Tipos

\* A body of an unknown shape: the page is nothing, or records of the list, and
\* the reading promises nothing of the rest.
LEMMA PaginaDeforme ==
    ASSUME IInv, pc = "pagina", ~LimiteDePaginas(pagina + 1), Falla,
           deforme' = TRUE, mas' = FALSE,
           pagina' = pagina + 1, lista' \in Degradada(pagina + 1),
           pc' = IF lista' = <<>> THEN "responde" ELSE "procesa",
           UNCHANGED <<vistos, entrega, fallidos, cortada, alInicio, encogio>>,
           UNCHANGED <<modo, sfcVars, s3, sinLista, crmVars, ackVars>>
    PROVE  IInv'
<1>1. TipoSfc /\ TipoLectura
  BY DEF IInv, Tipos
<1>2. TipoSfc' /\ TipoAck' /\ Contados'
  BY <1>1, LecturaAparte DEF TipoSfc, crmVars
<1>3. pagina \in Nat /\ pendientes \in Seq(llegados)
  BY <1>1, LecturaAssumption DEF TipoLectura, TipoSfc
<1> DEFINE p == PaginaSfc(pagina + 1)
<1>4. p \in Seq(llegados) /\ Len(p) <= TamPagina
  BY <1>3, PaginaSiguiente
<1>5. lista' \in Seq(llegados) /\ Len(lista') <= TamPagina
  <2> HIDE DEF p
  <2>1. CASE lista' = <<>>
    BY <2>1, EmptySeq, LecturaAssumption
  <2>2. CASE lista' = p
    BY <1>4, <2>2
  <2>3. CASE p # <<>> /\ lista' = SubSeq(p, 1, 1)
    <3>1. Len(p) \in Nat /\ Len(p) # 0
      BY <1>4, <2>3, Longitud
    <3>2. 1 \in 1..(Len(p) + 1) /\ 1 \in 0..Len(p)
      BY <3>1
    <3>3. lista' \in Seq(llegados) /\ Len(lista') = 1
      BY <1>4, <2>3, <3>1, <3>2
    <3> QED
      BY <3>3, LecturaAssumption
  <2> QED
    BY <2>1, <2>2, <2>3 DEF Degradada, p
<1>6. pagina + 1 \in 0..MaxPaginas
  BY <1>1, LecturaAssumption DEF TipoLectura, LimiteDePaginas
<1>7. TipoLectura'
  BY <1>1, <1>5, <1>6 DEF TipoLectura, sfcVars
<1>8. SinDuplicados' /\ Marcados' /\ Completos'
  BY DEF IInv, SinDuplicados, Marcados, Completos, Anexos, crmVars
<1>9. Cubierto'
  BY DEF Cubierto
<1> QED
  BY <1>2, <1>7, <1>8, <1>9 DEF IInv, Tipos

\* A page is read, in its shape or another, or the call fails and ends the
\* request.
LEMMA PasoLeerPagina ==
    ASSUME IInv, LeerPagina
    PROVE  IInv'
<1>1. CASE Falla /\ FinLectura
  <2>1. UNCHANGED <<modo, sfcVars, s3, sinLista, crmVars, ackVars>>
    BY DEF LeerPagina
  <2>2. TipoSfc' /\ TipoAck' /\ Contados'
    BY <1>1, <2>1, LecturaAparte DEF IInv, Tipos, TipoSfc, crmVars
  <2>3. TipoLectura' /\ SinDuplicados' /\ Marcados' /\ Cubierto'
    BY <1>1, <2>1, FinVacio DEF sfcVars
  <2>4. entrega' = <<>>
    BY <1>1 DEF FinLectura
  <2>5. Completos'
    BY <2>1, <2>4, ConjuntoVacio DEF IInv, Completos, Anexos, crmVars
  <2> QED
    BY <2>2, <2>3, <2>5 DEF IInv, Tipos
<1>2. CASE ~(Falla /\ FinLectura)
  <2>1. /\ pc = "pagina" /\ ~LimiteDePaginas(pagina + 1)
        /\ pagina' = pagina + 1
        /\ pc' = IF lista' = <<>> THEN "responde" ELSE "procesa"
        /\ UNCHANGED <<vistos, entrega, fallidos, cortada, alInicio, encogio>>
        /\ UNCHANGED <<modo, sfcVars, s3, sinLista, crmVars, ackVars>>
    BY <1>2 DEF LeerPagina
  <2>2. CASE /\ Bien /\ UNCHANGED deforme
             /\ lista' = PaginaSfc(pagina + 1) /\ mas' = HayMas(pagina + 1)
    BY <2>1, <2>2, PaginaLeida
  <2>3. CASE /\ Falla /\ deforme' = TRUE
             /\ lista' \in Degradada(pagina + 1) /\ mas' = FALSE
    BY <2>1, <2>3, PaginaDeforme
  <2> QED
    BY <1>2, <2>2, <2>3 DEF LeerPagina
<1> QED
  BY <1>1, <1>2

\* After a record the page is one shorter, and what was behind still is.
LEMMA AvanzaUno ==
    ASSUME IInv, pc = "procesa", Avanza, UNCHANGED <<sfcVars, encogio>>
    PROVE  /\ pc' \in {"pagina", "procesa", "responde"}
           /\ pc' = "procesa" <=> lista' # <<>>
           /\ lista' \in Seq(llegados) /\ Len(lista') <= TamPagina
           /\ Head(lista) \in llegados
           /\ ToSet(lista) = {Head(lista)} \cup ToSet(lista')
           /\ Detras \subseteq Detras'
           /\ UNCHANGED <<pagina, mas, cortada, alInicio, deforme, encogio,
                          pendientes, llegados>>
<1>1. /\ lista' = Tail(lista)
      /\ pc' = CASE Len(lista) > 1 -> "procesa"
                 [] Len(lista) = 1 /\ mas -> "pagina"
                 [] OTHER -> "responde"
      /\ UNCHANGED <<pagina, mas, cortada, alInicio, deforme, encogio,
                     pendientes, llegados>>
  BY DEF Avanza, sfcVars
<1>2. TipoLectura
  BY DEF IInv, Tipos
<1>3. lista \in Seq(llegados) /\ lista # <<>> /\ Len(lista) <= TamPagina
  BY <1>2 DEF TipoLectura
<1>4. /\ Head(lista) \in llegados /\ lista' \in Seq(llegados)
      /\ Len(lista') = Len(lista) - 1 /\ Len(lista) \in Nat \ {0}
      /\ ToSet(lista) = {Head(lista)} \cup ToSet(lista')
  BY <1>1, <1>3, ConjuntoTail
<1>5. lista' = <<>> <=> Len(lista') = 0
  BY <1>4, Longitud
<1>6. Len(lista') <= TamPagina
  BY <1>3, <1>4, LecturaAssumption
<1>7. CASE Len(lista) > 1
  <2>1. pc' = "procesa" /\ lista' # <<>>
    BY <1>1, <1>4, <1>5, <1>7
  <2>2. Detras' = Detras
    BY <1>1, <2>1 DEF Detras
  <2> QED
    BY <1>1, <1>4, <1>6, <2>1, <2>2
<1>8. CASE Len(lista) = 1 /\ mas
  <2>1. pc' = "pagina" /\ lista' = <<>>
    BY <1>1, <1>4, <1>5, <1>8
  <2>2. Detras' = Detras
    BY <1>1, <1>8, <2>1 DEF Detras
  <2> QED
    BY <1>1, <1>4, <1>6, <2>1, <2>2
<1>9. CASE Len(lista) = 1 /\ ~mas
  <2>1. pc' = "responde" /\ lista' = <<>>
    BY <1>1, <1>4, <1>5, <1>9
  <2>2. Detras = {}
    BY <1>9 DEF Detras
  <2> QED
    BY <1>1, <1>4, <1>6, <2>1, <2>2
<1> QED
  BY <1>4, <1>7, <1>8, <1>9

\* A record that was seen is skipped: moment 4 has delivered it.
LEMMA PasoRepetido ==
    ASSUME IInv, Repetido
    PROVE  IInv'
<1>1. /\ pc = "procesa" /\ YaVisto(Head(lista)) /\ Avanza
      /\ UNCHANGED <<modo, sfcVars, s3, sinLista, crmVars, fallos, vistos, entrega,
                     fallidos, encogio, ackVars>>
  BY DEF Repetido
<1>2. TipoSfc /\ TipoLectura
  BY DEF IInv, Tipos
<1>3. /\ pc' \in {"pagina", "procesa", "responde"}
      /\ pc' = "procesa" <=> lista' # <<>>
      /\ lista' \in Seq(llegados) /\ Len(lista') <= TamPagina
      /\ ToSet(lista) = {Head(lista)} \cup ToSet(lista')
      /\ Detras \subseteq Detras'
      /\ UNCHANGED <<pagina, mas, cortada, alInicio, deforme, encogio,
                     pendientes, llegados>>
  BY <1>1, AvanzaUno
<1>4. TipoSfc' /\ TipoAck' /\ Contados'
  BY <1>1, <1>2, LecturaAparte DEF TipoSfc, crmVars, Bien
<1>5. TipoLectura'
  BY <1>1, <1>2, <1>3 DEF TipoLectura
<1>6. SinDuplicados' /\ Marcados' /\ Completos'
  BY <1>1 DEF IInv, SinDuplicados, Marcados, Completos, Anexos, crmVars
<1>7. Cubierto'
  <2>1. modo = "M4" => Head(lista) \in ToSet(entrega)
    BY <1>1 DEF IInv, Marcados, YaVisto
  <2>2. Cubierto
    BY DEF IInv
  <2> QED
    BY <1>1, <1>3, <2>1, <2>2 DEF Cubierto
<1> QED
  BY <1>4, <1>5, <1>6, <1>7 DEF IInv, Tipos

\* A record that was not seen is delivered: nothing is delivered twice.
LEMMA EntregaUno ==
    ASSUME IInv, NEW r \in llegados, ~YaVisto(r), vistos' = Marca(r),
           entrega' = Append(entrega, r), modo' = modo
    PROVE  /\ SinDuplicados' /\ Marcados'
           /\ entrega' \in Seq(llegados)
           /\ ToSet(entrega') = ToSet(entrega) \cup {r}
           /\ vistos' \subseteq Registro \ SinCodigo
<1>1. entrega \in Seq(llegados) /\ vistos \subseteq Registro \ SinCodigo
      /\ r \in Registro
  BY DEF IInv, Tipos, TipoLectura, TipoSfc
<1>2. entrega' \in Seq(llegados) /\ ToSet(entrega') = ToSet(entrega) \cup {r}
  BY <1>1, ConjuntoAppend
<1>3. vistos' = vistos \cup ({r} \ SinCodigo)
  BY DEF Marca
<1>4. Marcados'
  BY <1>2, <1>3 DEF IInv, Marcados
<1>5. SinDuplicados'
  <2>1. PICK n \in Nat : n = Len(entrega)
    BY <1>1, LenProperties
  <2>2. /\ Len(entrega') = n + 1
        /\ \A i \in 1..n : entrega'[i] = entrega[i]
        /\ entrega'[n + 1] = r
    BY <1>1, <2>1, AppendProperties
  <2>3. DOMAIN entrega = 1..n /\ DOMAIN entrega' = 1..(n + 1)
    BY <1>1, <1>2, <2>1, <2>2, LenProperties
  <2>4. \A i \in 1..n : entrega[i] = r => r \in SinCodigo
    <3>1. \A i \in 1..n : entrega[i] \in ToSet(entrega)
      BY <2>3 DEF ToSet
    <3> QED
      BY <3>1 DEF IInv, Marcados, YaVisto
  <2>5. ASSUME NEW i \in 1..(n + 1), NEW j \in 1..(n + 1),
               i # j, entrega'[i] = entrega'[j]
        PROVE  entrega'[i] \in SinCodigo
    <3>1. CASE i \in 1..n /\ j \in 1..n
      BY <2>2, <2>3, <2>5, <3>1 DEF IInv, SinDuplicados
    <3>2. CASE i \in 1..n /\ j = n + 1
      BY <2>2, <2>4, <2>5, <3>2
    <3>3. CASE i = n + 1 /\ j \in 1..n
      BY <2>2, <2>4, <2>5, <3>3
    <3> QED
      BY <2>1, <2>5, <3>1, <3>2, <3>3
  <2> QED
    BY <2>3, <2>5 DEF SinDuplicados
<1> QED
  BY <1>1, <1>2, <1>3, <1>4, <1>5

\* A consumer is delivered or counted as failed.
LEMMA PasoProcesarUsuario ==
    ASSUME IInv, ProcesarUsuario
    PROVE  IInv'
<1>0. PICK r : r = Head(lista)
  OBVIOUS
<1>1. /\ pc = "procesa" /\ modo = "M4" /\ ~YaVisto(r) /\ Avanza
      /\ IF r \in Ilegibles \cup SinCodigo
         THEN fallidos' = fallidos \cup {r} /\ UNCHANGED <<vistos, entrega>>
         ELSE /\ vistos' = Marca(r)
              /\ entrega' = Append(entrega, r)
              /\ UNCHANGED fallidos
      /\ UNCHANGED <<modo, sfcVars, s3, sinLista, crmVars, fallos, encogio, ackVars>>
  BY <1>0 DEF ProcesarUsuario
<1>2. TipoSfc /\ TipoLectura
  BY DEF IInv, Tipos
<1>3. /\ pc' \in {"pagina", "procesa", "responde"}
      /\ pc' = "procesa" <=> lista' # <<>>
      /\ lista' \in Seq(llegados) /\ Len(lista') <= TamPagina
      /\ r \in llegados
      /\ ToSet(lista) = {r} \cup ToSet(lista')
      /\ Detras \subseteq Detras'
      /\ UNCHANGED <<pagina, mas, cortada, alInicio, deforme, encogio,
                     pendientes, llegados>>
  BY <1>0, <1>1, AvanzaUno
<1>4. TipoSfc' /\ TipoAck' /\ Contados'
  BY <1>1, <1>2, LecturaAparte DEF TipoSfc, crmVars, Bien
<1>5. /\ SinDuplicados' /\ Marcados'
      /\ entrega' \in Seq(llegados) /\ vistos' \subseteq Registro \ SinCodigo
      /\ fallidos' \subseteq llegados
      /\ ToSet(entrega) \cup fallidos \cup {r} = ToSet(entrega') \cup fallidos'
  <2>1. CASE r \in Ilegibles \cup SinCodigo
    <3>1. fallidos' = fallidos \cup {r} /\ vistos' = vistos /\ entrega' = entrega
          /\ modo' = modo
      BY <1>1, <2>1
    <3>2. SinDuplicados' /\ Marcados'
      BY <3>1 DEF IInv, SinDuplicados, Marcados
    <3> QED
      BY <1>2, <1>3, <3>1, <3>2 DEF TipoLectura
  <2>2. CASE r \notin Ilegibles \cup SinCodigo
    <3>1. fallidos' = fallidos /\ vistos' = Marca(r)
          /\ entrega' = Append(entrega, r) /\ modo' = modo
      BY <1>1, <2>2
    <3>2. /\ SinDuplicados' /\ Marcados'
          /\ entrega' \in Seq(llegados)
          /\ ToSet(entrega') = ToSet(entrega) \cup {r}
          /\ vistos' \subseteq Registro \ SinCodigo
      BY <1>1, <1>3, <3>1, EntregaUno
    <3> QED
      BY <1>2, <3>1, <3>2 DEF TipoLectura
  <2> QED
    BY <2>1, <2>2
<1>6. TipoLectura'
  BY <1>2, <1>3, <1>5 DEF TipoLectura
<1>7. Completos'
  BY <1>1 DEF IInv, Completos, Anexos, crmVars
<1>8. Cubierto'
  <2>1. Cubierto
    BY DEF IInv
  <2> QED
    BY <1>1, <1>3, <1>5, <2>1 DEF Cubierto
<1> QED
  BY <1>4, <1>5, <1>6, <1>7, <1>8 DEF IInv, Tipos

\* A complaint is delivered with all its attachments or left out.
LEMMA PasoProcesarQueja ==
    ASSUME IInv, ProcesarQueja
    PROVE  IInv'
<1>0. PICK r : r = Head(lista)
  OBVIOUS
<1>1. /\ pc = "procesa" /\ modo = "M1" /\ ~YaVisto(r) /\ Avanza
      /\ vistos' = Marca(r)
      /\ UNCHANGED <<modo, sfcVars, crmVars, fallidos, encogio, ackVars>>
  BY <1>0 DEF ProcesarQueja
<1>2. /\ Bien \/ Falla
      /\ s3 \subseteq s3' /\ s3' \subseteq s3 \cup Anexos(r)
      /\ sinLista \subseteq sinLista' /\ sinLista' \subseteq ConAnexos
      /\ \/ entrega' = entrega
         \/ /\ entrega' = Append(entrega, r)
            /\ Anexos(r) \subseteq s3' \/ r \in sinLista'
  <2>1. sinLista \subseteq ConAnexos
    BY DEF IInv, Completos
  <2>2. CASE \E hechos \in Transferidos(r) :
                /\ Bien \/ Falla
                /\ s3' = s3 \cup hechos
                /\ entrega' = IF Completa(r, hechos) /\ r \notin Ilegibles
                              THEN Append(entrega, r) ELSE entrega
                /\ UNCHANGED sinLista
    BY <2>1, <2>2 DEF Transferidos, Completa
  <2>3. CASE /\ Anexos(r) # {} /\ Falla
             /\ sinLista' = sinLista \cup {r}
             /\ entrega' = IF r \notin Ilegibles THEN Append(entrega, r) ELSE entrega
             /\ UNCHANGED s3
    <3>1. r \in ConAnexos
      BY <2>3 DEF Anexos
    <3> QED
      BY <2>1, <2>3, <3>1
  <2> QED
    BY <1>0, <2>2, <2>3 DEF ProcesarQueja
<1>3. TipoSfc /\ TipoLectura
  BY DEF IInv, Tipos
<1>4. /\ pc' \in {"pagina", "procesa", "responde"}
      /\ pc' = "procesa" <=> lista' # <<>>
      /\ lista' \in Seq(llegados) /\ Len(lista') <= TamPagina
      /\ r \in llegados
      /\ UNCHANGED <<pagina, mas, cortada, alInicio, deforme, encogio,
                     pendientes, llegados>>
  BY <1>0, <1>1, AvanzaUno
<1>5. s3' \subseteq Registro \X Adjunto /\ s3 \subseteq s3'
  <2>1. Anexos(r) \subseteq Registro \X Adjunto
    BY <1>3, <1>4 DEF Anexos, TipoSfc
  <2> QED
    BY <1>2, <1>3, <2>1 DEF TipoSfc
<1>6. TipoSfc' /\ TipoAck' /\ Contados'
  BY <1>1, <1>2, <1>3, <1>5, LecturaAparte DEF TipoSfc, crmVars
<1>7. /\ SinDuplicados' /\ Marcados'
      /\ entrega' \in Seq(llegados) /\ vistos' \subseteq Registro \ SinCodigo
  <2>1. CASE entrega' = Append(entrega, r)
    BY <1>1, <1>4, <2>1, EntregaUno
  <2>2. CASE entrega' = entrega
    <3>1. SinDuplicados'
      BY <2>2 DEF IInv, SinDuplicados
    <3>2. Marcados'
      BY <1>1, <2>2 DEF IInv, Marcados, Marca
    <3> QED
      BY <1>1, <1>3, <1>4, <2>2, <3>1, <3>2 DEF TipoLectura, TipoSfc, Marca
  <2> QED
    BY <1>2, <2>1, <2>2
<1>8. TipoLectura'
  BY <1>1, <1>3, <1>4, <1>7 DEF TipoLectura
<1>9. Completos'
  <2>1. \A x : Anexos(x)' = Anexos(x)
    BY <1>1 DEF Anexos
  <2>2. /\ crm' = crm
        /\ \A x \in (crm \cup ToSet(entrega)) \ sinLista : Anexos(x) \subseteq s3
    BY <1>1 DEF IInv, Completos, crmVars
  <2>3. CASE /\ entrega' = Append(entrega, r)
             /\ Anexos(r) \subseteq s3' \/ r \in sinLista'
    <3>1. ToSet(entrega') = ToSet(entrega) \cup {r}
      BY <1>3, <1>4, <2>3, ConjuntoAppend DEF TipoLectura
    <3> QED
      BY <1>2, <2>1, <2>2, <2>3, <3>1 DEF Completos
  <2>4. CASE entrega' = entrega
    BY <1>2, <2>1, <2>2, <2>4 DEF Completos
  <2> QED
    BY <1>2, <2>3, <2>4
<1>10. Cubierto'
  BY <1>1 DEF Cubierto
<1> QED
  BY <1>6, <1>7, <1>8, <1>9, <1>10 DEF IInv, Tipos

\* The answer reaches the CRM or is lost; either way the reading is over.
LEMMA PasoResponder ==
    ASSUME IInv, Responder
    PROVE  IInv'
<1>1. /\ FinLectura /\ UNCHANGED <<modo, sfcVars, s3, sinLista, confirmadas, ackVars>>
      /\ Bien \/ Falla
      /\ crm' = crm \/ crm' = crm \cup ToSet(entrega)
  BY DEF Responder
<1>2. TipoSfc /\ TipoLectura
  BY DEF IInv, Tipos
<1>3. ToSet(entrega) \subseteq llegados
  BY <1>2, Longitud DEF TipoLectura
<1>4. TipoSfc' /\ TipoAck' /\ Contados'
  <2>1. crm \subseteq crm' /\ crm' \subseteq llegados
    BY <1>1, <1>2, <1>3 DEF TipoSfc
  <2>2. s3' \subseteq Registro \X Adjunto
    BY <1>1, <1>2 DEF TipoSfc
  <2> QED
    BY <1>1, <2>1, <2>2, LecturaAparte
<1>5. TipoLectura' /\ SinDuplicados' /\ Marcados' /\ Cubierto'
  BY <1>1, FinVacio DEF sfcVars
<1>6. Completos'
  <2>1. entrega' = <<>>
    BY <1>1 DEF FinLectura
  <2> QED
    BY <1>1, <2>1, ConjuntoVacio DEF IInv, Completos, Anexos
<1> QED
  BY <1>4, <1>5, <1>6 DEF IInv, Tipos

-----------------------------------------------------------------------------
(* The steps of an acknowledgement.                                         *)

\* A step of the acknowledgement keeps what the invariant says of the reading,
\* whatever the SFC drops from its list: a reading under way takes note.
LEMMA AckAparte ==
    ASSUME IInv, UNCHANGED <<modo, llegados, s3, sinLista, crm, lecturaVars>>,
           encogio' \in BOOLEAN, encogio => encogio',
           pc # "libre" /\ ~encogio' => pendientes' = pendientes
    PROVE  TipoLectura' /\ SinDuplicados' /\ Marcados' /\ Completos' /\ Cubierto'
<1>1. /\ modo' = modo /\ llegados' = llegados /\ s3' = s3
      /\ sinLista' = sinLista /\ crm' = crm
      /\ pc' = pc /\ pagina' = pagina /\ lista' = lista /\ mas' = mas
      /\ vistos' = vistos /\ entrega' = entrega /\ fallidos' = fallidos
      /\ cortada' = cortada /\ alInicio' = alInicio /\ deforme' = deforme
  BY DEF lecturaVars
<1>2. TipoLectura'
  BY <1>1 DEF IInv, Tipos, TipoLectura
<1>3. SinDuplicados' /\ Marcados' /\ Completos'
  BY <1>1 DEF IInv, SinDuplicados, Marcados, Completos, Anexos
<1>4. Cubierto'
  <2> SUFFICES ASSUME modo = "M4", pc # "libre", ~encogio', ~cortada, ~deforme
               PROVE  alInicio \subseteq ToSet(entrega) \cup fallidos
                                             \cup ToSet(lista) \cup Detras'
    BY <1>1 DEF Cubierto
  <2>1. pendientes' = pendientes /\ ~encogio
    OBVIOUS
  <2>2. Detras' = Detras
    BY <1>1, <2>1 DEF Detras
  <2> QED
    BY <2>1, <2>2 DEF IInv, Cubierto
<1> QED
  BY <1>2, <1>3, <1>4

\* An acknowledgement begins with each id it was asked for, once.
LEMMA PasoPedirAck ==
    ASSUME IInv, PedirAck
    PROVE  IInv'
<1>1. /\ ack = "libre" /\ crm \ confirmadas # {} /\ ack' = "envia"
      /\ pedidos' = crm \ confirmadas
      /\ UNCHANGED <<modo, sfcVars, s3, sinLista, crmVars, fallos, lecturaVars, encogio,
                     exitosos, conError>>
  BY DEF PedirAck
<1>2. PICK s \in Solicitudes : ids' = Unicos(s)
  BY DEF PedirAck
<1>3. TipoSfc /\ TipoAck
  BY DEF IInv, Tipos
<1>4. PICK S : S = crm \ confirmadas
  OBVIOUS
<1>5. IsFiniteSet(S) /\ S # {} /\ Blanco \notin S
  <2>1. S \in SUBSET llegados
    BY <1>3, <1>4 DEF TipoSfc
  <2>2. IsFiniteSet(S)
    BY <1>3, <2>1, FS_Subset DEF TipoSfc
  <2> QED
    BY <1>1, <1>3, <1>4, <2>1, <2>2, LecturaAssumption DEF TipoSfc
<1>6. /\ ids' \in Seq(S)
      /\ Len(ids') = Cardinality(S)
      /\ ToSet(ids') = S
  <2>1. /\ Unicos(s) \in Seq(S)
        /\ Len(Unicos(s)) = Cardinality(S)
        /\ ToSet(Unicos(s)) = S
    BY <1>2, <1>4, <1>5, UnicosDeSolicitud
  <2> QED
    BY <1>2, <2>1
<1>7. /\ modo' = modo /\ pendientes' = pendientes /\ llegados' = llegados
      /\ s3' = s3 /\ sinLista' = sinLista /\ crm' = crm /\ confirmadas' = confirmadas
      /\ fallos' = fallos /\ encogio' = encogio /\ pedidos' = S
      /\ exitosos' = <<>> /\ conError' = <<>>
  BY <1>1, <1>3, <1>4 DEF sfcVars, crmVars, TipoAck
<1>8. TipoSfc'
  BY <1>3, <1>7 DEF TipoSfc
<1>9. TipoAck'
  <2>1. exitosos' \in Seq(pedidos') /\ conError' \in Seq(pedidos')
    BY <1>7, EmptySeq
  <2> QED
    BY <1>1, <1>4, <1>6, <1>7, <2>1 DEF TipoAck
<1>10. TipoLectura' /\ SinDuplicados' /\ Marcados' /\ Completos' /\ Cubierto'
  <2>1. encogio \in BOOLEAN
    BY DEF IInv, Tipos, TipoLectura
  <2> QED
    BY <1>1, <1>7, <2>1, AckAparte
<1>11. Contados'
  <2>1. Len(exitosos') = 0 /\ Len(conError') = 0
    BY <1>7, EmptySeq
  <2>2. ToSet(exitosos') = {} /\ ToSet(conError') = {}
    BY <1>7, ConjuntoVacio
  <2>3. Cardinality(S) \in Nat
    BY <1>5, FS_CardinalityType
  <2> QED
    BY <1>6, <1>7, <2>1, <2>2, <2>3 DEF Contados
<1> QED
  BY <1>8, <1>9, <1>10, <1>11 DEF IInv, Tipos

\* A batch and what is left of the ids.
LEMMA LoteYResto ==
    ASSUME NEW T, ids \in Seq(T), ids # <<>>
    PROVE  /\ Lote \in Seq(T) /\ Resto \in Seq(T)
           /\ Len(Lote) + Len(Resto) = Len(ids)
           /\ ToSet(Lote) \cup ToSet(Resto) = ToSet(ids)
<1>1. PICK n \in Nat : n = Len(ids)
  BY LenProperties
<1>2. n # 0
  BY <1>1, EmptySeq
<1>3. TamLote \in Nat \ {0}
  BY LecturaAssumption
<1>4. PICK k \in 1..n : k = IF TamLote < n THEN TamLote ELSE n
  BY <1>2, <1>3
<1>5. \A i \in 1..n : ids[i] \in T
  BY <1>1, ElementOfSeq
<1>6. Lote = SubSeq(ids, 1, k)
  BY <1>1, <1>4 DEF Lote
<1>7. \A i \in 1..k : ids[i] \in T
  BY <1>5
<1>8. Lote \in Seq(T) /\ Len(Lote) = k
  <2>1. /\ SubSeq(ids, 1, k) \in Seq(T)
        /\ Len(SubSeq(ids, 1, k)) = IF 1 <= k THEN k - 1 + 1 ELSE 0
    BY <1>7, SubSeqProperties
  <2> QED
    BY <1>6, <2>1
<1>9. Resto = SubSeq(ids, k + 1, n)
  BY <1>1, <1>8 DEF Resto
<1>10. \A i \in (k + 1)..n : ids[i] \in T
  BY <1>5
<1>11. Resto \in Seq(T) /\ Len(Resto) = n - k
  <2>1. /\ SubSeq(ids, k + 1, n) \in Seq(T)
        /\ Len(SubSeq(ids, k + 1, n)) = IF k + 1 <= n THEN n - (k + 1) + 1 ELSE 0
    BY <1>10, SubSeqProperties
  <2> QED
    BY <1>9, <2>1
<1>12. Lote \o Resto = ids
  <2>1. SubSeq(ids, 1, k) \o SubSeq(ids, k + 1, n) = SubSeq(ids, 1, n)
    BY <1>1, <1>2, ConcatAdjacentSubSeq
  <2>2. SubSeq(ids, 1, n) = ids
    BY <1>1, SubSeqFull
  <2> QED
    BY <1>6, <1>9, <2>1, <2>2
<1>13. ToSet(Lote \o Resto) = ToSet(Lote) \cup ToSet(Resto)
  BY <1>8, <1>11, ConjuntoConcat
<1> QED
  BY <1>1, <1>8, <1>11, <1>12, <1>13

\* Counting a batch: whatever the split of it, no id is lost or counted twice.
LEMMA CuentaLote ==
    ASSUME IInv, ack = "envia", ids # <<>>, NEW bien, NEW mal,
           bien \in Seq(pedidos), mal \in Seq(pedidos),
           Len(bien) + Len(mal) = Len(Lote),
           ToSet(bien) \cup ToSet(mal) = ToSet(Lote),
           exitosos' = exitosos \o bien, conError' = conError \o mal,
           ids' = Resto, Bien \/ Falla,
           UNCHANGED <<modo, llegados, s3, sinLista, crmVars, lecturaVars, ack,
                       pedidos>>,
           pendientes' \in Seq(llegados),
           ToSet(pendientes') \subseteq ToSet(pendientes),
           ToSet(bien) \cap ToSet(pendientes') = {},
           encogio' \in BOOLEAN, encogio => encogio',
           pc # "libre" /\ ~encogio' => pendientes' = pendientes
    PROVE  IInv'
<1>1. TipoSfc /\ TipoAck /\ Contados
  BY DEF IInv, Tipos
<1>2. /\ modo' = modo /\ llegados' = llegados /\ s3' = s3
      /\ sinLista' = sinLista /\ crm' = crm
      /\ confirmadas' = confirmadas /\ ack' = ack /\ pedidos' = pedidos
  BY DEF crmVars
<1>3. /\ ids \in Seq(pedidos) /\ exitosos \in Seq(pedidos)
      /\ conError \in Seq(pedidos)
  BY <1>1 DEF TipoAck
<1>4. /\ Lote \in Seq(pedidos) /\ Resto \in Seq(pedidos)
      /\ Len(Lote) + Len(Resto) = Len(ids)
      /\ ToSet(Lote) \cup ToSet(Resto) = ToSet(ids)
  BY <1>3, LoteYResto
<1>5. /\ exitosos' \in Seq(pedidos) /\ conError' \in Seq(pedidos)
      /\ ToSet(exitosos') = ToSet(exitosos) \cup ToSet(bien)
      /\ ToSet(conError') = ToSet(conError) \cup ToSet(mal)
  BY <1>3, ConjuntoConcat
<1>6. /\ Len(exitosos') = Len(exitosos) + Len(bien)
      /\ Len(conError') = Len(conError) + Len(mal)
  BY <1>3, ConcatProperties
<1>7. TipoSfc'
  <2>1. fallos' \in 0..MaxFallos
    BY <1>1, LecturaAssumption DEF TipoSfc, Bien, Falla
  <2> QED
    BY <1>1, <1>2, <2>1 DEF TipoSfc
<1>8. TipoAck'
  BY <1>1, <1>2, <1>4, <1>5 DEF TipoAck
<1>9. TipoLectura' /\ SinDuplicados' /\ Marcados' /\ Completos' /\ Cubierto'
  BY <1>2, AckAparte
<1>10. Contados'
  <2>1. /\ ToSet(exitosos) \cup ToSet(conError) \cup ToSet(ids) = pedidos
        /\ Len(exitosos) + Len(conError) + Len(ids) = Cardinality(pedidos)
        /\ ToSet(exitosos) \cap ToSet(pendientes) = {}
    BY <1>1 DEF Contados
  <2>2. ToSet(exitosos') \cup ToSet(conError') \cup ToSet(ids') = pedidos
    BY <1>4, <1>5, <2>1
  <2>3. Len(exitosos') + Len(conError') + Len(ids') = Cardinality(pedidos)
    <3>1. /\ Len(exitosos) \in Nat /\ Len(conError) \in Nat /\ Len(bien) \in Nat
          /\ Len(mal) \in Nat /\ Len(Lote) \in Nat /\ Len(Resto) \in Nat
      BY <1>3, <1>4, LenProperties
    <3>2. Len(ids') = Len(Resto) /\ Len(ids) = Len(Lote) + Len(Resto)
      BY <1>4
    <3>3. Len(Lote) = Len(bien) + Len(mal)
      OBVIOUS
    <3>4. Len(exitosos) + Len(conError) + Len(ids) =
             (Len(exitosos) + Len(bien)) + (Len(conError) + Len(mal)) + Len(Resto)
      BY <3>1, <3>2, <3>3
    <3> QED
      BY <1>6, <2>1, <3>2, <3>4
  <2>4. ToSet(exitosos') \cap ToSet(pendientes') = {}
    BY <1>5, <2>1
  <2> QED
    BY <1>2, <2>2, <2>3, <2>4 DEF Contados
<1> QED
  BY <1>7, <1>8, <1>9, <1>10 DEF IInv, Tipos

\* What the SFC does with the ids it takes.
LEMMA RetiraQuita ==
    ASSUME IInv, NEW rs, Retira(rs)
    PROVE  /\ pendientes' \in Seq(llegados)
           /\ ToSet(pendientes') = ToSet(pendientes) \ rs
           /\ encogio' \in BOOLEAN /\ (encogio => encogio')
           /\ pc # "libre" /\ ~encogio' => pendientes' = pendientes
<1>1. pendientes \in Seq(llegados) /\ encogio \in BOOLEAN
  BY DEF IInv, Tipos, TipoSfc, TipoLectura
<1>2. pendientes' = Sin(pendientes, rs)
  BY DEF Retira
<1>3. pendientes' \in Seq(llegados) /\ ToSet(pendientes') = ToSet(pendientes) \ rs
  BY <1>1, <1>2, SinQuita
<1>4. encogio' = (encogio \/ (pc # "libre" /\ pendientes' # pendientes))
  BY DEF Retira
<1> QED
  BY <1>1, <1>3, <1>4

\* A batch is answered, or lost before or after the SFC took it.
LEMMA PasoEnviarLote ==
    ASSUME IInv, EnviarLote
    PROVE  IInv'
<1>1. /\ ack = "envia" /\ ids # <<>> /\ ids' = Resto
      /\ UNCHANGED <<modo, llegados, s3, sinLista, crmVars, lecturaVars, ack, pedidos>>
  BY DEF EnviarLote
<1>2. /\ pendientes \in Seq(llegados) /\ encogio \in BOOLEAN
      /\ ids \in Seq(pedidos) /\ exitosos \in Seq(pedidos)
  BY DEF IInv, Tipos, TipoSfc, TipoLectura, TipoAck
<1>3. Lote \in Seq(pedidos)
  BY <1>1, <1>2, LoteYResto
<1>4. ASSUME NEW errores \in SUBSET ToSet(Lote), Bien \/ Falla,
             Retira(ToSet(Lote) \ errores),
             exitosos' = exitosos \o Aceptados(Lote, errores),
             conError' = conError \o Sin(Lote, ToSet(Lote) \ errores)
      PROVE  IInv'
  <2>1. PICK bien, mal : /\ bien = Sin(Lote, errores)
                         /\ mal = Sin(Lote, ToSet(Lote) \ errores)
    OBVIOUS
  <2>2. /\ bien \in Seq(pedidos) /\ mal \in Seq(pedidos)
        /\ ToSet(bien) = ToSet(Lote) \ errores
        /\ ToSet(mal) = ToSet(Lote) \ (ToSet(Lote) \ errores)
    BY <1>3, <2>1, SinQuita
  <2>3. Len(bien) + Len(mal) = Len(Lote)
    BY <1>3, <1>4, <2>1, SinReparte
  <2>4. ToSet(bien) \cup ToSet(mal) = ToSet(Lote)
    BY <1>4, <2>2
  <2>5. exitosos' = exitosos \o bien /\ conError' = conError \o mal
    BY <1>4, <2>1 DEF Aceptados
  <2>6. /\ pendientes' \in Seq(llegados)
        /\ ToSet(pendientes') = ToSet(pendientes) \ (ToSet(Lote) \ errores)
        /\ encogio' \in BOOLEAN /\ (encogio => encogio')
        /\ pc # "libre" /\ ~encogio' => pendientes' = pendientes
    BY <1>4, RetiraQuita
  <2>7. /\ ToSet(pendientes') \subseteq ToSet(pendientes)
        /\ ToSet(bien) \cap ToSet(pendientes') = {}
    BY <2>2, <2>6
  <2> QED
    BY <1>1, <1>4, <2>2, <2>3, <2>4, <2>5, <2>6, <2>7, CuentaLote
<1>5. ASSUME Falla, LoteFallido(Lote),
             \/ UNCHANGED <<pendientes, encogio>>
             \/ Retira(ToSet(Lote))
      PROVE  IInv'
  <2>1. PICK bien : bien = <<>>
    OBVIOUS
  <2>2. bien \in Seq(pedidos) /\ Len(bien) = 0 /\ ToSet(bien) = {}
    BY <2>1, EmptySeq, ConjuntoVacio
  <2>3. exitosos' = exitosos \o bien /\ conError' = conError \o Lote
    BY <1>2, <1>5, <2>1, ConcatEmptySeq DEF LoteFallido
  <2>4. Len(bien) + Len(Lote) = Len(Lote)
    BY <1>3, <2>2, LenProperties
  <2>5. /\ pendientes' \in Seq(llegados)
        /\ ToSet(pendientes') \subseteq ToSet(pendientes)
        /\ encogio' \in BOOLEAN /\ (encogio => encogio')
        /\ pc # "libre" /\ ~encogio' => pendientes' = pendientes
    <3>1. CASE UNCHANGED <<pendientes, encogio>>
      BY <1>2, <3>1
    <3>2. CASE Retira(ToSet(Lote))
      BY <3>2, RetiraQuita
    <3> QED
      BY <1>5, <3>1, <3>2
  <2>6. ToSet(bien) \cup ToSet(Lote) = ToSet(Lote)
    BY <2>2
  <2> QED
    BY <1>1, <1>3, <1>5, <2>2, <2>3, <2>4, <2>5, <2>6, CuentaLote
<1> QED
  BY <1>4, <1>5 DEF EnviarLote

\* The answer of an acknowledgement ends it.
LEMMA PasoResponderAck ==
    ASSUME IInv, ResponderAck
    PROVE  IInv'
<1>1. /\ ack = "envia" /\ ids = <<>> /\ ack' = "libre" /\ pedidos' = {}
      /\ exitosos' = <<>> /\ conError' = <<>>
      /\ Bien \/ Falla
      /\ UNCHANGED <<modo, sfcVars, s3, sinLista, crm, lecturaVars, encogio, ids>>
  BY DEF ResponderAck
<1>2. confirmadas' = confirmadas \/ confirmadas' = confirmadas \cup ToSet(exitosos)
  BY DEF ResponderAck
<1>3. TipoSfc /\ TipoAck
  BY DEF IInv, Tipos
<1>4. ToSet(exitosos) \subseteq crm
  BY <1>3, Longitud DEF TipoAck
<1>5. TipoSfc'
  <2>1. fallos' \in 0..MaxFallos
    BY <1>1, <1>3, LecturaAssumption DEF TipoSfc, Bien, Falla
  <2>2. confirmadas' \subseteq crm
    BY <1>2, <1>3, <1>4 DEF TipoSfc
  <2> QED
    BY <1>1, <1>3, <2>1, <2>2 DEF TipoSfc, sfcVars
<1>6. TipoAck'
  BY <1>1, EmptySeq DEF TipoAck
<1>7. TipoLectura' /\ SinDuplicados' /\ Marcados' /\ Completos' /\ Cubierto'
  <2>1. encogio \in BOOLEAN
    BY DEF IInv, Tipos, TipoLectura
  <2> QED
    BY <1>1, <2>1, AckAparte DEF sfcVars
<1>8. Contados'
  BY <1>1 DEF Contados
<1> QED
  BY <1>5, <1>6, <1>7, <1>8 DEF IInv, Tipos

-----------------------------------------------------------------------------
(* What follows.                                                            *)

\* Every step keeps the invariant.
LEMMA InvPaso == IInv /\ [Next]_vars => IInv'
<1> SUFFICES ASSUME IInv, [Next]_vars PROVE IInv'
  OBVIOUS
<1>1. CASE UNCHANGED vars
  BY <1>1
     DEF vars, sfcVars, crmVars, lecturaVars, ackVars, IInv, Tipos, TipoSfc,
         TipoLectura, TipoAck, SinDuplicados, Marcados, Completos, Anexos,
         Cubierto, Detras, Contados
<1>2. ASSUME NEW r \in Registro, Llega(r) PROVE IInv'
  BY <1>2, PasoLlega
<1>3. CASE Leer
  BY <1>3, PasoPedir, PasoCortar, PasoLeerPagina, PasoRepetido,
     PasoProcesarQueja, PasoProcesarUsuario, PasoResponder DEF Leer
<1>4. CASE Confirmar
  BY <1>4, PasoPedirAck, PasoEnviarLote, PasoResponderAck DEF Confirmar
<1> QED
  BY <1>1, <1>2, <1>3, <1>4 DEF Next

\* The inductive invariant holds of every reading and acknowledgement.
THEOREM InvarianteLectura == Spec => []IInv
BY InvInicio, InvPaso, PTL DEF Spec

\* Type correctness: a reading stays within its pages and its page, and holds
\* only records the SFC has listed; an acknowledgement only ids the CRM asked
\* for (ejecutar_flujo_completo_momento_1, confirmar_recepcion_ack).
THEOREM TipadoLectura == Spec => []TypeOKL
<1>1. IInv => TypeOKL
  <2> SUFFICES ASSUME IInv PROVE TypeOKL
    OBVIOUS
  <2>1. TipoSfc /\ TipoLectura /\ TipoAck
    BY DEF IInv, Tipos
  <2>2. ToSet(pendientes) \subseteq llegados /\ ToSet(entrega) \subseteq llegados
    BY <2>1, Longitud DEF TipoSfc, TipoLectura
  <2>3. /\ ToSet(ids) \subseteq pedidos /\ ToSet(exitosos) \subseteq pedidos
        /\ ToSet(conError) \subseteq pedidos
    BY <2>1, Longitud DEF TipoAck
  <2> QED
    BY <2>1, <2>2, <2>3
       DEF IInv, Completos, TypeOKL, TipoSfc, TipoLectura, TipoAck
<1> QED
  BY <1>1, InvarianteLectura, PTL

\* No list brings a record twice, however the pages move between two calls
\* (_filtrar_duplicados_por_codigo_queja, _procesar_usuario_sfc).
THEOREM ListaSinRepetidos == Spec => []SinDuplicados
<1>1. IInv => SinDuplicados
  BY DEF IInv
<1> QED
  BY <1>1, InvarianteLectura, PTL

\* What the CRM takes has all its attachments in S3, unless their list came back
\* without results (_procesar_queja_individual).
THEOREM NuncaIncompleta == Spec => []EntregaCompleta
<1>1. IInv => EntregaCompleta
  BY DEF IInv, Completos, EntregaCompleta
<1> QED
  BY <1>1, InvarianteLectura, PTL

\* "success" of moment 4 covers the whole list the reading began with, unless an
\* acknowledgement moved the pages meanwhile or a page came in a shape that is
\* taken for the end of the list (sincronizar_usuarios, _extraer_lista_usuarios).
THEOREM ExitoCompleto == Spec => []ExitoCubreTodo
<1>1. IInv => ExitoCubreTodo
  <2> SUFFICES ASSUME IInv, modo = "M4", pc = "responde", Status = "success",
                      ~encogio, ~deforme
               PROVE  alInicio \subseteq ToSet(entrega)
    BY DEF ExitoCubreTodo
  <2>1. cortada \in BOOLEAN /\ lista = <<>>
    BY DEF IInv, Tipos, TipoLectura
  <2>2. ~cortada /\ fallidos = {}
    BY <2>1 DEF Status
  <2>3. ToSet(lista) = {} /\ Detras = {}
    BY <2>1, ConjuntoVacio DEF Detras
  <2> QED
    BY <2>2, <2>3 DEF IInv, Cubierto
<1> QED
  BY <1>1, InvarianteLectura, PTL

\* The answer of an acknowledgement counts each id once, and the SFC lists none
\* of the processed ones any more (confirmar_recepcion_ack,
\* confirmar_recepcion_ack_usuarios).
THEOREM AckSiempreVeraz == Spec => []AckVeraz
<1>1. IInv => AckVeraz
  <2> SUFFICES ASSUME IInv, ack = "envia"
               PROVE  LET contados == exitosos \o conError \o ids IN
                      /\ ToSet(contados) = pedidos
                      /\ Len(contados) = Cardinality(pedidos)
                      /\ ToSet(exitosos) \cap ToSet(pendientes) = {}
                      /\ ids = <<>> /\ StatusAck = "success"
                            => pedidos \cap ToSet(pendientes) = {}
    BY DEF AckVeraz
  <2>1. /\ ids \in Seq(pedidos) /\ exitosos \in Seq(pedidos)
        /\ conError \in Seq(pedidos)
    BY DEF IInv, Tipos, TipoAck
  <2>2. PICK u : u = exitosos \o conError
    OBVIOUS
  <2>3. /\ u \in Seq(pedidos) /\ Len(u) = Len(exitosos) + Len(conError)
        /\ ToSet(u) = ToSet(exitosos) \cup ToSet(conError)
    BY <2>1, <2>2, ConjuntoConcat, ConcatProperties
  <2>4. /\ Len(u \o ids) = Len(u) + Len(ids)
        /\ ToSet(u \o ids) = ToSet(u) \cup ToSet(ids)
    <3>1. ToSet(u \o ids) = ToSet(u) \cup ToSet(ids)
      BY <2>1, <2>3, ConjuntoConcat
    <3>2. Len(u \o ids) = Len(u) + Len(ids)
      BY <2>1, <2>3, ConcatProperties
    <3> QED
      BY <3>1, <3>2
  <2>5. /\ ToSet(exitosos) \cup ToSet(conError) \cup ToSet(ids) = pedidos
        /\ Len(exitosos) + Len(conError) + Len(ids) = Cardinality(pedidos)
        /\ ToSet(exitosos) \cap ToSet(pendientes) = {}
    BY DEF IInv, Contados
  <2>6. ASSUME ids = <<>>, StatusAck = "success"
        PROVE  pedidos \cap ToSet(pendientes) = {}
    <3>1. conError = <<>>
      BY <2>6 DEF StatusAck
    <3>2. ToSet(conError) = {} /\ ToSet(ids) = {}
      BY <2>6, <3>1, ConjuntoVacio
    <3> QED
      BY <2>5, <3>2
  <2> QED
    BY <2>2, <2>3, <2>4, <2>5, <2>6
<1> QED
  BY <1>1, InvarianteLectura, PTL

=============================================================================
