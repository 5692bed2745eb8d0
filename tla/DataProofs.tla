----------------------------- MODULE DataProofs -----------------------------
(***************************************************************************)
(* Proofs about the modules that compute: Snapshot and Queries, for every  *)
(* set of keys and values, whatever their sizes, every order of iteration  *)
(* and every choice of the limits (the types, what a .db file is worth to  *)
(* a reader, that the reads of a table agree), and Commands, for lines of  *)
(* any length (what tokenize makes of them, and what of a logged line      *)
(* survives the way through the AOF).                                      *)
(***************************************************************************)
EXTENDS Snapshot, Commands, TLAPS, FiniteSetTheorems, SequenceTheorems,
        WellFoundedInduction

(* Some number of a nonempty set of them is the smallest.                  *)
LEMMA SmallestOf ==
  ASSUME NEW T \in SUBSET Nat, T # {}
  PROVE  \E n \in T : \A m \in T : n <= m
<1>1. PICK R : R = OpToRel(<, Nat)
  OBVIOUS
<1>2. IsWellFoundedOn(R, Nat)
  BY <1>1, NatLessThanWellFounded
<1>3. PICK n \in T : \A m \in T : <<m, n>> \notin R
  BY <1>2, WFMin
<1>4. \A a, b \in Nat : <<a, b>> \in R <=> a < b
  BY <1>1 DEF OpToRel
<1>5. ASSUME NEW m \in T PROVE n <= m
  <2>1. n \in Nat /\ m \in Nat
    OBVIOUS
  <2>2. ~(m < n)
    BY <1>3, <1>4, <2>1
  <2> QED  BY <2>1, <2>2
<1> QED  BY <1>5
-----------------------------------------------------------------------------
(* u[i] is the sum of the first i of n numbers.                            *)
Sums(u, n, w) ==
  /\ u \in [0..n -> Nat]
  /\ u[0] = 0
  /\ \A i \in 1..n : u[i] = u[i - 1] + w[i]

(* There is one sum only.                                                  *)
LEMMA SumsUnique ==
  ASSUME NEW n \in Nat, NEW w, NEW u, NEW v, Sums(u, n, w), Sums(v, n, w)
  PROVE  u[n] = v[n]
<1> DEFINE T == {i \in 0..n : u[i] # v[i]}
<1>1. SUFFICES ASSUME T # {} PROVE FALSE
  OBVIOUS
<1>2. T \in SUBSET Nat
  OBVIOUS
<1>3. PICK i \in T : \A j \in T : i <= j
  <2> HIDE DEF T
  <2> QED  BY <1>1, <1>2, SmallestOf
<1>4. i # 0
  BY DEF Sums
<1>5. i \in 1..n /\ i - 1 \in 0..n /\ ~(i <= i - 1)
  BY <1>4
<1>6. u[i - 1] = v[i - 1]
  BY <1>3, <1>5
<1> QED  BY <1>5, <1>6 DEF Sums

(* Numbers have sums.                                                      *)
LEMMA SumsExist ==
  ASSUME NEW n \in Nat, NEW w \in [1..n -> Nat]
  PROVE  \E u : Sums(u, n, w)
<1> DEFINE Exists(m) == \E u : Sums(u, m, w)
           T == {m \in 0..n : ~Exists(m)}
<1>1. SUFFICES ASSUME T # {} PROVE FALSE
  <2>1. n \in 0..n
    OBVIOUS
  <2> HIDE DEF Exists
  <2> SUFFICES Exists(n)
    BY DEF Exists
  <2> QED  BY <2>1, <1>1
<1>2. T \in SUBSET Nat
  OBVIOUS
<1>3. PICK m \in T : \A j \in T : m <= j
  <2> HIDE DEF T
  <2> QED  BY <1>1, <1>2, SmallestOf
<1>4. m # 0
  <2>1. Sums([i \in 0..0 |-> 0], 0, w)
    BY DEF Sums
  <2> QED  BY <2>1
<1>5. m \in 1..n /\ m - 1 \in 0..n /\ ~(m <= m - 1)
  BY <1>4
<1>6. Exists(m - 1)
  <2> HIDE DEF Exists
  <2> QED  BY <1>3, <1>5
<1>7. PICK u : Sums(u, m - 1, w)
  BY <1>6
<1> DEFINE v == [i \in 0..m |-> IF i = m THEN u[m - 1] + w[m] ELSE u[i]]
<1>8. u \in [0..(m - 1) -> Nat] /\ w[m] \in Nat /\ m - 1 \in 0..(m - 1)
  BY <1>5, <1>7 DEF Sums
<1>9. v \in [0..m -> Nat]
  BY <1>5, <1>8
<1>10. v[0] = 0
  BY <1>5, <1>7 DEF Sums
<1>11. ASSUME NEW i \in 1..m PROVE v[i] = v[i - 1] + w[i]
  <2>1. CASE i = m
    BY <1>5, <2>1
  <2>2. CASE i # m
    <3>1. i \in 1..(m - 1) /\ i \in 0..m /\ i - 1 \in 0..m /\ i - 1 # m
      BY <1>5, <2>2
    <3> QED  BY <1>7, <2>2, <3>1 DEF Sums
  <2> QED  BY <2>1, <2>2
<1>12. Sums(v, m, w)
  <2> HIDE DEF v
  <2> QED  BY <1>9, <1>10, <1>11 DEF Sums
<1> QED  BY <1>3, <1>12

(* Max is the greatest of some numbers.                                    *)
LEMMA MaxOf ==
  ASSUME NEW n \in Nat, NEW t \in SUBSET (1..n), t # {}
  PROVE  Max(t) \in t /\ \A m \in t : m <= Max(t)
<1> DEFINE T == {n - m : m \in t}
<1>1. T \in SUBSET Nat /\ T # {}
  <2>1. \A m \in t : m \in 1..n /\ n - m \in Nat
    OBVIOUS
  <2>2. T \subseteq Nat
    BY <2>1
  <2>3. PICK m \in t : TRUE
    OBVIOUS
  <2>4. n - m \in T
    BY <2>3
  <2> QED  BY <2>2, <2>4
<1>2. PICK d \in T : \A m \in T : d <= m
  <2> HIDE DEF T
  <2> QED  BY <1>1, SmallestOf
<1>3. PICK x \in t : d = n - x
  OBVIOUS
<1>4. ASSUME NEW y \in t PROVE x >= y
  <2>1. n - y \in T
    OBVIOUS
  <2>2. n - x <= n - y
    BY <1>2, <1>3, <2>1
  <2> QED  BY <2>2
<1>5. \E z \in t : \A y \in t : z >= y
  BY <1>4
<1>6. Max(t) \in t /\ \A y \in t : Max(t) >= y
  BY <1>5 DEF Max
<1> QED  BY <1>6

(* What a fold of the community modules builds: a sum for every subset.    *)
Adds(it, n, w) ==
  it = [t \in SUBSET (1..n) |-> IF t = {} THEN 0 ELSE it[t \ {Max(t)}] + w[Max(t)]]

(* There is such a function.                                               *)
LEMMA AddsExist ==
  ASSUME NEW n \in Nat, NEW w
  PROVE  \E it : Adds(it, n, w)
<1> DEFINE Exists(m) == \E it : Adds(it, m, w)
           T == {m \in 0..n : ~Exists(m)}
<1>1. SUFFICES ASSUME T # {} PROVE FALSE
  <2>1. n \in 0..n
    OBVIOUS
  <2> HIDE DEF Exists
  <2> SUFFICES Exists(n)
    BY DEF Exists
  <2> QED  BY <2>1, <1>1
<1>2. T \in SUBSET Nat
  OBVIOUS
<1>3. PICK m \in T : \A j \in T : m <= j
  <2> HIDE DEF T
  <2> QED  BY <1>1, <1>2, SmallestOf
<1>4. m # 0
  <2>1. SUBSET (1..0) = {{}}
    OBVIOUS
  <2>2. Adds([t \in SUBSET (1..0) |-> 0], 0, w)
    BY <2>1 DEF Adds
  <2> QED  BY <2>2
<1>5. m \in 1..n /\ m - 1 \in 0..n /\ ~(m <= m - 1)
  BY <1>4
<1>6. Exists(m - 1)
  <2> HIDE DEF Exists
  <2> QED  BY <1>3, <1>5
<1>7. PICK it : Adds(it, m - 1, w)
  BY <1>6
<1> DEFINE f == [t \in SUBSET (1..m) |-> IF m \in t THEN it[t \ {m}] + w[m] ELSE it[t]]
           g == [t \in SUBSET (1..m) |-> IF t = {} THEN 0 ELSE f[t \ {Max(t)}] + w[Max(t)]]
<1>8. ASSUME NEW t \in SUBSET (1..m) PROVE f[t] = g[t]
  <2>1. m \in Nat /\ m - 1 \in Nat
    BY <1>5
  <2>2. CASE m \in t
    <3>1. Max(t) \in t /\ \A i \in t : i <= Max(t)
      BY <2>1, <2>2, MaxOf
    <3>2. Max(t) = m
      <4>1. Max(t) \in 1..m
        BY <3>1
      <4>2. m <= Max(t)
        BY <2>2, <3>1
      <4> HIDE DEF f, g
      <4> QED  BY <2>1, <4>1, <4>2
    <3>3. t \ {m} \in SUBSET (1..m) /\ m \notin t \ {m} /\ t # {}
      BY <2>2
    <3>4. f[t] = it[t \ {m}] + w[m]
      BY <2>2
    <3>5. f[t \ {m}] = it[t \ {m}]
      BY <3>3
    <3>6. g[t] = f[t \ {m}] + w[m]
      BY <3>2, <3>3
    <3> QED  BY <3>4, <3>5, <3>6
  <2>3. CASE m \notin t
    <3>1. t \in SUBSET (1..(m - 1))
      BY <2>1, <2>3
    <3>2. it[t] = IF t = {} THEN 0 ELSE it[t \ {Max(t)}] + w[Max(t)]
      BY <1>7, <3>1 DEF Adds
    <3>3. t \ {Max(t)} \in SUBSET (1..m) /\ m \notin t \ {Max(t)}
      BY <2>3
    <3>4. f[t] = it[t] /\ f[t \ {Max(t)}] = it[t \ {Max(t)}]
      BY <2>3, <3>3
    <3>5. g[t] = IF t = {} THEN 0 ELSE f[t \ {Max(t)}] + w[Max(t)]
      OBVIOUS
    <3> HIDE DEF f, g
    <3> QED  BY <3>2, <3>4, <3>5
  <2> QED  BY <2>2, <2>3
<1>9. f = g
  BY <1>8
<1>10. Adds(f, m, w)
  BY <1>9 DEF Adds
<1> QED  BY <1>3, <1>10

(* A sum over the first n numbers is the sum of the first n.               *)
LEMMA AddsSum ==
  ASSUME NEW n \in Nat, NEW w, NEW it, NEW u, Adds(it, n, w), Sums(u, n, w)
  PROVE  it[1..n] = u[n]
<1> DEFINE T == {i \in 0..n : it[1..i] # u[i]}
<1>1. SUFFICES ASSUME T # {} PROVE FALSE
  OBVIOUS
<1>2. T \in SUBSET Nat
  OBVIOUS
<1>3. PICK i \in T : \A j \in T : i <= j
  <2> HIDE DEF T
  <2> QED  BY <1>1, <1>2, SmallestOf
<1>4. i # 0
  <2>1. 1..0 = {} /\ 1..0 \in SUBSET (1..n)
    OBVIOUS
  <2>2. it[1..0] = 0
    BY <2>1 DEF Adds
  <2> QED  BY <2>2 DEF Sums
<1>5. i \in 1..n /\ i - 1 \in 0..n /\ ~(i <= i - 1)
  BY <1>4
<1>6. it[1..(i - 1)] = u[i - 1]
  BY <1>3, <1>5
<1>7. 1..i \in SUBSET (1..n) /\ 1..i # {} /\ i \in 1..i
  BY <1>5
<1>8. Max(1..i) \in 1..i /\ \A m \in 1..i : m <= Max(1..i)
  BY <1>5, <1>7, MaxOf
<1>9. Max(1..i) = i
  BY <1>5, <1>7, <1>8
<1>10. (1..i) \ {i} = 1..(i - 1)
  BY <1>5
<1>11. it[1..i] = it[(1..i) \ {Max(1..i)}] + w[Max(1..i)]
  BY <1>7 DEF Adds
<1>12. it[1..i] = it[1..(i - 1)] + w[i]
  BY <1>9, <1>10, <1>11
<1> QED  BY <1>5, <1>6, <1>12 DEF Sums

(* The bytes of a sequence of fields are the sum of their widths.          *)
LEMMA BytesAreSums ==
  ASSUME NEW n \in Nat, NEW s, DOMAIN s = 1..n, NEW u,
         Sums(u, n, [i \in 1..n |-> Width(s[i])])
  PROVE  Bytes(s) = u[n]
<1> DEFINE w == [i \in 1..n |-> Width(s[i])]
           F(it) == [t \in SUBSET (1..n) |->
                       IF t = {} THEN 0 ELSE it[t \ {Max(t)}] + Width(s[Max(t)])]
           fold == CHOOSE it : it = F(it)
<1>1. Bytes(s) = fold[1..n]
  BY DEF Bytes, FoldLeft, MapThenFoldSet
<1>2. ASSUME NEW it PROVE Adds(it, n, w) <=> it = F(it)
  <2>1. ASSUME NEW t \in SUBSET (1..n), t # {}
        PROVE  w[Max(t)] = Width(s[Max(t)])
    <3>1. Max(t) \in 1..n
      BY <2>1, MaxOf
    <3> QED  BY <3>1
  <2>2. ASSUME NEW t \in SUBSET (1..n)
        PROVE  (IF t = {} THEN 0 ELSE it[t \ {Max(t)}] + w[Max(t)])
                 = (IF t = {} THEN 0 ELSE it[t \ {Max(t)}] + Width(s[Max(t)]))
    <3> HIDE DEF w
    <3> QED  BY <2>1, <2>2
  <2> QED  BY <2>2 DEF Adds
<1>3. PICK it : Adds(it, n, w)
  BY AddsExist
<1>4. it = F(it)
  BY <1>2, <1>3
<1>5. fold = F(fold)
  <2> HIDE DEF F
  <2> QED  BY <1>4
<1>6. Adds(fold, n, w)
  <2> HIDE DEF F, w, fold
  <2> QED  BY <1>2, <1>5
<1>7. fold[1..n] = u[n]
  <2> HIDE DEF F, fold
  <2> QED  BY <1>6, AddsSum
<1> QED  BY <1>1, <1>7

(* So are those of a sequence of keys and values.                          *)
LEMMA SizesAreSums ==
  ASSUME NEW n \in Nat, NEW s, DOMAIN s = 1..n, NEW u,
         Sums(u, n, [i \in 1..n |-> Size[s[i]]])
  PROVE  FoldLeft(LAMBDA m, x : m + Size[x], 0, s) = u[n]
<1> DEFINE w == [i \in 1..n |-> Size[s[i]]]
           F(it) == [t \in SUBSET (1..n) |->
                       IF t = {} THEN 0 ELSE it[t \ {Max(t)}] + Size[s[Max(t)]]]
           fold == CHOOSE it : it = F(it)
<1>1. FoldLeft(LAMBDA m, x : m + Size[x], 0, s) = fold[1..n]
  BY DEF FoldLeft, MapThenFoldSet
<1>2. ASSUME NEW it PROVE Adds(it, n, w) <=> it = F(it)
  <2>1. ASSUME NEW t \in SUBSET (1..n), t # {}
        PROVE  w[Max(t)] = Size[s[Max(t)]]
    <3>1. Max(t) \in 1..n
      BY <2>1, MaxOf
    <3> QED  BY <3>1
  <2>2. ASSUME NEW t \in SUBSET (1..n)
        PROVE  (IF t = {} THEN 0 ELSE it[t \ {Max(t)}] + w[Max(t)])
                 = (IF t = {} THEN 0 ELSE it[t \ {Max(t)}] + Size[s[Max(t)]])
    <3> HIDE DEF w
    <3> QED  BY <2>1, <2>2
  <2> QED  BY <2>2 DEF Adds
<1>3. PICK it : Adds(it, n, w)
  BY AddsExist
<1>4. it = F(it)
  BY <1>2, <1>3
<1>5. fold = F(fold)
  <2> HIDE DEF F
  <2> QED  BY <1>4
<1>6. Adds(fold, n, w)
  <2> HIDE DEF F, w, fold
  <2> QED  BY <1>2, <1>5
<1>7. fold[1..n] = u[n]
  <2> HIDE DEF F, fold
  <2> QED  BY <1>6, AddsSum
<1> QED  BY <1>1, <1>7

(* The bytes of a row, and the sum of them all.                            *)
RowBytes(i) == Size[KeyOf(rows[i])] + Size[ValueOf(rows[i])]

(* It is what stats adds up.                                               *)
LEMMA StatsAreSums ==
  ASSUME NEW n \in Nat, DOMAIN rows = 1..n, NEW u,
         Sums(u, n, [i \in 1..n |-> RowBytes(i)])
  PROVE  StatsBytes = u[n]
<1> DEFINE w == [i \in 1..n |-> RowBytes(i)]
           F(it) == [t \in SUBSET (1..n) |->
                       IF t = {} THEN 0 ELSE it[t \ {Max(t)}] + RowBytes(Max(t))]
           fold == CHOOSE it : it = F(it)
<1>1. StatsBytes = fold[1..n]
  BY DEF StatsBytes, RowBytes, FoldLeft, MapThenFoldSet
<1>2. ASSUME NEW it PROVE Adds(it, n, w) <=> it = F(it)
  <2>1. ASSUME NEW t \in SUBSET (1..n), t # {}
        PROVE  w[Max(t)] = RowBytes(Max(t))
    <3>1. Max(t) \in 1..n
      BY <2>1, MaxOf
    <3> QED  BY <3>1
  <2>2. ASSUME NEW t \in SUBSET (1..n)
        PROVE  (IF t = {} THEN 0 ELSE it[t \ {Max(t)}] + w[Max(t)])
                 = (IF t = {} THEN 0 ELSE it[t \ {Max(t)}] + RowBytes(Max(t)))
    <3> HIDE DEF w
    <3> QED  BY <2>1, <2>2
  <2> QED  BY <2>2 DEF Adds
<1>3. PICK it : Adds(it, n, w)
  BY AddsExist
<1>4. it = F(it)
  BY <1>2, <1>3
<1>5. fold = F(fold)
  <2> HIDE DEF F
  <2> QED  BY <1>4
<1>6. Adds(fold, n, w)
  <2> HIDE DEF F, w, fold
  <2> QED  BY <1>2, <1>5
<1>7. fold[1..n] = u[n]
  <2> HIDE DEF F, fold
  <2> QED  BY <1>6, AddsSum
<1> QED  BY <1>1, <1>7
-----------------------------------------------------------------------------
(* No key has two rows.                                                    *)
Distinct(r) == \A i, j \in DOMAIN r : KeyOf(r[i]) = KeyOf(r[j]) => i = j

(* That is what RowsOK says.                                               *)
LEMMA RowsDistinct ==
  ASSUME NEW r \in Seq(Key \X Value)
  PROVE  (\A k \in Key : Cardinality({i \in DOMAIN r : KeyOf(r[i]) = k}) <= 1) <=> Distinct(r)
<1> DEFINE n == Len(r)
           At(k) == {i \in DOMAIN r : KeyOf(r[i]) = k}
<1>1. n \in Nat /\ DOMAIN r = 1..n /\ r \in [1..n -> Key \X Value]
  BY LenProperties
<1>2. \A i \in 1..n : KeyOf(r[i]) \in Key
  BY <1>1 DEF KeyOf
<1>3. ASSUME NEW k PROVE At(k) \in SUBSET (1..n) /\ IsFiniteSet(At(k)) /\ Cardinality(At(k)) \in Nat
  <2>1. At(k) \in SUBSET (1..n)
    BY <1>1
  <2>2. IsFiniteSet(1..n)
    BY <1>1, FS_Interval
  <2>3. IsFiniteSet(At(k))
    BY <2>1, <2>2, FS_Subset
  <2> QED  BY <2>1, <2>3, FS_CardinalityType
<1>4. ASSUME \A k \in Key : Cardinality(At(k)) <= 1
      PROVE  Distinct(r)
  <2>1. SUFFICES ASSUME NEW i \in 1..n, NEW j \in 1..n, KeyOf(r[i]) = KeyOf(r[j])
                 PROVE  i = j
    BY <1>1 DEF Distinct
  <2> DEFINE R == At(KeyOf(r[i]))
  <2>2. i \in R /\ j \in R
    BY <1>1, <2>1
  <2>3. IsFiniteSet(R) /\ Cardinality(R) \in Nat
    BY <1>3
  <2>4. Cardinality(R) <= 1
    BY <1>2, <1>4
  <2>5. Cardinality(R) # 0
    BY <2>2, <2>3, FS_EmptySet
  <2>6. Cardinality(R) = 1
    BY <2>3, <2>4, <2>5
  <2>7. \E x : R = {x}
    BY <2>3, <2>6, FS_Singleton
  <2> QED  BY <2>2, <2>7
<1>5. ASSUME Distinct(r), NEW k \in Key
      PROVE  Cardinality(At(k)) <= 1
  <2>1. CASE At(k) = {}
    <3> HIDE DEF At
    <3> QED  BY <2>1, FS_EmptySet
  <2>2. ASSUME NEW i \in At(k) PROVE Cardinality(At(k)) <= 1
    <3>1. At(k) = {i}
      BY <1>5, <2>2 DEF Distinct
    <3>2. Cardinality({i}) = 1
      BY FS_Singleton
    <3> HIDE DEF At
    <3> QED  BY <3>1, <3>2
  <2> HIDE DEF At
  <2> QED  BY <2>1, <2>2
<1> QED  BY <1>4, <1>5

(* Nobody finds a key twice that put has entered or del has left.          *)
LEMMA ChangeKeeps ==
  ASSUME RowsOK, NEW k \in Key,
         (\E v \in Value : Put(k, v)) \/ Del(k)
  PROVE  RowsOK'
<1> DEFINE n == Len(rows)
<1>1. rows \in Seq(Key \X Value) /\ Distinct(rows)
  BY RowsDistinct DEF RowsOK, RowOf
<1>2. n \in Nat /\ DOMAIN rows = 1..n /\ rows \in [1..n -> Key \X Value]
  BY <1>1, LenProperties
<1>3. SUFFICES rows' \in Seq(Key \X Value) /\ Distinct(rows')
  BY RowsDistinct DEF RowsOK, RowOf
<1>4. ASSUME NEW v \in Value, Put(k, v), RowOf(k) = {}
      PROVE  rows' \in Seq(Key \X Value) /\ Distinct(rows')
  <2> DEFINE S == Range(rows) \cup {<<k, v>>}
             m == Cardinality(S)
  <2>1. IsFiniteSet(S) /\ m \in Nat
    <3>1. rows \in Surjection(1..n, Range(rows))
      BY <1>2 DEF Surjection, Range
    <3>2. IsFiniteSet(1..n)
      BY <1>2, FS_Interval
    <3>3. IsFiniteSet(Range(rows))
      BY <3>1, <3>2, FS_Surjection
    <3>4. IsFiniteSet(S)
      BY <3>3, FS_AddElement
    <3> QED  BY <3>4, FS_CardinalityType
  <2>2. S \subseteq Key \X Value
    BY <1>2 DEF Range
  <2>3. rows' \in [1..m -> S] /\ \A i, j \in 1..m : i # j => rows'[i] # rows'[j]
    BY <1>4 DEF Put, SetToSeqs
  <2>4. rows' \in Seq(Key \X Value)
    <3> HIDE DEF S, m
    <3> QED  BY <2>1, <2>2, <2>3
  <2>5. ASSUME NEW a \in S, NEW b \in S, KeyOf(a) = KeyOf(b) PROVE a = b
    <3>1. ASSUME NEW c \in Range(rows) PROVE KeyOf(c) # k
      BY <1>2, <1>4 DEF RowOf, Range
    <3>2. KeyOf(<<k, v>>) = k
      BY DEF KeyOf
    <3>3. CASE a \in Range(rows) /\ b \in Range(rows)
      BY <1>1, <2>5, <3>3 DEF Distinct, Range
    <3> QED  BY <2>5, <3>1, <3>2, <3>3
  <2>6. Distinct(rows')
    <3> HIDE DEF S, m
    <3>1. DOMAIN rows' = 1..m
      BY <2>3
    <3>2. ASSUME NEW i \in 1..m, NEW j \in 1..m, KeyOf(rows'[i]) = KeyOf(rows'[j])
          PROVE  i = j
      <4>1. rows'[i] \in S /\ rows'[j] \in S
        BY <2>3
      <4>2. rows'[i] = rows'[j]
        BY <2>5, <3>2, <4>1
      <4> QED  BY <2>3, <4>2
    <3> QED  BY <3>1, <3>2 DEF Distinct
  <2> QED  BY <2>4, <2>6
<1>5. ASSUME NEW v \in Value, Put(k, v), RowOf(k) # {}
      PROVE  rows' \in Seq(Key \X Value) /\ Distinct(rows')
  <2>1. rows' = [i \in 1..n |-> IF i \in RowOf(k) THEN <<k, v>> ELSE rows[i]]
    BY <1>2, <1>5 DEF Put
  <2>2. rows' \in [1..n -> Key \X Value]
    BY <1>2, <2>1
  <2>3. \A i \in 1..n : KeyOf(rows'[i]) = KeyOf(rows[i])
    BY <1>2, <2>1 DEF RowOf, KeyOf
  <2>4. rows' \in Seq(Key \X Value)
    BY <1>2, <2>2
  <2> QED  BY <1>1, <1>2, <2>2, <2>3, <2>4 DEF Distinct
<1>6. ASSUME Del(k)
      PROVE  rows' \in Seq(Key \X Value) /\ Distinct(rows')
  <2>1. PICK i \in RowOf(k) : rows' = SubSeq(rows, 1, i - 1) \o SubSeq(rows, i + 1, n)
    BY <1>6 DEF Del, RemoveAt
  <2>2. i \in 1..n
    BY <1>2 DEF RowOf
  <2> DEFINE a == SubSeq(rows, 1, i - 1)
             b == SubSeq(rows, i + 1, n)
             From(j) == IF j <= i - 1 THEN j ELSE j + 1
  <2>3. a \in Seq(Key \X Value) /\ Len(a) = i - 1 /\ \A j \in 1..(i - 1) : a[j] = rows[j]
    <3>1. \A j \in 1..(i - 1) : rows[j] \in Key \X Value
      BY <1>2, <2>2
    <3> QED  BY <2>2, <3>1, SubSeqProperties
  <2>4. b \in Seq(Key \X Value) /\ Len(b) = n - i /\ \A j \in 1..(n - i) : b[j] = rows[i + j]
    <3>1. \A j \in (i + 1)..n : rows[j] \in Key \X Value
      BY <1>2, <2>2
    <3>2. i + 1 \in Int /\ n \in Int /\ (IF i + 1 <= n THEN n - (i + 1) + 1 ELSE 0) = n - i
      <4> HIDE DEF n, a, b, From
      <4>1. i \in Int /\ n \in Int /\ i <= n
        BY <1>2, <2>2
      <4>2. CASE i + 1 <= n
        BY <4>1, <4>2
      <4>3. CASE i = n
        BY <4>1, <4>3
      <4> QED  BY <4>1, <4>2, <4>3
    <3>3. /\ b \in Seq(Key \X Value)
          /\ Len(b) = IF i + 1 <= n THEN n - (i + 1) + 1 ELSE 0
          /\ \A j \in 1..(n - (i + 1) + 1) : b[j] = rows[i + 1 + j - 1]
      BY <3>1, <3>2, SubSeqProperties
    <3>4. n - (i + 1) + 1 = n - i /\ \A j \in 1..(n - i) : i + 1 + j - 1 = i + j
      BY <1>2, <2>2
    <3> HIDE DEF b
    <3> QED  BY <3>2, <3>3, <3>4
  <2>5. /\ rows' \in Seq(Key \X Value)
        /\ Len(rows') = n - 1
        /\ \A j \in 1..(n - 1) : rows'[j] = IF j <= i - 1 THEN a[j] ELSE b[j - (i - 1)]
    <3> HIDE DEF a, b
    <3>1. rows' = a \o b
      BY <2>1 DEF a, b
    <3>2. Len(a) + Len(b) = n - 1
      BY <1>2, <2>2, <2>3, <2>4
    <3> QED  BY <2>3, <2>4, <3>1, <3>2, ConcatProperties
  <2>6. DOMAIN rows' = 1..(n - 1)
    BY <2>5, LenProperties
  <2>7. ASSUME NEW j \in 1..(n - 1) PROVE rows'[j] = rows[From(j)] /\ From(j) \in 1..n
    <3> HIDE DEF a, b
    <3>1. CASE j <= i - 1
      BY <1>2, <2>2, <2>3, <2>5, <3>1
    <3>2. CASE ~(j <= i - 1)
      <4>1. j - (i - 1) \in 1..(n - i) /\ i + (j - (i - 1)) = j + 1
        BY <1>2, <2>2, <3>2
      <4> QED  BY <1>2, <2>2, <2>4, <2>5, <3>2, <4>1
    <3> QED  BY <3>1, <3>2
  <2>8. ASSUME NEW j \in 1..(n - 1), NEW h \in 1..(n - 1), KeyOf(rows'[j]) = KeyOf(rows'[h])
        PROVE  j = h
    <3>1. From(j) = From(h)
      <4> HIDE DEF From
      <4> QED  BY <1>1, <1>2, <2>7, <2>8 DEF Distinct
    <3> QED  BY <2>2, <3>1
  <2> QED  BY <2>5, <2>6, <2>8 DEF Distinct
<1> QED  BY <1>4, <1>5, <1>6
-----------------------------------------------------------------------------
(* n sequences of four, joined: the h-th of the i-th is at 4 (i - 1) + h.  *)
LEMMA FoursJoined ==
  ASSUME NEW n \in Nat, NEW S, NEW ss \in [1..n -> Seq(S)],
         \A i \in 1..n : Len(ss[i]) = 4
  PROVE  /\ FlattenSeq(ss) \in Seq(S)
         /\ Len(FlattenSeq(ss)) = 4 * n
         /\ \A i \in 1..n : \A h \in 1..4 : FlattenSeq(ss)[4 * (i - 1) + h] = ss[i][h]
<1> DEFINE F(m, f) == [i \in 1..m |-> IF i = 1 THEN ss[i] ELSE f[i - 1] \o ss[i]]
           Exists(m) == \E f : f = F(m, f)
           flat == CHOOSE f : f = F(n, f)
           Good(i) == /\ flat[i] \in Seq(S)
                      /\ Len(flat[i]) = 4 * i
                      /\ \A j \in 1..i : \A h \in 1..4 : flat[i][4 * (j - 1) + h] = ss[j][h]
<1>1. Len(ss) = n /\ ss \in Seq(Seq(S))
  OBVIOUS
<1>2. CASE n = 0
  <2>1. FlattenSeq(ss) = ss
    BY <1>1, <1>2 DEF FlattenSeq
  <2>2. ss = <<>>
    BY <1>1, <1>2
  <2> QED  BY <1>2, <2>1, <2>2
<1>3. CASE n # 0
  <2>1. FlattenSeq(ss) = flat[n]
    BY <1>1, <1>3 DEF FlattenSeq
  <2>2. Exists(n)
    <3> DEFINE T == {m \in 0..n : ~Exists(m)}
    <3>1. SUFFICES ASSUME T # {} PROVE FALSE
      <4>1. n \in 0..n
        OBVIOUS
      <4> HIDE DEF Exists
      <4> QED  BY <3>1, <4>1
    <3>2. T \in SUBSET Nat
      <4> HIDE DEF Exists
      <4> QED  OBVIOUS
    <3>3. PICK m \in T : \A j \in T : m <= j
      <4> HIDE DEF T
      <4> QED  BY <3>1, <3>2, SmallestOf
    <3>4. m # 0
      <4>1. <<>> = F(0, <<>>)
        OBVIOUS
      <4>2. Exists(0)
        BY <4>1
      <4> HIDE DEF Exists
      <4> QED  BY <4>2
    <3>5. m \in 1..n /\ m - 1 \in 0..n /\ ~(m <= m - 1)
      BY <3>4
    <3>6. Exists(m - 1)
      <4> HIDE DEF Exists
      <4> QED  BY <3>3, <3>5
    <3>7. PICK f : f = F(m - 1, f)
      BY <3>6
    <3> DEFINE g == [i \in 1..m |-> IF i = m THEN IF m = 1 THEN ss[m] ELSE f[m - 1] \o ss[m] ELSE f[i]]
    <3>8. ASSUME NEW i \in 1..m
          PROVE  g[i] = IF i = 1 THEN ss[i] ELSE g[i - 1] \o ss[i]
      <4>1. CASE i = m
        <5>1. m # 1 => m - 1 \in 1..m /\ m - 1 # m
          BY <3>5
        <5>2. m # 1 => g[m - 1] = f[m - 1]
          BY <5>1
        <5> QED  BY <4>1, <5>2
      <4>2. CASE i # m
        <5>1. i \in 1..(m - 1) /\ (i # 1 => i - 1 \in 1..m /\ i - 1 # m)
          BY <3>5, <4>2
        <5>2. g[i] = f[i] /\ (i # 1 => g[i - 1] = f[i - 1])
          BY <4>2, <5>1
        <5>3. f[i] = IF i = 1 THEN ss[i] ELSE f[i - 1] \o ss[i]
          BY <3>7, <5>1
        <5> HIDE DEF g
        <5> QED  BY <5>2, <5>3
      <4> QED  BY <4>1, <4>2
    <3>9. g = F(m, g)
      BY <3>8
    <3>10. Exists(m)
      BY <3>9
    <3> QED  BY <3>3, <3>10
  <2>3. flat = F(n, flat)
    <3> HIDE DEF F
    <3> QED  BY <2>2
  <2>4. \A i \in 1..n : flat[i] = IF i = 1 THEN ss[i] ELSE flat[i - 1] \o ss[i]
    <3> HIDE DEF flat
    <3> QED  BY <2>3
  <2>5. Good(n)
    <3> DEFINE T == {i \in 1..n : ~Good(i)}
    <3> HIDE DEF flat
    <3>1. SUFFICES ASSUME T # {} PROVE FALSE
      <4>1. n \in 1..n
        BY <1>3
      <4> HIDE DEF Good
      <4> QED  BY <3>1, <4>1
    <3>2. T \in SUBSET Nat
      OBVIOUS
    <3>3. PICK i \in T : \A j \in T : i <= j
      <4> HIDE DEF T
      <4> QED  BY <3>1, <3>2, SmallestOf
    <3>4. i \in 1..n /\ ss[i] \in Seq(S) /\ Len(ss[i]) = 4
      OBVIOUS
    <3>5. CASE i = 1
      <4>1. flat[1] = ss[1]
        BY <2>4, <3>4, <3>5
      <4>2. \A j \in 1..1 : j = 1
        OBVIOUS
      <4>3. Good(1)
        BY <3>4, <3>5, <4>1, <4>2
      <4> HIDE DEF Good
      <4> QED  BY <3>5, <4>3
    <3>6. CASE i # 1
      <4>1. i - 1 \in 1..n /\ ~(i <= i - 1)
        BY <3>4, <3>6
      <4>2. Good(i - 1)
        <5> HIDE DEF Good
        <5> QED  BY <3>3, <4>1
      <4>3. flat[i] = flat[i - 1] \o ss[i]
        BY <2>4, <3>4, <3>6
      <4> DEFINE a == flat[i - 1]
      <4>4. a \in Seq(S) /\ Len(a) = 4 * (i - 1)
        BY <4>2
      <4>5. /\ flat[i] \in Seq(S)
            /\ Len(flat[i]) = 4 * (i - 1) + 4
            /\ \A j \in 1..(4 * (i - 1) + 4) :
                 flat[i][j] = IF j <= 4 * (i - 1) THEN a[j] ELSE ss[i][j - 4 * (i - 1)]
        <5> HIDE DEF a
        <5> DEFINE b == ss[i]
        <5>1. flat[i] = a \o b
          BY <4>3 DEF a
        <5>2. b \in Seq(S) /\ Len(b) = 4
          BY <3>4
        <5> HIDE DEF b
        <5>3. /\ a \o b \in Seq(S)
              /\ Len(a \o b) = Len(a) + Len(b)
              /\ \A j \in 1..(Len(a) + Len(b)) :
                   (a \o b)[j] = IF j <= Len(a) THEN a[j] ELSE b[j - Len(a)]
          BY <4>4, <5>2, ConcatProperties
        <5> QED  BY <4>4, <5>1, <5>2, <5>3 DEF b
      <4>6. ASSUME NEW j \in 1..i, NEW h \in 1..4
            PROVE  flat[i][4 * (j - 1) + h] = ss[j][h]
        <5> HIDE DEF a
        <5>1. 4 * (j - 1) + h \in 1..(4 * (i - 1) + 4)
          <6>1. i \in Nat /\ j \in Nat /\ 1 <= j /\ j <= i /\ h \in Nat /\ 1 <= h /\ h <= 4
            BY <3>4
          <6> QED  BY <6>1
        <5>2. CASE j = i
          <6>1. ~(4 * (j - 1) + h <= 4 * (i - 1)) /\ 4 * (j - 1) + h - 4 * (i - 1) = h
            BY <3>4, <5>2
          <6>2. flat[i][4 * (j - 1) + h] = ss[i][h]
            BY <4>5, <5>1, <6>1
          <6> QED  BY <5>2, <6>2
        <5>3. CASE j # i
          <6>1. j \in 1..(i - 1) /\ 4 * (j - 1) + h <= 4 * (i - 1)
            BY <3>4, <5>3
          <6>2. a[4 * (j - 1) + h] = ss[j][h]
            BY <4>2, <6>1 DEF a
          <6> QED  BY <4>5, <5>1, <6>1, <6>2
        <5> QED  BY <5>2, <5>3
      <4>7. 4 * (i - 1) + 4 = 4 * i
        BY <3>4
      <4>8. Good(i)
        <5> HIDE DEF a
        <5> QED  BY <4>5, <4>6, <4>7
      <4> HIDE DEF Good
      <4> QED  BY <4>8
    <3> QED  BY <3>5, <3>6
  <2> QED
    <3> HIDE DEF flat
    <3> QED  BY <1>3, <2>1, <2>5
<1> QED  BY <1>2, <1>3
-----------------------------------------------------------------------------
(* What the stream consists of.                                            *)
Field == {Magic} \cup {Sized(n) : n \in Nat} \cup {Data(x) : x \in Key \cup Value}

(* Its parts have a width.                                                 *)
LEMMA FieldWidths == \A f \in Field : Width(f) \in Nat
<1>1. \A n : Width(Sized(n)) = SizeWidth
  BY DEF Width, Sized
<1>2. \A x : Width(Data(x)) = Size[x]
  BY DEF Width, Data
<1>3. Width(Magic) = 3
  BY DEF Width, Magic
<1>4. SizeWidth \in Nat /\ \A x \in Key \cup Value : Size[x] \in Nat
  BY QueryAssumption, SizeAssumption
<1> QED  BY <1>1, <1>2, <1>3, <1>4 DEF Field

(* Behind the number of rows come, for each, two sizes and two strings.    *)
LEMMA Layout ==
  ASSUME RowsOK
  PROVE  /\ Len(rows) \in Nat
         /\ Serialized \in Seq(Field)
         /\ Len(Serialized) = 2 + 4 * Len(rows)
         /\ Serialized[1] = Magic
         /\ Serialized[2] = Sized(Len(rows))
         /\ \A i \in 1..Len(rows) :
              /\ Serialized[4 * i - 1] = Sized(Size[KeyOf(rows[i])])
              /\ Serialized[4 * i]     = Data(KeyOf(rows[i]))
              /\ Serialized[4 * i + 1] = Sized(Size[ValueOf(rows[i])])
              /\ Serialized[4 * i + 2] = Data(ValueOf(rows[i]))
<1> DEFINE n == Len(rows)
           Four(i) == LET k == KeyOf(rows[i])
                          v == ValueOf(rows[i])
                      IN <<Sized(Size[k]), Data(k), Sized(Size[v]), Data(v)>>
           ss == [i \in DOMAIN rows |-> Four(i)]
           hd == <<Magic, Sized(n)>>
           flat == FlattenSeq(ss)
<1>1. n \in Nat /\ DOMAIN rows = 1..n /\ rows \in [1..n -> Key \X Value]
  BY LenProperties DEF RowsOK
<1>2. Serialized = hd \o flat
  BY DEF Serialized
<1>3. ASSUME NEW i \in 1..n PROVE Four(i) \in Seq(Field) /\ Len(Four(i)) = 4
  <2>1. KeyOf(rows[i]) \in Key /\ ValueOf(rows[i]) \in Value
    BY <1>1 DEF KeyOf, ValueOf
  <2>2. Size[KeyOf(rows[i])] \in Nat /\ Size[ValueOf(rows[i])] \in Nat
    BY <2>1, QueryAssumption
  <2>3. /\ Sized(Size[KeyOf(rows[i])]) \in Field /\ Data(KeyOf(rows[i])) \in Field
        /\ Sized(Size[ValueOf(rows[i])]) \in Field /\ Data(ValueOf(rows[i])) \in Field
    BY <2>1, <2>2 DEF Field
  <2> QED  BY <2>3
<1>4. ss \in [1..n -> Seq(Field)] /\ \A i \in 1..n : Len(ss[i]) = 4
  <2> HIDE DEF Four
  <2> QED  BY <1>1, <1>3
<1>5. /\ flat \in Seq(Field)
      /\ Len(flat) = 4 * n
      /\ \A i \in 1..n : \A h \in 1..4 : flat[4 * (i - 1) + h] = ss[i][h]
  <2> HIDE DEF ss, n
  <2> QED  BY <1>1, <1>4, FoursJoined
<1>6. hd \in Seq(Field) /\ Len(hd) = 2
  BY <1>1 DEF Field
<1>7. /\ Serialized \in Seq(Field)
      /\ Len(Serialized) = 2 + 4 * n
      /\ \A j \in 1..(2 + 4 * n) : Serialized[j] = IF j <= 2 THEN hd[j] ELSE flat[j - 2]
  <2> HIDE DEF flat, hd, n
  <2>1. /\ hd \o flat \in Seq(Field)
        /\ Len(hd \o flat) = Len(hd) + Len(flat)
        /\ \A j \in 1..(Len(hd) + Len(flat)) :
             (hd \o flat)[j] = IF j <= Len(hd) THEN hd[j] ELSE flat[j - Len(hd)]
    BY <1>5, <1>6, ConcatProperties
  <2> QED  BY <1>2, <1>5, <1>6, <2>1
<1>8. Serialized[1] = Magic /\ Serialized[2] = Sized(n)
  <2>1. 1 \in 1..(2 + 4 * n) /\ 2 \in 1..(2 + 4 * n)
    BY <1>1
  <2>2. Serialized[1] = hd[1] /\ Serialized[2] = hd[2]
    <3> HIDE DEF hd, n, flat
    <3> QED  BY <1>7, <2>1
  <2> QED  BY <2>2
<1>9. ASSUME NEW i \in 1..n, NEW h \in 1..4
      PROVE  Serialized[4 * (i - 1) + h + 2] = Four(i)[h]
  <2>1. n \in Nat /\ i \in Nat /\ 1 <= i /\ i <= n /\ h \in Nat /\ 1 <= h /\ h <= 4
    BY <1>1
  <2> DEFINE j == 4 * (i - 1) + h + 2
  <2>2. j \in 1..(2 + 4 * n) /\ ~(j <= 2) /\ j - 2 = 4 * (i - 1) + h
    <3> HIDE DEF n
    <3> QED  BY <2>1
  <2>3. Serialized[j] = flat[4 * (i - 1) + h]
    <3> HIDE DEF j, flat, hd, n
    <3> QED  BY <1>7, <2>2
  <2>4. flat[4 * (i - 1) + h] = ss[i][h]
    <3> HIDE DEF flat, ss, n
    <3> QED  BY <1>5
  <2>5. ss[i] = Four(i)
    <3> HIDE DEF Four
    <3> QED  BY <1>1
  <2> HIDE DEF j, flat, ss, Four
  <2> QED  BY <2>3, <2>4, <2>5 DEF j
<1>10. ASSUME NEW i \in 1..n
       PROVE  /\ Serialized[4 * i - 1] = Four(i)[1]
              /\ Serialized[4 * i]     = Four(i)[2]
              /\ Serialized[4 * i + 1] = Four(i)[3]
              /\ Serialized[4 * i + 2] = Four(i)[4]
  <2>1. /\ 4 * (i - 1) + 1 + 2 = 4 * i - 1
        /\ 4 * (i - 1) + 2 + 2 = 4 * i
        /\ 4 * (i - 1) + 3 + 2 = 4 * i + 1
        /\ 4 * (i - 1) + 4 + 2 = 4 * i + 2
    BY <1>1
  <2>2. 1 \in 1..4 /\ 2 \in 1..4 /\ 3 \in 1..4 /\ 4 \in 1..4
    OBVIOUS
  <2> HIDE DEF Four, n
  <2> QED  BY <1>9, <2>1, <2>2
<1>11. ASSUME NEW i \in 1..n
       PROVE  /\ Serialized[4 * i - 1] = Sized(Size[KeyOf(rows[i])])
              /\ Serialized[4 * i]     = Data(KeyOf(rows[i]))
              /\ Serialized[4 * i + 1] = Sized(Size[ValueOf(rows[i])])
              /\ Serialized[4 * i + 2] = Data(ValueOf(rows[i]))
  <2>1. /\ Four(i)[1] = Sized(Size[KeyOf(rows[i])])
        /\ Four(i)[2] = Data(KeyOf(rows[i]))
        /\ Four(i)[3] = Sized(Size[ValueOf(rows[i])])
        /\ Four(i)[4] = Data(ValueOf(rows[i]))
    OBVIOUS
  <2> HIDE DEF Four
  <2> QED  BY <1>10, <2>1
<1> QED
  <2> HIDE DEF hd, flat
  <2> QED  BY <1>1, <1>7, <1>8, <1>11

(* The bytes of some fields are a number.                                  *)
LEMMA BytesAreMany ==
  ASSUME NEW s \in Seq(Field)
  PROVE  /\ Bytes(s) \in Nat
         /\ Bytes(<<Flag(0)>> \o s) = 1 + Bytes(s)
<1> DEFINE n == Len(s)
           w == [i \in 1..n |-> Width(s[i])]
           t == <<Flag(0)>> \o s
<1>1. n \in Nat /\ DOMAIN s = 1..n /\ s \in [1..n -> Field]
  BY LenProperties
<1>2. w \in [1..n -> Nat]
  BY <1>1, FieldWidths
<1>3. PICK u : Sums(u, n, w)
  <2> HIDE DEF w, n
  <2> QED  BY <1>1, <1>2, SumsExist
<1>4. Bytes(s) = u[n]
  <2> HIDE DEF n
  <2> QED  BY <1>1, <1>3, BytesAreSums
<1>5. u \in [0..n -> Nat] /\ u[0] = 0 /\ \A i \in 1..n : u[i] = u[i - 1] + Width(s[i])
  BY <1>3 DEF Sums
<1> DEFINE v == [i \in 0..(n + 1) |-> IF i = 0 THEN 0 ELSE 1 + u[i - 1]]
<1>6. Len(t) = n + 1 /\ DOMAIN t = 1..(n + 1) /\ t[1] = Flag(0)
  BY <1>1
<1>7. \A i \in 2..(n + 1) : t[i] = s[i - 1]
  BY <1>1
<1>8. Width(t[1]) = 1
  BY <1>6 DEF Width, Flag
<1> HIDE DEF t, n
<1>9. v \in [0..(n + 1) -> Nat] /\ v[0] = 0
  BY <1>1, <1>5
<1>10. ASSUME NEW i \in 1..(n + 1) PROVE v[i] = v[i - 1] + Width(t[i])
  <2>1. i \in 0..(n + 1) /\ i - 1 \in 0..(n + 1) /\ i - 1 \in 0..n
    BY <1>1
  <2>2. CASE i = 1
    BY <1>1, <1>5, <1>8, <2>1, <2>2
  <2>3. CASE i # 1
    <3>1. i \in 2..(n + 1) /\ i - 1 \in 1..n /\ i - 1 # 0 /\ i - 1 - 1 \in 0..n
      BY <1>1, <2>3
    <3>2. v[i] = 1 + u[i - 1] /\ v[i - 1] = 1 + u[i - 1 - 1]
      BY <2>1, <3>1
    <3>3. t[i] = s[i - 1] /\ Width(s[i - 1]) \in Nat
      BY <1>1, <1>7, <3>1, FieldWidths
    <3>4. u[i - 1] = u[i - 1 - 1] + Width(s[i - 1])
      BY <1>5, <3>1
    <3>5. u[i - 1] \in Nat /\ u[i - 1 - 1] \in Nat
      BY <1>5, <2>1, <3>1
    <3> HIDE DEF v
    <3> QED  BY <3>2, <3>3, <3>4, <3>5
  <2> QED  BY <2>2, <2>3
<1>11. Sums(v, n + 1, [i \in 1..(n + 1) |-> Width(t[i])])
  <2> HIDE DEF v
  <2> QED  BY <1>9, <1>10 DEF Sums
<1>12. Bytes(t) = v[n + 1]
  <2>1. n + 1 \in Nat
    BY <1>1
  <2> HIDE DEF v
  <2> QED  BY <1>6, <1>11, <2>1, BytesAreSums
<1>13. v[n + 1] = 1 + u[n] /\ u[n] \in Nat
  BY <1>1, <1>5
<1> QED  BY <1>4, <1>12, <1>13 DEF t

(* A field of a byte, a size and a field of c bytes.                       *)
LEMMA BytesOfThree ==
  ASSUME NEW b \in Nat, NEW s, NEW m, NEW c \in Nat
  PROVE  Bytes(<<Flag(1), Sized(b), Packed(s, m, c)>>) = 1 + SizeWidth + c
<1> DEFINE t == <<Flag(1), Sized(b), Packed(s, m, c)>>
           v == [i \in 0..3 |-> IF i = 3 THEN 1 + SizeWidth + c
                                ELSE IF i = 2 THEN 1 + SizeWidth ELSE i]
<1>1. DOMAIN t = 1..3 /\ t[1] = Flag(1) /\ t[2] = Sized(b) /\ t[3] = Packed(s, m, c)
  OBVIOUS
<1>2. Width(Flag(1)) = 1
  BY DEF Width, Flag
<1>3. Width(Sized(b)) = SizeWidth /\ SizeWidth \in Nat
  BY SizeAssumption DEF Width, Sized
<1>4. Width(Packed(s, m, c)) = c
  BY DEF Width, Packed
<1> HIDE DEF t
<1>5. v \in [0..3 -> Nat] /\ v[0] = 0
  BY <1>3
<1>6. ASSUME NEW i \in 1..3 PROVE v[i] = v[i - 1] + Width(t[i])
  <2>1. i = 1 \/ i = 2 \/ i = 3
    OBVIOUS
  <2> QED  BY <1>1, <1>2, <1>3, <1>4, <2>1
<1>7. Sums(v, 3, [i \in 1..3 |-> Width(t[i])])
  <2> HIDE DEF v
  <2> QED  BY <1>5, <1>6 DEF Sums
<1>8. Bytes(t) = v[3]
  <2> HIDE DEF v
  <2> QED  BY <1>1, <1>7, BytesAreSums
<1> QED  BY <1>8 DEF t
-----------------------------------------------------------------------------
(* The i-th entry of the stream is the i-th row.                           *)
LEMMA EntryIsRow ==
  ASSUME RowsOK, NEW i \in 1..Len(rows)
  PROVE  /\ IsEntry(Entry(Serialized, i))
         /\ <<Entry(Serialized, i)[2].of, Entry(Serialized, i)[4].of>> = rows[i]
<1> DEFINE e == Entry(Serialized, i)
           k == KeyOf(rows[i])
           v == ValueOf(rows[i])
<1>1. i \in Nat /\ 1 <= i /\ i <= Len(rows)
  BY Layout
<1>2. e[1] = Sized(Size[k]) /\ e[2] = Data(k) /\ e[3] = Sized(Size[v]) /\ e[4] = Data(v)
  <2>1. /\ 4 * i - 1 \in Int /\ 4 * i + 2 \in Int
        /\ \A j \in (4 * i - 1)..(4 * i + 2) : j \in 1..(2 + 4 * Len(rows))
    BY <1>1, Layout
  <2>2. \A j \in (4 * i - 1)..(4 * i + 2) : Serialized[j] \in Field
    BY <2>1, Layout, ElementOfSeq
  <2>3. \A h \in 1..(4 * i + 2 - (4 * i - 1) + 1) : e[h] = Serialized[4 * i - 1 + h - 1]
    BY <2>1, <2>2, SubSeqProperties DEF Entry
  <2>4. 4 * i + 2 - (4 * i - 1) + 1 = 4
    BY <1>1
  <2>5. 1 \in 1..4 /\ 2 \in 1..4 /\ 3 \in 1..4 /\ 4 \in 1..4
    OBVIOUS
  <2>6. /\ 4 * i - 1 + 1 - 1 = 4 * i - 1
        /\ 4 * i - 1 + 2 - 1 = 4 * i
        /\ 4 * i - 1 + 3 - 1 = 4 * i + 1
        /\ 4 * i - 1 + 4 - 1 = 4 * i + 2
    BY <1>1
  <2> HIDE DEF e
  <2>7. /\ e[1] = Serialized[4 * i - 1] /\ e[2] = Serialized[4 * i]
        /\ e[3] = Serialized[4 * i + 1] /\ e[4] = Serialized[4 * i + 2]
    BY <2>3, <2>4, <2>5, <2>6
  <2> QED  BY <2>7, Layout
<1> HIDE DEF e, k, v
<1>3. e[1].is = "size" /\ e[2].is = "data" /\ e[3].is = "size" /\ e[4].is = "data"
  BY <1>2 DEF Sized, Data
<1>4. e[1].of = Size[k] /\ e[2].of = k /\ e[3].of = Size[v] /\ e[4].of = v
  BY <1>2 DEF Sized, Data
<1>5. Width(e[2]) = Size[k] /\ Width(e[4]) = Size[v]
  BY <1>3, <1>4 DEF Width
<1>6. IsEntry(e)
  BY <1>3, <1>4, <1>5 DEF IsEntry
<1>7. rows[i] = <<k, v>>
  <2>1. rows[i] \in Key \X Value
    BY ElementOfSeq DEF RowsOK
  <2> QED  BY <2>1 DEF k, v, KeyOf, ValueOf
<1> QED  BY <1>4, <1>6, <1>7 DEF e

(* The stream reads back as the table.                                     *)
LEMMA StreamReadsBack ==
  ASSUME RowsOK
  PROVE  Parse(Serialized) = Pairs
<1> DEFINE s == Serialized
           n == Len(rows)
           E(i) == <<Entry(s, i)[2].of, Entry(s, i)[4].of>>
<1>1. s[1].is = "magic" /\ s[2].is = "size" /\ s[2].of = n
  BY Layout DEF Magic, Sized
<1>2. n \in Nat /\ Len(s) = 2 + 4 * n
  BY Layout
<1>3. \A i \in 1..n : IsEntry(Entry(s, i)) /\ E(i) = rows[i]
  BY EntryIsRow
<1>4. Parse(s) = {E(i) : i \in 1..n}
  <2> HIDE DEF n, s
  <2>1. Len(s) >= 2
    BY <1>2
  <2> QED  BY <1>1, <1>2, <1>3, <2>1 DEF Parse
<1>5. {E(i) : i \in 1..n} = {rows[i] : i \in 1..n}
  <2> HIDE DEF E
  <2> QED  BY <1>3
<1>6. DOMAIN rows = 1..n
  BY LenProperties DEF RowsOK
<1> QED  BY <1>4, <1>5, <1>6 DEF Pairs, Range

(* A part of it does not.                                                  *)
LEMMA PartIsUnreadable ==
  ASSUME RowsOK, NEW m \in Nat, m < Len(Serialized),
         NEW t, Len(t) = m, \A i \in 1..m : t[i] = Serialized[i]
  PROVE  Parse(t) = Unreadable
<1>1. CASE m < 2
  <2>1. ~(Len(t) >= 2)
    BY <1>1
  <2> QED  BY <2>1 DEF Parse
<1>2. CASE m >= 2
  <2>1. t[2] = Sized(Len(rows))
    BY <1>2, Layout
  <2>2. t[2].of = Len(rows)
    BY <2>1 DEF Sized
  <2>3. Len(t) # 2 + 4 * t[2].of
    BY <2>2, Layout
  <2> QED  BY <2>3 DEF Parse
<1> QED  BY <1>1, <1>2
-----------------------------------------------------------------------------
(* What a file consists of.                                                *)
Part ==
  Field \cup {Flag(0), Flag(1)}
    \cup {Packed(s, n, c) : s \in Seq(Field), n \in Int, c \in Nat}

(* What a shutdown may have written when it is done.                       *)
Whole ==
  IF Bytes(stream) <= Threshold THEN {stream}
  ELSE {Packing(c) : c \in CompressedSizes(Bytes(stream))}

(* Its parts have a width.                                                 *)
LEMMA PartWidths == \A f \in Part : Width(f) \in Nat
<1>1. Width(Flag(0)) = 1 /\ Width(Flag(1)) = 1
  BY DEF Width, Flag
<1>2. \A s, n : \A c \in Nat : Width(Packed(s, n, c)) = c
  BY DEF Width, Packed
<1> QED  BY <1>1, <1>2, FieldWidths DEF Part

(* A length that compress does not refuse and that has not wrapped is      *)
(* what it was.                                                            *)
LEMMA IntsAreExact ==
  ASSUME NEW n \in Nat, n < Wrap, CompressedSizes(n) # {}
  PROVE  ToInt(n) = n
<1> DEFINE h == Wrap \div 2
<1>1. Wrap \in Nat /\ MaxInput \in Nat /\ 0 < Wrap
  BY SizeAssumption
<1>2. h \in Nat /\ 2 * h <= Wrap /\ Wrap <= 2 * h + 1
  BY <1>1
<1>3. ToInt(n) = ((n + h) % Wrap) - h
  BY DEF ToInt
<1> HIDE DEF h
<1>4. CASE n + h < Wrap
  <2>1. (n + h) % Wrap = n + h
    BY <1>1, <1>2, <1>4
  <2> QED  BY <1>2, <1>3, <2>1
<1>5. CASE ~(n + h < Wrap)
  <2>1. (n + h) % Wrap = n + h - Wrap
    <3>1. n + h - Wrap \in Nat /\ n + h - Wrap < Wrap
      BY <1>1, <1>2, <1>5
    <3>2. (n + h - Wrap) % Wrap = n + h - Wrap
      BY <1>1, <3>1
    <3>3. (n + h - Wrap) % Wrap = (n + h) % Wrap
      BY <1>1, <1>2, <3>1
    <3> QED  BY <3>2, <3>3
  <2>2. ToInt(n) < 0
    BY <1>1, <1>2, <1>3, <2>1
  <2>3. CompressBound(ToInt(n)) = 0
    BY <2>2 DEF CompressBound
  <2>4. CompressedSizes(n) = {}
    BY <2>3 DEF CompressedSizes
  <2> QED  BY <2>4
<1> QED  BY <1>4, <1>5

(* A length is an int, and a compressed size a number.                     *)
LEMMA SizesAreNumbers ==
  ASSUME NEW n \in Nat
  PROVE  ToInt(n) \in Int /\ CompressedSizes(n) \subseteq Nat
<1>1. Wrap \in Nat /\ 0 < Wrap /\ MaxInput \in Nat
  BY SizeAssumption
<1>2. Wrap \div 2 \in Nat
  BY <1>1
<1>3. (n + Wrap \div 2) % Wrap \in Int
  BY <1>1, <1>2
<1>4. ToInt(n) \in Int
  BY <1>2, <1>3 DEF ToInt
<1>5. CompressBound(ToInt(n)) \in Int
  BY <1>4 DEF CompressBound
<1> QED  BY <1>4, <1>5 DEF CompressedSizes

(* A file is the stream, or what it was compressed to, or the stream       *)
(* behind a flag.                                                          *)
LEMMA WholeIs ==
  ASSUME RowsOK, stream = Serialized, NEW w \in Whole
  PROVE  \/ w = stream
         \/ w = <<Flag(0)>> \o stream
         \/ \E c \in CompressedSizes(Bytes(stream)) :
              /\ c < Bytes(stream)
              /\ w = <<Flag(1), Sized(Bytes(stream)), Packed(stream, ToInt(Bytes(stream)), c)>>
<1>1. CASE Bytes(stream) <= Threshold
  BY <1>1 DEF Whole
<1>2. ASSUME ~(Bytes(stream) <= Threshold),
             NEW c \in CompressedSizes(Bytes(stream)), w = Packing(c)
      PROVE  \/ w = <<Flag(0)>> \o stream
             \/ /\ c < Bytes(stream)
                /\ w = <<Flag(1), Sized(Bytes(stream)), Packed(stream, ToInt(Bytes(stream)), c)>>
  <2>1. CASE c < Bytes(stream)
    BY <1>2, <2>1 DEF Packing
  <2>2. CASE ~(c < Bytes(stream))
    BY <1>2, <2>2 DEF Packing
  <2> QED  BY <2>1, <2>2
<1> QED  BY <1>1, <1>2 DEF Whole

(* A whole file reads back as the table, unless the length has wrapped,    *)
(* and is at most a size_t longer than the stream.                         *)
LEMMA WholeReadsBack ==
  ASSUME RowsOK, stream = Serialized, NEW w \in Whole
  PROVE  /\ w \in Seq(Part)
         /\ Decode(w) \in {Pairs, Unreadable}
         /\ Bytes(stream) < Wrap => Decode(w) = Pairs
         /\ Bytes(w) <= Bytes(stream) + SizeWidth
<1> DEFINE B == Bytes(stream)
<1>1. stream \in Seq(Field) /\ Len(stream) >= 2 /\ stream[1] = Magic
  <2>1. Len(rows) \in Nat /\ Len(stream) = 2 + 4 * Len(rows)
    BY Layout
  <2> QED  BY <2>1, Layout
<1>2. B \in Nat /\ Bytes(<<Flag(0)>> \o stream) = 1 + B
  BY <1>1, BytesAreMany
<1>21. SizeWidth \in Nat /\ SizeWidth >= 1
  BY SizeAssumption
<1>3. Parse(stream) = Pairs
  BY StreamReadsBack
<1>4. stream \in Seq(Part)
  BY <1>1 DEF Part
<1>5. CASE w = stream
  <2>1. w # <<>> /\ w[1].is # "flag"
    BY <1>1, <1>5 DEF Magic
  <2>2. Decode(w) = Parse(w)
    BY <2>1 DEF Decode
  <2>3. Bytes(w) <= B + SizeWidth
    BY <1>2, <1>21, <1>5
  <2> HIDE DEF B
  <2> QED  BY <1>3, <1>4, <1>5, <2>2, <2>3 DEF B
<1>6. CASE w = <<Flag(0)>> \o stream
  <2>1. w # <<>> /\ w[1] = Flag(0) /\ Tail(w) = stream
    BY <1>1, <1>6
  <2>2. w[1].is = "flag" /\ w[1].of # 1
    BY <2>1 DEF Flag
  <2>3. Decode(w) = Parse(stream)
    BY <2>1, <2>2 DEF Decode
  <2>4. w \in Seq(Part)
    <3>1. <<Flag(0)>> \in Seq(Part)
      BY DEF Part
    <3> QED  BY <1>4, <1>6, <3>1
  <2>5. Bytes(w) <= B + SizeWidth
    BY <1>2, <1>21, <1>6
  <2> HIDE DEF B
  <2> QED  BY <1>3, <2>3, <2>4, <2>5 DEF B
<1>7. ASSUME NEW c \in CompressedSizes(B), c < B,
             w = <<Flag(1), Sized(B), Packed(stream, ToInt(B), c)>>
      PROVE  /\ w \in Seq(Part)
             /\ Decode(w) \in {Pairs, Unreadable}
             /\ B < Wrap => Decode(w) = Pairs
             /\ Bytes(w) <= B + SizeWidth
  <2> HIDE DEF B
  <2> DEFINE t == <<Sized(B), Packed(stream, ToInt(B), c)>>
  <2>1. ToInt(B) \in Int /\ c \in Nat
    BY <1>2, SizesAreNumbers
  <2>2. w \in Seq(Part)
    <3>1. Flag(1) \in Part /\ Sized(B) \in Part
      BY <1>2 DEF Part, Field
    <3>2. Packed(stream, ToInt(B), c) \in Part
      BY <1>1, <2>1 DEF Part
    <3> QED  BY <1>7, <3>1, <3>2
  <2>3. Bytes(w) <= B + SizeWidth
    <3>1. Bytes(w) = 1 + SizeWidth + c
      BY <1>2, <1>7, <2>1, BytesOfThree
    <3> QED  BY <1>2, <1>21, <1>7, <2>1, <3>1
  <2>4. w # <<>> /\ w[1] = Flag(1) /\ Tail(w) = t
    BY <1>7
  <2>5. w[1].is = "flag" /\ w[1].of = 1
    BY <2>4 DEF Flag
  <2>6. Decode(w) = Parse(Expand(t))
    <3> HIDE DEF t
    <3> QED  BY <2>4, <2>5 DEF Decode
  <2>7. Len(t) = 2 /\ t[1] = Sized(B) /\ t[2] = Packed(stream, ToInt(B), c)
    OBVIOUS
  <2>8. /\ t[1].is = "size" /\ t[1].of = B
        /\ t[2].is = "packed" /\ t[2].bytes = ToInt(B) /\ t[2].of = stream
    <3> HIDE DEF t
    <3> QED  BY <2>7 DEF Sized, Packed
  <2>9. Expand(t) = IF B = ToInt(B) THEN stream ELSE <<>>
    <3> HIDE DEF t
    <3>1. B = Bytes(stream)
      BY DEF B
    <3> QED  BY <2>7, <2>8, <3>1 DEF Expand
  <2>10. Parse(<<>>) = Unreadable
    BY DEF Parse
  <2>11. B < Wrap => B = ToInt(B)
    BY <1>2, <1>7, IntsAreExact
  <2> HIDE DEF t
  <2> QED  BY <1>3, <2>2, <2>3, <2>6, <2>9, <2>10, <2>11
<1>8. \/ w = stream
      \/ w = <<Flag(0)>> \o stream
      \/ \E c \in CompressedSizes(B) :
           c < B /\ w = <<Flag(1), Sized(B), Packed(stream, ToInt(B), c)>>
  BY WholeIs
<1> QED
  <2> SUFFICES /\ w \in Seq(Part)
               /\ Decode(w) \in {Pairs, Unreadable}
               /\ B < Wrap => Decode(w) = Pairs
               /\ Bytes(w) <= B + SizeWidth
    OBVIOUS
  <2>1. CASE w = stream
    BY <1>5, <2>1
  <2>2. CASE w = <<Flag(0)>> \o stream
    BY <1>6, <2>2
  <2>3. CASE \E c \in CompressedSizes(B) :
               c < B /\ w = <<Flag(1), Sized(B), Packed(stream, ToInt(B), c)>>
    <3> HIDE DEF B
    <3> QED  BY <1>7, <2>3
  <2> HIDE DEF B
  <2> QED  BY <1>8, <2>1, <2>2, <2>3

(* The beginning of a file is not read as anything.                        *)
LEMMA BeginningIsUnreadable ==
  ASSUME RowsOK, stream = Serialized, NEW w \in Whole, NEW m \in 0..(Len(w) - 1)
  PROVE  /\ SubSeq(w, 1, m) \in Seq(Part)
         /\ Decode(SubSeq(w, 1, m)) = Unreadable
<1> DEFINE t == SubSeq(w, 1, m)
<1>1. w \in Seq(Part) /\ Len(w) \in Nat /\ m \in Nat /\ m < Len(w)
  <2>1. w \in Seq(Part)
    BY WholeReadsBack
  <2> QED  BY <2>1, LenProperties
<1>2. t \in Seq(Part) /\ Len(t) = m /\ \A i \in 1..m : t[i] = w[i]
  <2>1. \A i \in 1..m : w[i] \in Part
    BY <1>1, ElementOfSeq
  <2>2. /\ t \in Seq(Part)
        /\ Len(t) = IF 1 <= m THEN m - 1 + 1 ELSE 0
        /\ \A i \in 1..(m - 1 + 1) : t[i] = w[1 + i - 1]
    BY <1>1, <2>1, SubSeqProperties
  <2>3. m - 1 + 1 = m /\ \A i \in 1..m : 1 + i - 1 = i
    BY <1>1
  <2> HIDE DEF t
  <2>4. (IF 1 <= m THEN m - 1 + 1 ELSE 0) = m
    BY <1>1
  <2> QED  BY <2>2, <2>3, <2>4
<1>3. stream \in Seq(Field) /\ Len(stream) \in Nat /\ Len(stream) >= 2 /\ stream[1] = Magic
  <2>1. Len(rows) \in Nat /\ Len(stream) = 2 + 4 * Len(rows)
    BY Layout
  <2> QED  BY <2>1, Layout
<1> HIDE DEF t
<1>4. CASE m = 0
  <2>1. t = <<>>
    BY <1>2, <1>4
  <2> QED  BY <1>2, <2>1 DEF Decode, t
<1>5. CASE m # 0
  <2>1. t # <<>> /\ t[1] = w[1] /\ m >= 1
    BY <1>1, <1>2, <1>5
  <2>2. CASE w = stream
    <3>1. t[1].is # "flag"
      BY <1>3, <2>1, <2>2 DEF Magic
    <3>2. Decode(t) = Parse(t)
      BY <2>1, <3>1 DEF Decode
    <3>3. Parse(t) = Unreadable
      BY <1>1, <1>2, <2>2, PartIsUnreadable
    <3> QED  BY <1>2, <3>2, <3>3 DEF t
  <2>3. Len(Tail(t)) = m - 1 /\ \A i \in 1..(m - 1) : Tail(t)[i] = w[i + 1]
    <3>1. Len(Tail(t)) = m - 1 /\ \A i \in 1..(m - 1) : Tail(t)[i] = t[i + 1]
      BY <1>2, <2>1, HeadTailProperties
    <3>2. \A i \in 1..(m - 1) : i + 1 \in 1..m
      BY <1>1
    <3> QED  BY <1>2, <3>1, <3>2
  <2>4. CASE w = <<Flag(0)>> \o stream
    <3>1. Len(w) = Len(stream) + 1 /\ \A i \in 1..Len(stream) : w[i + 1] = stream[i]
      BY <1>3, <2>4
    <3>2. t[1].is = "flag" /\ t[1].of # 1
      <4>1. t[1] = Flag(0)
        BY <1>3, <2>1, <2>4
      <4> QED  BY <4>1 DEF Flag
    <3>3. Decode(t) = Parse(Tail(t))
      BY <2>1, <3>2 DEF Decode
    <3>4. m - 1 \in Nat /\ m - 1 < Len(Serialized)
      BY <1>1, <1>3, <2>1, <3>1
    <3>5. \A i \in 1..(m - 1) : Tail(t)[i] = Serialized[i]
      <4>1. \A i \in 1..(m - 1) : i \in 1..Len(stream)
        BY <1>1, <1>3, <3>1
      <4> QED  BY <2>3, <3>1, <4>1
    <3>6. Parse(Tail(t)) = Unreadable
      <4>1. Len(Tail(t)) = m - 1
        BY <2>3
      <4> QED  BY <3>4, <3>5, <4>1, PartIsUnreadable
    <3> QED  BY <1>2, <3>3, <3>6 DEF t
  <2>5. ASSUME NEW c,
               w = <<Flag(1), Sized(Bytes(stream)), Packed(stream, ToInt(Bytes(stream)), c)>>
        PROVE  Decode(t) = Unreadable
    <3>1. Len(w) = 3 /\ w[1] = Flag(1)
      BY <2>5
    <3>2. t[1].is = "flag" /\ t[1].of = 1
      BY <2>1, <3>1 DEF Flag
    <3>3. Decode(t) = Parse(Expand(Tail(t)))
      BY <2>1, <3>2 DEF Decode
    <3>4. Len(Tail(t)) # 2
      <4>1. Len(Tail(t)) = m - 1
        BY <2>3
      <4>2. m \in Nat /\ m < 3
        BY <1>1, <3>1
      <4> QED  BY <4>1, <4>2
    <3>5. Expand(Tail(t)) = <<>>
      BY <3>4 DEF Expand
    <3>6. Parse(<<>>) = Unreadable
      BY DEF Parse
    <3> QED  BY <3>3, <3>5, <3>6
  <2>6. \/ w = stream
        \/ w = <<Flag(0)>> \o stream
        \/ \E c : w = <<Flag(1), Sized(Bytes(stream)), Packed(stream, ToInt(Bytes(stream)), c)>>
    BY WholeIs
  <2>7. Decode(t) = Unreadable
    <3>1. CASE w = stream
      BY <2>2, <3>1 DEF t
    <3>2. CASE w = <<Flag(0)>> \o stream
      BY <2>4, <3>2 DEF t
    <3> QED  BY <2>5, <2>6, <3>1, <3>2
  <2> QED  BY <1>2, <2>7 DEF t
<1> QED  BY <1>4, <1>5
-----------------------------------------------------------------------------
(* In which phase the file holds what.                                     *)
FileFits ==
  /\ stream \in {<<>>, Serialized}
  /\ phase = "up" => stream = <<>>
  /\ phase = "writing" => stream = Serialized /\ file = <<>>
  /\ phase = "written" /\ Opened => file \in Whole
  /\ phase = "thrown" => file = <<>>
  /\ phase = "killed" => \E w \in Whole : \E m \in 0..(Len(w) - 1) : file = SubSeq(w, 1, m)

Inv ==
  /\ RowsOK
  /\ phase \in {"up", "writing", "written", "thrown", "killed"}
  /\ file \in Seq(Part)
  /\ FileFits

(* An empty keyspace has it.                                               *)
LEMMA InitInv == Init => Inv
<1> SUFFICES ASSUME Init PROVE Inv
  OBVIOUS
<1>1. rows = <<>> /\ stream = <<>> /\ file = <<>> /\ phase = "up"
  BY DEF Init
<1>2. rows \in Seq(Key \X Value) /\ Distinct(rows)
  BY <1>1 DEF Distinct
<1>3. RowsOK
  BY <1>2, RowsDistinct DEF RowsOK, RowOf
<1>4. FileFits
  BY <1>1 DEF FileFits, Opened
<1> QED  BY <1>1, <1>3, <1>4 DEF Inv

(* The stream is never empty.                                              *)
LEMMA StreamIsThere == RowsOK => Serialized # <<>>
<1> SUFFICES ASSUME RowsOK PROVE Serialized # <<>>
  OBVIOUS
<1>1. Len(Serialized) >= 2
  <2>1. Len(rows) \in Nat /\ Len(Serialized) = 2 + 4 * Len(rows)
    BY Layout
  <2> QED  BY <2>1
<1> QED  BY <1>1

(* Every step keeps it.                                                    *)
LEMMA NextInv == Inv /\ [Next]_vars => Inv'
<1> SUFFICES ASSUME Inv, [Next]_vars PROVE Inv'
  OBVIOUS
<1>1. RowsOK /\ file \in Seq(Part) /\ FileFits
  BY DEF Inv
<1> USE DEF Inv
<1>2. CASE Change
  <2>1. RowsOK'
    BY <1>2, ChangeKeeps DEF Change
  <2>2. UNCHANGED <<phase, stream, file>> /\ phase = "up" /\ stream = <<>>
    BY <1>2 DEF Change, FileFits
  <2>3. FileFits'
    BY <2>2 DEF FileFits
  <2> QED  BY <2>1, <2>2, <2>3
<1>3. ASSUME rows' = rows PROVE RowsOK' /\ Serialized' = Serialized
  <2>1. RowsOK'
    BY <1>3 DEF RowsOK, RowOf
  <2>2. Serialized' = Serialized
    BY <1>3 DEF Serialized
  <2> QED  BY <2>1, <2>2
<1>4. ASSUME stream' = stream PROVE Whole' = Whole
  BY <1>4 DEF Whole, Packing
<1>5. CASE Open
  <2>1. rows' = rows /\ phase' = "writing" /\ stream' = Serialized /\ file' = <<>>
    BY <1>5 DEF Open
  <2>2. FileFits'
    BY <1>3, <2>1 DEF FileFits
  <2> QED  BY <1>3, <2>1, <2>2
<1>6. CASE OpenFails
  <2>1. rows' = rows /\ phase' = "written" /\ stream' = <<>> /\ file' = file
    BY <1>6 DEF OpenFails, FileFits
  <2>2. FileFits'
    BY <2>1 DEF FileFits, Opened
  <2> QED  BY <1>3, <2>1, <2>2
<1>7. CASE WritePlain
  <2>1. /\ rows' = rows /\ phase' = "written" /\ stream' = stream
        /\ file' = stream /\ stream = Serialized
    BY <1>7 DEF WritePlain, FileFits
  <2>2. file' \in Whole
    BY <1>7, <2>1 DEF WritePlain, Whole
  <2>3. file' \in Seq(Part)
    BY <2>1, <2>2, WholeReadsBack
  <2>4. FileFits'
    BY <1>3, <1>4, <2>1, <2>2 DEF FileFits
  <2> QED  BY <1>3, <2>1, <2>3, <2>4
<1>8. CASE WriteCompressed
  <2>1. rows' = rows /\ phase' = "written" /\ stream' = stream /\ stream = Serialized
    BY <1>8 DEF WriteCompressed, FileFits
  <2>2. file' \in Whole
    <3>1. ~(Bytes(stream) <= Threshold)
      <4>1. Bytes(stream) \in Nat /\ Threshold \in Nat
        BY <1>1, <2>1, Layout, BytesAreMany, SizeAssumption
      <4> QED  BY <1>8, <4>1 DEF WriteCompressed
    <3> QED  BY <1>8, <3>1 DEF WriteCompressed, Whole
  <2>3. file' \in Seq(Part)
    BY <2>1, <2>2, WholeReadsBack
  <2>4. FileFits'
    BY <1>3, <1>4, <2>1, <2>2 DEF FileFits
  <2> QED  BY <1>3, <2>1, <2>3, <2>4
<1>9. CASE CompressThrows
  <2>1. /\ rows' = rows /\ phase' = "thrown" /\ stream' = stream
        /\ file' = file /\ stream = Serialized /\ file = <<>>
    BY <1>9 DEF CompressThrows, FileFits
  <2>2. FileFits'
    BY <1>3, <2>1 DEF FileFits
  <2> QED  BY <1>3, <2>1, <2>2
<1>10. CASE Killed
  <2>1. rows' = rows /\ phase' = "killed" /\ stream' = stream /\ stream = Serialized
    BY <1>10 DEF Killed, FileFits
  <2>2. PICK w \in Whole : \E m \in 0..(Len(w) - 1) : file' = SubSeq(w, 1, m)
    BY <1>10 DEF Killed, Whole
  <2>3. file' \in Seq(Part)
    BY <2>1, <2>2, BeginningIsUnreadable
  <2>4. FileFits'
    <3>1. \E x \in Whole' : \E m \in 0..(Len(x) - 1) : file' = SubSeq(x, 1, m)
      BY <1>4, <2>1, <2>2
    <3>2. stream' \in {<<>>, Serialized'}
      BY <1>3, <2>1
    <3>3. phase' \notin {"up", "writing", "written", "thrown"}
      BY <2>1
    <3> QED  BY <3>1, <3>2, <3>3 DEF FileFits
  <2> QED  BY <1>3, <2>1, <2>3, <2>4
<1>11. CASE Reopen
  <2>1. rows' = rows /\ phase' = "up" /\ stream' = <<>> /\ file' = file
    BY <1>11 DEF Reopen
  <2>2. FileFits'
    BY <2>1 DEF FileFits, Opened
  <2> QED  BY <1>3, <2>1, <2>2
<1>12. CASE UNCHANGED vars
  <2>1. UNCHANGED <<rows, phase, stream, file>>
    BY <1>12 DEF vars
  <2>2. FileFits'
    BY <1>3, <1>4, <2>1 DEF FileFits, Opened
  <2> QED  BY <1>3, <2>1, <2>2
<1> QED  BY <1>2, <1>5, <1>6, <1>7, <1>8, <1>9, <1>10, <1>11, <1>12 DEF Next

(* So it always holds.                                                     *)
LEMMA Invariant == Spec => []Inv
<1> QED  BY InitInv, NextInv, PTL DEF Spec
-----------------------------------------------------------------------------
(* The types are right: the table has no key twice, and every field of the *)
(* stream and of the file is some bytes wide.                              *)
THEOREM TypeCorrect == Spec => []TypeOK
<1>1. ASSUME Inv PROVE TypeOK
  <2>1. file \in Seq(Part) /\ RowsOK /\ stream \in {<<>>, Serialized}
    BY <1>1 DEF Inv, FileFits
  <2>2. stream \in Seq(Field)
    <3>1. <<>> \in Seq(Field)
      BY EmptySeq
    <3>2. Serialized \in Seq(Field)
      BY <2>1, Layout
    <3> QED  BY <2>1, <3>1, <3>2
  <2>3. Range(stream) \subseteq Field
    BY <2>2, LenProperties DEF Range
  <2>4. Range(file) \subseteq Part
    BY <2>1, LenProperties DEF Range
  <2>5. \A f \in Range(stream) \cup Range(file) : Width(f) \in Nat
    BY <2>3, <2>4, FieldWidths, PartWidths
  <2> QED  BY <1>1, <2>5 DEF Inv, TypeOK
<1> QED  BY <1>1, Invariant, PTL

(* A file that writeBinarySnapshot has written reads back as the table,    *)
(* compressed or not, as long as its bytes can be counted in 32 bits:      *)
(* what compress refuses is never written, and what it accepts has not     *)
(* wrapped.                                                                *)
THEOREM BelowWrapReadsBack == Spec => []ReadsBackBelowWrap
<1>1. ASSUME Inv PROVE ReadsBackBelowWrap
  <2>1. SUFFICES ASSUME phase = "written", Opened, Bytes(stream) < Wrap
                 PROVE  Decode(file) = Pairs
    BY DEF ReadsBackBelowWrap
  <2>2. RowsOK /\ stream = Serialized /\ file \in Whole
    BY <1>1, <2>1 DEF Inv, FileFits, Opened
  <2> QED  BY <2>1, <2>2, WholeReadsBack
<1> QED  BY <1>1, Invariant, PTL

(* Whatever happens in a shutdown that could open the file, what is in it  *)
(* is read as the table or not at all: writing, compressing, an exception  *)
(* and a kill leave nothing that looks like another table.                 *)
THEOREM NothingIsMistaken == Spec => []NeverMistaken
<1>1. ASSUME Inv PROVE NeverMistaken
  <2>1. SUFFICES ASSUME Opened PROVE Decode(file) \in {Pairs, Unreadable}
    BY DEF NeverMistaken
  <2>2. RowsOK /\ stream = Serialized
    BY <1>1, <2>1 DEF Inv, FileFits, Opened
  <2>3. CASE file = <<>>
    BY <2>3 DEF Decode
  <2>4. CASE file \in Whole
    BY <2>2, <2>4, WholeReadsBack
  <2>5. CASE \E w \in Whole : \E m \in 0..(Len(w) - 1) : file = SubSeq(w, 1, m)
    BY <2>2, <2>5, BeginningIsUnreadable
  <2>6. \/ file = <<>>
        \/ file \in Whole
        \/ \E w \in Whole : \E m \in 0..(Len(w) - 1) : file = SubSeq(w, 1, m)
    BY <1>1, <2>1 DEF Inv, FileFits, Opened
  <2> QED  BY <2>3, <2>4, <2>5, <2>6
<1> QED  BY <1>1, Invariant, PTL

(* The attempt to compress costs at most a size_t: the flag alone when it  *)
(* was in vain, and else flag and size, of which a byte is gained.         *)
THEOREM CompressionCostsASize == Spec => []CompressionIsWorthIt
<1>1. ASSUME Inv PROVE CompressionIsWorthIt
  <2>1. SUFFICES ASSUME phase = "written", Opened
                 PROVE  Bytes(file) <= Bytes(stream) + SizeWidth
    BY DEF CompressionIsWorthIt
  <2>2. RowsOK /\ stream = Serialized /\ file \in Whole
    BY <1>1, <2>1 DEF Inv, FileFits, Opened
  <2> QED  BY <2>2, WholeReadsBack
<1> QED  BY <1>1, Invariant, PTL
-----------------------------------------------------------------------------
(* The bytes that stats counts are those of the lines of keys and values.  *)
LEMMA StatsCountsLines ==
  ASSUME RowsOK
  PROVE  StatsBytes = FoldLeft(LAMBDA n, s : n + Size[s], 0, GetKeys \o GetValues)
<1> DEFINE n == Len(rows)
           ks == [i \in 1..n |-> Size[KeyOf(rows[i])]]
           vs == [i \in 1..n |-> Size[ValueOf(rows[i])]]
           all == GetKeys \o GetValues
<1>1. n \in Nat /\ DOMAIN rows = 1..n /\ rows \in [1..n -> Key \X Value]
  BY LenProperties DEF RowsOK
<1>2. \A i \in 1..n : Size[KeyOf(rows[i])] \in Nat /\ Size[ValueOf(rows[i])] \in Nat
  <2>1. \A i \in 1..n : KeyOf(rows[i]) \in Key /\ ValueOf(rows[i]) \in Value
    BY <1>1 DEF KeyOf, ValueOf
  <2> QED  BY <2>1, QueryAssumption
<1>3. ks \in [1..n -> Nat] /\ vs \in [1..n -> Nat]
  BY <1>2
<1>4. PICK a : Sums(a, n, ks)
  <2> HIDE DEF ks, n
  <2> QED  BY <1>1, <1>3, SumsExist
<1>5. PICK b : Sums(b, n, vs)
  <2> HIDE DEF vs, n
  <2> QED  BY <1>1, <1>3, SumsExist
<1>6. a \in [0..n -> Nat] /\ a[0] = 0 /\ \A i \in 1..n : a[i] = a[i - 1] + Size[KeyOf(rows[i])]
  BY <1>4 DEF Sums
<1>7. b \in [0..n -> Nat] /\ b[0] = 0 /\ \A i \in 1..n : b[i] = b[i - 1] + Size[ValueOf(rows[i])]
  BY <1>5 DEF Sums
<1> DEFINE c == [i \in 0..n |-> a[i] + b[i]]
           d == [i \in 0..(2 * n) |-> IF i <= n THEN a[i] ELSE a[n] + b[i - n]]
<1>8. StatsBytes = c[n]
  <2> HIDE DEF n, ks, vs, all
  <2>1. c \in [0..n -> Nat] /\ c[0] = 0
    BY <1>1, <1>6, <1>7
  <2>2. ASSUME NEW i \in 1..n PROVE c[i] = c[i - 1] + RowBytes(i)
    <3>1. i \in 0..n /\ i - 1 \in 0..n
      BY <1>1
    <3>2. c[i] = a[i] + b[i] /\ c[i - 1] = a[i - 1] + b[i - 1]
      BY <3>1
    <3>3. a[i - 1] \in Nat /\ b[i - 1] \in Nat
      BY <1>6, <1>7, <3>1
    <3>4. a[i] = a[i - 1] + Size[KeyOf(rows[i])] /\ b[i] = b[i - 1] + Size[ValueOf(rows[i])]
      BY <1>6, <1>7
    <3>5. Size[KeyOf(rows[i])] \in Nat /\ Size[ValueOf(rows[i])] \in Nat
      BY <1>2
    <3> HIDE DEF c
    <3> QED  BY <3>2, <3>3, <3>4, <3>5 DEF RowBytes
  <2>3. Sums(c, n, [i \in 1..n |-> RowBytes(i)])
    <3> HIDE DEF c
    <3> QED  BY <2>1, <2>2 DEF Sums
  <2> HIDE DEF c
  <2> QED  BY <1>1, <2>3, StatsAreSums
<1>9. /\ DOMAIN all = 1..(2 * n)
      /\ \A i \in 1..n : all[i] = KeyOf(rows[i])
      /\ \A i \in (n + 1)..(2 * n) : all[i] = ValueOf(rows[i - n])
  <2>1. GetKeys = [i \in 1..n |-> KeyOf(rows[i])] /\ GetValues = [i \in 1..n |-> ValueOf(rows[i])]
    BY <1>1 DEF GetKeys, GetValues
  <2>2. GetKeys \in Seq(Key) /\ GetValues \in Seq(Value) /\ Len(GetKeys) = n /\ Len(GetValues) = n
    BY <1>1, <2>1 DEF KeyOf, ValueOf
  <2> HIDE DEF n
  <2>3. GetKeys \in Seq(Key \cup Value) /\ GetValues \in Seq(Key \cup Value)
    BY <2>2
  <2>4. /\ all \in Seq(Key \cup Value)
        /\ Len(all) = Len(GetKeys) + Len(GetValues)
        /\ \A i \in 1..(Len(GetKeys) + Len(GetValues)) :
             all[i] = IF i <= Len(GetKeys) THEN GetKeys[i] ELSE GetValues[i - Len(GetKeys)]
    BY <2>3, ConcatProperties
  <2> HIDE DEF all
  <2>5. n + n = 2 * n
    BY <1>1
  <2>6. Len(all) = 2 * n /\ DOMAIN all = 1..(2 * n)
    BY <2>2, <2>4, <2>5, LenProperties
  <2>7. \A i \in 1..(2 * n) : all[i] = IF i <= n THEN GetKeys[i] ELSE GetValues[i - n]
    BY <2>2, <2>4, <2>5
  <2>8. ASSUME NEW i \in 1..n PROVE all[i] = KeyOf(rows[i])
    <3>1. i \in 1..(2 * n) /\ i <= n
      BY <1>1
    <3> QED  BY <2>1, <2>7, <3>1
  <2>9. ASSUME NEW i \in (n + 1)..(2 * n) PROVE all[i] = ValueOf(rows[i - n])
    <3>1. i \in 1..(2 * n) /\ ~(i <= n) /\ i - n \in 1..n
      BY <1>1
    <3> QED  BY <2>1, <2>7, <3>1
  <2> QED  BY <2>6, <2>8, <2>9
<1>10. FoldLeft(LAMBDA m, x : m + Size[x], 0, all) = d[2 * n]
  <2> HIDE DEF n, ks, vs, all
  <2>1. d \in [0..(2 * n) -> Nat]
    <3>1. ASSUME NEW i \in 0..(2 * n), ~(i <= n) PROVE i - n \in 0..n /\ n \in 0..n
      BY <1>1, <3>1
    <3>2. ASSUME NEW i \in 0..(2 * n), i <= n PROVE i \in 0..n
      BY <1>1, <3>2
    <3> QED  BY <1>6, <1>7, <3>1, <3>2
  <2>2. d[0] = 0
    BY <1>1, <1>6
  <2>3. ASSUME NEW i \in 1..(2 * n) PROVE d[i] = d[i - 1] + Size[all[i]]
    <3>1. i \in 0..(2 * n) /\ i - 1 \in 0..(2 * n)
      BY <1>1
    <3>2. CASE i <= n
      <4>1. i \in 1..n /\ i - 1 <= n
        BY <1>1, <3>2
      <4>2. d[i] = a[i] /\ d[i - 1] = a[i - 1] /\ all[i] = KeyOf(rows[i])
        BY <1>9, <3>1, <3>2, <4>1
      <4> HIDE DEF d
      <4> QED  BY <1>6, <4>1, <4>2
    <3>3. CASE ~(i <= n)
      <4>1. /\ i \in (n + 1)..(2 * n) /\ i - n \in 1..n
            /\ i - n - 1 \in 0..n /\ n \in 0..n /\ i - 1 - n = i - n - 1
        BY <1>1, <3>3
      <4>2. d[i] = a[n] + b[i - n]
        BY <3>1, <3>3
      <4>3. d[i - 1] = a[n] + b[i - n - 1]
        <5>1. CASE i - 1 <= n
          <6>1. i - 1 = n /\ i - n - 1 = 0
            BY <1>1, <3>3, <5>1
          <6>2. d[i - 1] = a[n]
            BY <3>1, <6>1
          <6>3. a[n] \in Nat
            BY <1>6, <4>1
          <6> HIDE DEF d
          <6> QED  BY <1>7, <6>1, <6>2, <6>3
        <5>2. CASE ~(i - 1 <= n)
          BY <3>1, <4>1, <5>2
        <5> QED  BY <5>1, <5>2
      <4>4. b[i - n] = b[i - n - 1] + Size[ValueOf(rows[i - n])]
        BY <1>7, <4>1
      <4>5. all[i] = ValueOf(rows[i - n])
        BY <1>9, <4>1
      <4>6. a[n] \in Nat /\ b[i - n - 1] \in Nat /\ Size[ValueOf(rows[i - n])] \in Nat
        BY <1>2, <1>6, <1>7, <4>1
      <4> HIDE DEF d
      <4> QED  BY <4>2, <4>3, <4>4, <4>5, <4>6
    <3> QED  BY <3>2, <3>3
  <2>4. Sums(d, 2 * n, [i \in 1..(2 * n) |-> Size[all[i]]])
    <3> HIDE DEF d
    <3> QED  BY <2>1, <2>2, <2>3 DEF Sums
  <2>5. 2 * n \in Nat
    BY <1>1
  <2> HIDE DEF d
  <2> QED  BY <1>9, <2>4, <2>5, SizesAreSums
<1>11. c[n] = d[2 * n]
  <2>1. CASE n = 0
    BY <1>6, <1>7, <2>1
  <2>2. CASE n # 0
    <3> HIDE DEF n
    <3>1. ~(2 * n <= n) /\ 2 * n - n = n /\ 2 * n \in 0..(2 * n) /\ n \in 0..n
      BY <1>1, <2>2
    <3> QED  BY <3>1
  <2> QED  BY <2>1, <2>2
<1> QED
  <2> HIDE DEF c, d, n
  <2> QED  BY <1>8, <1>10, <1>11 DEF all

(* Without a change between the two calls, the i-th line of values is the  *)
(* value of the i-th line of keys, and stats counts the bytes of both.     *)
THEOREM ListsBelongTogether == Spec => []ListsAlign
<1>1. ASSUME Inv PROVE ListsAlign
  <2>1. RowsOK /\ rows \in Seq(Key \X Value) /\ Distinct(rows)
    BY <1>1, RowsDistinct DEF Inv, RowsOK, RowOf
  <2>2. ASSUME NEW i \in DOMAIN GetKeys PROVE Get(GetKeys[i]) = GetValues[i]
    <3>1. i \in DOMAIN rows /\ GetKeys[i] = KeyOf(rows[i]) /\ GetValues[i] = ValueOf(rows[i])
      BY DEF GetKeys, GetValues
    <3>2. RowOf(KeyOf(rows[i])) = {i}
      BY <2>1, <3>1 DEF RowOf, Distinct
    <3>3. (CHOOSE j \in RowOf(KeyOf(rows[i])) : TRUE) = i
      BY <3>2
    <3> QED  BY <3>1, <3>2, <3>3 DEF Get
  <2> QED  BY <2>1, <2>2, StatsCountsLines DEF ListsAlign
<1> QED  BY <1>1, Invariant, PTL


(* What holds of 0 and passes from each number to the next holds of all.   *)
LEMMA Counting ==
  ASSUME NEW n \in Nat, NEW S, 0 \in S, \A i \in 1..n : i - 1 \in S => i \in S
  PROVE  \A i \in 0..n : i \in S
<1> DEFINE T == {i \in 0..n : i \notin S}
<1>1. SUFFICES ASSUME T # {} PROVE FALSE
  OBVIOUS
<1>2. T \in SUBSET Nat
  OBVIOUS
<1>3. PICK i \in T : \A j \in T : i <= j
  <2> HIDE DEF T
  <2> QED  BY <1>1, <1>2, SmallestOf
<1>4. i \in 1..n /\ i - 1 \in 0..n /\ ~(i <= i - 1)
  OBVIOUS
<1>5. i - 1 \in S
  BY <1>3, <1>4
<1> QED  BY <1>4, <1>5

(* The numbers up to i are those up to i - 1, and i, their greatest.       *)
LEMMA MaxOfFirst ==
  ASSUME NEW n \in Nat, NEW i \in 1..n
  PROVE  Max(1..i) = i /\ (1..i) \ {i} = 1..(i - 1) /\ 1..i # {} /\ 1..i \in SUBSET (1..n)
<1>1. 1..i \in SUBSET (1..n) /\ 1..i # {} /\ i \in 1..i
  OBVIOUS
<1>2. Max(1..i) \in 1..i /\ \A m \in 1..i : m <= Max(1..i)
  BY <1>1, MaxOf
<1>3. (1..i) \ {i} = 1..(i - 1)
  OBVIOUS
<1> QED  BY <1>1, <1>2, <1>3

(* A fold of the community modules, from base, by a step that is a         *)
(* function of the value so far and the index of the next element.         *)
Folds(it, n, base, step) ==
  it = [t \in SUBSET (1..n) |->
          IF t = {} THEN base ELSE step[<<it[t \ {Max(t)}], Max(t)>>]]

(* There is one, and its values are those that the step has.               *)
LEMMA FoldExists ==
  ASSUME NEW n \in Nat, NEW State, NEW base \in State,
         NEW step \in [State \X (1..n) -> State]
  PROVE  \E it \in [SUBSET (1..n) -> State] : Folds(it, n, base, step)
<1> DEFINE Fold(m) == \E it \in [SUBSET (1..m) -> State] : Folds(it, m, base, step)
           S == {m \in 0..n : Fold(m)}
<1>1. 0 \in S
  <2>1. SUBSET (1..0) = {{}}
    OBVIOUS
  <2>2. Folds([t \in SUBSET (1..0) |-> base], 0, base, step)
    BY <2>1 DEF Folds
  <2> QED  BY <2>2
<1>2. ASSUME NEW m \in 1..n, m - 1 \in S PROVE m \in S
  <2>1. PICK it \in [SUBSET (1..(m - 1)) -> State] : Folds(it, m - 1, base, step)
    BY <1>2
  <2> DEFINE f == [t \in SUBSET (1..m) |->
                     IF m \in t THEN step[<<it[t \ {m}], m>>] ELSE it[t]]
             g == [t \in SUBSET (1..m) |->
                     IF t = {} THEN base ELSE step[<<f[t \ {Max(t)}], Max(t)>>]]
  <2>2. m \in Nat /\ m - 1 \in Nat /\ m \in 1..m
    OBVIOUS
  <2>3. ASSUME NEW t \in SUBSET (1..m) PROVE f[t] = g[t] /\ f[t] \in State
    <3>1. CASE m \in t
      <4>1. Max(t) \in t /\ \A i \in t : i <= Max(t)
        BY <2>2, <3>1, MaxOf
      <4>2. Max(t) = m
        <5>1. Max(t) \in 1..m /\ m <= Max(t)
          BY <3>1, <4>1
        <5> HIDE DEF f, g
        <5> QED  BY <2>2, <5>1
      <4>3. t \ {m} \in SUBSET (1..m) /\ m \notin t \ {m} /\ t # {}
        BY <3>1
      <4>4. t \ {m} \in SUBSET (1..(m - 1))
        BY <2>2, <4>3
      <4>5. f[t] = step[<<it[t \ {m}], m>>] /\ f[t \ {m}] = it[t \ {m}]
        BY <3>1, <4>3
      <4>6. g[t] = step[<<f[t \ {m}], m>>]
        BY <4>2, <4>3
      <4>7. it[t \ {m}] \in State
        BY <2>1, <4>4
      <4>8. step[<<it[t \ {m}], m>>] \in State
        BY <4>7
      <4> HIDE DEF f, g
      <4> QED  BY <4>5, <4>6, <4>8
    <3>2. CASE m \notin t
      <4>1. t \in SUBSET (1..(m - 1))
        BY <2>2, <3>2
      <4>2. it[t] = IF t = {} THEN base ELSE step[<<it[t \ {Max(t)}], Max(t)>>]
        BY <2>1, <4>1 DEF Folds
      <4>3. t \ {Max(t)} \in SUBSET (1..m) /\ m \notin t \ {Max(t)}
        BY <3>2
      <4>4. f[t] = it[t] /\ f[t \ {Max(t)}] = it[t \ {Max(t)}]
        BY <3>2, <4>3
      <4>5. g[t] = IF t = {} THEN base ELSE step[<<f[t \ {Max(t)}], Max(t)>>]
        OBVIOUS
      <4>6. it[t] \in State
        BY <2>1, <4>1
      <4> HIDE DEF f, g
      <4> QED  BY <4>2, <4>4, <4>5, <4>6
    <3> QED  BY <3>1, <3>2
  <2>4. f = g /\ f \in [SUBSET (1..m) -> State]
    BY <2>3
  <2>5. Folds(f, m, base, step)
    BY <2>4 DEF Folds
  <2>6. Fold(m)
    <3> HIDE DEF f
    <3> QED  BY <2>4, <2>5
  <2> QED  BY <2>6
<1>3. n \in S
  <2> HIDE DEF S
  <2>1. \A i \in 0..n : i \in S
    BY <1>1, <1>2, Counting
  <2> QED  BY <2>1
<1> QED  BY <1>3

-----------------------------------------------------------------------------
(* r[i] are those of the first i elements of x that p wants.               *)
Picks(r, n, T, x, p) ==
  /\ r \in [0..n -> Seq(T)]
  /\ r[0] = <<>>
  /\ \A i \in 1..n : r[i] = IF p[i] THEN Append(r[i - 1], x[i]) ELSE r[i - 1]

(* v is the end of such a run.                                             *)
PicksTo(v, n, T, x, p) == \E r : Picks(r, n, T, x, p) /\ r[n] = v

(* What a fold of the community modules builds for them.                   *)
PickFold(it, n, x, p) ==
  it = [t \in SUBSET (1..n) |->
          IF t = {} THEN <<>>
          ELSE IF p[Max(t)] THEN Append(it[t \ {Max(t)}], x[Max(t)]) ELSE it[t \ {Max(t)}]]

(* There is such a function.                                               *)
LEMMA PickFoldExists ==
  ASSUME NEW n \in Nat, NEW T, NEW x \in [1..n -> T], NEW p \in [1..n -> BOOLEAN]
  PROVE  \E it : PickFold(it, n, x, p)
<1> DEFINE step == [y \in Seq(T) \X (1..n) |->
                      IF p[y[2]] THEN Append(y[1], x[y[2]]) ELSE y[1]]
<1>1. <<>> \in Seq(T)
  OBVIOUS
<1>2. step \in [Seq(T) \X (1..n) -> Seq(T)]
  <2>1. ASSUME NEW y \in Seq(T) \X (1..n)
        PROVE  (IF p[y[2]] THEN Append(y[1], x[y[2]]) ELSE y[1]) \in Seq(T)
    <3>1. y[1] \in Seq(T) /\ x[y[2]] \in T
      OBVIOUS
    <3> QED  BY <3>1
  <2> QED  BY <2>1
<1>3. PICK it \in [SUBSET (1..n) -> Seq(T)] : Folds(it, n, <<>>, step)
  <2> HIDE DEF step
  <2> QED  BY <1>1, <1>2, FoldExists
<1>4. ASSUME NEW t \in SUBSET (1..n), t # {}
      PROVE  step[<<it[t \ {Max(t)}], Max(t)>>]
               = IF p[Max(t)] THEN Append(it[t \ {Max(t)}], x[Max(t)]) ELSE it[t \ {Max(t)}]
  <2>1. Max(t) \in 1..n
    BY <1>4, MaxOf
  <2>2. it[t \ {Max(t)}] \in Seq(T)
    OBVIOUS
  <2> QED  BY <2>1, <2>2
<1> HIDE DEF step
<1> DEFINE F(t) == IF t = {} THEN <<>> ELSE step[<<it[t \ {Max(t)}], Max(t)>>]
           G(t) == IF t = {} THEN <<>>
                   ELSE IF p[Max(t)] THEN Append(it[t \ {Max(t)}], x[Max(t)])
                   ELSE it[t \ {Max(t)}]
<1>5. \A t \in SUBSET (1..n) : F(t) = G(t)
  BY <1>4
<1>6. it = [t \in SUBSET (1..n) |-> F(t)]
  BY <1>3 DEF Folds
<1>7. it = [t \in SUBSET (1..n) |-> G(t)]
  <2> HIDE DEF F, G
  <2> QED  BY <1>5, <1>6
<1> QED  BY <1>7 DEF PickFold

(* Its value for the first n is the end of a run over them.                *)
LEMMA PickFoldPicks ==
  ASSUME NEW n \in Nat, NEW T, NEW x \in [1..n -> T], NEW p \in [1..n -> BOOLEAN],
         NEW it, PickFold(it, n, x, p)
  PROVE  PicksTo(it[1..n], n, T, x, p)
<1> DEFINE r == [i \in 0..n |-> it[1..i]]
           S == {i \in 0..n : it[1..i] \in Seq(T)}
<1>1. it[1..0] = <<>>
  <2>1. 1..0 = {} /\ 1..0 \in SUBSET (1..n)
    OBVIOUS
  <2> QED  BY <2>1 DEF PickFold
<1>2. ASSUME NEW i \in 1..n
      PROVE  it[1..i] = IF p[i] THEN Append(it[1..(i - 1)], x[i]) ELSE it[1..(i - 1)]
  <2>1. Max(1..i) = i /\ (1..i) \ {i} = 1..(i - 1) /\ 1..i # {} /\ 1..i \in SUBSET (1..n)
    BY MaxOfFirst
  <2>2. it[1..i] = IF p[Max(1..i)] THEN Append(it[(1..i) \ {Max(1..i)}], x[Max(1..i)])
                   ELSE it[(1..i) \ {Max(1..i)}]
    BY <2>1 DEF PickFold
  <2> QED  BY <2>1, <2>2
<1>3. \A i \in 0..n : i \in S
  <2>1. 0 \in S
    <3>1. <<>> \in Seq(T) /\ 0 \in 0..n
      OBVIOUS
    <3> QED  BY <1>1, <3>1
  <2>2. ASSUME NEW i \in 1..n, i - 1 \in S PROVE i \in S
    <3>1. it[1..(i - 1)] \in Seq(T) /\ x[i] \in T /\ i \in 0..n
      BY <2>2
    <3>2. Append(it[1..(i - 1)], x[i]) \in Seq(T)
      BY <3>1
    <3>3. it[1..i] \in Seq(T)
      <4> HIDE DEF S
      <4> QED  BY <1>2, <3>1, <3>2
    <3> QED  BY <3>1, <3>3
  <2> HIDE DEF S
  <2> QED  BY <2>1, <2>2, Counting
<1>4. r \in [0..n -> Seq(T)]
  BY <1>3
<1>5. r[0] = <<>>
  BY <1>1
<1>6. ASSUME NEW i \in 1..n PROVE r[i] = IF p[i] THEN Append(r[i - 1], x[i]) ELSE r[i - 1]
  <2>1. i \in 0..n /\ i - 1 \in 0..n
    OBVIOUS
  <2>2. r[i] = it[1..i] /\ r[i - 1] = it[1..(i - 1)]
    BY <2>1
  <2> HIDE DEF r
  <2> QED  BY <1>2, <2>2
<1>7. r[n] = it[1..n]
  OBVIOUS
<1>8. Picks(r, n, T, x, p)
  <2> HIDE DEF r
  <2> QED  BY <1>4, <1>5, <1>6 DEF Picks
<1> QED  BY <1>7, <1>8 DEF PicksTo


(* The elements of x that p wants.                                         *)
Wanted(n, x, p) == {x[i] : i \in {j \in 1..n : p[j]}}

(* What is picked are the wanted elements, one entry for each.             *)
LEMMA PicksWanted ==
  ASSUME NEW n \in Nat, NEW T, NEW x \in [1..n -> T], NEW p \in [1..n -> BOOLEAN],
         NEW r, Picks(r, n, T, x, p)
  PROVE  Range(r[n]) = Wanted(n, x, p)
<1> DEFINE W(m) == {x[i] : i \in {j \in 1..m : p[j]}}
           S == {i \in 0..n : Range(r[i]) = W(i)}
<1>1. r \in [0..n -> Seq(T)] /\ r[0] = <<>>
  BY DEF Picks
<1>2. 0 \in S
  <2>1. Range(r[0]) = {} /\ W(0) = {}
    BY <1>1 DEF Range
  <2> QED  BY <2>1
<1>3. ASSUME NEW i \in 1..n, i - 1 \in S PROVE i \in S
  <2>1. i - 1 \in 0..n /\ i \in 0..n /\ r[i - 1] \in Seq(T) /\ x[i] \in T
    BY <1>1
  <2>2. Range(r[i - 1]) = W(i - 1)
    BY <1>3
  <2>3. 1..i = 1..(i - 1) \cup {i}
    OBVIOUS
  <2>4. CASE p[i]
    <3>1. r[i] = Append(r[i - 1], x[i])
      BY <2>4 DEF Picks
    <3>2. Range(r[i]) = Range(r[i - 1]) \cup {x[i]}
      <4> DEFINE q == r[i - 1]
                 m == Len(q)
      <4>1. q \in Seq(T) /\ m \in Nat /\ DOMAIN q = 1..m
        BY <2>1, LenProperties
      <4> HIDE DEF q, m
      <4>2. DOMAIN Append(q, x[i]) = 1..(m + 1) /\ 1..(m + 1) = 1..m \cup {m + 1}
        BY <4>1, <2>1 DEF m
      <4>3. \A j \in 1..m : Append(q, x[i])[j] = q[j]
        BY <4>1, <2>1 DEF m
      <4>4. Append(q, x[i])[m + 1] = x[i]
        BY <4>1, <2>1 DEF m
      <4>5. Range(Append(q, x[i])) = Range(q) \cup {x[i]}
        BY <4>1, <4>2, <4>3, <4>4 DEF Range
      <4> QED  BY <3>1, <4>5 DEF q
    <3>3. W(i) = W(i - 1) \cup {x[i]}
      BY <2>3, <2>4
    <3> QED  BY <2>1, <2>2, <3>2, <3>3
  <2>5. CASE ~p[i]
    <3>1. r[i] = r[i - 1]
      BY <2>5 DEF Picks
    <3>2. W(i) = W(i - 1)
      BY <2>3, <2>5
    <3> QED  BY <2>1, <2>2, <3>1, <3>2
  <2> QED  BY <2>4, <2>5
<1>4. \A i \in 0..n : i \in S
  <2> HIDE DEF S
  <2> QED  BY <1>2, <1>3, Counting
<1>5. n \in 0..n
  OBVIOUS
<1> QED  BY <1>4, <1>5 DEF Wanted

(* What is picked from elements that differ differs.                       *)
LEMMA PicksDiffer ==
  ASSUME NEW n \in Nat, NEW T, NEW x \in [1..n -> T], NEW p \in [1..n -> BOOLEAN],
         NEW r, Picks(r, n, T, x, p),
         \A i, j \in 1..n : x[i] = x[j] => i = j
  PROVE  Len(r[n]) = Cardinality(Range(r[n]))
<1> DEFINE Good(i) == /\ Range(r[i]) \subseteq {x[j] : j \in 1..i}
                      /\ \A a, b \in DOMAIN r[i] : r[i][a] = r[i][b] => a = b
           S == {i \in 0..n : Good(i)}
<1>1. r \in [0..n -> Seq(T)] /\ r[0] = <<>>
  BY DEF Picks
<1>2. 0 \in S
  BY <1>1 DEF Range
<1>3. ASSUME NEW i \in 1..n, i - 1 \in S PROVE i \in S
  <2>1. i - 1 \in 0..n /\ i \in 0..n /\ r[i - 1] \in Seq(T) /\ x[i] \in T
    BY <1>1
  <2>2. Good(i - 1)
    BY <1>3
  <2>3. \A j \in 1..(i - 1) : j \in 1..i /\ j \in 1..n /\ j # i
    OBVIOUS
  <2>4. CASE p[i]
    <3> DEFINE q == r[i - 1]
               m == Len(q)
    <3>1. r[i] = Append(q, x[i])
      BY <2>4 DEF Picks
    <3>2. q \in Seq(T) /\ m \in Nat /\ DOMAIN q = 1..m
      BY <2>1, LenProperties
    <3>3. Range(q) \subseteq {x[j] : j \in 1..(i - 1)}
      BY <2>2
    <3>4. \A a, b \in DOMAIN q : q[a] = q[b] => a = b
      BY <2>2
    <3> HIDE DEF q, m, Good
    <3>5. DOMAIN r[i] = 1..(m + 1) /\ 1..(m + 1) = 1..m \cup {m + 1} /\ m + 1 \notin 1..m
      BY <3>1, <3>2, <2>1 DEF m
    <3>6. \A j \in 1..m : r[i][j] = q[j]
      BY <3>1, <3>2, <2>1 DEF m
    <3>7. r[i][m + 1] = x[i]
      BY <3>1, <3>2, <2>1 DEF m
    <3>8. \A j \in 1..m : q[j] \in {x[h] : h \in 1..(i - 1)}
      BY <3>2, <3>3 DEF Range
    <3>9. \A j \in 1..m : q[j] # x[i]
      BY <2>3, <3>8
    <3>10. \A a, b \in DOMAIN r[i] : r[i][a] = r[i][b] => a = b
      BY <3>2, <3>4, <3>5, <3>6, <3>7, <3>9
    <3>11. \A a \in DOMAIN r[i] : r[i][a] \in {x[j] : j \in 1..i}
      BY <2>3, <3>5, <3>6, <3>7, <3>8
    <3>12. Good(i)
      BY <3>10, <3>11 DEF Good, Range
    <3> QED  BY <2>1, <3>12
  <2>5. CASE ~p[i]
    <3>1. r[i] = r[i - 1]
      BY <2>5 DEF Picks
    <3>2. Good(i)
      BY <2>2, <2>3, <3>1
    <3> QED  BY <2>1, <3>2
  <2> QED  BY <2>4, <2>5
<1>4. \A i \in 0..n : i \in S
  <2> HIDE DEF S
  <2> QED  BY <1>2, <1>3, Counting
<1>5. Good(n) /\ r[n] \in Seq(T)
  BY <1>1, <1>4
<1> HIDE DEF S
<1> DEFINE q == r[n]
           m == Len(q)
<1>6. m \in Nat /\ q \in [1..m -> Range(q)] /\ DOMAIN q = 1..m
  BY <1>5, LenProperties DEF Range
<1>7. \A a, b \in 1..m : q[a] = q[b] => a = b
  BY <1>5, <1>6
<1>8. \A t \in Range(q) : \E a \in 1..m : q[a] = t
  BY <1>6 DEF Range
<1> HIDE DEF q, m
<1>9. q \in Bijection(1..m, Range(q))
  BY <1>6, <1>7, <1>8 DEF Bijection, Injection, Surjection, IsInjective
<1>10. ExistsBijection(1..m, Range(q))
  BY <1>9 DEF ExistsBijection
<1>11. Cardinality(Range(q)) = m
  BY <1>6, <1>10, FS_CountingElements
<1> QED  BY <1>11 DEF q, m

-----------------------------------------------------------------------------
(* What get answers: a value of a row with that key, if there is one.      *)
LEMMA GetAnswers ==
  ASSUME RowsOK, NEW k \in Key
  PROVE  /\ Get(k) \in Value \cup {NoValue}
         /\ \A i \in DOMAIN rows : KeyOf(rows[i]) = k => rows[i] = <<k, Get(k)>>
         /\ Get(k) # NoValue => \E i \in DOMAIN rows : KeyOf(rows[i]) = k
<1>1. rows \in Seq(Key \X Value) /\ Distinct(rows)
  BY RowsDistinct DEF RowsOK, RowOf
<1>2. ASSUME NEW i \in DOMAIN rows
      PROVE  rows[i] = <<KeyOf(rows[i]), ValueOf(rows[i])>> /\ ValueOf(rows[i]) \in Value
  <2>1. rows[i] \in Key \X Value
    BY <1>1
  <2> QED  BY <2>1 DEF KeyOf, ValueOf
<1>3. ASSUME NEW i \in DOMAIN rows, KeyOf(rows[i]) = k
      PROVE  Get(k) = ValueOf(rows[i])
  <2>1. RowOf(k) = {i}
    BY <1>1, <1>3 DEF RowOf, Distinct
  <2> QED  BY <2>1 DEF Get
<1>4. CASE RowOf(k) = {}
  BY <1>4 DEF Get, RowOf
<1>5. CASE RowOf(k) # {}
  BY <1>2, <1>3, <1>5 DEF RowOf
<1> QED  BY <1>2, <1>3, <1>4, <1>5

(* The wanted among some requested keys are those that are there.          *)
There(ks) == [i \in DOMAIN ks |-> Get(ks[i]) # NoValue]

(* The requests are sequences of keys.                                     *)
LEMMA RequestsAre ==
  ASSUME NEW ks \in Requests
  PROVE  Len(ks) \in Nat /\ DOMAIN ks = 1..Len(ks) /\ ks \in [1..Len(ks) -> Key]
<1>1. PICK n \in 1..MaxKeys : ks \in [1..n -> Key]
  BY DEF Requests
<1>2. n \in Nat
  BY QueryAssumption
<1>3. Len(ks) = n
  BY <1>1, <1>2
<1> QED  BY <1>1, <1>2, <1>3

(* Found runs over the pairs of getItems.                                  *)
LEMMA FoundPicks ==
  ASSUME RowsOK, NEW ks \in Requests
  PROVE  /\ There(ks) \in [1..Len(ks) -> BOOLEAN]
         /\ GetItems(ks) \in [1..Len(ks) -> Key \X (Value \cup {NoValue})]
         /\ PicksTo(Found(ks), Len(ks), Key \X (Value \cup {NoValue}), GetItems(ks), There(ks))
<1> DEFINE n == Len(ks)
           x == GetItems(ks)
           p == There(ks)
           T == Key \X (Value \cup {NoValue})
           F(it) == [t \in SUBSET (1..n) |->
                       IF t = {} THEN <<>>
                       ELSE IF ValueOf(x[Max(t)]) # NoValue
                            THEN Append(it[t \ {Max(t)}], x[Max(t)])
                            ELSE it[t \ {Max(t)}]]
           fold == CHOOSE it : it = F(it)
<1>1. n \in Nat /\ DOMAIN ks = 1..n /\ ks \in [1..n -> Key]
  BY RequestsAre
<1>2. p \in [1..n -> BOOLEAN] /\ x \in [1..n -> T] /\ DOMAIN x = 1..n
  BY <1>1, GetAnswers DEF There, GetItems
<1>3. \A i \in 1..n : p[i] <=> ValueOf(x[i]) # NoValue
  BY <1>1 DEF There, GetItems, ValueOf
<1>4. Found(ks) = fold[1..n]
  <2> HIDE DEF x, n
  <2>1. DOMAIN x = 1..n
    BY <1>2
  <2> QED  BY <2>1 DEF Found, FoldLeft, MapThenFoldSet, x
<1> HIDE DEF n, x, p, T
<1>5. ASSUME NEW it PROVE PickFold(it, n, x, p) <=> it = F(it)
  <2>1. ASSUME NEW t \in SUBSET (1..n), t # {}
        PROVE  p[Max(t)] <=> ValueOf(x[Max(t)]) # NoValue
    <3>1. Max(t) \in 1..n
      BY <1>1, <2>1, MaxOf
    <3> QED  BY <1>3, <3>1
  <2> DEFINE G(t) == IF t = {} THEN <<>>
                     ELSE IF p[Max(t)] THEN Append(it[t \ {Max(t)}], x[Max(t)])
                     ELSE it[t \ {Max(t)}]
             H(t) == IF t = {} THEN <<>>
                     ELSE IF ValueOf(x[Max(t)]) # NoValue
                     THEN Append(it[t \ {Max(t)}], x[Max(t)])
                     ELSE it[t \ {Max(t)}]
  <2>2. \A t \in SUBSET (1..n) : G(t) = H(t)
    BY <2>1
  <2>3. PickFold(it, n, x, p) <=> it = [t \in SUBSET (1..n) |-> G(t)]
    BY DEF PickFold
  <2>4. F(it) = [t \in SUBSET (1..n) |-> H(t)]
    OBVIOUS
  <2>5. [t \in SUBSET (1..n) |-> G(t)] = [t \in SUBSET (1..n) |-> H(t)]
    <3> HIDE DEF G, H
    <3> QED  BY <2>2
  <2> HIDE DEF F, G, H
  <2> QED  BY <2>3, <2>4, <2>5
<1>6. PICK it : PickFold(it, n, x, p)
  BY <1>1, <1>2, PickFoldExists
<1>7. fold = F(fold)
  <2>1. it = F(it)
    BY <1>5, <1>6
  <2> HIDE DEF F
  <2> QED  BY <2>1
<1>8. PickFold(fold, n, x, p)
  <2> HIDE DEF F, fold
  <2> QED  BY <1>5, <1>7
<1>9. PicksTo(fold[1..n], n, T, x, p)
  <2> HIDE DEF F, fold
  <2> QED  BY <1>1, <1>2, <1>8, PickFoldPicks
<1> HIDE DEF F, fold
<1>10. PicksTo(Found(ks), n, T, x, p)
  BY <1>4, <1>9
<1>11. p \in [1..n -> BOOLEAN] /\ x \in [1..n -> T]
  BY <1>2
<1> QED  BY <1>10, <1>11, Zenon DEF n, x, p, T


(* The reply to mget is picked from the answers to it.                     *)
LEMMA ReplyPicks ==
  ASSUME RowsOK, NEW ks \in Requests
  PROVE  /\ There(ks) \in [1..Len(ks) -> BOOLEAN]
         /\ MGet(ks) \in [1..Len(ks) -> Value \cup {NoValue}]
         /\ PicksTo(MGetReply(ks), Len(ks), Value \cup {NoValue}, MGet(ks), There(ks))
<1> DEFINE n == Len(ks)
           x == MGet(ks)
           p == There(ks)
           T == Value \cup {NoValue}
           F(it) == [t \in SUBSET (1..n) |->
                       IF t = {} THEN <<>>
                       ELSE IF x[Max(t)] # NoValue
                            THEN Append(it[t \ {Max(t)}], x[Max(t)])
                            ELSE it[t \ {Max(t)}]]
           fold == CHOOSE it : it = F(it)
<1>1. n \in Nat /\ DOMAIN ks = 1..n /\ ks \in [1..n -> Key]
  BY RequestsAre
<1>2. p \in [1..n -> BOOLEAN] /\ x \in [1..n -> T] /\ DOMAIN x = 1..n
  BY <1>1, GetAnswers DEF There, MGet
<1>3. \A i \in 1..n : p[i] <=> x[i] # NoValue
  BY <1>1 DEF There, MGet
<1>4. MGetReply(ks) = fold[1..n]
  <2> HIDE DEF x, n
  <2>1. DOMAIN x = 1..n
    BY <1>2
  <2> QED  BY <2>1 DEF MGetReply, FoldLeft, MapThenFoldSet, x
<1> HIDE DEF n, x, p, T
<1>5. ASSUME NEW it PROVE PickFold(it, n, x, p) <=> it = F(it)
  <2>1. ASSUME NEW t \in SUBSET (1..n), t # {}
        PROVE  p[Max(t)] <=> x[Max(t)] # NoValue
    <3>1. Max(t) \in 1..n
      BY <1>1, <2>1, MaxOf
    <3> QED  BY <1>3, <3>1
  <2> DEFINE G(t) == IF t = {} THEN <<>>
                     ELSE IF p[Max(t)] THEN Append(it[t \ {Max(t)}], x[Max(t)])
                     ELSE it[t \ {Max(t)}]
             H(t) == IF t = {} THEN <<>>
                     ELSE IF x[Max(t)] # NoValue
                     THEN Append(it[t \ {Max(t)}], x[Max(t)])
                     ELSE it[t \ {Max(t)}]
  <2>2. \A t \in SUBSET (1..n) : G(t) = H(t)
    BY <2>1
  <2>3. PickFold(it, n, x, p) <=> it = [t \in SUBSET (1..n) |-> G(t)]
    BY DEF PickFold
  <2>4. F(it) = [t \in SUBSET (1..n) |-> H(t)]
    OBVIOUS
  <2>5. [t \in SUBSET (1..n) |-> G(t)] = [t \in SUBSET (1..n) |-> H(t)]
    <3> HIDE DEF G, H
    <3> QED  BY <2>2
  <2> HIDE DEF F, G, H
  <2> QED  BY <2>3, <2>4, <2>5
<1>6. PICK it : PickFold(it, n, x, p)
  BY <1>1, <1>2, PickFoldExists
<1>7. fold = F(fold)
  <2>1. it = F(it)
    BY <1>5, <1>6
  <2> HIDE DEF F
  <2> QED  BY <2>1
<1>8. PickFold(fold, n, x, p)
  <2> HIDE DEF F, fold
  <2> QED  BY <1>5, <1>7
<1>9. PicksTo(fold[1..n], n, T, x, p)
  <2> HIDE DEF F, fold
  <2> QED  BY <1>1, <1>2, <1>8, PickFoldPicks
<1> HIDE DEF F, fold
<1>10. PicksTo(MGetReply(ks), n, T, x, p)
  BY <1>4, <1>9
<1>11. p \in [1..n -> BOOLEAN] /\ x \in [1..n -> T]
  BY <1>2
<1> QED  BY <1>10, <1>11, Zenon DEF n, x, p, T

(* Those among the rows whose keys are requested.                          *)
Asked(ks) == [i \in DOMAIN rows |-> Contains(ks, KeyOf(rows[i]))]

(* The rows of display are picked from the table, by their keys.           *)
LEMMA DisplayPicks ==
  ASSUME RowsOK, NEW ks \in Requests
  PROVE  /\ Asked(ks) \in [1..Len(rows) -> BOOLEAN]
         /\ rows \in [1..Len(rows) -> Key \X Value]
         /\ PicksTo(Display(ks), Len(rows), Key \X Value, rows, Asked(ks))
<1> DEFINE n == Len(rows)
           x == rows
           p == Asked(ks)
           T == Key \X Value
           F(it) == [t \in SUBSET (1..n) |->
                       IF t = {} THEN <<>>
                       ELSE IF Contains(ks, KeyOf(x[Max(t)]))
                            THEN Append(it[t \ {Max(t)}], x[Max(t)])
                            ELSE it[t \ {Max(t)}]]
           fold == CHOOSE it : it = F(it)
<1>1. n \in Nat /\ DOMAIN rows = 1..n /\ rows \in [1..n -> T]
  BY LenProperties DEF RowsOK
<1>2. p \in [1..n -> BOOLEAN] /\ x \in [1..n -> T] /\ DOMAIN x = 1..n
  BY <1>1 DEF Asked, Contains
<1>3. \A i \in 1..n : p[i] <=> Contains(ks, KeyOf(x[i]))
  BY <1>1 DEF Asked
<1>4. Display(ks) = fold[1..n]
  <2> HIDE DEF x, n
  <2>1. DOMAIN x = 1..n
    BY <1>2
  <2> QED  BY <2>1 DEF Display, FoldLeft, MapThenFoldSet, x
<1> HIDE DEF n, x, p, T
<1>5. ASSUME NEW it PROVE PickFold(it, n, x, p) <=> it = F(it)
  <2>1. ASSUME NEW t \in SUBSET (1..n), t # {}
        PROVE  p[Max(t)] <=> Contains(ks, KeyOf(x[Max(t)]))
    <3>1. Max(t) \in 1..n
      BY <1>1, <2>1, MaxOf
    <3> QED  BY <1>3, <3>1
  <2> DEFINE G(t) == IF t = {} THEN <<>>
                     ELSE IF p[Max(t)] THEN Append(it[t \ {Max(t)}], x[Max(t)])
                     ELSE it[t \ {Max(t)}]
             H(t) == IF t = {} THEN <<>>
                     ELSE IF Contains(ks, KeyOf(x[Max(t)]))
                     THEN Append(it[t \ {Max(t)}], x[Max(t)])
                     ELSE it[t \ {Max(t)}]
  <2>2. \A t \in SUBSET (1..n) : G(t) = H(t)
    BY <2>1
  <2>3. PickFold(it, n, x, p) <=> it = [t \in SUBSET (1..n) |-> G(t)]
    BY DEF PickFold
  <2>4. F(it) = [t \in SUBSET (1..n) |-> H(t)]
    OBVIOUS
  <2>5. [t \in SUBSET (1..n) |-> G(t)] = [t \in SUBSET (1..n) |-> H(t)]
    <3> HIDE DEF G, H
    <3> QED  BY <2>2
  <2> HIDE DEF F, G, H
  <2> QED  BY <2>3, <2>4, <2>5
<1>6. PICK it : PickFold(it, n, x, p)
  BY <1>1, <1>2, PickFoldExists
<1>7. fold = F(fold)
  <2>1. it = F(it)
    BY <1>5, <1>6
  <2> HIDE DEF F
  <2> QED  BY <2>1
<1>8. PickFold(fold, n, x, p)
  <2> HIDE DEF F, fold
  <2> QED  BY <1>5, <1>7
<1>9. PicksTo(fold[1..n], n, T, x, p)
  <2> HIDE DEF F, fold
  <2> QED  BY <1>1, <1>2, <1>8, PickFoldPicks
<1> HIDE DEF F, fold
<1>10. PicksTo(Display(ks), n, T, x, p)
  BY <1>4, <1>9
<1>11. p \in [1..n -> BOOLEAN] /\ x \in [1..n -> T]
  BY <1>2
<1> QED  BY <1>10, <1>11, Zenon DEF n, x, p, T


(* A function is what it maps each argument to.                            *)
LEMMA SameFunction ==
  ASSUME NEW D, NEW U, NEW f \in [D -> U], NEW g \in [D -> U], \A j \in D : f[j] = g[j]
  PROVE  f = g
OBVIOUS

(* The values of a sequence of pairs.                                      *)
ValuesOf(s) == [i \in DOMAIN s |-> ValueOf(s[i])]

(* Picking from the values of pairs is taking the values of what is        *)
(* picked from the pairs.                                                  *)
LEMMA PicksValues ==
  ASSUME NEW n \in Nat, NEW T, NEW U, NEW x \in [1..n -> T], NEW y \in [1..n -> U],
         NEW p \in [1..n -> BOOLEAN], NEW r, NEW q,
         Picks(r, n, T, x, p), Picks(q, n, U, y, p),
         \A i \in 1..n : y[i] = ValueOf(x[i])
  PROVE  q[n] = ValuesOf(r[n])
<1> DEFINE S == {i \in 0..n : q[i] = ValuesOf(r[i])}
<1>1. r \in [0..n -> Seq(T)] /\ r[0] = <<>> /\ q \in [0..n -> Seq(U)] /\ q[0] = <<>>
  BY DEF Picks
<1>2. 0 \in S
  <2>1. DOMAIN r[0] = 1..0 /\ 1..0 = {} /\ 0 \in 0..n
    <3>1. r[0] \in Seq(T) /\ Len(r[0]) = 0
      BY <1>1
    <3>2. DOMAIN r[0] = 1..Len(r[0])
      BY <3>1, LenProperties
    <3>3. 1..0 = {} /\ 0 \in 0..n
      OBVIOUS
    <3> QED  BY <3>1, <3>2, <3>3
  <2>2. ValuesOf(r[0]) \in [1..0 -> U]
    BY <2>1 DEF ValuesOf
  <2>3. ValuesOf(r[0]) \in Seq(U) /\ Len(ValuesOf(r[0])) = 0
    BY <2>2
  <2>4. ValuesOf(r[0]) = <<>>
    BY <2>3, EmptySeq
  <2> QED  BY <1>1, <2>1, <2>4
<1>3. ASSUME NEW i \in 1..n, i - 1 \in S PROVE i \in S
  <2>1. i - 1 \in 0..n /\ i \in 0..n /\ r[i - 1] \in Seq(T) /\ x[i] \in T
    <3> HIDE DEF S
    <3>1. i - 1 \in 0..n /\ i \in 0..n
      OBVIOUS
    <3> QED  BY <1>1, <3>1
  <2>2. q[i - 1] = ValuesOf(r[i - 1]) /\ q[i - 1] \in Seq(U) /\ y[i] \in U
    BY <1>1, <1>3, <2>1
  <2>3. CASE p[i]
    <3> DEFINE s == r[i - 1]
               m == Len(s)
    <3>1. r[i] = Append(s, x[i]) /\ q[i] = Append(q[i - 1], y[i])
      BY <2>3 DEF Picks
    <3>2. s \in Seq(T) /\ m \in Nat /\ DOMAIN s = 1..m
      BY <2>1, LenProperties
    <3>3. q[i - 1] = ValuesOf(s)
      BY <2>2
    <3> HIDE DEF s, m
    <3>4. DOMAIN ValuesOf(s) = 1..m /\ \A j \in 1..m : ValuesOf(s)[j] = ValueOf(s[j])
      BY <3>2 DEF ValuesOf
    <3>5. Len(q[i - 1]) = m
      BY <2>2, <3>2, <3>3, <3>4
    <3>6. /\ DOMAIN q[i] = 1..(m + 1)
          /\ \A j \in 1..m : q[i][j] = q[i - 1][j]
          /\ q[i][m + 1] = y[i]
      BY <2>2, <3>1, <3>5
    <3>7. /\ DOMAIN r[i] = 1..(m + 1)
          /\ \A j \in 1..m : r[i][j] = s[j]
          /\ r[i][m + 1] = x[i]
      BY <2>1, <3>1, <3>2 DEF m
    <3>8. DOMAIN ValuesOf(r[i]) = 1..(m + 1) /\ \A j \in 1..(m + 1) : ValuesOf(r[i])[j] = ValueOf(r[i][j])
      BY <3>7 DEF ValuesOf
    <3>9. \A j \in 1..(m + 1) : q[i][j] = ValuesOf(r[i])[j]
      <4> SUFFICES ASSUME NEW j \in 1..(m + 1) PROVE q[i][j] = ValuesOf(r[i])[j]
        OBVIOUS
      <4>1. j \in 1..m \/ j = m + 1
        BY <3>2
      <4>2. CASE j \in 1..m
        BY <3>3, <3>4, <3>6, <3>7, <3>8, <4>2, Zenon
      <4>3. CASE j = m + 1
        <5>1. r[i][j] = x[i] /\ q[i][j] = y[i] /\ ValuesOf(r[i])[j] = ValueOf(r[i][j])
          BY <3>6, <3>7, <3>8, <4>3, Zenon
        <5> QED  BY <2>3, <5>1
      <4> QED  BY <4>1, <4>2, <4>3
    <3>10. q[i] \in [1..(m + 1) -> U]
      <4>1. q[i] \in Seq(U)
        BY <1>1, <2>1
      <4> QED  BY <3>6, <4>1, LenProperties
    <3>11. ValuesOf(r[i]) \in [1..(m + 1) -> U]
      <4>1. ASSUME NEW j \in 1..(m + 1) PROVE ValueOf(r[i][j]) \in U
        <5>1. q[i][j] \in U
          BY <3>10, Zenon
        <5>2. q[i][j] = ValueOf(r[i][j])
          BY <3>8, <3>9, Zenon
        <5> QED  BY <5>1, <5>2, Zenon
      <4>2. ValuesOf(r[i]) = [j \in 1..(m + 1) |-> ValueOf(r[i][j])]
        BY <3>7, Zenon DEF ValuesOf
      <4> QED  BY <4>1, <4>2, Zenon
    <3>12. q[i] = ValuesOf(r[i])
      <4> DEFINE D == 1..(m + 1)
                 f == q[i]
                 g == ValuesOf(r[i])
      <4>1. f \in [D -> U] /\ g \in [D -> U] /\ \A j \in D : f[j] = g[j]
        BY <3>9, <3>10, <3>11
      <4> HIDE DEF D, f, g
      <4>2. f = g
        BY <4>1, SameFunction
      <4> QED  BY <4>2 DEF f, g
    <3> QED  BY <2>1, <3>12
  <2>4. CASE ~p[i]
    <3>1. r[i] = r[i - 1] /\ q[i] = q[i - 1]
      BY <2>4 DEF Picks
    <3> QED  BY <2>1, <2>2, <3>1
  <2> QED  BY <2>3, <2>4
<1>4. \A i \in 0..n : i \in S
  <2> HIDE DEF S
  <2> QED  BY <1>2, <1>3, Counting
<1>5. n \in 0..n
  OBVIOUS
<1> QED  BY <1>4, <1>5

(* The rows that display shows are the pairs that getItems finds.          *)
LEMMA SameRows ==
  ASSUME RowsOK, NEW ks \in Requests
  PROVE  Wanted(Len(rows), rows, Asked(ks)) = Wanted(Len(ks), GetItems(ks), There(ks))
<1>1. Len(ks) \in Nat /\ DOMAIN ks = 1..Len(ks) /\ ks \in [1..Len(ks) -> Key]
  BY RequestsAre
<1>2. DOMAIN rows = 1..Len(rows) /\ rows \in [1..Len(rows) -> Key \X Value]
  BY LenProperties DEF RowsOK
<1> DEFINE A == {rows[i] : i \in {j \in 1..Len(rows) : Asked(ks)[j]}}
           B == {GetItems(ks)[i] : i \in {j \in 1..Len(ks) : There(ks)[j]}}
<1>3. ASSUME NEW i \in 1..Len(rows), Asked(ks)[i] PROVE rows[i] \in B
  <2>1. PICK j \in 1..Len(ks) : ks[j] = KeyOf(rows[i])
    BY <1>2, <1>3 DEF Asked, Contains
  <2>2. ks[j] \in Key
    BY <1>1
  <2>3. rows[i] = <<ks[j], Get(ks[j])>>
    BY <1>2, <2>1, <2>2, GetAnswers
  <2>4. Get(ks[j]) # NoValue
    <3>1. rows[i] \in Key \X Value
      BY <1>2
    <3>2. Get(ks[j]) \in Value
      BY <2>3, <3>1
    <3> QED  BY <3>2, QueryAssumption
  <2>5. GetItems(ks)[j] = rows[i] /\ There(ks)[j]
    BY <1>1, <2>3, <2>4 DEF GetItems, There
  <2> QED  BY <2>5
<1>4. ASSUME NEW j \in 1..Len(ks), There(ks)[j] PROVE GetItems(ks)[j] \in A
  <2>1. ks[j] \in Key /\ Get(ks[j]) # NoValue /\ GetItems(ks)[j] = <<ks[j], Get(ks[j])>>
    BY <1>1, <1>4 DEF There, GetItems
  <2>2. PICK i \in DOMAIN rows : KeyOf(rows[i]) = ks[j]
    BY <2>1, GetAnswers
  <2>3. rows[i] = GetItems(ks)[j]
    BY <2>1, <2>2, GetAnswers
  <2>4. Contains(ks, KeyOf(rows[i]))
    BY <2>2 DEF Contains
  <2>5. i \in 1..Len(rows) /\ Asked(ks)[i]
    BY <1>2, <2>2, <2>4 DEF Asked
  <2> QED  BY <2>3, <2>5
<1> QED  BY <1>3, <1>4 DEF Wanted

(* No two rows are the same.                                               *)
LEMMA RowsDiffer ==
  ASSUME RowsOK
  PROVE  \A i, j \in 1..Len(rows) : rows[i] = rows[j] => i = j
<1>1. rows \in Seq(Key \X Value) /\ Distinct(rows)
  BY RowsDistinct DEF RowsOK, RowOf
<1> QED  BY <1>1 DEF Distinct

(* mget, getItems(keys) and display(keys) agree about what is there, in    *)
(* every table and for every request.                                      *)
THEOREM ReadsTellTheSame == Spec => []ReadsAgree
<1>1. ASSUME Inv PROVE ReadsAgree
  <2>1. RowsOK
    BY <1>1 DEF Inv
  <2>2. SUFFICES ASSUME NEW ks \in Requests
        PROVE  /\ MGetReply(ks) = [i \in DOMAIN Found(ks) |-> ValueOf(Found(ks)[i])]
               /\ Range(Display(ks)) = Range(Found(ks))
               /\ Len(Display(ks)) = Cardinality(Range(Found(ks)))
    BY DEF ReadsAgree
  <2> DEFINE n == Len(ks)
             P == Key \X (Value \cup {NoValue})
             V == Value \cup {NoValue}
             m == Len(rows)
  <2>3. n \in Nat /\ DOMAIN ks = 1..n /\ m \in Nat
    BY <2>1, RequestsAre, LenProperties DEF RowsOK
  <2>4. /\ There(ks) \in [1..n -> BOOLEAN]
        /\ GetItems(ks) \in [1..n -> P]
        /\ PicksTo(Found(ks), n, P, GetItems(ks), There(ks))
    BY <2>1, FoundPicks
  <2>5. MGet(ks) \in [1..n -> V] /\ PicksTo(MGetReply(ks), n, V, MGet(ks), There(ks))
    BY <2>1, ReplyPicks
  <2>6. /\ Asked(ks) \in [1..m -> BOOLEAN]
        /\ rows \in [1..m -> Key \X Value]
        /\ PicksTo(Display(ks), m, Key \X Value, rows, Asked(ks))
    BY <2>1, DisplayPicks
  <2>7. \A i \in 1..n : MGet(ks)[i] = ValueOf(GetItems(ks)[i])
    BY <2>3 DEF MGet, GetItems, ValueOf
  <2>8. Wanted(m, rows, Asked(ks)) = Wanted(n, GetItems(ks), There(ks))
    BY <2>1, SameRows
  <2>9. \A i, j \in 1..m : rows[i] = rows[j] => i = j
    BY <2>1, RowsDiffer
  <2> HIDE DEF n, m, P, V
  <2>10. PICK r : Picks(r, n, P, GetItems(ks), There(ks)) /\ r[n] = Found(ks)
    BY <2>4 DEF PicksTo
  <2>11. PICK q : Picks(q, n, V, MGet(ks), There(ks)) /\ q[n] = MGetReply(ks)
    BY <2>5 DEF PicksTo
  <2>12. PICK d : Picks(d, m, Key \X Value, rows, Asked(ks)) /\ d[m] = Display(ks)
    BY <2>6 DEF PicksTo
  <2>13. q[n] = ValuesOf(r[n])
    BY <2>3, <2>4, <2>5, <2>7, <2>10, <2>11, PicksValues
  <2>14. Range(r[n]) = Wanted(n, GetItems(ks), There(ks))
    BY <2>3, <2>4, <2>10, PicksWanted
  <2>15. Range(d[m]) = Wanted(m, rows, Asked(ks))
    BY <2>3, <2>6, <2>12, PicksWanted
  <2>16. Len(d[m]) = Cardinality(Range(d[m]))
    BY <2>3, <2>6, <2>9, <2>12, PicksDiffer
  <2> QED  BY <2>8, <2>10, <2>11, <2>12, <2>13, <2>14, <2>15, <2>16 DEF ValuesOf
<1> QED  BY <1>1, Invariant, PTL

-----------------------------------------------------------------------------
(* What lines consist of, the words and the state of their reader.         *)
Chars     == Letter \cup Op \cup {Quote, Space}
Ink       == Chars \ {Space}
Word      == Seq(Ink) \ {<<>>}
ReadState == [all : Seq(Word), word : Seq(Ink)]
ReadStart == [all |-> <<>>, word |-> <<>>]

(* A reader's step leaves it with words.                                   *)
LEMMA ReadTypes ==
  ASSUME NEW a \in ReadState
  PROVE  /\ Finish(a) \in ReadState
         /\ \A c \in Chars : Read(a, c) \in ReadState
<1>1. a.all \in Seq(Word) /\ a.word \in Seq(Ink)
      /\ a = [all |-> a.all, word |-> a.word]
  BY DEF ReadState
<1>2. Finish(a) \in ReadState
  <2>1. CASE a.word = <<>>
    BY <2>1 DEF Finish
  <2>2. CASE a.word # <<>>
    <3>1. a.word \in Word
      BY <1>1, <2>2 DEF Word
    <3>2. Append(a.all, a.word) \in Seq(Word)
      BY <1>1, <3>1
    <3>3. <<>> \in Seq(Ink)
      OBVIOUS
    <3> QED  BY <2>2, <3>2, <3>3 DEF Finish, ReadState
  <2> QED  BY <2>1, <2>2
<1>3. ASSUME NEW c \in Chars PROVE Read(a, c) \in ReadState
  <2>1. CASE c = Space
    BY <1>2, <2>1 DEF Read
  <2>2. CASE c # Space
    <3>1. c \in Ink
      BY <2>2 DEF Ink
    <3>2. Append(a.word, c) \in Seq(Ink)
      BY <1>1, <3>1
    <3>3. Read(a, c) = [all |-> a.all, word |-> Append(a.word, c)]
      BY <1>1, <2>2 DEF Read
    <3> QED  BY <1>1, <3>2, <3>3 DEF ReadState
  <2> QED  BY <2>1, <2>2
<1> QED  BY <1>2, <1>3

(* r is what has been read after each character of s, and v the words.     *)
Reads(r, s) ==
  /\ r \in [0..Len(s) -> ReadState]
  /\ r[0] = ReadStart
  /\ \A i \in 1..Len(s) : r[i] = Read(r[i - 1], s[i])

ReadsTo(v, s) == \E r : Reads(r, s) /\ Finish(r[Len(s)]).all = v

(* The fold over a line is such a run.                                     *)
LEMMA WordsRun ==
  ASSUME NEW s \in Seq(Chars)
  PROVE  ReadsTo(Words(s), s)
<1> DEFINE n == Len(s)
           step == [y \in ReadState \X (1..n) |-> Read(y[1], s[y[2]])]
           F(it) == [t \in SUBSET (1..n) |->
                       IF t = {} THEN ReadStart ELSE Read(it[t \ {Max(t)}], s[Max(t)])]
           fold == CHOOSE it : it = F(it)
           r == [i \in 0..n |-> fold[1..i]]
<1>1. n \in Nat /\ DOMAIN s = 1..n /\ s \in [1..n -> Chars]
  BY LenProperties
<1>2. ReadStart \in ReadState
  <2>1. <<>> \in Seq(Word) /\ <<>> \in Seq(Ink)
    OBVIOUS
  <2> QED  BY <2>1 DEF ReadStart, ReadState
<1>3. FoldLeft(Read, ReadStart, s) = fold[1..n]
  <2> HIDE DEF n
  <2> QED  BY <1>1 DEF FoldLeft, MapThenFoldSet
<1> HIDE DEF n
<1>4. step \in [ReadState \X (1..n) -> ReadState]
  <2>1. ASSUME NEW y \in ReadState \X (1..n) PROVE Read(y[1], s[y[2]]) \in ReadState
    <3>1. y[1] \in ReadState /\ s[y[2]] \in Chars
      BY <1>1
    <3> QED  BY <3>1, ReadTypes
  <2> QED  BY <2>1
<1>5. PICK it \in [SUBSET (1..n) -> ReadState] : Folds(it, n, ReadStart, step)
  <2> HIDE DEF step
  <2> QED  BY <1>1, <1>2, <1>4, FoldExists
<1>6. it = F(it)
  <2>1. ASSUME NEW t \in SUBSET (1..n), t # {}
        PROVE  step[<<it[t \ {Max(t)}], Max(t)>>] = Read(it[t \ {Max(t)}], s[Max(t)])
    <3>1. Max(t) \in 1..n
      BY <1>1, <2>1, MaxOf
    <3>2. it[t \ {Max(t)}] \in ReadState
      OBVIOUS
    <3> QED  BY <3>1, <3>2
  <2> HIDE DEF step
  <2> DEFINE G(t) == IF t = {} THEN ReadStart ELSE step[<<it[t \ {Max(t)}], Max(t)>>]
             H(t) == IF t = {} THEN ReadStart ELSE Read(it[t \ {Max(t)}], s[Max(t)])
  <2>2. \A t \in SUBSET (1..n) : G(t) = H(t)
    BY <2>1
  <2>3. it = [t \in SUBSET (1..n) |-> G(t)]
    BY <1>5 DEF Folds
  <2>4. it = [t \in SUBSET (1..n) |-> H(t)]
    <3> HIDE DEF G, H
    <3> QED  BY <2>2, <2>3
  <2> QED  BY <2>4
<1>7. fold = F(fold)
  <2> HIDE DEF F
  <2> QED  BY <1>6
<1>8. fold[1..0] = ReadStart
  <2>1. 1..0 = {} /\ 1..0 \in SUBSET (1..n)
    OBVIOUS
  <2> HIDE DEF fold
  <2> QED  BY <1>7, <2>1
<1>9. ASSUME NEW i \in 1..n PROVE fold[1..i] = Read(fold[1..(i - 1)], s[i])
  <2>1. Max(1..i) = i /\ (1..i) \ {i} = 1..(i - 1) /\ 1..i # {} /\ 1..i \in SUBSET (1..n)
    BY <1>1, MaxOfFirst
  <2> HIDE DEF fold
  <2>2. fold[1..i] = Read(fold[(1..i) \ {Max(1..i)}], s[Max(1..i)])
    BY <1>7, <2>1
  <2> QED  BY <2>1, <2>2
<1> DEFINE S == {i \in 0..n : fold[1..i] \in ReadState}
<1>10. \A i \in 0..n : i \in S
  <2> HIDE DEF fold
  <2>1. 0 \in S
    BY <1>1, <1>2, <1>8
  <2>2. ASSUME NEW i \in 1..n, i - 1 \in S PROVE i \in S
    <3>1. fold[1..(i - 1)] \in ReadState /\ s[i] \in Chars /\ i \in 0..n
      BY <1>1, <2>2
    <3>2. fold[1..i] \in ReadState
      BY <1>9, <3>1, ReadTypes
    <3> QED  BY <3>1, <3>2
  <2> HIDE DEF S
  <2> QED  BY <1>1, <2>1, <2>2, Counting
<1> HIDE DEF fold
<1>11. r \in [0..n -> ReadState]
  BY <1>10
<1>12. \A i \in 0..n : r[i] = fold[1..i]
  OBVIOUS
<1>13. 0 \in 0..n /\ n \in 0..n /\ \A i \in 1..n : i \in 0..n /\ i - 1 \in 0..n
  BY <1>1
<1> HIDE DEF r
<1>14. r[0] = ReadStart /\ \A i \in 1..n : r[i] = Read(r[i - 1], s[i])
  BY <1>8, <1>9, <1>12, <1>13
<1>15. Reads(r, s)
  BY <1>11, <1>14 DEF Reads, n
<1>16. Words(s) = Finish(r[n]).all
  BY <1>3, <1>12, <1>13 DEF Words, ReadStart
<1> QED  BY <1>15, <1>16 DEF ReadsTo, n


(* How the beginnings of a sequence grow.                                  *)
LEMMA Beginnings ==
  ASSUME NEW T, NEW s \in Seq(T)
  PROVE  /\ SubSeq(s, 1, 0) = <<>> /\ SubSeq(s, 1, Len(s)) = s
         /\ \A i \in 0..Len(s) : SubSeq(s, 1, i) \in Seq(T) /\ Len(SubSeq(s, 1, i)) = i
         /\ \A i \in 1..Len(s) : SubSeq(s, 1, i) = Append(SubSeq(s, 1, i - 1), s[i])
<1>1. Len(s) \in Nat /\ DOMAIN s = 1..Len(s) /\ s \in [1..Len(s) -> T]
  BY LenProperties
<1>2. ASSUME NEW i \in 0..Len(s)
      PROVE  /\ SubSeq(s, 1, i) \in Seq(T) /\ Len(SubSeq(s, 1, i)) = i
             /\ \A j \in 1..i : SubSeq(s, 1, i)[j] = s[j]
  <2>1. i \in Int /\ 1 \in Int /\ \A j \in 1..i : s[j] \in T
    BY <1>1
  <2>2. /\ SubSeq(s, 1, i) \in Seq(T)
        /\ Len(SubSeq(s, 1, i)) = IF 1 <= i THEN i - 1 + 1 ELSE 0
        /\ \A j \in 1..(i - 1 + 1) : SubSeq(s, 1, i)[j] = s[1 + j - 1]
    BY <2>1, SubSeqProperties
  <2>3. i - 1 + 1 = i /\ \A j \in 1..i : 1 + j - 1 = j
    BY <1>1
  <2>4. \A j \in 1..i : SubSeq(s, 1, i)[j] = s[j]
    BY <2>2, <2>3
  <2>5. Len(SubSeq(s, 1, i)) = i
    BY <1>1, <2>2
  <2> QED  BY <2>2, <2>4, <2>5
<1>3. SubSeq(s, 1, 0) = <<>>
  BY SubSeqEmpty
<1>4. SubSeq(s, 1, Len(s)) = s
  <2>1. Len(s) \in 0..Len(s)
    BY <1>1
  <2>2. SubSeq(s, 1, Len(s)) \in [1..Len(s) -> T]
    BY <1>2, <2>1, LenProperties
  <2> QED  BY <1>1, <1>2, <2>1, <2>2
<1>5. ASSUME NEW i \in 1..Len(s)
      PROVE  SubSeq(s, 1, i) = Append(SubSeq(s, 1, i - 1), s[i])
  <2> DEFINE a == SubSeq(s, 1, i)
             b == SubSeq(s, 1, i - 1)
             c == Append(b, s[i])
  <2>1. i \in 0..Len(s) /\ i - 1 \in 0..Len(s) /\ s[i] \in T
    BY <1>1
  <2>2. a \in Seq(T) /\ Len(a) = i /\ \A j \in 1..i : a[j] = s[j]
    BY <1>2, <2>1
  <2>3. b \in Seq(T) /\ Len(b) = i - 1 /\ \A j \in 1..(i - 1) : b[j] = s[j]
    BY <1>2, <2>1
  <2> HIDE DEF a, b
  <2>4. c \in Seq(T) /\ Len(c) = i /\ \A j \in 1..i : c[j] = s[j]
    <3>1. c \in Seq(T) /\ Len(c) = Len(b) + 1
      BY <2>1, <2>3
    <3>2. \A j \in 1..(i - 1) : c[j] = b[j]
      BY <2>1, <2>3
    <3>3. c[i] = s[i]
      BY <2>1, <2>3
    <3>4. \A j \in 1..i : j \in 1..(i - 1) \/ j = i
      BY <2>1
    <3> HIDE DEF c
    <3> QED  BY <2>1, <2>3, <3>1, <3>2, <3>3, <3>4
  <2> HIDE DEF c
  <2>5. a \in [1..i -> T] /\ c \in [1..i -> T]
    BY <2>2, <2>4, LenProperties
  <2>6. a = c
    BY <2>2, <2>4, <2>5, SameFunction
  <2> QED  BY <2>6 DEF a, c, b
<1> QED  BY <1>2, <1>3, <1>4, <1>5

(* Words are words.                                                        *)
LEMMA WordsTypes ==
  ASSUME NEW s \in Seq(Chars)
  PROVE  Words(s) \in Seq(Word)
<1>1. PICK r : Reads(r, s) /\ Finish(r[Len(s)]).all = Words(s)
  BY WordsRun DEF ReadsTo
<1>2. Len(s) \in 0..Len(s)
  BY LenProperties
<1>3. Finish(r[Len(s)]) \in ReadState
  BY <1>1, <1>2, ReadTypes DEF Reads
<1> QED  BY <1>1, <1>3 DEF ReadState

(* What a character does to the reader.                                    *)
LEMMA ReadOne ==
  ASSUME NEW x, NEW q, NEW c
  PROVE  /\ c # Space => Read([all |-> x, word |-> q], c) = [all |-> x, word |-> Append(q, c)]
         /\ c = Space => Read([all |-> x, word |-> q], c) = Finish([all |-> x, word |-> q])
BY DEF Read

(* A word is its only word.                                                *)
LEMMA WordsOfWord ==
  ASSUME NEW w \in Seq(Ink)
  PROVE  Words(w) = IF w = <<>> THEN <<>> ELSE <<w>>
<1>1. w \in Seq(Chars) /\ \A i \in 1..Len(w) : w[i] \in Ink /\ w[i] # Space
  <2>1. Ink \subseteq Chars /\ Space \notin Ink
    BY DEF Ink
  <2>2. Len(w) \in Nat /\ w \in [1..Len(w) -> Ink]
    BY LenProperties
  <2>3. \A i \in 1..Len(w) : w[i] \in Ink
    BY <2>2
  <2>4. w \in [1..Len(w) -> Chars]
    BY <2>1, <2>2, <2>3
  <2>5. w \in Seq(Chars)
    BY <2>2, <2>4
  <2> QED  BY <2>1, <2>3, <2>5
<1>2. PICK r : Reads(r, w) /\ Finish(r[Len(w)]).all = Words(w)
  BY <1>1, WordsRun DEF ReadsTo
<1> DEFINE n == Len(w)
           S == {i \in 0..n : r[i] = [all |-> <<>>, word |-> SubSeq(w, 1, i)]}
<1>3. n \in Nat
  BY LenProperties
<1>4. 0 \in S
  <2>1. SubSeq(w, 1, 0) = <<>>
    BY Beginnings
  <2>2. r[0] = [all |-> <<>>, word |-> <<>>]
    BY <1>2, Zenon DEF Reads, ReadStart
  <2> QED  BY <1>3, <2>1, <2>2
<1>5. ASSUME NEW i \in 1..n, i - 1 \in S PROVE i \in S
  <2>1. r[i] = Read(r[i - 1], w[i]) /\ w[i] # Space /\ i \in 0..n
    BY <1>1, <1>2 DEF Reads
  <2>2. r[i - 1] = [all |-> <<>>, word |-> SubSeq(w, 1, i - 1)]
    BY <1>5
  <2>3. Read(r[i - 1], w[i]) = [all |-> <<>>, word |-> Append(SubSeq(w, 1, i - 1), w[i])]
    <3>1. Read([all |-> <<>>, word |-> SubSeq(w, 1, i - 1)], w[i])
            = [all |-> <<>>, word |-> Append(SubSeq(w, 1, i - 1), w[i])]
      <4> HIDE DEF S
      <4> QED  BY <2>1, ReadOne
    <3> HIDE DEF S
    <3> QED  BY <2>2, <3>1
  <2>4. SubSeq(w, 1, i) = Append(SubSeq(w, 1, i - 1), w[i])
    <3> HIDE DEF S
    <3>1. i \in 1..Len(w)
      OBVIOUS
    <3>2. \A j \in 1..Len(w) : SubSeq(w, 1, j) = Append(SubSeq(w, 1, j - 1), w[j])
      BY Beginnings
    <3> QED  BY <3>1, <3>2
  <2> QED  BY <2>1, <2>3, <2>4
<1>6. n \in S
  <2> HIDE DEF S
  <2>1. \A i \in 0..n : i \in S
    BY <1>3, <1>4, <1>5, Counting
  <2> QED  BY <1>3, <2>1
<1>7. r[n] = [all |-> <<>>, word |-> w]
  BY <1>6, Beginnings
<1>8. Words(w) = Finish([all |-> <<>>, word |-> w]).all
  BY <1>2, <1>7
<1> QED  BY <1>8 DEF Finish


(* Two sequences with a space between.                                     *)
LEMMA JoinIs ==
  ASSUME NEW s \in Seq(Chars), NEW t \in Seq(Chars)
  PROVE  /\ Join(s, t) \in Seq(Chars)
         /\ Len(Join(s, t)) = Len(s) + 1 + Len(t)
         /\ \A i \in 1..Len(s) : Join(s, t)[i] = s[i]
         /\ Join(s, t)[Len(s) + 1] = Space
         /\ \A j \in 1..Len(t) : Join(s, t)[Len(s) + 1 + j] = t[j]
<1> DEFINE m == <<Space>>
           a == Len(s)
           b == Len(t)
           l == s \o m
<1>1. m \in Seq(Chars) /\ Len(m) = 1 /\ m[1] = Space
  BY DEF Chars
<1>2. a \in Nat /\ b \in Nat
  BY LenProperties
<1> HIDE DEF m
<1>3. /\ l \in Seq(Chars) /\ Len(l) = Len(s) + Len(m)
      /\ \A i \in 1..(Len(s) + Len(m)) : l[i] = IF i <= Len(s) THEN s[i] ELSE m[i - Len(s)]
  BY <1>1, ConcatProperties
<1>4. Len(l) = a + 1 /\ (\A i \in 1..a : l[i] = s[i]) /\ l[a + 1] = Space
  BY <1>1, <1>2, <1>3
<1> HIDE DEF l
<1>5. /\ l \o t \in Seq(Chars) /\ Len(l \o t) = Len(l) + Len(t)
      /\ \A i \in 1..(Len(l) + Len(t)) : (l \o t)[i] = IF i <= Len(l) THEN l[i] ELSE t[i - Len(l)]
  <2>1. l \in Seq(Chars)
    BY <1>3
  <2> QED  BY <2>1, ConcatProperties
<1> DEFINE u == l \o t
<1>6. u = Join(s, t)
  BY DEF Join, m, l
<1> HIDE DEF u
<1>7. u \in Seq(Chars) /\ Len(u) = a + 1 + b
  BY <1>2, <1>4, <1>5 DEF u
<1>8. \A i \in 1..(a + 1) : u[i] = l[i]
  BY <1>2, <1>4, <1>5 DEF u
<1>9. ASSUME NEW j \in 1..b PROVE u[a + 1 + j] = t[j]
  <2>1. a + 1 + j \in 1..(Len(l) + Len(t)) /\ ~(a + 1 + j <= Len(l)) /\ a + 1 + j - Len(l) = j
    BY <1>2, <1>4
  <2> QED  BY <1>5, <2>1 DEF u
<1>10. (\A i \in 1..a : u[i] = s[i]) /\ u[a + 1] = Space
  BY <1>2, <1>4, <1>8
<1> QED  BY <1>6, <1>7, <1>9, <1>10

(* A list of words in front of what a reader has found.                    *)
Behind(ws, a) == [all |-> ws \o a.all, word |-> a.word]

(* It stays there.                                                         *)
LEMMA BehindStays ==
  ASSUME NEW ws \in Seq(Word), NEW a \in ReadState
  PROVE  /\ Finish(Behind(ws, a)) = Behind(ws, Finish(a))
         /\ \A c \in Chars : Read(Behind(ws, a), c) = Behind(ws, Read(a, c))
<1>1. PICK x \in Seq(Word), q \in Seq(Ink) : a = [all |-> x, word |-> q]
  BY DEF ReadState
<1>2. Behind(ws, a) = [all |-> ws \o x, word |-> q]
  BY <1>1 DEF Behind
<1>3. Finish(Behind(ws, a)) = Behind(ws, Finish(a))
  <2>1. CASE q = <<>>
    BY <1>1, <1>2, <2>1 DEF Finish
  <2>2. CASE q # <<>>
    <3>1. q \in Word
      BY <2>2 DEF Word
    <3>2. /\ Append(x, q) = x \o <<q>> /\ <<q>> \in Seq(Word)
          /\ Append(ws \o x, q) = (ws \o x) \o <<q>>
      BY <3>1, AppendIsConcat
    <3>3. (ws \o x) \o <<q>> = ws \o (x \o <<q>>)
      BY <3>2, ConcatAssociative
    <3>4. Finish(a) = [all |-> Append(x, q), word |-> <<>>]
      BY <1>1, <2>2 DEF Finish
    <3>5. Finish(Behind(ws, a)) = [all |-> Append(ws \o x, q), word |-> <<>>]
      BY <1>2, <2>2 DEF Finish
    <3>6. Behind(ws, Finish(a)) = [all |-> ws \o Append(x, q), word |-> <<>>]
      BY <3>4 DEF Behind
    <3> QED  BY <3>2, <3>3, <3>5, <3>6
  <2> QED  BY <2>1, <2>2
<1>4. ASSUME NEW c \in Chars PROVE Read(Behind(ws, a), c) = Behind(ws, Read(a, c))
  <2>1. CASE c = Space
    BY <1>3, <2>1 DEF Read
  <2>2. CASE c # Space
    <3>1. Read(a, c) = [all |-> x, word |-> Append(q, c)]
      BY <1>1, <2>2, ReadOne
    <3>2. Read(Behind(ws, a), c) = [all |-> ws \o x, word |-> Append(q, c)]
      BY <1>2, <2>2, ReadOne
    <3> QED  BY <3>1, <3>2 DEF Behind
  <2> QED  BY <2>1, <2>2
<1> QED  BY <1>3, <1>4

(* The words on both sides of a space are those of the two sides.          *)
LEMMA WordsOfJoin ==
  ASSUME NEW s \in Seq(Chars), NEW t \in Seq(Chars)
  PROVE  Words(Join(s, t)) = Words(s) \o Words(t)
<1> DEFINE u == Join(s, t)
           a == Len(s)
           b == Len(t)
           ws == Words(s)
<1>1. a \in Nat /\ b \in Nat /\ (\A i \in 1..b : t[i] \in Chars) /\ ws \in Seq(Word)
  BY LenProperties, WordsTypes
<1>2. /\ u \in Seq(Chars) /\ Len(u) = a + 1 + b
      /\ (\A i \in 1..a : u[i] = s[i]) /\ u[a + 1] = Space
      /\ \A j \in 1..b : u[a + 1 + j] = t[j]
  BY JoinIs
<1> HIDE DEF u
<1>3. PICK r : Reads(r, s) /\ Finish(r[a]).all = ws
  BY WordsRun DEF ReadsTo
<1>4. PICK q : Reads(q, t) /\ Finish(q[b]).all = Words(t)
  BY WordsRun DEF ReadsTo
<1>5. PICK p : Reads(p, u) /\ Finish(p[Len(u)]).all = Words(u)
  BY <1>2, WordsRun DEF ReadsTo
<1> HIDE DEF a, b, ws
<1>6. /\ r \in [0..a -> ReadState] /\ r[0] = ReadStart
      /\ \A i \in 1..a : r[i] = Read(r[i - 1], s[i])
  BY <1>3 DEF Reads, a
<1>7. /\ q \in [0..b -> ReadState] /\ q[0] = ReadStart
      /\ \A i \in 1..b : q[i] = Read(q[i - 1], t[i])
  BY <1>4 DEF Reads, b
<1>8. p[0] = ReadStart /\ \A i \in 1..(a + 1 + b) : p[i] = Read(p[i - 1], u[i])
  BY <1>2, <1>5 DEF Reads
<1>9. p[a] = r[a]
  <2> DEFINE S == {i \in 0..a : p[i] = r[i]}
  <2>1. 0 \in S
    BY <1>1, <1>6, <1>8
  <2>2. ASSUME NEW i \in 1..a, i - 1 \in S PROVE i \in S
    <3>1. i \in 1..(a + 1 + b) /\ i \in 0..a
      BY <1>1
    <3> QED  BY <1>2, <1>6, <1>8, <2>2, <3>1
  <2> HIDE DEF S
  <2>3. \A i \in 0..a : i \in S
    BY <1>1, <2>1, <2>2, Counting
  <2> QED  BY <1>1, <2>3 DEF S
<1>10. p[a + 1] = Behind(ws, ReadStart)
  <2>1. a + 1 \in 1..(a + 1 + b) /\ a + 1 - 1 = a /\ a \in 0..a
    BY <1>1
  <2>2. p[a + 1] = Finish(r[a])
    <3>1. p[a + 1] = Read(p[a + 1 - 1], u[a + 1])
      BY <1>8, <2>1
    <3>2. p[a + 1] = Read(r[a], Space)
      BY <1>2, <1>9, <2>1, <3>1
    <3> QED  BY <3>2 DEF Read
  <2>3. Finish(r[a]) = [all |-> ws, word |-> <<>>]
    <3>1. PICK x \in Seq(Word), w \in Seq(Ink) : r[a] = [all |-> x, word |-> w]
      BY <1>6, <2>1 DEF ReadState
    <3>2. Finish(r[a]).word = <<>> /\ Finish(r[a]) = [all |-> Finish(r[a]).all, word |-> Finish(r[a]).word]
      BY <3>1 DEF Finish
    <3> QED  BY <1>3, <3>2
  <2>4. ws \o <<>> = ws
    BY <1>1, ConcatEmptySeq
  <2> QED  BY <2>2, <2>3, <2>4 DEF Behind, ReadStart
<1>11. p[a + 1 + b] = Behind(ws, q[b])
  <2> DEFINE S == {j \in 0..b : p[a + 1 + j] = Behind(ws, q[j])}
  <2>1. 0 \in S
    BY <1>1, <1>7, <1>10
  <2>2. ASSUME NEW j \in 1..b, j - 1 \in S PROVE j \in S
    <3> DEFINE k == a + 1 + j
    <3>1. k \in 1..(a + 1 + b) /\ j \in 0..b /\ j - 1 \in 0..b /\ a + 1 + (j - 1) = k - 1
      BY <1>1
    <3>2. p[k - 1] = Behind(ws, q[j - 1])
      BY <2>2, <3>1
    <3> HIDE DEF k, S
    <3>3. p[k] = Read(Behind(ws, q[j - 1]), t[j])
      <4>1. p[k] = Read(p[k - 1], u[k])
        BY <1>8, <3>1
      <4>2. u[k] = t[j]
        BY <1>2 DEF k
      <4> QED  BY <3>2, <4>1, <4>2
    <3>4. q[j - 1] \in ReadState /\ t[j] \in Chars /\ q[j] = Read(q[j - 1], t[j])
      BY <1>1, <1>7, <3>1
    <3>5. Read(Behind(ws, q[j - 1]), t[j]) = Behind(ws, Read(q[j - 1], t[j]))
      BY <1>1, <3>4, BehindStays
    <3> QED  BY <3>1, <3>3, <3>4, <3>5 DEF S, k
  <2> HIDE DEF S
  <2>3. \A j \in 0..b : j \in S
    BY <1>1, <2>1, <2>2, Counting
  <2> QED  BY <1>1, <2>3 DEF S
<1>12. q[b] \in ReadState
  BY <1>1, <1>7
<1>13. Finish(Behind(ws, q[b])) = Behind(ws, Finish(q[b]))
  BY <1>1, <1>12, BehindStays
<1>14. Words(u) = ws \o Words(t)
  BY <1>2, <1>4, <1>5, <1>11, <1>13 DEF Behind
<1> QED  BY <1>14 DEF u, ws


(* A line has no words just when it is blank.                              *)
LEMMA WordsOfBlank ==
  ASSUME NEW s \in Seq(Chars)
  PROVE  Words(s) = <<>> <=> IsAllSpace(s)
<1> DEFINE n == Len(s)
<1>1. n \in Nat /\ DOMAIN s = 1..n /\ \A i \in 1..n : s[i] \in Chars
  BY LenProperties
<1> HIDE DEF n
<1>2. PICK r : Reads(r, s) /\ Finish(r[n]).all = Words(s)
  BY WordsRun DEF ReadsTo, n
<1>3. /\ r \in [0..n -> ReadState] /\ r[0] = ReadStart
      /\ \A i \in 1..n : r[i] = Read(r[i - 1], s[i])
  BY <1>2 DEF Reads, n
<1>4. ASSUME IsAllSpace(s) PROVE Words(s) = <<>>
  <2> DEFINE S == {i \in 0..n : r[i] = ReadStart}
  <2>1. 0 \in S
    BY <1>1, <1>3
  <2>2. ASSUME NEW i \in 1..n, i - 1 \in S PROVE i \in S
    <3>1. r[i] = Read(ReadStart, Space) /\ i \in 0..n
      <4>1. r[i - 1] = ReadStart /\ i \in 0..n
        BY <2>2
      <4>2. s[i] = Space
        BY <1>1, <1>4 DEF IsAllSpace
      <4>3. r[i] = Read(r[i - 1], s[i])
        BY <1>3
      <4> QED  BY <4>1, <4>2, <4>3
    <3>2. Read(ReadStart, Space) = ReadStart
      BY DEF Read, ReadStart, Finish
    <3> QED  BY <3>1, <3>2
  <2> HIDE DEF S
  <2>3. \A i \in 0..n : i \in S
    BY <1>1, <2>1, <2>2, Counting
  <2>4. r[n] = ReadStart
    BY <1>1, <2>3 DEF S
  <2> QED  BY <1>2, <2>4 DEF Finish, ReadStart
<1>5. ASSUME NEW k \in 1..n, s[k] # Space PROVE Words(s) # <<>>
  <2> DEFINE Some(a) == a.all # <<>> \/ a.word # <<>>
             S == {i \in 0..n : i >= k => Some(r[i])}
  <2>1. 0 \in S
    BY <1>1
  <2>2. ASSUME NEW i \in 1..n, i - 1 \in S PROVE i \in S
    <3>1. r[i] = Read(r[i - 1], s[i]) /\ r[i - 1] \in ReadState /\ i \in 0..n
      BY <1>1, <1>3
    <3>2. PICK x \in Seq(Word), q \in Seq(Ink) : r[i - 1] = [all |-> x, word |-> q]
      BY <3>1 DEF ReadState
    <3>3. CASE s[i] # Space
      <4>1. r[i] = [all |-> x, word |-> Append(q, s[i])]
        BY <3>1, <3>2, <3>3, ReadOne
      <4>2. Append(q, s[i]) # <<>>
        <5>1. s[i] \in Ink
          BY <1>1, <3>3 DEF Ink
        <5> QED  BY <3>2, <5>1, AppendProperties
      <4> QED  BY <3>1, <4>1, <4>2
    <3>4. CASE s[i] = Space
      <4>1. r[i] = Finish([all |-> x, word |-> q])
        BY <3>1, <3>2, <3>4, ReadOne
      <4>2. CASE q = <<>>
        <5>1. r[i] = r[i - 1]
          BY <3>2, <4>1, <4>2 DEF Finish
        <5>2. i >= k => i - 1 >= k
          BY <1>1, <1>5, <3>4
        <5> QED  BY <2>2, <3>1, <5>1, <5>2
      <4>3. CASE q # <<>>
        <5>1. r[i].all = Append(x, q)
          BY <4>1, <4>3 DEF Finish
        <5>2. q \in Word
          BY <3>2, <4>3 DEF Word
        <5>3. Append(x, q) # <<>>
          BY <3>2, <5>2, AppendProperties
        <5> QED  BY <3>1, <5>1, <5>3
      <4> QED  BY <4>2, <4>3
    <3> QED  BY <3>3, <3>4
  <2> HIDE DEF S
  <2>3. \A i \in 0..n : i \in S
    BY <1>1, <2>1, <2>2, Counting
  <2>4. Some(r[n]) /\ r[n] \in ReadState
    BY <1>1, <1>3, <2>3 DEF S
  <2>5. PICK x \in Seq(Word), q \in Seq(Ink) : r[n] = [all |-> x, word |-> q]
    BY <2>4 DEF ReadState
  <2>6. CASE q = <<>>
    <3>1. Finish(r[n]).all = x /\ x # <<>>
      BY <2>4, <2>5, <2>6 DEF Finish
    <3> QED  BY <1>2, <3>1
  <2>7. CASE q # <<>>
    <3>1. Finish(r[n]).all = Append(x, q)
      BY <2>5, <2>7 DEF Finish
    <3>2. q \in Word
      BY <2>5, <2>7 DEF Word
    <3>3. Append(x, q) # <<>>
      BY <2>5, <3>2, AppendProperties
    <3> QED  BY <1>2, <3>1, <3>3
  <2> QED  BY <2>6, <2>7
<1> QED  BY <1>1, <1>4, <1>5 DEF IsAllSpace
-----------------------------------------------------------------------------
(* The state of tokenize between two words.                                *)
Strings    == Seq(Chars)
TokenState == [tokens : Seq(Strings), quoted : Strings, open : BOOLEAN]
TokenStart == [tokens |-> <<>>, quoted |-> <<>>, open |-> FALSE]

(* A quotation without its marks is a string.                              *)
LEMMA StrippedTypes ==
  ASSUME NEW t \in Strings
  PROVE  Stripped(t) \in Strings
<1>1. Len(t) \in Nat /\ \A i \in 1..Len(t) : t[i] \in Chars
  BY LenProperties DEF Strings
<1>2. SubSeq(t, 2, Len(t) - 1) \in Seq(Chars)
  <2> DEFINE k == Len(t) - 1
  <2>1. k \in Int /\ 2 \in Int /\ \A i \in 2..k : t[i] \in Chars
    BY <1>1
  <2> HIDE DEF k
  <2>2. SubSeq(t, 2, k) \in Seq(Chars)
    BY <2>1, SubSeqProperties
  <2> QED  BY <2>2 DEF k
<1> QED  BY <1>2 DEF Stripped, Strings

(* A word is a string, and so are words with spaces between.               *)
LEMMA WordsAreStrings ==
  /\ \A w \in Word : w \in Strings /\ w \in Seq(Ink) /\ Len(w) \in Nat \ {0}
                      /\ ~Has(Space, w) /\ Len(w) >= 1
  /\ \A s, t \in Strings : Join(s, t) \in Strings
<1>1. Ink \subseteq Chars /\ Space \notin Ink
  BY DEF Ink
<1>2. ASSUME NEW w \in Word
      PROVE  /\ w \in Strings /\ w \in Seq(Ink) /\ Len(w) \in Nat \ {0}
             /\ ~Has(Space, w) /\ Len(w) >= 1
  <2>1. w \in Seq(Ink) /\ w # <<>>
    BY DEF Word
  <2>2. Len(w) \in Nat /\ w \in [1..Len(w) -> Ink] /\ DOMAIN w = 1..Len(w)
    BY <2>1, LenProperties
  <2>3. Len(w) \in Nat \ {0}
    BY <2>1, EmptySeq
  <2>4. w \in [1..Len(w) -> Chars]
    BY <1>1, <2>2
  <2>5. w \in Seq(Chars)
    BY <2>2, <2>4
  <2>6. ~Has(Space, w)
    BY <1>1, <2>2 DEF Has
  <2> QED  BY <2>1, <2>3, <2>5, <2>6 DEF Strings
<1> QED  BY <1>2, JoinIs DEF Strings

(* A step of tokenize leaves it with strings.                              *)
LEMMA TakeTypes ==
  ASSUME NEW a \in TokenState
  PROVE  /\ Emit(a) \in TokenState
         /\ \A w \in Word : Take(a, w) \in TokenState /\ TakeWord(a, w) \in TokenState
<1>1. ASSUME NEW b \in TokenState PROVE Emit(b) \in TokenState
  <2>1. PICK ts \in Seq(Strings), q \in Strings, o \in BOOLEAN :
          b = [tokens |-> ts, quoted |-> q, open |-> o]
    BY DEF TokenState
  <2>2. Stripped(q) \in Strings /\ <<>> \in Strings
    BY StrippedTypes DEF Strings
  <2>3. Append(ts, Stripped(q)) \in Seq(Strings)
    BY <2>2
  <2>4. CASE b.open \/ b.quoted = <<>>
    BY <2>4 DEF Emit
  <2>5. CASE ~(b.open \/ b.quoted = <<>>)
    <3>1. Emit(b) = [tokens |-> Append(ts, Stripped(q)), quoted |-> <<>>, open |-> o]
      BY <2>1, <2>5 DEF Emit
    <3> QED  BY <2>2, <2>3, <3>1 DEF TokenState
  <2> QED  BY <2>4, <2>5
<1>2. ASSUME NEW w \in Word PROVE Take(a, w) \in TokenState
  <2>1. PICK ts \in Seq(Strings), q \in Strings, o \in BOOLEAN :
          a = [tokens |-> ts, quoted |-> q, open |-> o]
    BY DEF TokenState
  <2>2. w \in Strings /\ Join(q, w) \in Strings
    BY WordsAreStrings
  <2>3. Append(ts, w) \in Seq(Strings) /\ Closes(w) \in BOOLEAN
    BY <2>2 DEF Closes
  <2>4. CASE o
    <3>1. Take(a, w) = [tokens |-> ts, quoted |-> Join(q, w), open |-> ~Closes(w)]
      BY <2>1, <2>4 DEF Take
    <3> QED  BY <2>2, <2>3, <3>1 DEF TokenState
  <2>5. CASE ~o /\ ~Opens(w)
    <3>1. Take(a, w) = [tokens |-> Append(ts, w), quoted |-> q, open |-> o]
      BY <2>1, <2>5 DEF Take
    <3> QED  BY <2>3, <3>1 DEF TokenState
  <2>6. CASE ~o /\ Opens(w)
    <3>1. Take(a, w) = [tokens |-> ts, quoted |-> w, open |-> ~Closes(w)]
      BY <2>1, <2>6 DEF Take
    <3> QED  BY <2>2, <2>3, <3>1 DEF TokenState
  <2> QED  BY <2>4, <2>5, <2>6
<1> QED  BY <1>1, <1>2 DEF TakeWord


(* r is the state after each word, and v the tokens.                       *)
Takes(r, ws) ==
  /\ r \in [0..Len(ws) -> TokenState]
  /\ r[0] = TokenStart
  /\ \A i \in 1..Len(ws) : r[i] = TakeWord(r[i - 1], ws[i])

End(a) == Emit([a EXCEPT !.open = FALSE]).tokens

TakesTo(v, ws) == \E r : Takes(r, ws) /\ End(r[Len(ws)]) = v

(* The fold over the words is such a run.                                  *)
LEMMA GroupsRun ==
  ASSUME NEW ws \in Seq(Word)
  PROVE  TakesTo(Grouped(ws), ws)
<1> DEFINE n == Len(ws)
           step == [y \in TokenState \X (1..n) |-> TakeWord(y[1], ws[y[2]])]
           F(it) == [t \in SUBSET (1..n) |->
                       IF t = {} THEN TokenStart ELSE TakeWord(it[t \ {Max(t)}], ws[Max(t)])]
           fold == CHOOSE it : it = F(it)
           r == [i \in 0..n |-> fold[1..i]]
<1>1. n \in Nat /\ DOMAIN ws = 1..n /\ ws \in [1..n -> Word]
  BY LenProperties
<1>2. TokenStart \in TokenState
  <2>1. <<>> \in Seq(Strings) /\ <<>> \in Strings
    BY DEF Strings
  <2> QED  BY <2>1 DEF TokenStart, TokenState
<1>3. FoldLeft(TakeWord, TokenStart, ws) = fold[1..n]
  <2> HIDE DEF n
  <2> QED  BY <1>1 DEF FoldLeft, MapThenFoldSet
<1> HIDE DEF n
<1>4. step \in [TokenState \X (1..n) -> TokenState]
  <2>1. ASSUME NEW y \in TokenState \X (1..n) PROVE TakeWord(y[1], ws[y[2]]) \in TokenState
    <3>1. y[1] \in TokenState /\ ws[y[2]] \in Word
      BY <1>1
    <3> QED  BY <3>1, TakeTypes
  <2> QED  BY <2>1
<1>5. PICK it \in [SUBSET (1..n) -> TokenState] : Folds(it, n, TokenStart, step)
  <2> HIDE DEF step
  <2> QED  BY <1>1, <1>2, <1>4, FoldExists
<1>6. it = F(it)
  <2>1. ASSUME NEW t \in SUBSET (1..n), t # {}
        PROVE  step[<<it[t \ {Max(t)}], Max(t)>>] = TakeWord(it[t \ {Max(t)}], ws[Max(t)])
    <3>1. Max(t) \in 1..n
      BY <1>1, <2>1, MaxOf
    <3>2. it[t \ {Max(t)}] \in TokenState
      OBVIOUS
    <3> QED  BY <3>1, <3>2
  <2> HIDE DEF step
  <2> DEFINE G(t) == IF t = {} THEN TokenStart ELSE step[<<it[t \ {Max(t)}], Max(t)>>]
             H(t) == IF t = {} THEN TokenStart ELSE TakeWord(it[t \ {Max(t)}], ws[Max(t)])
  <2>2. \A t \in SUBSET (1..n) : G(t) = H(t)
    BY <2>1
  <2>3. it = [t \in SUBSET (1..n) |-> G(t)]
    BY <1>5 DEF Folds
  <2>4. it = [t \in SUBSET (1..n) |-> H(t)]
    <3> HIDE DEF G, H
    <3> QED  BY <2>2, <2>3
  <2> QED  BY <2>4
<1>7. fold = F(fold)
  <2> HIDE DEF F
  <2> QED  BY <1>6
<1>8. fold[1..0] = TokenStart
  <2>1. 1..0 = {} /\ 1..0 \in SUBSET (1..n)
    OBVIOUS
  <2> HIDE DEF fold
  <2> QED  BY <1>7, <2>1
<1>9. ASSUME NEW i \in 1..n PROVE fold[1..i] = TakeWord(fold[1..(i - 1)], ws[i])
  <2>1. Max(1..i) = i /\ (1..i) \ {i} = 1..(i - 1) /\ 1..i # {} /\ 1..i \in SUBSET (1..n)
    BY <1>1, MaxOfFirst
  <2> HIDE DEF fold
  <2>2. fold[1..i] = TakeWord(fold[(1..i) \ {Max(1..i)}], ws[Max(1..i)])
    BY <1>7, <2>1
  <2> QED  BY <2>1, <2>2
<1> DEFINE S == {i \in 0..n : fold[1..i] \in TokenState}
<1>10. \A i \in 0..n : i \in S
  <2> HIDE DEF fold
  <2>1. 0 \in S
    BY <1>1, <1>2, <1>8
  <2>2. ASSUME NEW i \in 1..n, i - 1 \in S PROVE i \in S
    <3>1. fold[1..(i - 1)] \in TokenState /\ ws[i] \in Word /\ i \in 0..n
      BY <1>1, <2>2
    <3>2. fold[1..i] \in TokenState
      BY <1>9, <3>1, TakeTypes
    <3> QED  BY <3>1, <3>2
  <2> HIDE DEF S
  <2> QED  BY <1>1, <2>1, <2>2, Counting
<1> HIDE DEF fold
<1>11. r \in [0..n -> TokenState]
  BY <1>10
<1>12. \A i \in 0..n : r[i] = fold[1..i]
  OBVIOUS
<1>13. 0 \in 0..n /\ n \in 0..n /\ \A i \in 1..n : i \in 0..n /\ i - 1 \in 0..n
  BY <1>1
<1> HIDE DEF r
<1>14. r[0] = TokenStart /\ \A i \in 1..n : r[i] = TakeWord(r[i - 1], ws[i])
  BY <1>8, <1>9, <1>12, <1>13
<1>15. Takes(r, ws)
  BY <1>11, <1>14 DEF Takes, n
<1>16. Grouped(ws) = End(r[n])
  BY <1>3, <1>12, <1>13 DEF Grouped, End, TokenStart
<1> QED  BY <1>15, <1>16 DEF TakesTo, n

(* The two states of tokenize: between tokens, and within a quotation.     *)
Between(ts)   == [tokens |-> ts, quoted |-> <<>>, open |-> FALSE]
Within(ts, q) == [tokens |-> ts, quoted |-> q, open |-> TRUE]

(* A quotation that is over becomes a token.                               *)
LEMMA EmitQuoted ==
  ASSUME NEW ts, NEW q, q # <<>>
  PROVE  Emit([tokens |-> ts, quoted |-> q, open |-> FALSE]) = Between(Append(ts, Stripped(q)))
<1> DEFINE a == [tokens |-> ts, quoted |-> q, open |-> FALSE]
<1>1. a.open = FALSE /\ a.quoted = q /\ a.tokens = ts
  OBVIOUS
<1>2. Emit(a) = [a EXCEPT !.tokens = Append(@, Stripped(a.quoted)), !.quoted = <<>>]
  <2> HIDE DEF a
  <2> QED  BY <1>1 DEF Emit
<1>3. ASSUME NEW t, NEW e
      PROVE  [a EXCEPT !.tokens = t, !.quoted = e] = [tokens |-> t, quoted |-> e, open |-> FALSE]
  <2> DEFINE b == [a EXCEPT !.tokens = t, !.quoted = e]
  <2>1. b \in [tokens : {t}, quoted : {e}, open : {FALSE}]
    <3>1. a \in [tokens : {ts}, quoted : {q}, open : {FALSE}]
      OBVIOUS
    <3> HIDE DEF a
    <3> QED  BY <3>1
  <2> HIDE DEF b
  <2>2. b = [tokens |-> t, quoted |-> e, open |-> FALSE]
    BY <2>1
  <2> QED  BY <2>2 DEF b
<1>4. Emit(a) = [a EXCEPT !.tokens = Append(ts, Stripped(q)), !.quoted = <<>>]
  <2> HIDE DEF a
  <2> QED  BY <1>1, <1>2
<1>5. Emit(a) = Between(Append(ts, Stripped(q)))
  <2> HIDE DEF a
  <2> QED  BY <1>3, <1>4 DEF Between
<1> QED  BY <1>5

(* What the next word makes of each.                                       *)
LEMMA TakeCases ==
  ASSUME NEW ts, NEW q, NEW w \in Word
  PROVE  /\ q \in Strings /\ Closes(w) =>
              TakeWord(Within(ts, q), w) = Between(Append(ts, Stripped(Join(q, w))))
         /\ ~Closes(w) => TakeWord(Within(ts, q), w) = Within(ts, Join(q, w))
         /\ ~Opens(w) => TakeWord(Between(ts), w) = Between(Append(ts, w))
         /\ Opens(w) /\ Closes(w) =>
              TakeWord(Between(ts), w) = Between(Append(ts, Stripped(w)))
         /\ Opens(w) /\ ~Closes(w) => TakeWord(Between(ts), w) = Within(ts, w)
<1>1. w # <<>>
  BY DEF Word
<1>2. ASSUME q \in Strings, Closes(w)
      PROVE  TakeWord(Within(ts, q), w) = Between(Append(ts, Stripped(Join(q, w))))
  <2>1. Take(Within(ts, q), w) = [tokens |-> ts, quoted |-> Join(q, w), open |-> FALSE]
    BY <1>2 DEF Take, Within
  <2>2. Join(q, w) # <<>>
    <3>1. q \in Seq(Chars) /\ w \in Seq(Chars)
      BY <1>2, WordsAreStrings DEF Strings
    <3>2. Join(q, w) \in Seq(Chars) /\ Len(Join(q, w)) = Len(q) + 1 + Len(w)
      BY <3>1, JoinIs
    <3>3. Len(q) \in Nat /\ Len(w) \in Nat
      BY <3>1, LenProperties
    <3> QED  BY <3>2, <3>3
  <2> QED  BY <2>1, <2>2, EmitQuoted DEF TakeWord
<1>3. ASSUME ~Closes(w) PROVE TakeWord(Within(ts, q), w) = Within(ts, Join(q, w))
  <2>1. Take(Within(ts, q), w) = [tokens |-> ts, quoted |-> Join(q, w), open |-> TRUE]
    BY <1>3 DEF Take, Within
  <2> QED  BY <2>1 DEF TakeWord, Emit, Within
<1>4. ASSUME ~Opens(w) PROVE TakeWord(Between(ts), w) = Between(Append(ts, w))
  <2>1. Take(Between(ts), w) = [tokens |-> Append(ts, w), quoted |-> <<>>, open |-> FALSE]
    BY <1>4 DEF Take, Between
  <2> QED  BY <2>1 DEF TakeWord, Emit, Between
<1>5. ASSUME Opens(w), Closes(w)
      PROVE  TakeWord(Between(ts), w) = Between(Append(ts, Stripped(w)))
  <2>1. Take(Between(ts), w) = [tokens |-> ts, quoted |-> w, open |-> FALSE]
    BY <1>5 DEF Take, Between
  <2> QED  BY <1>1, <2>1, EmitQuoted DEF TakeWord
<1>6. ASSUME Opens(w), ~Closes(w) PROVE TakeWord(Between(ts), w) = Within(ts, w)
  <2>1. Take(Between(ts), w) = [tokens |-> ts, quoted |-> w, open |-> TRUE]
    BY <1>6 DEF Take, Between
  <2> QED  BY <2>1 DEF TakeWord, Emit, Within
<1> QED  BY <1>2, <1>3, <1>4, <1>5, <1>6

(* What the end of the line makes of each.                                 *)
LEMMA EndCases ==
  ASSUME NEW ts, NEW q
  PROVE  /\ End(Between(ts)) = ts
         /\ q # <<>> => End(Within(ts, q)) = Append(ts, Stripped(q))
BY DEF End, Emit, Between, Within

(* A run knows no other states.                                            *)
LEMMA StatesAre ==
  ASSUME NEW ws \in Seq(Word), NEW r, Takes(r, ws), NEW i \in 0..Len(ws)
  PROVE  \E ts \in Seq(Strings) :
            r[i] = Between(ts) \/ \E q \in Strings \ {<<>>} : r[i] = Within(ts, q)
<1> DEFINE n == Len(ws)
           Known(a) == \E ts \in Seq(Strings) :
                         a = Between(ts) \/ \E q \in Strings \ {<<>>} : a = Within(ts, q)
           S == {j \in 0..n : Known(r[j])}
<1>1. n \in Nat /\ \A j \in 1..n : ws[j] \in Word
  BY LenProperties
<1>2. 0 \in S
  <2>1. r[0] = Between(<<>>) /\ <<>> \in Seq(Strings) /\ 0 \in 0..n
    BY <1>1 DEF Takes, Between, TokenStart
  <2> QED  BY <2>1
<1>3. ASSUME NEW j \in 1..n, j - 1 \in S PROVE j \in S
  <2>1. r[j] = TakeWord(r[j - 1], ws[j]) /\ ws[j] \in Word /\ j \in 0..n
    BY <1>1 DEF Takes
  <2>2. Known(r[j - 1])
    BY <1>3
  <2> DEFINE w == ws[j]
  <2>3. w \in Word /\ w \in Strings /\ w # <<>> /\ Stripped(w) \in Strings
    BY <2>1, WordsAreStrings, StrippedTypes DEF Word
  <2> HIDE DEF w
  <2>4. PICK ts \in Seq(Strings) :
          r[j - 1] = Between(ts) \/ \E q \in Strings \ {<<>>} : r[j - 1] = Within(ts, q)
    BY <2>2
  <2>5. Append(ts, w) \in Seq(Strings) /\ Append(ts, Stripped(w)) \in Seq(Strings)
    BY <2>3
  <2>6. CASE r[j - 1] = Between(ts)
    <3>1. \/ r[j] = Between(Append(ts, w)) \/ r[j] = Between(Append(ts, Stripped(w)))
          \/ r[j] = Within(ts, w)
      BY <2>1, <2>3, <2>6, TakeCases DEF w
    <3>2. Known(r[j])
      BY <2>3, <2>5, <3>1
    <3> QED  BY <2>1, <3>2
  <2>7. ASSUME NEW q \in Strings \ {<<>>}, r[j - 1] = Within(ts, q) PROVE j \in S
    <3> DEFINE u == Join(q, w)
    <3>1. u \in Strings /\ u # <<>>
      <4>1. q \in Seq(Chars) /\ w \in Seq(Chars)
        BY <2>3 DEF Strings
      <4>2. Join(q, w) \in Seq(Chars) /\ Len(Join(q, w)) = Len(q) + 1 + Len(w)
        BY <4>1, JoinIs
      <4>3. Len(q) \in Nat /\ Len(w) \in Nat
        BY <4>1, LenProperties
      <4> QED  BY <4>2, <4>3 DEF Strings
    <3>2. Append(ts, Stripped(u)) \in Seq(Strings)
      BY <3>1, StrippedTypes
    <3>3. r[j] = Between(Append(ts, Stripped(u))) \/ r[j] = Within(ts, u)
      BY <2>1, <2>3, <2>7, TakeCases DEF w
    <3> HIDE DEF u
    <3>4. Known(r[j])
      BY <3>1, <3>2, <3>3
    <3> QED  BY <2>1, <3>4
  <2> QED  BY <2>4, <2>6, <2>7
<1>4. i \in S
  <2> HIDE DEF S
  <2>1. \A j \in 0..n : j \in S
    BY <1>1, <1>2, <1>3, Counting
  <2> QED  BY <2>1
<1> QED  BY <1>4


(* Words with a space between are something.                               *)
LEMMA JoinsNotEmpty ==
  ASSUME NEW q \in Strings, NEW w \in Strings
  PROVE  Join(q, w) \in Strings /\ Join(q, w) # <<>>
<1>1. q \in Seq(Chars) /\ w \in Seq(Chars)
  BY DEF Strings
<1>2. Join(q, w) \in Seq(Chars) /\ Len(Join(q, w)) = Len(q) + 1 + Len(w)
  BY <1>1, JoinIs
<1>3. Len(q) \in Nat /\ Len(w) \in Nat
  BY <1>1, LenProperties
<1> QED  BY <1>2, <1>3 DEF Strings

(* Words make a token, no words none.                                      *)
LEMMA NoWordsNoTokens ==
  ASSUME NEW ws \in Seq(Word)
  PROVE  Grouped(ws) = <<>> <=> ws = <<>>
<1> DEFINE n == Len(ws)
<1>1. n \in Nat /\ (n = 0 <=> ws = <<>>) /\ \A i \in 1..n : ws[i] \in Word
  BY LenProperties, EmptySeq
<1>2. PICK r : Takes(r, ws) /\ End(r[n]) = Grouped(ws)
  BY GroupsRun DEF TakesTo
<1>3. ASSUME n = 0 PROVE Grouped(ws) = <<>>
  <2>1. r[n] = Between(<<>>)
    BY <1>2, <1>3 DEF Takes, TokenStart, Between
  <2> QED  BY <1>2, <2>1, EndCases
<1>4. ASSUME n # 0 PROVE Grouped(ws) # <<>>
  <2> DEFINE w == ws[n]
             m == n - 1
  <2>1. n \in 1..n /\ n \in 0..n /\ m \in 0..n /\ w \in Word
    BY <1>1, <1>4
  <2>2. r[n] = TakeWord(r[m], w)
    BY <1>2, <2>1 DEF Takes
  <2>3. PICK ts \in Seq(Strings) :
          r[m] = Between(ts) \/ \E q \in Strings \ {<<>>} : r[m] = Within(ts, q)
    BY <1>2, <2>1, StatesAre
  <2>4. w \in Strings /\ w # <<>> /\ Stripped(w) \in Strings
    BY <2>1, WordsAreStrings, StrippedTypes DEF Word
  <2> HIDE DEF w, m, n
  <2>5. ASSUME NEW u \in Strings PROVE Append(ts, u) # <<>> /\ Append(ts, u) \in Seq(Strings)
    BY AppendProperties
  <2>6. ASSUME NEW q \in Strings, q # <<>> PROVE End(Within(ts, q)) # <<>>
    BY <2>5, <2>6, EndCases, StrippedTypes
  <2>9. ASSUME NEW u \in Strings PROVE End(Between(Append(ts, u))) # <<>>
    BY <2>5, EndCases
  <2>10. Grouped(ws) = End(r[n])
    BY <1>2
  <2>7. CASE r[m] = Between(ts)
    <3>1. \/ r[n] = Between(Append(ts, w)) \/ r[n] = Between(Append(ts, Stripped(w)))
          \/ r[n] = Within(ts, w)
      BY <2>1, <2>2, <2>7, TakeCases
    <3> QED  BY <2>4, <2>6, <2>9, <2>10, <3>1
  <2>8. ASSUME NEW q \in Strings \ {<<>>}, r[m] = Within(ts, q) PROVE Grouped(ws) # <<>>
    <3> DEFINE u == Join(q, w)
    <3>1. u \in Strings /\ u # <<>> /\ Stripped(u) \in Strings
      BY <2>4, JoinsNotEmpty, StrippedTypes
    <3>2. r[n] = Between(Append(ts, Stripped(u))) \/ r[n] = Within(ts, u)
      BY <2>1, <2>2, <2>8, TakeCases
    <3> HIDE DEF u
    <3> QED  BY <2>6, <2>9, <2>10, <3>1, <3>2
  <2> QED  BY <2>3, <2>7, <2>8
<1> QED  BY <1>1, <1>3, <1>4

(* Whatever is typed consists of characters.                               *)
LEMMA LinesAreStrings == Editing => [](line \in Seq(Chars))
<1>1. Lines \subseteq Seq(Chars)
  <2>1. ASSUME NEW op \in Op PROVE <<op>> \in Seq(Chars)
    BY DEF Chars
  <2>2. <<>> \in Seq(Chars)
    OBVIOUS
  <2> QED  BY <2>1, <2>2 DEF Lines
<1>2. Prompt => line \in Seq(Chars)
  BY <1>1 DEF Prompt
<1>3. line \in Seq(Chars) /\ [Edit]_line => (line \in Seq(Chars))'
  <2> SUFFICES ASSUME line \in Seq(Chars), [Edit]_line PROVE line' \in Seq(Chars)
    OBVIOUS
  <2>1. CASE Type
    <3>1. PICK c \in Chars : line' = Append(line, c)
      BY <2>1 DEF Type, Chars
    <3> QED  BY <3>1
  <2>2. CASE Enter
    BY <1>1, <2>2 DEF Enter
  <2> QED  BY <2>1, <2>2 DEF Edit
<1> QED  BY <1>2, <1>3, PTL DEF Editing

(* A line without a token is blank and a blank line has none, so the test  *)
(* in front of parseCommand is all that its first token needs (db.cpp,     *)
(* isAllSpace and tokenize).                                               *)
THEOREM BlankLinesHaveNoTokens == Editing => []BlanksAreRefused
<1>1. ASSUME line \in Seq(Chars) PROVE BlanksAreRefused
  <2>1. Words(line) \in Seq(Word)
    BY <1>1, WordsTypes
  <2> QED  BY <1>1, <2>1, WordsOfBlank, NoWordsNoTokens DEF BlanksAreRefused, Command, Tokenize
<1> QED  BY <1>1, LinesAreStrings, PTL

(* The lines are those of put and del.                                     *)
LEMMA LoggedOps ==
  ASSUME NEW ts, NEW b \in BOOLEAN, NEW n \in DOMAIN Logged(ts, b)
  PROVE  Logged(ts, b)[n].op \in {"put", "del"}
<1>1. Single("mput") = "put" /\ Single("mdel") = "del"
  BY DEF Single
<1>2. ASSUME NEW op, NEW x, NEW m \in DOMAIN Puts(op, x) PROVE Puts(op, x)[m].op = op
  BY DEF Puts
<1>3. ASSUME NEW op, NEW x, NEW m \in DOMAIN Dels(op, x) PROVE Dels(op, x)[m].op = op
  BY DEF Dels
<1>4. \/ Logged(ts, b) = Puts("put", ts) \/ Logged(ts, b) = Dels("del", ts)
      \/ Logged(ts, b) = <<>>
  BY <1>1 DEF Logged
<1> QED  BY <1>2, <1>3, <1>4

(* At the end a token more, or none.                                       *)
Grows(ts, v) == v = ts \/ \E u \in Strings : v = Append(ts, u)

(* What such an end may be.                                                *)
LEMMA GrowsTo ==
  ASSUME NEW ts \in Seq(Strings)
  PROVE  /\ Grows(ts, ts)
         /\ \A u \in Strings : Grows(ts, Append(ts, u))
         /\ \A v : Grows(ts, v) => v \in Seq(Strings)
<1>1. ASSUME NEW u \in Strings PROVE Grows(ts, Append(ts, u))
  BY DEF Grows
<1>2. ASSUME NEW v, Grows(ts, v) PROVE v \in Seq(Strings)
  <2>1. ASSUME NEW u \in Strings PROVE Append(ts, u) \in Seq(Strings)
    OBVIOUS
  <2> QED  BY <1>2, <2>1 DEF Grows
<1>3. Grows(ts, ts)
  BY DEF Grows
<1> QED  BY <1>1, <1>2, <1>3

(* Tokens are only added.                                                  *)
LEMMA TokensGrow ==
  ASSUME NEW ws \in Seq(Word), NEW r, Takes(r, ws)
  PROVE  /\ \A i \in 0..Len(ws) : r[i].tokens \in Seq(Strings)
         /\ \A i \in 1..Len(ws) : Grows(r[i - 1].tokens, r[i].tokens)
         /\ Grows(r[Len(ws)].tokens, End(r[Len(ws)]))
         /\ End(r[Len(ws)]) \in Seq(Strings)
<1> DEFINE n == Len(ws)
<1>1. n \in Nat /\ n \in 0..n /\ \A j \in 1..n : ws[j] \in Word
  BY LenProperties
<1>2. \A ts, q : Between(ts).tokens = ts /\ Within(ts, q).tokens = ts
  BY DEF Between, Within
<1>3. ASSUME NEW i \in 0..n PROVE r[i].tokens \in Seq(Strings)
  BY <1>3 DEF Takes, TokenState
<1>4. ASSUME NEW i \in 1..n PROVE Grows(r[i - 1].tokens, r[i].tokens)
  <2> DEFINE w == ws[i]
             m == i - 1
  <2>1. m \in 0..n /\ w \in Word
    BY <1>1
  <2>2. r[i] = TakeWord(r[m], w)
    BY DEF Takes
  <2>3. PICK ts \in Seq(Strings) :
          r[m] = Between(ts) \/ \E q \in Strings \ {<<>>} : r[m] = Within(ts, q)
    BY <2>1, StatesAre
  <2>4. w \in Strings /\ w # <<>> /\ Stripped(w) \in Strings
    BY <2>1, WordsAreStrings, StrippedTypes DEF Word
  <2> HIDE DEF w, m
  <2>5. CASE r[m] = Between(ts)
    <3>1. \/ r[i] = Between(Append(ts, w)) \/ r[i] = Between(Append(ts, Stripped(w)))
          \/ r[i] = Within(ts, w)
      BY <2>1, <2>2, <2>5, TakeCases
    <3>2. Grows(r[m].tokens, r[i].tokens)
      BY <1>2, <2>4, <2>5, <3>1, GrowsTo
    <3> QED  BY <3>2 DEF m
  <2>6. ASSUME NEW q \in Strings \ {<<>>}, r[m] = Within(ts, q)
        PROVE  Grows(r[i - 1].tokens, r[i].tokens)
    <3> DEFINE u == Join(q, w)
    <3>1. u \in Strings /\ u # <<>> /\ Stripped(u) \in Strings
      BY <2>4, JoinsNotEmpty, StrippedTypes
    <3>2. r[i] = Between(Append(ts, Stripped(u))) \/ r[i] = Within(ts, u)
      BY <2>1, <2>2, <2>6, TakeCases
    <3> HIDE DEF u
    <3>3. Grows(r[m].tokens, r[i].tokens)
      BY <1>2, <2>6, <3>1, <3>2, GrowsTo
    <3> QED  BY <3>3 DEF m
  <2> QED  BY <2>3, <2>5, <2>6
<1>5. Grows(r[n].tokens, End(r[n]))
  <2>1. PICK ts \in Seq(Strings) :
          r[n] = Between(ts) \/ \E q \in Strings \ {<<>>} : r[n] = Within(ts, q)
    BY <1>1, StatesAre
  <2> HIDE DEF n
  <2>2. CASE r[n] = Between(ts)
    <3>1. End(Between(ts)) = ts /\ r[n].tokens = ts
      BY <1>2, <2>2, EndCases
    <3> QED  BY <2>2, <3>1, GrowsTo
  <2>3. ASSUME NEW q \in Strings \ {<<>>}, r[n] = Within(ts, q)
        PROVE  Grows(r[n].tokens, End(r[n]))
    <3>1. End(Within(ts, q)) = Append(ts, Stripped(q)) /\ r[n].tokens = ts
      BY <1>2, <2>3, EndCases
    <3> QED  BY <2>3, <3>1, StrippedTypes, GrowsTo
  <2> QED  BY <2>1, <2>2, <2>3
<1>6. End(r[n]) \in Seq(Strings)
  <2>1. r[n].tokens \in Seq(Strings)
    BY <1>1, <1>3
  <2> QED  BY <1>5, <2>1, GrowsTo
<1> QED  BY <1>3, <1>4, <1>5, <1>6

(* Tokens are strings.                                                     *)
LEMMA GroupedTypes ==
  ASSUME NEW ws \in Seq(Word)
  PROVE  Grouped(ws) \in Seq(Strings)
<1>1. PICK r : Takes(r, ws) /\ End(r[Len(ws)]) = Grouped(ws)
  BY GroupsRun DEF TakesTo
<1> QED  BY <1>1, TokensGrow

(* A first word that opens no quotation is the first token.                *)
LEMMA FirstToken ==
  ASSUME NEW ws \in Seq(Word), Len(ws) >= 1, ~Opens(ws[1])
  PROVE  Grouped(ws) # <<>> /\ Grouped(ws)[1] = ws[1]
<1> DEFINE n == Len(ws)
           First(ts) == ts \in Seq(Strings) /\ ts # <<>> /\ ts[1] = ws[1]
<1>1. n \in Nat /\ ws[1] \in Word /\ ws[1] \in Strings /\ 1 \in 1..n /\ 0 \in 0..n
  BY LenProperties, WordsAreStrings
<1>2. PICK r : Takes(r, ws) /\ End(r[n]) = Grouped(ws)
  BY GroupsRun DEF TakesTo
<1>3. ASSUME NEW ts, First(ts), NEW v, Grows(ts, v) PROVE First(v)
  <2>1. CASE v = ts
    BY <1>3, <2>1
  <2>2. ASSUME NEW u \in Strings, v = Append(ts, u) PROVE First(v)
    <3>1. Len(ts) \in Nat \ {0}
      BY <1>3, LenProperties, EmptySeq
    <3>2. v \in Seq(Strings) /\ Len(v) = Len(ts) + 1 /\ \A i \in 1..Len(ts) : v[i] = ts[i]
      BY <1>3, <2>2, AppendProperties
    <3>3. v[1] = ts[1]
      BY <3>1, <3>2
    <3>4. v # <<>>
      BY <3>1, <3>2
    <3> QED  BY <1>3, <3>2, <3>3, <3>4
  <2> QED  BY <1>3, <2>1, <2>2 DEF Grows
<1>4. First(r[1].tokens)
  <2>1. r[0] = Between(<<>>) /\ r[1] = TakeWord(r[1 - 1], ws[1])
    BY <1>1, <1>2 DEF Takes, Between, TokenStart
  <2>2. r[1] = Between(Append(<<>>, ws[1]))
    <3>1. r[1] = TakeWord(Between(<<>>), ws[1])
      BY <2>1
    <3> QED  BY <1>1, <3>1, TakeCases
  <2>3. r[1].tokens = <<ws[1]>>
    BY <2>2 DEF Between
  <2>4. <<ws[1]>> \in Seq(Strings) /\ <<ws[1]>> # <<>> /\ <<ws[1]>>[1] = ws[1]
    BY <1>1
  <2> QED  BY <2>3, <2>4
<1> DEFINE T == {i \in 0..n : i = 0 \/ First(r[i].tokens)}
<1>5. ASSUME NEW i \in 1..n, i - 1 \in T PROVE i \in T
  <2>1. CASE i = 1
    BY <1>1, <1>4, <2>1
  <2>2. CASE i # 1
    <3>1. First(r[i - 1].tokens)
      BY <1>5, <2>2
    <3>2. Grows(r[i - 1].tokens, r[i].tokens)
      BY <1>2, TokensGrow
    <3> HIDE DEF First
    <3>3. First(r[i].tokens)
      BY <1>3, <3>1, <3>2
    <3> QED  BY <3>3
  <2> QED  BY <2>1, <2>2
<1>6. First(r[n].tokens)
  <2>1. 0 \in T
    BY <1>1
  <2> HIDE DEF T
  <2>2. \A i \in 0..n : i \in T
    BY <1>1, <1>5, <2>1, Counting
  <2>3. n \in 0..n
    BY <1>1
  <2> USE DEF T
  <2> HIDE DEF First
  <2> QED  BY <1>1, <2>2, <2>3
<1>7. First(End(r[n]))
  <2> HIDE DEF First
  <2>1. Grows(r[n].tokens, End(r[n]))
    BY <1>2, TokensGrow
  <2> QED  BY <1>3, <1>6, <2>1
<1> QED  BY <1>2, <1>7


(* What a command logs are strings.                                        *)
LEMMA LoggedTypes ==
  ASSUME NEW ts \in Seq(Strings), NEW b \in BOOLEAN, NEW n \in DOMAIN Logged(ts, b)
  PROVE  LET l == Logged(ts, b)[n] IN
         /\ l = [op |-> l.op, key |-> l.key, val |-> l.val]
         /\ l.op \in {"put", "del"} /\ l.key \in Strings /\ l.val \in Strings
<1> DEFINE l == Logged(ts, b)[n]
<1>1. Len(ts) \in Nat /\ \A i \in 1..Len(ts) : ts[i] \in Strings
  BY LenProperties
<1>2. ASSUME NEW op, NEW m \in DOMAIN Puts(op, ts)
      PROVE  LET p == Puts(op, ts)[m] IN
             /\ p = [op |-> p.op, key |-> p.key, val |-> p.val]
             /\ p.key \in Strings /\ p.val \in Strings
  <2>1. m \in 1..((Len(ts) - 1) \div 2)
    BY DEF Puts
  <2>2. 2 * m \in 1..Len(ts) /\ 2 * m + 1 \in 1..Len(ts)
    BY <1>1, <2>1
  <2> DEFINE k == ts[2 * m]
             v == ts[2 * m + 1]
             p == Puts(op, ts)[m]
  <2>3. k \in Strings /\ v \in Strings
    BY <1>1, <2>2
  <2>4. p = [op |-> op, key |-> k, val |-> v]
    BY <2>1 DEF Puts
  <2> HIDE DEF k, v, p
  <2>5. p = [op |-> p.op, key |-> p.key, val |-> p.val] /\ p.key \in Strings /\ p.val \in Strings
    BY <2>3, <2>4
  <2> QED  BY <2>5 DEF p
<1>3. ASSUME NEW op, NEW m \in DOMAIN Dels(op, ts)
      PROVE  LET p == Dels(op, ts)[m] IN
             /\ p = [op |-> p.op, key |-> p.key, val |-> p.val]
             /\ p.key \in Strings /\ p.val \in Strings
  <2>1. m \in 1..(Len(ts) - 1)
    BY DEF Dels
  <2>2. m + 1 \in 1..Len(ts)
    BY <1>1, <2>1
  <2> DEFINE k == ts[m + 1]
             p == Dels(op, ts)[m]
  <2>3. k \in Strings /\ <<>> \in Strings
    BY <1>1, <2>2 DEF Strings
  <2>4. p = [op |-> op, key |-> k, val |-> <<>>]
    BY <2>1 DEF Dels
  <2> HIDE DEF k, p
  <2>5. p = [op |-> p.op, key |-> p.key, val |-> p.val] /\ p.key \in Strings /\ p.val \in Strings
    BY <2>3, <2>4
  <2> QED  BY <2>5 DEF p
<1>4. \/ \E op : Logged(ts, b) = Puts(op, ts)
      \/ \E op : Logged(ts, b) = Dels(op, ts)
      \/ Logged(ts, b) = <<>>
  BY DEF Logged
<1>5. l.op \in {"put", "del"}
  BY LoggedOps
<1>6. l = [op |-> l.op, key |-> l.key, val |-> l.val] /\ l.key \in Strings /\ l.val \in Strings
  <2>1. ASSUME NEW op, Logged(ts, b) = Puts(op, ts)
        PROVE  l = [op |-> l.op, key |-> l.key, val |-> l.val] /\ l.key \in Strings /\ l.val \in Strings
    BY <1>2, <2>1
  <2>2. ASSUME NEW op, Logged(ts, b) = Dels(op, ts)
        PROVE  l = [op |-> l.op, key |-> l.key, val |-> l.val] /\ l.key \in Strings /\ l.val \in Strings
    BY <1>3, <2>2
  <2> QED  BY <1>4, <2>1, <2>2
<1> QED  BY <1>5, <1>6

(* The name of an operation is a word of one character.                    *)
LEMMA NamesAreWords ==
  ASSUME NEW op \in Op
  PROVE  /\ <<op>> \in Word /\ <<op>> \in Seq(Ink) /\ <<op>> \in Seq(Chars)
         /\ <<op>> # <<>> /\ Len(<<op>>) = 1
         /\ ~Opens(<<op>>) /\ Words(<<op>>) = <<<<op>>>>
<1>1. op \in Chars /\ op \in Ink /\ op # Quote
  BY CharAssumption DEF Chars, Ink
<1>2. <<op>> \in Seq(Ink) /\ <<op>> \in Seq(Chars) /\ <<op>> # <<>> /\ <<op>>[1] = op
      /\ Len(<<op>>) = 1
  BY <1>1
<1> QED  BY <1>1, <1>2, WordsOfWord DEF Word, Opens

(* The words of the line that is written for a change.                     *)
LEMMA WordsOfText ==
  ASSUME NEW op \in {"put", "del"}, NEW k \in Strings, NEW v \in Strings
  PROVE  /\ Text([op |-> op, key |-> k, val |-> v]) \in Seq(Chars)
         /\ Words(Text([op |-> op, key |-> k, val |-> v]))
              = IF op = "put" THEN (<<<<"put">>>> \o Words(k)) \o Words(v)
                ELSE <<<<"del">>>> \o Words(k)
<1>1. k \in Seq(Chars) /\ v \in Seq(Chars) /\ "put" \in Op /\ "del" \in Op
  BY DEF Strings, Op
<1>2. ASSUME NEW o \in Op
      PROVE  Join(<<o>>, k) \in Seq(Chars) /\ Words(Join(<<o>>, k)) = <<<<o>>>> \o Words(k)
  <2>1. <<o>> \in Seq(Chars) /\ Words(<<o>>) = <<<<o>>>>
    BY NamesAreWords, Zenon
  <2>2. Join(<<o>>, k) \in Seq(Chars)
    BY <1>1, <2>1, JoinIs, Zenon
  <2>3. Words(Join(<<o>>, k)) = Words(<<o>>) \o Words(k)
    BY <1>1, <2>1, WordsOfJoin, Zenon
  <2> QED  BY <2>1, <2>2, <2>3, Zenon
<1>3. CASE op = "put"
  <2>1. Text([op |-> op, key |-> k, val |-> v]) = Join(Join(<<"put">>, k), v)
    BY <1>3 DEF Text
  <2>2. Join(<<"put">>, k) \in Seq(Chars)
    BY <1>1, <1>2
  <2>3. Join(Join(<<"put">>, k), v) \in Seq(Chars)
    BY <1>1, <2>2, JoinIs
  <2>4. Words(Join(Join(<<"put">>, k), v)) = Words(Join(<<"put">>, k)) \o Words(v)
    BY <1>1, <2>2, WordsOfJoin
  <2> QED  BY <1>1, <1>2, <1>3, <2>1, <2>3, <2>4
<1>4. CASE op = "del"
  <2>1. Text([op |-> op, key |-> k, val |-> v]) = Join(<<"del">>, k)
    BY <1>4 DEF Text
  <2> QED  BY <1>1, <1>2, <1>4, <2>1
<1> QED  BY <1>3, <1>4

(* A line of the log is a single change when it is replayed.               *)
LEMMA ReplayIsSingle ==
  ASSUME NEW op \in {"put", "del"}, NEW k \in Strings, NEW v \in Strings
  PROVE  Logged(Tokenize(Text([op |-> op, key |-> k, val |-> v])), TRUE) = <<>>
<1> DEFINE s == Text([op |-> op, key |-> k, val |-> v])
           ws == Words(s)
           ts == Tokenize(s)
<1>1. s \in Seq(Chars) /\ op \in Op /\ Words(k) \in Seq(Word) /\ Words(v) \in Seq(Word)
      /\ ws = IF op = "put" THEN (<<<<"put">>>> \o Words(k)) \o Words(v)
              ELSE <<<<"del">>>> \o Words(k)
  BY WordsOfText, WordsTypes DEF Op, Strings
<1> HIDE DEF s
<1>2. <<op>> \in Word /\ ~Opens(<<op>>) /\ Len(<<op>>) = 1
  BY <1>1, NamesAreWords
<1>3. ASSUME NEW x \in Seq(Word)
      PROVE  /\ <<<<op>>>> \o x \in Seq(Word)
             /\ Len(<<<<op>>>> \o x) >= 1 /\ (<<<<op>>>> \o x)[1] = <<op>>
  <2>1. <<<<op>>>> \in Seq(Word) /\ Len(<<<<op>>>>) = 1 /\ <<<<op>>>>[1] = <<op>>
    BY <1>2
  <2> DEFINE y == <<<<op>>>>
  <2> HIDE DEF y
  <2>2. y \in Seq(Word) /\ Len(y) = 1 /\ y[1] = <<op>> /\ Len(x) \in Nat
    BY <2>1, LenProperties DEF y
  <2>3. /\ y \o x \in Seq(Word) /\ Len(y \o x) = Len(y) + Len(x)
        /\ \A i \in 1..(Len(y) + Len(x)) :
             (y \o x)[i] = IF i <= Len(y) THEN y[i] ELSE x[i - Len(y)]
    BY <2>2, ConcatProperties
  <2>4. (y \o x)[1] = y[1] /\ Len(y \o x) >= 1
    BY <2>2, <2>3
  <2> QED  BY <2>2, <2>3, <2>4 DEF y
<1>4. ws \in Seq(Word) /\ Len(ws) >= 1 /\ ws[1] = <<op>>
  <2>1. CASE op = "put"
    <3> DEFINE y == <<<<op>>>> \o Words(k)
               x == Words(v)
    <3>1. y \in Seq(Word) /\ Len(y) >= 1 /\ y[1] = <<op>> /\ x \in Seq(Word)
      BY <1>1, <1>3
    <3>2. ws = y \o x
      BY <1>1, <2>1
    <3> HIDE DEF y, x, ws
    <3>3. Len(y) \in Nat /\ Len(x) \in Nat
      BY <3>1, LenProperties
    <3>4. /\ y \o x \in Seq(Word) /\ Len(y \o x) = Len(y) + Len(x)
          /\ \A i \in 1..(Len(y) + Len(x)) :
               (y \o x)[i] = IF i <= Len(y) THEN y[i] ELSE x[i - Len(y)]
      BY <3>1, ConcatProperties
    <3>5. (y \o x)[1] = y[1] /\ Len(y \o x) >= 1
      BY <3>1, <3>3, <3>4
    <3> QED  BY <3>1, <3>2, <3>4, <3>5
  <2>2. CASE op = "del"
    BY <1>1, <1>3, <2>2
  <2> QED  BY <2>1, <2>2
<1> HIDE DEF ws
<1>5. ts # <<>> /\ ts[1] = <<op>>
  BY <1>2, <1>4, FirstToken DEF Tokenize, ws
<1> HIDE DEF ts
<1>6. Name(ts) = op
  BY <1>2, <1>5 DEF Name
<1>7. ~Is(ts, "mput") /\ ~Is(ts, "mdel")
  BY <1>6 DEF Is
<1>8. Logged(ts, TRUE) = <<>>
  BY <1>7 DEF Logged
<1> QED  BY <1>8 DEF ts, s

(* Replay writes nothing to the log that it reads, whatever the tokens of  *)
(* the command were and whatever tokenize makes of the logged line         *)
(* (db.cpp, loadFromLog and the replaying flag of parseCommand).           *)
THEOREM ReplayAddsNothing == Editing => []ReplayLogsNothing
<1>1. ASSUME line \in Seq(Chars) PROVE ReplayLogsNothing
  <2>1. Command \in Seq(Strings)
    BY <1>1, WordsTypes, GroupedTypes DEF Command, Tokenize
  <2>2. ASSUME NEW n \in DOMAIN Logged(Command, FALSE)
        PROVE  Logged(Tokenize(Text(Logged(Command, FALSE)[n])), TRUE) = <<>>
    <3> DEFINE l == Logged(Command, FALSE)[n]
    <3>1. /\ l = [op |-> l.op, key |-> l.key, val |-> l.val]
          /\ l.op \in {"put", "del"} /\ l.key \in Strings /\ l.val \in Strings
      BY <2>1, LoggedTypes
    <3> HIDE DEF l
    <3>2. Logged(Tokenize(Text([op |-> l.op, key |-> l.key, val |-> l.val])), TRUE) = <<>>
      BY <3>1, ReplayIsSingle
    <3>3. Logged(Tokenize(Text(l)), TRUE) = <<>>
      BY <3>1, <3>2
    <3> QED  BY <3>3 DEF l
  <2> QED  BY <2>2 DEF ReplayLogsNothing
<1> QED  BY <1>1, LinesAreStrings, PTL


(* The words ws take tokenize from the state a to the state b.             *)
Goes(a, ws, b) ==
  \E r : /\ r \in [0..Len(ws) -> TokenState]
         /\ r[0] = a
         /\ \A i \in 1..Len(ws) : r[i] = TakeWord(r[i - 1], ws[i])
         /\ r[Len(ws)] = b

(* None leads nowhere, and one a single step.                              *)
LEMMA GoesStep ==
  ASSUME NEW a \in TokenState
  PROVE  /\ Goes(a, <<>>, a)
         /\ \A w \in Word : Goes(a, <<w>>, TakeWord(a, w))
<1>1. Goes(a, <<>>, a)
  <2> DEFINE r == [i \in 0..0 |-> a]
  <2>1. Len(<<>>) = 0 /\ r \in [0..0 -> TokenState] /\ r[0] = a
    OBVIOUS
  <2> HIDE DEF r
  <2> QED  BY <2>1 DEF Goes
<1>2. ASSUME NEW w \in Word PROVE Goes(a, <<w>>, TakeWord(a, w))
  <2> DEFINE ws == <<w>>
             b == TakeWord(a, w)
             r == [i \in 0..1 |-> IF i = 0 THEN a ELSE b]
  <2>1. b \in TokenState
    BY TakeTypes
  <2> HIDE DEF b
  <2>2. Len(ws) = 1 /\ ws[1] = w
    OBVIOUS
  <2>3. r \in [0..1 -> TokenState] /\ r[0] = a /\ r[1] = b
    BY <2>1
  <2> HIDE DEF r, ws
  <2>4. \A i \in 1..Len(ws) : r[i] = TakeWord(r[i - 1], ws[i])
    <3>1. r[1] = TakeWord(r[1 - 1], ws[1])
      BY <2>2, <2>3 DEF b
    <3> QED  BY <2>2, <3>1
  <2>5. Goes(a, ws, b)
    BY <2>2, <2>3, <2>4 DEF Goes
  <2> QED  BY <2>5 DEF ws, b
<1> QED  BY <1>1, <1>2

(* One way after another.                                                  *)
LEMMA GoesOn ==
  ASSUME NEW x \in Seq(Word), NEW y \in Seq(Word), NEW a, NEW b, NEW c,
         Goes(a, x, b), Goes(b, y, c)
  PROVE  Goes(a, x \o y, c)
<1> DEFINE m == Len(x)
           n == Len(y)
           z == x \o y
<1>1. m \in Nat /\ n \in Nat
  BY LenProperties
<1>2. /\ z \in Seq(Word) /\ Len(z) = m + n
      /\ \A i \in 1..(m + n) : z[i] = IF i <= m THEN x[i] ELSE y[i - m]
  BY ConcatProperties
<1> HIDE DEF z
<1>3. PICK p : /\ p \in [0..m -> TokenState] /\ p[0] = a /\ p[m] = b
               /\ \A i \in 1..m : p[i] = TakeWord(p[i - 1], x[i])
  BY DEF Goes
<1>4. PICK q : /\ q \in [0..n -> TokenState] /\ q[0] = b /\ q[n] = c
               /\ \A i \in 1..n : q[i] = TakeWord(q[i - 1], y[i])
  BY DEF Goes
<1> HIDE DEF m, n
<1> DEFINE r == [i \in 0..(m + n) |-> IF i <= m THEN p[i] ELSE q[i - m]]
<1>5. r \in [0..(m + n) -> TokenState]
  BY <1>1, <1>3, <1>4
<1>6. \A i \in 0..m : r[i] = p[i]
  BY <1>1
<1>7. \A i \in 0..n : r[m + i] = q[i]
  <2> SUFFICES ASSUME NEW i \in 0..n PROVE r[m + i] = q[i]
    OBVIOUS
  <2>1. CASE i = 0
    BY <1>1, <1>3, <1>4, <2>1
  <2>2. CASE i # 0
    <3>1. m + i \in 0..(m + n) /\ ~(m + i <= m) /\ (m + i) - m = i
      BY <1>1, <2>2
    <3> QED  BY <3>1
  <2> QED  BY <2>1, <2>2
<1> HIDE DEF r
<1>8. ASSUME NEW i \in 1..(m + n) PROVE r[i] = TakeWord(r[i - 1], z[i])
  <2>1. CASE i <= m
    <3>1. i \in 1..m /\ i \in 0..m /\ i - 1 \in 0..m
      BY <1>1, <2>1
    <3> QED  BY <1>2, <1>3, <1>6, <2>1, <3>1
  <2>2. CASE ~(i <= m)
    <3> DEFINE k == i - m
    <3>1. k \in 1..n /\ k \in 0..n /\ k - 1 \in 0..n /\ i = m + k /\ i - 1 = m + (k - 1)
      BY <1>1, <2>2
    <3>2. z[i] = y[k]
      BY <1>2, <2>2
    <3> HIDE DEF k
    <3>3. r[m + k] = q[k] /\ r[m + (k - 1)] = q[k - 1]
      BY <1>7, <3>1
    <3>4. q[k] = TakeWord(q[k - 1], y[k])
      BY <1>4, <3>1
    <3> QED  BY <3>1, <3>2, <3>3, <3>4
  <2> QED  BY <2>1, <2>2
<1>9. r[0] = a /\ r[m + n] = c
  BY <1>1, <1>3, <1>4, <1>6, <1>7
<1>10. Goes(a, z, c)
  <2>1. \A i \in 1..Len(z) : r[i] = TakeWord(r[i - 1], z[i])
    BY <1>2, <1>8
  <2> QED  BY <1>2, <1>5, <1>9, <2>1 DEF Goes
<1> QED  BY <1>10 DEF z

(* From the start, what is left at the end are the tokens.                 *)
LEMMA GoesGrouped ==
  ASSUME NEW ws \in Seq(Word), NEW b, Goes(TokenStart, ws, b)
  PROVE  Grouped(ws) = End(b)
<1> DEFINE n == Len(ws)
<1>1. n \in Nat
  BY LenProperties
<1>2. PICK p : Takes(p, ws) /\ End(p[n]) = Grouped(ws)
  BY GroupsRun DEF TakesTo
<1>3. PICK q : /\ q \in [0..n -> TokenState] /\ q[0] = TokenStart /\ q[n] = b
               /\ \A i \in 1..n : q[i] = TakeWord(q[i - 1], ws[i])
  BY DEF Goes
<1>4. p[0] = TokenStart /\ \A i \in 1..n : p[i] = TakeWord(p[i - 1], ws[i])
  BY <1>2 DEF Takes
<1> HIDE DEF n
<1> DEFINE S == {i \in 0..n : p[i] = q[i]}
<1>5. 0 \in S
  BY <1>1, <1>3, <1>4
<1>6. ASSUME NEW i \in 1..n, i - 1 \in S PROVE i \in S
  <2>1. p[i - 1] = q[i - 1] /\ i \in 0..n
    BY <1>1, <1>6
  <2>2. p[i] = q[i]
    BY <1>3, <1>4, <2>1
  <2> QED  BY <2>1, <2>2
<1>7. p[n] = q[n]
  <2> HIDE DEF S
  <2>1. \A i \in 0..n : i \in S
    BY <1>1, <1>5, <1>6, Counting
  <2>2. n \in 0..n
    BY <1>1
  <2> USE DEF S
  <2> QED  BY <2>1, <2>2
<1> QED  BY <1>2, <1>3, <1>7


(* A quotation is left open, or closed, by any command that has it: the    *)
(* words in it take tokenize from any tokens to the same quotation.        *)
LeftOpen(q) ==
  /\ q \in Strings /\ q # <<>> /\ Opens(q) /\ ~Closes(q)
  /\ \A ts \in Seq(Strings) : Goes(Between(ts), Words(q), Within(ts, q))

Closed(t) ==
  /\ t \in Strings /\ t # <<>> /\ Opens(t) /\ Closes(t) /\ Has(Space, t)
  /\ \A ts \in Seq(Strings) : Goes(Between(ts), Words(t), Between(Append(ts, t)))

(* What a token can be.                                                    *)
Kind(t) == t \in Seq(Ink) \/ Closed(t) \/ (LeftOpen(t) /\ Has(Space, t))

(* The states of tokenize are states.                                      *)
LEMMA BetweenTypes ==
  /\ \A ts \in Seq(Strings) : Between(ts) \in TokenState
  /\ \A ts \in Seq(Strings), q \in Strings : Within(ts, q) \in TokenState
<1>1. <<>> \in Strings
  BY DEF Strings
<1> QED  BY <1>1 DEF Between, Within, TokenState

(* The ends of two strings with a space between.                           *)
LEMMA JoinEnds ==
  ASSUME NEW q \in Strings, q # <<>>, NEW w \in Word
  PROVE  /\ Join(q, w) \in Strings /\ Join(q, w) # <<>> /\ Has(Space, Join(q, w))
         /\ (Opens(Join(q, w)) <=> Opens(q)) /\ (Closes(Join(q, w)) <=> Closes(w))
         /\ Words(Join(q, w)) = Words(q) \o <<w>>
<1> DEFINE u == Join(q, w)
           m == Len(q)
           n == Len(w)
<1>1. q \in Seq(Chars) /\ w \in Strings /\ w \in Seq(Chars) /\ w # <<>> /\ w \in Seq(Ink)
  BY WordsAreStrings DEF Strings, Word
<1>2. m \in Nat \ {0} /\ n \in Nat \ {0}
  BY <1>1, LenProperties, EmptySeq
<1>3. /\ u \in Seq(Chars) /\ Len(u) = m + 1 + n
      /\ \A i \in 1..m : u[i] = q[i]
      /\ u[m + 1] = Space
      /\ \A j \in 1..n : u[m + 1 + j] = w[j]
  BY <1>1, JoinIs
<1>4. Words(u) = Words(q) \o <<w>>
  BY <1>1, WordsOfJoin, WordsOfWord
<1>5. u \in Strings /\ u # <<>>
  BY <1>1, JoinsNotEmpty
<1> HIDE DEF u, m, n
<1>6. u[1] = q[1] /\ u[Len(u)] = w[n]
  <2>1. u[m + 1 + n] = w[n]
    BY <1>2, <1>3
  <2> QED  BY <1>2, <1>3, <2>1
<1>7. Has(Space, u)
  <2>1. m + 1 \in 1..Len(u) /\ DOMAIN u = 1..Len(u)
    BY <1>2, <1>3, LenProperties
  <2> QED  BY <1>3, <2>1 DEF Has
<1> QED  BY <1>4, <1>5, <1>6, <1>7 DEF Opens, Closes, u, n

(* A word that opens a quotation leaves it open, or is stripped.           *)
LEMMA OpeningWord ==
  ASSUME NEW w \in Word
  PROVE  /\ Opens(w) /\ ~Closes(w) => LeftOpen(w)
         /\ Stripped(w) \in Seq(Ink)
<1>1. w \in Strings /\ w \in Seq(Ink) /\ w # <<>> /\ ~Has(Space, w)
  BY WordsAreStrings DEF Word
<1>2. ASSUME Opens(w), ~Closes(w) PROVE LeftOpen(w)
  <2>1. ASSUME NEW ts \in Seq(Strings) PROVE Goes(Between(ts), Words(w), Within(ts, w))
    <3>1. Words(w) = <<w>>
      BY <1>1, WordsOfWord
    <3>2. TakeWord(Between(ts), w) = Within(ts, w)
      BY <1>2, TakeCases
    <3>3. Goes(Between(ts), <<w>>, TakeWord(Between(ts), w))
      BY GoesStep, BetweenTypes
    <3> QED  BY <3>1, <3>2, <3>3
  <2> QED  BY <1>1, <1>2, <2>1 DEF LeftOpen
<1>3. Stripped(w) \in Seq(Ink)
  <2> DEFINE k == Len(w) - 1
  <2>1. k \in Int /\ 2 \in Int /\ \A i \in 2..k : w[i] \in Ink
    BY <1>1, LenProperties
  <2> HIDE DEF k
  <2>2. SubSeq(w, 2, k) \in Seq(Ink)
    BY <2>1, SubSeqProperties
  <2> QED  BY <1>1, <2>2 DEF Stripped, k
<1> QED  BY <1>2, <1>3

(* The next word leaves a quotation open, or closes it.                    *)
LEMMA NextWord ==
  ASSUME NEW q, LeftOpen(q), NEW w \in Word
  PROVE  /\ Closes(w) => Closed(Join(q, w)) /\ Stripped(Join(q, w)) = Join(q, w)
         /\ ~Closes(w) => LeftOpen(Join(q, w))
<1> DEFINE u == Join(q, w)
<1>1. q \in Strings /\ q # <<>> /\ Opens(q) /\ Words(q) \in Seq(Word) /\ <<w>> \in Seq(Word)
  BY WordsTypes DEF LeftOpen, Strings
<1>2. /\ u \in Strings /\ u # <<>> /\ Has(Space, u)
      /\ (Opens(u) <=> Opens(q)) /\ (Closes(u) <=> Closes(w))
      /\ Words(u) = Words(q) \o <<w>>
  BY <1>1, JoinEnds
<1>3. Stripped(u) = u
  BY <1>2 DEF Stripped
<1>4. ASSUME NEW ts \in Seq(Strings)
      PROVE  Goes(Between(ts), Words(u), TakeWord(Within(ts, q), w))
  <2>1. Goes(Between(ts), Words(q), Within(ts, q))
    BY DEF LeftOpen
  <2>2. Goes(Within(ts, q), <<w>>, TakeWord(Within(ts, q), w))
    BY <1>1, GoesStep, BetweenTypes
  <2>3. Goes(Between(ts), Words(q) \o <<w>>, TakeWord(Within(ts, q), w))
    BY <1>1, <2>1, <2>2, GoesOn
  <2> QED  BY <1>2, <2>3
<1>5. ASSUME Closes(w) PROVE Closed(u)
  <2>1. ASSUME NEW ts \in Seq(Strings) PROVE TakeWord(Within(ts, q), w) = Between(Append(ts, u))
    BY <1>1, <1>3, <1>5, TakeCases
  <2> HIDE DEF u
  <2>2. \A ts \in Seq(Strings) : Goes(Between(ts), Words(u), Between(Append(ts, u)))
    BY <1>4, <2>1
  <2> QED  BY <1>1, <1>2, <1>5, <2>2 DEF Closed
<1>6. ASSUME ~Closes(w) PROVE LeftOpen(u)
  <2>1. ASSUME NEW ts \in Seq(Strings) PROVE TakeWord(Within(ts, q), w) = Within(ts, u)
    BY <1>6, TakeCases
  <2> HIDE DEF u
  <2>2. \A ts \in Seq(Strings) : Goes(Between(ts), Words(u), Within(ts, u))
    BY <1>4, <2>1
  <2> QED  BY <1>1, <1>2, <1>6, <2>2 DEF LeftOpen
<1> QED  BY <1>3, <1>5, <1>6


(* Tokens of these kinds.                                                  *)
Kinds(ts) == ts \in Seq(Strings) /\ \A i \in 1..Len(ts) : Kind(ts[i])

(* One more.                                                               *)
LEMMA KindsAppend ==
  ASSUME NEW ts, Kinds(ts), NEW t \in Strings, Kind(t)
  PROVE  Kinds(Append(ts, t))
<1> DEFINE v == Append(ts, t)
           n == Len(ts)
<1>1. /\ v \in Seq(Strings) /\ Len(v) = n + 1 /\ v[n + 1] = t
      /\ \A i \in 1..n : v[i] = ts[i]
  BY AppendProperties DEF Kinds
<1>2. n \in Nat
  BY LenProperties DEF Kinds
<1>3. ASSUME NEW i \in 1..(n + 1) PROVE Kind(v[i])
  <2> HIDE DEF v
  <2>1. CASE i = n + 1
    BY <1>1, <2>1
  <2>2. CASE i # n + 1
    <3>1. i \in 1..n
      BY <1>2, <2>2
    <3>2. v[i] = ts[i] /\ Kind(ts[i])
      BY <1>1, <3>1 DEF Kinds
    <3> QED  BY <3>2
  <2> QED  BY <2>1, <2>2
<1> HIDE DEF v
<1>4. Kinds(v)
  BY <1>1, <1>3 DEF Kinds
<1> QED  BY <1>4 DEF v

(* The states with such tokens and such a quotation.                       *)
Sound(a) ==
  \E ts : Kinds(ts) /\ (a = Between(ts) \/ \E q : LeftOpen(q) /\ a = Within(ts, q))

(* A word leads from one to the next.                                      *)
LEMMA SoundStep ==
  ASSUME NEW a, Sound(a), NEW w \in Word
  PROVE  Sound(TakeWord(a, w))
<1>1. PICK ts : Kinds(ts) /\ (a = Between(ts) \/ \E q : LeftOpen(q) /\ a = Within(ts, q))
  BY DEF Sound
<1>2. w \in Strings /\ w \in Seq(Ink) /\ Stripped(w) \in Strings /\ Stripped(w) \in Seq(Ink)
  BY WordsAreStrings, StrippedTypes, OpeningWord
<1>3. ASSUME NEW v, Kinds(v) PROVE Sound(Between(v))
  BY <1>3 DEF Sound
<1>4. ASSUME NEW q, LeftOpen(q) PROVE Sound(Within(ts, q))
  BY <1>1, <1>4 DEF Sound
<1>5. ASSUME NEW t \in Strings, Kind(t) PROVE Sound(Between(Append(ts, t)))
  BY <1>1, <1>3, <1>5, KindsAppend
<1>6. CASE a = Between(ts)
  <2>1. Kind(w) /\ Kind(Stripped(w))
    BY <1>2 DEF Kind
  <2>2. CASE ~Opens(w)
    BY <1>2, <1>5, <1>6, <2>1, <2>2, TakeCases
  <2>3. CASE Opens(w) /\ Closes(w)
    BY <1>2, <1>5, <1>6, <2>1, <2>3, TakeCases
  <2>4. CASE Opens(w) /\ ~Closes(w)
    BY <1>4, <1>6, <2>4, TakeCases, OpeningWord
  <2> QED  BY <2>2, <2>3, <2>4
<1>7. ASSUME NEW q, LeftOpen(q), a = Within(ts, q) PROVE Sound(TakeWord(a, w))
  <2>1. q \in Strings
    BY <1>7 DEF LeftOpen
  <2> DEFINE u == Join(q, w)
  <2>2. CASE Closes(w)
    <3>1. Closed(u) /\ Stripped(u) = u
      BY <1>7, <2>2, NextWord
    <3>2. TakeWord(a, w) = Between(Append(ts, u))
      BY <1>7, <2>1, <2>2, <3>1, TakeCases
    <3> HIDE DEF u
    <3>3. Kind(u) /\ u \in Strings
      BY <3>1 DEF Kind, Closed
    <3> QED  BY <1>5, <3>2, <3>3
  <2>3. CASE ~Closes(w)
    <3>1. LeftOpen(u)
      BY <1>7, <2>3, NextWord
    <3>2. TakeWord(a, w) = Within(ts, u)
      BY <1>7, <2>3, TakeCases
    <3> HIDE DEF u
    <3> QED  BY <1>4, <3>1, <3>2
  <2> QED  BY <2>2, <2>3
<1> QED  BY <1>1, <1>6, <1>7

(* The end of the line leaves tokens of the three kinds.                   *)
LEMMA SoundEnd ==
  ASSUME NEW a, Sound(a)
  PROVE  Kinds(End(a))
<1>1. PICK ts : Kinds(ts) /\ (a = Between(ts) \/ \E q : LeftOpen(q) /\ a = Within(ts, q))
  BY DEF Sound
<1>2. CASE a = Between(ts)
  BY <1>1, <1>2, EndCases
<1>3. ASSUME NEW q, LeftOpen(q), a = Within(ts, q) PROVE Kinds(End(a))
  <2>1. q \in Strings /\ q # <<>> /\ Stripped(q) \in Strings
    BY <1>3, StrippedTypes DEF LeftOpen
  <2>2. End(a) = Append(ts, Stripped(q))
    BY <1>3, <2>1, EndCases
  <2>3. Kind(Stripped(q))
    <3>1. CASE Has(Space, q)
      BY <1>3, <3>1 DEF Kind, Stripped
    <3>2. CASE ~Has(Space, q)
      <4>1. Len(q) \in Nat /\ q \in [1..Len(q) -> Chars] /\ DOMAIN q = 1..Len(q)
        BY <2>1, LenProperties DEF Strings
      <4>2. \A i \in 1..Len(q) : q[i] \in Ink
        BY <3>2, <4>1 DEF Has, Ink
      <4>3. q \in [1..Len(q) -> Ink]
        BY <4>1, <4>2
      <4>4. q \in Seq(Ink)
        BY <4>1, <4>3
      <4>5. q \in Word
        BY <2>1, <4>4 DEF Word
      <4> QED  BY <4>5, OpeningWord DEF Kind
    <3> QED  BY <3>1, <3>2
  <2> QED  BY <1>1, <2>1, <2>2, <2>3, KindsAppend
<1> QED  BY <1>1, <1>2, <1>3

(* Every token is of one of the three kinds.                               *)
LEMMA TokenKinds ==
  ASSUME NEW ws \in Seq(Word)
  PROVE  Kinds(Grouped(ws))
<1> DEFINE n == Len(ws)
<1>1. n \in Nat /\ \A i \in 1..n : ws[i] \in Word
  BY LenProperties
<1>2. PICK r : Takes(r, ws) /\ End(r[n]) = Grouped(ws)
  BY GroupsRun DEF TakesTo
<1>3. r[0] = TokenStart /\ \A i \in 1..n : r[i] = TakeWord(r[i - 1], ws[i])
  BY <1>2 DEF Takes
<1> HIDE DEF n
<1> DEFINE S == {i \in 0..n : Sound(r[i])}
<1>4. 0 \in S
  <2>1. Kinds(<<>>) /\ r[0] = Between(<<>>)
    BY <1>3 DEF Kinds, TokenStart, Between
  <2> QED  BY <1>1, <2>1 DEF Sound
<1>5. ASSUME NEW i \in 1..n, i - 1 \in S PROVE i \in S
  <2>1. Sound(r[i - 1]) /\ ws[i] \in Word /\ i \in 0..n
    BY <1>1, <1>5
  <2>2. Sound(TakeWord(r[i - 1], ws[i]))
    BY <2>1, SoundStep
  <2> QED  BY <1>3, <2>1, <2>2
<1>6. Sound(r[n])
  <2> HIDE DEF S
  <2>1. \A i \in 0..n : i \in S
    BY <1>1, <1>4, <1>5, Counting
  <2>2. n \in 0..n
    BY <1>1
  <2> USE DEF S
  <2> QED  BY <2>1, <2>2
<1> QED  BY <1>2, <1>6, SoundEnd


(* A logged key is a token of the command.                                 *)
LEMMA LoggedKeys ==
  ASSUME NEW ts \in Seq(Strings), NEW b \in BOOLEAN, NEW n \in DOMAIN Logged(ts, b)
  PROVE  \E i \in 1..Len(ts) : Logged(ts, b)[n].key = ts[i]
<1>1. Len(ts) \in Nat
  BY LenProperties
<1>2. ASSUME NEW op, NEW m \in DOMAIN Puts(op, ts)
      PROVE  \E i \in 1..Len(ts) : Puts(op, ts)[m].key = ts[i]
  <2>1. m \in 1..((Len(ts) - 1) \div 2)
    BY DEF Puts
  <2>2. 2 * m \in 1..Len(ts)
    BY <1>1, <2>1
  <2>3. Puts(op, ts)[m].key = ts[2 * m]
    BY <2>1 DEF Puts
  <2> QED  BY <2>2, <2>3
<1>3. ASSUME NEW op, NEW m \in DOMAIN Dels(op, ts)
      PROVE  \E i \in 1..Len(ts) : Dels(op, ts)[m].key = ts[i]
  <2>1. m \in 1..(Len(ts) - 1)
    BY DEF Dels
  <2>2. m + 1 \in 1..Len(ts)
    BY <1>1, <2>1
  <2>3. Dels(op, ts)[m].key = ts[m + 1]
    BY <2>1 DEF Dels
  <2> QED  BY <2>2, <2>3
<1>4. \/ \E op : Logged(ts, b) = Puts(op, ts)
      \/ \E op : Logged(ts, b) = Dels(op, ts)
      \/ Logged(ts, b) = <<>>
  BY DEF Logged
<1>5. ASSUME NEW op, Logged(ts, b) = Puts(op, ts)
      PROVE  \E i \in 1..Len(ts) : Logged(ts, b)[n].key = ts[i]
  BY <1>2, <1>5
<1>6. ASSUME NEW op, Logged(ts, b) = Dels(op, ts)
      PROVE  \E i \in 1..Len(ts) : Logged(ts, b)[n].key = ts[i]
  BY <1>3, <1>6
<1> QED  BY <1>4, <1>5, <1>6

(* A letter is a word that neither opens nor closes a quotation.           *)
LEMMA LettersAreWords ==
  ASSUME NEW c \in Letter
  PROVE  /\ <<c>> \in Word /\ <<c>> \in Strings /\ Words(<<c>>) = <<<<c>>>>
         /\ ~Opens(<<c>>) /\ ~Closes(<<c>>)
<1>1. c \in Chars /\ c \in Ink /\ c # Quote
  BY CharAssumption DEF Chars, Ink
<1>2. <<c>> \in Seq(Ink) /\ <<c>> \in Seq(Chars) /\ <<c>> # <<>> /\ <<c>>[1] = c
      /\ Len(<<c>>) = 1
  BY <1>1
<1> QED  BY <1>1, <1>2, WordsOfWord DEF Word, Strings, Opens, Closes

(* A word that loses its ends is another.                                  *)
LEMMA StrippedDiffers ==
  ASSUME NEW w \in Word
  PROVE  Stripped(w) # w
<1> DEFINE k == Len(w) - 1
<1>1. w \in Seq(Ink) /\ ~Has(Space, w) /\ Len(w) \in Nat \ {0}
  BY WordsAreStrings
<1>2. k \in Int /\ 2 \in Int /\ \A i \in 2..k : w[i] \in Ink
  BY <1>1, LenProperties
<1> HIDE DEF k
<1>3. Len(SubSeq(w, 2, k)) = IF 2 <= k THEN k - 2 + 1 ELSE 0
  BY <1>2, SubSeqProperties
<1>4. Len(Stripped(w)) # Len(w)
  BY <1>1, <1>3 DEF Stripped, k
<1> QED  BY <1>4

(* The way of the line put <key> <letter> through tokenize.                *)
LEMMA ReadsBackTo ==
  ASSUME NEW t \in Strings, NEW c \in Letter
  PROVE  LET ts == Tokenize(Text([op |-> "put", key |-> t, val |-> <<c>>])) IN
         /\ \A v \in Seq(Strings) :
              Goes(Between(<<<<"put">>>>), Words(t), Between(v)) => ts = Append(v, <<c>>)
         /\ \A q \in Strings :
              Goes(Between(<<<<"put">>>>), Words(t), Within(<<<<"put">>>>, q)) => Len(ts) = 2
<1> DEFINE p == <<"put">>
           w == <<c>>
           x == Words(t)
           s == Text([op |-> "put", key |-> t, val |-> w])
<1>1. /\ p \in Word /\ p \in Strings /\ ~Opens(p)
      /\ w \in Word /\ w \in Strings /\ Words(w) = <<w>> /\ ~Opens(w) /\ ~Closes(w)
  <2>1. "put" \in Op
    BY DEF Op
  <2> QED  BY <2>1, NamesAreWords, LettersAreWords, WordsAreStrings
<1>2. x \in Seq(Word) /\ <<p>> \in Seq(Word) /\ <<w>> \in Seq(Word) /\ <<p>> \in Seq(Strings)
  BY <1>1, WordsTypes DEF Strings
<1>3. s \in Seq(Chars) /\ Words(s) = (<<p>> \o x) \o <<w>>
  BY <1>1, WordsOfText
<1> HIDE DEF p, w, x, s
<1>4. <<p>> \o x \in Seq(Word) /\ (<<p>> \o x) \o <<w>> \in Seq(Word)
  BY <1>2
<1>5. Goes(TokenStart, <<p>>, Between(<<p>>))
  <2>1. TokenStart = Between(<<>>) /\ <<>> \in Seq(Strings) /\ Append(<<>>, p) = <<p>>
    BY DEF TokenStart, Between
  <2>2. TakeWord(Between(<<>>), p) = Between(Append(<<>>, p))
    BY <1>1, TakeCases
  <2> QED  BY <1>1, <2>1, <2>2, GoesStep, BetweenTypes
<1>6. ASSUME NEW b \in TokenState, Goes(Between(<<p>>), x, b)
      PROVE  Tokenize(s) = End(TakeWord(b, w))
  <2>1. Goes(TokenStart, <<p>> \o x, b)
    BY <1>2, <1>5, <1>6, GoesOn
  <2>2. Goes(b, <<w>>, TakeWord(b, w))
    BY <1>1, GoesStep
  <2>3. Goes(TokenStart, (<<p>> \o x) \o <<w>>, TakeWord(b, w))
    BY <1>2, <1>4, <2>1, <2>2, GoesOn
  <2> QED  BY <1>3, <1>4, <2>3, GoesGrouped DEF Tokenize
<1>7. ASSUME NEW v \in Seq(Strings), Goes(Between(<<p>>), x, Between(v))
      PROVE  Tokenize(s) = Append(v, w)
  <2>1. Tokenize(s) = End(TakeWord(Between(v), w))
    BY <1>6, <1>7, BetweenTypes
  <2>2. TakeWord(Between(v), w) = Between(Append(v, w))
    BY <1>1, TakeCases
  <2> QED  BY <2>1, <2>2, EndCases
<1>8. ASSUME NEW q \in Strings, Goes(Between(<<p>>), x, Within(<<p>>, q))
      PROVE  Len(Tokenize(s)) = 2
  <2> DEFINE u == Join(q, w)
  <2>1. Tokenize(s) = End(TakeWord(Within(<<p>>, q), w))
    BY <1>2, <1>6, <1>8, BetweenTypes
  <2>2. TakeWord(Within(<<p>>, q), w) = Within(<<p>>, u)
    BY <1>1, TakeCases
  <2>3. u # <<>> /\ Stripped(u) \in Strings
    BY <1>1, JoinsNotEmpty, StrippedTypes
  <2> HIDE DEF u
  <2>4. Tokenize(s) = Append(<<p>>, Stripped(u))
    BY <2>1, <2>2, <2>3, EndCases
  <2>5. Len(<<p>>) = 1
    OBVIOUS
  <2>6. Len(Append(<<p>>, Stripped(u))) = Len(<<p>>) + 1
    BY <1>2, <2>3, AppendProperties
  <2> QED  BY <2>4, <2>5, <2>6
<1> QED  BY <1>7, <1>8 DEF p, w, x, s

(* What is read back is the key, if it is durable.                         *)
LEMMA ReadBack ==
  ASSUME NEW t \in Strings, Kind(t), NEW c \in Letter
  PROVE  Durable(t) <=>
           Tokenize(Text([op |-> "put", key |-> t, val |-> <<c>>])) = <<<<"put">>, t, <<c>>>>
<1> DEFINE p == <<"put">>
           w == <<c>>
           ts == Tokenize(Text([op |-> "put", key |-> t, val |-> w]))
<1>1. /\ p \in Strings /\ w \in Strings /\ <<p>> \in Seq(Strings)
  <2>1. "put" \in Op
    BY DEF Op
  <2> QED  BY <2>1, NamesAreWords, LettersAreWords, WordsAreStrings
<1>2. /\ \A v \in Seq(Strings) : Goes(Between(<<p>>), Words(t), Between(v)) => ts = Append(v, w)
      /\ \A q \in Strings : Goes(Between(<<p>>), Words(t), Within(<<p>>, q)) => Len(ts) = 2
  BY ReadsBackTo
<1> HIDE DEF p, w, ts
<1>3. Len(<<p, t, w>>) = 3 /\ <<p, t, w>>[2] = t
  OBVIOUS
<1>4. ASSUME NEW v \in Strings
      PROVE  Append(Append(<<p>>, v), w) = <<p, v, w>> /\ Append(<<p>>, v) \in Seq(Strings)
  <2> DEFINE x == Append(<<p>>, v)
             y == Append(x, w)
             z == <<p, v, w>>
  <2>1. x \in Seq(Strings) /\ Len(x) = 2 /\ x[1] = p /\ x[2] = v
    BY <1>1
  <2> HIDE DEF x
  <2>2. y \in Seq(Strings) /\ Len(y) = 3 /\ y[1] = p /\ y[2] = v /\ y[3] = w
    <3>1. x \in Seq(Strings) /\ w \in Strings
      BY <1>1, <2>1
    <3>2. /\ y \in Seq(Strings) /\ Len(y) = Len(x) + 1 /\ y[Len(x) + 1] = w
          /\ \A i \in 1..Len(x) : y[i] = x[i]
      BY <3>1, AppendProperties
    <3> HIDE DEF y
    <3> QED  BY <2>1, <3>2
  <2>3. z \in Seq(Strings) /\ Len(z) = 3 /\ z[1] = p /\ z[2] = v /\ z[3] = w
    BY <1>1
  <2> HIDE DEF y, z
  <2>4. y = z
    BY <2>2, <2>3, SeqEqual
  <2> QED  BY <2>1, <2>4 DEF x, y, z
<1>5. CASE t = <<>>
  <2>1. Words(t) = <<>>
    <3>1. t \in Seq(Ink)
      BY <1>5
    <3> QED  BY <1>5, <3>1, WordsOfWord
  <2>2. Goes(Between(<<p>>), Words(t), Between(<<p>>))
    BY <1>1, <2>1, GoesStep, BetweenTypes
  <2>3. ts = Append(<<p>>, w)
    BY <1>1, <1>2, <2>2
  <2>4. Len(Append(<<p>>, w)) = 2
    BY <1>1
  <2>5. ts # <<p, t, w>>
    BY <1>3, <2>3, <2>4
  <2> QED  BY <1>5, <2>5 DEF Durable, p, w, ts
<1>6. CASE t \in Word
  <2>1. Words(t) = <<t>> /\ ~Has(Space, t) /\ t # <<>> /\ Stripped(t) \in Strings
    BY <1>6, WordsAreStrings, WordsOfWord, StrippedTypes DEF Word
  <2>2. Goes(Between(<<p>>), <<t>>, TakeWord(Between(<<p>>), t))
    BY <1>1, <1>6, GoesStep, BetweenTypes
  <2>3. CASE ~Opens(t)
    <3>1. TakeWord(Between(<<p>>), t) = Between(Append(<<p>>, t))
      BY <1>6, <2>3, TakeCases
    <3>2. ts = <<p, t, w>>
      BY <1>2, <1>4, <2>1, <2>2, <3>1
    <3> QED  BY <2>1, <2>3, <3>2 DEF Durable, p, w, ts
  <2>4. CASE Opens(t) /\ Closes(t)
    <3> DEFINE v == Stripped(t)
    <3>1. v \in Strings /\ v # t
      BY <1>6, <2>1, StrippedDiffers
    <3>2. TakeWord(Between(<<p>>), t) = Between(Append(<<p>>, v))
      BY <1>6, <2>4, TakeCases
    <3> HIDE DEF v
    <3>3. Append(<<p>>, v) \in Seq(Strings) /\ Append(Append(<<p>>, v), w) = <<p, v, w>>
      BY <1>4, <3>1
    <3>4. ts = <<p, v, w>>
      BY <1>2, <2>1, <2>2, <3>2, <3>3
    <3>5. ts # <<p, t, w>>
      BY <3>1, <3>4
    <3> QED  BY <2>1, <2>4, <3>5 DEF Durable, p, w, ts
  <2>5. CASE Opens(t) /\ ~Closes(t)
    <3>1. TakeWord(Between(<<p>>), t) = Within(<<p>>, t)
      BY <1>6, <2>5, TakeCases
    <3>2. Len(ts) = 2
      BY <1>2, <2>1, <2>2, <3>1
    <3>3. ts # <<p, t, w>>
      BY <1>3, <3>2
    <3> QED  BY <2>1, <2>5, <3>3 DEF Durable, p, w, ts
  <2> QED  BY <2>3, <2>4, <2>5
<1>7. CASE Closed(t)
  <2>1. Goes(Between(<<p>>), Words(t), Between(Append(<<p>>, t)))
    BY <1>1, <1>7 DEF Closed
  <2>2. ts = <<p, t, w>>
    BY <1>2, <1>4, <2>1
  <2> QED  BY <1>7, <2>2 DEF Closed, Durable, p, w, ts
<1>8. CASE LeftOpen(t)
  <2>1. Goes(Between(<<p>>), Words(t), Within(<<p>>, t))
    BY <1>1, <1>8 DEF LeftOpen
  <2>2. Len(ts) = 2
    BY <1>2, <2>1
  <2>3. ts # <<p, t, w>>
    BY <1>3, <2>2
  <2> QED  BY <1>8, <2>3 DEF LeftOpen, Durable, p, w, ts
<1> QED  BY <1>5, <1>6, <1>7, <1>8 DEF Kind, Word

(* Which keys a restart finds again: a put or a del writes its key to the  *)
(* AOF as a token, and tokenize makes the same token of it, next to its    *)
(* value, just when it is not empty and opens no quotation, or is one of   *)
(* several words that is closed (db.cpp, appendCommand and loadFromLog;    *)
(* utils.cpp, tokenize).                                                   *)
THEOREM DurableKeysAreReadBack == Editing => []KeysReadBack
<1>1. ASSUME line \in Seq(Chars) PROVE KeysReadBack
  <2>1. Kinds(Command)
    BY <1>1, WordsTypes, TokenKinds DEF Command, Tokenize
  <2>2. Command \in Seq(Strings)
    BY <2>1 DEF Kinds
  <2>3. ASSUME NEW n \in DOMAIN Logged(Command, FALSE)
        PROVE  LET l == Logged(Command, FALSE)[n] IN
               Durable(l.key) <=>
                 \A a \in Letter : Tokenize(Text([l EXCEPT !.op = "put", !.val = <<a>>]))
                                     = <<<<"put">>, l.key, <<a>>>>
    <3> DEFINE l == Logged(Command, FALSE)[n]
               k == l.key
    <3>1. l = [op |-> l.op, key |-> l.key, val |-> l.val] /\ k \in Strings
      BY <2>2, LoggedTypes
    <3>2. Kind(k)
      <4>1. PICK i \in 1..Len(Command) : k = Command[i]
        BY <2>2, LoggedKeys
      <4> QED  BY <2>1, <4>1 DEF Kinds
    <3> HIDE DEF l
    <3>3. ASSUME NEW a \in Letter
          PROVE  [l EXCEPT !.op = "put", !.val = <<a>>] = [op |-> "put", key |-> k, val |-> <<a>>]
      <4> DEFINE w == <<a>>
                 m == [l EXCEPT !.op = "put", !.val = w]
      <4> HIDE DEF w
      <4>1. m \in [op : {"put"}, key : {k}, val : {w}]
        BY <3>1
      <4> HIDE DEF m
      <4>2. m = [op |-> "put", key |-> k, val |-> w]
        BY <4>1
      <4> QED  BY <4>2 DEF m, w
    <3> HIDE DEF k
    <3>4. ASSUME NEW a \in Letter
          PROVE  Durable(k) <=> Tokenize(Text([l EXCEPT !.op = "put", !.val = <<a>>]))
                                  = <<<<"put">>, k, <<a>>>>
      BY <3>1, <3>2, <3>3, ReadBack
    <3>5. Durable(k) <=>
            \A a \in Letter : Tokenize(Text([l EXCEPT !.op = "put", !.val = <<a>>]))
                                = <<<<"put">>, k, <<a>>>>
      BY <3>4, CharAssumption
    <3> QED  BY <3>5 DEF k, l
  <2> QED  BY <2>3 DEF KeysReadBack
<1> QED  BY <1>1, LinesAreStrings, PTL


(* Where the group of a word ends.                                         *)
LEMMA EndOfIs ==
  ASSUME NEW ws \in Seq(Word), NEW i \in 1..Len(ws)
  PROVE  LET e == EndOf(ws, i) IN
         /\ e \in i..Len(ws)
         /\ ~Opens(ws[i]) => e = i
         /\ Opens(ws[i]) => /\ Closes(ws[e]) \/ e = Len(ws)
                            /\ \A h \in i..(e - 1) : ~Closes(ws[h])
<1> DEFINE n == Len(ws)
           e == EndOf(ws, i)
           C == {j \in i..n : Closes(ws[j])}
           First(j) == Closes(ws[j]) /\ \A h \in i..(j - 1) : ~Closes(ws[h])
<1>1. n \in Nat /\ i \in 1..n /\ i \in i..n /\ n \in i..n
  BY LenProperties
<1>2. CASE ~Opens(ws[i])
  <2>1. e = i
    BY <1>2 DEF EndOf
  <2> QED  BY <1>1, <1>2, <2>1
<1>3. CASE Opens(ws[i]) /\ C # {}
  <2>1. C \in SUBSET Nat
    BY <1>1
  <2>2. PICK j \in C : \A h \in C : j <= h
    <3> HIDE DEF C
    <3> QED  BY <1>3, <2>1, SmallestOf
  <2>3. j \in i..n /\ First(j)
    <3>1. ASSUME NEW h \in i..(j - 1) PROVE ~Closes(ws[h])
      <4>1. h \in i..n /\ ~(j <= h)
        BY <1>1, <2>2
      <4>2. h \notin C
        BY <2>2, <4>1
      <4> QED  BY <4>1, <4>2
    <3> QED  BY <2>2, <3>1
  <2>4. e = CHOOSE m \in i..n : First(m)
    BY <1>3 DEF EndOf
  <2>5. e \in i..n /\ First(e)
    <3> HIDE DEF First, e
    <3> QED  BY <2>3, <2>4
  <2> QED  BY <1>3, <2>5
<1>4. CASE Opens(ws[i]) /\ C = {}
  <2>1. e = n
    BY <1>4 DEF EndOf
  <2>2. \A h \in i..(n - 1) : ~Closes(ws[h])
    <3>1. ASSUME NEW h \in i..(n - 1) PROVE ~Closes(ws[h])
      <4>1. h \in i..n /\ h \notin C
        BY <1>1, <1>4
      <4> QED  BY <4>1
    <3> QED  BY <3>1
  <2> QED  BY <1>1, <1>4, <2>1, <2>2
<1> QED  BY <1>2, <1>3, <1>4

(* g is what is joined after each string of x, and v the whole.            *)
Joins(g, w, x) ==
  /\ g \in [0..Len(x) -> Strings]
  /\ g[0] = w
  /\ \A k \in 1..Len(x) : g[k] = Join(g[k - 1], x[k])

JoinsTo(v, w, x) == \E g : Joins(g, w, x) /\ g[Len(x)] = v

(* The fold over the words of a group joins them so.                       *)
LEMMA JoinsRun ==
  ASSUME NEW x \in Seq(Strings), NEW w \in Strings
  PROVE  JoinsTo(FoldLeft(Join, w, x), w, x)
<1> DEFINE n == Len(x)
           step == [y \in Strings \X (1..n) |-> Join(y[1], x[y[2]])]
           F(it) == [t \in SUBSET (1..n) |->
                       IF t = {} THEN w ELSE Join(it[t \ {Max(t)}], x[Max(t)])]
           fold == CHOOSE it : it = F(it)
           r == [i \in 0..n |-> fold[1..i]]
<1>1. n \in Nat /\ DOMAIN x = 1..n /\ \A k \in 1..n : x[k] \in Strings
  BY LenProperties
<1>2. FoldLeft(Join, w, x) = fold[1..n]
  <2> HIDE DEF n
  <2> QED  BY <1>1 DEF FoldLeft, MapThenFoldSet
<1> HIDE DEF n
<1>3. ASSUME NEW a \in Strings, NEW b \in Strings PROVE Join(a, b) \in Strings
  BY WordsAreStrings
<1>4. step \in [Strings \X (1..n) -> Strings]
  <2>1. ASSUME NEW y \in Strings \X (1..n) PROVE Join(y[1], x[y[2]]) \in Strings
    <3>1. y[1] \in Strings /\ x[y[2]] \in Strings
      BY <1>1
    <3> QED  BY <1>3, <3>1
  <2> QED  BY <2>1
<1>5. PICK it \in [SUBSET (1..n) -> Strings] : Folds(it, n, w, step)
  <2> HIDE DEF step
  <2> QED  BY <1>1, <1>4, FoldExists
<1>6. it = F(it)
  <2>1. ASSUME NEW t \in SUBSET (1..n), t # {}
        PROVE  step[<<it[t \ {Max(t)}], Max(t)>>] = Join(it[t \ {Max(t)}], x[Max(t)])
    <3>1. Max(t) \in 1..n
      BY <1>1, <2>1, MaxOf
    <3>2. it[t \ {Max(t)}] \in Strings
      OBVIOUS
    <3> QED  BY <3>1, <3>2
  <2> HIDE DEF step
  <2> DEFINE G(t) == IF t = {} THEN w ELSE step[<<it[t \ {Max(t)}], Max(t)>>]
             H(t) == IF t = {} THEN w ELSE Join(it[t \ {Max(t)}], x[Max(t)])
  <2>2. \A t \in SUBSET (1..n) : G(t) = H(t)
    BY <2>1
  <2>3. it = [t \in SUBSET (1..n) |-> G(t)]
    BY <1>5 DEF Folds
  <2>4. it = [t \in SUBSET (1..n) |-> H(t)]
    <3> HIDE DEF G, H
    <3> QED  BY <2>2, <2>3
  <2> QED  BY <2>4
<1>7. fold = F(fold)
  <2> HIDE DEF F
  <2> QED  BY <1>6
<1>8. fold[1..0] = w
  <2>1. 1..0 = {} /\ 1..0 \in SUBSET (1..n)
    OBVIOUS
  <2> HIDE DEF fold
  <2> QED  BY <1>7, <2>1
<1>9. ASSUME NEW i \in 1..n PROVE fold[1..i] = Join(fold[1..(i - 1)], x[i])
  <2>1. Max(1..i) = i /\ (1..i) \ {i} = 1..(i - 1) /\ 1..i # {} /\ 1..i \in SUBSET (1..n)
    BY <1>1, MaxOfFirst
  <2> HIDE DEF fold
  <2>2. fold[1..i] = Join(fold[(1..i) \ {Max(1..i)}], x[Max(1..i)])
    BY <1>7, <2>1
  <2> QED  BY <2>1, <2>2
<1> DEFINE S == {i \in 0..n : fold[1..i] \in Strings}
<1>10. \A i \in 0..n : i \in S
  <2> HIDE DEF fold
  <2>1. 0 \in S
    BY <1>1, <1>8
  <2>2. ASSUME NEW i \in 1..n, i - 1 \in S PROVE i \in S
    <3>1. fold[1..(i - 1)] \in Strings /\ x[i] \in Strings /\ i \in 0..n
      BY <1>1, <2>2
    <3>2. fold[1..i] \in Strings
      BY <1>3, <1>9, <3>1
    <3> QED  BY <3>1, <3>2
  <2> HIDE DEF S
  <2> QED  BY <1>1, <2>1, <2>2, Counting
<1> HIDE DEF fold
<1>11. r \in [0..n -> Strings]
  BY <1>10
<1>12. \A i \in 0..n : r[i] = fold[1..i]
  OBVIOUS
<1>13. 0 \in 0..n /\ n \in 0..n /\ \A i \in 1..n : i \in 0..n /\ i - 1 \in 0..n
  BY <1>1
<1> HIDE DEF r
<1>14. r[0] = w /\ \A i \in 1..n : r[i] = Join(r[i - 1], x[i])
  BY <1>8, <1>9, <1>12, <1>13
<1>15. Joins(r, w, x)
  BY <1>11, <1>14 DEF Joins, n
<1>16. FoldLeft(Join, w, x) = r[n]
  BY <1>2, <1>12, <1>13
<1> QED  BY <1>15, <1>16 DEF JoinsTo, n


(* The token of the group that starts at a word.                           *)
TokenAt(ws, i) == IF Opens(ws[i]) THEN Stripped(Group(ws, i)) ELSE ws[i]

(* The words behind the first one of a group.                              *)
LEMMA RestIs ==
  ASSUME NEW ws \in Seq(Word), NEW i \in 1..Len(ws), NEW e \in i..Len(ws)
  PROVE  /\ SubSeq(ws, i + 1, e) \in Seq(Strings)
         /\ Len(SubSeq(ws, i + 1, e)) = e - i
         /\ \A k \in 1..(e - i) : SubSeq(ws, i + 1, e)[k] = ws[i + k]
<1> DEFINE b == i + 1
           x == SubSeq(ws, b, e)
<1>1. Len(ws) \in Nat /\ \A j \in 1..Len(ws) : ws[j] \in Strings
  BY LenProperties, WordsAreStrings
<1>2. b \in Int /\ e \in Int /\ \A j \in b..e : ws[j] \in Strings
  BY <1>1
<1>3. i \in Nat /\ e \in Nat /\ i <= e /\ b = i + 1
  BY <1>1
<1> HIDE DEF b
<1>4. /\ x \in Seq(Strings)
      /\ Len(x) = IF b <= e THEN e - b + 1 ELSE 0
      /\ \A k \in 1..(e - b + 1) : x[k] = ws[b + k - 1]
  BY <1>2, SubSeqProperties
<1> HIDE DEF x
<1>5. Len(x) = e - i
  BY <1>3, <1>4
<1>6. \A k \in 1..(e - i) : x[k] = ws[i + k]
  <2> SUFFICES ASSUME NEW k \in 1..(e - i) PROVE x[k] = ws[i + k]
    OBVIOUS
  <2>1. k \in 1..(e - b + 1) /\ b + k - 1 = i + k
    BY <1>3
  <2> QED  BY <1>4, <2>1
<1> QED  BY <1>4, <1>5, <1>6 DEF x, b

(* The way through a group: no word before its end closes it, and then     *)
(* its token is there, or the line is over and puts it there.              *)
LEMMA GroupRun ==
  ASSUME NEW ws \in Seq(Word), NEW r, Takes(r, ws), NEW i \in 1..Len(ws), NEW ts,
         r[i - 1] = Between(ts)
  PROVE  LET e == EndOf(ws, i) IN
         /\ \A h \in i..(e - 1) : r[h].open
         /\ ~r[e].open => r[e] = Between(Append(ts, TokenAt(ws, i)))
         /\ r[e].open => e = Len(ws) /\ End(r[e]) = Append(ts, TokenAt(ws, i))
<1> DEFINE n == Len(ws)
           e == EndOf(ws, i)
           m == e - i
           w == ws[i]
           x == SubSeq(ws, i + 1, e)
<1>1. /\ n \in Nat /\ (\A j \in 1..n : ws[j] \in Word) /\ w \in Word
      /\ w \in Strings /\ w # <<>>
  BY LenProperties, WordsAreStrings DEF Word
<1>2. /\ e \in i..n
      /\ ~Opens(w) => e = i
      /\ Opens(w) => /\ Closes(ws[e]) \/ e = n
                     /\ \A h \in i..(e - 1) : ~Closes(ws[h])
  BY EndOfIs
<1>3. \A j \in 1..n : r[j] = TakeWord(r[j - 1], ws[j])
  BY DEF Takes
<1>4. r[i] = TakeWord(Between(ts), w)
  BY <1>3
<1>5. \A v, q : ~Between(v).open /\ Within(v, q).open
  BY DEF Between, Within
<1>6. CASE ~Opens(w)
  <2>1. r[i] = Between(Append(ts, w))
    BY <1>1, <1>4, <1>6, TakeCases
  <2>2. e = i /\ TokenAt(ws, i) = w
    BY <1>2, <1>6 DEF TokenAt
  <2> HIDE DEF e, w, n
  <2>3. i..(i - 1) = {}
    OBVIOUS
  <2>4. ~r[i].open
    BY <1>5, <2>1
  <2> QED  BY <2>1, <2>2, <2>3, <2>4 DEF e, w, n
<1>7. CASE Opens(w)
  <2>1. x \in Seq(Strings) /\ Len(x) = m /\ \A k \in 1..m : x[k] = ws[i + k]
    <3> HIDE DEF e
    <3> QED  BY <1>2, RestIs
  <2>2. TokenAt(ws, i) = Stripped(FoldLeft(Join, w, x))
    BY <1>7 DEF TokenAt, Group
  <2>3. i \in Nat /\ e \in Nat /\ m \in Nat /\ e = i + m /\ i >= 1 /\ e <= n
    <3> HIDE DEF e
    <3> QED  BY <1>1, <1>2
  <2> HIDE DEF x, m, e
  <2>4. PICK g : Joins(g, w, x) /\ g[Len(x)] = FoldLeft(Join, w, x)
    BY <1>1, <2>1, JoinsRun DEF JoinsTo
  <2>5. /\ g \in [0..m -> Strings] /\ g[0] = w
        /\ \A k \in 1..m : g[k] = Join(g[k - 1], ws[i + k])
        /\ TokenAt(ws, i) = Stripped(g[m])
    BY <2>1, <2>2, <2>4 DEF Joins
  <2>6. ASSUME NEW k \in 0..m PROVE g[k] # <<>> /\ g[k] \in Strings
    <3>1. CASE k = 0
      BY <1>1, <2>3, <2>5, <3>1
    <3>2. CASE k # 0
      <4>1. k \in 1..m /\ k - 1 \in 0..m /\ i + k \in 1..n
        BY <1>1, <2>3, <3>2
      <4>2. g[k - 1] \in Strings /\ ws[i + k] \in Strings /\ g[k] \in Strings
        BY <1>1, <2>5, <4>1, WordsAreStrings
      <4> QED  BY <2>5, <4>1, <4>2, JoinsNotEmpty
    <3> QED  BY <3>1, <3>2
  <2>7. ASSUME NEW k \in 1..m, r[i + (k - 1)] = Within(ts, g[k - 1])
        PROVE  /\ ~Closes(ws[i + k]) => r[i + k] = Within(ts, g[k])
               /\ Closes(ws[i + k]) => r[i + k] = Between(Append(ts, Stripped(g[k])))
    <3> DEFINE j == i + k
               q == g[k - 1]
    <3>1. j \in 1..n /\ j - 1 = i + (k - 1) /\ k - 1 \in 0..m
      BY <1>1, <2>3
    <3>2. ws[j] \in Word /\ r[j] = TakeWord(Within(ts, q), ws[j]) /\ q \in Strings
      BY <1>1, <1>3, <2>6, <2>7, <3>1
    <3>3. g[k] = Join(q, ws[j])
      BY <2>5
    <3> HIDE DEF j, q
    <3>4. /\ ~Closes(ws[j]) => r[j] = Within(ts, g[k])
          /\ Closes(ws[j]) => r[j] = Between(Append(ts, Stripped(g[k])))
      BY <3>2, <3>3, TakeCases
    <3> QED  BY <3>4 DEF j
  <2>8. /\ ~Closes(w) => r[i] = Within(ts, w)
        /\ Closes(w) => r[i] = Between(Append(ts, Stripped(w)))
    BY <1>1, <1>4, <1>7, TakeCases
  <2> DEFINE S == {k \in 0..m : ~Closes(ws[i + k]) => r[i + k] = Within(ts, g[k])}
  <2>9. 0 \in S
    <3>1. i + 0 = i /\ 0 \in 0..m
      BY <2>3
    <3> QED  BY <2>5, <2>8, <3>1
  <2>10. ASSUME NEW k \in 1..m, k - 1 \in S
         PROVE  k \in S /\ r[i + (k - 1)] = Within(ts, g[k - 1])
    <3>1. i + (k - 1) \in i..(e - 1) /\ k \in 0..m
      BY <2>3
    <3>2. ~Closes(ws[i + (k - 1)])
      BY <1>2, <1>7, <3>1 DEF e
    <3>3. r[i + (k - 1)] = Within(ts, g[k - 1])
      BY <2>10, <3>2
    <3>4. ~Closes(ws[i + k]) => r[i + k] = Within(ts, g[k])
      BY <2>7, <3>3
    <3> QED  BY <3>1, <3>3, <3>4
  <2>11. \A k \in 0..m : k \in S
    <3> HIDE DEF S
    <3> QED  BY <2>3, <2>9, <2>10, Counting
  <2>12. ASSUME NEW h \in i..(e - 1) PROVE r[h].open
    <3> DEFINE k == h - i
    <3>1. k \in 0..m /\ i + k = h
      BY <2>3
    <3>2. ~Closes(ws[h])
      BY <1>2, <1>7 DEF e
    <3> HIDE DEF k
    <3>3. r[i + k] = Within(ts, g[k])
      BY <2>11, <3>1, <3>2
    <3> QED  BY <1>5, <3>1, <3>3
  <2>13. CASE ~Closes(ws[e])
    <3>1. e = n
      BY <1>2, <1>7, <2>13 DEF e
    <3>2. m \in S
      BY <2>3, <2>11
    <3>3. r[e] = Within(ts, g[m])
      BY <2>3, <2>13, <3>2
    <3>4. g[m] # <<>>
      BY <2>3, <2>6
    <3>5. End(Within(ts, g[m])) = Append(ts, Stripped(g[m]))
      BY <3>4, EndCases
    <3> QED  BY <1>5, <2>5, <2>12, <3>1, <3>3, <3>5 DEF e
  <2>14. CASE Closes(ws[e])
    <3>1. r[e] = Between(Append(ts, Stripped(g[m])))
      <4>1. CASE m = 0
        BY <2>3, <2>5, <2>8, <2>14, <4>1 DEF w
      <4>2. CASE m # 0
        <5>1. m \in 1..m /\ m - 1 \in 0..m
          BY <2>3, <4>2
        <5>2. r[i + (m - 1)] = Within(ts, g[m - 1])
          BY <2>10, <2>11, <5>1
        <5> QED  BY <2>3, <2>7, <2>14, <5>1, <5>2
      <4> QED  BY <4>1, <4>2
    <3> QED  BY <1>5, <2>5, <2>12, <3>1 DEF e
  <2> QED  BY <2>13, <2>14
<1> QED  BY <1>6, <1>7


(* The words that find no quotation open.                                  *)
Starts(ws, r) == {j \in 1..Len(ws) : ~r[j - 1].open}

(* The words that start a group, in the words of Heads.                    *)
StartGroups(ws, S) ==
  \A j \in 1..Len(ws) : j \in S <=> j = 1 \/ \E i \in S : EndOf(ws, i) = j - 1

(* No quotation is open at the first word, nor behind the end of a group.  *)
LEMMA StartsBehind ==
  ASSUME NEW ws \in Seq(Word), NEW r, Takes(r, ws)
  PROVE  /\ 1 \in 1..Len(ws) => 1 \in Starts(ws, r)
         /\ \A i \in Starts(ws, r) :
              /\ EndOf(ws, i) \in i..Len(ws)
              /\ \A h \in i..(EndOf(ws, i) - 1) : r[h].open
              /\ EndOf(ws, i) + 1 \in 1..Len(ws) => EndOf(ws, i) + 1 \in Starts(ws, r)
<1> DEFINE n == Len(ws)
<1>1. n \in Nat
  BY LenProperties
<1>2. 1 \in 1..n => 1 \in Starts(ws, r)
  <2>1. ~r[1 - 1].open
    BY DEF Takes, TokenStart
  <2> QED  BY <2>1 DEF Starts
<1>3. ASSUME NEW i \in Starts(ws, r)
      PROVE  /\ EndOf(ws, i) \in i..n
             /\ \A h \in i..(EndOf(ws, i) - 1) : r[h].open
             /\ EndOf(ws, i) + 1 \in 1..n => EndOf(ws, i) + 1 \in Starts(ws, r)
  <2> DEFINE e == EndOf(ws, i)
             h == i - 1
  <2>1. i \in 1..n /\ h \in 0..n /\ ~r[h].open
    BY <1>1 DEF Starts
  <2>2. e \in i..n
    BY <2>1, EndOfIs
  <2>3. PICK ts \in Seq(Strings) : r[h] = Between(ts)
    <3>1. PICK v \in Seq(Strings) :
            r[h] = Between(v) \/ \E q \in Strings \ {<<>>} : r[h] = Within(v, q)
      BY <2>1, StatesAre
    <3>2. \A q : Within(v, q).open
      BY DEF Within
    <3> QED  BY <2>1, <3>1, <3>2
  <2>4. /\ \A k \in i..(e - 1) : r[k].open
        /\ r[e].open => e = n
    BY <2>1, <2>3, GroupRun
  <2> HIDE DEF e, h
  <2>5. ASSUME e + 1 \in 1..n PROVE e + 1 \in Starts(ws, r)
    <3>1. (e + 1) - 1 = e /\ e # n
      BY <1>1, <2>1, <2>2, <2>5
    <3>2. ~r[(e + 1) - 1].open
      BY <2>4, <3>1
    <3> QED  BY <2>5, <3>2 DEF Starts
  <2> QED  BY <2>2, <2>4, <2>5 DEF e
<1> QED  BY <1>2, <1>3

(* So they are the words that start a group.                               *)
LEMMA StartsStart ==
  ASSUME NEW ws \in Seq(Word), NEW r, Takes(r, ws)
  PROVE  StartGroups(ws, Starts(ws, r))
<1> DEFINE n == Len(ws)
           B == Starts(ws, r)
<1>1. n \in Nat
  BY LenProperties
<1>2. /\ B \in SUBSET (1..n)
      /\ 1 \in 1..n => 1 \in B
      /\ \A i \in B : /\ EndOf(ws, i) \in i..n
                      /\ \A h \in i..(EndOf(ws, i) - 1) : r[h].open
                      /\ EndOf(ws, i) + 1 \in 1..n => EndOf(ws, i) + 1 \in B
  <2>1. B \in SUBSET (1..n)
    BY DEF Starts
  <2> QED  BY <2>1, StartsBehind
<1>3. \A j \in B : ~r[j - 1].open
  BY DEF Starts
<1> HIDE DEF B, n
<1>4. ASSUME NEW j \in 1..n, NEW i \in B, EndOf(ws, i) = j - 1 PROVE j \in B
  <2>1. EndOf(ws, i) + 1 = j
    BY <1>1, <1>4
  <2> QED  BY <1>2, <2>1
<1>5. ASSUME NEW j \in B, j # 1 PROVE \E i \in B : EndOf(ws, i) = j - 1
  <2> DEFINE T == {i \in B : i < j}
             i == Max(T)
  <2>1. T \in SUBSET (1..n) /\ j \in 1..n /\ 1 \in 1..n
    <3>1. T \in SUBSET (1..n) /\ j \in 1..n
      BY <1>2, <1>5
    <3>2. 1 \in 1..n
      BY <1>1, <3>1
    <3> QED  BY <3>1, <3>2
  <2>2. 1 \in T
    BY <1>2, <1>5, <2>1
  <2>3. i \in T /\ \A k \in T : k <= i
    <3> HIDE DEF T
    <3> QED  BY <1>1, <2>1, <2>2, MaxOf
  <2> HIDE DEF i
  <2> DEFINE e == EndOf(ws, i)
  <2>4. /\ i \in B /\ i < j /\ i \in 1..n /\ e \in i..n
        /\ (\A h \in i..(e - 1) : r[h].open)
        /\ e + 1 \in 1..n => e + 1 \in B
    BY <1>2, <2>3
  <2> HIDE DEF e
  <2>5. ~(e < j - 1)
    <3> SUFFICES ASSUME e < j - 1 PROVE FALSE
      OBVIOUS
    <3>1. e + 1 \in 1..n /\ e + 1 < j /\ ~(e + 1 <= i)
      BY <1>1, <2>1, <2>4
    <3>2. e + 1 \in T
      BY <2>4, <3>1
    <3> QED  BY <2>3, <3>1, <3>2
  <2>6. ~(e > j - 1)
    <3> SUFFICES ASSUME e > j - 1 PROVE FALSE
      OBVIOUS
    <3>1. j - 1 \in i..(e - 1)
      BY <1>1, <2>1, <2>4
    <3>2. ~r[j - 1].open
      BY <1>3
    <3> QED  BY <2>4, <3>1, <3>2
  <2>7. e = j - 1
    BY <1>1, <2>1, <2>4, <2>5, <2>6
  <2> QED  BY <2>4, <2>7 DEF e
<1>6. \A j \in 1..n : j \in B <=> j = 1 \/ \E i \in B : EndOf(ws, i) = j - 1
  BY <1>2, <1>4, <1>5
<1> QED  BY <1>6 DEF StartGroups, B, n

(* There is one set of these only.                                         *)
LEMMA OneStart ==
  ASSUME NEW ws \in Seq(Word),
         NEW S \in SUBSET (1..Len(ws)), StartGroups(ws, S),
         NEW B \in SUBSET (1..Len(ws)), StartGroups(ws, B)
  PROVE  S = B
<1> DEFINE n == Len(ws)
           T == {m \in 0..n : \A j \in 1..m : j \in S <=> j \in B}
<1>1. n \in Nat
  BY LenProperties
<1>2. \A i \in 1..n : EndOf(ws, i) \in i..n
  BY EndOfIs
<1>3. /\ \A j \in 1..n : j \in S <=> j = 1 \/ \E i \in S : EndOf(ws, i) = j - 1
      /\ \A j \in 1..n : j \in B <=> j = 1 \/ \E i \in B : EndOf(ws, i) = j - 1
  BY DEF StartGroups
<1>4. S \in SUBSET (1..n) /\ B \in SUBSET (1..n)
  OBVIOUS
<1> HIDE DEF n
<1>5. 0 \in T
  BY <1>1
<1>6. ASSUME NEW m \in 1..n, m - 1 \in T PROVE m \in T
  <2>1. \A j \in 1..(m - 1) : j \in S <=> j \in B
    BY <1>6
  <2>2. ASSUME NEW i \in 1..n, EndOf(ws, i) = m - 1 PROVE i \in S <=> i \in B
    <3>1. i \in 1..(m - 1)
      BY <1>1, <1>2, <2>2
    <3> QED  BY <2>1, <3>1
  <2>3. m \in S <=> m \in B
    BY <1>3, <1>4, <2>2
  <2>4. \A j \in 1..m : j \in S <=> j \in B
    <3> SUFFICES ASSUME NEW j \in 1..m PROVE j \in S <=> j \in B
      OBVIOUS
    <3>1. j = m \/ j \in 1..(m - 1)
      BY <1>1
    <3> QED  BY <2>1, <2>3, <3>1
  <2>5. m \in 0..n
    BY <1>1
  <2> QED  BY <2>4, <2>5
<1>7. n \in T
  <2> HIDE DEF T
  <2>1. \A m \in 0..n : m \in T
    BY <1>1, <1>5, <1>6, Counting
  <2>2. n \in 0..n
    BY <1>1
  <2> QED  BY <2>1, <2>2
<1> QED  BY <1>4, <1>7

(* The heads of the groups are the words that find no quotation open.      *)
LEMMA HeadsAre ==
  ASSUME NEW ws \in Seq(Word), NEW r, Takes(r, ws)
  PROVE  Heads(ws) = Starts(ws, r)
<1> DEFINE B == Starts(ws, r)
           n == Len(ws)
<1>1. B \in SUBSET (1..n) /\ StartGroups(ws, B)
  BY StartsStart DEF Starts
<1> HIDE DEF B
<1>2. Heads(ws) = CHOOSE S \in SUBSET (1..n) : StartGroups(ws, S)
  BY DEF Heads, StartGroups
<1>3. Heads(ws) \in SUBSET (1..n) /\ StartGroups(ws, Heads(ws))
  BY <1>1, <1>2
<1>4. Heads(ws) = B
  <2> DEFINE S == Heads(ws)
  <2>1. S \in SUBSET (1..n) /\ StartGroups(ws, S)
    BY <1>3
  <2> HIDE DEF S
  <2>2. S = B
    BY <1>1, <2>1, OneStart
  <2> QED  BY <2>2 DEF S
<1> QED  BY <1>4 DEF B


(* The heads as far as a word.                                             *)
StartsTo(ws, r, i) == {h \in Starts(ws, r) : h <= i}

(* Their number grows by one with each of them.                            *)
LEMMA StartsNumber ==
  ASSUME NEW ws \in Seq(Word), NEW r
  PROVE  /\ \A i \in 0..Len(ws) : /\ IsFiniteSet(StartsTo(ws, r, i))
                                  /\ Cardinality(StartsTo(ws, r, i)) \in Nat
         /\ Cardinality(StartsTo(ws, r, 0)) = 0
         /\ \A i \in 1..Len(ws) :
              Cardinality(StartsTo(ws, r, i))
                = Cardinality(StartsTo(ws, r, i - 1)) + IF r[i - 1].open THEN 0 ELSE 1
         /\ StartsTo(ws, r, Len(ws)) = Starts(ws, r)
<1> DEFINE n == Len(ws)
           B == Starts(ws, r)
           C(i) == {h \in B : h <= i}
<1>1. n \in Nat
  BY LenProperties
<1>2. B \in SUBSET (1..n)
  BY DEF Starts
<1>3. \A j \in 1..n : j \in B <=> ~r[j - 1].open
  BY DEF Starts
<1> HIDE DEF B, n
<1>4. \A h \in B : h \in Int /\ 0 < h /\ h <= n
  BY <1>1, <1>2
<1>5. ASSUME NEW i \in 0..n PROVE IsFiniteSet(C(i)) /\ Cardinality(C(i)) \in Nat
  <2>1. IsFiniteSet(1..n)
    BY <1>1, FS_Interval
  <2>2. C(i) \subseteq 1..n
    BY <1>2
  <2> HIDE DEF C
  <2>3. IsFiniteSet(C(i))
    BY <2>1, <2>2, FS_Subset
  <2> QED  BY <2>3, FS_CardinalityType
<1>6. Cardinality(C(0)) = 0
  <2>1. \A h \in B : ~(h <= 0)
    BY <1>4
  <2>2. C(0) = {}
    BY <2>1
  <2> QED  BY <2>2, FS_EmptySet
<1>7. ASSUME NEW i \in 1..n
      PROVE  Cardinality(C(i)) = Cardinality(C(i - 1)) + IF r[i - 1].open THEN 0 ELSE 1
  <2> DEFINE m == i - 1
  <2>1. m \in 0..n /\ i \in Nat /\ i = m + 1
    BY <1>1
  <2>2. \A h \in B : h <= i <=> h <= m \/ h = i
    BY <1>1, <1>2, <2>1
  <2>3. IsFiniteSet(C(m)) /\ Cardinality(C(m)) \in Nat
    BY <1>5, <2>1
  <2>4. CASE r[m].open
    <3>1. i \notin B
      BY <1>3, <2>4
    <3>2. \A h \in B : h <= i <=> h <= m
      BY <2>2, <3>1
    <3>3. C(i) = C(m)
      <4> HIDE DEF m
      <4> QED  BY <3>2
    <3>4. Cardinality(C(i)) = Cardinality(C(m)) + 0
      <4> HIDE DEF C, m
      <4> QED  BY <2>3, <3>3
    <3> QED  BY <2>4, <3>4
  <2>5. CASE ~r[m].open
    <3>1. i \in B
      BY <1>3, <2>5
    <3>2. ~(i <= m)
      BY <2>1
    <3> HIDE DEF m
    <3>3. C(i) = C(m) \cup {i} /\ i \notin C(m)
      BY <2>2, <3>1, <3>2
    <3> HIDE DEF C
    <3>4. Cardinality(C(m) \cup {i}) = Cardinality(C(m)) + 1
      BY <2>3, <3>3, FS_AddElement
    <3> QED  BY <2>5, <3>3, <3>4 DEF m
  <2> QED  BY <2>4, <2>5
<1>8. C(n) = B
  BY <1>4
<1> QED  BY <1>5, <1>6, <1>7, <1>8 DEF StartsTo, B, n

(* There are as many tokens as heads, but for the one that is still open.  *)
LEMMA TokensCount ==
  ASSUME NEW ws \in Seq(Word), NEW r, Takes(r, ws)
  PROVE  /\ \A i \in 0..Len(ws) :
              Len(r[i].tokens) + (IF r[i].open THEN 1 ELSE 0) = Cardinality(StartsTo(ws, r, i))
         /\ Len(End(r[Len(ws)])) = Cardinality(Starts(ws, r))
<1> DEFINE n == Len(ws)
           C(i) == Cardinality(StartsTo(ws, r, i))
           L(a) == Len(a.tokens) + IF a.open THEN 1 ELSE 0
           S == {i \in 0..n : L(r[i]) = C(i)}
<1>1. n \in Nat /\ n \in 0..n /\ \A i \in 1..n : ws[i] \in Word
  BY LenProperties
<1>2. /\ \A i \in 0..n : C(i) \in Nat
      /\ C(0) = 0
      /\ \A i \in 1..n : C(i) = C(i - 1) + IF r[i - 1].open THEN 0 ELSE 1
      /\ C(n) = Cardinality(Starts(ws, r))
  BY StartsNumber
<1>3. ASSUME NEW ts PROVE L(Between(ts)) = Len(ts) + 0 /\ ~Between(ts).open
  BY DEF Between
<1>4. ASSUME NEW ts, NEW q PROVE L(Within(ts, q)) = Len(ts) + 1 /\ Within(ts, q).open
  BY DEF Within
<1>5. ASSUME NEW ts \in Seq(Strings), NEW t \in Strings
      PROVE  Len(Append(ts, t)) = Len(ts) + 1 /\ Len(ts) \in Nat
  BY AppendProperties, LenProperties
<1>6. ASSUME NEW ts \in Seq(Strings), NEW t \in Strings
       PROVE  L(Between(Append(ts, t))) = Len(ts) + 1
  <2>1. L(Between(Append(ts, t))) = Len(Append(ts, t)) + 0
    BY <1>3
  <2> HIDE DEF L
  <2> QED  BY <1>5, <2>1
<1>7. 0 \in S
  <2>1. r[0] = Between(<<>>) /\ Len(<<>>) = 0 /\ 0 \in 0..n
    BY <1>1 DEF Takes, TokenStart, Between
  <2>2. L(r[0]) = Len(<<>>) + 0
    <3> HIDE DEF L
    <3> QED  BY <1>3, <2>1
  <2> HIDE DEF C, L
  <2> QED  BY <1>2, <2>1, <2>2
<1> HIDE DEF C, L
<1>8. ASSUME NEW i \in 1..n, i - 1 \in S PROVE i \in S
  <2> DEFINE m == i - 1
             w == ws[i]
  <2>1. m \in 0..n /\ i \in 0..n /\ w \in Word /\ r[i] = TakeWord(r[m], w)
    BY <1>1 DEF Takes
  <2>2. w \in Strings /\ Stripped(w) \in Strings
    BY <2>1, WordsAreStrings, StrippedTypes
  <2>3. PICK ts \in Seq(Strings) :
          r[m] = Between(ts) \/ \E q \in Strings \ {<<>>} : r[m] = Within(ts, q)
    BY <2>1, StatesAre
  <2>4. L(r[m]) = C(m) /\ C(i) = C(m) + IF r[m].open THEN 0 ELSE 1
    BY <1>2, <1>8
  <2>5. C(i) \in Nat /\ C(m) \in Nat /\ Len(ts) \in Nat
    BY <1>2, <2>1, LenProperties
  <2> HIDE DEF w, m
  <2>6. CASE r[m] = Between(ts)
    <3>1. \/ r[i] = Between(Append(ts, w)) \/ r[i] = Between(Append(ts, Stripped(w)))
          \/ r[i] = Within(ts, w)
      BY <2>1, <2>6, TakeCases
    <3>2. L(r[i]) = Len(ts) + 1
      BY <1>4, <1>6, <2>2, <3>1
    <3>3. C(i) = Len(ts) + 1
      BY <1>3, <2>4, <2>5, <2>6
    <3> QED  BY <2>1, <3>2, <3>3
  <2>7. ASSUME NEW q \in Strings \ {<<>>}, r[m] = Within(ts, q) PROVE i \in S
    <3> DEFINE u == Join(q, w)
    <3>1. Stripped(u) \in Strings
      BY <2>2, JoinsNotEmpty, StrippedTypes
    <3>2. r[i] = Between(Append(ts, Stripped(u))) \/ r[i] = Within(ts, u)
      BY <2>1, <2>7, TakeCases
    <3> HIDE DEF u
    <3>3. L(r[i]) = Len(ts) + 1
      BY <1>4, <1>6, <3>1, <3>2
    <3>4. C(i) = Len(ts) + 1
      BY <1>4, <2>4, <2>5, <2>7
    <3> QED  BY <2>1, <3>3, <3>4
  <2> QED  BY <2>3, <2>6, <2>7
<1>9. ASSUME NEW i \in 0..n PROVE L(r[i]) = C(i)
  <2> HIDE DEF S
  <2>1. \A j \in 0..n : j \in S
    BY <1>1, <1>7, <1>8, Counting
  <2> USE DEF S
  <2> QED  BY <2>1
<1>10. Len(End(r[n])) = C(n)
  <2>1. PICK ts \in Seq(Strings) :
          r[n] = Between(ts) \/ \E q \in Strings \ {<<>>} : r[n] = Within(ts, q)
    BY <1>1, StatesAre
  <2>2. L(r[n]) = C(n) /\ Len(ts) \in Nat
    BY <1>1, <1>9, LenProperties
  <2> HIDE DEF n, L, C
  <2>3. CASE r[n] = Between(ts)
    <3>1. End(Between(ts)) = ts
      BY EndCases
    <3> QED  BY <1>3, <2>2, <2>3, <3>1
  <2>4. ASSUME NEW q \in Strings \ {<<>>}, r[n] = Within(ts, q) PROVE Len(End(r[n])) = C(n)
    <3>1. End(Within(ts, q)) = Append(ts, Stripped(q)) /\ Stripped(q) \in Strings
      BY EndCases, StrippedTypes
    <3> QED  BY <1>4, <1>5, <2>2, <2>4, <3>1
  <2> QED  BY <2>1, <2>3, <2>4
<1> QED  BY <1>2, <1>9, <1>10 DEF L, C


(* A token stays where it is.                                              *)
LEMMA TokenStays ==
  ASSUME NEW ws \in Seq(Word), NEW r, Takes(r, ws), NEW e \in 0..Len(ws),
         NEW k \in 1..Len(r[e].tokens)
  PROVE  /\ k \in 1..Len(End(r[Len(ws)]))
         /\ End(r[Len(ws)])[k] = r[e].tokens[k]
<1> DEFINE n == Len(ws)
           t == r[e].tokens[k]
           Holds(v) == v \in Seq(Strings) /\ k \in 1..Len(v) /\ v[k] = t
           S == {m \in 0..n : e <= m => Holds(r[m].tokens)}
<1>1. n \in Nat /\ e \in 0..n /\ e \in Nat
  BY LenProperties
<1>2. /\ \A i \in 0..n : r[i].tokens \in Seq(Strings)
      /\ \A i \in 1..n : Grows(r[i - 1].tokens, r[i].tokens)
      /\ Grows(r[n].tokens, End(r[n]))
  BY TokensGrow
<1>3. Holds(r[e].tokens)
  BY <1>1, <1>2
<1>4. ASSUME NEW v, Holds(v), NEW u, Grows(v, u) PROVE Holds(u)
  <2>1. CASE u = v
    BY <1>4, <2>1
  <2>2. ASSUME NEW c \in Strings, u = Append(v, c) PROVE Holds(u)
    <3>1. v \in Seq(Strings) /\ k \in 1..Len(v) /\ v[k] = t /\ Len(v) \in Nat
      BY <1>4, LenProperties
    <3> HIDE DEF t
    <3>2. u \in Seq(Strings) /\ Len(u) = Len(v) + 1 /\ \A i \in 1..Len(v) : u[i] = v[i]
      BY <2>2, <3>1, AppendProperties
    <3>3. k \in 1..Len(u) /\ u[k] = t
      BY <3>1, <3>2
    <3> QED  BY <3>2, <3>3
  <2> QED  BY <1>4, <2>1, <2>2 DEF Grows
<1> HIDE DEF Holds, n
<1>5. 0 \in S
  <2>1. e <= 0 => e = 0
    BY <1>1
  <2>2. 0 \in 0..n
    BY <1>1
  <2> QED  BY <1>3, <2>1, <2>2
<1>6. ASSUME NEW m \in 1..n, m - 1 \in S PROVE m \in S
  <2>1. m \in 0..n /\ (e <= m => e <= m - 1 \/ e = m)
    BY <1>1
  <2>2. ASSUME e <= m - 1 PROVE Holds(r[m].tokens)
    <3>1. Holds(r[m - 1].tokens)
      BY <1>6, <2>2
    <3> QED  BY <1>2, <1>4, <3>1
  <2> QED  BY <1>3, <2>1, <2>2
<1>7. Holds(r[n].tokens)
  <2> HIDE DEF S
  <2>1. \A m \in 0..n : m \in S
    BY <1>1, <1>5, <1>6, Counting
  <2>2. n \in 0..n /\ e <= n
    BY <1>1
  <2> USE DEF S
  <2> QED  BY <2>1, <2>2
<1>8. Holds(End(r[n]))
  BY <1>2, <1>4, <1>7
<1> QED  BY <1>8 DEF Holds, n

(* The token of a group has the number of the group.                       *)
LEMMA TokenOfGroup ==
  ASSUME NEW ws \in Seq(Word), NEW r, Takes(r, ws), NEW i \in Starts(ws, r)
  PROVE  End(r[Len(ws)])[Cardinality(StartsTo(ws, r, i))] = TokenAt(ws, i)
<1> DEFINE n == Len(ws)
           h == i - 1
           e == EndOf(ws, i)
           c == Cardinality(StartsTo(ws, r, i))
           t == TokenAt(ws, i)
<1>1. n \in Nat /\ i \in 1..n /\ h \in 0..n /\ i \in 0..n /\ ~r[h].open
  BY LenProperties DEF Starts
<1>2. e \in i..n /\ e \in 0..n
  <2>1. e \in i..n
    BY <1>1, EndOfIs
  <2> HIDE DEF e
  <2> QED  BY <1>1, <2>1
<1>3. PICK ts \in Seq(Strings) : r[h] = Between(ts)
  <2>1. PICK v \in Seq(Strings) :
          r[h] = Between(v) \/ \E q \in Strings \ {<<>>} : r[h] = Within(v, q)
    BY <1>1, StatesAre
  <2>2. \A q : Within(v, q).open
    BY DEF Within
  <2> QED  BY <1>1, <2>1, <2>2
<1>4. /\ ~r[e].open => r[e] = Between(Append(ts, t))
      /\ r[e].open => e = n /\ End(r[e]) = Append(ts, t)
  BY <1>1, <1>3, GroupRun
<1>5. c = Len(ts) + 1
  <2>1. /\ Cardinality(StartsTo(ws, r, i))
             = Cardinality(StartsTo(ws, r, i - 1)) + IF r[i - 1].open THEN 0 ELSE 1
        /\ Cardinality(StartsTo(ws, r, h)) \in Nat
    BY <1>1, StartsNumber
  <2>2. Len(r[h].tokens) + (IF r[h].open THEN 1 ELSE 0) = Cardinality(StartsTo(ws, r, h))
    BY <1>1, TokensCount
  <2>3. r[h].tokens = ts /\ Len(ts) \in Nat
    BY <1>3, LenProperties DEF Between
  <2>4. c = Cardinality(StartsTo(ws, r, h)) + 1
    BY <1>1, <2>1
  <2>5. Len(ts) + 0 = Cardinality(StartsTo(ws, r, h))
    BY <1>1, <2>2, <2>3
  <2> QED  BY <2>3, <2>4, <2>5
<1>6. t \in Strings
  <2> DEFINE x == SubSeq(ws, i + 1, e)
             w == ws[i]
  <2>1. w \in Strings
    BY <1>1, LenProperties, WordsAreStrings
  <2>2. x \in Seq(Strings) /\ Len(x) \in Nat
    <3> HIDE DEF e
    <3> QED  BY <1>1, <1>2, RestIs, LenProperties
  <2>3. Group(ws, i) = FoldLeft(Join, w, x)
    BY DEF Group
  <2> HIDE DEF x, w
  <2>4. PICK g : Joins(g, w, x) /\ g[Len(x)] = FoldLeft(Join, w, x)
    BY <2>1, <2>2, JoinsRun DEF JoinsTo
  <2>5. FoldLeft(Join, w, x) \in Strings
    BY <2>2, <2>4 DEF Joins
  <2>6. Stripped(Group(ws, i)) \in Strings
    BY <2>3, <2>5, StrippedTypes
  <2> QED  BY <2>1, <2>6 DEF TokenAt, w
<1> HIDE DEF c, t, e
<1>7. Append(ts, t)[c] = t /\ c \in 1..Len(Append(ts, t))
  <2>1. Len(Append(ts, t)) = Len(ts) + 1 /\ Append(ts, t)[Len(ts) + 1] = t /\ Len(ts) \in Nat
    BY <1>6, AppendProperties, LenProperties
  <2> QED  BY <1>5, <2>1
<1>8. CASE r[e].open
  BY <1>4, <1>7, <1>8 DEF c, t
<1>9. CASE ~r[e].open
  <2>1. r[e].tokens = Append(ts, t)
    BY <1>4, <1>9 DEF Between
  <2>2. c \in 1..Len(r[e].tokens)
    BY <1>7, <2>1
  <2>3. End(r[n])[c] = r[e].tokens[c]
    BY <1>2, <2>2, TokenStays
  <2> QED  BY <1>7, <2>1, <2>3 DEF c, t
<1> QED  BY <1>8, <1>9

(* The tokens are the groups of the words, in their order: each word that  *)
(* opens a quotation takes up the words to the first that closes it, or to *)
(* the end of the line, any other is a token of its own, and none is lost, *)
(* repeated or moved (utils.cpp, tokenize).                                *)
THEOREM TokensAreTheGroups == Editing => []TokensAreGroups
<1>1. ASSUME line \in Seq(Chars) PROVE TokensAreGroups
  <2> DEFINE ws == Words(line)
             heads == Heads(ws)
  <2>1. ws \in Seq(Word)
    BY <1>1, WordsTypes
  <2> HIDE DEF ws
  <2>2. PICK r : Takes(r, ws) /\ End(r[Len(ws)]) = Grouped(ws)
    BY <2>1, GroupsRun DEF TakesTo
  <2>3. heads = Starts(ws, r)
    BY <2>1, <2>2, HeadsAre
  <2>4. Command = Grouped(ws)
    BY DEF Command, Tokenize, ws
  <2> HIDE DEF heads
  <2>5. Len(Command) = Cardinality(heads)
    BY <2>1, <2>2, <2>3, <2>4, TokensCount
  <2>6. ASSUME NEW i \in heads
        PROVE  Command[Cardinality({h \in heads : h <= i})]
                 = IF Opens(ws[i]) THEN Stripped(Group(ws, i)) ELSE ws[i]
    <3>1. StartsTo(ws, r, i) = {h \in heads : h <= i}
      BY <2>3 DEF StartsTo
    <3>2. End(r[Len(ws)])[Cardinality(StartsTo(ws, r, i))] = TokenAt(ws, i)
      BY <2>1, <2>2, <2>3, TokenOfGroup
    <3> QED  BY <2>2, <2>4, <3>1, <3>2 DEF TokenAt
  <2> QED  BY <2>5, <2>6 DEF TokensAreGroups, ws, heads
<1> QED  BY <1>1, LinesAreStrings, PTL
=============================================================================
