-------------------------- MODULE SparseArrayProofs --------------------------
(***************************************************************************)
(* Proofs about SparseArray: a lookup by way of uninitialised memory finds *)
(* exactly the entries, a new entry always has room, and the arrays        *)
(* implement maps with insertion order.                                    *)
(***************************************************************************)
EXTENDS SparseArray, FiniteSetTheorems, TLAPS

Good(a) == IsArray(a) /\ Bounded(a) /\ PairsOK(a)

\* The record a is made of its six fields.
Array(d, l, n, s, x, v) ==
  [data |-> d, len |-> l, size |-> n, sparse |-> s, index |-> x, value |-> v]

LEMMA Shape ==
  ASSUME NEW a, IsArray(a)
  PROVE  a = Array(a.data, a.len, a.size, a.sparse, a.index, a.value)
BY DEF IsArray, Array

LEMMA CreateFields ==
  ASSUME NEW d, NEW l, NEW n, NEW s, NEW x, NEW v, NEW i
  PROVE  CreateIndex(Array(d, l, n, s, x, v), i)
           = Array(d, l, n + 1, [s EXCEPT ![i] = n], [x EXCEPT ![n] = i], v)
<1> DEFINE a == Array(d, l, n, s, x, v)
           p == [s EXCEPT ![i] = n]
           q == [x EXCEPT ![n] = i]
           b == [a EXCEPT !.sparse = p]
           c == [b EXCEPT !.index = q]
<1>1. a.sparse = s /\ a.index = x /\ a.size = n
  BY DEF Array
<1>2. CreateIndex(a, i) = [a EXCEPT !.sparse = p, !.index = q, !.size = n + 1]
  BY <1>1 DEF CreateIndex
<1>3. [a EXCEPT !.sparse = p, !.index = q, !.size = n + 1] = [c EXCEPT !.size = n + 1]
  OBVIOUS
<1>. HIDE DEF p, q
<1>4. b = Array(d, l, n, p, x, v)
  BY DEF Array
<1>5. c = Array(d, l, n, p, q, v)
  <2>. HIDE DEF b
  <2>. QED  BY <1>4 DEF Array
<1>6. [c EXCEPT !.size = n + 1] = Array(d, l, n + 1, p, q, v)
  <2>. HIDE DEF c
  <2>. QED  BY <1>5 DEF Array
<1>. QED  BY <1>2, <1>3, <1>6 DEF p, q

LEMMA MaxSizeType == \A a : IsArray(a) => MaxSize(a) \in 0..MaxMax
BY SparseSorts DEF IsArray, MaxSize

\* A comparison of unsigned numbers with one that is small and not negative
\* is a test of both bounds.
LEMMA UnsignedLess ==
  \A i \in Int32, n \in 0..MaxMax : Unsigned(i) < Unsigned(n) <=> i \in Cells(n)
BY SparseSorts DEF Int32, Unsigned, Cells

\* The lookup finds exactly the pairs.
LEMMA LookupExact ==
  ASSUME NEW a, Good(a), Linked(a), NEW i \in Cells(MaxSize(a))
  PROVE  /\ HasIndex(a, i) <=> Present(a, i)
         /\ HasIndex(a, i) => a.sparse[i] \in Cells(a.size) /\ a.index[a.sparse[i]] = i
<1>1. MaxSize(a) \in 0..MaxMax /\ a.size \in 0..MaxMax
  BY MaxSizeType DEF Good, IsArray
<1>2. i \in Int32 /\ a.sparse[i] \in Int32
  BY <1>1, SparseSorts DEF Good, IsArray, Bounded, Cells, Int32
<1>3. HasIndex(a, i) <=> a.sparse[i] \in Cells(a.size) /\ a.index[a.sparse[i]] = i
  BY <1>1, <1>2, UnsignedLess DEF HasIndex
<1>4. Present(a, i) => a.sparse[i] \in Cells(a.size) /\ a.index[a.sparse[i]] = i
  BY DEF Present, Linked
<1>. QED  BY <1>3, <1>4 DEF Present

\* An index that is not there has room: the pairs of a full array would be an
\* injection of all its cells into the other indices.
LEMMA Room ==
  ASSUME NEW a, Good(a), NEW i \in Cells(MaxSize(a)), ~Present(a, i)
  PROVE  a.size < MaxSize(a)
<1>1. MaxSize(a) \in 0..MaxMax /\ a.size \in 0..MaxMax /\ a.size <= MaxSize(a)
  BY MaxSizeType DEF Good, IsArray, Bounded
<1>2. SUFFICES ASSUME a.size = MaxSize(a) PROVE FALSE
  BY <1>1, SparseSorts
<1> DEFINE S == Cells(MaxSize(a))
           f == [j \in S |-> a.index[j]]
<1>3. IsFiniteSet(S)
  BY <1>1, SparseSorts, FS_Interval DEF Cells
<1>4. IsFiniteSet(S \ {i}) /\ Cardinality(S \ {i}) < Cardinality(S)
  <2>1. Cardinality(S) \in Nat
    BY <1>3, FS_CardinalityType
  <2>. QED  BY <1>3, <2>1, FS_RemoveElement
<1>5. f \in [S -> S \ {i}]
  BY <1>2 DEF Good, PairsOK, Present
<1>6. PICK j, k \in S : j # k /\ f[j] = f[k]
  <2>. HIDE DEF f, S
  <2>. QED  BY <1>3, <1>4, <1>5, FS_PigeonHole
<1>7. a.index[j] = a.index[k]
  BY <1>6
<1>. QED  BY <1>2, <1>6, <1>7 DEF Good, PairsOK

-----------------------------------------------------------------------------
(* What each operation makes of a good array. *)

LEMMA CreateGood ==
  ASSUME NEW a, Good(a), Linked(a), NEW i \in Cells(MaxSize(a)), NEW v \in Value,
         ~Present(a, i)
  PROVE  LET b == SetExistingInternal(CreateIndex(a, i), i, v) IN
         /\ Good(b) /\ Linked(b) /\ MaxSize(b) = MaxSize(a)
         /\ a.size < MaxSize(a) /\ b.size = a.size + 1
         /\ b.index = [a.index EXCEPT ![a.size] = i]
         /\ b.value = [a.value EXCEPT ![a.size] = v]
<1> DEFINE b == SetExistingInternal(CreateIndex(a, i), i, v)
           n == a.size
           sp == [a.sparse EXCEPT ![i] = n]
           ix == [a.index EXCEPT ![n] = i]
           vl == [a.value EXCEPT ![n] = v]
<1>1. /\ MaxSize(a) \in 0..MaxMax /\ n \in 0..MaxMax /\ n < MaxSize(a)
      /\ i \in Int32 /\ n \in Int32
  BY MaxSizeType, Room, SparseSorts DEF Good, IsArray, Cells, Int32
<1>2. sp[i] = n
  BY DEF Good, Bounded
<1>3. b = Array(a.data, a.len, n + 1, sp, ix, vl)
  <2> DEFINE c == CreateIndex(a, i)
  <2>1. c = Array(a.data, a.len, n + 1, sp, ix, a.value)
    BY Shape, CreateFields DEF Good
  <2>2. /\ c.data = a.data /\ c.len = a.len /\ c.size = n + 1
        /\ c.sparse = sp /\ c.index = ix /\ c.value = a.value
    BY <2>1 DEF Array
  <2>3. SetExistingInternal(c, i, v) = Array(a.data, a.len, n + 1, sp, ix, vl)
    <3>. HIDE DEF c
    <3>. QED  BY <1>2, <2>1, <2>2 DEF SetExistingInternal, Array
  <2>. QED  BY <2>3
<1>4. /\ b.data = a.data /\ b.len = a.len /\ b.size = n + 1
      /\ b.sparse = sp /\ b.index = ix /\ b.value = vl
  BY <1>3 DEF Array
<1>5. MaxSize(b) = MaxSize(a)
  BY <1>4 DEF MaxSize
<1>. HIDE DEF b
<1>6. IsArray(b)
  <2>1. b.size \in 0..MaxMax
    BY <1>1, <1>4, SparseSorts
  <2>2. /\ sp \in [DOMAIN sp -> Int32] /\ ix \in [DOMAIN ix -> Int32]
        /\ vl \in [DOMAIN vl -> Value \cup {Junk}]
    BY <1>1 DEF Good, IsArray
  <2>. QED  BY <1>3, <1>4, <2>1, <2>2 DEF Good, IsArray, Array
<1>7. Bounded(b)
  BY <1>1, <1>4, <1>5, SparseSorts DEF Good, Bounded
<1>8. \A j \in Cells(n) : ix[j] = a.index[j] /\ vl[j] = a.value[j] /\ a.index[j] # i
  BY <1>1 DEF Good, Bounded, Present, Cells
<1>9. ix[n] = i /\ vl[n] = v
  BY <1>1 DEF Good, Bounded, Cells
<1>10. Cells(n + 1) = Cells(n) \cup {n} /\ n \notin Cells(n)
  BY <1>1 DEF Cells
<1>11. PairsOK(b)
  BY <1>4, <1>5, <1>8, <1>9, <1>10 DEF Good, PairsOK
<1>12. Linked(b)
  <2>1. \A j \in Cells(n) : sp[a.index[j]] = a.sparse[a.index[j]]
    BY <1>8 DEF Good, PairsOK, Bounded
  <2>. QED  BY <1>2, <1>4, <1>8, <1>9, <1>10, <2>1 DEF Linked
<1>. QED  BY <1>1, <1>4, <1>5, <1>6, <1>7, <1>11, <1>12 DEF Good, b

LEMMA ExistingGood ==
  ASSUME NEW a, Good(a), Linked(a), NEW i \in Cells(MaxSize(a)), NEW v \in Value,
         HasIndex(a, i)
  PROVE  LET b == SetExistingInternal(a, i, v) IN
         /\ Good(b) /\ Linked(b) /\ MaxSize(b) = MaxSize(a)
         /\ a.sparse[i] \in Cells(a.size) /\ a.index[a.sparse[i]] = i
         /\ b.size = a.size /\ b.index = a.index
         /\ b.value = [a.value EXCEPT ![a.sparse[i]] = v]
<1> DEFINE b == SetExistingInternal(a, i, v)
           vl == [a.value EXCEPT ![a.sparse[i]] = v]
<1>1. a.sparse[i] \in Cells(a.size) /\ a.index[a.sparse[i]] = i
  BY LookupExact
<1>2. b = Array(a.data, a.len, a.size, a.sparse, a.index, vl)
  BY DEF Good, IsArray, SetExistingInternal, Array
<1>3. /\ b.data = a.data /\ b.len = a.len /\ b.size = a.size
      /\ b.sparse = a.sparse /\ b.index = a.index /\ b.value = vl
  BY <1>2 DEF Array
<1>4. MaxSize(b) = MaxSize(a)
  BY <1>3 DEF MaxSize
<1>. HIDE DEF b
<1>5. vl \in [DOMAIN vl -> Value \cup {Junk}] /\ DOMAIN vl = DOMAIN a.value
  BY DEF Good, IsArray
<1>6. \A j \in Cells(a.size) : vl[j] \in Value
  BY DEF Good, PairsOK
<1>. HIDE DEF vl
<1>7. IsArray(b) /\ Bounded(b)
  BY <1>2, <1>3, <1>4, <1>5 DEF Good, IsArray, Bounded, Array
<1>8. PairsOK(b) /\ Linked(b)
  BY <1>3, <1>4, <1>6 DEF Good, PairsOK, Linked
<1>. QED  BY <1>1, <1>3, <1>4, <1>7, <1>8 DEF Good, b, vl

LEMMA FreshType ==
  ASSUME NEW m \in 0..MaxMax, NEW old, old \in [DOMAIN old -> Int32], NEW s \in Fresh(m, old)
  PROVE  /\ s \in [Cells(m) -> Int32]
         /\ \A j \in Cells(m) : j \in DOMAIN old => s[j] = old[j]
<1>1. PICK raw \in [Cells(m) -> Garbage] :
        s = [j \in Cells(m) |-> IF j \in DOMAIN old THEN old[j] ELSE raw[j]]
  BY DEF Fresh
<1>2. \A j \in Cells(m) : raw[j] \in Int32
  BY <1>1, SparseSorts DEF Int32
<1>. QED  BY <1>1, <1>2

\* An array of m cells of which the first n hold pairs.
LEMMA MadeGood ==
  ASSUME NEW m \in 0..MaxMax, NEW n \in 0..m,
         NEW s \in [Cells(m) -> Int32], NEW x \in [Cells(m) -> Int32],
         NEW v \in [Cells(m) -> Value \cup {Junk}],
         \A j \in Cells(n) : x[j] \in Cells(m) /\ v[j] \in Value,
         \A j, k \in Cells(n) : x[j] = x[k] => j = k
  PROVE  LET b == Array(TRUE, m, n, s, x, v) IN
         /\ Good(b) /\ MaxSize(b) = m /\ b.size = n /\ b.index = x /\ b.value = v
         /\ (\A j \in Cells(n) : s[x[j]] = j) => Linked(b)
<1> DEFINE b == Array(TRUE, m, n, s, x, v)
<1>1. /\ b.data = TRUE /\ b.len = m /\ b.size = n /\ b.sparse = s /\ b.index = x
      /\ b.value = v
  BY DEF Array
<1>2. MaxSize(b) = m
  BY <1>1 DEF MaxSize
<1>3. b = Array(b.data, b.len, b.size, b.sparse, b.index, b.value)
  BY <1>1
<1>. HIDE DEF b
<1>4. n \in 0..MaxMax /\ n <= m
  BY SparseSorts
<1>5. IsArray(b)
  BY <1>1, <1>3, <1>4 DEF IsArray, Array
<1>6. Bounded(b)
  BY <1>1, <1>2, <1>4 DEF Bounded
<1>7. PairsOK(b)
  BY <1>1, <1>2 DEF PairsOK
<1>8. (\A j \in Cells(n) : s[x[j]] = j) => Linked(b)
  BY <1>1 DEF Linked
<1>. QED  BY <1>1, <1>2, <1>5, <1>6, <1>7, <1>8 DEF Good, b

LEMMA NoCells ==
  /\ Cells(0) = {} /\ DOMAIN None = Cells(0)
  /\ None \in [DOMAIN None -> Int32] /\ None \in [DOMAIN None -> Value \cup {Junk}]
BY DEF Cells, None

\* Constructed empty, or left behind by a move.
LEMMA EmptyGood ==
  /\ \A m \in 0..MaxMax : \A s, x \in [Cells(m) -> Int32] :
       LET b == Array(TRUE, m, 0, s, x, [j \in Cells(m) |-> Junk]) IN
       Good(b) /\ Linked(b) /\ MaxSize(b) = m /\ b.size = 0
  /\ \A m \in 0..MaxMax :
       LET b == Array(FALSE, m, 0, None, None, None) IN
       Good(b) /\ Linked(b) /\ MaxSize(b) = 0 /\ b.size = 0
<1>1. ASSUME NEW m \in 0..MaxMax, NEW s \in [Cells(m) -> Int32], NEW x \in [Cells(m) -> Int32]
      PROVE  LET b == Array(TRUE, m, 0, s, x, [j \in Cells(m) |-> Junk]) IN
             Good(b) /\ Linked(b) /\ MaxSize(b) = m /\ b.size = 0
  <2> DEFINE v == [j \in Cells(m) |-> Junk]
  <2>1. v \in [Cells(m) -> Value \cup {Junk}] /\ 0 \in 0..m
    BY SparseSorts
  <2>. HIDE DEF v
  <2>2. \A j \in Cells(0) : FALSE
    BY NoCells
  <2>3. LET b == Array(TRUE, m, 0, s, x, v) IN
        /\ Good(b) /\ MaxSize(b) = m /\ b.size = 0 /\ b.index = x /\ b.value = v
        /\ (\A j \in Cells(0) : s[x[j]] = j) => Linked(b)
    BY <2>1, <2>2, MadeGood
  <2>. QED  BY <2>2, <2>3 DEF v
<1>2. ASSUME NEW m \in 0..MaxMax
      PROVE  LET b == Array(FALSE, m, 0, None, None, None) IN
             Good(b) /\ Linked(b) /\ MaxSize(b) = 0 /\ b.size = 0
  <2> DEFINE b == Array(FALSE, m, 0, None, None, None)
  <2>1. /\ b.data = FALSE /\ b.len = m /\ b.size = 0 /\ b.sparse = None /\ b.index = None
        /\ b.value = None
    BY DEF Array
  <2>2. MaxSize(b) = 0
    BY <2>1 DEF MaxSize
  <2>3. b = Array(b.data, b.len, b.size, b.sparse, b.index, b.value)
    BY <2>1
  <2>. HIDE DEF b
  <2>4. DOMAIN None = Cells(0)
    BY NoCells
  <2>5. IsArray(b)
    <3>1. 0 \in 0..MaxMax
      BY SparseSorts
    <3>. QED  BY <2>1, <2>3, <3>1, NoCells DEF IsArray, Array
  <2>6. Bounded(b) /\ PairsOK(b) /\ Linked(b)
    BY <2>1, <2>2, <2>4, NoCells DEF Bounded, PairsOK, Linked
  <2>. QED  BY <2>1, <2>2, <2>5, <2>6 DEF Good, b
<1>. QED  BY <1>1, <1>2

LEMMA ClearGood ==
  ASSUME NEW a, Good(a)
  PROVE  LET b == [a EXCEPT !.size = 0] IN
         Good(b) /\ Linked(b) /\ MaxSize(b) = MaxSize(a) /\ b.size = 0
<1> DEFINE b == [a EXCEPT !.size = 0]
<1>1. b = Array(a.data, a.len, 0, a.sparse, a.index, a.value)
  BY DEF Good, IsArray, Array
<1>2. /\ b.data = a.data /\ b.len = a.len /\ b.size = 0 /\ b.sparse = a.sparse
      /\ b.index = a.index /\ b.value = a.value
  BY <1>1 DEF Array
<1>3. MaxSize(b) = MaxSize(a)
  BY <1>2 DEF MaxSize
<1>. HIDE DEF b
<1>4. IsArray(b)
  BY <1>1, <1>2, SparseSorts DEF Good, IsArray, Array
<1>5. 0 <= MaxSize(b)
  BY <1>3, MaxSizeType, SparseSorts DEF Good
<1>6. Bounded(b) /\ PairsOK(b) /\ Linked(b)
  BY <1>2, <1>3, <1>5, NoCells DEF Good, Bounded, PairsOK, Linked
<1>. QED  BY <1>2, <1>3, <1>4, <1>6 DEF Good, b

LEMMA ShrinkGood ==
  ASSUME NEW a, Good(a), NEW n \in 0..a.size
  PROVE  LET b == [a EXCEPT !.size = n] IN
         /\ Good(b) /\ (Linked(a) => Linked(b)) /\ MaxSize(b) = MaxSize(a)
         /\ b.size = n /\ b.index = a.index /\ b.value = a.value
<1> DEFINE b == [a EXCEPT !.size = n]
<1>1. b = Array(a.data, a.len, n, a.sparse, a.index, a.value)
  BY DEF Good, IsArray, Array
<1>2. /\ b.data = a.data /\ b.len = a.len /\ b.size = n /\ b.sparse = a.sparse
      /\ b.index = a.index /\ b.value = a.value
  BY <1>1 DEF Array
<1>3. MaxSize(b) = MaxSize(a)
  BY <1>2 DEF MaxSize
<1>. HIDE DEF b
<1>4. n \in 0..MaxMax /\ n <= MaxSize(a) /\ Cells(n) \subseteq Cells(a.size)
  <2>1. MaxSize(a) \in 0..MaxMax /\ a.size \in 0..MaxMax /\ a.size <= MaxSize(a)
    BY MaxSizeType DEF Good, IsArray, Bounded
  <2>. QED  BY <2>1, SparseSorts DEF Cells
<1>5. IsArray(b)
  BY <1>1, <1>2, <1>4 DEF Good, IsArray, Array
<1>6. Bounded(b)
  BY <1>2, <1>3, <1>4 DEF Good, Bounded
<1>7. PairsOK(b)
  BY <1>2, <1>3, <1>4 DEF Good, PairsOK
<1>8. Linked(a) => Linked(b)
  BY <1>2, <1>4 DEF Linked
<1>. QED  BY <1>2, <1>3, <1>5, <1>6, <1>7, <1>8 DEF Good, b

LEMMA CopyFields ==
  ASSUME NEW a, IsArray(a), NEW d, NEW m
  PROVE  [a EXCEPT !.data = d, !.len = m]
           = Array(d, m, a.size, a.sparse, a.index, a.value)
<1> DEFINE c == [a EXCEPT !.data = d]
<1>1. c = Array(d, a.len, a.size, a.sparse, a.index, a.value)
  BY DEF IsArray, Array
<1>2. [c EXCEPT !.len = m] = Array(d, m, a.size, a.sparse, a.index, a.value)
  <2>. HIDE DEF c
  <2>. QED  BY <1>1 DEF Array
<1>. QED  BY <1>2

LEMMA CopyGood ==
  ASSUME NEW a, Good(a)
  PROVE  LET b == [a EXCEPT !.data = TRUE, !.len = MaxSize(a)] IN
         /\ Good(b) /\ (Linked(a) => Linked(b)) /\ MaxSize(b) = MaxSize(a)
         /\ b.size = a.size /\ b.index = a.index /\ b.value = a.value
<1> DEFINE m == MaxSize(a)
           b == [a EXCEPT !.data = TRUE, !.len = m]
<1>3. b = Array(TRUE, m, a.size, a.sparse, a.index, a.value)
  BY CopyFields DEF Good
<1>4. m \in 0..MaxMax /\ a.size \in 0..m
  <2>1. m \in 0..MaxMax /\ a.size \in 0..MaxMax /\ a.size <= m
    BY MaxSizeType DEF Good, IsArray, Bounded
  <2>. QED  BY <2>1, SparseSorts
<1>5. /\ a.sparse \in [Cells(m) -> Int32] /\ a.index \in [Cells(m) -> Int32]
      /\ a.value \in [Cells(m) -> Value \cup {Junk}]
  BY DEF Good, IsArray, Bounded
<1>6. /\ \A j \in Cells(a.size) : a.index[j] \in Cells(m) /\ a.value[j] \in Value
      /\ \A j, k \in Cells(a.size) : a.index[j] = a.index[k] => j = k
      /\ Linked(a) => \A j \in Cells(a.size) : a.sparse[a.index[j]] = j
  BY DEF Good, PairsOK, Linked
<1>. HIDE DEF b, m
<1>7. LET e == Array(TRUE, m, a.size, a.sparse, a.index, a.value) IN
      /\ Good(e) /\ MaxSize(e) = m /\ e.size = a.size /\ e.index = a.index
      /\ e.value = a.value
      /\ (\A j \in Cells(a.size) : a.sparse[a.index[j]] = j) => Linked(e)
  <2> DEFINE n == a.size
             s == a.sparse
             x == a.index
             v == a.value
  <2>1. m \in 0..MaxMax /\ n \in 0..m
    BY <1>4
  <2>2. s \in [Cells(m) -> Int32] /\ x \in [Cells(m) -> Int32]
        /\ v \in [Cells(m) -> Value \cup {Junk}]
    BY <1>5
  <2>3. \A j \in Cells(n) : x[j] \in Cells(m) /\ v[j] \in Value
    BY <1>6
  <2>4. \A j, k \in Cells(n) : x[j] = x[k] => j = k
    BY <1>6
  <2>. HIDE DEF n, s, x, v
  <2>5. LET e == Array(TRUE, m, n, s, x, v) IN
        /\ Good(e) /\ MaxSize(e) = m /\ e.size = n /\ e.index = x /\ e.value = v
        /\ (\A j \in Cells(n) : s[x[j]] = j) => Linked(e)
    BY <2>1, <2>2, <2>3, <2>4, MadeGood
  <2>. QED  BY <2>5 DEF n, s, x, v
<1>. QED  BY <1>3, <1>6, <1>7 DEF b, m

\* The pairs of a, sorted into ix and vs.
LEMMA SortGood ==
  ASSUME NEW a, Good(a), NEW ix \in [Cells(a.size) -> Cells(MaxSize(a))],
         NEW vs \in [Cells(a.size) -> Value],
         \A j, k \in Cells(a.size) : j < k => ix[j] < ix[k]
  PROVE  LET b == Sorted(a, ix, vs) IN
         /\ Good(b) /\ MaxSize(b) = MaxSize(a) /\ b.size = a.size
         /\ \A j \in Cells(a.size) : b.index[j] = ix[j] /\ b.value[j] = vs[j]
<1> DEFINE n == a.size
           x == [j \in DOMAIN a.index |-> IF j < n THEN ix[j] ELSE a.index[j]]
           v == [j \in DOMAIN a.value |-> IF j < n THEN vs[j] ELSE a.value[j]]
           c == [a EXCEPT !.index = x]
           b == Sorted(a, ix, vs)
<1>1. n \in 0..MaxMax /\ MaxSize(a) \in 0..MaxMax /\ n <= MaxSize(a)
  BY MaxSizeType DEF Good, IsArray, Bounded
<1>2. DOMAIN a.index = Cells(MaxSize(a)) /\ DOMAIN a.value = Cells(MaxSize(a))
  BY DEF Good, Bounded
<1>3. b = [c EXCEPT !.value = v]
  BY DEF Sorted
<1>4. \A j \in Cells(n) : j \in Cells(MaxSize(a)) /\ j < n
  BY <1>1, SparseSorts DEF Cells
<1>5. \A j \in Cells(MaxSize(a)) : j < n => j \in Cells(n)
  BY <1>1, SparseSorts DEF Cells
<1>6. \A j \in Cells(n) : x[j] = ix[j] /\ v[j] = vs[j]
  BY <1>2, <1>4
<1>7. Cells(MaxSize(a)) \subseteq Int32
  BY <1>1, SparseSorts DEF Cells, Int32
<1>8. x \in [DOMAIN x -> Int32] /\ DOMAIN x = DOMAIN a.index
  BY <1>2, <1>5, <1>7 DEF Good, IsArray
<1>9. v \in [DOMAIN v -> Value \cup {Junk}] /\ DOMAIN v = DOMAIN a.value
  BY <1>2, <1>5 DEF Good, IsArray
<1>. HIDE DEF x, v, n
<1>10. c = Array(a.data, a.len, a.size, a.sparse, x, a.value)
  BY DEF Good, IsArray, Array
<1>11. [c EXCEPT !.value = v] = Array(a.data, a.len, a.size, a.sparse, x, v)
  <2>. HIDE DEF c
  <2>. QED  BY <1>10 DEF Array
<1>12. b = Array(a.data, a.len, a.size, a.sparse, x, v)
  BY <1>3, <1>11
<1>. HIDE DEF b, c
<1>13. /\ b.data = a.data /\ b.len = a.len /\ b.size = a.size /\ b.sparse = a.sparse
       /\ b.index = x /\ b.value = v
  BY <1>12 DEF Array
<1>14. MaxSize(b) = MaxSize(a)
  BY <1>13 DEF MaxSize
<1>15. IsArray(b)
  BY <1>8, <1>9, <1>12, <1>13 DEF Good, IsArray, Array
<1>16. Bounded(b)
  BY <1>8, <1>9, <1>13, <1>14 DEF Good, Bounded
<1>17. PairsOK(b)
  <2>1. \A j \in Cells(n) : x[j] \in Cells(MaxSize(b)) /\ v[j] \in Value
    BY <1>6, <1>14 DEF n
  <2>2. ASSUME NEW j \in Cells(n), NEW k \in Cells(n), x[j] = x[k] PROVE j = k
    <3>1. j \in Int /\ k \in Int
      BY <1>1 DEF Cells
    <3>2. ix[j] = ix[k] /\ ix[j] \in Int /\ ix[k] \in Int
      BY <1>1, <1>6, <2>2 DEF n, Cells
    <3>. QED  BY <3>1, <3>2 DEF n
  <2>. QED  BY <1>13, <2>1, <2>2 DEF PairsOK, n
<1>. QED  BY <1>6, <1>13, <1>14, <1>15, <1>16, <1>17 DEF Good, b, n

-----------------------------------------------------------------------------
(***************************************************************************)
(* The invariant.                                                          *)
(***************************************************************************)
ObjOK(a, s) == Good(a) /\ s \in BOOLEAN /\ (~s => Linked(a))

LEMMA InvByObject ==
  SparseInv <=> /\ DOMAIN array = Obj /\ DOMAIN sorted = Obj
                /\ \A o \in Obj : ObjOK(array[o], sorted[o])
BY DEF SparseInv, TypeOK, InBounds, ObjOK, Good

LEMMA BecomeInv ==
  ASSUME SparseInv, NEW o \in Obj, NEW a, NEW s, ObjOK(a, s), Become(o, a, s)
  PROVE  SparseInv'
<1>1. DOMAIN array' = Obj /\ DOMAIN sorted' = Obj
  BY InvByObject DEF Become
<1>2. \A q \in Obj : ObjOK(array'[q], sorted'[q])
  BY InvByObject DEF Become
<1>. QED
  BY <1>1, <1>2 DEF SparseInv, TypeOK, InBounds, ObjOK, Good

LEMMA InitInv == Init => SparseInv
<1>. SUFFICES ASSUME Init PROVE SparseInv
  OBVIOUS
<1>1. Default = Array(FALSE, 0, 0, None, None, None)
  BY DEF Default, Array
<1>2. 0 \in 0..MaxMax
  BY SparseSorts
<1>3. Good(Default) /\ Linked(Default)
  BY <1>1, <1>2, EmptyGood
<1>. QED  BY <1>3, InvByObject DEF Init, ObjOK

\* Setting an index, as set, set_new and set_existing do: it is illegal, new, or
\* known.
SetDone(a, b, i, v) ==
  /\ ObjOK(b, FALSE) /\ MaxSize(b) = MaxSize(a)
  /\ \/ i \notin Cells(MaxSize(a)) /\ b = a
     \/ /\ i \in Cells(MaxSize(a)) /\ ~Present(a, i) /\ a.size < MaxSize(a)
        /\ b.size = a.size + 1
        /\ b.index = [a.index EXCEPT ![a.size] = i]
        /\ b.value = [a.value EXCEPT ![a.size] = v]
     \/ \E j \in Cells(a.size) :
          /\ a.index[j] = i
          /\ b.size = a.size /\ b.index = a.index
          /\ b.value = [a.value EXCEPT ![j] = v]

LEMMA SetResult ==
  ASSUME NEW a, ObjOK(a, FALSE), NEW i \in -1..MaxMax, NEW v \in Value
  PROVE  SetDone(a, SetInternal(a, TRUE, i, v), i, v)
<1>1. Good(a) /\ Linked(a) /\ MaxSize(a) \in 0..MaxMax
  BY MaxSizeType DEF ObjOK, Good
<1>2. i \in Int32 /\ Unsigned(i) \in Int /\ Unsigned(MaxSize(a)) \in Int
  BY <1>1, SparseSorts DEF Int32, Unsigned
<1>3. Unsigned(i) >= Unsigned(MaxSize(a)) <=> i \notin Cells(MaxSize(a))
  <2>1. Unsigned(i) < Unsigned(MaxSize(a)) <=> i \in Cells(MaxSize(a))
    BY <1>1, <1>2, UnsignedLess
  <2>2. Unsigned(i) >= Unsigned(MaxSize(a)) <=> ~(Unsigned(i) < Unsigned(MaxSize(a)))
    BY <1>2
  <2>. QED  BY <2>1, <2>2
<1>4. CASE i \notin Cells(MaxSize(a))
  BY <1>3, <1>4 DEF SetInternal, SetDone
<1>5. CASE i \in Cells(MaxSize(a)) /\ HasIndex(a, i)
  <2>1. SetInternal(a, TRUE, i, v) = SetExistingInternal(a, i, v)
    BY <1>3, <1>5 DEF SetInternal
  <2> DEFINE b == SetExistingInternal(a, i, v)
  <2>2. /\ Good(b) /\ Linked(b) /\ MaxSize(b) = MaxSize(a)
        /\ a.sparse[i] \in Cells(a.size) /\ a.index[a.sparse[i]] = i
        /\ b.size = a.size /\ b.index = a.index
        /\ b.value = [a.value EXCEPT ![a.sparse[i]] = v]
    BY <1>1, <1>5, ExistingGood
  <2>3. SetInternal(a, TRUE, i, v) = b
    BY <2>1
  <2>. HIDE DEF b
  <2>. QED  BY <1>5, <2>2, <2>3 DEF ObjOK, SetDone
<1>6. CASE i \in Cells(MaxSize(a)) /\ ~HasIndex(a, i)
  <2>1. SetInternal(a, TRUE, i, v) = SetExistingInternal(CreateIndex(a, i), i, v)
    BY <1>3, <1>6 DEF SetInternal
  <2>2. ~Present(a, i)
    BY <1>1, <1>6, LookupExact
  <2> DEFINE b == SetExistingInternal(CreateIndex(a, i), i, v)
  <2>3. /\ Good(b) /\ Linked(b) /\ MaxSize(b) = MaxSize(a)
        /\ a.size < MaxSize(a) /\ b.size = a.size + 1
        /\ b.index = [a.index EXCEPT ![a.size] = i]
        /\ b.value = [a.value EXCEPT ![a.size] = v]
    BY <1>1, <1>6, <2>2, CreateGood
  <2>4. SetInternal(a, TRUE, i, v) = b
    BY <2>1
  <2>. HIDE DEF b
  <2>. QED  BY <1>6, <2>2, <2>3, <2>4 DEF ObjOK, SetDone
<1>. QED  BY <1>4, <1>5, <1>6

\* set_new and set_existing do what set does, when they may be called.
LEMMA SetSame ==
  ASSUME NEW a, ObjOK(a, FALSE), NEW i \in Cells(MaxSize(a)), NEW v \in Value
  PROVE  /\ ~HasIndex(a, i) => SetInternal(a, FALSE, i, v) = SetInternal(a, TRUE, i, v)
         /\ HasIndex(a, i) => SetExistingInternal(a, i, v) = SetInternal(a, TRUE, i, v)
         /\ i \in -1..MaxMax
<1>1. MaxSize(a) \in 0..MaxMax
  BY MaxSizeType DEF ObjOK, Good
<1>2. i \in Int32 /\ i \in -1..MaxMax /\ Unsigned(i) \in Int /\ Unsigned(MaxSize(a)) \in Int
  BY <1>1, SparseSorts DEF Int32, Unsigned, Cells
<1>3. Unsigned(i) < Unsigned(MaxSize(a))
  BY <1>1, <1>2, UnsignedLess
<1>4. ~(Unsigned(i) >= Unsigned(MaxSize(a)))
  BY <1>2, <1>3
<1>. QED  BY <1>2, <1>4 DEF SetInternal

\* Growing moves the pairs to new memory; shrinking forgets some.
LEMMA GrowResult ==
  ASSUME NEW a, NEW s, ObjOK(a, s), NEW m \in 0..MaxMax, m > MaxSize(a),
         NEW sp \in Fresh(m, a.sparse), NEW d \in Fresh(m, a.index)
  PROVE  LET v == [j \in Cells(m) |-> IF j \in DOMAIN a.value THEN a.value[j] ELSE Junk]
             c == Array(TRUE, m, a.size, sp, d, v) IN
         /\ ObjOK(c, s) /\ MaxSize(c) = m /\ c.size = a.size /\ a.size <= m
         /\ \A j \in Cells(a.size) : c.index[j] = a.index[j] /\ c.value[j] = a.value[j]
<1> DEFINE v == [j \in Cells(m) |-> IF j \in DOMAIN a.value THEN a.value[j] ELSE Junk]
           n == a.size
           c == Array(TRUE, m, n, sp, d, v)
<1>1. /\ Good(a) /\ MaxSize(a) \in 0..MaxMax /\ n \in 0..MaxMax
      /\ n <= MaxSize(a)
  BY MaxSizeType DEF ObjOK, Good, IsArray, Bounded
<1>2. /\ sp \in [Cells(m) -> Int32] /\ d \in [Cells(m) -> Int32]
      /\ \A j \in Cells(m) : j \in DOMAIN a.sparse => sp[j] = a.sparse[j]
      /\ \A j \in Cells(m) : j \in DOMAIN a.index => d[j] = a.index[j]
  BY <1>1, FreshType DEF Good, IsArray
<1>3. v \in [Cells(m) -> Value \cup {Junk}]
  BY <1>1 DEF Good, IsArray
<1>4. /\ DOMAIN a.sparse = Cells(MaxSize(a)) /\ DOMAIN a.index = Cells(MaxSize(a))
      /\ DOMAIN a.value = Cells(MaxSize(a))
  BY <1>1 DEF Good, Bounded
<1>5. n \in 0..m /\ n <= m
  BY <1>1, SparseSorts
<1>6. Cells(n) \subseteq Cells(MaxSize(a)) /\ Cells(MaxSize(a)) \subseteq Cells(m)
  BY <1>1, SparseSorts DEF Cells
<1>7. \A j \in Cells(n) : d[j] = a.index[j] /\ v[j] = a.value[j]
  BY <1>2, <1>4, <1>6
<1>8. /\ \A j \in Cells(n) : a.index[j] \in Cells(MaxSize(a)) /\ a.value[j] \in Value
      /\ \A j, k \in Cells(n) : a.index[j] = a.index[k] => j = k
      /\ ~s => \A j \in Cells(n) : a.sparse[a.index[j]] = j
      /\ s \in BOOLEAN
  BY DEF ObjOK, Good, PairsOK, Linked
<1>. HIDE DEF v, n, c
<1>9. \A j \in Cells(n) : d[j] \in Cells(m) /\ v[j] \in Value
  BY <1>6, <1>7, <1>8
<1>10. \A j, k \in Cells(n) : d[j] = d[k] => j = k
  BY <1>7, <1>8
<1>11. ~s => \A j \in Cells(n) : sp[d[j]] = j
  BY <1>2, <1>4, <1>6, <1>7, <1>8
<1>12. sp \in [Cells(m) -> Int32] /\ d \in [Cells(m) -> Int32]
  BY <1>2
<1>13. LET e == Array(TRUE, m, n, sp, d, v) IN
       /\ Good(e) /\ MaxSize(e) = m /\ e.size = n /\ e.index = d /\ e.value = v
       /\ (\A j \in Cells(n) : sp[d[j]] = j) => Linked(e)
  BY <1>3, <1>5, <1>9, <1>10, <1>12, MadeGood
<1>14. /\ Good(c) /\ MaxSize(c) = m /\ c.size = n /\ c.index = d /\ c.value = v
       /\ (\A j \in Cells(n) : sp[d[j]] = j) => Linked(c)
  BY <1>13 DEF c
<1>15. ObjOK(c, s)
  BY <1>8, <1>11, <1>14 DEF ObjOK
<1>. QED  BY <1>5, <1>7, <1>14, <1>15 DEF c, n, v

-----------------------------------------------------------------------------
(***************************************************************************)
(* Every step keeps the invariant and is a step of the map.                *)
(***************************************************************************)
MapEntries == [o \in Obj |-> Entries(array[o])]
MapMax == [o \in Obj |-> MaxSize(array[o])]

LEMMA BecomeMap ==
  ASSUME SparseInv, NEW o \in Obj, NEW a, NEW s, Become(o, a, s)
  PROVE  /\ MapEntries' = [MapEntries EXCEPT ![o] = Entries(a)]
         /\ MapMax' = [MapMax EXCEPT ![o] = MaxSize(a)]
BY InvByObject DEF Become, MapEntries, MapMax

LEMMA EntriesOf ==
  ASSUME NEW a, NEW s, ObjOK(a, s)
  PROVE  /\ a.size \in 0..MaxMax /\ MaxSize(a) \in 0..MaxMax /\ a.size <= MaxSize(a)
         /\ DOMAIN Entries(a) = 0..(a.size - 1)
         /\ \A j \in Cells(a.size) :
              /\ Entries(a)[j] = [index |-> a.index[j], value |-> a.value[j]]
              /\ Entries(a)[j].index = a.index[j] /\ Entries(a)[j].value = a.value[j]
              /\ a.index[j] \in Cells(MaxSize(a)) /\ a.value[j] \in Value
BY MaxSizeType DEF ObjOK, Good, IsArray, Bounded, PairsOK, Entries, Cells

LEMMA StepConstruct ==
  ASSUME SparseInv, NEW o \in Obj, Construct(o)
  PROVE  SparseInv' /\ M!Construct(o)
<1>0. PICK m \in 0..MaxMax : \E s, d \in Fresh(m, None) :
        /\ Become(o, Array(TRUE, m, 0, s, d, [j \in Cells(m) |-> Junk]), FALSE)
        /\ call' = <<"construct", o, m>>
  BY Zenon DEF Construct, Array
<1>1. PICK s \in Fresh(m, None), d \in Fresh(m, None) :
        /\ Become(o, Array(TRUE, m, 0, s, d, [j \in Cells(m) |-> Junk]), FALSE)
        /\ call' = <<"construct", o, m>>
  BY <1>0
<1>2. s \in [Cells(m) -> Int32] /\ d \in [Cells(m) -> Int32]
  BY FreshType, NoCells
<1> DEFINE b == Array(TRUE, m, 0, s, d, [j \in Cells(m) |-> Junk])
<1>3. Good(b) /\ Linked(b) /\ MaxSize(b) = m /\ b.size = 0
  BY <1>2, EmptyGood
<1>4. Become(o, b, FALSE)
  BY <1>1
<1>. HIDE DEF b
<1>5. Entries(b) = M!Empty
  BY <1>3, NoCells DEF Entries, M!Empty
<1>6. SparseInv'
  BY <1>3, <1>4, BecomeInv DEF ObjOK
<1>7. MapEntries' = [MapEntries EXCEPT ![o] = M!Empty] /\ MapMax' = [MapMax EXCEPT ![o] = m]
  BY <1>3, <1>4, <1>5, BecomeMap
<1>. QED  BY <1>1, <1>6, <1>7 DEF M!Construct, M!Become, MapEntries, MapMax

LEMMA StepLookup ==
  ASSUME SparseInv, NEW o \in Obj
  PROVE  /\ Has(o) => SparseInv' /\ M!Has(o)
         /\ GetExisting(o) => SparseInv' /\ M!Get(o)
<1> DEFINE a == array[o]
<1>1. ASSUME Has(o) \/ GetExisting(o) PROVE SparseInv'
  BY <1>1 DEF Has, GetExisting, SparseInv, TypeOK, InBounds
<1>2. ASSUME Has(o) \/ GetExisting(o)
      PROVE  MapEntries' = MapEntries /\ MapMax' = MapMax
  BY <1>2 DEF Has, GetExisting, MapEntries, MapMax
<1>3. ASSUME Has(o) \/ GetExisting(o)
      PROVE  ObjOK(a, FALSE) /\ Good(a) /\ Linked(a)
  BY <1>3, InvByObject DEF Has, GetExisting, ObjOK
<1>4. MapEntries[o] = Entries(a) /\ MapMax[o] = MaxSize(a)
  BY DEF MapEntries, MapMax
<1>7. ASSUME Has(o) \/ GetExisting(o)
      PROVE  /\ a.size \in 0..MaxMax /\ MaxSize(a) \in 0..MaxMax
             /\ DOMAIN Entries(a) = 0..(a.size - 1)
             /\ \A j \in Cells(a.size) :
                  Entries(a)[j].index = a.index[j] /\ Entries(a)[j].value = a.value[j]
  <2>. HIDE DEF a
  <2>. QED  BY <1>3, <1>7, EntriesOf
<1>5. ASSUME Has(o) PROVE M!Has(o)
  <2>1. PICK i \in Cells(MaxSize(a)) : call' = <<"has", o, i, HasIndex(a, i)>>
    BY <1>5 DEF Has
  <2>2. HasIndex(a, i) <=> Present(a, i)
    BY <1>3, <1>5, LookupExact
  <2>3. HasIndex(a, i) \in BOOLEAN /\ Present(a, i) \in BOOLEAN
    BY DEF HasIndex, Present
  <2>4. HasIndex(a, i) = Present(a, i)
    BY <2>2, <2>3
  <2>5. i \in M!Index /\ i < MapMax[o]
    <3>1. MaxSize(a) \in 0..MaxMax
      BY <1>5, <1>7
    <3>. HIDE DEF a
    <3>. QED  BY <1>4, <3>1, SparseSorts DEF M!Index, Cells
  <2>6. Present(a, i) = (\E j \in DOMAIN MapEntries[o] : MapEntries[o][j].index = i)
    BY <1>4, <1>5, <1>7 DEF Present, Cells
  <2>. QED
    BY <1>2, <1>5, <2>1, <2>4, <2>5, <2>6 DEF M!Has, M!Holds, M!Unchanged, MapEntries, MapMax
<1>6. ASSUME GetExisting(o) PROVE M!Get(o)
  <2>1. PICK i \in Cells(MaxSize(a)) :
          HasIndex(a, i) /\ call' = <<"get", o, i, a.value[a.sparse[i]]>>
    BY <1>6 DEF GetExisting
  <2> DEFINE j == a.sparse[i]
  <2>2. j \in Cells(a.size) /\ a.index[j] = i
    BY <1>3, <1>6, <2>1, LookupExact
  <2>. HIDE DEF j
  <2>3. j \in DOMAIN MapEntries[o]
    BY <1>4, <1>6, <1>7, <2>2 DEF Cells
  <2>4. MapEntries[o][j].index = i /\ MapEntries[o][j].value = a.value[j]
    BY <1>4, <1>6, <1>7, <2>2
  <2>5. call' = <<"get", o, MapEntries[o][j].index, MapEntries[o][j].value>>
    BY <2>1, <2>4 DEF j
  <2>. QED
    BY <1>2, <1>6, <2>3, <2>5 DEF M!Get, M!Unchanged, MapEntries, MapMax
<1>. QED  BY <1>1, <1>5, <1>6

LEMMA StepSet ==
  ASSUME SparseInv, NEW o \in Obj, NEW i \in -1..MaxMax, NEW v \in Value,
         ~sorted[o], Become(o, SetInternal(array[o], TRUE, i, v), FALSE),
         call' = <<"set", o, i, v>>
  PROVE  SparseInv' /\ (M!Insert(o) \/ M!Update(o) \/ M!Ignore(o))
<1> DEFINE a == array[o]
           b == SetInternal(a, TRUE, i, v)
<1>1. ObjOK(a, FALSE)
  BY InvByObject DEF ObjOK
<1>2. SetDone(a, b, i, v)
  BY <1>1, SetResult
<1>3. SparseInv'
  BY <1>2, BecomeInv DEF SetDone
<1>4. /\ MapEntries' = [MapEntries EXCEPT ![o] = Entries(b)]
      /\ MapMax' = [MapMax EXCEPT ![o] = MaxSize(b)]
  BY BecomeMap
<1>5. MapEntries[o] = Entries(a) /\ MapMax[o] = MaxSize(a)
  BY DEF MapEntries, MapMax
<1>. HIDE DEF a, b
<1>6. MapMax' = MapMax
  BY <1>2, <1>4, <1>5 DEF MapMax, SetDone
<1>7. /\ a.size \in 0..MaxMax /\ MaxSize(a) \in 0..MaxMax /\ a.size <= MaxSize(a)
      /\ DOMAIN Entries(a) = 0..(a.size - 1)
      /\ \A j \in Cells(a.size) :
           /\ Entries(a)[j] = [index |-> a.index[j], value |-> a.value[j]]
           /\ Entries(a)[j].index = a.index[j] /\ Entries(a)[j].value = a.value[j]
           /\ a.index[j] \in Cells(MaxSize(a)) /\ a.value[j] \in Value
  BY <1>1, EntriesOf
<1>8. DOMAIN a.index = Cells(MaxSize(a)) /\ DOMAIN a.value = Cells(MaxSize(a))
  BY <1>1 DEF ObjOK, Good, Bounded
<1>9. CASE i \notin Cells(MaxSize(a)) /\ b = a
  <2>1. i < 0 \/ i >= MapMax[o]
    BY <1>5, <1>7, <1>9 DEF Cells
  <2>2. MapEntries' = MapEntries
    BY <1>4, <1>5, <1>9 DEF MapEntries
  <2>. QED
    BY <1>3, <1>6, <2>1, <2>2 DEF M!Ignore, M!Unchanged, MapEntries, MapMax
<1>10. CASE /\ i \in Cells(MaxSize(a)) /\ ~Present(a, i) /\ a.size < MaxSize(a)
            /\ b.size = a.size + 1
            /\ b.index = [a.index EXCEPT ![a.size] = i]
            /\ b.value = [a.value EXCEPT ![a.size] = v]
  <2> DEFINE n == a.size
             e == [j \in 0..n |-> IF j = n THEN [index |-> i, value |-> v]
                                           ELSE MapEntries[o][j]]
  <2>1. n \in 0..MaxMax /\ n \in Cells(MaxSize(a)) /\ Cells(n + 1) = 0..n
    BY <1>7, <1>10, SparseSorts DEF Cells
  <2>2. i \in M!Index /\ i < MapMax[o]
    BY <1>5, <1>7, <1>10, SparseSorts DEF M!Index, Cells
  <2>3. DOMAIN MapEntries[o] = 0..(n - 1)
    BY <1>5, <1>7
  <2>4. ~M!Holds(o, i)
    <3>1. \A j \in Cells(n) : MapEntries[o][j].index # i
      <4>1. \A j \in Cells(n) : a.index[j] # i
        BY <1>10 DEF Present
      <4>2. \A j \in Cells(n) : MapEntries[o][j].index = a.index[j]
        BY <1>5, <1>7
      <4>. QED  BY <4>1, <4>2
    <3>. QED  BY <2>3, <3>1 DEF M!Holds, MapEntries, Cells
  <2>5. \A j \in 0..n : [index |-> b.index[j], value |-> b.value[j]] = e[j]
    <3>1. b.index[n] = i /\ b.value[n] = v
      BY <1>8, <1>10, <2>1
    <3>2. ASSUME NEW j \in 0..n, j # n
          PROVE  j \in Cells(n) /\ b.index[j] = a.index[j] /\ b.value[j] = a.value[j]
      BY <1>8, <1>10, <2>1, <3>2 DEF Cells
    <3>. QED  BY <1>5, <1>7, <3>1, <3>2
  <2>6. Entries(b) = e
    <3>1. Entries(b) = [j \in 0..n |-> [index |-> b.index[j], value |-> b.value[j]]]
      BY <1>10, <2>1 DEF Entries
    <3>. QED  BY <2>5, <3>1
  <2>7. M!Become(o, e)
    BY <1>4, <2>6 DEF M!Become, MapEntries
  <2>8. M!Insert(o)
    BY <1>6, <2>1, <2>2, <2>3, <2>4, <2>7 DEF M!Insert, MapEntries, MapMax
  <2>. QED  BY <1>3, <2>8
<1>11. CASE \E j \in Cells(a.size) :
              /\ a.index[j] = i
              /\ b.size = a.size /\ b.index = a.index
              /\ b.value = [a.value EXCEPT ![j] = v]
  <2>1. PICK j \in Cells(a.size) :
              /\ a.index[j] = i
              /\ b.size = a.size /\ b.index = a.index
              /\ b.value = [a.value EXCEPT ![j] = v]
    BY <1>11
  <2> DEFINE e == [MapEntries[o] EXCEPT ![j].value = v]
  <2>2. j \in DOMAIN MapEntries[o] /\ j \in Cells(MaxSize(a))
    BY <1>5, <1>7, SparseSorts DEF Cells
  <2>3. DOMAIN e = DOMAIN MapEntries[o] /\ DOMAIN MapEntries[o] = Cells(a.size)
    BY <1>5, <1>7 DEF Cells
  <2>4. \A k \in Cells(a.size) : [index |-> b.index[k], value |-> b.value[k]] = e[k]
    <3>1. CASE TRUE
      <4>1. ASSUME NEW k \in Cells(a.size), k # j
            PROVE  [index |-> b.index[k], value |-> b.value[k]] = e[k]
        BY <1>5, <1>7, <2>1, <4>1, <2>3
      <4>2. e[j] = [MapEntries[o][j] EXCEPT !.value = v]
        BY <2>2
      <4>3. MapEntries[o][j] = [index |-> i, value |-> a.value[j]]
        BY <1>5, <1>7, <2>1
      <4>4. e[j] = [index |-> i, value |-> v]
        BY <4>2, <4>3
      <4>5. b.value[j] = v /\ b.index[j] = i
        BY <1>8, <2>1, <2>2
      <4>. QED  BY <4>1, <4>4, <4>5
    <3>. QED  BY <3>1
  <2>5. Entries(b) = e
    <3>1. Entries(b) = [k \in Cells(a.size) |-> [index |-> b.index[k], value |-> b.value[k]]]
      BY <2>1 DEF Entries
    <3>2. e = [k \in Cells(a.size) |-> e[k]]
      BY <2>3
    <3>. HIDE DEF e
    <3>. QED  BY <2>4, <3>1, <3>2
  <2>6. M!Become(o, e)
    BY <1>4, <2>5 DEF M!Become, MapEntries
  <2>7. MapEntries[o][j].index = i
    BY <1>5, <1>7, <2>1
  <2>8. M!Update(o)
    BY <1>6, <2>2, <2>6, <2>7 DEF M!Update, MapEntries, MapMax
  <2>. QED  BY <1>3, <2>8
<1>. QED  BY <1>2, <1>9, <1>10, <1>11 DEF SetDone

LEMMA StepClear ==
  ASSUME SparseInv, NEW o \in Obj, Clear(o)
  PROVE  SparseInv' /\ M!Clear(o)
<1> DEFINE a == array[o]
           b == [a EXCEPT !.size = 0]
<1>1. Good(a)
  BY InvByObject DEF ObjOK
<1>2. Become(o, b, FALSE) /\ call' = <<"clear", o>>
  BY DEF Clear
<1>3. Good(b) /\ Linked(b) /\ MaxSize(b) = MaxSize(a) /\ b.size = 0
  <2>. HIDE DEF a
  <2>. QED  BY <1>1, ClearGood
<1>. HIDE DEF b
<1>4. SparseInv'
  BY <1>2, <1>3, BecomeInv DEF ObjOK
<1>5. Entries(b) = M!Empty
  BY <1>3, NoCells DEF Entries, M!Empty
<1>6. MapEntries' = [MapEntries EXCEPT ![o] = M!Empty] /\ MapMax' = MapMax
  BY <1>2, <1>3, <1>5, BecomeMap DEF MapMax
<1>. QED  BY <1>2, <1>4, <1>6 DEF M!Clear, M!Become, MapEntries, MapMax

\* The entries of b are the first ones of a.
LEMMA SamePairs ==
  ASSUME NEW a, NEW b, NEW D, NEW n, n = b.size, Cells(n) = D,
         \A j \in D : /\ Entries(a)[j] = [index |-> a.index[j], value |-> a.value[j]]
                      /\ b.index[j] = a.index[j] /\ b.value[j] = a.value[j]
  PROVE  Entries(b) = [j \in D |-> Entries(a)[j]]
<1>1. Entries(b) = [j \in D |-> [index |-> b.index[j], value |-> b.value[j]]]
  BY DEF Entries
<1>2. \A j \in D : [index |-> b.index[j], value |-> b.value[j]] = Entries(a)[j]
  OBVIOUS
<1>. QED  BY <1>1, <1>2

LEMMA StepResize ==
  ASSUME SparseInv, NEW o \in Obj, Resize(o)
  PROVE  SparseInv' /\ M!Resize(o)
<1> DEFINE a == array[o]
           s == sorted[o]
<1>1. ObjOK(a, s)
  BY InvByObject
<1>2. PICK m \in 0..MaxMax :
        /\ \/ /\ m > MaxSize(a)
              /\ \E sp \in Fresh(m, a.sparse), d \in Fresh(m, a.index) :
                   Become(o, Grown(a, m, sp, d), s)
           \/ /\ m <= MaxSize(a)
              /\ Become(o, [a EXCEPT !.size = Clamp(a.size, m)], s)
        /\ call' = <<"resize", o, m>>
  BY Zenon DEF Resize
<1>3. call' = <<"resize", o, m>>
  BY <1>2
<1>4. MapEntries[o] = Entries(a) /\ MapMax[o] = MaxSize(a)
  BY DEF MapEntries, MapMax
<1>5. /\ a.size \in 0..MaxMax /\ MaxSize(a) \in 0..MaxMax /\ a.size <= MaxSize(a)
      /\ DOMAIN Entries(a) = 0..(a.size - 1)
      /\ \A j \in Cells(a.size) :
           Entries(a)[j] = [index |-> a.index[j], value |-> a.value[j]]
  <2>. HIDE DEF a, s
  <2>. QED  BY <1>1, EntriesOf
\* It is enough to know what the new array looks like.
<1>6. ASSUME NEW c, Become(o, c, s), ObjOK(c, s),
             MaxSize(c) = IF m > MaxSize(a) THEN m ELSE MaxSize(a),
             c.size = Clamp(a.size, m),
             \A j \in Cells(c.size) : c.index[j] = a.index[j] /\ c.value[j] = a.value[j]
      PROVE  SparseInv' /\ M!Resize(o)
  <2>1. SparseInv'
    BY <1>6, BecomeInv
  <2>2. /\ MapEntries' = [MapEntries EXCEPT ![o] = Entries(c)]
        /\ MapMax' = [MapMax EXCEPT ![o] = MaxSize(c)]
    BY <1>6, BecomeMap
  <2> DEFINE D == {k \in DOMAIN MapEntries[o] : k < m}
             n == c.size
  <2>. HIDE DEF a, s
  <2>3. Cells(n) = D /\ D \subseteq Cells(a.size)
    BY <1>4, <1>5, <1>6, SparseSorts DEF Cells, Clamp
  <2>4. \A j \in D : /\ Entries(a)[j] = [index |-> a.index[j], value |-> a.value[j]]
                     /\ c.index[j] = a.index[j] /\ c.value[j] = a.value[j]
    BY <1>5, <1>6, <2>3
  <2>5. Entries(c) = [j \in D |-> Entries(a)[j]]
    <3>1. n = c.size
      OBVIOUS
    <3>. HIDE DEF D, n
    <3>. QED  BY <2>3, <2>4, <3>1, SamePairs
  <2>6. M!Become(o, [j \in D |-> MapEntries[o][j]])
    BY <1>4, <2>2, <2>5 DEF M!Become, MapEntries
  <2>7. MapMax' = [MapMax EXCEPT ![o] = IF m > @ THEN m ELSE @]
    BY <1>4, <1>6, <2>2
  <2>. QED  BY <1>3, <2>1, <2>6, <2>7 DEF M!Resize, MapEntries, MapMax
<1>7. CASE m > MaxSize(a)
  <2>1. PICK sp \in Fresh(m, a.sparse), d \in Fresh(m, a.index) :
          Become(o, Grown(a, m, sp, d), s)
    BY <1>2, <1>5, <1>7
  <2> DEFINE v == [j \in Cells(m) |-> IF j \in DOMAIN a.value THEN a.value[j] ELSE Junk]
             c == Array(TRUE, m, a.size, sp, d, v)
  <2>. HIDE DEF a, s
  <2>2. /\ ObjOK(c, s) /\ MaxSize(c) = m /\ c.size = a.size /\ a.size <= m
        /\ \A j \in Cells(a.size) : c.index[j] = a.index[j] /\ c.value[j] = a.value[j]
    BY <1>1, <1>7, GrowResult
  <2>3. Clamp(a.size, m) = a.size
    BY <1>5, <2>2, SparseSorts DEF Clamp
  <2>4. Grown(a, m, sp, d) = c
    BY <2>3, Zenon DEF Grown, Array
  <2>5. Become(o, c, s)
    BY <2>1, <2>4
  <2>. HIDE DEF c
  <2>. QED  BY <1>6, <1>7, <2>2, <2>3, <2>5
<1>8. CASE m <= MaxSize(a)
  <2> DEFINE n == Clamp(a.size, m)
             c == [a EXCEPT !.size = n]
  <2>1. Become(o, c, s)
    BY <1>2, <1>5, <1>8
  <2>2. Good(a) /\ s \in BOOLEAN /\ (~s => Linked(a))
    BY <1>1 DEF ObjOK
  <2>. HIDE DEF a, s
  <2>3. n \in 0..a.size
    BY <1>5, <1>8, SparseSorts DEF Clamp
  <2>4. n = Clamp(a.size, m)
    OBVIOUS
  <2>. HIDE DEF n
  <2>5. /\ Good(c) /\ (Linked(a) => Linked(c)) /\ MaxSize(c) = MaxSize(a)
        /\ c.size = n /\ c.index = a.index /\ c.value = a.value
    BY <2>2, <2>3, ShrinkGood
  <2>. HIDE DEF c
  <2>6. ObjOK(c, s)
    BY <2>2, <2>5 DEF ObjOK
  <2>. QED  BY <1>5, <1>6, <1>8, <2>1, <2>4, <2>5, <2>6
<1>. QED  BY <1>2, <1>5, <1>7, <1>8

LEMMA StepCopy ==
  ASSUME SparseInv, NEW o \in Obj, NEW src \in Obj \ {o}, Copy(o, src)
  PROVE  SparseInv' /\ M!Copy(o, src)
<1> DEFINE a == array[src]
           s == sorted[src]
           c == [a EXCEPT !.data = TRUE, !.len = MaxSize(a)]
<1>1. Good(a) /\ s \in BOOLEAN /\ (~s => Linked(a))
  BY InvByObject DEF ObjOK
<1>2. Become(o, c, s) /\ call' = <<"copy", o, src>>
  BY DEF Copy
<1>3. MapEntries[src] = Entries(a) /\ MapMax[src] = MaxSize(a)
  BY DEF MapEntries, MapMax
<1>. HIDE DEF a, s
<1>4. /\ Good(c) /\ (Linked(a) => Linked(c)) /\ MaxSize(c) = MaxSize(a)
      /\ c.size = a.size /\ c.index = a.index /\ c.value = a.value
  BY <1>1, CopyGood
<1>. HIDE DEF c
<1>5. SparseInv'
  BY <1>1, <1>2, <1>4, BecomeInv DEF ObjOK
<1>6. Entries(c) = Entries(a)
  BY <1>4 DEF Entries
<1>7. /\ MapEntries' = [MapEntries EXCEPT ![o] = MapEntries[src]]
      /\ MapMax' = [MapMax EXCEPT ![o] = MapMax[src]]
  BY <1>2, <1>3, <1>4, <1>6, BecomeMap
<1>. QED  BY <1>2, <1>5, <1>7 DEF M!Copy, M!Become, MapEntries, MapMax

LEMMA LenOf ==
  ASSUME NEW d, NEW l, NEW m, NEW n, NEW s
  PROVE  [Array(d, l, n, s, s, s) EXCEPT !.len = m] = Array(d, m, n, s, s, s)
BY DEF Array

LEMMA EmptiedFields ==
  ASSUME NEW a
  PROVE  Emptied(a) = Array(FALSE, a.len, 0, None, None, None)
<1>1. Default = Array(FALSE, 0, 0, None, None, None)
  BY Zenon DEF Default, Array
<1>2. [Array(FALSE, 0, 0, None, None, None) EXCEPT !.len = a.len]
        = Array(FALSE, a.len, 0, None, None, None)
  <2> DEFINE d == FALSE
             m == a.len
  <2>. HIDE DEF d, m
  <2>1. [Array(d, 0, 0, None, None, None) EXCEPT !.len = m]
          = Array(d, m, 0, None, None, None)
    BY LenOf
  <2>. QED  BY <2>1, Zenon DEF d, m
<1>. QED  BY <1>1, <1>2, Zenon DEF Emptied

LEMMA StepMove ==
  ASSUME SparseInv, NEW o \in Obj, NEW src \in Obj \ {o}, Move(o, src)
  PROVE  SparseInv' /\ M!Move(o, src)
<1> DEFINE a == array[src]
           s == sorted[src]
           e == Emptied(a)
<1>1. ObjOK(a, s) /\ Good(a)
  BY InvByObject DEF ObjOK
<1>2. /\ array' = [array EXCEPT ![o] = a, ![src] = e]
      /\ sorted' = [sorted EXCEPT ![o] = s, ![src] = FALSE]
      /\ call' = <<"move", o, src>>
  BY DEF Move
<1>3. MapEntries[src] = Entries(a) /\ MapMax[src] = MaxSize(a)
  BY DEF MapEntries, MapMax
<1>. HIDE DEF a, s
<1>4. e = Array(FALSE, a.len, 0, None, None, None)
  BY EmptiedFields
<1>5. a.len \in 0..MaxMax
  BY <1>1 DEF Good, IsArray
<1>6. Good(e) /\ Linked(e) /\ MaxSize(e) = 0 /\ e.size = 0
  BY <1>4, <1>5, EmptyGood
<1>. HIDE DEF e
<1>7. ObjOK(e, FALSE) /\ Entries(e) = M!Empty
  BY <1>6, NoCells DEF ObjOK, Entries, M!Empty
<1>8. /\ DOMAIN array' = Obj /\ DOMAIN sorted' = Obj
      /\ array'[o] = a /\ array'[src] = e /\ sorted'[o] = s /\ sorted'[src] = FALSE
      /\ \A q \in Obj \ {o, src} : array'[q] = array[q] /\ sorted'[q] = sorted[q]
  BY <1>2, InvByObject
<1>9. \A q \in Obj : ObjOK(array'[q], sorted'[q])
  BY <1>1, <1>7, <1>8, InvByObject
<1>10. SparseInv'
  BY <1>8, <1>9 DEF SparseInv, TypeOK, InBounds, ObjOK, Good
<1>11. /\ MapEntries' = [MapEntries EXCEPT ![o] = MapEntries[src], ![src] = M!Empty]
       /\ MapMax' = [MapMax EXCEPT ![o] = MapMax[src], ![src] = 0]
  BY <1>3, <1>6, <1>7, <1>8 DEF MapEntries, MapMax
<1>. QED  BY <1>2, <1>10, <1>11 DEF M!Move, MapEntries, MapMax

LEMMA StepSort ==
  ASSUME SparseInv, NEW o \in Obj, Sort(o)
  PROVE  SparseInv' /\ M!Sort(o)
<1> DEFINE a == array[o]
           Before == {<<a.index[j], a.value[j]>> : j \in Cells(a.size)}
<1>1. PICK ix \in [Cells(a.size) -> Cells(MaxSize(a))], vs \in [Cells(a.size) -> Value] :
        /\ {<<ix[j], vs[j]>> : j \in Cells(a.size)} = Before
        /\ \A j, k \in Cells(a.size) : j < k => ix[j] < ix[k]
        /\ Become(o, Sorted(a, ix, vs), TRUE)
        /\ call' = <<"sort", o>>
  BY Zenon DEF Sort
<1> DEFINE b == Sorted(a, ix, vs)
<1>2. ObjOK(a, sorted[o]) /\ Good(a)
  BY InvByObject DEF ObjOK
<1>3. MapEntries[o] = Entries(a) /\ MapMax[o] = MaxSize(a)
  BY DEF MapEntries, MapMax
<1>4. Become(o, b, TRUE) /\ call' = <<"sort", o>>
  BY <1>1
<1>. HIDE DEF a
<1>5. /\ a.size \in 0..MaxMax /\ MaxSize(a) \in 0..MaxMax /\ a.size <= MaxSize(a)
      /\ DOMAIN Entries(a) = 0..(a.size - 1)
      /\ \A j \in Cells(a.size) :
           Entries(a)[j].index = a.index[j] /\ Entries(a)[j].value = a.value[j]
  BY <1>2, EntriesOf
<1>6. \A j \in Cells(a.size) : Entries(a)[j] = [index |-> a.index[j], value |-> a.value[j]]
  BY <1>2, EntriesOf
<1>7. /\ Good(b) /\ MaxSize(b) = MaxSize(a) /\ b.size = a.size
      /\ \A j \in Cells(a.size) : b.index[j] = ix[j] /\ b.value[j] = vs[j]
  BY <1>1, <1>2, SortGood
<1>. HIDE DEF b
<1>8. SparseInv'
  BY <1>4, <1>7, BecomeInv DEF ObjOK
<1>9. MapEntries' = [MapEntries EXCEPT ![o] = Entries(b)] /\ MapMax' = MapMax
  BY ZenonT(30), <1>3, <1>4, <1>7, BecomeMap DEF MapMax
<1> DEFINE D == Cells(a.size)
           e == [j \in D |-> [index |-> ix[j], value |-> vs[j]]]
<1>10. Entries(b) = e
  <2>1. Entries(b) = [j \in D |-> [index |-> b.index[j], value |-> b.value[j]]]
    BY <1>7 DEF Entries
  <2>. QED  BY <1>7, <2>1
<1>11. e \in [D -> M!Entry]
  <2>1. Cells(MaxSize(a)) \subseteq 0..(MaxMax - 1)
    BY <1>5, SparseSorts DEF Cells
  <2>2. \A j \in D : ix[j] \in 0..(MaxMax - 1) /\ vs[j] \in Value
    BY <2>1
  <2>. QED  BY <2>2 DEF M!Entry
<1>12. DOMAIN e = D /\ DOMAIN Entries(a) = D
  BY <1>5 DEF Cells
<1>13. \A j \in D : /\ e[j] = [index |-> ix[j], value |-> vs[j]]
                    /\ e[j].index = ix[j] /\ e[j].value = vs[j]
  OBVIOUS
<1>14. {e[j] : j \in D} = {Entries(a)[j] : j \in D}
  <2>1. {<<ix[j], vs[j]>> : j \in D} = {<<a.index[j], a.value[j]>> : j \in D}
    BY <1>1
  <2>2. ASSUME NEW j \in D PROVE \E k \in D : e[j] = Entries(a)[k]
    <3>1. PICK k \in D : <<ix[j], vs[j]>> = <<a.index[k], a.value[k]>>
      BY <2>1
    <3>2. ix[j] = a.index[k] /\ vs[j] = a.value[k]
      BY <3>1
    <3>. QED  BY <1>6, <1>13, <3>2
  <2>3. ASSUME NEW k \in D PROVE \E j \in D : e[j] = Entries(a)[k]
    <3>1. PICK j \in D : <<ix[j], vs[j]>> = <<a.index[k], a.value[k]>>
      BY <2>1
    <3>2. ix[j] = a.index[k] /\ vs[j] = a.value[k]
      BY <3>1
    <3>. QED  BY <1>6, <1>13, <3>2
  <2>. HIDE DEF D, e
  <2>. QED  BY <2>2, <2>3
<1>15. \A j, k \in D : j < k => e[j].index < e[k].index
  BY <1>1, <1>13
<1>16. M!Become(o, e)
  BY <1>9, <1>10 DEF M!Become, MapEntries
<1>. HIDE DEF D, e
<1>17. /\ e \in [DOMAIN MapEntries[o] -> M!Entry]
       /\ {e[j] : j \in DOMAIN e} = {MapEntries[o][j] : j \in DOMAIN MapEntries[o]}
       /\ \A j, k \in DOMAIN e : j < k => e[j].index < e[k].index
  BY <1>3, <1>11, <1>12, <1>14, <1>15
<1>. QED  BY <1>4, <1>8, <1>9, <1>16, <1>17 DEF M!Sort, MapEntries, MapMax

LEMMA StepInserting ==
  ASSUME SparseInv, NEW o \in Obj, Set(o) \/ SetNew(o) \/ SetExisting(o)
  PROVE  SparseInv' /\ (M!Insert(o) \/ M!Update(o) \/ M!Ignore(o))
<1> DEFINE a == array[o]
<1>1. ~sorted[o]
  BY DEF Set, SetNew, SetExisting
<1>2. ObjOK(a, FALSE)
  BY <1>1, InvByObject DEF ObjOK
<1>3. \E i \in -1..MaxMax, v \in Value :
        /\ Become(o, SetInternal(a, TRUE, i, v), FALSE)
        /\ call' = <<"set", o, i, v>>
  <2>1. CASE Set(o)
    BY <2>1 DEF Set
  <2>2. CASE SetNew(o)
    <3>1. PICK i \in Cells(MaxSize(a)), v \in Value :
            /\ ~HasIndex(a, i)
            /\ Become(o, SetInternal(a, FALSE, i, v), FALSE)
            /\ call' = <<"set", o, i, v>>
      BY <2>2 DEF SetNew
    <3>2. SetInternal(a, FALSE, i, v) = SetInternal(a, TRUE, i, v) /\ i \in -1..MaxMax
      BY <1>2, <3>1, SetSame
    <3>. QED  BY <3>1, <3>2
  <2>3. CASE SetExisting(o)
    <3>1. PICK i \in Cells(MaxSize(a)), v \in Value :
            /\ HasIndex(a, i)
            /\ Become(o, SetExistingInternal(a, i, v), FALSE)
            /\ call' = <<"set", o, i, v>>
      BY <2>3 DEF SetExisting
    <3>2. SetExistingInternal(a, i, v) = SetInternal(a, TRUE, i, v) /\ i \in -1..MaxMax
      BY <1>2, <3>1, SetSame
    <3>. QED  BY <3>1, <3>2
  <2>. QED  BY <2>1, <2>2, <2>3
<1>. QED  BY <1>1, <1>3, StepSet

LEMMA Step ==
  ASSUME SparseInv, [Next]_vars
  PROVE  SparseInv' /\ [M!MNext]_(M!mvars)
<1>1. CASE Next
  <2>1. PICK o \in Obj :
          \/ Construct(o) \/ Has(o) \/ GetExisting(o) \/ Set(o) \/ SetNew(o)
          \/ SetExisting(o) \/ Clear(o) \/ Resize(o) \/ Sort(o)
          \/ \E src \in Obj \ {o} : Copy(o, src) \/ Move(o, src)
    BY <1>1 DEF Next
  <2>2. CASE Construct(o)
    BY <2>2, StepConstruct DEF M!MNext
  <2>3. CASE Has(o) \/ GetExisting(o)
    BY <2>3, StepLookup DEF M!MNext
  <2>4. CASE Set(o) \/ SetNew(o) \/ SetExisting(o)
    BY <2>4, StepInserting DEF M!MNext
  <2>5. CASE Clear(o)
    BY <2>5, StepClear DEF M!MNext
  <2>6. CASE Resize(o)
    BY <2>6, StepResize DEF M!MNext
  <2>7. CASE Sort(o)
    BY <2>7, StepSort DEF M!MNext
  <2>8. CASE \E src \in Obj \ {o} : Copy(o, src) \/ Move(o, src)
    BY <2>8, StepCopy, StepMove DEF M!MNext
  <2>. QED  BY <2>1, <2>2, <2>3, <2>4, <2>5, <2>6, <2>7, <2>8
<1>2. CASE UNCHANGED vars
  BY <1>2 DEF vars, M!mvars, SparseInv, TypeOK, InBounds
<1>. QED  BY <1>1, <1>2

-----------------------------------------------------------------------------
(***************************************************************************)
(* The theorems.                                                           *)
(***************************************************************************)

\* The pairs of dense_ are legal, different, inside the memory and (in an array
\* that is not sorted) found by way of sparse_, after every sequence of calls.
THEOREM Invariant == Spec => []SparseInv
<1>1. SparseInv /\ [Next]_vars => SparseInv'
  BY Step
<1>. QED  BY InitInv, <1>1, PTL DEF Spec

\* No call touches a cell that is not there.
THEOREM NeverOutOfBounds == Spec => []InBounds
<1>1. SparseInv => InBounds
  BY DEF SparseInv
<1>. QED  BY Invariant, <1>1, PTL

\* has_index (sparse_array.h:158) is exact although it reads memory that nobody
\* has initialised.
THEOREM LookupIsExact == Spec => []HasIndexExact
<1>1. SparseInv => HasIndexExact
  <2>. SUFFICES ASSUME SparseInv, NEW o \in Obj, ~sorted[o],
                       NEW i \in Cells(MaxSize(array[o]))
                PROVE  HasIndex(array[o], i) <=> Present(array[o], i)
    BY DEF HasIndexExact
  <2>1. Good(array[o]) /\ Linked(array[o])
    BY InvByObject DEF ObjOK
  <2>. QED  BY <2>1, LookupExact
<1>. QED  BY Invariant, <1>1, PTL

\* The assertion of create_index (sparse_array.h:348) holds whenever an index is
\* not there, so set_new() and set() never write behind the last cell.
THEOREM AlwaysRoom == Spec => []RoomForNew
<1>1. SparseInv => RoomForNew
  <2>. SUFFICES ASSUME SparseInv, NEW o \in Obj, ~sorted[o],
                       NEW i \in Cells(MaxSize(array[o])), ~HasIndex(array[o], i)
                PROVE  array[o].size < MaxSize(array[o])
    BY DEF RoomForNew
  <2>1. Good(array[o]) /\ Linked(array[o])
    BY InvByObject DEF ObjOK
  <2>2. ~Present(array[o], i)
    BY <2>1, LookupExact
  <2>. QED  BY <2>1, <2>2, Room
<1>. QED  BY Invariant, <1>1, PTL

\* A sparse array is a map with insertion order.
THEOREM Refinement == Spec => RefinesMap
<1>1. Init => M!MInit
  <2>. SUFFICES ASSUME Init PROVE M!MInit
    OBVIOUS
  <2>1. Default.size = 0 /\ ~Default.data
    BY DEF Default
  <2>2. Entries(Default) = M!Empty /\ MaxSize(Default) = 0
    BY <2>1, NoCells DEF Entries, M!Empty, MaxSize
  <2>. QED  BY <2>2 DEF Init, M!MInit
<1>2. SparseInv /\ [Next]_vars => [M!MNext]_(M!mvars)
  BY Step
<1>. QED  BY <1>1, <1>2, Invariant, PTL DEF Spec, RefinesMap, M!MSpec
=============================================================================
