----------------------------- MODULE NFAProofs -----------------------------
(***************************************************************************)
(* Proofs about the simulation of the NFA: the count of a thread is the    *)
(* number of places that hold it, and the stack of AddToThreadq is large   *)
(* enough.                                                                 *)
(***************************************************************************)
EXTENDS BitStateProofs, FiniteSetTheorems

Some == Nat \ {0}    \* all threads there can be

(***************************************************************************)
(* How often a queue, or a stack, holds the thread k from position f on.   *)
(***************************************************************************)
Places(q, f, k) == {j \in f..Len(q) : q[j].t = k}
Count(q, f, k) == Cardinality(Places(q, f, k))
One(cond) == IF cond THEN 1 ELSE 0

LEMMA CountNat ==
  ASSUME NEW S, NEW q \in Seq(S), NEW f \in Nat, NEW k
  PROVE  IsFiniteSet(Places(q, f, k)) /\ Count(q, f, k) \in Nat
<1>1. IsFiniteSet(f..Len(q))
  BY LenProperties, FS_Interval
<1>2. IsFiniteSet(Places(q, f, k))
  BY <1>1, FS_Subset DEF Places
<1>. QED  BY <1>2, FS_CardinalityType DEF Count

LEMMA CountNone ==
  ASSUME NEW S, NEW q \in Seq(S), NEW f \in Nat, f > Len(q), NEW k
  PROVE  Count(q, f, k) = 0
<1>1. Places(q, f, k) = {}
  BY LenProperties DEF Places
<1>. QED  BY <1>1, FS_EmptySet DEF Count

LEMMA CountAppend ==
  ASSUME NEW S, NEW q \in Seq(S), NEW e \in S, NEW f \in 1..(Len(q) + 1), NEW k
  PROVE  Count(Append(q, e), f, k) = Count(q, f, k) + One(e.t = k)
<1> DEFINE n == Len(q)
           r == Append(q, e)
<1>1. n \in Nat /\ f \in Nat /\ f <= n + 1
  BY LenProperties
<1>2. r \in Seq(S) /\ Len(r) = n + 1 /\ r[n + 1] = e /\ \A j \in 1..n : r[j] = q[j]
  BY AppendProperties
<1>. HIDE DEF n, r
<1>3. \A j : j \in f..(n + 1) <=> j \in f..n \/ j = n + 1
  BY <1>1
<1>4. \A j \in f..n : j \in 1..n /\ j # n + 1
  BY <1>1
<1>5. Places(r, f, k) = Places(q, f, k) \cup (IF e.t = k THEN {n + 1} ELSE {})
  BY <1>2, <1>3, <1>4 DEF Places, n
<1>6. n + 1 \notin Places(q, f, k)
  BY <1>4 DEF Places, n
<1>7. IsFiniteSet(Places(q, f, k)) /\ Count(q, f, k) \in Nat
  BY <1>1, CountNat
<1>8. CASE e.t = k
  BY <1>5, <1>6, <1>7, <1>8, FS_AddElement DEF Count, One, r
<1>9. CASE e.t # k
  BY <1>5, <1>7, <1>9 DEF Count, One, r
<1>. QED  BY <1>8, <1>9

LEMMA CountFrom ==
  ASSUME NEW S, NEW q \in Seq(S), NEW f \in 1..Len(q), NEW k
  PROVE  Count(q, f, k) = Count(q, f + 1, k) + One(q[f].t = k)
<1>1. Len(q) \in Nat /\ f \in Nat /\ f + 1 \in Nat /\ f <= Len(q)
  BY LenProperties
<1>2. \A j : j \in f..Len(q) <=> j \in (f + 1)..Len(q) \/ j = f
  BY <1>1
<1>3. Places(q, f, k) = Places(q, f + 1, k) \cup (IF q[f].t = k THEN {f} ELSE {})
  BY <1>2 DEF Places
<1>4. f \notin Places(q, f + 1, k)
  BY <1>1 DEF Places
<1>5. IsFiniteSet(Places(q, f + 1, k)) /\ Count(q, f + 1, k) \in Nat
  BY <1>1, CountNat
<1>6. CASE q[f].t = k
  BY <1>3, <1>4, <1>5, <1>6, FS_AddElement DEF Count, One
<1>7. CASE q[f].t # k
  BY <1>3, <1>5, <1>7 DEF Count, One
<1>. QED  BY <1>6, <1>7

LEMMA CountBelow ==
  ASSUME NEW S, NEW q \in Seq(S), q # <<>>, NEW k
  PROVE  LET r == SubSeq(q, 1, Len(q) - 1) IN
         /\ r \in Seq(S) /\ Len(r) = Len(q) - 1 /\ Len(q) \in Nat \ {0} /\ q[Len(q)] \in S
         /\ \A j \in 1..(Len(q) - 1) : r[j] = q[j]
         /\ Count(q, 1, k) = Count(r, 1, k) + One(q[Len(q)].t = k)
<1> DEFINE n == Len(q)
           r == SubSeq(q, 1, n - 1)
<1>1. n \in Nat \ {0}
  BY EmptySeq, LenProperties
<1>2. \A j \in 1..(n - 1) : q[j] \in S
  BY <1>1, ElementOfSeq
<1>3. q[n] \in S
  BY <1>1, ElementOfSeq
<1>4. /\ r \in Seq(S) /\ Len(r) = IF 1 <= n - 1 THEN n - 1 - 1 + 1 ELSE 0
      /\ \A j \in 1..(n - 1 - 1 + 1) : r[j] = q[1 + j - 1]
  <2>. HIDE DEF n
  <2>. QED  BY <1>1, <1>2, SubSeqProperties
<1>. HIDE DEF n, r
<1>5. n - 1 - 1 + 1 = n - 1 /\ (1 <= n - 1 \/ n - 1 = 0)
  BY <1>1
<1>6. \A j \in Int : 1 + j - 1 = j
  OBVIOUS
<1>7. Len(r) = n - 1 /\ \A j \in 1..(n - 1) : r[j] = q[j]
  BY <1>4, <1>5, <1>6
<1>8. \A j : j \in 1..n <=> j \in 1..(n - 1) \/ j = n
  BY <1>1
<1>9. Places(q, 1, k) = Places(r, 1, k) \cup (IF q[n].t = k THEN {n} ELSE {})
  BY <1>7, <1>8 DEF Places, n
<1>10. n \notin Places(r, 1, k)
  BY <1>1, <1>7 DEF Places
<1>11. IsFiniteSet(Places(r, 1, k)) /\ Count(r, 1, k) \in Nat
  BY <1>4, CountNat
<1>12. Count(q, 1, k) = Count(r, 1, k) + One(q[n].t = k)
  <2>1. CASE q[n].t = k
    BY <1>9, <1>10, <1>11, <2>1, FS_AddElement DEF Count, One
  <2>2. CASE q[n].t # k
    <3>1. Places(q, 1, k) = Places(r, 1, k)
      BY <1>9, <2>2
    <3>. QED  BY <1>11, <2>2, <3>1 DEF Count, One
  <2>. QED  BY <2>1, <2>2
<1>. QED  BY <1>1, <1>3, <1>4, <1>7, <1>12 DEF n, r

(***************************************************************************)
(* The pool and its counts.  h says how often each thread is held.         *)
(***************************************************************************)
IsPool(pl) ==
  /\ DOMAIN pl = {"ref", "capture", "free"}
  /\ pl.ref \in Seq(Nat) /\ pl.free \in Seq(Some)
Exact(pl, h) ==
  /\ IsPool(pl)
  /\ \A k \in Some : h[k] = IF k <= Len(pl.ref) THEN pl.ref[k] ELSE 0
  /\ \A j \in 1..Len(pl.free) : pl.free[j] <= Len(pl.ref) /\ pl.ref[pl.free[j]] = 0
  /\ \A k \in 1..Len(pl.ref) : pl.ref[k] = 0 => \E j \in 1..Len(pl.free) : pl.free[j] = k
  /\ \A j, k \in 1..Len(pl.free) : j # k => pl.free[j] # pl.free[k]

LEMMA IncrefExact ==
  ASSUME NEW pl, NEW h \in [Some -> Nat], NEW g, NEW th0 \in Some, Exact(pl, h), h[th0] > 0,
         \A k \in Some : g[k] = h[k] + One(k = th0)
  PROVE  Exact(Incref(pl, th0), g)
<1> DEFINE new == Incref(pl, th0)
           ref == [pl.ref EXCEPT ![th0] = @ + 1]
<1>1. IsPool(pl) /\ Len(pl.ref) \in Nat
  BY LenProperties DEF Exact, IsPool
<1>2. th0 \in 1..Len(pl.ref) /\ pl.ref[th0] = h[th0] /\ pl.ref[th0] \in Nat
  BY <1>1 DEF Exact, Some
<1>3. /\ DOMAIN new = DOMAIN pl /\ new.ref = ref /\ new.free = pl.free
  BY <1>1 DEF Incref, IsPool
<1>4. /\ ref \in Seq(Nat) /\ Len(ref) = Len(pl.ref)
      /\ \A k \in 1..Len(pl.ref) : ref[k] = pl.ref[k] + One(k = th0)
  <2>1. pl.ref \in [1..Len(pl.ref) -> Nat]
    BY <1>1, LenProperties DEF IsPool
  <2>2. ref \in [1..Len(pl.ref) -> Nat]
    BY <1>2, <2>1
  <2>3. ref \in Seq(Nat) /\ Len(ref) = Len(pl.ref)
    <3>. HIDE DEF ref
    <3>. QED  BY <1>1, <2>2, IsASeq, LenProperties
  <2>4. \A k \in 1..Len(pl.ref) : ref[k] = pl.ref[k] + One(k = th0)
    BY <1>2, <2>1 DEF One
  <2>. QED  BY <2>3, <2>4
<1>. HIDE DEF new, ref
<1>5. IsPool(new)
  BY <1>1, <1>3, <1>4 DEF IsPool
<1>6. \A k \in Some : g[k] = IF k <= Len(new.ref) THEN new.ref[k] ELSE 0
  BY <1>1, <1>2, <1>3, <1>4 DEF Exact, One, Some
<1>7. \A j \in 1..Len(new.free) : new.free[j] <= Len(new.ref) /\ new.ref[new.free[j]] = 0
  <2>. SUFFICES ASSUME NEW j \in 1..Len(pl.free)
                PROVE  pl.free[j] <= Len(ref) /\ ref[pl.free[j]] = 0
    BY <1>3
  <2>1. pl.free[j] \in Some /\ pl.free[j] <= Len(pl.ref) /\ pl.ref[pl.free[j]] = 0
    BY <1>1, ElementOfSeq DEF Exact, IsPool
  <2>2. pl.free[j] # th0
    BY <1>2, <2>1
  <2>3. pl.free[j] \in 1..Len(pl.ref)
    BY <1>1, <2>1 DEF Some
  <2>4. ref[pl.free[j]] = pl.ref[pl.free[j]] + One(pl.free[j] = th0)
    BY <1>4, <2>3
  <2>5. One(pl.free[j] = th0) = 0
    BY <2>2 DEF One
  <2>. QED  BY <1>4, <2>1, <2>4, <2>5
<1>8. \A k \in 1..Len(new.ref) : new.ref[k] = 0 => \E j \in 1..Len(new.free) : new.free[j] = k
  <2>1. \A k \in 1..Len(pl.ref) : pl.ref[k] \in Nat
    BY <1>1, ElementOfSeq DEF IsPool
  <2>. SUFFICES ASSUME NEW k \in 1..Len(pl.ref), ref[k] = 0
                PROVE  \E j \in 1..Len(pl.free) : pl.free[j] = k
    BY <1>3, <1>4
  <2>2. ref[k] = pl.ref[k] + One(k = th0) /\ One(k = th0) \in Nat
    BY <1>4 DEF One
  <2>3. pl.ref[k] = 0
    BY <2>1, <2>2
  <2>. QED  BY <2>3 DEF Exact
<1>9. Exact(new, g)
  BY <1>3, <1>5, <1>6, <1>7, <1>8 DEF Exact
<1>. QED  BY <1>9 DEF new

LEMMA DecrefExact ==
  ASSUME NEW pl, NEW h \in [Some -> Nat], NEW g, NEW th0 \in Some, Exact(pl, h), h[th0] > 0,
         \A k \in Some : g[k] = h[k] - One(k = th0)
  PROVE  Exact(Decref(pl, th0), g)
<1> DEFINE new == Decref(pl, th0)
           ref == [pl.ref EXCEPT ![th0] = @ - 1]
           last == h[th0] = 1
<1>1. IsPool(pl) /\ Len(pl.ref) \in Nat /\ Len(pl.free) \in Nat
  BY LenProperties DEF Exact, IsPool
<1>2. th0 \in 1..Len(pl.ref) /\ pl.ref[th0] = h[th0] /\ pl.ref[th0] \in Nat
  BY <1>1 DEF Exact, Some
<1>3. /\ DOMAIN new = DOMAIN pl /\ new.ref = ref
      /\ new.free = IF last THEN <<th0>> \o pl.free ELSE pl.free
  <2>1. CASE last
    <3>1. new = [pl EXCEPT !.ref[th0] = 0, !.free = <<th0>> \o @]
      BY <1>2, <2>1 DEF Decref
    <3>2. pl.ref[th0] - 1 = 0
      BY <1>2, <2>1
    <3>. QED  BY <1>1, <2>1, <3>1, <3>2 DEF IsPool
  <2>2. CASE ~last
    <3>1. new = [pl EXCEPT !.ref[th0] = @ - 1]
      BY <1>2, <2>2 DEF Decref
    <3>. QED  BY <1>1, <2>2, <3>1 DEF IsPool
  <2>. QED  BY <2>1, <2>2
<1>4. /\ ref \in Seq(Nat) /\ Len(ref) = Len(pl.ref)
      /\ \A k \in 1..Len(pl.ref) : ref[k] = pl.ref[k] - One(k = th0)
  <2>1. pl.ref \in [1..Len(pl.ref) -> Nat]
    BY <1>1, LenProperties DEF IsPool
  <2>2. ref \in [1..Len(pl.ref) -> Nat]
    <3>1. pl.ref[th0] - 1 \in Nat
      BY <1>2
    <3>. QED  BY <1>2, <2>1, <3>1
  <2>3. ref \in Seq(Nat) /\ Len(ref) = Len(pl.ref)
    <3>. HIDE DEF ref
    <3>. QED  BY <1>1, <2>2, IsASeq, LenProperties
  <2>4. \A k \in 1..Len(pl.ref) : ref[k] = pl.ref[k] - One(k = th0)
    BY <1>2, <2>1 DEF One
  <2>. QED  BY <2>3, <2>4
<1>5. \A j \in 1..Len(pl.free) : pl.free[j] \in Some /\ pl.free[j] <= Len(pl.ref)
        /\ pl.ref[pl.free[j]] = 0 /\ pl.free[j] # th0
  <2>1. \A j \in 1..Len(pl.free) : pl.free[j] \in Some
    BY <1>1, ElementOfSeq DEF IsPool
  <2>. QED  BY <1>2, <2>1 DEF Exact
<1>6. \A k \in 1..Len(pl.ref) : pl.ref[k] \in Nat
  BY <1>1, ElementOfSeq DEF IsPool
<1>7. last => /\ new.free \in Seq(Some) /\ Len(new.free) = Len(pl.free) + 1 /\ new.free[1] = th0
              /\ \A j \in 2..(Len(pl.free) + 1) : new.free[j] = pl.free[j - 1]
  <2>. SUFFICES ASSUME last
                PROVE  /\ <<th0>> \o pl.free \in Seq(Some) /\ Len(<<th0>> \o pl.free) = Len(pl.free) + 1
                       /\ (<<th0>> \o pl.free)[1] = th0
                       /\ \A j \in 2..(Len(pl.free) + 1) : (<<th0>> \o pl.free)[j] = pl.free[j - 1]
    BY <1>3
  <2>1. <<th0>> \in Seq(Some) /\ Len(<<th0>>) = 1 /\ <<th0>>[1] = th0
    OBVIOUS
  <2>2. pl.free \in Seq(Some)
    BY <1>1 DEF IsPool
  <2>. HIDE DEF last, new, ref
  <2>. QED  BY <1>1, <2>1, <2>2, ConcatProperties
<1>. HIDE DEF new, ref
<1>8. IsPool(new)
  BY <1>1, <1>3, <1>4, <1>7 DEF IsPool
<1>9. \A k \in Some : g[k] = IF k <= Len(new.ref) THEN new.ref[k] ELSE 0
  BY <1>1, <1>2, <1>3, <1>4 DEF Exact, One, Some
<1>12. ASSUME NEW j \in 1..Len(pl.free)
       PROVE  ref[pl.free[j]] = 0
  <2>1. pl.free[j] \in 1..Len(pl.ref)
    BY <1>1, <1>5 DEF Some
  <2>2. ref[pl.free[j]] = pl.ref[pl.free[j]] - One(pl.free[j] = th0)
    BY <1>4, <2>1
  <2>3. One(pl.free[j] = th0) = 0
    BY <1>5 DEF One
  <2>. QED  BY <1>5, <2>2, <2>3
<1>10. CASE last
  <2>1. \A j \in 1..(Len(pl.free) + 1) : j = 1 \/ (j \in 2..(Len(pl.free) + 1) /\ j - 1 \in 1..Len(pl.free))
    BY <1>1
  <2>2. ref[th0] = 0
    BY <1>2, <1>4, <1>10 DEF One
  <2>3. \A j \in 1..Len(pl.free) : ref[pl.free[j]] = 0
    BY <1>12
  <2>4. \A j \in 1..Len(new.free) : new.free[j] <= Len(new.ref) /\ new.ref[new.free[j]] = 0
    BY <1>2, <1>3, <1>4, <1>5, <1>7, <1>10, <2>1, <2>2, <2>3
  <2>5. ASSUME NEW k \in 1..Len(new.ref), new.ref[k] = 0
        PROVE  \E j \in 1..Len(new.free) : new.free[j] = k
    <3>1. CASE k = th0
      <4>1. 1 \in 1..Len(new.free)
        BY <1>1, <1>7, <1>10
      <4>. QED  BY <1>7, <1>10, <3>1, <4>1
    <3>2. CASE k # th0
      <4>1. pl.ref[k] = 0
        BY <1>3, <1>4, <1>6, <2>5, <3>2 DEF One
      <4>2. PICK j \in 1..Len(pl.free) : pl.free[j] = k
        BY <1>3, <1>4, <4>1 DEF Exact
      <4>3. j + 1 \in 2..(Len(pl.free) + 1) /\ j + 1 \in 1..(Len(pl.free) + 1) /\ (j + 1) - 1 = j
        BY <1>1
      <4>4. new.free[j + 1] = pl.free[(j + 1) - 1]
        BY <1>7, <1>10, <4>3
      <4>5. new.free[j + 1] = k
        BY <4>2, <4>3, <4>4
      <4>. QED  BY <1>7, <1>10, <4>3, <4>5
    <3>. QED  BY <3>1, <3>2
  <2>6. ASSUME NEW j \in 1..Len(new.free), NEW k \in 1..Len(new.free), j # k, new.free[j] = new.free[k]
        PROVE  FALSE
    <3>1. j \in 1..(Len(pl.free) + 1) /\ k \in 1..(Len(pl.free) + 1)
      BY <1>7, <1>10
    <3>2. j - 1 # k - 1
      BY <2>6, <3>1
    <3>3. \A n \in 2..(Len(pl.free) + 1) : new.free[n] = pl.free[n - 1] /\ new.free[n] # th0
      <4>1. ASSUME NEW n \in 2..(Len(pl.free) + 1)
            PROVE  n - 1 \in 1..Len(pl.free)
        BY <1>1
      <4>. QED  BY SMTT(30), <1>5, <1>7, <1>10, <4>1
    <3>4. j # 1 /\ k # 1
      BY <1>7, <1>10, <2>1, <2>6, <3>1, <3>3
    <3>5. /\ j \in 2..(Len(pl.free) + 1) /\ j - 1 \in 1..Len(pl.free)
          /\ k \in 2..(Len(pl.free) + 1) /\ k - 1 \in 1..Len(pl.free)
      BY <2>1, <3>1, <3>4
    <3>6. pl.free[j - 1] = pl.free[k - 1]
      BY <2>6, <3>3, <3>5
    <3>. QED  BY <3>2, <3>5, <3>6 DEF Exact
  <2>7. Exact(new, g)
    BY <1>8, <1>9, <2>4, <2>5, <2>6 DEF Exact
  <2>. QED  BY <2>7 DEF new
<1>11. CASE ~last
  <2>1. ref[th0] # 0
    BY <1>2, <1>4, <1>11 DEF One
  <2>2. \A j \in 1..Len(new.free) : new.free[j] <= Len(new.ref) /\ new.ref[new.free[j]] = 0
    BY <1>3, <1>4, <1>5, <1>11, <1>12
  <2>3. \A k \in 1..Len(new.ref) : new.ref[k] = 0 => \E j \in 1..Len(new.free) : new.free[j] = k
    BY <1>3, <1>4, <1>6, <1>11, <2>1 DEF Exact, One
  <2>4. Exact(new, g)
    BY <1>3, <1>8, <1>9, <1>11, <2>2, <2>3 DEF Exact
  <2>. QED  BY <2>4 DEF new
<1>. QED  BY <1>10, <1>11

LEMMA AllocExact ==
  ASSUME NEW pl, NEW h \in [Some -> Nat], NEW g, NEW caps0, Exact(pl, h),
         \A k \in Some : g[k] = h[k] + One(k = NewThread(pl))
  PROVE  NewThread(pl) \in Some /\ Exact(AllocThread(pl, caps0), g)
<1> DEFINE new == AllocThread(pl, caps0)
           n == NewThread(pl)
<1>1. /\ IsPool(pl) /\ Len(pl.ref) \in Nat /\ Len(pl.free) \in Nat
      /\ \A k \in 1..Len(pl.ref) : pl.ref[k] \in Nat
      /\ \A j \in 1..Len(pl.free) : pl.free[j] \in Some
  BY LenProperties, ElementOfSeq DEF Exact, IsPool
<1>2. CASE pl.free = <<>>
  <2>1. n = Len(pl.ref) + 1 /\ n \in Some
    BY <1>1, <1>2 DEF NewThread, Some
  <2>2. /\ DOMAIN new = DOMAIN pl /\ new.ref = Append(pl.ref, 1) /\ new.free = <<>>
    BY <1>1, <1>2 DEF AllocThread, IsPool
  <2>3. /\ new.ref \in Seq(Nat) /\ Len(new.ref) = Len(pl.ref) + 1 /\ new.ref[Len(pl.ref) + 1] = 1
        /\ \A k \in 1..Len(pl.ref) : new.ref[k] = pl.ref[k]
    <3>1. Append(pl.ref, 1) \in Seq(Nat) /\ Len(Append(pl.ref, 1)) = Len(pl.ref) + 1
      BY <1>1, AppendProperties DEF IsPool
    <3>2. /\ Append(pl.ref, 1)[Len(pl.ref) + 1] = 1
          /\ \A k \in 1..Len(pl.ref) : Append(pl.ref, 1)[k] = pl.ref[k]
      BY <1>1, AppendProperties DEF IsPool
    <3>. QED  BY <2>2, <3>1, <3>2
  <2>. HIDE DEF new, n
  <2>4. IsPool(new)
    BY <1>1, <2>2, <2>3 DEF IsPool
  <2>5. \A k \in Some : g[k] = IF k <= Len(new.ref) THEN new.ref[k] ELSE 0
    <3>. SUFFICES ASSUME NEW k \in Some
                  PROVE  g[k] = IF k <= Len(new.ref) THEN new.ref[k] ELSE 0
      OBVIOUS
    <3>1. g[k] = h[k] + One(k = n) /\ h[k] = IF k <= Len(pl.ref) THEN pl.ref[k] ELSE 0
      BY DEF Exact, n
    <3>2. CASE k = n
      BY <1>1, <2>1, <2>3, <3>1, <3>2 DEF One
    <3>3. CASE k # n /\ k <= Len(pl.ref)
      <4>1. k \in 1..Len(pl.ref)
        BY <1>1, <3>3 DEF Some
      <4>. QED  BY <1>1, <2>3, <3>1, <3>3, <4>1 DEF One
    <3>4. CASE k # n /\ ~(k <= Len(pl.ref))
      BY <1>1, <2>1, <2>3, <3>1, <3>4 DEF One, Some
    <3>. QED  BY <3>2, <3>3, <3>4
  <2>6. \A j : j \notin 1..Len(new.free)
    BY <2>2
  <2>7. \A k \in 1..Len(new.ref) : new.ref[k] # 0
    <3>1. \A j : j \notin 1..Len(pl.free)
      BY <1>2
    <3>2. \A k \in 1..Len(pl.ref) : pl.ref[k] # 0
      BY <3>1 DEF Exact
    <3>3. \A k \in 1..(Len(pl.ref) + 1) : k \in 1..Len(pl.ref) \/ k = Len(pl.ref) + 1
      BY <1>1
    <3>. QED  BY <2>3, <3>2, <3>3
  <2>8. Exact(new, g)
    BY <2>4, <2>5, <2>6, <2>7 DEF Exact
  <2>. QED  BY <2>1, <2>8 DEF new, n
<1>3. CASE pl.free # <<>>
  <2>1. /\ n = Head(pl.free) /\ Head(pl.free) = pl.free[1] /\ 1 \in 1..Len(pl.free)
        /\ Tail(pl.free) \in Seq(Some) /\ Len(Tail(pl.free)) = Len(pl.free) - 1
        /\ \A j \in 1..(Len(pl.free) - 1) : Tail(pl.free)[j] = pl.free[j + 1]
    <3>1. pl.free \in Seq(Some) /\ Len(pl.free) \in Nat \ {0}
      BY <1>1, <1>3, EmptySeq DEF IsPool
    <3>. QED  BY <1>3, <3>1, HeadTailProperties DEF NewThread
  <2>2. n \in 1..Len(pl.ref) /\ n \in Some /\ pl.ref[n] = 0
    <3>1. n \in Some /\ n <= Len(pl.ref) /\ pl.ref[n] = 0
      BY <1>1, <2>1 DEF Exact
    <3>. QED  BY <1>1, <3>1 DEF Some
  <2>3. DOMAIN new = DOMAIN pl /\ new.ref = [pl.ref EXCEPT ![n] = 1] /\ new.free = Tail(pl.free)
    BY <1>1, <1>3 DEF AllocThread, IsPool, NewThread
  <2>. HIDE DEF new, n
  <2>4. /\ new.ref \in Seq(Nat) /\ Len(new.ref) = Len(pl.ref)
        /\ \A k \in 1..Len(pl.ref) : new.ref[k] = pl.ref[k] + One(k = n)
    <3>1. pl.ref \in [1..Len(pl.ref) -> Nat]
      BY <1>1, LenProperties DEF IsPool
    <3>2. new.ref \in [1..Len(pl.ref) -> Nat]
      BY <2>2, <2>3, <3>1
    <3>3. new.ref \in Seq(Nat) /\ Len(new.ref) = Len(pl.ref)
      BY <1>1, <3>2, IsASeq, LenProperties
    <3>. QED  BY <2>2, <2>3, <3>1, <3>3 DEF One
  <2>5. IsPool(new)
    BY <1>1, <2>1, <2>3, <2>4 DEF IsPool
  <2>6. \A k \in Some : g[k] = IF k <= Len(new.ref) THEN new.ref[k] ELSE 0
    <3>. SUFFICES ASSUME NEW k \in Some
                  PROVE  g[k] = IF k <= Len(new.ref) THEN new.ref[k] ELSE 0
      OBVIOUS
    <3>1. g[k] = h[k] + One(k = n) /\ h[k] = IF k <= Len(pl.ref) THEN pl.ref[k] ELSE 0
      BY DEF Exact, n
    <3>2. CASE k <= Len(pl.ref)
      <4>1. k \in 1..Len(pl.ref)
        BY <1>1, <3>2 DEF Some
      <4>. QED  BY <2>4, <3>1, <3>2, <4>1
    <3>3. CASE ~(k <= Len(pl.ref))
      BY <1>1, <2>2, <2>4, <3>1, <3>3 DEF One, Some
    <3>. QED  BY <3>2, <3>3
  <2>7. \A j \in 1..(Len(pl.free) - 1) : j + 1 \in 1..Len(pl.free) /\ j + 1 # 1
    BY <1>1
  <2>8. \A j \in 1..Len(new.free) : /\ j \in 1..(Len(pl.free) - 1) /\ new.free[j] = pl.free[j + 1]
                                    /\ new.free[j] # n
    <3>1. \A j \in 1..(Len(pl.free) - 1) : pl.free[j + 1] # n
      BY <2>1, <2>7 DEF Exact
    <3>. QED  BY <2>1, <2>3, <3>1
  <2>9. ASSUME NEW j \in 1..Len(new.free)
        PROVE  new.free[j] <= Len(new.ref) /\ new.ref[new.free[j]] = 0
    <3> DEFINE k == pl.free[j + 1]
    <3>1. k \in Some /\ k <= Len(pl.ref) /\ pl.ref[k] = 0 /\ k # n /\ new.free[j] = k
      BY <1>1, <2>7, <2>8 DEF Exact
    <3>. HIDE DEF k
    <3>2. k \in 1..Len(pl.ref)
      BY <1>1, <3>1 DEF Some
    <3>3. new.ref[k] = pl.ref[k] + One(k = n) /\ One(k = n) = 0
      BY <2>4, <3>1, <3>2 DEF One
    <3>. QED  BY <2>4, <3>1, <3>3
  <2>10. ASSUME NEW k \in 1..Len(new.ref), new.ref[k] = 0
         PROVE  \E j \in 1..Len(new.free) : new.free[j] = k
    <3>1. k \in 1..Len(pl.ref) /\ pl.ref[k] = 0 /\ k # n
      BY <1>1, <2>4, <2>10 DEF One
    <3>2. PICK j \in 1..Len(pl.free) : pl.free[j] = k
      BY <3>1 DEF Exact
    <3>3. j # 1
      BY <2>1, <3>1, <3>2
    <3>4. j - 1 \in 1..(Len(pl.free) - 1) /\ (j - 1) + 1 = j
      BY <1>1, <3>3
    <3>5. j - 1 \in 1..Len(new.free) /\ new.free[j - 1] = k
      BY <2>1, <2>3, <3>2, <3>4
    <3>. QED  BY <3>5
  <2>11. ASSUME NEW j \in 1..Len(new.free), NEW k \in 1..Len(new.free), j # k
         PROVE  new.free[j] # new.free[k]
    <3>1. j + 1 # k + 1
      BY <2>11
    <3>2. j + 1 \in 1..Len(pl.free) /\ k + 1 \in 1..Len(pl.free)
      BY <2>7, <2>8
    <3>. QED  BY <2>8, <3>1, <3>2 DEF Exact
  <2>12. Exact(new, g)
    BY <2>5, <2>6, <2>9, <2>10, <2>11 DEF Exact
  <2>. QED  BY <2>2, <2>12 DEF new, n
<1>. QED  BY <1>2, <1>3

\* DecrefFrom has a pool for each position of the queue.
IsAfter(after, pl, q, f, m) ==
  after = [j \in f..m |->
             IF j = f THEN pl
             ELSE IF q[j - 1].t = 0 THEN after[j - 1] ELSE Decref(after[j - 1], q[j - 1].t)]

LEMMA AfterExists ==
  ASSUME NEW pl, NEW q, NEW f \in Nat
  PROVE  \A m \in Nat : \E after : IsAfter(after, pl, q, f, m)
<1>. SUFFICES ASSUME NEW bad \in Nat, ~ \E after : IsAfter(after, pl, q, f, bad)
              PROVE  FALSE
  OBVIOUS
<1> DEFINE Bad == {m \in Nat : ~ \E after : IsAfter(after, pl, q, f, m)}
<1>1. PICK n \in Bad : \A m \in Bad : n <= m
  <2>1. Bad \in SUBSET Nat /\ bad \in Bad
    OBVIOUS
  <2>. HIDE DEF Bad
  <2>. QED  BY <2>1, Least
<1>2. n > f
  <2>1. ASSUME n <= f
        PROVE  FALSE
    <3> DEFINE g == [j \in f..n |-> pl]
    <3>1. \A j \in f..n : j = f
      BY <2>1
    <3>2. IsAfter(g, pl, q, f, n)
      BY <3>1 DEF IsAfter
    <3>. QED  BY <3>2
  <2>. QED  BY <2>1
<1>3. n - 1 \in Nat /\ n - 1 \notin Bad
  BY <1>1, <1>2
<1>4. PICK a : IsAfter(a, pl, q, f, n - 1)
  BY <1>3
<1> DEFINE Next1(b, j) == IF q[j - 1].t = 0 THEN b[j - 1] ELSE Decref(b[j - 1], q[j - 1].t)
           g == [j \in f..n |-> IF j = f THEN pl ELSE Next1(a, j)]
<1>5. \A j \in f..n : g[j] = IF j = f THEN pl ELSE Next1(a, j)
  OBVIOUS
<1>6. \A j \in f..(n - 1) : j \in f..n /\ a[j] = IF j = f THEN pl ELSE Next1(a, j)
  BY <1>3, <1>4 DEF IsAfter
<1>7. \A j \in (f..n) \ {f} : g[j - 1] = a[j - 1]
  <2>1. \A j \in (f..n) \ {f} : j - 1 \in f..(n - 1)
    BY <1>3
  <2>. HIDE DEF g, Next1
  <2>. QED  BY <1>5, <1>6, <2>1
<1>8. \A j \in (f..n) \ {f} : Next1(a, j) = Next1(g, j)
  <2>. HIDE DEF g
  <2>. QED  BY <1>7
<1>9. IsAfter(g, pl, q, f, n)
  <2>1. g = [j \in f..n |-> IF j = f THEN pl ELSE Next1(g, j)]
    <3>. HIDE DEF Next1
    <3>. QED  BY <1>8
  <2>. HIDE DEF g
  <2>. QED  BY <2>1 DEF IsAfter
<1>. QED  BY <1>9

LEMMA DecrefAllExact ==
  ASSUME NEW S, NEW q \in Seq(S), \A e \in S : e.t \in Nat, NEW f \in 1..(Len(q) + 1),
         NEW pl, NEW h \in [Some -> Nat], NEW g \in [Some -> Nat], Exact(pl, h),
         \A k \in Some : h[k] = g[k] + Count(q, f, k)
  PROVE  Exact(DecrefFrom(pl, q, f), g)
<1> DEFINE n == Len(q)
           after == CHOOSE a : IsAfter(a, pl, q, f, n + 1)
           At(m) == [k \in Some |-> g[k] + Count(q, m, k)]
<1>1. n \in Nat /\ f \in Nat /\ f <= n + 1 /\ f >= 1
  BY LenProperties
<1>2. IsAfter(after, pl, q, f, n + 1)
  <2>1. \E a : IsAfter(a, pl, q, f, n + 1)
    <3>1. n + 1 \in Nat
      BY <1>1
    <3>. HIDE DEF n
    <3>. QED  BY <1>1, <3>1, AfterExists
  <2>. QED  BY <2>1
<1>3. DecrefFrom(pl, q, f) = IF f > n THEN pl ELSE after[n + 1]
  BY Zenon DEF DecrefFrom, IsAfter
<1>. HIDE DEF n, after
<1>4. \A j \in f..(n + 1) :
        after[j] = IF j = f THEN pl
                   ELSE IF q[j - 1].t = 0 THEN after[j - 1] ELSE Decref(after[j - 1], q[j - 1].t)
  BY <1>2 DEF IsAfter
<1>5. \A m \in f..(n + 1) : Exact(after[m], At(m)) /\ At(m) \in [Some -> Nat]
  <2>1. \A m \in f..(n + 1) : At(m) \in [Some -> Nat]
    <3>. SUFFICES ASSUME NEW m \in f..(n + 1)
                  PROVE  At(m) \in [Some -> Nat]
      OBVIOUS
    <3>1. m \in Nat
      BY <1>1
    <3>2. \A k \in Some : g[k] \in Nat /\ Count(q, m, k) \in Nat
      BY <3>1, CountNat
    <3>3. \A k \in Some : g[k] + Count(q, m, k) \in Nat
      BY <3>2
    <3>. QED  BY <3>3
  <2>. SUFFICES ASSUME NEW bad \in f..(n + 1), ~Exact(after[bad], At(bad))
                PROVE  FALSE
    BY <2>1
  <2> DEFINE Bad == {m \in f..(n + 1) : ~Exact(after[m], At(m))}
  <2>2. PICK m \in Bad : \A l \in Bad : m <= l
    <3>1. Bad \in SUBSET Nat /\ bad \in Bad
      BY <1>1
    <3>. HIDE DEF Bad
    <3>. QED  BY <3>1, Least
  <2>3. CASE m = f
    <3>1. after[m] = pl
      BY <1>1, <1>4, <2>3
    <3>2. \A k \in Some : h[k] = At(f)[k]
      OBVIOUS
    <3>3. Exact(pl, At(f))
      <4>. HIDE DEF At
      <4>. QED  BY <3>2 DEF Exact
    <3>. QED  BY <2>2, <2>3, <3>1, <3>3
  <2>4. CASE m # f
    <3>1. m - 1 \in f..(n + 1) /\ m - 1 \in 1..n /\ m - 1 \notin Bad /\ (m - 1) + 1 = m /\ m \in f..(n + 1)
      BY <1>1, <2>2, <2>4
    <3>2. Exact(after[m - 1], At(m - 1)) /\ At(m - 1) \in [Some -> Nat]
      BY <2>1, <3>1
    <3>3. after[m] = IF q[m - 1].t = 0 THEN after[m - 1] ELSE Decref(after[m - 1], q[m - 1].t)
      BY <1>4, <2>4, <3>1
    <3>4. q[m - 1].t \in Nat
      BY <3>1, ElementOfSeq DEF n
    <3>5. ASSUME NEW k \in Some
          PROVE  At(m - 1)[k] = At(m)[k] + One(q[m - 1].t = k)
      <4>1. Count(q, m - 1, k) = Count(q, m, k) + One(q[m - 1].t = k)
        <5>1. Count(q, m - 1, k) = Count(q, (m - 1) + 1, k) + One(q[m - 1].t = k)
          <6>1. \A j \in 1..n : Count(q, j, k) = Count(q, j + 1, k) + One(q[j].t = k)
            BY CountFrom DEF n
          <6>. QED  BY <3>1, <6>1
        <5>. QED  BY <3>1, <5>1
      <4>2. Count(q, m, k) \in Nat /\ g[k] \in Nat /\ One(q[m - 1].t = k) \in Nat
        BY <1>1, <3>1, CountNat DEF One
      <4>3. At(m - 1)[k] = g[k] + Count(q, m - 1, k) /\ At(m)[k] = g[k] + Count(q, m, k)
        OBVIOUS
      <4>. QED  BY <4>1, <4>2, <4>3
    <3>6. \A k \in Some : At(m)[k] \in Nat
      BY <2>1, <3>1
    <3>. HIDE DEF At
    <3>7. CASE q[m - 1].t = 0
      <4>1. \A k \in Some : At(m - 1)[k] = At(m)[k]
        <5>1. ASSUME NEW k \in Some PROVE One(q[m - 1].t = k) = 0
          BY <3>7 DEF One, Some
        <5>2. \A x1 \in Nat : x1 + 0 = x1
          OBVIOUS
        <5>. QED  BY <3>5, <3>6, <5>1, <5>2
      <4>2. Exact(after[m], At(m))
        BY <3>2, <3>3, <3>7, <4>1 DEF Exact
      <4>. QED  BY <2>2, <4>2
    <3>8. CASE q[m - 1].t # 0
      <4>1. q[m - 1].t \in Some
        BY <3>4, <3>8 DEF Some
      <4>2. \A k \in Some : At(m)[k] = At(m - 1)[k] - One(k = q[m - 1].t)
        <5>. SUFFICES ASSUME NEW k \in Some
                      PROVE  At(m)[k] = At(m - 1)[k] - One(k = q[m - 1].t)
          OBVIOUS
        <5>1. At(m)[k] \in Nat /\ At(m - 1)[k] = At(m)[k] + One(q[m - 1].t = k)
          BY <3>5, <3>6
        <5>. QED  BY <5>1 DEF One
      <4>3. At(m - 1)[q[m - 1].t] > 0
        <5>1. At(m - 1)[q[m - 1].t] = At(m)[q[m - 1].t] + 1 /\ At(m)[q[m - 1].t] \in Nat
          BY <3>5, <3>6, <4>1 DEF One
        <5>. QED  BY <5>1
      <4>4. Exact(Decref(after[m - 1], q[m - 1].t), At(m))
        <5>1. ASSUME NEW b, NEW hb \in [Some -> Nat], NEW gb, NEW d \in Some, Exact(b, hb), hb[d] > 0,
                     \A k \in Some : gb[k] = hb[k] - One(k = d)
              PROVE  Exact(Decref(b, d), gb)
          BY <5>1, DecrefExact
        <5> DEFINE b == after[m - 1]
                   hb == At(m - 1)
                   gb == At(m)
                   d == q[m - 1].t
        <5>2. /\ hb \in [Some -> Nat] /\ d \in Some /\ Exact(b, hb) /\ hb[d] > 0
              /\ \A k \in Some : gb[k] = hb[k] - One(k = d)
          BY <3>2, <4>1, <4>2, <4>3
        <5>. HIDE DEF b, hb, gb, d
        <5>3. Exact(Decref(b, d), gb)
          BY <5>1, <5>2
        <5>. QED  BY <5>3 DEF b, gb, d
      <4>. QED  BY <2>2, <3>3, <3>8, <4>4
    <3>. QED  BY <3>7, <3>8
  <2>. QED  BY <2>3, <2>4
<1>6. CASE f > n
  <2>1. \A k \in Some : Count(q, f, k) = 0
    BY <1>1, <1>6, CountNone DEF n
  <2>2. \A k \in Some : h[k] = g[k]
    BY <2>1
  <2>3. Exact(pl, g)
    BY <2>2 DEF Exact
  <2>. QED  BY <1>3, <1>6, <2>3
<1>7. CASE ~(f > n)
  <2>1. n + 1 \in f..(n + 1) /\ n + 1 \in Nat /\ n + 1 > n
    BY <1>1
  <2>2. \A k \in Some : At(n + 1)[k] = g[k]
    <3>1. \A k \in Some : Count(q, n + 1, k) = 0
      BY <2>1, CountNone DEF n
    <3>. QED  BY <3>1
  <2>3. Exact(after[n + 1], At(n + 1))
    BY <1>5, <2>1
  <2>. HIDE DEF At
  <2>4. Exact(after[n + 1], g)
    BY <2>2, <2>3 DEF Exact
  <2>. QED  BY <1>3, <1>7, <2>4
<1>. QED  BY <1>6, <1>7

(***************************************************************************)
(* The inductive invariant, of the values of the variables.                *)
(***************************************************************************)
Entry(pr) == [id : InstIds(pr), t : Nat]
InAdd(ctl) == ctl \in {"pop", "add"}
\* Where the threads begin that Step has not yet taken from runq.
FirstLeft(ctl, j) == IF j = 0 THEN 1 ELSE IF InAdd(ctl) THEN j + 1 ELSE j
Queued(rq, f, nq) == [k \in Some |-> Count(rq, f, k) + Count(nq, 1, k)]
Held(ctl, rq, j, nq, st, a) ==
  [k \in Some |-> Queued(rq, FirstLeft(ctl, j), nq)[k]
                    + IF InAdd(ctl) THEN Count(st, 1, k) + One(a = k) ELSE 0]

\* When its stack is empty AddToThreadq is back at its caller's thread.
Restores(st, a, caller) ==
  /\ \A j \in 1..Len(st) :
       st[j].t # 0 /\ (\A m \in 1..(j - 1) : st[m].t = 0) => st[j].t = caller
  /\ (\A j \in 1..Len(st) : st[j].t = 0) => a = caller

\* What is pushed on the stack is pushed when an instruction enters the queue,
\* which it does once.
In(pr, q, o) == {k \in InstIds(pr) : Inst(pr, k).op = o /\ \E j \in 1..Len(q) : q[j].id = k}
Room(pr, q) ==
  1 + 2 * Cardinality(In(pr, q, "Capture")) + Cardinality(In(pr, q, "EmptyWidth"))
    + Cardinality(In(pr, q, "Nop"))

Threads(pr, ctl, k, rq, nq, j, st, a, caller) ==
  /\ ctl \in {"start", "check", "step", "pop", "add", "short", "finish", "done"}
  /\ rq \in Seq(Entry(pr)) /\ nq \in Seq(Entry(pr)) /\ st \in Seq(Entry(pr)) /\ j \in Nat
  /\ ctl \in {"start", "check"} => j = 0
  /\ ctl = "step" => j >= 1
  /\ ctl \in {"short", "finish"} => j \in {0, 1}
  /\ ctl = "short" => rq = <<>>
  /\ ctl = "add" => k \in InstIds(pr)
  /\ InAdd(ctl) => /\ a \in Some /\ caller \in Some /\ Restores(st, a, caller)
                   /\ Len(st) <= Room(pr, IF j = 0 THEN rq ELSE nq)
  /\ ~InAdd(ctl) => st = <<>>

NFAInv ==
  /\ Threads(prog, pc, id, runq, nextq, i, stk, t0, t)
  /\ Exact(pool, Held(pc, runq, i, nextq, stk, t0))

LEMMA NFAPrimed ==
  ASSUME query' = query,
         Threads(prog, pc', id', runq', nextq', i', stk', t0', t'),
         Exact(pool', Held(pc', runq', i', nextq', stk', t0'))
  PROVE  NFAInv'
<1>1. prog' = prog
  BY DEF prog
<1>2. Threads(prog, pc, id, runq, nextq, i, stk, t0, t)'
  BY <1>1 DEF Threads
<1>3. Exact(pool, Held(pc, runq, i, nextq, stk, t0))'
  OBVIOUS
<1>. QED  BY <1>2, <1>3 DEF NFAInv

\* Exact asks for the counts of threads only.
LEMMA SameCounts ==
  ASSUME NEW pl, NEW h, NEW g, Exact(pl, h), \A k \in Some : g[k] = h[k]
  PROVE  Exact(pl, g)
BY DEF Exact

LEMMA HeldNat ==
  ASSUME NEW pr, NEW ctl, NEW rq \in Seq(Entry(pr)), NEW j \in Nat, NEW nq \in Seq(Entry(pr)),
         NEW st \in Seq(Entry(pr)), NEW a
  PROVE  /\ FirstLeft(ctl, j) \in Nat \ {0}
         /\ Queued(rq, FirstLeft(ctl, j), nq) \in [Some -> Nat]
         /\ Held(ctl, rq, j, nq, st, a) \in [Some -> Nat]
         /\ \A k \in Some : Count(st, 1, k) \in Nat /\ Count(nq, 1, k) \in Nat
                            /\ Count(rq, FirstLeft(ctl, j), k) \in Nat
<1>1. FirstLeft(ctl, j) \in Nat \ {0}
  BY DEF FirstLeft
<1>2. ASSUME NEW k \in Some
      PROVE  /\ Count(st, 1, k) \in Nat /\ Count(nq, 1, k) \in Nat
             /\ Count(rq, FirstLeft(ctl, j), k) \in Nat
  BY <1>1, CountNat
<1>3. Queued(rq, FirstLeft(ctl, j), nq) \in [Some -> Nat]
  BY <1>2 DEF Queued
<1>4. ASSUME NEW k \in Some
      PROVE  Queued(rq, FirstLeft(ctl, j), nq)[k]
                + (IF InAdd(ctl) THEN Count(st, 1, k) + One(a = k) ELSE 0) \in Nat
  BY <1>2, <1>3 DEF One
<1>5. Held(ctl, rq, j, nq, st, a) \in [Some -> Nat]
  BY <1>4 DEF Held
<1>. QED  BY <1>1, <1>2, <1>3, <1>5

\* The thread in t0, or in the queue where Step is, is held.
LEMMA EnqueueCounts ==
  ASSUME NEW pr, NEW q \in Seq(Entry(pr)), NEW k0 \in InstIds(pr), NEW th1 \in Nat
  PROVE  LET r == Append(q, [id |-> k0, t |-> th1]) IN
         /\ r \in Seq(Entry(pr)) /\ Len(r) = Len(q) + 1
         /\ \A k \in Some : Count(r, 1, k) = Count(q, 1, k) + One(th1 = k)
<1> DEFINE e == [id |-> k0, t |-> th1]
<1>1. e \in Entry(pr) /\ e.t = th1
  BY DEF Entry
<1>. HIDE DEF e
<1>2. Append(q, e) \in Seq(Entry(pr)) /\ Len(Append(q, e)) = Len(q) + 1
  BY <1>1, AppendProperties
<1>3. 1 \in 1..(Len(q) + 1)
  BY LenProperties
<1>4. \A k \in Some : Count(Append(q, e), 1, k) = Count(q, 1, k) + One(e.t = k)
  BY <1>1, <1>3, CountAppend
<1>. QED  BY <1>1, <1>2, <1>4 DEF e

\* An instruction enters the queue: there is room for what it pushes.
LEMMA RoomGrows ==
  ASSUME NEW pr, Len(pr.inst) \in Nat, NEW q \in Seq(Entry(pr)), NEW k0 \in InstIds(pr),
         NEW th1 \in Nat, ~ \E j \in 1..Len(q) : q[j].id = k0
  PROVE  LET r == Append(q, [id |-> k0, t |-> th1]) IN
         /\ Room(pr, q) \in Nat /\ Room(pr, q) >= 1
         /\ Room(pr, r) = Room(pr, q) + (IF Inst(pr, k0).op = "Capture" THEN 2
                                         ELSE IF Inst(pr, k0).op \in {"EmptyWidth", "Nop"} THEN 1
                                         ELSE 0)
<1> DEFINE e == [id |-> k0, t |-> th1]
           r == Append(q, e)
<1>1. e \in Entry(pr) /\ e.id = k0
  BY DEF Entry
<1>. HIDE DEF e
<1>2. /\ Len(r) = Len(q) + 1 /\ Len(q) \in Nat /\ r[Len(q) + 1] = e
      /\ \A j \in 1..Len(q) : r[j] = q[j]
  BY <1>1, AppendProperties, LenProperties
<1>. HIDE DEF r
<1>3. \A j : j \in 1..Len(r) <=> j \in 1..Len(q) \/ j = Len(r)
  BY <1>2
<1>4. \A k : (\E j \in 1..Len(r) : r[j].id = k) <=> (\E j \in 1..Len(q) : q[j].id = k) \/ k = k0
  BY <1>1, <1>2, <1>3
<1>5. ASSUME NEW o
      PROVE  /\ IsFiniteSet(In(pr, q, o)) /\ Cardinality(In(pr, q, o)) \in Nat
             /\ Cardinality(In(pr, r, o)) = Cardinality(In(pr, q, o)) + One(Inst(pr, k0).op = o)
  <2>1. IsFiniteSet(InstIds(pr))
    BY FS_Interval DEF InstIds
  <2>2. IsFiniteSet(In(pr, q, o)) /\ Cardinality(In(pr, q, o)) \in Nat
    <3>1. In(pr, q, o) \subseteq InstIds(pr)
      BY DEF In
    <3>. QED  BY <2>1, <3>1, FS_Subset, FS_CardinalityType
  <2>3. k0 \notin In(pr, q, o)
    BY DEF In
  <2>4. CASE Inst(pr, k0).op = o
    <3>1. In(pr, r, o) = In(pr, q, o) \cup {k0}
      BY <1>4, <2>4 DEF In
    <3>. QED  BY <2>2, <2>3, <2>4, <3>1, FS_AddElement DEF One
  <2>5. CASE Inst(pr, k0).op # o
    <3>1. In(pr, r, o) = In(pr, q, o)
      BY <1>4, <2>5 DEF In
    <3>. QED  BY <2>2, <2>5, <3>1 DEF One
  <2>. QED  BY <2>2, <2>4, <2>5
<1>6. /\ Cardinality(In(pr, r, "Capture"))
           = Cardinality(In(pr, q, "Capture")) + One(Inst(pr, k0).op = "Capture")
      /\ Cardinality(In(pr, r, "EmptyWidth"))
           = Cardinality(In(pr, q, "EmptyWidth")) + One(Inst(pr, k0).op = "EmptyWidth")
      /\ Cardinality(In(pr, r, "Nop"))
           = Cardinality(In(pr, q, "Nop")) + One(Inst(pr, k0).op = "Nop")
      /\ Cardinality(In(pr, q, "Capture")) \in Nat
      /\ Cardinality(In(pr, q, "EmptyWidth")) \in Nat
      /\ Cardinality(In(pr, q, "Nop")) \in Nat
  BY <1>5
<1>7. /\ Room(pr, q) \in Nat /\ Room(pr, q) >= 1
      /\ Room(pr, r) = Room(pr, q) + 2 * One(Inst(pr, k0).op = "Capture")
                         + One(Inst(pr, k0).op = "EmptyWidth") + One(Inst(pr, k0).op = "Nop")
  <2>1. \A o : One(Inst(pr, k0).op = o) \in {0, 1}
    BY DEF One
  <2> DEFINE c == Cardinality(In(pr, q, "Capture"))
             w == Cardinality(In(pr, q, "EmptyWidth"))
             n == Cardinality(In(pr, q, "Nop"))
             c1 == One(Inst(pr, k0).op = "Capture")
             w1 == One(Inst(pr, k0).op = "EmptyWidth")
             n1 == One(Inst(pr, k0).op = "Nop")
  <2>2. c \in Nat /\ w \in Nat /\ n \in Nat /\ c1 \in {0, 1} /\ w1 \in {0, 1} /\ n1 \in {0, 1}
    BY <1>6, <2>1
  <2>3. /\ Room(pr, q) = 1 + 2 * c + w + n
        /\ Room(pr, r) = 1 + 2 * (c + c1) + (w + w1) + (n + n1)
    BY <1>6 DEF Room
  <2>. HIDE DEF c, w, n, c1, w1, n1
  <2>4. /\ Room(pr, q) \in Nat /\ Room(pr, q) >= 1 /\ Room(pr, r) = Room(pr, q) + 2 * c1 + w1 + n1
    BY <2>2, <2>3
  <2>. QED  BY <2>4 DEF c1, w1, n1
<1>8. Room(pr, r) = Room(pr, q) + (IF Inst(pr, k0).op = "Capture" THEN 2
                                   ELSE IF Inst(pr, k0).op \in {"EmptyWidth", "Nop"} THEN 1
                                   ELSE 0)
  BY <1>7 DEF One
<1>. QED  BY <1>7, <1>8 DEF r, e

LEMMA RoomAtLeast ==
  ASSUME NEW pr, Len(pr.inst) \in Nat, NEW q
  PROVE  Room(pr, q) \in Nat /\ Room(pr, q) >= 1
<1>1. ASSUME NEW o
      PROVE  Cardinality(In(pr, q, o)) \in Nat
  <2>1. In(pr, q, o) \subseteq InstIds(pr) /\ IsFiniteSet(InstIds(pr))
    BY FS_Interval DEF InstIds, In
  <2>. QED  BY <2>1, FS_Subset, FS_CardinalityType
<1>2. /\ Cardinality(In(pr, q, "Capture")) \in Nat /\ Cardinality(In(pr, q, "EmptyWidth")) \in Nat
      /\ Cardinality(In(pr, q, "Nop")) \in Nat
  BY <1>1
<1>. QED  BY <1>2 DEF Room

(***************************************************************************)
(* The stack of AddToThreadq.                                              *)
(***************************************************************************)
\* What is pushed to go on with later leaves t0 as it is.
LEMMA PushZero ==
  ASSUME NEW pr, NEW st \in Seq(Entry(pr)), NEW k0 \in InstIds(pr), NEW a, NEW caller,
         Restores(st, a, caller)
  PROVE  LET r == Append(st, [id |-> k0, t |-> 0]) IN
         /\ r \in Seq(Entry(pr)) /\ Len(r) = Len(st) + 1 /\ Restores(r, a, caller)
         /\ \A k \in Some : Count(r, 1, k) = Count(st, 1, k)
<1> DEFINE e == [id |-> k0, t |-> 0]
           r == Append(st, e)
<1>1. e \in Entry(pr) /\ e.t = 0
  BY DEF Entry
<1>2. /\ r \in Seq(Entry(pr)) /\ Len(r) = Len(st) + 1
      /\ \A k \in Some : Count(r, 1, k) = Count(st, 1, k) + One(0 = k)
  <2>1. 0 \in Nat
    OBVIOUS
  <2>. QED  BY <2>1, EnqueueCounts
<1>3. \A k \in Some : Count(st, 1, k) \in Nat /\ One(0 = k) = 0
  BY CountNat DEF One, Some
<1>. HIDE DEF e
<1>4. /\ Len(st) \in Nat /\ r[Len(st) + 1] = e /\ \A j \in 1..Len(st) : r[j] = st[j]
  BY <1>1, AppendProperties, LenProperties
<1>. HIDE DEF r
<1>5. \A j : j \in 1..Len(r) <=> j \in 1..Len(st) \/ j = Len(st) + 1
  BY <1>2, <1>4
<1>6. \A j \in 1..Len(st) : \A m \in 1..(j - 1) : m \in 1..Len(st)
  BY <1>4
<1>7. Restores(r, a, caller)
  <2>1. ASSUME NEW j \in 1..Len(r), r[j].t # 0, \A m \in 1..(j - 1) : r[m].t = 0
        PROVE  r[j].t = caller
    <3>1. j \in 1..Len(st)
      BY <1>1, <1>4, <1>5, <2>1
    <3>2. \A m \in 1..(j - 1) : st[m].t = 0
      BY <1>4, <1>6, <2>1, <3>1
    <3>. QED  BY <1>4, <2>1, <3>1, <3>2 DEF Restores
  <2>2. ASSUME \A j \in 1..Len(r) : r[j].t = 0
        PROVE  a = caller
    BY <1>4, <1>5, <2>2 DEF Restores
  <2>. QED  BY <2>1, <2>2 DEF Restores
<1>8. \A k \in Some : Count(r, 1, k) = Count(st, 1, k)
  BY <1>2, <1>3
<1>. QED  BY <1>2, <1>7, <1>8 DEF r, e

\* A Capture pushes the thread it replaces.
LEMMA PushThread ==
  ASSUME NEW pr, Len(pr.inst) > 0, Len(pr.inst) \in Nat, NEW st \in Seq(Entry(pr)), NEW a \in Some,
         NEW caller, Restores(st, a, caller), NEW b
  PROVE  LET r == Append(st, [id |-> 0, t |-> a]) IN
         /\ r \in Seq(Entry(pr)) /\ Len(r) = Len(st) + 1 /\ Restores(r, b, caller)
         /\ \A k \in Some : Count(r, 1, k) = Count(st, 1, k) + One(a = k)
<1> DEFINE e == [id |-> 0, t |-> a]
           r == Append(st, e)
<1>1. e \in Entry(pr) /\ e.t = a /\ a # 0 /\ 0 \in InstIds(pr) /\ a \in Nat
  BY DEF Entry, InstIds, Some
<1>2. /\ r \in Seq(Entry(pr)) /\ Len(r) = Len(st) + 1
      /\ \A k \in Some : Count(r, 1, k) = Count(st, 1, k) + One(a = k)
  BY <1>1, EnqueueCounts
<1>. HIDE DEF e
<1>3. /\ Len(st) \in Nat /\ r[Len(st) + 1] = e /\ \A j \in 1..Len(st) : r[j] = st[j]
  BY <1>1, AppendProperties, LenProperties
<1>. HIDE DEF r
<1>4. \A j : j \in 1..Len(r) <=> j \in 1..Len(st) \/ j = Len(st) + 1
  BY <1>2, <1>3
<1>5. Restores(r, b, caller)
  <2>1. ASSUME NEW j \in 1..Len(r), r[j].t # 0, \A m \in 1..(j - 1) : r[m].t = 0
        PROVE  r[j].t = caller
    <3>1. CASE j \in 1..Len(st)
      <4>1. \A m \in 1..(j - 1) : m \in 1..Len(st)
        BY <1>3, <3>1
      <4>2. \A m \in 1..(j - 1) : st[m].t = 0
        BY <1>3, <2>1, <4>1
      <4>. QED  BY <1>3, <2>1, <3>1, <4>2 DEF Restores
    <3>2. CASE j = Len(st) + 1
      <4>1. \A m \in 1..Len(st) : m \in 1..(j - 1)
        BY <1>3, <3>2
      <4>2. \A m \in 1..Len(st) : st[m].t = 0
        BY <1>3, <2>1, <4>1
      <4>. QED  BY <1>1, <1>3, <3>2, <4>2 DEF Restores
    <3>. QED  BY <1>4, <3>1, <3>2
  <2>2. ~ \A j \in 1..Len(r) : r[j].t = 0
    BY <1>1, <1>3, <1>4
  <2>. QED  BY <2>1, <2>2 DEF Restores
<1>. QED  BY <1>2, <1>5 DEF r, e

LEMMA PopRestores ==
  ASSUME NEW pr, NEW st \in Seq(Entry(pr)), st # <<>>, NEW a \in Some, NEW caller,
         Restores(st, a, caller)
  PROVE  LET top == st[Len(st)]
             r == SubSeq(st, 1, Len(st) - 1)
         IN /\ top.id \in InstIds(pr) /\ top.t \in Nat
            /\ r \in Seq(Entry(pr)) /\ Len(r) = Len(st) - 1
            /\ Restores(r, IF top.t # 0 THEN top.t ELSE a, caller)
            /\ \A k \in Some : Count(st, 1, k) = Count(r, 1, k) + One(top.t = k)
<1> DEFINE n == Len(st)
           top == st[n]
           r == SubSeq(st, 1, n - 1)
<1>1. /\ r \in Seq(Entry(pr)) /\ Len(r) = n - 1 /\ n \in Nat \ {0} /\ top \in Entry(pr)
      /\ \A j \in 1..(n - 1) : r[j] = st[j]
      /\ \A k \in Some : Count(st, 1, k) = Count(r, 1, k) + One(top.t = k)
  BY CountBelow
<1>. HIDE DEF n, top, r
<1>2. top.id \in InstIds(pr) /\ top.t \in Nat
  BY <1>1 DEF Entry
<1>3. /\ \A j \in 1..(n - 1) : j \in 1..n /\ \A m \in 1..(j - 1) : m \in 1..(n - 1)
      /\ \A j \in 1..n : j \in 1..(n - 1) \/ j = n
      /\ n \in 1..n
  BY <1>1
<1>4. ASSUME NEW j \in 1..Len(r), r[j].t # 0, \A m \in 1..(j - 1) : r[m].t = 0
      PROVE  r[j].t = caller
  <2>1. j \in 1..(n - 1) /\ \A m \in 1..(j - 1) : m \in 1..(n - 1) /\ st[m].t = 0
    BY <1>1, <1>3, <1>4
  <2>. QED  BY <1>1, <1>3, <1>4, <2>1 DEF Restores, n
<1>5. ASSUME \A j \in 1..Len(r) : r[j].t = 0
      PROVE  (IF top.t # 0 THEN top.t ELSE a) = caller
  <2>1. \A j \in 1..(n - 1) : st[j].t = 0
    BY <1>1, <1>5
  <2>2. CASE top.t # 0
    BY <1>3, <2>1, <2>2 DEF Restores, n, top
  <2>3. CASE top.t = 0
    BY <1>3, <2>1, <2>3 DEF Restores, n, top
  <2>. QED  BY <2>2, <2>3
<1>6. Restores(r, IF top.t # 0 THEN top.t ELSE a, caller)
  BY <1>4, <1>5 DEF Restores
<1>. QED  BY <1>1, <1>2, <1>6 DEF n, top, r

\* The stack that AddToThreadq begins with.
LEMMA FirstStack ==
  ASSUME NEW pr, NEW k0 \in InstIds(pr), NEW a
  PROVE  /\ <<>> \in Seq(Entry(pr)) /\ Restores(<<>>, a, a) /\ Len(<<>>) = 0
         /\ << [id |-> k0, t |-> 0] >> \in Seq(Entry(pr)) /\ Len(<< [id |-> k0, t |-> 0] >>) = 1
         /\ Restores(<< [id |-> k0, t |-> 0] >>, a, a)
         /\ \A k \in Some : Count(<<>>, 1, k) = 0 /\ Count(<< [id |-> k0, t |-> 0] >>, 1, k) = 0
<1> DEFINE e == [id |-> k0, t |-> 0]
<1>1. <<>> \in Seq(Entry(pr)) /\ Len(<<>>) = 0
  BY EmptySeq
<1>2. \A k \in Some : Count(<<>>, 1, k) = 0
  <2>1. 1 \in Nat /\ 1 > Len(<<>>)
    BY <1>1
  <2>. QED  BY <1>1, <2>1, CountNone
<1>3. Restores(<<>>, a, a)
  BY <1>1 DEF Restores
<1>4. Append(<<>>, e) = <<e>>
  OBVIOUS
<1>5. /\ Append(<<>>, e) \in Seq(Entry(pr)) /\ Len(Append(<<>>, e)) = Len(<<>>) + 1
      /\ Restores(Append(<<>>, e), a, a)
      /\ \A k \in Some : Count(Append(<<>>, e), 1, k) = Count(<<>>, 1, k)
  BY <1>1, <1>3, PushZero
<1>. HIDE DEF e
<1>6. <<e>> \in Seq(Entry(pr)) /\ Len(<<e>>) = 1 /\ Restores(<<e>>, a, a)
      /\ \A k \in Some : Count(<<e>>, 1, k) = 0
  BY <1>1, <1>2, <1>4, <1>5
<1>. QED  BY <1>1, <1>2, <1>3, <1>6 DEF e

(***************************************************************************)
(* AddToThreadq: the visits of instructions.                               *)
(***************************************************************************)
LEMMA InVisit ==
  ASSUME Asked, NFAInv, pc = "add"
  PROVE  /\ id \in InstIds(prog) /\ id \in Nat /\ WellFormedInst(prog, id) /\ Len(prog.inst) \in Nat
         /\ Len(prog.inst) > 0
         /\ runq \in Seq(Entry(prog)) /\ nextq \in Seq(Entry(prog)) /\ stk \in Seq(Entry(prog))
         /\ threadq \in Seq(Entry(prog)) /\ i \in Nat
         /\ t0 \in Some /\ t \in Some /\ Restores(stk, t0, t)
         /\ Len(stk) \in Nat /\ Len(stk) <= Room(prog, threadq)
         /\ Exact(pool, Held(pc, runq, i, nextq, stk, t0))
         /\ Held(pc, runq, i, nextq, stk, t0) \in [Some -> Nat]
<1>1. Threads(prog, pc, id, runq, nextq, i, stk, t0, t)
  BY DEF NFAInv
<1>2. id \in InstIds(prog) /\ id \in Nat /\ WellFormedInst(prog, id) /\ Len(prog.inst) \in Nat
      /\ Len(prog.inst) > 0
  BY <1>1 DEF Threads, Asked, WellFormedProg, InstIds
<1>3. /\ runq \in Seq(Entry(prog)) /\ nextq \in Seq(Entry(prog)) /\ stk \in Seq(Entry(prog))
      /\ threadq \in Seq(Entry(prog)) /\ i \in Nat
      /\ t0 \in Some /\ t \in Some /\ Restores(stk, t0, t) /\ Len(stk) <= Room(prog, threadq)
  BY <1>1 DEF Threads, InAdd, threadq
<1>4. Len(stk) \in Nat
  BY <1>3, LenProperties
<1>5. Held(pc, runq, i, nextq, stk, t0) \in [Some -> Nat]
  BY <1>3, HeldNat
<1>. QED  BY <1>2, <1>3, <1>4, <1>5 DEF NFAInv

\* An instruction that is new to the queue enters it with the thread th1 or, if 0,
\* with none.
LEMMA VisitCounts ==
  ASSUME Asked, NFAInv, pc = "add", ~HasIndex(id), NEW th1 \in Nat, Enqueue(th1), i' = i,
         InAdd(pc')
  PROVE  /\ runq' \in Seq(Entry(prog)) /\ nextq' \in Seq(Entry(prog))
         /\ Room(prog, IF i' = 0 THEN runq' ELSE nextq')
              = Room(prog, threadq) + (IF Inst(prog, id).op = "Capture" THEN 2
                                       ELSE IF Inst(prog, id).op \in {"EmptyWidth", "Nop"} THEN 1
                                       ELSE 0)
         /\ Room(prog, threadq) \in Nat
         /\ \A k \in Some : Queued(runq', FirstLeft(pc', i'), nextq')[k]
                              = Queued(runq, FirstLeft(pc, i), nextq)[k] + One(th1 = k)
<1> DEFINE e == [id |-> id, t |-> th1]
<1>1. /\ Append(threadq, e) \in Seq(Entry(prog))
      /\ \A k \in Some : Count(Append(threadq, e), 1, k) = Count(threadq, 1, k) + One(th1 = k)
  BY InVisit, EnqueueCounts
<1>2. /\ Room(prog, threadq) \in Nat
      /\ Room(prog, Append(threadq, e))
              = Room(prog, threadq) + (IF Inst(prog, id).op = "Capture" THEN 2
                                       ELSE IF Inst(prog, id).op \in {"EmptyWidth", "Nop"} THEN 1
                                       ELSE 0)
  <2>1. ~ \E j \in 1..Len(threadq) : threadq[j].id = id
    BY DEF HasIndex
  <2>. QED  BY <2>1, InVisit, RoomGrows
<1>3. \A k \in Some : Count(runq, FirstLeft(pc, i), k) \in Nat /\ Count(nextq, 1, k) \in Nat
                      /\ One(th1 = k) \in Nat
  BY InVisit, HeldNat DEF One
<1>4. FirstLeft(pc', i') = FirstLeft(pc, i) /\ (i = 0 => FirstLeft(pc, i) = 1)
  BY DEF FirstLeft, InAdd
<1>. HIDE DEF e
<1>5. CASE i = 0
  <2>1. runq' = Append(threadq, e) /\ nextq' = nextq /\ threadq = runq
    BY <1>5 DEF Enqueue, Fill, e, threadq
  <2>2. ASSUME NEW k \in Some
        PROVE  Queued(runq', FirstLeft(pc', i'), nextq')[k]
                 = Queued(runq, FirstLeft(pc, i), nextq)[k] + One(th1 = k)
    <3>1. Count(runq', 1, k) = Count(runq, 1, k) + One(th1 = k)
      BY <1>1, <2>1
    <3>2. /\ Queued(runq', FirstLeft(pc', i'), nextq')[k] = Count(runq', 1, k) + Count(nextq, 1, k)
          /\ Queued(runq, FirstLeft(pc, i), nextq)[k] = Count(runq, 1, k) + Count(nextq, 1, k)
      BY <1>4, <1>5, <2>1 DEF Queued
    <3>3. Count(runq, 1, k) \in Nat /\ Count(nextq, 1, k) \in Nat /\ One(th1 = k) \in Nat
      BY <1>3, <1>4, <1>5
    <3>. QED  BY <3>1, <3>2, <3>3
  <2>. QED  BY <1>1, <1>2, <1>5, <2>1, <2>2, InVisit
<1>6. CASE i # 0
  <2>1. runq' = runq /\ nextq' = Append(threadq, e) /\ threadq = nextq
    BY <1>6 DEF Enqueue, Fill, e, threadq
  <2>2. ASSUME NEW k \in Some
        PROVE  Queued(runq', FirstLeft(pc', i'), nextq')[k]
                 = Queued(runq, FirstLeft(pc, i), nextq)[k] + One(th1 = k)
    <3> DEFINE f == FirstLeft(pc, i)
    <3>1. Count(nextq', 1, k) = Count(nextq, 1, k) + One(th1 = k)
      BY <1>1, <2>1
    <3>2. /\ Queued(runq', FirstLeft(pc', i'), nextq')[k] = Count(runq, f, k) + Count(nextq', 1, k)
          /\ Queued(runq, FirstLeft(pc, i), nextq)[k] = Count(runq, f, k) + Count(nextq, 1, k)
      BY <1>4, <2>1 DEF Queued
    <3>3. Count(runq, f, k) \in Nat /\ Count(nextq, 1, k) \in Nat /\ One(th1 = k) \in Nat
      BY <1>3
    <3>. QED  BY <3>1, <3>2, <3>3
  <2>. QED  BY <1>1, <1>2, <1>6, <2>1, <2>2, InVisit
<1>. QED  BY <1>5, <1>6

LEMMA VisitKeeps ==
  ASSUME Asked, NFAInv, pc = "add", ~HasIndex(id), NEW th1 \in Nat, Enqueue(th1),
         UNCHANGED <<query, i, t>>,
         pc' = "pop" \/ (pc' = "add" /\ id' \in InstIds(prog)),
         stk' \in Seq(Entry(prog)), t0' \in Some, Restores(stk', t0', t),
         Len(stk') <= Len(stk) + (IF Inst(prog, id).op = "Capture" THEN 2
                                  ELSE IF Inst(prog, id).op \in {"EmptyWidth", "Nop"} THEN 1
                                  ELSE 0),
         NEW g \in [Some -> Nat], Exact(pool', g),
         \A k \in Some : g[k] + Count(stk, 1, k) + One(t0 = k)
                           = Held(pc, runq, i, nextq, stk, t0)[k] + One(th1 = k)
                               + Count(stk', 1, k) + One(t0' = k)
  PROVE  NFAInv'
<1>1. InAdd(pc) /\ InAdd(pc')
  BY DEF InAdd
<1>2. /\ runq' \in Seq(Entry(prog)) /\ nextq' \in Seq(Entry(prog))
      /\ Len(stk') <= Room(prog, IF i' = 0 THEN runq' ELSE nextq')
  <2>1. Len(stk') \in Nat /\ Len(stk) \in Nat /\ Len(stk) <= Room(prog, threadq)
    BY InVisit, LenProperties
  <2>. QED  BY <1>1, <2>1, VisitCounts
<1>3. Threads(prog, pc', id', runq', nextq', i', stk', t0', t')
  BY <1>1, <1>2, InVisit DEF Threads, InAdd
<1>4. ASSUME NEW k \in Some
      PROVE  Held(pc', runq', i', nextq', stk', t0')[k] = g[k]
  <2> DEFINE qd == Queued(runq, FirstLeft(pc, i), nextq)[k]
             qd1 == Queued(runq', FirstLeft(pc', i'), nextq')[k]
  <2>1. qd1 = qd + One(th1 = k)
    BY <1>1, VisitCounts
  <2>2. Held(pc, runq, i, nextq, stk, t0)[k] = qd + (Count(stk, 1, k) + One(t0 = k))
    BY <1>1 DEF Held
  <2>3. Held(pc', runq', i', nextq', stk', t0')[k] = qd1 + (Count(stk', 1, k) + One(t0' = k))
    BY <1>1 DEF Held
  <2>4. qd \in Nat /\ Count(stk, 1, k) \in Nat /\ Count(stk', 1, k) \in Nat
        /\ One(th1 = k) \in Nat /\ One(t0 = k) \in Nat /\ One(t0' = k) \in Nat
    <3>1. Queued(runq, FirstLeft(pc, i), nextq) \in [Some -> Nat]
      BY InVisit, HeldNat
    <3>2. Count(stk, 1, k) \in Nat /\ Count(stk', 1, k) \in Nat
      BY InVisit, CountNat
    <3>. QED  BY <3>1, <3>2 DEF One
  <2>5. g[k] + Count(stk, 1, k) + One(t0 = k)
          = Held(pc, runq, i, nextq, stk, t0)[k] + One(th1 = k) + Count(stk', 1, k) + One(t0' = k)
    OBVIOUS
  <2>6. g[k] \in Nat
    OBVIOUS
  <2>. HIDE DEF qd, qd1
  <2>7. \A x1, x2, x3, x4, x5, x6, x7 \in Nat :
          x7 + x2 + x3 = (x1 + (x2 + x3)) + x4 + x5 + x6 => (x1 + x4) + (x5 + x6) = x7
    OBVIOUS
  <2>8. g[k] + Count(stk, 1, k) + One(t0 = k)
          = (qd + (Count(stk, 1, k) + One(t0 = k))) + One(th1 = k) + Count(stk', 1, k) + One(t0' = k)
    BY <2>2, <2>5
  <2>9. (qd + One(th1 = k)) + (Count(stk', 1, k) + One(t0' = k)) = g[k]
    BY <2>4, <2>6, <2>7, <2>8
  <2>. QED  BY <2>1, <2>3, <2>9
<1>5. Exact(pool', Held(pc', runq', i', nextq', stk', t0'))
  BY <1>4, SameCounts
<1>. QED  BY <1>3, <1>5, NFAPrimed

LEMMA Followed ==
  ASSUME Asked, NFAInv, pc = "add"
  PROVE  /\ \A k \in InstIds(prog) : Follow(k) => pc' = "pop" \/ (pc' = "add" /\ id' \in InstIds(prog))
         /\ FollowNext => pc' = "pop" \/ (pc' = "add" /\ id' \in InstIds(prog))
         /\ ip = Inst(prog, id) /\ (~ip.last => id + 1 \in InstIds(prog))
<1>1. ip = Inst(prog, id) /\ (~ip.last => id + 1 \in InstIds(prog))
  BY InVisit DEF ip, WellFormedInst
<1>2. \A k \in InstIds(prog) : Follow(k) => pc' = "pop" \/ (pc' = "add" /\ id' \in InstIds(prog))
  BY DEF Follow
<1>. QED  BY <1>1, <1>2 DEF FollowNext

LEMMA NextPushed ==
  ASSUME Asked, NFAInv, pc = "add"
  PROVE  LET r == PushNext(stk) IN
         /\ r \in Seq(Entry(prog)) /\ Restores(r, t0, t)
         /\ Len(r) \in Nat /\ Len(r) <= Len(stk) + 1
         /\ \A k \in Some : Count(r, 1, k) = Count(stk, 1, k)
<1>1. CASE ip.last
  <2>1. PushNext(stk) = stk
    BY <1>1 DEF PushNext
  <2>. QED  BY <2>1, InVisit
<1>2. CASE ~ip.last
  <2> DEFINE r == Append(stk, [id |-> id + 1, t |-> 0])
  <2>1. PushNext(stk) = r
    BY <1>2 DEF PushNext
  <2>2. /\ r \in Seq(Entry(prog)) /\ Restores(r, t0, t) /\ Len(r) = Len(stk) + 1
        /\ \A k \in Some : Count(r, 1, k) = Count(stk, 1, k)
    <3>1. id + 1 \in InstIds(prog)
      BY <1>2, Followed
    <3>. QED  BY <3>1, InVisit, PushZero
  <2>. HIDE DEF r
  <2>3. Len(r) \in Nat /\ Len(r) <= Len(stk) + 1
    BY <2>2, InVisit
  <2>. QED  BY <2>1, <2>2, <2>3
<1>. QED  BY <1>1, <1>2

\* The instruction keeps no thread.
LEMMA NoneKept ==
  ASSUME Asked, NFAInv, pc = "add", ~HasIndex(id), Enqueue(0), UNCHANGED <<query, i, t, t0, pool>>,
         pc' = "pop" \/ (pc' = "add" /\ id' \in InstIds(prog)),
         \/ stk' = stk
         \/ Inst(prog, id).op \in {"Capture", "EmptyWidth", "Nop"} /\ stk' = PushNext(stk)
  PROVE  NFAInv'
<1> DEFINE g == Held(pc, runq, i, nextq, stk, t0)
<1>1. /\ stk' \in Seq(Entry(prog)) /\ t0' \in Some /\ Restores(stk', t0', t)
      /\ Len(stk') <= Len(stk) + (IF Inst(prog, id).op = "Capture" THEN 2
                                  ELSE IF Inst(prog, id).op \in {"EmptyWidth", "Nop"} THEN 1
                                  ELSE 0)
      /\ \A k \in Some : Count(stk', 1, k) = Count(stk, 1, k)
  <2>1. CASE stk' = stk
    BY <2>1, InVisit
  <2>2. CASE Inst(prog, id).op \in {"Capture", "EmptyWidth", "Nop"} /\ stk' = PushNext(stk)
    BY <2>2, InVisit, NextPushed
  <2>. QED  BY <2>1, <2>2
<1>2. g \in [Some -> Nat] /\ Exact(pool', g)
  BY InVisit
<1>3. \A k \in Some : g[k] + Count(stk, 1, k) + One(t0 = k)
                        = Held(pc, runq, i, nextq, stk, t0)[k] + One(0 = k) + Count(stk', 1, k) + One(t0' = k)
  <2>. SUFFICES ASSUME NEW k \in Some
                PROVE  g[k] + Count(stk, 1, k) + One(t0 = k)
                         = g[k] + One(0 = k) + Count(stk', 1, k) + One(t0' = k)
    OBVIOUS
  <2>1. One(0 = k) = 0 /\ Count(stk', 1, k) = Count(stk, 1, k) /\ t0' = t0
    BY <1>1 DEF One, Some
  <2>2. g[k] \in Nat /\ Count(stk, 1, k) \in Nat
    BY <1>2, InVisit, CountNat
  <2>. HIDE DEF g
  <2>3. g[k] + 0 = g[k]
    BY <2>2
  <2>. QED  BY <2>1, <2>3
<1>4. 0 \in Nat
  OBVIOUS
<1>. HIDE DEF g
<1>. QED  BY <1>1, <1>2, <1>3, <1>4, VisitKeeps

\* The instruction keeps the thread, which counts it.
LEMMA ThreadKept ==
  ASSUME Asked, NFAInv, pc = "add", ~HasIndex(id), Enqueue(t0), UNCHANGED <<query, i, t, t0, stk>>,
         pc' = "pop" \/ (pc' = "add" /\ id' \in InstIds(prog)), pool' = Incref(pool, t0)
  PROVE  NFAInv'
<1> DEFINE h == Held(pc, runq, i, nextq, stk, t0)
           g == [k \in Some |-> h[k] + One(k = t0)]
<1>1. /\ h \in [Some -> Nat] /\ Exact(pool, h) /\ t0 \in Some /\ t0 \in Nat
      /\ stk \in Seq(Entry(prog)) /\ Restores(stk, t0, t) /\ Len(stk) \in Nat
  BY InVisit DEF Some
<1>2. h[t0] > 0
  <2>1. h[t0] = Queued(runq, FirstLeft(pc, i), nextq)[t0] + (Count(stk, 1, t0) + One(t0 = t0))
    BY <1>1 DEF Held, InAdd
  <2>2. Queued(runq, FirstLeft(pc, i), nextq)[t0] \in Nat /\ Count(stk, 1, t0) \in Nat
    <3>1. Queued(runq, FirstLeft(pc, i), nextq) \in [Some -> Nat]
      BY InVisit, HeldNat
    <3>. QED  BY <1>1, <3>1, CountNat
  <2>. QED  BY <2>1, <2>2 DEF One
<1>. HIDE DEF h
<1>3. g \in [Some -> Nat] /\ \A k \in Some : g[k] = h[k] + One(k = t0)
  BY <1>1 DEF One
<1>. HIDE DEF g
<1>4. Exact(pool', g)
  BY <1>1, <1>2, <1>3, IncrefExact
<1>5. \A k \in Some : g[k] + Count(stk, 1, k) + One(t0 = k)
                        = h[k] + One(t0 = k) + Count(stk', 1, k) + One(t0' = k)
  <2>. SUFFICES ASSUME NEW k \in Some
                PROVE  g[k] + Count(stk, 1, k) + One(t0 = k)
                         = h[k] + One(t0 = k) + Count(stk, 1, k) + One(t0 = k)
    OBVIOUS
  <2>1. g[k] = h[k] + One(t0 = k)
    BY <1>3 DEF One
  <2>. QED  BY <2>1
<1>6. Len(stk') <= Len(stk) + (IF Inst(prog, id).op = "Capture" THEN 2
                               ELSE IF Inst(prog, id).op \in {"EmptyWidth", "Nop"} THEN 1
                               ELSE 0)
  BY <1>1
<1>. QED  BY <1>1, <1>3, <1>4, <1>5, <1>6, VisitKeeps DEF h

LEMMA AddSeenKeeps == ASSUME Asked, NFAInv, AddSeen PROVE NFAInv'
<1>1. /\ pc = "add" /\ pc' = "pop"
      /\ UNCHANGED <<query, id, runq, nextq, i, stk, t0, t, pool>>
  BY DEF AddSeen, AddFrame
<1>2. Threads(prog, pc', id', runq', nextq', i', stk', t0', t')
  BY <1>1 DEF NFAInv, Threads, InAdd
<1>3. Held(pc', runq', i', nextq', stk', t0') = Held(pc, runq, i, nextq, stk, t0)
  BY <1>1 DEF Held, FirstLeft, InAdd
<1>4. Exact(pool', Held(pc', runq', i', nextq', stk', t0'))
  BY <1>1, <1>3 DEF NFAInv
<1>. QED  BY <1>1, <1>2, <1>4, NFAPrimed

LEMMA AddFailKeeps == ASSUME Asked, NFAInv, AddFail PROVE NFAInv'
BY NoneKept DEF AddFail, Add, AddFrame

LEMMA AddAltMatchKeeps == ASSUME Asked, NFAInv, AddAltMatch PROVE NFAInv'
<1>1. pc = "add" /\ ~HasIndex(id) /\ ip.op = "AltMatch" /\ Follow(id + 1)
  BY DEF AddAltMatch, Add
<1>2. id + 1 \in InstIds(prog)
  BY <1>1, InVisit, Followed DEF WellFormedInst
<1>. QED  BY <1>1, <1>2, Followed, ThreadKept DEF AddAltMatch, AddFrame

LEMMA AddNopKeeps == ASSUME Asked, NFAInv, AddNop PROVE NFAInv'
<1>1. pc = "add" /\ ~HasIndex(id) /\ ip.op = "Nop" /\ Follow(ip.out)
  BY DEF AddNop, Add
<1>2. ip.out \in InstIds(prog) /\ Inst(prog, id).op = "Nop"
  BY <1>1, InVisit, Followed DEF WellFormedInst
<1>. QED  BY <1>1, <1>2, Followed, NoneKept DEF AddNop, AddFrame

LEMMA AddByteRangeKeeps == ASSUME Asked, NFAInv, AddByteRange PROVE NFAInv'
<1>1. pc = "add" /\ ~HasIndex(id) /\ ip.op = "ByteRange" /\ UNCHANGED <<query, i, t, t0, stk>>
  BY DEF AddByteRange, Add, AddFrame
<1>2. id + ip.hint \in InstIds(prog)
  BY <1>1, InVisit, Followed DEF WellFormedInst
<1>3. CASE Matches(query, ip, p)
  <2>1. Enqueue(t0) /\ pool' = Incref(pool, t0)
        /\ IF ip.hint = 0 THEN pc' = "pop" /\ UNCHANGED id ELSE Follow(id + ip.hint)
    BY <1>3 DEF AddByteRange
  <2>. QED  BY <1>1, <1>2, <2>1, Followed, ThreadKept
<1>4. CASE ~Matches(query, ip, p)
  <2>1. Enqueue(0) /\ UNCHANGED pool /\ FollowNext
    BY <1>4 DEF AddByteRange
  <2>. QED  BY <1>1, <2>1, Followed, NoneKept
<1>. QED  BY <1>3, <1>4

LEMMA AddMatchKeeps == ASSUME Asked, NFAInv, AddMatch PROVE NFAInv'
<1>1. pc = "add" /\ ~HasIndex(id) /\ FollowNext
  BY DEF AddMatch, Add
<1>. QED  BY <1>1, Followed, ThreadKept DEF AddMatch, AddFrame

LEMMA AddEmptyWidthKeeps == ASSUME Asked, NFAInv, AddEmptyWidth PROVE NFAInv'
<1>1. /\ pc = "add" /\ ~HasIndex(id) /\ ip.op = "EmptyWidth"
      /\ Follow(ip.out) \/ pc' = "pop"
  BY DEF AddEmptyWidth, Add
<1>2. ip.out \in InstIds(prog) /\ Inst(prog, id).op = "EmptyWidth"
  BY <1>1, InVisit, Followed DEF WellFormedInst
<1>. QED  BY <1>1, <1>2, Followed, NoneKept DEF AddEmptyWidth, AddFrame

LEMMA AddCaptureKeeps == ASSUME Asked, NFAInv, AddCapture PROVE NFAInv'
<1>1. /\ pc = "add" /\ ~HasIndex(id) /\ ip.op = "Capture" /\ Follow(ip.out) /\ Enqueue(0)
      /\ UNCHANGED <<query, i, t>>
  BY DEF AddCapture, Add, AddFrame
<1>2. ip.out \in InstIds(prog) /\ Inst(prog, id).op = "Capture"
  BY <1>1, InVisit, Followed DEF WellFormedInst
<1>3. pc' = "pop" \/ (pc' = "add" /\ id' \in InstIds(prog))
  BY <1>1, <1>2, Followed
<1>4. CASE ip.cap < ncap
  <2> DEFINE h == Held(pc, runq, i, nextq, stk, t0)
             new == NewThread(pool)
             g == [k \in Some |-> h[k] + One(k = new)]
             next == PushNext(stk)
  <2>1. /\ stk' = Append(next, [id |-> 0, t |-> t0]) /\ t0' = new
        /\ pool' = AllocThread(pool, [pool.capture[t0] EXCEPT ![ip.cap] = p])
    BY <1>4 DEF AddCapture
  <2>2. /\ h \in [Some -> Nat] /\ Exact(pool, h) /\ t0 \in Some /\ stk \in Seq(Entry(prog))
        /\ Len(prog.inst) \in Nat /\ Len(prog.inst) > 0 /\ Len(stk) \in Nat
    BY <1>1, InVisit
  <2>3. /\ next \in Seq(Entry(prog)) /\ Restores(next, t0, t)
        /\ Len(next) \in Nat /\ Len(next) <= Len(stk) + 1
        /\ \A k \in Some : Count(next, 1, k) = Count(stk, 1, k)
    BY <1>1, NextPushed
  <2>. HIDE DEF h, next
  <2>4. g \in [Some -> Nat] /\ \A k \in Some : g[k] = h[k] + One(k = new)
    BY <2>2 DEF One
  <2>. HIDE DEF g
  <2>5. new \in Some /\ Exact(pool', g)
    BY <2>1, <2>2, <2>4, AllocExact
  <2>. HIDE DEF new
  <2>6. /\ stk' \in Seq(Entry(prog)) /\ Len(stk') = Len(next) + 1 /\ Restores(stk', new, t)
        /\ \A k \in Some : Count(stk', 1, k) = Count(next, 1, k) + One(t0 = k)
    <3>1. LET r == Append(next, [id |-> 0, t |-> t0]) IN
          /\ r \in Seq(Entry(prog)) /\ Len(r) = Len(next) + 1 /\ Restores(r, new, t)
          /\ \A k \in Some : Count(r, 1, k) = Count(next, 1, k) + One(t0 = k)
      <4>1. ASSUME NEW st \in Seq(Entry(prog)), NEW a \in Some, Restores(st, a, t), NEW b
            PROVE  LET r == Append(st, [id |-> 0, t |-> a]) IN
                   /\ r \in Seq(Entry(prog)) /\ Len(r) = Len(st) + 1 /\ Restores(r, b, t)
                   /\ \A k \in Some : Count(r, 1, k) = Count(st, 1, k) + One(a = k)
        BY <2>2, <4>1, PushThread
      <4>2. t0 \in Some /\ next \in Seq(Entry(prog)) /\ Restores(next, t0, t)
        BY <2>2, <2>3
      <4>. QED  BY <4>1, <4>2
    <3>. QED  BY <2>1, <3>1
  <2>7. ASSUME NEW k \in Some
        PROVE  g[k] + Count(stk, 1, k) + One(t0 = k)
                 = h[k] + One(0 = k) + Count(stk', 1, k) + One(t0' = k)
    <3>1. /\ One(0 = k) = 0 /\ g[k] = h[k] + One(new = k)
          /\ Count(stk', 1, k) = Count(stk, 1, k) + One(t0 = k) /\ t0' = new
      BY <2>1, <2>3, <2>4, <2>6 DEF One, Some
    <3>2. h[k] \in Nat /\ One(new = k) \in Nat /\ Count(stk, 1, k) \in Nat /\ One(t0 = k) \in Nat
      BY <2>2, CountNat DEF One
    <3>3. \A x1, x2, x3, x4 \in Nat : (x1 + x2) + x3 + x4 = x1 + 0 + (x3 + x4) + x2
      OBVIOUS
    <3>. QED  BY <3>1, <3>2, <3>3
  <2>8. Len(stk') <= Len(stk) + 2
    BY <2>2, <2>3, <2>6
  <2>9. 0 \in Nat
    OBVIOUS
  <2>. QED  BY <1>1, <1>2, <1>3, <2>1, <2>4, <2>5, <2>6, <2>7, <2>8, <2>9, VisitKeeps DEF h
<1>5. CASE ~(ip.cap < ncap)
  <2>1. stk' = PushNext(stk) /\ UNCHANGED <<t0, pool>>
    BY <1>5 DEF AddCapture
  <2>. QED  BY <1>1, <1>2, <1>3, <2>1, NoneKept
<1>. QED  BY <1>4, <1>5

LEMMA AddPopKeeps == ASSUME Asked, NFAInv, AddPop PROVE NFAInv'
<1> DEFINE top == stk[Len(stk)]
           r == SubSeq(stk, 1, Len(stk) - 1)
           qd == Queued(runq, FirstLeft(pc, i), nextq)
           h == Held(pc, runq, i, nextq, stk, t0)
           g == Held(pc', runq', i', nextq', stk', t0')
<1>1. /\ pc = "pop" /\ stk # <<>> /\ stk' = r /\ id' = top.id
      /\ pc' = IF top.id = 0 THEN "pop" ELSE "add"
      /\ UNCHANGED <<query, runq, nextq, i, t>>
      /\ top.t # 0 => pool' = Decref(pool, t0) /\ t0' = top.t
      /\ top.t = 0 => UNCHANGED <<pool, t0>>
  BY DEF AddPop
<1>2. /\ runq \in Seq(Entry(prog)) /\ nextq \in Seq(Entry(prog)) /\ stk \in Seq(Entry(prog))
      /\ i \in Nat /\ t0 \in Some /\ t \in Some /\ Restores(stk, t0, t)
      /\ Len(stk) <= Room(prog, IF i = 0 THEN runq ELSE nextq) /\ Exact(pool, h)
  BY <1>1 DEF NFAInv, Threads, InAdd
<1>3. /\ top.id \in InstIds(prog) /\ top.t \in Nat /\ r \in Seq(Entry(prog)) /\ Len(r) = Len(stk) - 1
      /\ Restores(r, IF top.t # 0 THEN top.t ELSE t0, t)
      /\ \A k \in Some : Count(stk, 1, k) = Count(r, 1, k) + One(top.t = k)
  BY <1>1, <1>2, PopRestores
<1>4. t0' \in Some /\ Restores(stk', t0', t)
  BY <1>1, <1>2, <1>3 DEF Some
<1>5. Len(stk') <= Room(prog, IF i' = 0 THEN runq' ELSE nextq')
  <2>1. Len(stk) \in Nat /\ Len(stk') = Len(stk) - 1
    BY <1>1, <1>2, <1>3, LenProperties
  <2>2. Room(prog, IF i = 0 THEN runq ELSE nextq) \in Nat
    BY RoomAtLeast DEF Asked, WellFormedProg
  <2>. QED  BY <1>1, <1>2, <2>1, <2>2
<1>6. Threads(prog, pc', id', runq', nextq', i', stk', t0', t')
  BY <1>1, <1>2, <1>3, <1>4, <1>5 DEF Threads, InAdd
<1>7. qd \in [Some -> Nat] /\ h \in [Some -> Nat]
  BY <1>2, HeldNat
<1>8. /\ \A k \in Some : h[k] = qd[k] + (Count(stk, 1, k) + One(t0 = k))
      /\ \A k \in Some : g[k] = qd[k] + (Count(stk', 1, k) + One(t0' = k))
  BY <1>1 DEF Held, InAdd, FirstLeft
<1>9. \A k \in Some : Count(r, 1, k) \in Nat
  BY <1>3, CountNat
<1>. HIDE DEF top, r, qd, h, g
<1>10. CASE top.t # 0
  <2>1. h[t0] > 0
    <3>1. qd[t0] \in Nat /\ Count(stk, 1, t0) \in Nat /\ One(t0 = t0) = 1
      BY <1>2, <1>7, CountNat DEF One
    <3>2. h[t0] = qd[t0] + (Count(stk, 1, t0) + One(t0 = t0))
      BY <1>2, <1>8
    <3>. QED  BY <3>1, <3>2
  <2>2. ASSUME NEW k \in Some
        PROVE  g[k] = h[k] - One(k = t0)
    <3>1. qd[k] \in Nat /\ Count(r, 1, k) \in Nat
      BY <1>7, <1>9
    <3>2. /\ h[k] = qd[k] + ((Count(r, 1, k) + One(top.t = k)) + One(t0 = k))
          /\ g[k] = qd[k] + (Count(r, 1, k) + One(top.t = k))
      BY <1>1, <1>3, <1>8, <1>10
    <3>3. One(k = t0) = One(t0 = k) /\ One(t0 = k) \in Nat /\ One(top.t = k) \in Nat
      BY DEF One
    <3>4. \A x1, x2, x3, x4 \in Nat : x1 + (x2 + x3) = (x1 + ((x2 + x3) + x4)) - x4
      OBVIOUS
    <3>. QED  BY <3>1, <3>2, <3>3, <3>4
  <2>3. Exact(pool', g)
    BY <1>1, <1>2, <1>7, <1>10, <2>1, <2>2, DecrefExact
  <2>. QED  BY <1>1, <1>6, <2>3, NFAPrimed DEF g
<1>11. CASE top.t = 0
  <2>1. ASSUME NEW k \in Some
        PROVE  g[k] = h[k]
    <3>1. One(top.t = k) = 0 /\ Count(r, 1, k) + 0 = Count(r, 1, k)
      BY <1>9, <1>11 DEF One, Some
    <3>. QED  BY <1>1, <1>3, <1>8, <1>11, <3>1
  <2>2. Exact(pool', g)
    BY <1>1, <1>2, <1>11, <2>1, SameCounts
  <2>. QED  BY <1>1, <1>6, <2>2, NFAPrimed DEF g
<1>. QED  BY <1>10, <1>11

LEMMA AddReturnKeeps == ASSUME Asked, NFAInv, AddReturn PROVE NFAInv'
<1> DEFINE qd == Queued(runq, FirstLeft(pc, i), nextq)
           h == Held(pc, runq, i, nextq, stk, t0)
           g == Held(pc', runq', i', nextq', stk', t0')
<1>1. /\ pc = "pop" /\ stk = <<>> /\ pool' = Decref(pool, t)
      /\ i = 0 => pc' = "check" /\ i' = i
      /\ i # 0 => pc' = "step" /\ i' = i + 1
      /\ UNCHANGED <<query, runq, nextq, stk, t0, t>>
  BY DEF AddReturn
<1>2. /\ runq \in Seq(Entry(prog)) /\ nextq \in Seq(Entry(prog)) /\ stk \in Seq(Entry(prog))
      /\ i \in Nat /\ t0 \in Some /\ Restores(stk, t0, t) /\ Exact(pool, h)
  BY <1>1 DEF NFAInv, Threads, InAdd
<1>3. t0 = t
  <2>1. Len(stk) = 0
    BY <1>1
  <2>. QED  BY <1>2, <2>1 DEF Restores
<1>4. Threads(prog, pc', id', runq', nextq', i', stk', t0', t')
  BY <1>1, <1>2 DEF Threads, InAdd
<1>5. FirstLeft(pc', i') = FirstLeft(pc, i)
  BY <1>1, <1>2 DEF FirstLeft, InAdd
<1>6. qd \in [Some -> Nat] /\ h \in [Some -> Nat]
  BY <1>2, HeldNat
<1>7. \A k \in Some : Count(stk, 1, k) = 0
  <2>1. 1 > Len(stk)
    BY <1>1
  <2>. QED  BY <1>2, <2>1, CountNone
<1>8. /\ \A k \in Some : h[k] = qd[k] + (Count(stk, 1, k) + One(t0 = k))
      /\ \A k \in Some : g[k] = qd[k] + 0
  BY <1>1, <1>5 DEF Held, InAdd
<1>. HIDE DEF qd, h, g
<1>9. h[t0] > 0
  <2>1. qd[t0] \in Nat /\ Count(stk, 1, t0) = 0 /\ One(t0 = t0) = 1
    BY <1>2, <1>6, <1>7 DEF One
  <2>2. h[t0] = qd[t0] + (Count(stk, 1, t0) + One(t0 = t0))
    BY <1>2, <1>8
  <2>. QED  BY <2>1, <2>2
<1>10. ASSUME NEW k \in Some
       PROVE  g[k] = h[k] - One(k = t0)
  <2>1. qd[k] \in Nat /\ One(k = t0) = One(t0 = k) /\ One(t0 = k) \in Nat
    BY <1>6 DEF One
  <2>2. h[k] = qd[k] + (0 + One(t0 = k)) /\ g[k] = qd[k] + 0
    BY <1>7, <1>8
  <2>3. \A x1, x2 \in Nat : x1 + 0 = (x1 + (0 + x2)) - x2
    OBVIOUS
  <2>. QED  BY <2>1, <2>2, <2>3
<1>11. Exact(pool', g)
  BY <1>1, <1>2, <1>3, <1>6, <1>9, <1>10, DecrefExact
<1>. QED  BY <1>1, <1>4, <1>11, NFAPrimed DEF g

(***************************************************************************)
(* Step and Search.                                                        *)
(***************************************************************************)
\* Outside of AddToThreadq only the queues hold threads.
LEMMA InQueues ==
  ASSUME NEW pr, NEW ctl, ~InAdd(ctl), NEW rq \in Seq(Entry(pr)), NEW j \in Nat,
         NEW nq \in Seq(Entry(pr)), NEW st, NEW a
  PROVE  LET f == IF j = 0 THEN 1 ELSE j IN
         /\ Held(ctl, rq, j, nq, st, a) \in [Some -> Nat]
         /\ \A k \in Some : /\ Held(ctl, rq, j, nq, st, a)[k] = Count(rq, f, k) + Count(nq, 1, k)
                            /\ Count(rq, f, k) \in Nat /\ Count(nq, 1, k) \in Nat
<1> DEFINE f == IF j = 0 THEN 1 ELSE j
<1>1. FirstLeft(ctl, j) = f /\ f \in Nat
  BY DEF FirstLeft
<1>. HIDE DEF f
<1>2. \A k \in Some : Count(rq, f, k) \in Nat /\ Count(nq, 1, k) \in Nat
  BY <1>1, CountNat
<1>3. \A k \in Some : Count(rq, f, k) + Count(nq, 1, k) \in Nat
                      /\ (Count(rq, f, k) + Count(nq, 1, k)) + 0 = Count(rq, f, k) + Count(nq, 1, k)
  BY <1>2
<1>4. Held(ctl, rq, j, nq, st, a) = [k \in Some |-> Count(rq, f, k) + Count(nq, 1, k)]
  <2>1. Held(ctl, rq, j, nq, st, a) = [k \in Some |-> Queued(rq, f, nq)[k] + 0]
    BY <1>1 DEF Held
  <2>2. \A k \in Some : Queued(rq, f, nq)[k] + 0 = Count(rq, f, k) + Count(nq, 1, k)
    BY <1>3 DEF Queued
  <2>. QED  BY <2>1, <2>2
<1>. QED  BY <1>2, <1>3, <1>4 DEF f

LEMMA NoneIn ==
  ASSUME NEW pr
  PROVE  <<>> \in Seq(Entry(pr)) /\ \A f \in Nat \ {0}, k \in Some : Count(<<>>, f, k) = 0
<1>1. <<>> \in Seq(Entry(pr)) /\ Len(<<>>) = 0
  BY EmptySeq
<1>2. \A f \in Nat \ {0} : f \in Nat /\ f > Len(<<>>)
  BY <1>1
<1>. QED  BY <1>1, <1>2, CountNone

LEMMA InStep ==
  ASSUME Asked, NFAInv, pc = "step"
  PROVE  /\ runq \in Seq(Entry(prog)) /\ nextq \in Seq(Entry(prog)) /\ Len(runq) \in Nat
         /\ i \in Nat \ {0} /\ stk = <<>> /\ ~InAdd(pc)
         /\ Exact(pool, Held(pc, runq, i, nextq, stk, t0))
         /\ Held(pc, runq, i, nextq, stk, t0) \in [Some -> Nat]
         /\ \A k \in Some : /\ Held(pc, runq, i, nextq, stk, t0)[k] = Count(runq, i, k) + Count(nextq, 1, k)
                            /\ Count(runq, i, k) \in Nat /\ Count(nextq, 1, k) \in Nat
<1>1. Threads(prog, pc, id, runq, nextq, i, stk, t0, t) /\ ~InAdd(pc)
  BY DEF NFAInv, InAdd
<1>2. /\ runq \in Seq(Entry(prog)) /\ nextq \in Seq(Entry(prog)) /\ i \in Nat \ {0} /\ stk = <<>>
  BY <1>1 DEF Threads
<1>3. i \in Nat /\ (IF i = 0 THEN 1 ELSE i) = i /\ Len(runq) \in Nat
  BY <1>2, LenProperties
<1>4. /\ Held(pc, runq, i, nextq, stk, t0) \in [Some -> Nat]
      /\ \A k \in Some : /\ Held(pc, runq, i, nextq, stk, t0)[k] = Count(runq, i, k) + Count(nextq, 1, k)
                         /\ Count(runq, i, k) \in Nat /\ Count(nextq, 1, k) \in Nat
  BY <1>1, <1>2, <1>3, InQueues
<1>. QED  BY <1>1, <1>2, <1>3, <1>4 DEF NFAInv

\* The thread that Step is at, and what is left when it has been taken.
LEMMA Taken ==
  ASSUME Asked, NFAInv, pc = "step", i <= Len(runq)
  PROVE  /\ th \in Nat /\ runq[i].id \in InstIds(prog) /\ i + 1 \in Nat \ {0}
         /\ th # 0 => th \in Some /\ Held(pc, runq, i, nextq, stk, t0)[th] > 0
         /\ \A k \in Some :
              /\ Held(pc, runq, i, nextq, stk, t0)[k]
                   = (Count(runq, i + 1, k) + Count(nextq, 1, k)) + One(th = k)
              /\ Count(runq, i + 1, k) \in Nat
<1>1. i \in 1..Len(runq) /\ i + 1 \in Nat \ {0} /\ i + 1 \in Nat
  BY InStep
<1>2. runq[i] \in Entry(prog)
  BY <1>1, InStep, ElementOfSeq
<1>3. th \in Nat /\ runq[i].id \in InstIds(prog)
  BY <1>2 DEF th, Entry
<1>4. ASSUME NEW k \in Some
      PROVE  /\ Held(pc, runq, i, nextq, stk, t0)[k]
                  = (Count(runq, i + 1, k) + Count(nextq, 1, k)) + One(th = k)
             /\ Count(runq, i + 1, k) \in Nat
  <2>1. Count(runq, i, k) = Count(runq, i + 1, k) + One(th = k)
    <3>1. \A j \in 1..Len(runq) : Count(runq, j, k) = Count(runq, j + 1, k) + One(runq[j].t = k)
      BY InStep, CountFrom
    <3>. QED  BY <1>1, <3>1 DEF th
  <2>2. Count(runq, i + 1, k) \in Nat
    <3>1. \A j \in Nat : Count(runq, j, k) \in Nat
      BY InStep, CountNat
    <3>. QED  BY <1>1, <3>1
  <2>3. Count(nextq, 1, k) \in Nat /\ One(th = k) \in Nat
    BY InStep DEF One
  <2>4. Held(pc, runq, i, nextq, stk, t0)[k]
          = (Count(runq, i + 1, k) + One(th = k)) + Count(nextq, 1, k)
    BY <2>1, InStep
  <2>5. \A x1, x2, x3 \in Nat : (x1 + x2) + x3 = (x1 + x3) + x2
    OBVIOUS
  <2>. QED  BY <2>2, <2>3, <2>4, <2>5
<1>5. ASSUME th # 0
      PROVE  th \in Some /\ Held(pc, runq, i, nextq, stk, t0)[th] > 0
  <2>1. th \in Some
    BY <1>3, <1>5 DEF Some
  <2>2. /\ Held(pc, runq, i, nextq, stk, t0)[th]
             = (Count(runq, i + 1, th) + Count(nextq, 1, th)) + One(th = th)
        /\ Count(runq, i + 1, th) \in Nat /\ Count(nextq, 1, th) \in Nat
    BY <1>4, <2>1, InStep
  <2>. QED  BY <2>1, <2>2 DEF One
<1>. QED  BY <1>1, <1>3, <1>4, <1>5

LEMMA StepsOn ==
  ASSUME Asked, NFAInv, pc = "step", i <= Len(runq), i' = i + 1,
         UNCHANGED <<query, pc, runq, nextq, stk, t0, t>>,
         pool' = IF th = 0 THEN pool ELSE Decref(pool, th)
  PROVE  NFAInv'
<1> DEFINE h == Held(pc, runq, i, nextq, stk, t0)
           g == Held(pc', runq', i', nextq', stk', t0')
<1>1. Threads(prog, pc', id', runq', nextq', i', stk', t0', t')
  BY InStep, Taken DEF NFAInv, Threads, InAdd
<1>2. /\ h \in [Some -> Nat] /\ Exact(pool, h)
      /\ \A k \in Some : h[k] = (Count(runq, i + 1, k) + Count(nextq, 1, k)) + One(th = k)
  BY InStep, Taken
<1>3. \A k \in Some : g[k] = Count(runq, i + 1, k) + Count(nextq, 1, k)
  <2>1. i + 1 \in Nat /\ (IF i + 1 = 0 THEN 1 ELSE i + 1) = i + 1
    BY Taken
  <2>2. \A k \in Some : Held(pc, runq, i + 1, nextq, stk, t0)[k] = Count(runq, i + 1, k) + Count(nextq, 1, k)
    BY <2>1, InStep, InQueues
  <2>. QED  BY <2>2
<1>4. \A k \in Some : Count(runq, i + 1, k) \in Nat /\ Count(nextq, 1, k) \in Nat
  BY InStep, Taken
<1>. HIDE DEF h, g
<1>5. ASSUME NEW k \in Some
      PROVE  g[k] = h[k] - One(k = th)
  <2>1. One(k = th) = One(th = k) /\ One(th = k) \in Nat
    BY DEF One
  <2>2. \A x1, x2, x3 \in Nat : x1 + x2 = ((x1 + x2) + x3) - x3
    OBVIOUS
  <2>. QED  BY <1>2, <1>3, <1>4, <2>1, <2>2
<1>6. CASE th = 0
  <2>1. \A k \in Some : g[k] = h[k]
    <3>1. \A k \in Some : One(k = th) = 0 /\ h[k] \in Nat
      BY <1>2, <1>6 DEF One, Some
    <3>2. \A x \in Nat : x - 0 = x
      OBVIOUS
    <3>. QED  BY <1>5, <3>1, <3>2
  <2>2. Exact(pool', g)
    BY <1>2, <1>6, <2>1, SameCounts
  <2>. QED  BY <1>1, <2>2, NFAPrimed DEF g
<1>7. CASE th # 0
  <2>1. th \in Some /\ h[th] > 0
    BY <1>7, Taken DEF h
  <2>2. Exact(pool', g)
    <3>1. ASSUME NEW d \in Some, h[d] > 0, \A k \in Some : g[k] = h[k] - One(k = d)
          PROVE  Exact(Decref(pool, d), g)
      BY <1>2, <3>1, DecrefExact
    <3>. QED  BY <1>5, <1>7, <2>1, <3>1
  <2>. QED  BY <1>1, <2>2, NFAPrimed DEF g
<1>. QED  BY <1>6, <1>7

LEMMA CutsOff ==
  ASSUME Asked, NFAInv, pc = "step", i <= Len(runq), i' = i, runq' = <<>>,
         UNCHANGED <<query, nextq, stk, t0, t>>, pool' = DecrefFrom(pool, runq, i),
         pc' = "step" \/ (pc' = "short" /\ i = 1)
  PROVE  NFAInv'
<1> DEFINE h == Held(pc, runq, i, nextq, stk, t0)
           g == Held(pc', runq', i', nextq', stk', t0')
<1>1. Threads(prog, pc', id', runq', nextq', i', stk', t0', t')
  BY InStep, NoneIn DEF NFAInv, Threads, InAdd
<1>2. /\ h \in [Some -> Nat] /\ Exact(pool, h)
      /\ \A k \in Some : h[k] = Count(runq, i, k) + Count(nextq, 1, k)
      /\ \A k \in Some : Count(runq, i, k) \in Nat /\ Count(nextq, 1, k) \in Nat
  BY InStep
<1>3. g \in [Some -> Nat] /\ \A k \in Some : g[k] = Count(nextq, 1, k)
  <2>1. ~InAdd(pc') /\ i \in Nat \ {0} /\ i \in Nat /\ (IF i = 0 THEN 1 ELSE i) = i
    BY InStep DEF InAdd
  <2>2. /\ Held(pc', <<>>, i, nextq, stk, t0) \in [Some -> Nat]
        /\ \A k \in Some : Held(pc', <<>>, i, nextq, stk, t0)[k] = Count(<<>>, i, k) + Count(nextq, 1, k)
    <3>1. ASSUME NEW ctl, ~InAdd(ctl)
          PROVE  /\ Held(ctl, <<>>, i, nextq, stk, t0) \in [Some -> Nat]
                 /\ \A k \in Some : Held(ctl, <<>>, i, nextq, stk, t0)[k]
                                      = Count(<<>>, i, k) + Count(nextq, 1, k)
      <4>1. <<>> \in Seq(Entry(prog)) /\ nextq \in Seq(Entry(prog))
        BY InStep, NoneIn
      <4>2. ASSUME NEW rq \in Seq(Entry(prog))
            PROVE  /\ Held(ctl, rq, i, nextq, stk, t0) \in [Some -> Nat]
                   /\ \A k \in Some : Held(ctl, rq, i, nextq, stk, t0)[k]
                                        = Count(rq, i, k) + Count(nextq, 1, k)
        BY <2>1, <3>1, <4>1, InQueues
      <4>. QED  BY <4>1, <4>2
    <3>. QED  BY <2>1, <3>1
  <2>3. \A k \in Some : Count(<<>>, i, k) = 0
    BY <2>1, NoneIn
  <2>4. \A x \in Nat : 0 + x = x
    OBVIOUS
  <2>. QED  BY <1>2, <2>2, <2>3, <2>4
<1>. HIDE DEF h, g
<1>4. \A k \in Some : h[k] = g[k] + Count(runq, i, k)
  BY <1>2, <1>3
<1>5. i \in 1..(Len(runq) + 1) /\ \A e \in Entry(prog) : e.t \in Nat
  BY InStep DEF Entry
<1>6. Exact(pool', g)
  <2>1. runq \in Seq(Entry(prog))
    BY InStep
  <2>2. Exact(DecrefFrom(pool, runq, i), g)
    <3>1. ASSUME NEW f \in 1..(Len(runq) + 1), \A k \in Some : h[k] = g[k] + Count(runq, f, k)
          PROVE  Exact(DecrefFrom(pool, runq, f), g)
      BY <1>2, <1>3, <1>5, <2>1, <3>1, DecrefAllExact
    <3>. QED  BY <1>4, <1>5, <3>1
  <2>. QED  BY <2>2
<1>. QED  BY <1>1, <1>6, NFAPrimed DEF g

LEMMA StepSkipKeeps == ASSUME Asked, NFAInv, StepSkip PROVE NFAInv'
BY StepsOn DEF StepSkip, StepFrame, NextThread

LEMMA StepMatchKeeps == ASSUME Asked, NFAInv, StepMatch PROVE NFAInv'
<1>1. pc = "step" /\ i <= Len(runq) /\ th # 0 /\ UNCHANGED <<query, nextq, stk, t0, t>>
  BY DEF StepMatch, Step, StepFrame
<1>2. NextThread \/ CutOff
  BY DEF StepMatch
<1>. QED  BY <1>1, <1>2, StepsOn, CutsOff DEF NextThread, CutOff

LEMMA StepAltMatchKeeps == ASSUME Asked, NFAInv, StepAltMatch PROVE NFAInv'
<1>1. pc = "step" /\ i <= Len(runq) /\ th # 0 /\ UNCHANGED <<query, nextq, stk, t0, t>>
  BY DEF StepAltMatch, Step
<1>2. \/ NextThread
      \/ /\ i = 1 /\ runq' = <<>> /\ pool' = DecrefFrom(pool, runq, i) /\ pc' = "short" /\ i' = i
  BY DEF StepAltMatch
<1>. QED  BY <1>1, <1>2, StepsOn, CutsOff DEF NextThread

\* AddToThreadq begins, with the thread that Step is at.
LEMMA StepByteRangeKeeps == ASSUME Asked, NFAInv, StepByteRange PROVE NFAInv'
<1> DEFINE start == op.out
           h == Held(pc, runq, i, nextq, stk, t0)
           g == Held(pc', runq', i', nextq', stk', t0')
<1>1. /\ pc = "step" /\ i <= Len(runq) /\ th # 0 /\ op.op = "ByteRange"
      /\ stk' = IF start = 0 THEN <<>> ELSE << [id |-> start, t |-> 0] >>
      /\ t0' = th /\ t' = th /\ pc' = "pop"
      /\ UNCHANGED <<query, id, runq, nextq, i, pool>>
  BY DEF StepByteRange, Step, AddToThreadq
<1>2. th \in Some /\ start \in InstIds(prog)
  BY <1>1, Taken DEF op, Asked, WellFormedProg, WellFormedInst
<1>3. /\ stk' \in Seq(Entry(prog)) /\ Restores(stk', th, th) /\ Len(stk') <= 1
      /\ \A k \in Some : Count(stk', 1, k) = 0
  <2>1. <<>> \in Seq(Entry(prog)) /\ Restores(<<>>, th, th) /\ Len(<<>>) = 0
        /\ \A k \in Some : Count(<<>>, 1, k) = 0
    BY <1>2, FirstStack
  <2>2. ASSUME NEW k0 \in InstIds(prog), NEW a
        PROVE  LET r == << [id |-> k0, t |-> 0] >> IN
               /\ r \in Seq(Entry(prog)) /\ Len(r) = 1 /\ Restores(r, a, a)
               /\ \A k \in Some : Count(r, 1, k) = 0
    BY FirstStack
  <2>3. LET r == << [id |-> start, t |-> 0] >> IN
        /\ r \in Seq(Entry(prog)) /\ Len(r) = 1 /\ Restores(r, th, th)
        /\ \A k \in Some : Count(r, 1, k) = 0
    BY <1>2, <2>2
  <2>4. CASE start = 0
    BY <1>1, <2>1, <2>4
  <2>5. CASE start # 0
    BY <1>1, <2>3, <2>5
  <2>. QED  BY <2>4, <2>5
<1>4. Room(prog, IF i' = 0 THEN runq' ELSE nextq') >= 1 /\ Room(prog, IF i' = 0 THEN runq' ELSE nextq') \in Nat
  BY RoomAtLeast DEF Asked, WellFormedProg
<1>5. Len(stk') <= Room(prog, IF i' = 0 THEN runq' ELSE nextq')
  <2>1. Len(stk') \in Nat
    BY <1>3, LenProperties
  <2>. QED  BY <1>3, <1>4, <2>1
<1>6. Threads(prog, pc', id', runq', nextq', i', stk', t0', t')
  BY <1>1, <1>2, <1>3, <1>5, InStep DEF Threads, InAdd
<1>7. /\ Exact(pool, h)
      /\ \A k \in Some : /\ h[k] = (Count(runq, i + 1, k) + Count(nextq, 1, k)) + One(th = k)
                         /\ Count(runq, i + 1, k) \in Nat /\ Count(nextq, 1, k) \in Nat
  BY <1>1, InStep, Taken
<1>8. \A k \in Some : g[k] = (Count(runq, i + 1, k) + Count(nextq, 1, k)) + (0 + One(th = k))
  <2>1. FirstLeft(pc', i') = i + 1 /\ InAdd(pc')
    BY <1>1, InStep DEF FirstLeft, InAdd
  <2>2. \A k \in Some : g[k] = Queued(runq', i + 1, nextq')[k] + (Count(stk', 1, k) + One(t0' = k))
    BY <2>1 DEF Held
  <2>. QED  BY <1>1, <1>3, <2>2 DEF Queued
<1>. HIDE DEF h, g
<1>9. ASSUME NEW k \in Some
      PROVE  g[k] = h[k]
  <2>1. One(th = k) \in Nat /\ \A x \in Nat : 0 + x = x
    BY DEF One
  <2>. QED  BY <1>7, <1>8, <2>1
<1>10. Exact(pool', g)
  BY <1>1, <1>7, <1>9, SameCounts
<1>. QED  BY <1>1, <1>6, <1>10, NFAPrimed DEF g

LEMMA StepEndKeeps == ASSUME Asked, NFAInv, StepEnd PROVE NFAInv'
<1> DEFINE h == Held(pc, runq, i, nextq, stk, t0)
           g == Held(pc', runq', i', nextq', stk', t0')
<1>1. /\ pc = "step" /\ i > Len(runq) /\ runq' = nextq /\ nextq' = <<>> /\ i' = 0 /\ pc' = "start"
      /\ UNCHANGED <<query, id, pool, stk, t0, t>>
  BY DEF StepEnd, StepFrame
<1>2. Threads(prog, pc', id', runq', nextq', i', stk', t0', t')
  BY <1>1, InStep, NoneIn DEF Threads, InAdd
<1>3. /\ Exact(pool, h)
      /\ \A k \in Some : /\ h[k] = Count(runq, i, k) + Count(nextq, 1, k)
                         /\ Count(nextq, 1, k) \in Nat
  BY <1>1, InStep
<1>4. \A k \in Some : Count(runq, i, k) = 0
  <2>1. i \in Nat
    BY <1>1, InStep
  <2>. QED  BY <1>1, <2>1, InStep, CountNone
<1>5. \A k \in Some : g[k] = Count(nextq, 1, k) + Count(<<>>, 1, k)
  <2>1. ASSUME NEW ctl, ~InAdd(ctl)
        PROVE  \A k \in Some : Held(ctl, nextq, 0, <<>>, stk, t0)[k] = Count(nextq, 1, k) + Count(<<>>, 1, k)
    <3>1. 0 \in Nat /\ (IF 0 = 0 THEN 1 ELSE 0) = 1
      OBVIOUS
    <3>2. <<>> \in Seq(Entry(prog)) /\ nextq \in Seq(Entry(prog))
      BY <1>1, InStep, NoneIn
    <3>3. ASSUME NEW nq \in Seq(Entry(prog))
          PROVE  \A k \in Some : Held(ctl, nextq, 0, nq, stk, t0)[k] = Count(nextq, 1, k) + Count(nq, 1, k)
      BY <2>1, <3>1, <3>2, InQueues
    <3>. QED  BY <3>2, <3>3
  <2>2. ~InAdd(pc')
    BY <1>1 DEF InAdd
  <2>. QED  BY <1>1, <2>1, <2>2
<1>6. 1 \in Nat \ {0}
  OBVIOUS
<1>. HIDE DEF h, g
<1>7. \A k \in Some : g[k] = h[k]
  <2>1. \A k \in Some : Count(<<>>, 1, k) = 0
    BY <1>6, NoneIn
  <2>2. \A x \in Nat : x + 0 = 0 + x
    OBVIOUS
  <2>. QED  BY <1>3, <1>4, <1>5, <2>1, <2>2
<1>8. Exact(pool', g)
  BY <1>1, <1>3, <1>7, SameCounts
<1>. QED  BY <1>1, <1>2, <1>8, NFAPrimed DEF g

\* Search, between the steps.
LEMMA Resting ==
  ASSUME Asked, NFAInv, ~InAdd(pc)
  PROVE  LET f == IF i = 0 THEN 1 ELSE i
             h == Held(pc, runq, i, nextq, stk, t0)
         IN /\ Threads(prog, pc, id, runq, nextq, i, stk, t0, t) /\ stk = <<>>
            /\ runq \in Seq(Entry(prog)) /\ nextq \in Seq(Entry(prog)) /\ i \in Nat
            /\ h \in [Some -> Nat] /\ Exact(pool, h)
            /\ \A k \in Some : /\ h[k] = Count(runq, f, k) + Count(nextq, 1, k)
                               /\ Count(runq, f, k) \in Nat /\ Count(nextq, 1, k) \in Nat
<1>1. /\ Threads(prog, pc, id, runq, nextq, i, stk, t0, t) /\ stk = <<>>
      /\ runq \in Seq(Entry(prog)) /\ nextq \in Seq(Entry(prog)) /\ i \in Nat
  BY DEF NFAInv, Threads
<1>2. Exact(pool, Held(pc, runq, i, nextq, stk, t0))
  BY DEF NFAInv
<1>. QED  BY <1>1, <1>2, InQueues

\* The queues stay as they are.
LEMMA RestKeeps ==
  ASSUME Asked, NFAInv, ~InAdd(pc), ~InAdd(pc'),
         UNCHANGED <<query, runq, nextq, stk, pool>>, i' \in Nat,
         (IF i' = 0 THEN 1 ELSE i') = (IF i = 0 THEN 1 ELSE i),
         Threads(prog, pc', id', runq', nextq', i', stk', t0', t')
  PROVE  NFAInv'
<1> DEFINE f == IF i = 0 THEN 1 ELSE i
           h == Held(pc, runq, i, nextq, stk, t0)
           g == Held(pc', runq', i', nextq', stk', t0')
<1>1. Exact(pool, h) /\ \A k \in Some : h[k] = Count(runq, f, k) + Count(nextq, 1, k)
  BY Resting
<1>2. \A k \in Some : g[k] = Count(runq, f, k) + Count(nextq, 1, k)
  <2>1. ASSUME NEW ctl, ~InAdd(ctl), NEW j \in Nat, (IF j = 0 THEN 1 ELSE j) = f, NEW a
        PROVE  \A k \in Some : Held(ctl, runq, j, nextq, stk, a)[k] = Count(runq, f, k) + Count(nextq, 1, k)
    <3>1. runq \in Seq(Entry(prog)) /\ nextq \in Seq(Entry(prog))
      BY Resting
    <3>2. \A k \in Some : Held(ctl, runq, j, nextq, stk, a)[k]
                           = Count(runq, IF j = 0 THEN 1 ELSE j, k) + Count(nextq, 1, k)
      BY <2>1, <3>1, InQueues
    <3>. HIDE DEF f
    <3>. QED  BY <2>1, <3>2
  <2>. QED  BY <2>1
<1>. HIDE DEF h, g
<1>3. Exact(pool', g)
  BY <1>1, <1>2, SameCounts
<1>. QED  BY <1>3, NFAPrimed DEF g

LEMMA NFARejectKeeps == ASSUME Asked, NFAInv, NFAReject PROVE NFAInv'
<1>1. /\ pc = "start" /\ pc' = "done" /\ UNCHANGED <<query, runq, nextq, i, stk, t0, t, pool>>
      /\ ~InAdd(pc) /\ ~InAdd(pc')
  BY DEF NFAReject, Return, SearchFrame, InAdd
<1>2. Threads(prog, pc', id', runq', nextq', i', stk', t0', t')
  BY <1>1, Resting DEF Threads, InAdd
<1>. QED  BY <1>1, <1>2, Resting, RestKeeps

LEMMA NFASetupKeeps == ASSUME Asked, NFAInv, NFASetup PROVE NFAInv'
<1>1. /\ pc = "start" /\ pc' = pc /\ UNCHANGED <<query, id, runq, nextq, i, stk, t0, t, pool>>
      /\ ~InAdd(pc) /\ ~InAdd(pc')
  BY DEF NFASetup, SearchFrame, InAdd
<1>2. Threads(prog, pc', id', runq', nextq', i', stk', t0', t')
  BY <1>1, Resting
<1>. QED  BY <1>1, <1>2, Resting, RestKeeps

LEMMA NoThreadKeeps == ASSUME Asked, NFAInv, NoThread PROVE NFAInv'
<1>1. /\ pc = "start" /\ pc' \in {"finish", "check"}
      /\ UNCHANGED <<query, id, runq, nextq, i, stk, t0, t, pool>> /\ ~InAdd(pc) /\ ~InAdd(pc')
  BY DEF NoThread, SearchFrame, InAdd
<1>2. Threads(prog, pc', id', runq', nextq', i', stk', t0', t')
  BY <1>1, Resting DEF Threads, InAdd
<1>. QED  BY <1>1, <1>2, Resting, RestKeeps

LEMMA CheckKeeps == ASSUME Asked, NFAInv, Check PROVE NFAInv'
<1>1. /\ pc = "check"
      /\ \/ pc' = "finish" /\ i' = i
         \/ pc' = "step" /\ i' = 1
      /\ UNCHANGED <<query, id, runq, nextq, stk, t0, t, pool>> /\ ~InAdd(pc) /\ ~InAdd(pc')
  BY DEF Check, InAdd
<1>2. i = 0
  BY <1>1, Resting DEF Threads
<1>3. Threads(prog, pc', id', runq', nextq', i', stk', t0', t')
  BY <1>1, <1>2, Resting DEF Threads, InAdd
<1>4. i' \in Nat /\ (IF i' = 0 THEN 1 ELSE i') = (IF i = 0 THEN 1 ELSE i)
  BY <1>1, <1>2
<1>. QED  BY <1>1, <1>3, <1>4, RestKeeps

LEMMA ShortCutKeeps == ASSUME Asked, NFAInv, ShortCut PROVE NFAInv'
<1>1. /\ pc = "short" /\ ~InAdd(pc) /\ UNCHANGED <<query, i, stk, t0, t, pool>>
      /\ \/ pc' = "finish" /\ runq' = nextq /\ nextq' = <<>>
         \/ UNCHANGED <<pc, runq, nextq>>
  BY DEF ShortCut, InAdd
<1>2. i \in {0, 1} /\ (IF i = 0 THEN 1 ELSE i) = 1 /\ runq = <<>>
  BY <1>1, Resting DEF Threads
<1>3. Threads(prog, pc', id', runq', nextq', i', stk', t0', t') /\ ~InAdd(pc')
  BY <1>1, <1>2, Resting, NoneIn DEF Threads, InAdd
<1>4. CASE UNCHANGED <<pc, runq, nextq>>
  BY <1>1, <1>2, <1>3, <1>4, Resting, RestKeeps
<1>5. CASE pc' = "finish" /\ runq' = nextq /\ nextq' = <<>>
  <2> DEFINE h == Held(pc, runq, i, nextq, stk, t0)
             g == Held(pc', runq', i', nextq', stk', t0')
  <2>1. /\ Exact(pool, h) /\ i \in Nat /\ <<>> \in Seq(Entry(prog)) /\ nextq \in Seq(Entry(prog))
        /\ \A k \in Some : /\ h[k] = Count(<<>>, 1, k) + Count(nextq, 1, k)
                           /\ Count(nextq, 1, k) \in Nat
    BY <1>1, <1>2, Resting, NoneIn
  <2>2. \A k \in Some : g[k] = Count(nextq, 1, k) + Count(<<>>, 1, k)
    <3>1. ASSUME NEW ctl, ~InAdd(ctl), NEW nq \in Seq(Entry(prog))
          PROVE  \A k \in Some : Held(ctl, nextq, i, nq, stk, t0)[k] = Count(nextq, 1, k) + Count(nq, 1, k)
      BY <1>2, <2>1, <3>1, InQueues
    <3>. QED  BY <1>1, <1>3, <1>5, <2>1, <3>1
  <2>. HIDE DEF h, g
  <2>3. \A k \in Some : g[k] = h[k]
    <3>1. \A k \in Some : Count(<<>>, 1, k) = 0
      <4>1. 1 \in Nat \ {0}
        OBVIOUS
      <4>. QED  BY <4>1, NoneIn
    <3>2. \A x \in Nat : x + 0 = 0 + x
      OBVIOUS
    <3>. QED  BY <2>1, <2>2, <3>1, <3>2
  <2>4. Exact(pool', g)
    BY <1>1, <2>1, <2>3, SameCounts
  <2>. QED  BY <1>1, <1>3, <2>4, NFAPrimed DEF g
<1>. QED  BY <1>1, <1>4, <1>5

LEMMA FinishKeeps == ASSUME Asked, NFAInv, Finish PROVE NFAInv'
<1> DEFINE h == Held(pc, runq, i, nextq, stk, t0)
           g == Held(pc', runq', i', nextq', stk', t0')
<1>1. /\ pc = "finish" /\ pc' = "done" /\ ~InAdd(pc) /\ ~InAdd(pc')
      /\ pool' = DecrefFrom(pool, runq, 1) /\ runq' = <<>>
      /\ UNCHANGED <<query, nextq, i, stk, t0, t>>
  BY DEF Finish, Return, SearchFrame, InAdd
<1>2. i \in {0, 1} /\ (IF i = 0 THEN 1 ELSE i) = 1
  BY <1>1, Resting DEF Threads
<1>3. Threads(prog, pc', id', runq', nextq', i', stk', t0', t')
  BY <1>1, Resting, NoneIn DEF Threads, InAdd
<1>4. /\ h \in [Some -> Nat] /\ Exact(pool, h) /\ i \in Nat
      /\ <<>> \in Seq(Entry(prog)) /\ runq \in Seq(Entry(prog)) /\ nextq \in Seq(Entry(prog))
      /\ \A k \in Some : /\ h[k] = Count(runq, 1, k) + Count(nextq, 1, k)
                         /\ Count(runq, 1, k) \in Nat /\ Count(nextq, 1, k) \in Nat
  BY <1>1, <1>2, Resting, NoneIn
<1>5. g \in [Some -> Nat] /\ \A k \in Some : g[k] = Count(nextq, 1, k)
  <2>1. ASSUME NEW ctl, ~InAdd(ctl), NEW rq \in Seq(Entry(prog))
        PROVE  /\ Held(ctl, rq, i, nextq, stk, t0) \in [Some -> Nat]
               /\ \A k \in Some : Held(ctl, rq, i, nextq, stk, t0)[k] = Count(rq, 1, k) + Count(nextq, 1, k)
    BY <1>2, <1>4, <2>1, InQueues
  <2>2. g \in [Some -> Nat] /\ \A k \in Some : g[k] = Count(<<>>, 1, k) + Count(nextq, 1, k)
    BY <1>1, <1>4, <2>1
  <2>3. \A k \in Some : Count(<<>>, 1, k) = 0
    <3>1. 1 \in Nat \ {0}
      OBVIOUS
    <3>. QED  BY <3>1, NoneIn
  <2>4. \A x \in Nat : 0 + x = x
    OBVIOUS
  <2>. QED  BY <1>4, <2>2, <2>3, <2>4
<1>. HIDE DEF h, g
<1>6. /\ 1 \in 1..(Len(runq) + 1) /\ \A e \in Entry(prog) : e.t \in Nat
      /\ \A k \in Some : h[k] = g[k] + Count(runq, 1, k)
  BY <1>4, <1>5, LenProperties DEF Entry
<1>7. Exact(pool', g)
  <2>1. ASSUME NEW f \in 1..(Len(runq) + 1), \A k \in Some : h[k] = g[k] + Count(runq, f, k)
        PROVE  Exact(DecrefFrom(pool, runq, f), g)
    BY <1>4, <1>5, <1>6, <2>1, DecrefAllExact
  <2>. QED  BY <1>1, <1>6, <2>1
<1>. QED  BY <1>1, <1>3, <1>7, NFAPrimed DEF g

LEMMA StartThreadKeeps == ASSUME Asked, NFAInv, StartThread PROVE NFAInv'
<1> DEFINE h == Held(pc, runq, i, nextq, stk, t0)
           g == Held(pc', runq', i', nextq', stk', t0')
           new == NewThread(pool)
           first == << [id |-> prog.start, t |-> 0] >>
<1>1. /\ pc = "start" /\ pc' = "pop" /\ ~InAdd(pc) /\ InAdd(pc')
      /\ (\E taken : pool' = AllocThread(pool, taken)) /\ stk' = first /\ t0' = new /\ t' = new
      /\ UNCHANGED <<query, id, runq, nextq, i>>
  BY DEF StartThread, InAdd
<1>2. PICK taken : pool' = AllocThread(pool, taken)
  BY <1>1
<1>3. i = 0 /\ i \in Nat /\ runq \in Seq(Entry(prog)) /\ nextq \in Seq(Entry(prog))
  BY <1>1, Resting DEF Threads
<1>4. /\ h \in [Some -> Nat] /\ Exact(pool, h)
      /\ \A k \in Some : /\ h[k] = Count(runq, 1, k) + Count(nextq, 1, k)
                         /\ Count(runq, 1, k) \in Nat /\ Count(nextq, 1, k) \in Nat
  BY <1>1, <1>3, Resting
<1>5. /\ first \in Seq(Entry(prog)) /\ Len(first) = 1 /\ \A k \in Some : Count(first, 1, k) = 0
      /\ Restores(first, new, new)
  <2>1. prog.start \in InstIds(prog)
    BY DEF Asked, WellFormedProg
  <2>2. ASSUME NEW k0 \in InstIds(prog), NEW a
        PROVE  LET r == << [id |-> k0, t |-> 0] >> IN
               /\ r \in Seq(Entry(prog)) /\ Len(r) = 1 /\ Restores(r, a, a)
               /\ \A k \in Some : Count(r, 1, k) = 0
    BY FirstStack
  <2>. HIDE DEF new
  <2>. QED  BY <2>1, <2>2
<1>6. \A k \in Some : g[k] = (Count(runq, 1, k) + Count(nextq, 1, k)) + (0 + One(new = k))
  <2>1. FirstLeft(pc', i') = 1
    BY <1>1, <1>3 DEF FirstLeft
  <2>2. \A k \in Some : g[k] = Queued(runq', 1, nextq')[k] + (Count(stk', 1, k) + One(t0' = k))
    BY <1>1, <2>1 DEF Held
  <2>. HIDE DEF new, first
  <2>. QED  BY <1>1, <1>5, <2>2 DEF Queued
<1>. HIDE DEF h, g, first
<1>7. \A k \in Some : g[k] = h[k] + One(k = new)
  <2>1. \A k \in Some : One(k = new) = One(new = k) /\ One(new = k) \in Nat
    BY DEF One
  <2>2. \A x \in Nat : 0 + x = x
    OBVIOUS
  <2>. HIDE DEF new
  <2>. QED  BY <1>4, <1>6, <2>1, <2>2
<1>8. new \in Some /\ Exact(pool', g)
  BY <1>2, <1>4, <1>7, AllocExact
<1>. HIDE DEF new
<1>9. 1 <= Room(prog, IF i' = 0 THEN runq' ELSE nextq')
  BY RoomAtLeast DEF Asked, WellFormedProg
<1>10. Threads(prog, pc', id', runq', nextq', i', stk', t0', t')
  BY <1>1, <1>3, <1>5, <1>8, <1>9 DEF Threads, InAdd
<1>. QED  BY <1>1, <1>8, <1>10, NFAPrimed DEF g

LEMMA NFAStepKeeps == ASSUME Asked, NFAInv, NFANext PROVE NFAInv'
BY NFARejectKeeps, NFASetupKeeps, StartThreadKeeps, NoThreadKeeps, CheckKeeps, ShortCutKeeps,
   FinishKeeps, StepSkipKeeps, StepByteRangeKeeps, StepAltMatchKeeps, StepMatchKeeps, StepEndKeeps,
   AddPopKeeps, AddSeenKeeps, AddFailKeeps, AddAltMatchKeeps, AddNopKeeps, AddCaptureKeeps,
   AddByteRangeKeeps, AddMatchKeeps, AddEmptyWidthKeeps, AddReturnKeeps DEF NFANext

(***************************************************************************)
(* All executions.                                                         *)
(***************************************************************************)
Unused == /\ runq = <<>> /\ nextq = <<>> /\ i = 0 /\ stk = <<>>
          /\ pool = [ref |-> <<>>, capture |-> <<>>, free |-> <<>>]
ThreadInv ==
  /\ \E ask \in Queries : engine = ask.engine /\ query = ask.query
  /\ engine = "NFA" => NFAInv
  /\ engine # "NFA" => Unused

LEMMA UnusedIsSafe == ASSUME Asked, Unused, pc = "start" PROVE NFAInv
<1> DEFINE h == Held(pc, runq, i, nextq, stk, t0)
<1>1. /\ <<>> \in Seq(Entry(prog)) /\ ~InAdd(pc) /\ 0 \in Nat /\ 1 \in Nat \ {0}
      /\ \A k \in Some : Count(<<>>, 1, k) = 0
  BY NoneIn DEF InAdd
<1>2. Threads(prog, pc, id, runq, nextq, i, stk, t0, t)
  BY <1>1 DEF Unused, Threads, InAdd
<1>3. \A k \in Some : h[k] = 0
  <2>1. \A k \in Some : h[k] = Count(<<>>, 1, k) + Count(<<>>, 1, k)
    <3>1. ASSUME NEW rq \in Seq(Entry(prog)), NEW j \in Nat, j = 0, NEW nq \in Seq(Entry(prog))
          PROVE  \A k \in Some : Held(pc, rq, j, nq, stk, t0)[k] = Count(rq, 1, k) + Count(nq, 1, k)
      BY <1>1, <3>1, InQueues
    <3>. QED  BY <1>1, <3>1 DEF Unused
  <2>. QED  BY <1>1, <2>1
<1>. HIDE DEF h
<1>4. Exact(pool, h)
  <2>1. /\ DOMAIN pool = {"ref", "capture", "free"} /\ pool.ref = <<>> /\ pool.free = <<>>
        /\ <<>> \in Seq(Nat) /\ <<>> \in Seq(Some) /\ Len(<<>>) = 0
    BY EmptySeq DEF Unused
  <2>2. IsPool(pool)
    BY <2>1 DEF IsPool
  <2>3. \A k : k \notin 1..0
    OBVIOUS
  <2>4. \A k \in Some : h[k] = IF k <= Len(pool.ref) THEN pool.ref[k] ELSE 0
    BY <1>3, <2>1 DEF Some
  <2>. QED  BY <2>1, <2>2, <2>3, <2>4 DEF Exact
<1>. QED  BY <1>2, <1>4 DEF NFAInv, h

LEMMA ThreadInit == Init => ThreadInv
<1>. SUFFICES ASSUME Init PROVE ThreadInv
  OBVIOUS
<1>1. \E ask \in Queries : engine = ask.engine /\ query = ask.query
  BY DEF Init
<1>2. Unused /\ pc = "start"
  BY DEF Init, NFAInit, Unused
<1>. QED  BY <1>1, <1>2, AllAsked, UnusedIsSafe DEF ThreadInv

LEMMA OthersLeaveThreads ==
  /\ NFAStep => engine = "NFA"
  /\ BitStateStep \/ OnePassStep \/ DFAStep => engine # "NFA" /\ UNCHANGED <<runq, nextq, i, stk, pool>>
BY DEF BitStateStep, BitStateNext, NFAStep, NFANext, OnePassStep, OnePassNext, OnePassReject,
       OnePassStart, OnePassByte, OnePassEnd, DFAStep, DFANext, DFAReject, DFAStart, DFAByte, nfaVars

LEMMA ThreadNext == ThreadInv /\ [Next]_vars => ThreadInv'
<1>. SUFFICES ASSUME ThreadInv, [Next]_vars PROVE ThreadInv'
  OBVIOUS
<1>1. CASE UNCHANGED vars
  <2>1. UNCHANGED <<engine, query, pc, id, runq, nextq, i, stk, t0, t, pool>>
    BY <1>1 DEF vars, engineVars, nfaVars
  <2>2. engine = "NFA" => NFAInv'
    BY <2>1, NFAPrimed DEF ThreadInv, NFAInv
  <2>3. engine # "NFA" => Unused'
    BY <2>1 DEF ThreadInv, Unused
  <2>. QED  BY <2>1, <2>2, <2>3 DEF ThreadInv
<1>2. CASE NFAStep
  <2>1. Asked /\ engine = "NFA" /\ engine' = engine /\ query' = query
    BY <1>2, AllAsked, SameQuery, OthersLeaveThreads DEF ThreadInv, Next
  <2>2. NFAInv'
    BY <1>2, <2>1, NFAStepKeeps DEF ThreadInv, NFAStep
  <2>. QED  BY <2>1, <2>2 DEF ThreadInv
<1>3. CASE BitStateStep \/ OnePassStep \/ DFAStep
  <2>1. engine # "NFA" /\ engine' = engine /\ query' = query /\ UNCHANGED <<runq, nextq, i, stk, pool>>
    BY <1>3, SameQuery, OthersLeaveThreads DEF Next
  <2>2. Unused'
    BY <2>1 DEF ThreadInv, Unused
  <2>. QED  BY <2>1, <2>2 DEF ThreadInv
<1>. QED  BY <1>1, <1>2, <1>3 DEF Next

LEMMA ThreadInvariant == Spec => []ThreadInv
BY ThreadInit, ThreadNext, PTL DEF Spec

\* RefsExact: the count of each thread of re2/nfa.cc is the number of places that
\* hold it, and those that none holds are on the free list, each once.
THEOREM ThreadsCounted == Spec => []RefsExact
<1>1. ThreadInv => RefsExact
  <2>. SUFFICES ASSUME ThreadInv PROVE RefsExact
    OBVIOUS
  <2>1. CASE engine # "NFA"
    <3>1. pool.ref = <<>> /\ pool.free = <<>> /\ DOMAIN pool.ref = {} /\ DOMAIN pool.free = {}
      BY <2>1 DEF ThreadInv, Unused
    <3>. QED  BY <3>1 DEF RefsExact
  <2>2. CASE engine = "NFA"
    <3> DEFINE h == Held(pc, runq, i, nextq, stk, t0)
    <3>1. NFAInv
      BY <2>2 DEF ThreadInv
    <3>2. Exact(pool, h) /\ Threads(prog, pc, id, runq, nextq, i, stk, t0, t)
      BY <3>1 DEF NFAInv
    <3>3. /\ pool.ref \in Seq(Nat) /\ pool.free \in Seq(Some)
          /\ DOMAIN pool.ref = 1..Len(pool.ref) /\ DOMAIN pool.free = 1..Len(pool.free)
          /\ Len(pool.ref) \in Nat /\ Len(pool.free) \in Nat
      BY <3>2, LenProperties DEF Exact, IsPool
    <3>4. ASSUME NEW k \in DOMAIN pool.ref
          PROVE  pool.ref[k] = Owners(k)
      <4>1. k \in Some /\ k <= Len(pool.ref)
        BY <3>3 DEF Some
      <4>2. pool.ref[k] = h[k]
        BY <3>2, <4>1 DEF Exact
      <4>3. (i = 0 \/ i # 0) /\ Adding <=> InAdd(pc)
        BY <2>2 DEF Adding, InAdd
      <4>4. /\ runq \in Seq(Entry(prog)) /\ nextq \in Seq(Entry(prog)) /\ i \in Nat
            /\ stk \in Seq(Entry(prog))
        BY <3>2 DEF Threads
      <4>5. h[k] = (Count(runq, FirstLeft(pc, i), k) + Count(nextq, 1, k))
                     + (IF InAdd(pc) THEN Count(stk, 1, k) + One(t0 = k) ELSE 0)
        BY <4>1 DEF Held, Queued
      <4>6. Owners(k) = Count(runq, FirstLeft(pc, i), k) + Count(nextq, 1, k)
                          + (IF InAdd(pc) THEN Count(stk, 1, k) + One(t0 = k) ELSE 0)
        BY <4>3 DEF Owners, Count, Places, FirstLeft, One
      <4>. QED  BY <4>2, <4>5, <4>6
    <3>5. {pool.free[j] : j \in DOMAIN pool.free} = {k \in DOMAIN pool.ref : pool.ref[k] = 0}
      <4>1. ASSUME NEW j \in 1..Len(pool.free)
            PROVE  pool.free[j] \in 1..Len(pool.ref) /\ pool.ref[pool.free[j]] = 0
        <5>1. pool.free[j] \in Some
          BY <3>3, ElementOfSeq
        <5>2. pool.free[j] <= Len(pool.ref) /\ pool.ref[pool.free[j]] = 0
          BY <3>2 DEF Exact
        <5>. QED  BY <3>3, <5>1, <5>2 DEF Some
      <4>2. \A k \in 1..Len(pool.ref) :
              pool.ref[k] = 0 => \E j \in 1..Len(pool.free) : pool.free[j] = k
        BY <3>2 DEF Exact
      <4>3. ASSUME NEW k
            PROVE  k \in {pool.free[j] : j \in DOMAIN pool.free}
                     <=> k \in {m \in DOMAIN pool.ref : pool.ref[m] = 0}
        BY SMTT(30), <3>3, <4>1, <4>2
      <4>. QED  BY <4>3
    <3>6. \A j, k \in DOMAIN pool.free : j # k => pool.free[j] # pool.free[k]
      BY <3>2, <3>3 DEF Exact
    <3>. QED  BY <3>4, <3>5, <3>6 DEF RefsExact
  <2>. QED  BY <2>1, <2>2
<1>. QED  BY <1>1, ThreadInvariant, PTL

\* StackBounded: of RoomForAll, the part that is about this engine.  AddToThreadq stays
\* in the stack that the constructor of NFA allocates.
THEOREM StackIsEnough == Spec => []StackBounded
<1>1. ThreadInv => StackBounded
  <2>. SUFFICES ASSUME ThreadInv PROVE StackBounded
    OBVIOUS
  <2>1. Asked /\ IsFiniteSet(InstIds(prog))
    <3>1. Asked
      BY AllAsked DEF ThreadInv
    <3>2. Len(prog.inst) \in Nat
      BY <3>1 DEF Asked, WellFormedProg
    <3>. QED  BY <3>1, <3>2, FS_Interval DEF InstIds
  <2> DEFINE All(o) == {k \in InstIds(prog) : Inst(prog, k).op = o}
  <2>2. ASSUME NEW o, NEW q
        PROVE  /\ Cardinality(In(prog, q, o)) \in Nat /\ InstCount(o) \in Nat
               /\ Cardinality(In(prog, q, o)) <= InstCount(o)
    <3>1. InstCount(o) = Cardinality(All(o))
      BY DEF InstCount
    <3>2. IsFiniteSet(All(o)) /\ In(prog, q, o) \subseteq All(o)
      BY <2>1, FS_Subset DEF In
    <3>. HIDE DEF All
    <3>. QED  BY <3>1, <3>2, FS_Subset, FS_CardinalityType
  <2> DEFINE q == IF i = 0 THEN runq ELSE nextq
  <2>3. /\ NStack \in Nat /\ Room(prog, q) \in Nat /\ Room(prog, q) <= NStack
    <3> DEFINE c == Cardinality(In(prog, q, "Capture"))
               w == Cardinality(In(prog, q, "EmptyWidth"))
               n == Cardinality(In(prog, q, "Nop"))
               c1 == InstCount("Capture")
               w1 == InstCount("EmptyWidth")
               n1 == InstCount("Nop")
    <3>1. /\ c \in Nat /\ w \in Nat /\ n \in Nat /\ c1 \in Nat /\ w1 \in Nat /\ n1 \in Nat
          /\ c <= c1 /\ w <= w1 /\ n <= n1
      BY <2>2
    <3>2. Room(prog, q) = 1 + 2 * c + w + n /\ NStack = 2 * c1 + w1 + n1 + 1
      BY DEF Room, NStack
    <3>. HIDE DEF c, w, n, c1, w1, n1
    <3>. QED  BY <3>1, <3>2
  <2>4. stk = <<>> \/ (stk \in Seq(Entry(prog)) /\ Len(stk) <= Room(prog, q))
    BY DEF ThreadInv, Unused, NFAInv, Threads
  <2>5. Len(stk) \in Nat /\ Len(stk) <= Room(prog, q)
    <3>1. CASE stk = <<>>
      BY <2>3, <3>1
    <3>2. CASE stk \in Seq(Entry(prog)) /\ Len(stk) <= Room(prog, q)
      BY <3>2, LenProperties
    <3>. QED  BY <2>4, <3>1, <3>2
  <2>. HIDE DEF q
  <2>6. Len(stk) <= NStack
    BY <2>3, <2>5
  <2>. QED  BY <2>6 DEF StackBounded
<1>. QED  BY <1>1, ThreadInvariant, PTL
=============================================================================
