----------------------------- MODULE SparseArray -----------------------------
(***************************************************************************)
(* re2::SparseArray (re2/sparse_array.h) in arrays that are never          *)
(* initialised (re2/pod_array.h).  dense_ holds size_ pairs of an index    *)
(* and a value; sparse_[i] says where the pair of i is, if i is present,   *)
(* and is anything at all if it is not.  All work queues of RE2 are made   *)
(* of these arrays and of SparseSet, the same without the values.          *)
(*                                                                         *)
(* Fresh memory holds any numbers of Garbage, negative ones as well.       *)
(***************************************************************************)
EXTENDS Integers, FiniteSets, TLC

CONSTANTS
  Obj,             \* the arrays a program uses
  Value,
  Junk,            \* a value_ nobody has written
  MaxMax,          \* bound: the largest max_size asked for
  Garbage,         \* numbers found in fresh memory
  Half             \* 2^31, scaled down

ASSUME SparseSorts ==
  /\ MaxMax \in Nat /\ Half \in Nat /\ MaxMax < Half
  /\ Garbage \subseteq -Half..(Half - 1) /\ Garbage # {}
  /\ Junk \notin Value

VARIABLES
  array,           \* the objects
  sorted,          \* history: reordered by std::sort since it was last cleared
  call             \* history: the last call and what it returned

vars == <<array, sorted, call>>

Cells(m) == 0..(m - 1)
None == [j \in {} |-> 0]

\* data: dense_.data() # NULL; len: dense_.size(), which a PODArray keeps when
\* its memory is moved away.
Default ==
  [data |-> FALSE, len |-> 0, size |-> 0,
   sparse |-> None, index |-> None, value |-> None]

\* A new array of m cells, of which the first are those of old.
Fresh(m, old) ==
  {[j \in Cells(m) |-> IF j \in DOMAIN old THEN old[j] ELSE raw[j]] :
     raw \in [Cells(m) -> Garbage]}

\* Faulty variant: the length of memory that was moved away.
MaxSizeOfLen(a) == a.len
MaxSize(a) == IF a.data THEN a.len ELSE 0

\* The uint32_t an int is cast to.
Int32 == -Half..(Half - 1)
Unsigned(i) == IF i < 0 THEN i + 2 * Half ELSE i

\* Faulty variant: what sparse_[i] points at is not checked.
HasIndexHalf(a, i) ==
  Unsigned(i) < Unsigned(MaxSize(a)) /\ Unsigned(a.sparse[i]) < Unsigned(a.size)
HasIndex(a, i) ==
  /\ Unsigned(i) < Unsigned(MaxSize(a))
  /\ Unsigned(a.sparse[i]) < Unsigned(a.size)
  /\ a.index[a.sparse[i]] = i

\* Faulty variant: the way back is not recorded.
CreateIndexOneWay(a, i) ==
  [a EXCEPT !.index = [@ EXCEPT ![a.size] = i], !.size = @ + 1]

CreateIndex(a, i) ==
  [a EXCEPT !.sparse = [@ EXCEPT ![i] = a.size],
            !.index = [@ EXCEPT ![a.size] = i],
            !.size = @ + 1]

\* Faulty variant: the value goes to the last entry.
SetLast(a, i, v) == [a EXCEPT !.value = [@ EXCEPT ![a.size - 1] = v]]
SetExistingInternal(a, i, v) ==
  [a EXCEPT !.value = [@ EXCEPT ![a.sparse[i]] = v]]

\* An illegal index is ignored (where assertions are compiled out).
SetInternal(a, allowExisting, i, v) ==
  IF Unsigned(i) >= Unsigned(MaxSize(a)) THEN a
  ELSE IF allowExisting /\ HasIndex(a, i) THEN SetExistingInternal(a, i, v)
  ELSE SetExistingInternal(CreateIndex(a, i), i, v)

(***************************************************************************)
(* The operations.  set_new and set_existing are for callers who know      *)
(* whether the index is present.  Nothing is looked up in a sorted array:  *)
(* it may be iterated, cleared, copied, moved and destroyed.               *)
(***************************************************************************)
Init ==
  /\ array = [o \in Obj |-> Default]
  /\ sorted = [o \in Obj |-> FALSE]
  /\ call = <<>>

Become(o, a, s) ==
  /\ array' = [array EXCEPT ![o] = a]
  /\ sorted' = [sorted EXCEPT ![o] = s]

\* Destroy what was there and construct an array of m cells.
Construct(o) ==
  \E m \in 0..MaxMax : \E s, d \in Fresh(m, None) :
    /\ Become(o, [data |-> TRUE, len |-> m, size |-> 0, sparse |-> s, index |-> d,
                  value |-> [j \in Cells(m) |-> Junk]], FALSE)
    /\ call' = <<"construct", o, m>>

Has(o) ==
  /\ ~sorted[o]
  /\ \E i \in Cells(MaxSize(array[o])) : call' = <<"has", o, i, HasIndex(array[o], i)>>
  /\ UNCHANGED <<array, sorted>>

GetExisting(o) ==
  LET a == array[o] IN
  /\ ~sorted[o]
  /\ \E i \in Cells(MaxSize(a)) :
       HasIndex(a, i) /\ call' = <<"get", o, i, a.value[a.sparse[i]]>>
  /\ UNCHANGED <<array, sorted>>

Set(o) ==
  /\ ~sorted[o]
  /\ \E i \in -1..MaxMax, v \in Value :
       /\ Become(o, SetInternal(array[o], TRUE, i, v), FALSE)
       /\ call' = <<"set", o, i, v>>

SetNew(o) ==
  /\ ~sorted[o]
  /\ \E i \in Cells(MaxSize(array[o])), v \in Value :
       /\ ~HasIndex(array[o], i)
       /\ Become(o, SetInternal(array[o], FALSE, i, v), FALSE)
       /\ call' = <<"set", o, i, v>>

SetExisting(o) ==
  /\ ~sorted[o]
  /\ \E i \in Cells(MaxSize(array[o])), v \in Value :
       /\ HasIndex(array[o], i)
       /\ Become(o, SetExistingInternal(array[o], i, v), FALSE)
       /\ call' = <<"set", o, i, v>>

Clear(o) ==
  /\ Become(o, [array[o] EXCEPT !.size = 0], FALSE)
  /\ call' = <<"clear", o>>

Clamp(n, m) == IF n > m THEN m ELSE n

\* Only growing reallocates.  Moved-from arrays have a length but no memory.
Grown(a, m, s, d) ==
  [data |-> TRUE, len |-> m, size |-> Clamp(a.size, m), sparse |-> s, index |-> d,
   value |-> [j \in Cells(m) |-> IF j \in DOMAIN a.value THEN a.value[j] ELSE Junk]]

Resize(o) ==
  LET a == array[o] IN
  \E m \in 0..MaxMax :
    /\ \/ /\ m > MaxSize(a)
          /\ \E s \in Fresh(m, a.sparse), d \in Fresh(m, a.index) :
               Become(o, Grown(a, m, s, d), sorted[o])
       \/ /\ m <= MaxSize(a)
          /\ Become(o, [a EXCEPT !.size = Clamp(a.size, m)], sorted[o])
    /\ call' = <<"resize", o, m>>

\* Copy construction and assignment from another array.
Copy(o, src) ==
  LET a == array[src] IN
  /\ Become(o, [a EXCEPT !.data = TRUE, !.len = MaxSize(a)], sorted[src])
  /\ call' = <<"copy", o, src>>

Emptied(a) == [Default EXCEPT !.len = a.len]

\* Move construction and assignment: the length stays in the source's deleter.
Move(o, src) ==
  /\ array' = [array EXCEPT ![o] = array[src], ![src] = Emptied(array[src])]
  /\ sorted' = [sorted EXCEPT ![o] = sorted[src], ![src] = FALSE]
  /\ call' = <<"move", o, src>>

\* std::sort(begin(), end(), less) moves the pairs and leaves sparse_ alone.
Sorted(a, ix, vs) ==
  [a EXCEPT !.index = [j \in DOMAIN @ |-> IF j < a.size THEN ix[j] ELSE @[j]],
            !.value = [j \in DOMAIN @ |-> IF j < a.size THEN vs[j] ELSE @[j]]]

Sort(o) ==
  LET a == array[o]
      Pair(j) == <<a.index[j], a.value[j]>>
  IN
  \E ix \in [Cells(a.size) -> Cells(MaxSize(a))],
     vs \in [Cells(a.size) -> Value] :
    /\ {<<ix[j], vs[j]>> : j \in Cells(a.size)} = {Pair(j) : j \in Cells(a.size)}
    /\ \A j, k \in Cells(a.size) : j < k => ix[j] < ix[k]
    /\ Become(o, Sorted(a, ix, vs), TRUE)
    /\ call' = <<"sort", o>>

Next ==
  \E o \in Obj :
    \/ Construct(o) \/ Has(o) \/ GetExisting(o) \/ Set(o) \/ SetNew(o) \/ SetExisting(o)
    \/ Clear(o) \/ Resize(o) \/ Sort(o)
    \/ \E src \in Obj \ {o} : Copy(o, src) \/ Move(o, src)

Spec == Init /\ [][Next]_vars

(***************************************************************************)
(* Properties.                                                             *)
(***************************************************************************)
IsArray(a) ==
  /\ a = [data |-> a.data, len |-> a.len, size |-> a.size,
          sparse |-> a.sparse, index |-> a.index, value |-> a.value]
  /\ a.data \in BOOLEAN /\ a.len \in 0..MaxMax /\ a.size \in 0..MaxMax
  /\ a.sparse \in [DOMAIN a.sparse -> Int32]
  /\ a.index \in [DOMAIN a.index -> Int32]
  /\ a.value \in [DOMAIN a.value -> Value \cup {Junk}]

TypeOK ==
  /\ DOMAIN array = Obj /\ DOMAIN sorted = Obj
  /\ \A o \in Obj : IsArray(array[o]) /\ sorted[o] \in BOOLEAN

\* The memory is as long as max_size() says, also after a move: no lookup of a
\* legal index, and no new entry, touches a cell that is not there.
Bounded(a) ==
  /\ DOMAIN a.sparse = Cells(MaxSize(a)) /\ DOMAIN a.index = Cells(MaxSize(a))
  /\ DOMAIN a.value = Cells(MaxSize(a))
  /\ a.size <= MaxSize(a)
InBounds == \A o \in Obj : Bounded(array[o])

\* "An index i has a value in the array if and only if ..." (sparse_array.h:67):
\* the test by way of sparse_ finds exactly the pairs of dense_, whatever the
\* fresh memory holds and whatever earlier lives of the array left there.
Present(a, i) == \E j \in Cells(a.size) : a.index[j] = i
HasIndexExact ==
  \A o \in Obj : ~sorted[o] =>
    \A i \in Cells(MaxSize(array[o])) : HasIndex(array[o], i) <=> Present(array[o], i)

\* assert(size_ < max_size()) in create_index: an index that is not there has
\* room, because the pairs have different legal indices.
RoomForNew ==
  \A o \in Obj : ~sorted[o] =>
    \A i \in Cells(MaxSize(array[o])) :
      ~HasIndex(array[o], i) => array[o].size < MaxSize(array[o])

\* The pairs have legal, different indices and values that somebody has set.
PairsOK(a) ==
  /\ \A j \in Cells(a.size) : a.index[j] \in Cells(MaxSize(a)) /\ a.value[j] \in Value
  /\ \A j, k \in Cells(a.size) : a.index[j] = a.index[k] => j = k

\* Each pair is found by way of sparse_.
Linked(a) == \A j \in Cells(a.size) : a.sparse[a.index[j]] = j

\* The inductive invariant.
SparseInv ==
  /\ TypeOK
  /\ InBounds
  /\ \A o \in Obj : PairsOK(array[o]) /\ (~sorted[o] => Linked(array[o]))

\* An array behaves as a map with insertion order, as its description says.
Entries(a) ==
  [j \in Cells(a.size) |-> [index |-> a.index[j], value |-> a.value[j]]]
M == INSTANCE InsertionMap WITH
       entries <- [o \in Obj |-> Entries(array[o])],
       max <- [o \in Obj |-> MaxSize(array[o])]
RefinesMap == M!MSpec

\* For TLC: it is the same which array is which, and which value.
Interchangeable == Permutations(Obj) \cup Permutations(Value)
=============================================================================
