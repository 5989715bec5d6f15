---------------------------- MODULE InsertionMap ----------------------------
(***************************************************************************)
(* What re2::SparseArray promises (re2/sparse_array.h): maps from indices  *)
(* below a maximum to values, that are iterated in the order in which the  *)
(* indices were first inserted.  An entry is a pair, and a map a function  *)
(* from 0 .. n-1 to entries with different indices.                        *)
(***************************************************************************)
EXTENDS Integers

CONSTANTS Obj, Value, MaxMax

VARIABLES
  entries, max,
  call             \* the last call and what it returned

mvars == <<entries, max, call>>

Entry == [index : 0..(MaxMax - 1), value : Value]
Empty == [j \in {} |-> 0]

MInit ==
  /\ entries = [o \in Obj |-> Empty] /\ max = [o \in Obj |-> 0]
  /\ call = <<>>

Index == 0..(MaxMax - 1)
Holds(o, i) == \E j \in DOMAIN entries[o] : entries[o][j].index = i
Become(o, e) == entries' = [entries EXCEPT ![o] = e]
Unchanged == UNCHANGED <<entries, max>>

Construct(o) ==
  \E m \in 0..MaxMax :
    /\ Become(o, Empty) /\ max' = [max EXCEPT ![o] = m]
    /\ call' = <<"construct", o, m>>

Has(o) ==
  \E i \in Index :
    /\ i < max[o] /\ Unchanged
    /\ call' = <<"has", o, i, Holds(o, i)>>

Get(o) ==
  \E j \in DOMAIN entries[o] :
    /\ Unchanged
    /\ call' = <<"get", o, entries[o][j].index, entries[o][j].value>>

\* A new entry goes last.
Insert(o) ==
  \E i \in Index, v \in Value, n \in 0..MaxMax :
    /\ i < max[o] /\ ~Holds(o, i)
    /\ DOMAIN entries[o] = 0..(n - 1)
    /\ Become(o, [j \in 0..n |-> IF j = n THEN [index |-> i, value |-> v]
                                          ELSE entries[o][j]])
    /\ call' = <<"set", o, i, v>> /\ UNCHANGED max

\* The value of an old entry is replaced where it is.
Update(o) ==
  \E j \in DOMAIN entries[o], v \in Value :
    /\ Become(o, [entries[o] EXCEPT ![j].value = v])
    /\ call' = <<"set", o, entries[o][j].index, v>> /\ UNCHANGED max

\* An index that is not below the maximum is ignored.
Ignore(o) ==
  \E i \in -1..MaxMax, v \in Value :
    /\ i < 0 \/ i >= max[o]
    /\ call' = <<"set", o, i, v>> /\ Unchanged

Clear(o) == Become(o, Empty) /\ call' = <<"clear", o>> /\ UNCHANGED max

\* The maximum never shrinks, but the last entries may go.
Resize(o) ==
  \E m \in 0..MaxMax :
    /\ max' = [max EXCEPT ![o] = IF m > @ THEN m ELSE @]
    /\ Become(o, [j \in {k \in DOMAIN entries[o] : k < m} |-> entries[o][j]])
    /\ call' = <<"resize", o, m>>

Copy(o, src) ==
  /\ Become(o, entries[src]) /\ max' = [max EXCEPT ![o] = max[src]]
  /\ call' = <<"copy", o, src>>
Move(o, src) ==
  /\ entries' = [entries EXCEPT ![o] = entries[src], ![src] = Empty]
  /\ max' = [max EXCEPT ![o] = max[src], ![src] = 0]
  /\ call' = <<"move", o, src>>

\* The same entries in the order of their indices.
Sort(o) ==
  \E e \in [DOMAIN entries[o] -> Entry] :
    /\ {e[j] : j \in DOMAIN e} = {entries[o][j] : j \in DOMAIN entries[o]}
    /\ \A j, k \in DOMAIN e : j < k => e[j].index < e[k].index
    /\ Become(o, e) /\ call' = <<"sort", o>> /\ UNCHANGED max

MNext ==
  \E o \in Obj :
    \/ Construct(o) \/ Has(o) \/ Get(o) \/ Insert(o) \/ Update(o) \/ Ignore(o)
    \/ Clear(o) \/ Resize(o) \/ Sort(o)
    \/ \E src \in Obj \ {o} : Copy(o, src) \/ Move(o, src)

MSpec == MInit /\ [][MNext]_mvars
=============================================================================
