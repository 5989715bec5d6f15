----------------------------- MODULE RegexpRefs -----------------------------
(***************************************************************************)
(* Reference counts of re2::Regexp (re2/regexp.cc): a 16-bit count in the  *)
(* node, continued in a global map when it does not fit, and destruction   *)
(* without recursion, by way of a stack threaded through the dying nodes.  *)
(*                                                                         *)
(* A token is a place that owns one reference: a pointer variable of the   *)
(* parser, the simplifier or RE2 (a handle), or a slot of the array of     *)
(* subexpressions of a node.  Nodes under construction or destruction      *)
(* belong to one thread; the map is shared, and each access to it holds    *)
(* its mutex.                                                              *)
(***************************************************************************)
EXTENDS Integers, FiniteSets

CONSTANTS
  Node,            \* addresses of nodes; an address is used again after delete
  Handle,
  NULL,
  MaxSub,          \* bound: subexpressions of a node
  MaxRef           \* kMaxRef, scaled down

Token == Handle \cup (Node \X (0..(MaxSub - 1)))

ASSUME RefSorts ==
  /\ IsFiniteSet(Node) /\ IsFiniteSet(Handle)
  /\ NULL \notin Node
  /\ Handle \cap (Node \X (0..(MaxSub - 1))) = {}
  /\ MaxSub \in Nat /\ MaxRef \in Nat /\ MaxRef > 1

VARIABLES
  alive,           \* nodes that have been allocated and not deleted
  ref, nsub, down, \* ref_, nsub_ and down_ of each node
  refMap,          \* ref_map; 0 for a node that has no entry
  own,             \* the node each token refers to, or NULL
  stack, re, i     \* locals of Destroy; stack and re are NULL when it is not running

vars == <<alive, ref, nsub, down, refMap, own, stack, re, i>>

Idle == stack = NULL /\ re = NULL

Init ==
  /\ alive = {}
  /\ ref = [x \in Node |-> 0] /\ nsub = [x \in Node |-> 0]
  /\ down = [x \in Node |-> NULL] /\ refMap = [x \in Node |-> 0]
  /\ own = [t \in Token |-> NULL]
  /\ stack = NULL /\ re = NULL /\ i = 0

(***************************************************************************)
(* What the parser and the simplifier do.                                  *)
(***************************************************************************)
\* new Regexp
Allocate(x, n) ==
  /\ Idle /\ x \notin alive
  /\ alive' = alive \cup {x}
  /\ ref' = [ref EXCEPT ![x] = 1]
  /\ nsub' = [nsub EXCEPT ![x] = n]
  /\ down' = [down EXCEPT ![x] = NULL]
  /\ UNCHANGED <<refMap, stack, re, i>>

\* A literal, a character class, an empty match.
NewLeaf(h) ==
  /\ own[h] = NULL
  /\ \E x \in Node : Allocate(x, 0) /\ own' = [own EXCEPT ![h] = x]

\* Concat, Alternate, Star, Plus, Quest, Repeat and Capture take over the
\* references to their operands hs.  The result replaces the first of them.
NewParent ==
  \E x \in Node, n \in 1..MaxSub : \E hs \in [0..(n - 1) -> Handle] :
    /\ \A j, k \in 0..(n - 1) : hs[j] = hs[k] => j = k
    /\ \A k \in 0..(n - 1) : own[hs[k]] # NULL
    /\ Allocate(x, n)
    /\ own' = [t \in Token |->
                 IF t = hs[0] THEN x
                 ELSE IF \E k \in 0..(n - 1) : t = hs[k] THEN NULL
                 ELSE IF \E k \in 0..(n - 1) : t = <<x, k>> THEN own[hs[t[2]]]
                 ELSE own[t]]

\* Faulty variant: only a full count overflows.
AddRefLate(x) ==
  IF ref[x] >= MaxRef
  THEN refMap' = [refMap EXCEPT ![x] = @ + 1] /\ UNCHANGED ref
  ELSE ref' = [ref EXCEPT ![x] = @ + 1] /\ UNCHANGED refMap

AddRef(x) ==
  IF ref[x] < MaxRef - 1 THEN ref' = [ref EXCEPT ![x] = @ + 1] /\ UNCHANGED refMap
  ELSE IF ref[x] = MaxRef THEN refMap' = [refMap EXCEPT ![x] = @ + 1] /\ UNCHANGED ref
  ELSE ref' = [ref EXCEPT ![x] = MaxRef] /\ refMap' = [refMap EXCEPT ![x] = MaxRef]

\* h = own[t]->Incref(), where t is another handle or a slot of a held node.
Incref(h, t) ==
  /\ Idle /\ own[h] = NULL /\ own[t] # NULL
  /\ AddRef(own[t])
  /\ own' = [own EXCEPT ![h] = own[t]]
  /\ UNCHANGED <<alive, nsub, down, stack, re, i>>

\* A subexpression is taken out of its node before the node is released.
TakeSub(h, t) ==
  /\ Idle /\ own[h] = NULL /\ own[t] # NULL
  /\ own' = [own EXCEPT ![h] = own[t], ![t] = NULL]
  /\ UNCHANGED <<alive, ref, nsub, down, refMap, stack, re, i>>

(***************************************************************************)
(* Decref and Destroy.                                                     *)
(***************************************************************************)
\* Faulty variant: the node keeps saying that the map has its count.
DropRefStaysFull(x) ==
  IF ref[x] = MaxRef
  THEN UNCHANGED ref /\ refMap' = [refMap EXCEPT ![x] = IF @ - 1 < MaxRef THEN 0 ELSE @ - 1]
  ELSE ref' = [ref EXCEPT ![x] = @ - 1] /\ UNCHANGED refMap

\* Faulty variant: the count in the map is ignored.
DropRefInNode(x) == ref' = [ref EXCEPT ![x] = @ - 1] /\ UNCHANGED refMap

DropRef(x) ==
  IF ref[x] # MaxRef THEN ref' = [ref EXCEPT ![x] = @ - 1] /\ UNCHANGED refMap
  ELSE IF refMap[x] - 1 < MaxRef
  THEN ref' = [ref EXCEPT ![x] = refMap[x] - 1] /\ refMap' = [refMap EXCEPT ![x] = 0]
  ELSE refMap' = [refMap EXCEPT ![x] = @ - 1] /\ UNCHANGED ref

\* Faulty variant: the node under x on the stack is forgotten.
DestroyIfUnusedAlone(x) ==
  \/ ref'[x] # 0 /\ UNCHANGED <<alive, down, stack>>
  \/ ref'[x] = 0 /\ nsub[x] = 0 /\ alive' = alive \ {x} /\ UNCHANGED <<down, stack>>
  \/ /\ ref'[x] = 0 /\ nsub[x] > 0
     /\ down' = [down EXCEPT ![x] = NULL] /\ stack' = x
     /\ UNCHANGED alive

\* A node with subexpressions goes onto the stack.
DestroyIfUnused(x) ==
  \/ ref'[x] # 0 /\ UNCHANGED <<alive, down, stack>>
  \/ ref'[x] = 0 /\ nsub[x] = 0 /\ alive' = alive \ {x} /\ UNCHANGED <<down, stack>>
  \/ /\ ref'[x] = 0 /\ nsub[x] > 0
     /\ down' = [down EXCEPT ![x] = stack] /\ stack' = x
     /\ UNCHANGED alive

Decref(h) ==
  /\ Idle /\ own[h] # NULL
  /\ DropRef(own[h]) /\ DestroyIfUnused(own[h])
  /\ own' = [own EXCEPT ![h] = NULL]
  /\ UNCHANGED <<nsub, re, i>>

\* Faulty variant: the node stays on the stack.
DestroyPopStays ==
  /\ re = NULL /\ stack # NULL
  /\ re' = stack /\ i' = 0
  /\ UNCHANGED <<alive, ref, nsub, down, refMap, own, stack>>

DestroyPop ==
  /\ re = NULL /\ stack # NULL
  /\ re' = stack /\ stack' = down[stack] /\ i' = 0
  /\ UNCHANGED <<alive, ref, nsub, down, refMap, own>>

\* The slot is not read again.
DestroySub ==
  /\ re # NULL /\ i < nsub[re]
  /\ LET sub == own[<<re, i>>] IN
       IF sub = NULL THEN UNCHANGED <<ref, refMap, alive, down, stack>>
                     ELSE DropRef(sub) /\ DestroyIfUnused(sub)
  /\ own' = [own EXCEPT ![<<re, i>>] = NULL]
  /\ i' = i + 1
  /\ UNCHANGED <<nsub, re>>

DestroyDelete ==
  /\ re # NULL /\ i >= nsub[re]
  /\ nsub' = [nsub EXCEPT ![re] = 0]
  /\ alive' = alive \ {re} /\ re' = NULL /\ i' = 0
  /\ UNCHANGED <<ref, down, refMap, own, stack>>

Destroy == DestroyPop \/ DestroySub \/ DestroyDelete

Next ==
  \/ NewParent \/ Destroy
  \/ \E h \in Handle :
       \/ NewLeaf(h) \/ Decref(h)
       \/ \E t \in Token \ {h} : Incref(h, t)
       \/ \E t \in Token \ Handle : TakeSub(h, t)

Spec == Init /\ [][Next]_vars
FairSpec == Spec /\ WF_vars(Destroy)

(***************************************************************************)
(* Properties.                                                             *)
(***************************************************************************)
Owners(x) == {t \in Token : own[t] = x}

\* Ref()
Ref(x) == IF ref[x] < MaxRef THEN ref[x] ELSE refMap[x]

TypeOK ==
  /\ alive \subseteq Node
  /\ ref \in [Node -> 0..MaxRef] /\ nsub \in [Node -> 0..MaxSub]
  /\ down \in [Node -> Node \cup {NULL}] /\ refMap \in [Node -> Nat]
  /\ own \in [Token -> Node \cup {NULL}]
  /\ stack \in Node \cup {NULL} /\ re \in Node \cup {NULL} /\ i \in 0..MaxSub

\* Ref() is the number of tokens that refer to the node, also when the count has
\* moved into the map and back.
CountsExact == \A x \in alive : Ref(x) = Cardinality(Owners(x))

\* Only nodes with a full count have an entry in the map, so that a new node at
\* the address of an old one starts without.
MapExact ==
  \A x \in Node :
    IF x \in alive /\ ref[x] = MaxRef THEN refMap[x] >= MaxRef ELSE refMap[x] = 0

\* Nothing refers to a deleted node, and deleted nodes have no slots.
NoDangling ==
  /\ \A t \in Token : own[t] # NULL => own[t] \in alive
  /\ \A x \in Node, k \in 0..(MaxSub - 1) :
       own[<<x, k>>] # NULL => x \in alive /\ k < nsub[x]

\* The stack of Destroy holds live nodes that nobody refers to any more, each of
\* them once ("Bad reference count", regexp.cc:159).
Dying == {x \in alive : ref[x] = 0}
Waiting == Dying \ {re}
StackOK ==
  /\ re # NULL => re \in Dying
  /\ stack # NULL => stack \in Waiting
  /\ \A x \in Waiting :
       /\ down[x] # NULL => down[x] \in Waiting /\ down[x] # stack
       /\ \A y \in Waiting : down[x] = down[y] /\ down[x] # NULL => x = y

Released == re # NULL => i <= nsub[re] /\ \A k \in 0..(i - 1) : own[<<re, k>>] = NULL

\* The inductive invariant of the counts.
RefInv == TypeOK /\ CountsExact /\ MapExact /\ NoDangling /\ StackOK /\ Released

\* No regexp contains itself: among any live nodes there is one that is not a
\* subexpression of another of them.
Acyclic ==
  \A S \in SUBSET alive :
    S # {} => \E x \in S : \A y \in S, k \in 0..(MaxSub - 1) : own[<<y, k>>] # x

\* Following down_ from the top of the stack, Destroy finds every dying node.
StackWhole ==
  \A S \in SUBSET Waiting :
    /\ stack # NULL => stack \in S
    /\ \A x \in S : down[x] # NULL => down[x] \in S
    => S = Waiting

\* The inductive invariant of the counts and of what Destroy has yet to delete.
HeapInv == RefInv /\ Acyclic /\ StackWhole

\* While no destruction is running, the nodes that exist are those that can be
\* reached from a handle: everything else has been deleted, without recursion.
Subs(S) == {own[t] : t \in S \X (0..(MaxSub - 1))} \ {NULL}
Closed(S) == /\ \A h \in Handle : own[h] # NULL => own[h] \in S
             /\ Subs(S) \subseteq S
Reached == {x \in Node : \A S \in SUBSET Node : Closed(S) => x \in S}
NothingLeaks == Idle => alive = Reached

\* A destruction ends and so do the nodes it has to delete.
DestroyEnds == []<>Idle
=============================================================================
