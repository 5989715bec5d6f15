-------------------------- MODULE RegexpRefsProofs --------------------------
(***************************************************************************)
(* Proofs about RegexpRefs: the count of a node is the number of places    *)
(* that refer to it, and nothing that is referred to is ever deleted.      *)
(***************************************************************************)
EXTENDS RegexpRefs, Functions, FiniteSetTheorems, TLAPS

\* The tokens that refer to x, if o says what tokens refer to.
On(o, x) == {t \in Token : o[t] = x}

With(o, t, v) == [o EXCEPT ![t] = v]

LEMMA TokensFinite == IsFiniteSet(Token) /\ \A o, x : IsFiniteSet(On(o, x))
<1>1. IsFiniteSet(0..(MaxSub - 1))
  BY RefSorts, FS_Interval
<1>2. IsFiniteSet(Token)
  BY <1>1, RefSorts, FS_Product, FS_Union DEF Token
<1>. QED  BY <1>2, FS_Subset DEF On

\* One token more, one token less.
LEMMA Give ==
  ASSUME NEW o \in [Token -> Node \cup {NULL}], NEW t \in Token, o[t] = NULL,
         NEW x \in Node
  PROVE  LET p == With(o, t, x) IN
         /\ p \in [Token -> Node \cup {NULL}]
         /\ Cardinality(On(p, x)) = Cardinality(On(o, x)) + 1
         /\ \A y \in Node \ {x} : On(p, y) = On(o, y)
<1> DEFINE p == With(o, t, x)
<1>1. On(p, x) = On(o, x) \cup {t} /\ t \notin On(o, x)
  BY RefSorts DEF On, With
<1>2. \A y \in Node \ {x} : On(p, y) = On(o, y)
  BY RefSorts DEF On, With
<1>. QED  BY <1>1, <1>2, TokensFinite, FS_AddElement DEF With

LEMMA Take ==
  ASSUME NEW o \in [Token -> Node \cup {NULL}], NEW t \in Token, NEW x \in Node, o[t] = x
  PROVE  LET p == With(o, t, NULL) IN
         /\ p \in [Token -> Node \cup {NULL}]
         /\ Cardinality(On(p, x)) = Cardinality(On(o, x)) - 1
         /\ \A y \in Node \ {x} : On(p, y) = On(o, y)
<1> DEFINE p == With(o, t, NULL)
<1>1. On(p, x) = On(o, x) \ {t} /\ t \in On(o, x)
  BY RefSorts DEF On, With
<1>2. \A y \in Node \ {x} : On(p, y) = On(o, y)
  BY RefSorts DEF On, With
<1>. QED  BY <1>1, <1>2, TokensFinite, FS_RemoveElement DEF With

\* A node has no owner exactly if the number of its owners is 0.
LEMMA NoOwner ==
  \A o, x : /\ Cardinality(On(o, x)) \in Nat
            /\ Cardinality(On(o, x)) = 0 <=> On(o, x) = {}
BY TokensFinite, FS_CardinalityType, FS_EmptySet

\* A node that somebody refers to has a count that is not 0.
LEMMA Owned ==
  ASSUME RefInv, NEW t \in Token, own[t] # NULL
  PROVE  /\ own[t] \in alive /\ own[t] \in Node
         /\ ref[own[t]] # 0 /\ own[t] \notin Dying /\ own[t] # re
<1>1. own[t] \in alive /\ own[t] \in Node
  BY DEF RefInv, NoDangling, TypeOK
<1>2. On(own, own[t]) # {}
  BY DEF On
<1>3. Ref(own[t]) # 0
  BY <1>1, <1>2, NoOwner DEF RefInv, CountsExact, Owners, On
<1>4. ref[own[t]] # 0
  BY <1>3, RefSorts DEF Ref
<1>. QED  BY <1>1, <1>4, RefSorts DEF RefInv, StackOK, Dying

\* A node without a count has no owner.
LEMMA Unowned ==
  ASSUME RefInv, NEW x \in Dying
  PROVE  \A t \in Token : own[t] # x
BY Owned, RefSorts DEF RefInv, TypeOK, Dying

-----------------------------------------------------------------------------
(* Counting up and down. *)

LEMMA CountUp ==
  ASSUME TypeOK, MapExact, NEW x \in alive, ref[x] # 0, AddRef(x)
  PROVE  /\ ref' \in [Node -> 0..MaxRef] /\ refMap' \in [Node -> Nat]
         /\ IF ref'[x] = MaxRef THEN refMap'[x] >= MaxRef ELSE refMap'[x] = 0
         /\ Ref(x)' = Ref(x) + 1 /\ ref'[x] # 0
         /\ \A y \in Node \ {x} : ref'[y] = ref[y] /\ refMap'[y] = refMap[y]
<1>. x \in Node /\ MaxRef \in Nat /\ MaxRef > 1 /\ ref[x] \in 0..MaxRef /\ refMap[x] \in Nat
  BY RefSorts DEF TypeOK
<1>1. CASE ref[x] < MaxRef - 1
  BY <1>1 DEF AddRef, TypeOK, MapExact, Ref
<1>2. CASE ref[x] = MaxRef
  BY <1>2 DEF AddRef, TypeOK, MapExact, Ref
<1>3. CASE ref[x] = MaxRef - 1
  BY <1>3 DEF AddRef, TypeOK, MapExact, Ref
<1>. QED  BY <1>1, <1>2, <1>3

LEMMA CountDown ==
  ASSUME TypeOK, MapExact, NEW x \in alive, ref[x] # 0, DropRef(x)
  PROVE  /\ ref' \in [Node -> 0..MaxRef] /\ refMap' \in [Node -> Nat]
         /\ IF ref'[x] = MaxRef THEN refMap'[x] >= MaxRef ELSE refMap'[x] = 0
         /\ Ref(x)' = Ref(x) - 1 /\ (ref'[x] = 0 <=> Ref(x)' = 0)
         /\ \A y \in Node \ {x} : ref'[y] = ref[y] /\ refMap'[y] = refMap[y]
<1>. x \in Node /\ MaxRef \in Nat /\ MaxRef > 1 /\ ref[x] \in 0..MaxRef /\ refMap[x] \in Nat
  BY RefSorts DEF TypeOK
<1>1. CASE ref[x] # MaxRef
  BY <1>1 DEF DropRef, TypeOK, MapExact, Ref
<1>2. CASE ref[x] = MaxRef /\ refMap[x] - 1 < MaxRef
  BY <1>2 DEF DropRef, TypeOK, MapExact, Ref
<1>3. CASE ref[x] = MaxRef /\ ~(refMap[x] - 1 < MaxRef)
  BY <1>3 DEF DropRef, TypeOK, MapExact, Ref
<1>. QED  BY <1>1, <1>2, <1>3

-----------------------------------------------------------------------------
(***************************************************************************)
(* Every action keeps the invariant.                                       *)
(***************************************************************************)
LEMMA InitInv == Init => RefInv
<1>. SUFFICES ASSUME Init PROVE RefInv
  OBVIOUS
<1>1. TypeOK
  BY RefSorts DEF Init, TypeOK
<1>2. CountsExact /\ MapExact /\ NoDangling
  BY RefSorts DEF Init, CountsExact, MapExact, NoDangling, Token
<1>3. StackOK /\ Released
  BY DEF Init, StackOK, Released, Waiting, Dying
<1>. QED  BY <1>1, <1>2, <1>3 DEF RefInv

\* What a new node means for everything but the counts.
LEMMA AllocateKeeps ==
  ASSUME RefInv, NEW x \in Node, NEW n \in 0..MaxSub, Allocate(x, n),
         own' \in [Token -> Node \cup {NULL}]
  PROVE  /\ TypeOK' /\ MapExact' /\ StackOK' /\ Released'
         /\ Ref(x)' = 1 /\ x \notin alive /\ x \in alive' /\ alive' = alive \cup {x}
         /\ \A y \in Node \ {x} : Ref(y)' = Ref(y)
<1>. x \notin alive /\ Idle
  BY DEF Allocate
<1>1. TypeOK'
  BY RefSorts DEF RefInv, TypeOK, Allocate
<1>2. MapExact'
  BY RefSorts DEF RefInv, TypeOK, MapExact, Allocate
<1>3. Dying' = Dying /\ Waiting' = Waiting
  BY DEF RefInv, TypeOK, Dying, Waiting, Allocate
<1>4. x \notin Waiting
  BY DEF Waiting, Dying
<1>5. StackOK' /\ Released'
  BY <1>3, <1>4 DEF RefInv, TypeOK, StackOK, Released, Allocate, Idle
<1>6. Ref(x)' = 1
  BY RefSorts DEF RefInv, TypeOK, Ref, Allocate
<1>7. \A y \in Node \ {x} : Ref(y)' = Ref(y)
  BY DEF RefInv, TypeOK, Ref, Allocate
<1>. QED  BY <1>1, <1>2, <1>5, <1>6, <1>7 DEF Allocate

LEMMA NewLeafInv ==
  ASSUME RefInv, NEW h \in Handle, NewLeaf(h)
  PROVE  RefInv'
<1>1. PICK x \in Node : Allocate(x, 0) /\ own' = With(own, h, x)
  BY DEF NewLeaf, With
<1>2. h \in Token /\ own[h] = NULL /\ own \in [Token -> Node \cup {NULL}] /\ 0 \in 0..MaxSub
  BY RefSorts DEF NewLeaf, Token, RefInv, TypeOK
<1>3. /\ own' \in [Token -> Node \cup {NULL}]
      /\ Cardinality(On(own', x)) = Cardinality(On(own, x)) + 1
      /\ \A y \in Node \ {x} : On(own', y) = On(own, y)
  BY <1>1, <1>2, Give
<1>4. /\ TypeOK' /\ MapExact' /\ StackOK' /\ Released'
      /\ Ref(x)' = 1 /\ x \notin alive /\ x \in alive' /\ alive' = alive \cup {x}
      /\ \A y \in Node \ {x} : Ref(y)' = Ref(y)
  BY <1>1, <1>2, <1>3, AllocateKeeps
<1>5. CountsExact'
  <2>1. On(own, x) = {}
    BY <1>4, RefSorts DEF RefInv, NoDangling, On
  <2>2. Cardinality(On(own', x)) = 1
    BY <1>3, <2>1, FS_EmptySet
  <2>. QED  BY <1>3, <1>4, <2>2 DEF RefInv, TypeOK, CountsExact, Owners, On
<1>6. NoDangling'
  <2>1. \A t \in Token : own'[t] # NULL => own'[t] \in alive'
    BY <1>1, <1>2, <1>4 DEF RefInv, NoDangling, With
  <2>2. \A y \in Node, k \in 0..(MaxSub - 1) : own'[<<y, k>>] = own[<<y, k>>]
    BY <1>1, <1>2, RefSorts DEF Token, With
  <2>. QED  BY <1>1, <1>4, <2>1, <2>2 DEF RefInv, TypeOK, NoDangling, Allocate
<1>. QED  BY <1>4, <1>5, <1>6 DEF RefInv

LEMMA IncrefInv ==
  ASSUME RefInv, NEW h \in Handle, NEW t \in Token, Incref(h, t)
  PROVE  RefInv'
<1>0. PICK x \in Node : x = own[t]
  BY Owned DEF Incref
<1>1. /\ own[h] = NULL /\ AddRef(x) /\ own' = With(own, h, x)
      /\ UNCHANGED <<alive, nsub, down, stack, re, i>>
      /\ h \in Token /\ own \in [Token -> Node \cup {NULL}]
  BY <1>0 DEF Incref, Token, RefInv, TypeOK, With
<1>2. x \in alive /\ x \in Node /\ ref[x] # 0
  BY <1>0, Owned DEF Incref
<1>3. /\ own' \in [Token -> Node \cup {NULL}]
      /\ Cardinality(On(own', x)) = Cardinality(On(own, x)) + 1
      /\ \A y \in Node \ {x} : On(own', y) = On(own, y)
  BY <1>1, <1>2, Give
<1>4. /\ ref' \in [Node -> 0..MaxRef] /\ refMap' \in [Node -> Nat]
      /\ IF ref'[x] = MaxRef THEN refMap'[x] >= MaxRef ELSE refMap'[x] = 0
      /\ Ref(x)' = Ref(x) + 1 /\ ref'[x] # 0
      /\ \A y \in Node \ {x} : ref'[y] = ref[y] /\ refMap'[y] = refMap[y]
  BY <1>1, <1>2, CountUp DEF RefInv
<1>5. TypeOK'
  BY <1>1, <1>3, <1>4 DEF RefInv, TypeOK
<1>6. MapExact'
  BY <1>1, <1>2, <1>4 DEF RefInv, MapExact
<1>7. CountsExact'
  <2>1. \A y \in Node \ {x} : Ref(y)' = Ref(y)
    BY <1>4 DEF Ref
  <2>. QED  BY <1>1, <1>2, <1>3, <1>4, <2>1 DEF RefInv, TypeOK, CountsExact, Owners, On
<1>8. NoDangling'
  <2>1. \A y \in Node, k \in 0..(MaxSub - 1) : own'[<<y, k>>] = own[<<y, k>>]
    BY <1>1, RefSorts DEF Token, With
  <2>. QED  BY <1>1, <1>2, <2>1 DEF RefInv, NoDangling, With
<1>9. Dying' = Dying /\ Waiting' = Waiting
  BY <1>1, <1>2, <1>4 DEF RefInv, TypeOK, Dying, Waiting
<1>10. StackOK' /\ Released'
  BY <1>1, <1>9 DEF RefInv, StackOK, Released, Incref, Idle
<1>. QED  BY <1>5, <1>6, <1>7, <1>8, <1>10 DEF RefInv

LEMMA TakeSubInv ==
  ASSUME RefInv, NEW h \in Handle, NEW t \in Token \ Handle, TakeSub(h, t)
  PROVE  RefInv'
<1>0. PICK x \in Node : x = own[t]
  BY Owned DEF TakeSub
<1> DEFINE q == With(own, h, x)
           p == With(q, t, NULL)
<1>1. /\ own[h] = NULL /\ own' = p
      /\ UNCHANGED <<alive, ref, nsub, down, refMap, stack, re, i>>
      /\ h \in Token /\ h # t /\ t \in Token /\ own \in [Token -> Node \cup {NULL}]
  BY <1>0 DEF TakeSub, Token, RefInv, TypeOK, With
<1>2. x \in alive /\ x \in Node
  BY <1>0, <1>1, Owned DEF TakeSub
<1>3. q[t] = x /\ own[t] = x
  BY <1>0, <1>1 DEF With
<1>4. /\ q \in [Token -> Node \cup {NULL}]
      /\ Cardinality(On(q, x)) = Cardinality(On(own, x)) + 1
      /\ \A y \in Node \ {x} : On(q, y) = On(own, y)
  BY <1>1, <1>2, Give
<1>. HIDE DEF q
<1>5. /\ p \in [Token -> Node \cup {NULL}]
      /\ Cardinality(On(p, x)) = Cardinality(On(q, x)) - 1
      /\ \A y \in Node \ {x} : On(p, y) = On(q, y)
  BY <1>1, <1>2, <1>3, <1>4, Take
<1>6. \A y \in Node : Cardinality(On(own', y)) = Cardinality(On(own, y))
  <2>1. Cardinality(On(own, x)) \in Nat
    BY NoOwner
  <2>. HIDE DEF p
  <2>. QED  BY <1>1, <1>4, <1>5, <2>1
<1>7. TypeOK' /\ MapExact' /\ StackOK'
  BY <1>1, <1>5 DEF RefInv, TypeOK, MapExact, StackOK, Dying, Waiting
<1>8. CountsExact'
  BY <1>1, <1>6 DEF RefInv, TypeOK, CountsExact, Ref, Owners, On
<1>9. NoDangling' /\ Released'
  <2>1. \A s \in Token : own'[s] # NULL => (own'[s] = own[s] \/ (s = h /\ own'[s] = x))
    <3>1. \A s \in Token : q[s] = IF s = h THEN x ELSE own[s]
      BY <1>1 DEF q, With
    <3>2. \A s \in Token : own'[s] = IF s = t THEN NULL ELSE q[s]
      BY <1>1, <1>4 DEF With
    <3>. QED  BY <3>1, <3>2
  <2>2. \A y \in Node, k \in 0..(MaxSub - 1) : own'[<<y, k>>] \in {own[<<y, k>>], NULL}
    BY <1>1, <2>1, RefSorts DEF Token
  <2>3. NoDangling'
    BY <1>1, <1>2, <2>1, <2>2 DEF RefInv, NoDangling
  <2>4. Released'
    BY <1>1 DEF Released, TakeSub, Idle
  <2>. QED  BY <2>3, <2>4
<1>. QED  BY <1>7, <1>8, <1>9 DEF RefInv

\* One reference less, as in Decref and in the loop of Destroy.
LEMMA Release ==
  ASSUME RefInv, NEW t \in Token, NEW x \in Node, own[t] = x,
         DropRef(x), DestroyIfUnused(x), own' = With(own, t, NULL),
         nsub' = nsub, re' = re, i' \in 0..MaxSub
  PROVE  TypeOK' /\ CountsExact' /\ MapExact' /\ NoDangling' /\ StackOK'
<1>1. x \in alive /\ ref[x] # 0 /\ x # re /\ x # NULL /\ own[t] # NULL
  BY Owned, RefSorts
<1>2. /\ own \in [Token -> Node \cup {NULL}] /\ alive \subseteq Node
      /\ down \in [Node -> Node \cup {NULL}] /\ stack \in Node \cup {NULL}
  BY DEF RefInv, TypeOK
<1>3. /\ own' \in [Token -> Node \cup {NULL}]
      /\ Cardinality(On(own', x)) = Cardinality(On(own, x)) - 1
      /\ \A y \in Node \ {x} : On(own', y) = On(own, y)
  BY <1>1, <1>2, Take
<1>4. /\ ref' \in [Node -> 0..MaxRef] /\ refMap' \in [Node -> Nat]
      /\ IF ref'[x] = MaxRef THEN refMap'[x] >= MaxRef ELSE refMap'[x] = 0
      /\ Ref(x)' = Ref(x) - 1 /\ (ref'[x] = 0 <=> Ref(x)' = 0)
      /\ \A y \in Node \ {x} : ref'[y] = ref[y] /\ refMap'[y] = refMap[y]
  BY <1>1, CountDown DEF RefInv
<1>5. /\ alive' \subseteq alive /\ \A y \in alive \ alive' : y = x /\ ref'[x] = 0 /\ nsub[x] = 0
      /\ down' \in [Node -> Node \cup {NULL}] /\ stack' \in Node \cup {NULL}
  BY <1>2, <1>1 DEF DestroyIfUnused
<1>6. TypeOK'
  BY <1>2, <1>3, <1>4, <1>5 DEF RefInv, TypeOK
<1>7. Ref(x)' = Cardinality(On(own', x))
  BY <1>1, <1>3, <1>4 DEF RefInv, CountsExact, Owners, On
<1>8. CountsExact'
  <2>1. \A y \in Node \ {x} : Ref(y)' = Ref(y)
    BY <1>4 DEF Ref
  <2>. QED  BY <1>2, <1>3, <1>5, <1>7, <2>1 DEF RefInv, CountsExact, Owners, On
<1>9. MapExact'
  BY <1>1, <1>4, <1>5, RefSorts DEF RefInv, MapExact
<1>10. ref'[x] = 0 => \A s \in Token : own'[s] # x
  <2>1. Cardinality(On(own', x)) = 0 <=> On(own', x) = {}
    BY NoOwner
  <2>. QED  BY <1>4, <1>7, <2>1 DEF On
<1>11. NoDangling'
  <2>1. \A s \in Token : own'[s] # NULL => own'[s] = own[s]
    BY <1>2 DEF With
  <2>2. \A s \in Token : own'[s] # NULL => own'[s] \in alive'
    BY <1>5, <1>10, <2>1 DEF RefInv, NoDangling
  <2>3. ASSUME NEW y \in Node, NEW k \in 0..(MaxSub - 1), own'[<<y, k>>] # NULL
        PROVE  y \in alive' /\ k < nsub'[y]
    <3>1. own[<<y, k>>] # NULL
      BY <2>1, <2>3 DEF Token
    <3>2. y \in alive /\ k < nsub[y]
      BY <3>1 DEF RefInv, NoDangling
    <3>3. ~(nsub[y] = 0)
      BY <3>2
    <3>. QED  BY <1>5, <3>2, <3>3
  <2>. QED  BY <2>2, <2>3 DEF NoDangling
\* A node that was dying stays so; x may be a new one, and is then on top.
<1>12. x \notin Dying /\ stack # x /\ \A y \in Waiting : down[y] # x
  BY <1>1 DEF RefInv, StackOK, Dying, Waiting
<1>13. CASE ref'[x] # 0 \/ nsub[x] = 0
  <2>1. UNCHANGED <<down, stack>> /\ Dying' = Dying
    BY <1>1, <1>2, <1>4, <1>5, <1>13 DEF DestroyIfUnused, Dying
  <2>. QED
    BY <2>1, <1>6, <1>8, <1>9, <1>11 DEF RefInv, StackOK, Waiting
<1>14. CASE ref'[x] = 0 /\ nsub[x] # 0
  <2>1. /\ alive' = alive /\ down' = [down EXCEPT ![x] = stack] /\ stack' = x
    BY <1>14 DEF DestroyIfUnused
  <2>2. Dying' = Dying \cup {x} /\ Waiting' = Waiting \cup {x}
    BY <1>1, <1>2, <1>4, <1>14, <2>1 DEF Dying, Waiting
  <2>3. down'[x] = stack /\ \A y \in Waiting : down'[y] = down[y] /\ y # x
    BY <1>2, <1>12, <2>1 DEF Waiting, Dying
  <2>4. StackOK'
    BY <1>1, <1>12, <2>1, <2>2, <2>3, RefSorts DEF RefInv, StackOK
  <2>. QED  BY <2>4, <1>6, <1>8, <1>9, <1>11
<1>. QED  BY <1>13, <1>14

LEMMA DecrefInv ==
  ASSUME RefInv, NEW h \in Handle, Decref(h)
  PROVE  RefInv'
<1>1. PICK x \in Node : own[h] = x
  BY Owned DEF Decref, Token
<1>2. /\ h \in Token /\ DropRef(x) /\ DestroyIfUnused(x) /\ own' = With(own, h, NULL)
      /\ nsub' = nsub /\ re' = re /\ i' \in 0..MaxSub /\ re = NULL
  BY <1>1 DEF Decref, Token, With, RefInv, TypeOK, Idle
<1>3. TypeOK' /\ CountsExact' /\ MapExact' /\ NoDangling' /\ StackOK'
  BY <1>1, <1>2, Release
<1>. QED  BY <1>2, <1>3 DEF RefInv, Released

LEMMA DestroyInv ==
  ASSUME RefInv, Destroy
  PROVE  RefInv'
<1>1. CASE DestroyPop
  <2>. /\ re = NULL /\ stack # NULL /\ stack \in Waiting /\ Waiting = Dying
       /\ re' = stack /\ stack' = down[stack] /\ i' = 0
       /\ UNCHANGED <<alive, ref, nsub, down, refMap, own>>
    BY <1>1, RefSorts DEF DestroyPop, RefInv, StackOK, Waiting, Dying, TypeOK
  <2>1. TypeOK' /\ CountsExact' /\ MapExact' /\ NoDangling'
    BY RefSorts DEF RefInv, TypeOK, CountsExact, Ref, Owners, MapExact, NoDangling, Dying
  <2>2. Dying' = Dying /\ Waiting' = Waiting \ {stack}
    BY DEF Dying, Waiting
  <2>3. StackOK'
    BY <2>2 DEF RefInv, StackOK
  <2>4. Released'
    BY RefSorts DEF Released, RefInv, TypeOK
  <2>. QED  BY <2>1, <2>3, <2>4 DEF RefInv
<1>2. CASE DestroySub
  <2>. /\ re # NULL /\ re \in Node /\ nsub[re] \in 0..MaxSub /\ i \in 0..MaxSub
       /\ i < nsub[re] /\ i' = i + 1 /\ UNCHANGED <<nsub, re>>
       /\ own' = With(own, <<re, i>>, NULL)
    BY <1>2 DEF DestroySub, RefInv, TypeOK, With
  <2>1. <<re, i>> \in Token /\ i' \in 0..MaxSub
    BY RefSorts DEF Token
  <2>2. TypeOK' /\ CountsExact' /\ MapExact' /\ NoDangling' /\ StackOK'
    <3>1. CASE own[<<re, i>>] = NULL
      <4>1. UNCHANGED <<ref, refMap, alive, down, stack>>
        BY <1>2, <3>1 DEF DestroySub
      <4>2. own' = own
        BY <2>1, <3>1 DEF With, RefInv, TypeOK
      <4>3. TypeOK' /\ MapExact' /\ NoDangling'
        BY <2>1, <4>1, <4>2 DEF RefInv, TypeOK, MapExact, NoDangling
      <4>4. CountsExact'
        BY <4>1, <4>2 DEF RefInv, CountsExact, Ref, Owners
      <4>5. StackOK'
        BY <4>1, <4>2 DEF RefInv, StackOK, Waiting, Dying
      <4>. QED  BY <4>3, <4>4, <4>5
    <3>2. CASE own[<<re, i>>] # NULL
      <4>1. PICK x \in Node : own[<<re, i>>] = x
        BY <2>1, <3>2, Owned
      <4>2. DropRef(x) /\ DestroyIfUnused(x)
        BY <1>2, <3>2, <4>1 DEF DestroySub
      <4>. QED  BY <2>1, <4>1, <4>2, Release
    <3>. QED  BY <3>1, <3>2
  <2>3. Released'
    <3>1. \A k \in 0..(i - 1) : own[<<re, k>>] = NULL
      BY DEF RefInv, Released
    <3>2. ASSUME NEW k \in 0..i PROVE own'[<<re, k>>] = NULL
      <4>1. <<re, k>> \in Token
        BY RefSorts DEF Token
      <4>2. CASE k = i
        BY <4>1, <4>2 DEF With, RefInv, TypeOK
      <4>3. CASE k # i
        BY <3>1, <4>1, <4>3 DEF With, RefInv, TypeOK
      <4>. QED  BY <4>2, <4>3
    <3>. QED  BY <3>2 DEF Released
  <2>. QED  BY <2>2, <2>3 DEF RefInv
<1>3. CASE DestroyDelete
  <2>. /\ re # NULL /\ re \in Node /\ re \in Dying /\ i >= nsub[re]
       /\ nsub' = [nsub EXCEPT ![re] = 0]
       /\ alive' = alive \ {re} /\ re' = NULL /\ i' = 0
       /\ UNCHANGED <<ref, down, refMap, own, stack>>
    BY <1>3 DEF DestroyDelete, RefInv, StackOK, TypeOK
  <2>1. TypeOK' /\ CountsExact' /\ MapExact'
    BY RefSorts DEF RefInv, TypeOK, CountsExact, Ref, Owners, MapExact, Dying
  <2>2. \A s \in Token : own[s] # re
    BY Unowned
  <2>3. \A k \in 0..(MaxSub - 1) : own[<<re, k>>] = NULL
    BY DEF RefInv, Released, NoDangling, TypeOK
  <2>4. NoDangling'
    BY <2>2, <2>3 DEF RefInv, NoDangling, TypeOK
  <2>5. Dying' = Dying \ {re} /\ Waiting' = Waiting
    BY RefSorts DEF Dying, Waiting, RefInv, TypeOK
  <2>6. StackOK' /\ Released'
    BY <2>5 DEF RefInv, StackOK, Released
  <2>. QED  BY <2>1, <2>4, <2>6 DEF RefInv
<1>. QED  BY <1>1, <1>2, <1>3 DEF Destroy

\* The references to the operands move into the slots of the new node, one to one.
LEMMA NewParentInv ==
  ASSUME RefInv, NewParent
  PROVE  RefInv'
<1>1. PICK x \in Node, n \in 1..MaxSub : \E hs \in [0..(n - 1) -> Handle] :
        /\ \A j, k \in 0..(n - 1) : hs[j] = hs[k] => j = k
        /\ \A k \in 0..(n - 1) : own[hs[k]] # NULL
        /\ Allocate(x, n)
        /\ own' = [t \in Token |->
                     IF t = hs[0] THEN x
                     ELSE IF \E k \in 0..(n - 1) : t = hs[k] THEN NULL
                     ELSE IF \E k \in 0..(n - 1) : t = <<x, k>> THEN own[hs[t[2]]]
                     ELSE own[t]]
  BY DEF NewParent
<1>2. PICK hs \in [0..(n - 1) -> Handle] :
        /\ \A j, k \in 0..(n - 1) : hs[j] = hs[k] => j = k
        /\ \A k \in 0..(n - 1) : own[hs[k]] # NULL
        /\ Allocate(x, n)
        /\ own' = [t \in Token |->
                     IF t = hs[0] THEN x
                     ELSE IF \E k \in 0..(n - 1) : t = hs[k] THEN NULL
                     ELSE IF \E k \in 0..(n - 1) : t = <<x, k>> THEN own[hs[t[2]]]
                     ELSE own[t]]
  BY <1>1
<1> DEFINE K == 0..(n - 1)
           Old == {hs[k] : k \in K}
           New == {<<x, k>> : k \in K}
<1>3. /\ n \in 0..MaxSub /\ 0 \in K /\ K \subseteq 0..(MaxSub - 1)
      /\ own \in [Token -> Node \cup {NULL}] /\ Handle \subseteq Token
      /\ New \subseteq Token /\ New \cap Handle = {} /\ Old \subseteq Handle
  BY RefSorts DEF RefInv, TypeOK, Token
<1>4. \A k \in K : hs[k] \in Token /\ own[hs[k]] \in alive /\ own[hs[k]] \in Node
  BY <1>2, <1>3, Owned
\* Where the references are afterwards.
<1>5. own'[hs[0]] = x
  BY <1>2, <1>3
<1>6. \A t \in Old : t # hs[0] => own'[t] = NULL
  BY <1>2, <1>3
<1>7. \A k \in K : own'[<<x, k>>] = own[hs[k]]
  <2>. SUFFICES ASSUME NEW k \in K PROVE own'[<<x, k>>] = own[hs[k]]
    OBVIOUS
  <2>1. <<x, k>> \in Token /\ \A j \in K : <<x, k>> # hs[j]
    BY <1>3
  <2>. QED  BY <1>2, <1>3, <2>1
<1>8. \A t \in Token \ (Old \cup New) : own'[t] = own[t]
  BY <1>2, <1>3
<1>. HIDE DEF K, Old, New
<1>9. own' \in [Token -> Node \cup {NULL}]
  <2>1. \A t \in Token : own'[t] \in Node \cup {NULL}
    BY <1>3, <1>4, <1>5, <1>6, <1>7, <1>8 DEF New
  <2>2. own' = [t \in Token |-> own'[t]]
    BY <1>2
  <2>. QED  BY <2>1, <2>2
<1>10. /\ TypeOK' /\ MapExact' /\ StackOK' /\ Released'
       /\ Ref(x)' = 1 /\ x \notin alive /\ x \in alive' /\ alive' = alive \cup {x}
       /\ \A y \in Node \ {x} : Ref(y)' = Ref(y)
  BY <1>2, <1>3, <1>9, AllocateKeeps
<1>11. \A t \in Token : own[t] # x
  BY <1>10, RefSorts DEF RefInv, NoDangling
<1>12. \A t \in New : own[t] = NULL
  BY <1>3, <1>10 DEF RefInv, NoDangling, New
<1>13. Cardinality(On(own', x)) = 1
  <2>1. On(own', x) = {hs[0]}
    <3>1. ASSUME NEW t \in Token, own'[t] = x PROVE t = hs[0]
      <4>1. CASE t \in Old
        BY <1>6, <3>1, <4>1, RefSorts
      <4>2. CASE t \in New
        BY <1>4, <1>7, <1>10, <3>1, <4>2 DEF New
      <4>3. CASE t \notin Old \cup New
        BY <1>8, <1>11, <3>1, <4>3
      <4>. QED  BY <4>1, <4>2, <4>3
    <3>. QED  BY <1>3, <1>4, <1>5, <3>1 DEF On
  <2>. QED  BY <2>1, FS_Singleton
<1>14. ASSUME NEW y \in Node \ {x}
       PROVE  Cardinality(On(own', y)) = Cardinality(On(own, y))
  <2> DEFINE S == On(own, y)
             T == On(own', y)
             at(t) == CHOOSE k \in K : hs[k] = t
             f == [t \in S |-> IF t \in Old THEN <<x, at(t)>> ELSE t]
  <2>1. \A t \in Old : at(t) \in K /\ hs[at(t)] = t
    BY DEF Old
  <2>. HIDE DEF at
  <2>2. \A t \in S : t \notin New /\ t \in Token /\ own[t] = y
    BY <1>12, RefSorts DEF On
  <2>3. ASSUME NEW t \in S PROVE f[t] \in T
    <3>1. CASE t \in Old
      BY <1>3, <1>7, <2>1, <2>2, <3>1 DEF On, New
    <3>2. CASE t \notin Old
      BY <1>8, <2>2, <3>2 DEF On
    <3>. QED  BY <3>1, <3>2
  <2>4. ASSUME NEW s \in S, NEW t \in S, f[s] = f[t] PROVE s = t
    <3>1. \A u \in S : u \in Old => f[u] = <<x, at(u)>> /\ f[u] \in New
      BY <2>1 DEF New
    <3>2. \A u \in S : u \notin Old => f[u] = u /\ f[u] \notin New
      BY <2>2
    <3>3. CASE s \in Old /\ t \in Old
      <4>1. at(s) = at(t)
        BY <2>4, <3>1, <3>3
      <4>. QED  BY <2>1, <3>3, <4>1
    <3>4. CASE ~(s \in Old /\ t \in Old)
      BY <2>4, <3>1, <3>2, <3>4
    <3>. QED  BY <3>3, <3>4
  <2>5. ASSUME NEW u \in T PROVE \E t \in S : f[t] = u
    <3>1. u \in Token /\ own'[u] = y
      BY DEF On
    <3>2. CASE u \in New
      <4>1. PICK k \in K : u = <<x, k>>
        BY <3>2 DEF New
      <4>2. hs[k] \in S /\ hs[k] \in Old
        BY <1>4, <1>7, <3>1, <4>1 DEF On, Old
      <4>3. at(hs[k]) = k
        BY <1>2, <2>1, <4>2 DEF K
      <4>. QED  BY <4>1, <4>2, <4>3
    <3>3. CASE u \notin New
      <4>1. u \notin Old
        BY <1>5, <1>6, <3>1, RefSorts
      <4>. QED  BY <1>8, <3>1, <3>3, <4>1 DEF On
    <3>. QED  BY <3>2, <3>3
  <2>6. f \in Bijection(S, T)
    <3>1. f \in [S -> T]
      BY <2>3
    <3>. HIDE DEF f, S, T
    <3>2. f \in Injection(S, T)
      BY <2>4, <3>1 DEF Injection, IsInjective
    <3>3. f \in Surjection(S, T)
      BY <2>5, <3>1 DEF Surjection
    <3>. QED  BY <3>2, <3>3 DEF Bijection
  <2>7. ExistsBijection(S, T)
    <3>. HIDE DEF f, S, T
    <3>. QED  BY <2>6 DEF ExistsBijection
  <2>8. IsFiniteSet(S)
    BY TokensFinite
  <2>. HIDE DEF S, T
  <2>9. Cardinality(T) = Cardinality(S)
    BY <2>7, <2>8, FS_Bijection
  <2>. QED  BY <2>9 DEF S, T
<1>15. CountsExact'
  BY <1>10, <1>13, <1>14 DEF RefInv, TypeOK, CountsExact, Owners, On
<1>16. NoDangling'
  <2>1. \A t \in Token : own'[t] # NULL => own'[t] \in alive'
    BY <1>4, <1>5, <1>6, <1>7, <1>8, <1>10 DEF RefInv, NoDangling, New
  <2>2. ASSUME NEW y \in Node, NEW k \in 0..(MaxSub - 1), own'[<<y, k>>] # NULL
        PROVE  y \in alive' /\ k < nsub'[y]
    <3>1. <<y, k>> \in Token /\ <<y, k>> \notin Old
      BY <1>3, RefSorts DEF Token
    <3>2. CASE <<y, k>> \in New
      BY <1>2, <1>10, <3>2 DEF New, K, Allocate, RefInv, TypeOK
    <3>3. CASE <<y, k>> \notin New
      <4>1. own[<<y, k>>] # NULL
        BY <1>8, <2>2, <3>1, <3>3
      <4>. QED  BY <1>2, <1>10, <4>1 DEF RefInv, NoDangling, Allocate, TypeOK
    <3>. QED  BY <3>2, <3>3
  <2>. QED  BY <2>1, <2>2 DEF NoDangling
<1>. QED  BY <1>10, <1>15, <1>16 DEF RefInv

-----------------------------------------------------------------------------
(***************************************************************************)
(* The theorems.                                                           *)
(***************************************************************************)

\* The invariant of regexp.cc's reference counts.
THEOREM Invariant == Spec => []RefInv
<1>1. ASSUME RefInv, [Next]_vars PROVE RefInv'
  <2>1. CASE NewParent
    BY <1>1, <2>1, NewParentInv
  <2>2. CASE Destroy
    BY <1>1, <2>2, DestroyInv
  <2>3. ASSUME NEW h \in Handle, NewLeaf(h) PROVE RefInv'
    BY <1>1, <2>3, NewLeafInv
  <2>4. ASSUME NEW h \in Handle, Decref(h) PROVE RefInv'
    BY <1>1, <2>4, DecrefInv
  <2>5. ASSUME NEW h \in Handle, NEW t \in Token \ {h}, Incref(h, t) PROVE RefInv'
    BY <1>1, <2>5, IncrefInv
  <2>6. ASSUME NEW h \in Handle, NEW t \in Token \ Handle, TakeSub(h, t) PROVE RefInv'
    BY <1>1, <2>6, TakeSubInv
  <2>7. CASE UNCHANGED vars
    BY <1>1, <2>7
    DEF vars, RefInv, TypeOK, CountsExact, Ref, Owners, MapExact, NoDangling, StackOK,
        Waiting, Dying, Released
  <2>. QED  BY <1>1, <2>1, <2>2, <2>3, <2>4, <2>5, <2>6, <2>7 DEF Next
<1>. QED  BY InitInv, <1>1, PTL DEF Spec

\* Ref() is exact also when the 16 bits overflow into the map, and when the count
\* comes back from there.
THEOREM CountsAreExact == Spec => []CountsExact
<1>1. RefInv => CountsExact
  BY DEF RefInv
<1>. QED  BY Invariant, <1>1, PTL

\* Destroy deletes nothing that a handle or a live node still refers to.
THEOREM NothingDangles == Spec => []NoDangling
<1>1. RefInv => NoDangling
  BY DEF RefInv
<1>. QED  BY Invariant, <1>1, PTL

-----------------------------------------------------------------------------
(***************************************************************************)
(* Nothing leaks.                                                          *)
(***************************************************************************)

\* Reading off the slots of nodes.
LEMMA SlotIsToken == \A x \in Node, k \in 0..(MaxSub - 1) : <<x, k>> \in Token \ Handle
BY RefSorts DEF Token

\* A step that only empties slots and deletes nodes makes no cycle.
LEMMA FewerSlots ==
  ASSUME RefInv, Acyclic, alive' \subseteq alive,
         \A y \in Node, k \in 0..(MaxSub - 1) : own'[<<y, k>>] \in {own[<<y, k>>], NULL}
  PROVE  Acyclic'
<1>. SUFFICES ASSUME NEW S \in SUBSET alive', S # {}
     PROVE \E x \in S : \A y \in S, k \in 0..(MaxSub - 1) : own'[<<y, k>>] # x
  BY DEF Acyclic
<1>1. PICK x \in S : \A y \in S, k \in 0..(MaxSub - 1) : own[<<y, k>>] # x
  BY DEF Acyclic
<1>2. x \in Node /\ S \subseteq Node
  BY DEF RefInv, TypeOK
<1>3. \A y \in S, k \in 0..(MaxSub - 1) : own'[<<y, k>>] # x
  BY <1>1, <1>2, RefSorts
<1>. QED  BY <1>3

\* No slot refers to a new node, and the slots of the others do not change.
LEMMA NewOnTop ==
  ASSUME RefInv, Acyclic, NEW x \in Node, alive' = alive \cup {x}, x \notin alive,
         \A y \in Node, k \in 0..(MaxSub - 1) :
           own'[<<y, k>>] # x /\ (y # x => own'[<<y, k>>] = own[<<y, k>>])
  PROVE  Acyclic'
<1>. SUFFICES ASSUME NEW S \in SUBSET alive', S # {}
     PROVE \E z \in S : \A y \in S, k \in 0..(MaxSub - 1) : own'[<<y, k>>] # z
  BY DEF Acyclic
<1>0. S \subseteq Node
  BY DEF RefInv, TypeOK
<1>1. CASE x \in S
  BY <1>0, <1>1
<1>2. CASE x \notin S
  <2>1. PICK z \in S : \A y \in S, k \in 0..(MaxSub - 1) : own[<<y, k>>] # z
    BY <1>2 DEF Acyclic
  <2>. QED  BY <1>0, <1>2, <2>1
<1>. QED  BY <1>1, <1>2

\* The stack as it was.
LEMMA StackStays ==
  ASSUME StackWhole, Waiting' = Waiting, UNCHANGED <<down, stack>>
  PROVE  StackWhole'
BY DEF StackWhole

\* One reference less: what x refers to, if it goes, is now on top of the stack.
LEMMA ReleaseKeepsHeap ==
  ASSUME HeapInv, NEW t \in Token, NEW x \in Node, own[t] = x,
         DropRef(x), DestroyIfUnused(x), own' = With(own, t, NULL), re' = re
  PROVE  Acyclic' /\ StackWhole'
<1>1. x \in alive /\ ref[x] # 0 /\ x # re /\ x # NULL /\ x \notin Dying
  BY Owned, RefSorts DEF HeapInv
<1>2. /\ own \in [Token -> Node \cup {NULL}] /\ alive \subseteq Node
      /\ down \in [Node -> Node \cup {NULL}] /\ stack \in Node \cup {NULL}
  BY DEF HeapInv, RefInv, TypeOK
<1>3. /\ alive' \subseteq alive
      /\ \A y \in alive \ alive' : y = x /\ ref'[x] = 0
      /\ \A y \in Node \ {x} : ref'[y] = ref[y]
  <2>1. \A y \in Node \ {x} : ref'[y] = ref[y]
    BY <1>1, CountDown DEF HeapInv, RefInv
  <2>. QED  BY <1>2, <2>1 DEF DestroyIfUnused
<1>4. Acyclic'
  <2>1. \A s \in Token : own'[s] \in {own[s], NULL}
    BY <1>2 DEF With
  <2>. QED  BY <1>3, <2>1, SlotIsToken, FewerSlots DEF HeapInv
<1>5. CASE ref'[x] # 0 \/ nsub[x] = 0
  <2>1. UNCHANGED <<down, stack>> /\ Dying' = Dying
    BY <1>1, <1>2, <1>3, <1>5 DEF DestroyIfUnused, Dying, HeapInv, RefInv, TypeOK
  <2>2. Waiting' = Waiting
    BY <2>1 DEF Waiting
  <2>. QED  BY <1>4, <2>1, <2>2, StackStays DEF HeapInv
<1>6. CASE ref'[x] = 0 /\ nsub[x] # 0
  <2>1. alive' = alive /\ down' = [down EXCEPT ![x] = stack] /\ stack' = x
    BY <1>6 DEF DestroyIfUnused
  <2>2. Waiting' = Waiting \cup {x} /\ x \notin Waiting
    BY <1>1, <1>2, <1>3, <1>6, <2>1 DEF Dying, Waiting
  <2>3. /\ stack # NULL => stack \in Waiting
        /\ \A y \in Waiting : down'[y] = down[y] /\ down[y] # x
        /\ down'[x] = stack
    BY <1>1, <1>2, <2>1, <2>2, RefSorts DEF HeapInv, RefInv, StackOK, Waiting, Dying
  <2>4. ASSUME NEW S \in SUBSET Waiting', stack' \in S,
               \A y \in S : down'[y] # NULL => down'[y] \in S
        PROVE  S = Waiting'
    <3> DEFINE U == S \ {x}
    <3>1. U \in SUBSET Waiting /\ x \in S
      BY <2>1, <2>2, <2>4
    <3>2. stack # NULL => stack \in U
      BY <2>2, <2>3, <2>4, <3>1
    <3>3. \A y \in U : down[y] # NULL => down[y] \in U
      BY <2>3, <2>4, <3>1
    <3>4. U = Waiting
      BY <3>1, <3>2, <3>3 DEF HeapInv, StackWhole
    <3>. QED  BY <2>2, <3>1, <3>4
  <2>5. StackWhole'
    BY <1>1, <2>1, <2>4 DEF StackWhole
  <2>. QED  BY <1>4, <2>5
<1>. QED  BY <1>5, <1>6

\* A new node does not touch the stack.
LEMMA AllocateKeepsStack ==
  ASSUME HeapInv, NEW x \in Node, NEW n \in 0..MaxSub, Allocate(x, n)
  PROVE  StackWhole'
<1>. /\ alive' = alive \cup {x} /\ x \notin alive /\ ref' = [ref EXCEPT ![x] = 1]
     /\ down' = [down EXCEPT ![x] = NULL] /\ UNCHANGED <<stack, re>>
  BY DEF Allocate
<1>1. Waiting' = Waiting
  BY DEF Waiting, Dying, HeapInv, RefInv, TypeOK
<1>2. \A y \in Waiting : down'[y] = down[y]
  BY DEF Waiting, Dying, HeapInv, RefInv, TypeOK
<1>. QED  BY <1>1, <1>2 DEF HeapInv, StackWhole

LEMMA IncrefHeap ==
  ASSUME HeapInv, NEW h \in Handle, NEW t \in Token, Incref(h, t)
  PROVE  Acyclic' /\ StackWhole'
<1>0. PICK x \in Node : x = own[t]
  BY Owned DEF Incref, HeapInv
<1>1. /\ AddRef(x) /\ own' = [own EXCEPT ![h] = x] /\ UNCHANGED <<alive, down, stack, re>>
  BY <1>0 DEF Incref
<1>2. x \in alive /\ ref[x] # 0
  BY <1>0, Owned DEF Incref, HeapInv
<1>3. ref'[x] # 0 /\ \A y \in Node \ {x} : ref'[y] = ref[y]
  BY <1>1, <1>2, CountUp DEF HeapInv, RefInv
<1>4. Waiting' = Waiting
  BY <1>1, <1>2, <1>3 DEF Waiting, Dying, HeapInv, RefInv, TypeOK
<1>5. \A y \in Node, k \in 0..(MaxSub - 1) : own'[<<y, k>>] = own[<<y, k>>]
  BY <1>1, SlotIsToken DEF HeapInv, RefInv, TypeOK
<1>. QED  BY <1>1, <1>4, <1>5, FewerSlots, StackStays DEF HeapInv

LEMMA TakeSubHeap ==
  ASSUME HeapInv, NEW h \in Handle, NEW t \in Token \ Handle, TakeSub(h, t)
  PROVE  Acyclic' /\ StackWhole'
<1>1. /\ own' = [own EXCEPT ![h] = own[t], ![t] = NULL]
      /\ UNCHANGED <<alive, ref, down, stack, re>>
  BY DEF TakeSub
<1>2. Waiting' = Waiting
  BY <1>1 DEF Waiting, Dying
<1>3. \A y \in Node, k \in 0..(MaxSub - 1) : own'[<<y, k>>] \in {own[<<y, k>>], NULL}
  BY ZenonT(30), <1>1, SlotIsToken DEF HeapInv, RefInv, TypeOK
<1>. QED  BY <1>1, <1>2, <1>3, FewerSlots, StackStays DEF HeapInv

LEMMA NewLeafHeap ==
  ASSUME HeapInv, NEW h \in Handle, NewLeaf(h)
  PROVE  Acyclic' /\ StackWhole'
<1>1. PICK x \in Node : Allocate(x, 0) /\ own' = [own EXCEPT ![h] = x]
  BY DEF NewLeaf
<1>2. /\ alive' = alive \cup {x} /\ x \notin alive /\ ref' = [ref EXCEPT ![x] = 1]
      /\ down' = [down EXCEPT ![x] = NULL] /\ UNCHANGED <<stack, re>>
  BY <1>1 DEF Allocate
<1>3. \A y \in Node, k \in 0..(MaxSub - 1) : own'[<<y, k>>] = own[<<y, k>>]
  BY <1>1, SlotIsToken DEF HeapInv, RefInv, TypeOK
<1>4. \A y \in Node, k \in 0..(MaxSub - 1) : own[<<y, k>>] # x
  BY <1>2, SlotIsToken, RefSorts DEF HeapInv, RefInv, NoDangling
<1>5. Acyclic'
  BY <1>2, <1>3, <1>4, NewOnTop DEF HeapInv
<1>. QED  BY <1>1, <1>5, AllocateKeepsStack, RefSorts

LEMMA NewParentHeap ==
  ASSUME HeapInv, NewParent
  PROVE  Acyclic' /\ StackWhole'
<1>1. PICK x \in Node, n \in 1..MaxSub : \E hs \in [0..(n - 1) -> Handle] :
        /\ \A k \in 0..(n - 1) : own[hs[k]] # NULL
        /\ Allocate(x, n)
        /\ own' = [t \in Token |->
                     IF t = hs[0] THEN x
                     ELSE IF \E k \in 0..(n - 1) : t = hs[k] THEN NULL
                     ELSE IF \E k \in 0..(n - 1) : t = <<x, k>> THEN own[hs[t[2]]]
                     ELSE own[t]]
  BY DEF NewParent
<1>2. PICK hs \in [0..(n - 1) -> Handle] :
        /\ \A k \in 0..(n - 1) : own[hs[k]] # NULL
        /\ Allocate(x, n)
        /\ own' = [t \in Token |->
                     IF t = hs[0] THEN x
                     ELSE IF \E k \in 0..(n - 1) : t = hs[k] THEN NULL
                     ELSE IF \E k \in 0..(n - 1) : t = <<x, k>> THEN own[hs[t[2]]]
                     ELSE own[t]]
  BY <1>1
<1>3. /\ alive' = alive \cup {x} /\ x \notin alive
      /\ UNCHANGED <<stack, re>>
  BY <1>2 DEF Allocate
<1>4. \A t \in Token : own[t] # x
  BY <1>3, RefSorts DEF HeapInv, RefInv, NoDangling
<1>5. ASSUME NEW y \in Node, NEW k \in 0..(MaxSub - 1)
      PROVE  own'[<<y, k>>] # x /\ (y # x => own'[<<y, k>>] = own[<<y, k>>])
  <2>1. /\ <<y, k>> \in Token /\ own[<<y, k>>] # x
        /\ \A j \in 0..(n - 1) : hs[j] \in Handle /\ hs[j] \in Token /\ own[hs[j]] # x
        /\ \A j \in 0..(n - 1) : <<y, k>> # hs[j]
    BY <1>4, SlotIsToken DEF Token
  <2>2. 0 \in 0..(n - 1)
    OBVIOUS
  <2>3. own'[<<y, k>>] = IF \E j \in 0..(n - 1) : <<y, k>> = <<x, j>> THEN own[hs[k]]
                         ELSE own[<<y, k>>]
    BY <1>2, <2>1, <2>2
  <2>. QED  BY <2>1, <2>3
<1>6. Acyclic'
  BY <1>3, <1>5, NewOnTop DEF HeapInv
<1>. QED  BY <1>2, <1>6, AllocateKeepsStack DEF HeapInv

LEMMA DestroyHeap ==
  ASSUME HeapInv, Destroy
  PROVE  Acyclic' /\ StackWhole'
<1>1. CASE DestroyPop
  <2>. /\ re = NULL /\ stack # NULL /\ stack \in Waiting /\ Waiting = Dying
       /\ re' = stack /\ stack' = down[stack] /\ UNCHANGED <<alive, ref, down, own>>
    BY <1>1, RefSorts DEF DestroyPop, HeapInv, RefInv, StackOK, Waiting, Dying, TypeOK
  <2>1. Acyclic'
    BY DEF HeapInv, Acyclic
  <2>2. Waiting' = Waiting \ {stack}
    BY DEF Waiting, Dying
  <2>3. ASSUME NEW S \in SUBSET Waiting', stack' # NULL => stack' \in S,
               \A y \in S : down'[y] # NULL => down'[y] \in S
        PROVE  S = Waiting'
    <3> DEFINE U == S \cup {stack}
    <3>1. U \in SUBSET Waiting /\ stack \in U /\ stack \notin S
      BY <2>2, <2>3
    <3>2. \A y \in U : down[y] # NULL => down[y] \in U
      BY <2>3
    <3>3. U = Waiting
      BY <3>1, <3>2 DEF HeapInv, StackWhole
    <3>. QED  BY <2>2, <3>1, <3>3
  <2>4. StackWhole'
    BY <2>3 DEF StackWhole
  <2>. QED  BY <2>1, <2>4
<1>2. CASE DestroySub
  <2>. /\ re \in Node /\ i \in 0..(MaxSub - 1) /\ UNCHANGED re
       /\ own' = With(own, <<re, i>>, NULL)
    BY <1>2, RefSorts DEF DestroySub, HeapInv, RefInv, TypeOK, With
  <2>1. <<re, i>> \in Token
    BY SlotIsToken
  <2>2. CASE own[<<re, i>>] = NULL
    <3>1. UNCHANGED <<ref, alive, down, stack>>
      BY <1>2, <2>2 DEF DestroySub
    <3>2. \A s \in Token : own'[s] \in {own[s], NULL}
      BY <2>1 DEF With, HeapInv, RefInv, TypeOK
    <3>3. Acyclic'
      BY <3>1, <3>2, SlotIsToken, FewerSlots DEF HeapInv
    <3>4. Waiting' = Waiting
      BY <3>1 DEF Waiting, Dying
    <3>. QED  BY <3>1, <3>3, <3>4, StackStays DEF HeapInv
  <2>3. CASE own[<<re, i>>] # NULL
    <3>1. PICK x \in Node : own[<<re, i>>] = x
      BY <2>1, <2>3, Owned DEF HeapInv
    <3>2. DropRef(x) /\ DestroyIfUnused(x)
      BY <1>2, <2>3, <3>1 DEF DestroySub
    <3>. QED  BY <2>1, <3>1, <3>2, ReleaseKeepsHeap
  <2>. QED  BY <2>2, <2>3
<1>3. CASE DestroyDelete
  <2>. /\ re # NULL /\ alive' = alive \ {re} /\ re' = NULL
       /\ UNCHANGED <<ref, down, own, stack>>
    BY <1>3 DEF DestroyDelete
  <2>1. Acyclic'
    BY FewerSlots DEF HeapInv
  <2>2. Waiting' = Waiting
    BY RefSorts DEF Waiting, Dying, HeapInv, RefInv, TypeOK
  <2>. QED  BY <2>1, <2>2, StackStays DEF HeapInv
<1>. QED  BY <1>1, <1>2, <1>3 DEF Destroy

\* The counts, the overflow map, the ownership and the stack stay consistent, no
\* regexp comes to contain itself, and Destroy loses no node from its stack.
THEOREM HeapInvariant == Spec => []HeapInv
<1>1. Init => HeapInv
  <2>. SUFFICES ASSUME Init PROVE Acyclic /\ StackWhole
    BY InitInv DEF HeapInv
  <2>. QED  BY DEF Init, Acyclic, StackWhole, Waiting, Dying
<1>2. ASSUME HeapInv, RefInv', [Next]_vars PROVE HeapInv'
  <2>. SUFFICES Acyclic' /\ StackWhole'
    BY <1>2 DEF HeapInv
  <2>1. CASE NewParent
    BY <1>2, <2>1, NewParentHeap
  <2>2. CASE Destroy
    BY <1>2, <2>2, DestroyHeap
  <2>3. ASSUME NEW h \in Handle, NewLeaf(h) PROVE Acyclic' /\ StackWhole'
    BY <1>2, <2>3, NewLeafHeap
  <2>4. ASSUME NEW h \in Handle, Decref(h) PROVE Acyclic' /\ StackWhole'
    <3>1. PICK x \in Node : own[h] = x
      BY <1>2, <2>4, Owned DEF HeapInv, Decref, Token
    <3>2. h \in Token /\ DropRef(x) /\ DestroyIfUnused(x) /\ own' = With(own, h, NULL) /\ re' = re
      BY <2>4, <3>1 DEF Decref, Token, With
    <3>. QED  BY <1>2, <3>1, <3>2, ReleaseKeepsHeap
  <2>5. ASSUME NEW h \in Handle, NEW t \in Token \ {h}, Incref(h, t)
        PROVE  Acyclic' /\ StackWhole'
    BY <1>2, <2>5, IncrefHeap
  <2>6. ASSUME NEW h \in Handle, NEW t \in Token \ Handle, TakeSub(h, t)
        PROVE  Acyclic' /\ StackWhole'
    BY <1>2, <2>6, TakeSubHeap
  <2>7. CASE UNCHANGED vars
    BY <1>2, <2>7 DEF vars, HeapInv, Acyclic, StackWhole, Waiting, Dying
  <2>. QED  BY <1>2, <2>1, <2>2, <2>3, <2>4, <2>5, <2>6, <2>7 DEF Next
<1>. QED  BY <1>1, <1>2, Invariant, PTL DEF Spec

\* Once Destroy has emptied its stack, exactly the nodes that a handle reaches
\* exist: the loop without recursion has deleted all the others.
THEOREM NothingIsLost == Spec => []NothingLeaks
<1>1. ASSUME HeapInv, Idle PROVE alive = Reached
  <2>1. alive \subseteq Node /\ own \in [Token -> Node \cup {NULL}]
    BY <1>1 DEF HeapInv, RefInv, TypeOK
  <2>2. \A x \in alive : ref[x] # 0
    <3>1. Waiting = {}
      <4>1. /\ {} \in SUBSET Waiting /\ stack = NULL
            /\ \A x \in {} : down[x] # NULL => down[x] \in {}
        BY <1>1 DEF Idle
      <4>. QED  BY <1>1, <4>1 DEF HeapInv, StackWhole
    <3>. QED  BY <1>1, <2>1, <3>1, RefSorts DEF Waiting, Dying, Idle
  <2>3. Reached \subseteq alive
    <3>1. Closed(alive)
      BY <1>1, <2>1, SlotIsToken DEF Closed, Subs, HeapInv, RefInv, NoDangling, Token
    <3>. QED  BY <2>1, <3>1 DEF Reached
  <2>4. ASSUME NEW S \in SUBSET Node, Closed(S) PROVE alive \subseteq S
    <3>1. SUFFICES ASSUME alive \ S # {} PROVE FALSE
      OBVIOUS
    <3>2. PICK x \in alive \ S : \A y \in alive \ S, k \in 0..(MaxSub - 1) : own[<<y, k>>] # x
      BY <1>1, <3>1 DEF HeapInv, Acyclic
    <3>3. PICK t \in Token : own[t] = x
      <4>1. Ref(x) # 0
        BY <1>1, <2>1, <2>2, RefSorts DEF Ref, HeapInv, RefInv, MapExact, TypeOK
      <4>2. On(own, x) # {}
        BY <1>1, <4>1, NoOwner DEF HeapInv, RefInv, CountsExact, Owners, On
      <4>. QED  BY <4>2 DEF On
    <3>4. x # NULL
      BY <2>1, RefSorts
    <3>5. CASE t \in Handle
      BY <2>4, <3>2, <3>3, <3>4, <3>5 DEF Closed
    <3>6. CASE t \notin Handle
      <4>1. PICK y \in Node, k \in 0..(MaxSub - 1) : t = <<y, k>>
        BY <3>6 DEF Token
      <4>2. y \in alive
        BY <1>1, <3>3, <3>4, <4>1 DEF HeapInv, RefInv, NoDangling
      <4>3. y \in S
        BY <3>2, <3>3, <4>1, <4>2
      <4>4. x \in Subs(S)
        BY <3>3, <3>4, <4>1, <4>3 DEF Subs
      <4>. QED  BY <2>4, <3>2, <4>4 DEF Closed
    <3>. QED  BY <3>5, <3>6
  <2>. QED  BY <2>1, <2>3, <2>4 DEF Reached
<1>2. HeapInv => NothingLeaks
  BY <1>1 DEF NothingLeaks
<1>. QED  BY HeapInvariant, <1>2, PTL
=============================================================================
