--------------------------- MODULE DFAStatesProofs ---------------------------
(***************************************************************************)
(* Proofs about the queues of re2/dfa.cc, whose sizes are fixed before the *)
(* search and never checked: the loop that fills one ends, its stack is    *)
(* large enough, and so is each queue for the Marks it gets.               *)
(***************************************************************************)
EXTENDS NFAProofs

(***************************************************************************)
(* Marks.                                                                  *)
(***************************************************************************)
LEMMA MarksNat ==
  ASSUME NEW S, NEW s \in Seq(S)
  PROVE  /\ IsFiniteSet({j \in 1..Len(s) : s[j] = Mark})
         /\ MarksIn(s) = Cardinality({j \in 1..Len(s) : s[j] = Mark}) /\ MarksIn(s) \in Nat
<1>1. Len(s) \in Nat /\ DOMAIN s = 1..Len(s)
  BY LenProperties
<1>2. IsFiniteSet({j \in 1..Len(s) : s[j] = Mark})
  <2>1. IsFiniteSet(1..Len(s))
    BY <1>1, FS_Interval
  <2>. QED  BY <2>1, FS_Subset
<1>. QED  BY <1>1, <1>2, FS_CardinalityType DEF MarksIn

LEMMA NoMarks ==
  ASSUME NEW S, NEW s \in Seq(S), \A j \in 1..Len(s) : s[j] # Mark
  PROVE  MarksIn(s) = 0
<1>1. {j \in 1..Len(s) : s[j] = Mark} = {}
  OBVIOUS
<1>. QED  BY <1>1, MarksNat, FS_EmptySet

LEMMA MarksAppend ==
  ASSUME NEW S, NEW s \in Seq(S), NEW e \in S
  PROVE  /\ Append(s, e) \in Seq(S) /\ Len(Append(s, e)) = Len(s) + 1 /\ Len(s) \in Nat
         /\ Append(s, e)[Len(s) + 1] = e /\ \A j \in 1..Len(s) : Append(s, e)[j] = s[j]
         /\ MarksIn(Append(s, e)) = MarksIn(s) + One(e = Mark)
<1> DEFINE n == Len(s)
           r == Append(s, e)
           M(a) == {j \in 1..Len(a) : a[j] = Mark}
<1>1. n \in Nat
  BY LenProperties
<1>2. r \in Seq(S) /\ Len(r) = n + 1 /\ r[n + 1] = e /\ \A j \in 1..n : r[j] = s[j]
  BY AppendProperties
<1>. HIDE DEF n, r
<1>3. \A j : j \in 1..(n + 1) <=> j \in 1..n \/ j = n + 1
  BY <1>1
<1>4. \A j \in 1..n : j # n + 1
  BY <1>1
<1>5. M(r) = M(s) \cup (IF e = Mark THEN {n + 1} ELSE {})
  BY <1>2, <1>3, <1>4 DEF n
<1>6. n + 1 \notin M(s)
  BY <1>4 DEF n
<1>7. IsFiniteSet(M(s)) /\ MarksIn(s) = Cardinality(M(s)) /\ MarksIn(s) \in Nat
  BY MarksNat
<1>8. MarksIn(r) = Cardinality(M(r))
  BY <1>2, MarksNat
<1>. HIDE DEF M
<1>9. MarksIn(r) = MarksIn(s) + One(e = Mark)
  <2>1. CASE e = Mark
    BY <1>5, <1>6, <1>7, <1>8, <2>1, FS_AddElement DEF One
  <2>2. CASE e # Mark
    BY <1>5, <1>7, <1>8, <2>2 DEF One
  <2>. QED  BY <2>1, <2>2
<1>. QED  BY <1>1, <1>2, <1>9 DEF n, r

LEMMA MarksFront ==
  ASSUME NEW S, NEW s \in Seq(S), s # <<>>
  PROVE  /\ Front(s) \in Seq(S) /\ Len(s) \in Nat \ {0} /\ Len(Front(s)) = Len(s) - 1
         /\ \A j \in 1..(Len(s) - 1) : Front(s)[j] = s[j]
         /\ Last(s) \in S /\ Last(s) = s[Len(s)]
         /\ MarksIn(s) = MarksIn(Front(s)) + One(Last(s) = Mark)
<1> DEFINE n == Len(s)
           r == Front(s)
<1>1. n \in Nat \ {0}
  BY EmptySeq, LenProperties
<1>2. \A j \in 1..n : s[j] \in S
  BY ElementOfSeq
<1>3. s[n] \in S /\ Last(s) = s[n] /\ r = SubSeq(s, 1, n - 1)
  BY <1>1, <1>2 DEF Last, Front
<1>4. r \in Seq(S) /\ Len(r) = n - 1 /\ \A j \in 1..(n - 1) : r[j] = s[j]
  <2>1. /\ SubSeq(s, 1, n - 1) \in Seq(S)
        /\ Len(SubSeq(s, 1, n - 1)) = IF 1 <= n - 1 THEN n - 1 - 1 + 1 ELSE 0
        /\ \A j \in 1..(n - 1 - 1 + 1) : SubSeq(s, 1, n - 1)[j] = s[1 + j - 1]
    <3>1. \A j \in 1..(n - 1) : s[j] \in S
      BY <1>1, <1>2
    <3>. HIDE DEF n
    <3>. QED  BY <1>1, <3>1, SubSeqProperties
  <2>. HIDE DEF n, r
  <2>2. n - 1 - 1 + 1 = n - 1 /\ (1 <= n - 1 \/ n - 1 = 0)
    BY <1>1
  <2>3. \A j \in Int : 1 + j - 1 = j
    OBVIOUS
  <2>. QED  BY <1>3, <2>1, <2>2, <2>3
<1>5. s = Append(r, s[n])
  <2>1. Append(r, s[n]) \in Seq(S) /\ Len(Append(r, s[n])) = n
        /\ Append(r, s[n])[n] = s[n] /\ \A j \in 1..(n - 1) : Append(r, s[n])[j] = s[j]
    <3>1. /\ Append(r, s[n]) \in Seq(S) /\ Len(Append(r, s[n])) = Len(r) + 1
          /\ Append(r, s[n])[Len(r) + 1] = s[n] /\ \A j \in 1..Len(r) : Append(r, s[n])[j] = r[j]
      <4>. HIDE DEF n, r
      <4>. QED  BY <1>3, <1>4, MarksAppend
    <3>2. Len(r) + 1 = n
      BY <1>1, <1>4
    <3>. HIDE DEF n, r
    <3>. QED  BY <1>4, <3>1, <3>2
  <2>2. \A j \in 1..n : Append(r, s[n])[j] = s[j]
    <3>1. \A j \in 1..n : j = n \/ j \in 1..(n - 1)
      BY <1>1
    <3>. HIDE DEF n, r
    <3>. QED  BY <2>1, <3>1
  <2>. HIDE DEF r
  <2>. QED  BY <2>1, <2>2, SeqEqual
<1>6. MarksIn(s) = MarksIn(r) + One(s[n] = Mark)
  <2>. HIDE DEF n, r
  <2>1. MarksIn(Append(r, s[n])) = MarksIn(r) + One(s[n] = Mark)
    BY <1>3, <1>4, MarksAppend
  <2>. QED  BY <1>5, <2>1, Zenon
<1>. QED  BY <1>1, <1>3, <1>4, <1>6 DEF n, r

(***************************************************************************)
(* One turn of AddToQueue.                                                 *)
(***************************************************************************)
Member(pr) == (InstIds(pr) \ {0}) \cup {Mark}
Entered(w) == {w[j] : j \in 1..Len(w)}
OnceEach(w) == \A j, m \in 1..Len(w) : w[j] = w[m] /\ w[j] # Mark => j = m
IsQueue(q, w) == w \in Seq(Member(ProgOf(q))) /\ OnceEach(w)
IsTurn(q, f) ==
  f \in [stk : Seq(InstIds(ProgOf(q)) \cup {Mark}), w : Seq(Member(ProgOf(q)))] /\ OnceEach(f.w)

\* The loop in front of the program adds one Mark to each queue it is entered in.
Loop(q) == ProgOf(q).startUnanchored
Parts(q) == Loop(q) # 0 /\ MarksAfter(q, Loop(q))
Fresh(q, w) == One(Parts(q) /\ Loop(q) \notin Entered(w))

\* The Marks of a queue and those to come, until its stack is empty.
Weight(q, f) == MarksIn(f.w) + MarksIn(f.stk) + Fresh(q, f.w)

\* The stack but for what has been pushed by instructions, and but for all that
\* they could push.
Depth(q, f) == Len(f.stk) + Fresh(q, f.w) - Cardinality(Entered(f.w) \cap Pushing(ProgOf(q)))
Left(q, f) == Len(f.stk) - 3 * Cardinality(Entered(f.w) \cap InstIds(ProgOf(q)))

LEMMA OneMore ==
  ASSUME NEW X, IsFiniteSet(X), NEW E, NEW k, k \notin E
  PROVE  /\ Cardinality(E \cap X) \in Nat
         /\ Cardinality((E \cup {k}) \cap X) = Cardinality(E \cap X) + One(k \in X)
<1>1. IsFiniteSet(E \cap X) /\ Cardinality(E \cap X) \in Nat
  <2>1. E \cap X \in SUBSET X
    OBVIOUS
  <2>. QED  BY <2>1, FS_Subset, FS_CardinalityType
<1>2. CASE k \in X
  <2>1. (E \cup {k}) \cap X = (E \cap X) \cup {k} /\ k \notin E \cap X
    BY <1>2
  <2>. QED  BY <1>1, <1>2, <2>1, FS_AddElement DEF One
<1>3. CASE k \notin X
  <2>1. (E \cup {k}) \cap X = E \cap X
    BY <1>3
  <2>2. One(k \in X) = 0
    BY <1>3 DEF One
  <2>3. Cardinality(E \cap X) + 0 = Cardinality(E \cap X)
    BY <1>1
  <2>. QED  BY <1>1, <2>1, <2>2, <2>3, Zenon
<1>. QED  BY <1>1, <1>2, <1>3

LEMMA EnteredAppend ==
  ASSUME NEW S, NEW w \in Seq(S), NEW k \in S
  PROVE  Entered(Append(w, k)) = Entered(w) \cup {k}
<1> DEFINE n == Len(w)
           r == Append(w, k)
<1>1. n \in Nat /\ Len(r) = n + 1 /\ r[n + 1] = k /\ \A j \in 1..n : r[j] = w[j]
  BY MarksAppend
<1>. HIDE DEF n, r
<1>2. \A j : j \in 1..(n + 1) <=> j \in 1..n \/ j = n + 1
  BY <1>1
<1>3. Entered(r) = {r[j] : j \in 1..n} \cup {r[n + 1]}
  BY <1>1, <1>2 DEF Entered
<1>4. Entered(w) = {w[j] : j \in 1..n}
  BY DEF Entered, n
<1>5. {r[j] : j \in 1..n} = {w[j] : j \in 1..n}
  BY <1>1
<1>. QED  BY <1>1, <1>3, <1>4, <1>5 DEF r

LEMMA OnceAppend ==
  ASSUME NEW S, NEW w \in Seq(S), NEW k \in S, OnceEach(w), k = Mark \/ k \notin Entered(w)
  PROVE  OnceEach(Append(w, k))
<1> DEFINE n == Len(w)
           r == Append(w, k)
<1>1. n \in Nat /\ Len(r) = n + 1 /\ r[n + 1] = k /\ \A j \in 1..n : r[j] = w[j]
  BY MarksAppend
<1>2. k = Mark \/ \A j \in 1..n : w[j] # k
  BY DEF Entered
<1>3. \A j, m \in 1..n : w[j] = w[m] /\ w[j] # Mark => j = m
  BY DEF OnceEach
<1>. HIDE DEF n, r
<1>4. \A j \in 1..(n + 1) : j \in 1..n \/ j = n + 1
  BY <1>1
<1>. SUFFICES ASSUME NEW j \in 1..(n + 1), NEW m \in 1..(n + 1), r[j] = r[m], r[j] # Mark
              PROVE  j = m
  BY <1>1 DEF OnceEach, r
<1>. QED  BY <1>1, <1>2, <1>3, <1>4

LEMMA InProgram ==
  ASSUME NEW pr, WellFormedProg(pr)
  PROVE  /\ Len(pr.inst) \in Nat \ {0} /\ InstIds(pr) = 0..(Len(pr.inst) - 1)
         /\ IsFiniteSet(InstIds(pr)) /\ Cardinality(InstIds(pr)) = Len(pr.inst)
         /\ Mark \notin InstIds(pr) /\ \A k \in InstIds(pr) : k \in Nat
         /\ IsFiniteSet(Pushing(pr)) /\ Cardinality(Pushing(pr)) \in Nat
<1> DEFINE n == Len(pr.inst)
<1>1. n \in Nat \ {0} /\ InstIds(pr) = 0..(n - 1)
  BY DEF WellFormedProg, InstIds
<1>. HIDE DEF n
<1>2. 0..(n - 1) \subseteq Nat /\ n - 1 \in Int /\ n - 1 - 0 + 1 = n /\ ~(0 > n - 1)
  BY <1>1
<1>3. IsFiniteSet(0..(n - 1)) /\ Cardinality(0..(n - 1)) = n
  BY <1>2, FS_Interval
<1>4. Pushing(pr) \subseteq InstIds(pr)
  BY DEF Pushing
<1>5. IsFiniteSet(Pushing(pr))
  BY <1>1, <1>3, <1>4, FS_Subset
<1>6. Mark \notin Nat
  BY DEF Mark
<1>. QED  BY <1>1, <1>2, <1>3, <1>5, <1>6, FS_CardinalityType DEF n

\* No turn adds to what is to come, and each takes something from what is left.
LEMMA TurnKeeps ==
  ASSUME NEW q, WellFormedProg(ProgOf(q)), NEW flag, NEW f, IsTurn(q, f), f.stk # <<>>
  PROVE  LET g == AddStep(q, flag, f) IN
         /\ IsTurn(q, g)
         /\ Weight(q, g) <= Weight(q, f) /\ Depth(q, g) <= Depth(q, f) /\ Left(q, g) + 1 <= Left(q, f)
<1> DEFINE pr == ProgOf(q)
           g == AddStep(q, flag, f)
           St == InstIds(pr) \cup {Mark}
           stack0 == f.stk
           w == f.w
           k == Last(stack0)
           below == Front(stack0)
           n == Len(stack0)
           pushed == Cardinality(Entered(w) \cap Pushing(pr))
           entered == Cardinality(Entered(w) \cap InstIds(pr))
<1>1. stack0 \in Seq(St) /\ w \in Seq(Member(pr)) /\ OnceEach(w) /\ stack0 # <<>>
  BY DEF IsTurn
<1>2. /\ below \in Seq(St) /\ n \in Nat \ {0} /\ Len(below) = n - 1 /\ k \in St
      /\ MarksIn(stack0) = MarksIn(below) + One(k = Mark)
  BY <1>1, MarksFront
<1>3. MarksIn(below) \in Nat /\ MarksIn(w) \in Nat
  <2>. HIDE DEF below, w
  <2>. QED  BY <1>1, <1>2, MarksNat
<1>4. /\ Len(pr.inst) \in Nat \ {0} /\ InstIds(pr) = 0..(Len(pr.inst) - 1)
      /\ IsFiniteSet(InstIds(pr)) /\ Mark \notin InstIds(pr) /\ \A m \in InstIds(pr) : m \in Nat
      /\ IsFiniteSet(Pushing(pr)) /\ Pushing(pr) \subseteq InstIds(pr)
  BY InProgram DEF Pushing
<1>5. /\ pushed \in Nat /\ entered \in Nat
  <2>1. Entered(w) \cap Pushing(pr) \in SUBSET Pushing(pr) /\ Entered(w) \cap InstIds(pr) \in SUBSET InstIds(pr)
    OBVIOUS
  <2>. QED  BY <1>4, <2>1, FS_Subset, FS_CardinalityType
<1>6. Fresh(q, w) \in {0, 1} /\ Fresh(q, g.w) \in {0, 1}
  BY DEF Fresh, One
<1>7. /\ Weight(q, f) = MarksIn(w) + MarksIn(stack0) + Fresh(q, w)
      /\ Depth(q, f) = n + Fresh(q, w) - pushed
      /\ Left(q, f) = n - 3 * entered
  BY DEF Weight, Depth, Left
<1>8. /\ Weight(q, g) = MarksIn(g.w) + MarksIn(g.stk) + Fresh(q, g.w)
      /\ Depth(q, g) = Len(g.stk) + Fresh(q, g.w) - Cardinality(Entered(g.w) \cap Pushing(pr))
      /\ Left(q, g) = Len(g.stk) - 3 * Cardinality(Entered(g.w) \cap InstIds(pr))
  BY DEF Weight, Depth, Left
<1>9. Loop(q) \in InstIds(pr)
  BY DEF Loop, WellFormedProg
<1>10. CASE k = Mark
  <2>1. g.stk = below /\ g.w = Append(w, Mark) /\ g = [stk |-> below, w |-> Append(w, Mark)]
    BY <1>10 DEF AddStep
  <2>2. Mark \in Member(pr)
    BY DEF Member
  <2>3. /\ Append(w, Mark) \in Seq(Member(pr)) /\ OnceEach(Append(w, Mark))
        /\ MarksIn(Append(w, Mark)) = MarksIn(w) + 1
        /\ Entered(Append(w, Mark)) = Entered(w) \cup {Mark}
    <3>. HIDE DEF w
    <3>1. MarksIn(Append(w, Mark)) = MarksIn(w) + One(Mark = Mark) /\ Append(w, Mark) \in Seq(Member(pr))
      BY <1>1, <2>2, MarksAppend
    <3>. QED  BY <1>1, <2>2, <3>1, OnceAppend, EnteredAppend DEF One
  <2>4. Entered(g.w) \cap Pushing(pr) = Entered(w) \cap Pushing(pr)
        /\ Entered(g.w) \cap InstIds(pr) = Entered(w) \cap InstIds(pr)
        /\ (Loop(q) \in Entered(g.w) <=> Loop(q) \in Entered(w))
    <3>. HIDE DEF g, w
    <3>. QED  BY <1>4, <1>9, <2>1, <2>3
  <2>5. Fresh(q, g.w) = Fresh(q, w)
    BY <2>4 DEF Fresh
  <2>6. MarksIn(stack0) = MarksIn(below) + 1
    BY <1>2, <1>10 DEF One
  <2>7. IsTurn(q, g)
    <3>. HIDE DEF w, below
    <3>. QED  BY <1>2, <2>1, <2>3 DEF IsTurn
  <2>8. /\ MarksIn(g.w) = MarksIn(w) + 1 /\ MarksIn(g.stk) = MarksIn(below) /\ Len(g.stk) = n - 1
        /\ Cardinality(Entered(g.w) \cap Pushing(pr)) = pushed
        /\ Cardinality(Entered(g.w) \cap InstIds(pr)) = entered
    BY <1>2, <2>1, <2>3, <2>4
  <2>. HIDE DEF g, w, below, n, stack0, pushed, entered, k
  <2>. QED  BY <1>2, <1>3, <1>5, <1>6, <1>7, <1>8, <2>5, <2>6, <2>7, <2>8 DEF g
<1>11. CASE k # Mark /\ (k = 0 \/ \E j \in DOMAIN w : w[j] = k)
  <2>1. g.stk = below /\ g.w = w /\ g = [stk |-> below, w |-> w]
    BY <1>11 DEF AddStep
  <2>2. MarksIn(stack0) = MarksIn(below)
    BY <1>2, <1>3, <1>11 DEF One
  <2>3. IsTurn(q, g)
    <3>. HIDE DEF w, below
    <3>. QED  BY <1>1, <1>2, <2>1 DEF IsTurn
  <2>4. MarksIn(g.w) = MarksIn(w) /\ MarksIn(g.stk) = MarksIn(below) /\ Len(g.stk) = n - 1
        /\ Fresh(q, g.w) = Fresh(q, w)
        /\ Cardinality(Entered(g.w) \cap Pushing(pr)) = pushed
        /\ Cardinality(Entered(g.w) \cap InstIds(pr)) = entered
    BY <1>2, <2>1
  <2>. HIDE DEF g, w, below, n, stack0, pushed, entered, k
  <2>. QED  BY <1>2, <1>3, <1>5, <1>6, <1>7, <1>8, <2>2, <2>3, <2>4 DEF g
<1>12. CASE k # Mark /\ k # 0 /\ ~ \E j \in DOMAIN w : w[j] = k
  <2> DEFINE ip0 == Inst(pr, k)
             a == One(~ip0.last)
             parts == ip0.op = "Nop" /\ MarksAfter(q, k)
             follows == \/ ip0.op \in {"Capture", "Nop"}
                        \/ ip0.op = "EmptyWidth" /\ ip0.empty \subseteq flag
             b == One(parts)
             c == One(follows)
             rest == IF ip0.last THEN below ELSE Append(below, k + 1)
             parted == IF parts THEN Append(rest, Mark) ELSE rest
             all == IF follows THEN Append(parted, ip0.out) ELSE rest
  <2>1. k \in InstIds(pr) /\ k \in Member(pr)
    BY <1>2, <1>12 DEF Member
  <2>2. g.stk = all /\ g.w = Append(w, k) /\ g = [stk |-> all, w |-> Append(w, k)]
    BY <1>12 DEF AddStep
  <2>3. WellFormedInst(pr, k)
    BY <2>1 DEF WellFormedProg
  <2>4. /\ ip0.op \in {"Fail", "AltMatch", "ByteRange", "Capture", "EmptyWidth", "Nop", "Match"}
        /\ ip0.last \in BOOLEAN /\ (~ip0.last => k + 1 \in InstIds(pr))
        /\ follows => ip0.out \in InstIds(pr)
    BY <2>3 DEF WellFormedInst
  <2>5. (follows => k \in Pushing(pr)) /\ (parts => follows)
    BY <2>1 DEF Pushing
  <2>6. a \in {0, 1} /\ b \in {0, 1} /\ c \in {0, 1} /\ (~parts => b = 0) /\ (~follows => c = 0)
        /\ (follows => c = 1) /\ (parts => b = 1) /\ (ip0.last => a = 0) /\ (~ip0.last => a = 1)
    BY DEF One
  <2>. HIDE DEF ip0, parts, follows, a, b, c
  <2>7. rest \in Seq(St) /\ Len(rest) = n - 1 + a /\ MarksIn(rest) = MarksIn(below)
    <3>1. CASE ip0.last
      BY <1>2, <2>6, <3>1
    <3>2. CASE ~ip0.last
      <4>1. k + 1 \in St /\ k + 1 # Mark
        BY <1>4, <2>4, <3>2
      <4>2. /\ Append(below, k + 1) \in Seq(St) /\ Len(Append(below, k + 1)) = Len(below) + 1
            /\ MarksIn(Append(below, k + 1)) = MarksIn(below) + One(k + 1 = Mark)
        <5>. HIDE DEF below, k, St
        <5>. QED  BY <1>2, <4>1, MarksAppend
      <4>3. One(k + 1 = Mark) = 0
        BY <4>1 DEF One
      <4>4. rest = Append(below, k + 1)
        BY <3>2
      <4>. HIDE DEF below, k, St, rest, n
      <4>. QED  BY <1>2, <1>3, <2>6, <3>2, <4>2, <4>3, <4>4
    <3>. QED  BY <3>1, <3>2
  <2>8. parted \in Seq(St) /\ Len(parted) = n - 1 + a + b /\ MarksIn(parted) = MarksIn(below) + b
    <3>. HIDE DEF below, k, St, rest, n
    <3>1. CASE ~parts
      BY <1>2, <1>3, <2>6, <2>7, <3>1
    <3>2. CASE parts
      <4>1. Mark \in St
        BY DEF St
      <4>2. /\ Append(rest, Mark) \in Seq(St) /\ Len(Append(rest, Mark)) = Len(rest) + 1
            /\ MarksIn(Append(rest, Mark)) = MarksIn(rest) + One(Mark = Mark)
        BY <2>7, <4>1, MarksAppend
      <4>3. One(Mark = Mark) = 1
        BY DEF One
      <4>. QED  BY <1>2, <1>3, <2>6, <2>7, <3>2, <4>2, <4>3
    <3>. QED  BY <3>1, <3>2
  <2>9. all \in Seq(St) /\ Len(all) <= n - 1 + a + b + c /\ MarksIn(all) <= MarksIn(below) + b
        /\ MarksIn(all) \in Nat /\ Len(all) \in Nat
    <3>. HIDE DEF below, k, rest, parted, n
    <3>1. CASE ~follows
      <4>1. all = rest
        BY <3>1
      <4>. HIDE DEF all, St
      <4>. QED  BY <1>2, <1>3, <2>6, <2>7, <4>1, LenProperties
    <3>2. CASE follows
      <4>1. ip0.out \in St /\ ip0.out # Mark
        BY <1>4, <2>4, <3>2
      <4>. HIDE DEF St
      <4>2. /\ Append(parted, ip0.out) \in Seq(St) /\ Len(Append(parted, ip0.out)) = Len(parted) + 1
            /\ MarksIn(Append(parted, ip0.out)) = MarksIn(parted) + One(ip0.out = Mark)
        BY <2>8, <4>1, MarksAppend
      <4>3. One(ip0.out = Mark) = 0
        BY <4>1 DEF One
      <4>4. all = Append(parted, ip0.out)
        BY <3>2
      <4>. HIDE DEF all
      <4>. QED  BY <1>2, <1>3, <2>6, <2>8, <3>2, <4>2, <4>3, <4>4
    <3>. QED  BY <3>1, <3>2
  <2>10. k \notin Entered(w)
    <3>1. DOMAIN w = 1..Len(w)
      BY <1>1, LenProperties
    <3>. QED  BY <1>12, <3>1 DEF Entered
  <2>11. /\ Append(w, k) \in Seq(Member(pr)) /\ OnceEach(Append(w, k))
         /\ MarksIn(Append(w, k)) = MarksIn(w)
         /\ Entered(Append(w, k)) = Entered(w) \cup {k}
    <3>. HIDE DEF w, k
    <3>1. /\ MarksIn(Append(w, k)) = MarksIn(w) + One(k = Mark) /\ Append(w, k) \in Seq(Member(pr))
      BY <1>1, <2>1, MarksAppend
    <3>2. One(k = Mark) = 0
      BY <1>12 DEF One
    <3>3. OnceEach(Append(w, k)) /\ Entered(Append(w, k)) = Entered(w) \cup {k}
      BY <1>1, <2>1, <2>10, OnceAppend, EnteredAppend
    <3>. QED  BY <1>3, <3>1, <3>2, <3>3
  <2>12. Fresh(q, g.w) + b <= Fresh(q, w)
    <3>1. Entered(g.w) = Entered(w) \cup {k}
      BY <2>2, <2>11
    <3>2. CASE parts
      <4>1. k = Loop(q) /\ Parts(q)
        BY <1>12, <3>2 DEF parts, Loop, Parts, MarksAfter
      <4>2. Fresh(q, w) = 1 /\ Fresh(q, g.w) = 0
        BY <2>10, <3>1, <4>1 DEF Fresh, One
      <4>. QED  BY <2>6, <3>2, <4>2
    <3>3. CASE ~parts
      <4>1. Loop(q) \notin Entered(g.w) => Loop(q) \notin Entered(w)
        BY <3>1
      <4>2. Fresh(q, g.w) <= Fresh(q, w)
        BY <4>1 DEF Fresh, One
      <4>. QED  BY <1>6, <2>6, <3>3, <4>2
    <3>. QED  BY <3>2, <3>3
  <2>13. /\ Cardinality(Entered(g.w) \cap Pushing(pr)) = pushed + One(k \in Pushing(pr))
         /\ Cardinality(Entered(g.w) \cap InstIds(pr)) = entered + 1
    <3>1. Entered(g.w) = Entered(w) \cup {k}
      BY <2>2, <2>11
    <3>2. /\ Cardinality((Entered(w) \cup {k}) \cap Pushing(pr)) = pushed + One(k \in Pushing(pr))
          /\ Cardinality((Entered(w) \cup {k}) \cap InstIds(pr)) = entered + One(k \in InstIds(pr))
      BY <1>4, <2>10, OneMore
    <3>3. One(k \in InstIds(pr)) = 1
      BY <2>1 DEF One
    <3>. QED  BY <3>1, <3>2, <3>3
  <2>14. c <= One(k \in Pushing(pr)) /\ One(k \in Pushing(pr)) \in {0, 1}
    BY <2>5, <2>6 DEF One
  <2>15. IsTurn(q, g)
    <3>. HIDE DEF all, w, k
    <3>. QED  BY <2>2, <2>9, <2>11 DEF IsTurn
  <2>16. g.stk = all /\ MarksIn(g.w) = MarksIn(w) /\ MarksIn(stack0) = MarksIn(below)
    BY <1>2, <1>3, <1>12, <2>2, <2>11 DEF One
  <2>. HIDE DEF g, w, below, n, stack0, pushed, entered, k, all, rest, parted
  <2>17. Weight(q, g) <= Weight(q, f)
    <3>1. Weight(q, g) = MarksIn(w) + MarksIn(all) + Fresh(q, g.w)
      BY <1>8, <2>16
    <3>2. Weight(q, f) = MarksIn(w) + MarksIn(below) + Fresh(q, w)
      BY <1>7, <2>16
    <3>. QED  BY <1>3, <1>6, <2>6, <2>9, <2>12, <3>1, <3>2
  <2>18. Depth(q, g) <= Depth(q, f)
    <3>1. Depth(q, g) = Len(all) + Fresh(q, g.w) - (pushed + One(k \in Pushing(pr)))
      BY <1>8, <2>13, <2>16
    <3>2. Len(all) + Fresh(q, g.w) <= n - 1 + a + c + Fresh(q, w)
      BY <1>2, <1>6, <2>6, <2>9, <2>12
    <3>3. n - 1 + a + c <= n + One(k \in Pushing(pr))
      BY <1>2, <2>6, <2>14
    <3> DEFINE o == One(k \in Pushing(pr))
    <3>4. Len(all) \in Int /\ Fresh(q, g.w) \in Int /\ Fresh(q, w) \in Int /\ o \in Int /\ pushed \in Int
          /\ n \in Int /\ a \in Int /\ c \in Int
      BY <1>2, <1>5, <1>6, <2>6, <2>9, <2>14
    <3>. HIDE DEF o
    <3>. QED  BY <1>7, <3>1, <3>2, <3>3, <3>4 DEF o
  <2>19. Left(q, g) + 1 <= Left(q, f)
    <3>1. Left(q, g) = Len(all) - 3 * (entered + 1)
      BY <1>8, <2>13, <2>16
    <3>. QED  BY <1>2, <1>5, <1>7, <2>6, <2>9, <3>1
  <2>. QED  BY <2>15, <2>17, <2>18, <2>19 DEF g
<1>. QED  BY <1>10, <1>11, <1>12

(***************************************************************************)
(* Loops.                                                                  *)
(***************************************************************************)
\* What is defined step by step exists; g[m] is the step from m to m + 1.
IsRun(h, n, a, g) == h = [m \in 0..n |-> IF m = 0 THEN a ELSE g[m - 1][h[m - 1]]]
LEMMA Iterates ==
  ASSUME NEW S, NEW a \in S, NEW g \in [Nat -> [S -> S]]
  PROVE  \A n \in Nat : \E h \in [0..n -> S] : IsRun(h, n, a, g)
<1> USE DEF IsRun
<1> DEFINE Is(h, n) == h \in [0..n -> S] /\ IsRun(h, n, a, g)
           Bad == {n \in Nat : ~ \E h : Is(h, n)}
<1>. SUFFICES ASSUME NEW bad \in Bad PROVE FALSE
  OBVIOUS
<1>1. PICK n \in Bad : \A m \in Bad : n <= m
  <2>1. Bad \in SUBSET Nat /\ bad \in Bad
    OBVIOUS
  <2>. HIDE DEF Bad
  <2>. QED  BY <2>1, Least
<1>2. CASE n = 0
  <2>1. Is([m \in 0..0 |-> a], 0)
    OBVIOUS
  <2>. QED  BY <1>2, <2>1
<1>3. CASE n # 0
  <2>1. n \in Nat /\ n - 1 \in Nat /\ n - 1 \notin Bad
    <3>1. n \in Nat
      BY <1>1
    <3>. HIDE DEF Bad
    <3>. QED  BY <1>1, <1>3, <3>1
  <2>2. PICK h : Is(h, n - 1)
    BY <2>1
  <2> DEFINE r == [m \in 0..n |-> IF m = 0 THEN a ELSE g[m - 1][h[m - 1]]]
  <2>3. /\ h \in [0..(n - 1) -> S]
        /\ \A m \in 0..(n - 1) : h[m] = IF m = 0 THEN a ELSE g[m - 1][h[m - 1]]
    BY <2>2
  <2>4. \A m \in 0..n : r[m] = IF m = 0 THEN a ELSE g[m - 1][h[m - 1]]
    OBVIOUS
  <2>5. \A m \in (0..n) \ {0} : m - 1 \in 0..(n - 1) /\ m - 1 \in Nat
    BY <2>1
  <2>6. r \in [0..n -> S]
    <3>1. \A m \in (0..n) \ {0} : g[m - 1][h[m - 1]] \in S
      BY <2>3, <2>5
    <3>. QED  BY <3>1
  <2>7. \A m \in 0..(n - 1) : r[m] = h[m]
    <3>1. \A m \in 0..(n - 1) : m \in 0..n
      BY <2>1
    <3>. HIDE DEF r
    <3>. QED  BY <2>3, <2>4, <3>1
  <2>8. \A m \in 0..n : r[m] = IF m = 0 THEN a ELSE g[m - 1][r[m - 1]]
    <3>. HIDE DEF r
    <3>. QED  BY <2>4, <2>5, <2>7
  <2>9. r = [m \in 0..n |-> IF m = 0 THEN a ELSE g[m - 1][r[m - 1]]]
    <3>1. r = [m \in 0..n |-> r[m]]
      BY <2>6
    <3>. HIDE DEF r
    <3>2. [m \in 0..n |-> r[m]] = [m \in 0..n |-> IF m = 0 THEN a ELSE g[m - 1][r[m - 1]]]
      BY <2>8
    <3>. QED  BY <3>1, <3>2
  <2>10. Is(r, n)
    BY <2>6, <2>9
  <2>. HIDE DEF r, Is
  <2>. QED  BY <1>1, <2>10 DEF Bad
<1>. QED  BY <1>2, <1>3

(***************************************************************************)
(* AddToQueue.                                                             *)
(***************************************************************************)
After(q, flag, f) == IF f.stk = <<>> THEN f ELSE AddStep(q, flag, f)

LEMMA AddLoopIs ==
  ASSUME NEW q, WellFormedProg(ProgOf(q)), NEW flag, NEW queue, IsQueue(q, queue),
         NEW first \in InstIds(ProgOf(q)) \cup {Mark}
  PROVE  LET turn == AddLoop(q, queue, first, flag) IN
         /\ turn[0] = [stk |-> <<first>>, w |-> queue] /\ IsTurn(q, turn[0])
         /\ \A n \in 1..Turns(q) : turn[n] = After(q, flag, turn[n - 1])
<1> DEFINE T == Turns(q)
           f0 == [stk |-> <<first>>, w |-> queue]
           Is(h) == h = [n \in 0..T |-> IF n = 0 THEN f0 ELSE LET f == h[n - 1]
                                        IN IF f.stk = <<>> THEN f ELSE AddStep(q, flag, f)]
           turn == AddLoop(q, queue, first, flag)
           S == {f \in [stk : Seq(InstIds(ProgOf(q)) \cup {Mark}), w : Seq(Member(ProgOf(q)))] : OnceEach(f.w)}
           g == [m \in Nat |-> [f \in S |-> After(q, flag, f)]]
<1>1. T \in Nat
  BY InProgram DEF Turns
<1>2. f0 \in S
  BY DEF IsQueue
<1>3. \A f : f \in S <=> IsTurn(q, f)
  BY DEF IsTurn
<1>4. \A f \in S : After(q, flag, f) \in S
  BY <1>3, TurnKeeps DEF After
<1>5. g \in [Nat -> [S -> S]]
  <2>1. [f \in S |-> After(q, flag, f)] \in [S -> S]
    <3>. HIDE DEF S
    <3>. QED  BY <1>4
  <2>. HIDE DEF S
  <2>. QED  BY <2>1
<1>6. PICK h \in [0..T -> S] : h = [m \in 0..T |-> IF m = 0 THEN f0 ELSE g[m - 1][h[m - 1]]]
  <2>. HIDE DEF S, g, f0, T
  <2>1. \E h \in [0..T -> S] : IsRun(h, T, f0, g)
    BY <1>1, <1>2, <1>5, Iterates
  <2>. QED  BY <2>1 DEF IsRun
<1>7. Is(h)
  <2>1. \A m \in (0..T) \ {0} : m - 1 \in Nat /\ m - 1 \in 0..T
    BY <1>1
  <2>2. \A m \in (0..T) \ {0} : g[m - 1][h[m - 1]] = After(q, flag, h[m - 1])
    <3>1. \A m \in (0..T) \ {0} : h[m - 1] \in S
      BY <2>1
    <3>2. \A m \in Nat : \A f \in S : g[m][f] = After(q, flag, f)
      <4>. HIDE DEF S
      <4>. QED  OBVIOUS
    <3>. HIDE DEF S, g
    <3>. QED  BY <2>1, <3>1, <3>2
  <2>3. [m \in 0..T |-> IF m = 0 THEN f0 ELSE g[m - 1][h[m - 1]]]
          = [m \in 0..T |-> IF m = 0 THEN f0 ELSE After(q, flag, h[m - 1])]
    <3>. HIDE DEF S, g, f0, T
    <3>. QED  BY <2>2
  <2>4. h = [m \in 0..T |-> IF m = 0 THEN f0 ELSE After(q, flag, h[m - 1])]
    <3>. HIDE DEF S, g, f0, T
    <3>. QED  BY <1>6, <2>3
  <2>. HIDE DEF S, g, f0, T
  <2>. QED  BY <2>4 DEF After
<1>8. Is(turn)
  <2>1. turn = CHOOSE x : Is(x)
    BY Zenon DEF AddLoop
  <2>. HIDE DEF turn, Is
  <2>. QED  BY <1>7, <2>1
<1>9. turn[0] = f0 /\ \A n \in 1..T : turn[n] = After(q, flag, turn[n - 1])
  <2>1. \A n \in 0..T : turn[n] = IF n = 0 THEN f0 ELSE After(q, flag, turn[n - 1])
    <3>. HIDE DEF turn, f0, T
    <3>. QED  BY <1>8 DEF After
  <2>2. 0 \in 0..T /\ \A n \in 1..T : n \in 0..T /\ n # 0
    BY <1>1
  <2>. HIDE DEF turn, f0, T
  <2>. QED  BY <2>1, <2>2
<1>10. IsTurn(q, turn[0])
  BY <1>2, <1>3, <1>9
<1>. QED  BY <1>9, <1>10

LEMMA TurnsKeep ==
  ASSUME NEW q, WellFormedProg(ProgOf(q)), NEW flag, NEW queue, IsQueue(q, queue),
         NEW first \in InstIds(ProgOf(q)) \cup {Mark}
  PROVE  LET turn == AddLoop(q, queue, first, flag) IN
         \A n \in 0..Turns(q) :
           /\ IsTurn(q, turn[n])
           /\ Weight(q, turn[n]) <= Weight(q, turn[0]) /\ Depth(q, turn[n]) <= Depth(q, turn[0])
           /\ turn[n].stk = <<>> \/ Left(q, turn[n]) + n <= Left(q, turn[0])
<1> DEFINE T == Turns(q)
           turn == AddLoop(q, queue, first, flag)
           Ok(n) == /\ IsTurn(q, turn[n])
                    /\ Weight(q, turn[n]) <= Weight(q, turn[0]) /\ Depth(q, turn[n]) <= Depth(q, turn[0])
                    /\ turn[n].stk = <<>> \/ Left(q, turn[n]) + n <= Left(q, turn[0])
           Bad == {n \in 0..T : ~Ok(n)}
<1>1. T \in Nat
  BY InProgram DEF Turns
<1>2. /\ turn[0] = [stk |-> <<first>>, w |-> queue] /\ IsTurn(q, turn[0])
      /\ \A n \in 1..Turns(q) : turn[n] = After(q, flag, turn[n - 1])
  BY AddLoopIs
<1>. HIDE DEF turn
<1>3. \A f : IsTurn(q, f) => Weight(q, f) \in Int /\ Depth(q, f) \in Int /\ Left(q, f) \in Int
  <2>. SUFFICES ASSUME NEW f, IsTurn(q, f)
                PROVE  Weight(q, f) \in Int /\ Depth(q, f) \in Int /\ Left(q, f) \in Int
    OBVIOUS
  <2>1. f.stk \in Seq(InstIds(ProgOf(q)) \cup {Mark}) /\ f.w \in Seq(Member(ProgOf(q)))
    BY DEF IsTurn
  <2>2. MarksIn(f.w) \in Nat /\ MarksIn(f.stk) \in Nat /\ Len(f.stk) \in Nat
    BY <2>1, MarksNat, LenProperties
  <2>3. \A X \in SUBSET InstIds(ProgOf(q)) : Cardinality(Entered(f.w) \cap X) \in Nat
    <3>. SUFFICES ASSUME NEW X \in SUBSET InstIds(ProgOf(q))
                  PROVE  Cardinality(Entered(f.w) \cap X) \in Nat
      OBVIOUS
    <3>1. Entered(f.w) \cap X \in SUBSET InstIds(ProgOf(q))
      OBVIOUS
    <3>. QED  BY <3>1, InProgram, FS_Subset, FS_CardinalityType
  <2>4. Pushing(ProgOf(q)) \in SUBSET InstIds(ProgOf(q))
    BY DEF Pushing
  <2>5. Fresh(q, f.w) \in Int
    BY DEF Fresh, One
  <2>6. /\ Cardinality(Entered(f.w) \cap Pushing(ProgOf(q))) \in Nat
        /\ Cardinality(Entered(f.w) \cap InstIds(ProgOf(q))) \in Nat
    BY <2>3, <2>4
  <2>. QED  BY <2>2, <2>5, <2>6 DEF Weight, Depth, Left
<1>4. Ok(0)
  BY <1>2, <1>3
<1>5. \A n \in 1..T : Ok(n - 1) => Ok(n)
  <2>. SUFFICES ASSUME NEW n \in 1..T, Ok(n - 1)
                PROVE  Ok(n)
    OBVIOUS
  <2> DEFINE f == turn[n - 1]
             r == turn[n]
  <2>1. IsTurn(q, f) /\ r = After(q, flag, f) /\ n \in Nat
    BY <1>1, <1>2
  <2>2. CASE f.stk = <<>>
    BY <2>1, <2>2 DEF After
  <2>3. CASE f.stk # <<>>
    <3>1. r = AddStep(q, flag, f)
      BY <2>1, <2>3 DEF After
    <3>2. /\ IsTurn(q, r)
          /\ Weight(q, r) <= Weight(q, f) /\ Depth(q, r) <= Depth(q, f) /\ Left(q, r) + 1 <= Left(q, f)
      <4>. HIDE DEF r, f
      <4>. QED  BY <2>1, <2>3, <3>1, TurnKeeps
    <3>3. /\ Weight(q, f) <= Weight(q, turn[0]) /\ Depth(q, f) <= Depth(q, turn[0])
          /\ Left(q, f) + (n - 1) <= Left(q, turn[0])
      BY <2>3
    <3>4. /\ Weight(q, f) \in Int /\ Depth(q, f) \in Int /\ Left(q, f) \in Int
          /\ Weight(q, r) \in Int /\ Depth(q, r) \in Int /\ Left(q, r) \in Int
          /\ Weight(q, turn[0]) \in Int /\ Depth(q, turn[0]) \in Int /\ Left(q, turn[0]) \in Int
      <4>. HIDE DEF r, f
      <4>. QED  BY <1>2, <1>3, <2>1, <3>2
    <3>5. Weight(q, r) <= Weight(q, turn[0]) /\ Depth(q, r) <= Depth(q, turn[0])
      <4>. HIDE DEF r, f
      <4>. QED  BY <3>2, <3>3, <3>4
    <3>6. Left(q, r) + n <= Left(q, turn[0])
      <4>. HIDE DEF r, f
      <4>. QED  BY <2>1, <3>2, <3>3, <3>4
    <3>. QED  BY <3>2, <3>5, <3>6
  <2>. QED  BY <2>2, <2>3
<1>. SUFFICES ASSUME NEW bad \in Bad PROVE FALSE
  BY DEF T, turn
<1>6. PICK n \in Bad : \A m \in Bad : n <= m
  <2>1. Bad \in SUBSET Nat /\ bad \in Bad
    BY <1>1
  <2>. HIDE DEF Bad
  <2>. QED  BY <2>1, Least
<1>7. n \in 0..T /\ ~Ok(n)
  OBVIOUS
<1>. HIDE DEF Ok
<1>8. n # 0 /\ n \in 1..T /\ n - 1 \in 0..T
  BY <1>1, <1>4, <1>7
<1>9. Ok(n - 1)
  <2>1. n - 1 \notin Bad
    <3>. HIDE DEF Bad
    <3>. QED  BY <1>1, <1>6, <1>8
  <2>. QED  BY <1>8, <2>1
<1>. QED  BY <1>5, <1>7, <1>8, <1>9

\* What is left before the first turn is less than there are turns.
LEMMA AtFirst ==
  ASSUME NEW q, WellFormedProg(ProgOf(q)), NEW flag, NEW queue, IsQueue(q, queue),
         NEW first \in InstIds(ProgOf(q)) \cup {Mark}
  PROVE  LET f == AddLoop(q, queue, first, flag)[0] IN
         /\ Len(f.stk) = 1 /\ f.w = queue
         /\ Weight(q, f) = MarksIn(queue) + One(first = Mark) + Fresh(q, queue)
         /\ Depth(q, f) <= 1 + Fresh(q, queue)
         /\ Left(q, f) \in Int /\ Left(q, f) <= 1
<1> DEFINE f == AddLoop(q, queue, first, flag)[0]
           St == InstIds(ProgOf(q)) \cup {Mark}
           In1 == Cardinality(Entered(queue) \cap Pushing(ProgOf(q)))
           In2 == Cardinality(Entered(queue) \cap InstIds(ProgOf(q)))
<1>1. f.stk = <<first>> /\ f.w = queue
  <2>1. LET turn == AddLoop(q, queue, first, flag) IN
        /\ turn[0] = [stk |-> <<first>>, w |-> queue] /\ IsTurn(q, turn[0])
        /\ \A n \in 1..Turns(q) : turn[n] = After(q, flag, turn[n - 1])
    BY AddLoopIs
  <2>2. f = [stk |-> <<first>>, w |-> queue]
    BY <2>1, Zenon
  <2>. HIDE DEF f
  <2>. QED  BY <2>2
<1>2. Len(f.stk) = 1
  BY <1>1
<1>3. MarksIn(f.stk) = One(first = Mark)
  <2>1. <<first>> \in Seq(St) /\ Len(<<first>>) = 1 /\ <<first>>[1] = first
    OBVIOUS
  <2>2. {j \in 1..1 : <<first>>[j] = Mark} = IF first = Mark THEN {1} ELSE {}
    BY <2>1
  <2>3. MarksIn(<<first>>) = Cardinality(IF first = Mark THEN {1} ELSE {})
    <3>1. MarksIn(<<first>>) = Cardinality({j \in 1..Len(<<first>>) : <<first>>[j] = Mark})
      <4>. HIDE DEF St
      <4>. QED  BY <2>1, MarksNat
    <3>. QED  BY <2>1, <2>2, <3>1
  <2>. QED  BY <1>1, <2>3, FS_EmptySet, FS_Singleton DEF One
<1>4. In1 \in Nat /\ In2 \in Nat
  <2>1. /\ Entered(queue) \cap Pushing(ProgOf(q)) \in SUBSET Pushing(ProgOf(q))
        /\ Entered(queue) \cap InstIds(ProgOf(q)) \in SUBSET InstIds(ProgOf(q))
    OBVIOUS
  <2>. QED  BY <2>1, InProgram, FS_Subset, FS_CardinalityType
<1>5. /\ Weight(q, f) = MarksIn(queue) + One(first = Mark) + Fresh(q, queue)
      /\ Depth(q, f) = 1 + Fresh(q, queue) - In1
      /\ Left(q, f) = 1 - 3 * In2
  <2>. HIDE DEF f
  <2>. QED  BY <1>1, <1>2, <1>3 DEF Weight, Depth, Left
<1>6. Fresh(q, queue) \in Int
  BY DEF Fresh, One
<1>. HIDE DEF In1, In2, f
<1>. QED  BY <1>1, <1>2, <1>4, <1>5, <1>6 DEF f

\* The loop of AddToQueue ends, and the turns it is given are enough.
LEMMA LoopEnds ==
  ASSUME NEW q, WellFormedProg(ProgOf(q)), NEW flag, NEW queue, IsQueue(q, queue),
         NEW first \in InstIds(ProgOf(q)) \cup {Mark}
  PROVE  AddLoop(q, queue, first, flag)[Turns(q)].stk = <<>>
<1> DEFINE T == Turns(q)
           f == AddLoop(q, queue, first, flag)[T]
           n == Len(ProgOf(q).inst)
           has == Cardinality(Entered(f.w) \cap InstIds(ProgOf(q)))
<1>1. n \in Nat \ {0} /\ T = 3 * n /\ T \in 0..T
  BY InProgram DEF Turns
<1>2. IsTurn(q, f) /\ (f.stk = <<>> \/ Left(q, f) + T <= Left(q, AddLoop(q, queue, first, flag)[0]))
  BY <1>1, TurnsKeep
<1>3. /\ Left(q, AddLoop(q, queue, first, flag)[0]) \in Int
      /\ Left(q, AddLoop(q, queue, first, flag)[0]) <= 1
  BY AtFirst
<1>4. has \in Nat /\ has <= n - 1
  <2> DEFINE ids == InstIds(ProgOf(q))
  <2>1. 0 \notin Entered(f.w)
    <3>1. f.w \in Seq(Member(ProgOf(q)))
      BY <1>2 DEF IsTurn
    <3>2. \A j \in 1..Len(f.w) : f.w[j] \in Member(ProgOf(q))
      BY <3>1, ElementOfSeq
    <3>. QED  BY <3>2 DEF Entered, Member, Mark
  <2>2. ids = 0..(n - 1) /\ IsFiniteSet(ids) /\ Cardinality(ids) = n
    BY InProgram
  <2>3. 0 \in ids /\ Entered(f.w) \cap ids \in SUBSET (ids \ {0})
    BY <1>1, <2>1, <2>2
  <2>. HIDE DEF ids, f
  <2>4. IsFiniteSet(ids \ {0}) /\ Cardinality(ids \ {0}) = n - 1
    <3>1. ids \ {0} = 1..(n - 1) /\ 1 \in Int /\ n - 1 \in Int /\ n - 1 = IF 1 > n - 1 THEN 0 ELSE n - 1 - 1 + 1
      BY <1>1, <2>2
    <3>. QED  BY <3>1, FS_Interval
  <2>. QED  BY <2>3, <2>4, FS_Subset, FS_CardinalityType DEF ids
<1>5. Left(q, f) = Len(f.stk) - 3 * has /\ Len(f.stk) \in Nat
  BY <1>2, LenProperties DEF Left, IsTurn
<1>. SUFFICES ASSUME f.stk # <<>> PROVE FALSE
  OBVIOUS
<1>6. Len(f.stk) - 3 * has + T <= Left(q, AddLoop(q, queue, first, flag)[0])
  BY <1>2, <1>5
<1>7. Len(f.stk) # 0
  BY <1>2, EmptySeq DEF IsTurn
<1>. HIDE DEF f, n, has, T
<1>. QED  BY <1>1, <1>3, <1>4, <1>5, <1>6, <1>7

\* What a queue has got and may still get on its own.
Has(q, w) == MarksIn(w) + Fresh(q, w)

LEMMA HasNat ==
  ASSUME NEW q, NEW w, IsQueue(q, w)
  PROVE  MarksIn(w) \in Nat /\ Fresh(q, w) \in {0, 1} /\ Has(q, w) \in Nat
<1>1. w \in Seq(Member(ProgOf(q)))
  BY DEF IsQueue
<1>2. MarksIn(w) \in Nat
  BY <1>1, MarksNat
<1>3. Fresh(q, w) \in {0, 1}
  BY DEF Fresh, One
<1>. QED  BY <1>2, <1>3 DEF Has

LEMMA Added ==
  ASSUME NEW q, WellFormedProg(ProgOf(q)), NEW flag, NEW queue, IsQueue(q, queue),
         NEW first \in InstIds(ProgOf(q)) \cup {Mark}
  PROVE  LET r == AddToQueue(q, queue, first, flag) IN
         /\ IsQueue(q, r)
         /\ Has(q, r) <= Has(q, queue) + One(first = Mark)
<1> DEFINE f == AddLoop(q, queue, first, flag)[Turns(q)]
           f0 == AddLoop(q, queue, first, flag)[0]
           r == AddToQueue(q, queue, first, flag)
<1>1. r = f.w
  BY DEF AddToQueue
<1>2. Turns(q) \in 0..Turns(q)
  BY InProgram DEF Turns
<1>3. IsTurn(q, f) /\ Weight(q, f) <= Weight(q, f0)
  BY <1>2, TurnsKeep
<1>4. f.stk = <<>>
  BY LoopEnds
<1>5. Weight(q, f0) = MarksIn(queue) + One(first = Mark) + Fresh(q, queue)
  BY AtFirst
<1>. HIDE DEF f, f0, r
<1>6. MarksIn(f.stk) = 0
  <2>1. <<>> \in Seq(Int) /\ Len(<<>>) = 0 /\ 1..0 = {}
    OBVIOUS
  <2>2. \A j \in 1..Len(<<>>) : <<>>[j] # Mark
    BY <2>1
  <2>3. MarksIn(<<>>) = 0
    BY <2>1, <2>2, NoMarks, Zenon
  <2>. QED  BY <1>4, <2>3
<1>7. IsQueue(q, r)
  BY <1>1, <1>3 DEF IsTurn, IsQueue
<1>8. Weight(q, f) = Has(q, r)
  <2>1. MarksIn(r) \in Nat /\ Fresh(q, r) \in {0, 1}
    BY <1>7, HasNat
  <2>. QED  BY <1>1, <1>6, <2>1 DEF Weight, Has
<1>9. MarksIn(queue) \in Nat /\ Fresh(q, queue) \in {0, 1} /\ One(first = Mark) \in {0, 1}
  BY HasNat DEF One
<1>10. Weight(q, f0) = Has(q, queue) + One(first = Mark)
  BY <1>5, <1>9 DEF Has
<1>. QED  BY <1>3, <1>7, <1>8, <1>10 DEF r

\* AddToQueue stays in the stack that DFA's constructor allocates, whatever queue it
\* enters an instruction in.
LEMMA StackIsLarge ==
  ASSUME NEW q, WellFormedProg(ProgOf(q)), NEW flag, NEW queue, IsQueue(q, queue),
         NEW first \in InstIds(ProgOf(q)) \cup {Mark}, NEW n \in 0..Turns(q)
  PROVE  Len(AddLoop(q, queue, first, flag)[n].stk) <= StackSize(q)
<1> DEFINE f == AddLoop(q, queue, first, flag)[n]
           f0 == AddLoop(q, queue, first, flag)[0]
           pushing == Pushing(ProgOf(q))
           pushed == Cardinality(Entered(f.w) \cap pushing)
<1>1. IsTurn(q, f) /\ Depth(q, f) <= Depth(q, f0)
  BY TurnsKeep
<1>2. Depth(q, f0) <= 1 + Fresh(q, queue)
  BY AtFirst
<1>3. Depth(q, f) = Len(f.stk) + Fresh(q, f.w) - pushed /\ Len(f.stk) \in Nat
  BY <1>1, LenProperties DEF Depth, IsTurn
<1>4. pushed \in Nat /\ pushed <= Cardinality(pushing) /\ Cardinality(pushing) \in Nat
  <2>1. Entered(f.w) \cap pushing \in SUBSET pushing
    OBVIOUS
  <2>. QED  BY <2>1, InProgram, FS_Subset, FS_CardinalityType
<1>5. Fresh(q, f.w) \in {0, 1}
  BY DEF Fresh, One
<1>6. Fresh(q, queue) <= MaxMark(q) /\ MaxMark(q) \in Nat /\ Fresh(q, queue) \in {0, 1}
  <2>1. Len(ProgOf(q).inst) \in Nat \ {0}
    BY InProgram
  <2>2. First(q) => ~Parts(q)
    BY DEF Parts, MarksAfter
  <2>. QED  BY <2>1, <2>2 DEF Fresh, One, MaxMark
<1>7. Depth(q, f0) \in Int
  <2>1. IsTurn(q, f0)
    BY AddLoopIs, Zenon
  <2>2. Len(f0.stk) \in Nat
    BY <2>1, LenProperties DEF IsTurn
  <2>3. Cardinality(Entered(f0.w) \cap pushing) \in Nat
    <3>1. Entered(f0.w) \cap pushing \in SUBSET pushing
      OBVIOUS
    <3>. QED  BY <3>1, InProgram, FS_Subset, FS_CardinalityType
  <2>4. Fresh(q, f0.w) \in {0, 1}
    BY DEF Fresh, One
  <2>. HIDE DEF f0
  <2>. QED  BY <2>2, <2>3, <2>4 DEF Depth
<1>8. StackSize(q) = Cardinality(pushing) + MaxMark(q) + 1
  BY DEF StackSize
<1>. HIDE DEF f, f0, pushing, pushed
<1>9. Len(f.stk) + Fresh(q, f.w) - pushed <= 1 + Fresh(q, queue)
  BY <1>1, <1>2, <1>3, <1>4, <1>5, <1>6, <1>7
<1>10. Len(f.stk) <= 1 + MaxMark(q) + pushed
  BY <1>3, <1>4, <1>5, <1>6, <1>9
<1>. QED  BY <1>3, <1>4, <1>6, <1>8, <1>10 DEF f

LEMMA EmptyQueue ==
  ASSUME NEW q
  PROVE  IsQueue(q, <<>>) /\ MarksIn(<<>>) = 0 /\ Has(q, <<>>) = One(Parts(q)) /\ One(Parts(q)) \in {0, 1}
<1>1. <<>> \in Seq(Int) /\ Len(<<>>) = 0 /\ 1..0 = {}
  OBVIOUS
<1>2. MarksIn(<<>>) = 0
  <2>1. \A j \in 1..Len(<<>>) : <<>>[j] # Mark
    BY <1>1
  <2>. QED  BY <1>1, <2>1, NoMarks, Zenon
<1>3. Fresh(q, <<>>) = One(Parts(q))
  <2>1. Entered(<<>>) = {}
    BY <1>1 DEF Entered
  <2>2. (Parts(q) /\ Loop(q) \notin Entered(<<>>)) <=> Parts(q)
    BY <2>1
  <2>. QED  BY <2>2 DEF Fresh, One
<1>4. IsQueue(q, <<>>)
  <2>1. OnceEach(<<>>)
    BY <1>1 DEF OnceEach
  <2>. QED  BY <2>1 DEF IsQueue
<1>5. One(Parts(q)) \in {0, 1}
  BY DEF One
<1>. QED  BY <1>2, <1>3, <1>4, <1>5 DEF Has

(***************************************************************************)
(* Lists in a queue.  An instruction that is no head comes behind the one  *)
(* in front of it in the program, and one that is not the last of its list *)
(* brings the next one along.                                              *)
(***************************************************************************)
\* What k needs to have in front of it.
Led(q, X, k) == k # Mark /\ ~IsHead(ProgOf(q), k) => k - 1 \in X
InOrder(q, w) == \A j \in 1..Len(w) : Led(q, {w[m] : m \in 1..(j - 1)}, w[j])
Goes(q, X, k) == k # Mark /\ ~Inst(ProgOf(q), k).last => k + 1 \in X
Whole(q, w) == InOrder(q, w) /\ \A k \in Entered(w) : Goes(q, Entered(w), k)

\* The same while instructions wait on the stack.
Ahead(f) == Entered(f.w) \cup Entered(f.stk)
Linked(q, f) ==
  /\ InOrder(q, f.w)
  /\ \A k \in Entered(f.stk) : Led(q, Entered(f.w), k)
  /\ \A k \in Entered(f.w) : Goes(q, Ahead(f), k)

LEMMA EnteredFront ==
  ASSUME NEW S, NEW s \in Seq(S), s # <<>>
  PROVE  Entered(s) = Entered(Front(s)) \cup {Last(s)}
<1> DEFINE n == Len(s)
           r == Front(s)
<1>1. n \in Nat \ {0} /\ Len(r) = n - 1 /\ Last(s) = s[n] /\ \A j \in 1..(n - 1) : r[j] = s[j]
  BY MarksFront
<1>. HIDE DEF n, r
<1>2. \A j : j \in 1..n <=> j \in 1..(n - 1) \/ j = n
  BY <1>1
<1>3. {s[j] : j \in 1..n} = {s[j] : j \in 1..(n - 1)} \cup {s[n]}
  BY <1>2
<1>4. {s[j] : j \in 1..(n - 1)} = {r[j] : j \in 1..(n - 1)}
  BY <1>1
<1>5. Entered(s) = {s[j] : j \in 1..n} /\ Entered(r) = {r[j] : j \in 1..(n - 1)}
  BY <1>1 DEF Entered, n
<1>. QED  BY <1>1, <1>3, <1>4, <1>5 DEF r

LEMMA OrderAppend ==
  ASSUME NEW q, NEW S, NEW w \in Seq(S), NEW k \in S, InOrder(q, w), Led(q, Entered(w), k)
  PROVE  InOrder(q, Append(w, k))
<1> DEFINE n == Len(w)
           r == Append(w, k)
           Front1(s, j) == {s[m] : m \in 1..(j - 1)}
<1>1. n \in Nat /\ Len(r) = n + 1 /\ r[n + 1] = k /\ \A j \in 1..n : r[j] = w[j]
  BY MarksAppend
<1>. HIDE DEF r
<1>2. \A j \in 1..n : Led(q, Front1(w, j), w[j])
  BY DEF InOrder
<1>3. Led(q, Front1(w, n + 1), k)
  <2>1. n + 1 - 1 = n
    BY <1>1
  <2>. QED  BY <2>1 DEF Entered
<1>. HIDE DEF n
<1>4. \A j \in 1..(n + 1) : Front1(r, j) = Front1(w, j)
  <2>1. \A j \in 1..(n + 1) : \A m \in 1..(j - 1) : m \in 1..n
    BY <1>1
  <2>. QED  BY <1>1, <2>1
<1>5. \A j \in 1..(n + 1) : j \in 1..n \/ j = n + 1
  BY <1>1
<1>. HIDE DEF Front1
<1>6. \A j \in 1..Len(r) : Led(q, Front1(r, j), r[j])
  BY <1>1, <1>2, <1>3, <1>4, <1>5
<1>. QED  BY <1>6 DEF InOrder, Front1, r

\* A turn of AddToQueue loses nothing.
LEMMA TurnLinks ==
  ASSUME NEW q, WellFormedProg(ProgOf(q)), NEW flag, NEW f, IsTurn(q, f), f.stk # <<>>, Linked(q, f)
  PROVE  LET g == AddStep(q, flag, f) IN
         Linked(q, g) /\ Entered(f.w) \subseteq Entered(g.w) /\ Ahead(f) \ {0} \subseteq Ahead(g)
<1> DEFINE pr == ProgOf(q)
           g == AddStep(q, flag, f)
           St == InstIds(pr) \cup {Mark}
           w == f.w
           k == Last(f.stk)
           below == Front(f.stk)
<1>1. /\ f.stk \in Seq(St) /\ w \in Seq(Member(pr))
      /\ \A m \in Entered(w) : m \in Member(pr)
  <2>1. f.stk \in Seq(St) /\ w \in Seq(Member(pr))
    BY DEF IsTurn
  <2>. QED  BY <2>1, ElementOfSeq DEF Entered
<1>2. /\ below \in Seq(St) /\ k \in St /\ Entered(f.stk) = Entered(below) \cup {k}
  BY <1>1, MarksFront, EnteredFront
<1>3. Mark \notin InstIds(pr) /\ \A m \in InstIds(pr) : m \in Nat
  BY InProgram
<1>4. /\ InOrder(q, w) /\ Led(q, Entered(w), k)
      /\ \A m \in Entered(below) : Led(q, Entered(w), m)
      /\ \A m \in Entered(w) : Goes(q, Entered(w) \cup Entered(below) \cup {k}, m)
  BY <1>2 DEF Linked, Ahead
<1>5. CASE k = Mark
  <2>1. g.stk = below /\ g.w = Append(w, Mark)
    BY <1>5 DEF AddStep
  <2>2. Mark \in Member(pr)
    BY DEF Member
  <2>3. InOrder(q, g.w) /\ Entered(g.w) = Entered(w) \cup {Mark}
    <3>. HIDE DEF g, w, k
    <3>. QED  BY <1>1, <1>4, <1>5, <2>1, <2>2, OrderAppend, EnteredAppend
  <2>. HIDE DEF g, w, below, k
  <2>4. Goes(q, Ahead(g), Mark)
    BY DEF Goes
  <2>5. \A m \in Entered(g.w) : Goes(q, Ahead(g), m)
    BY <1>4, <1>5, <2>1, <2>3, <2>4 DEF Ahead, Goes
  <2>6. \A m \in Entered(g.stk) : Led(q, Entered(g.w), m)
    BY <1>4, <2>1, <2>3 DEF Led
  <2>. QED  BY <1>2, <1>5, <2>1, <2>3, <2>5, <2>6 DEF Linked, Ahead, g, w
<1>6. CASE k # Mark /\ (k = 0 \/ \E j \in DOMAIN w : w[j] = k)
  <2>1. g.stk = below /\ g.w = w
    BY <1>6 DEF AddStep
  <2>2. k = 0 \/ k \in Entered(w)
    <3>1. DOMAIN w = 1..Len(w)
      BY <1>1, LenProperties
    <3>. QED  BY <1>6, <3>1 DEF Entered
  <2>3. \A m \in Entered(w) : m # Mark => m + 1 # 0
    BY <1>1, <1>3 DEF Member
  <2>. HIDE DEF g, w, below, k
  <2>4. \A m \in Entered(g.w) : Goes(q, Ahead(g), m)
    BY <1>4, <2>1, <2>2, <2>3 DEF Ahead, Goes
  <2>. QED  BY <1>2, <1>4, <2>1, <2>2, <2>4 DEF Linked, Ahead, g, w
<1>7. CASE k # Mark /\ k # 0 /\ ~ \E j \in DOMAIN w : w[j] = k
  <2> DEFINE ip0 == Inst(pr, k)
             parts == ip0.op = "Nop" /\ MarksAfter(q, k)
             follows == \/ ip0.op \in {"Capture", "Nop"}
                        \/ ip0.op = "EmptyWidth" /\ ip0.empty \subseteq flag
             rest == IF ip0.last THEN below ELSE Append(below, k + 1)
             parted == IF parts THEN Append(rest, Mark) ELSE rest
             all == IF follows THEN Append(parted, ip0.out) ELSE rest
  <2>1. k \in InstIds(pr) /\ k \in Member(pr)
    BY <1>2, <1>7 DEF Member
  <2>2. g.stk = all /\ g.w = Append(w, k)
    BY <1>7 DEF AddStep
  <2>3. WellFormedInst(pr, k)
    BY <2>1 DEF WellFormedProg
  <2>4. /\ ip0.last \in BOOLEAN /\ (~ip0.last => k + 1 \in InstIds(pr))
        /\ follows => ip0.out \in InstIds(pr) /\ IsHead(pr, ip0.out)
    BY <2>3 DEF WellFormedInst
  <2>. HIDE DEF ip0, parts, follows
  <2>5. rest \in Seq(St) /\ Entered(rest) = Entered(below) \cup (IF ip0.last THEN {} ELSE {k + 1})
    <3>1. CASE ip0.last
      BY <1>2, <3>1
    <3>2. CASE ~ip0.last
      <4>1. k + 1 \in St
        BY <2>4, <3>2
      <4>2. Append(below, k + 1) \in Seq(St) /\ Entered(Append(below, k + 1)) = Entered(below) \cup {k + 1}
        <5>. HIDE DEF below, k, St
        <5>. QED  BY <1>2, <4>1, MarksAppend, EnteredAppend
      <4>. HIDE DEF below, k, St
      <4>. QED  BY <3>2, <4>2
    <3>. QED  BY <3>1, <3>2
  <2>6. parted \in Seq(St) /\ Entered(rest) \subseteq Entered(parted) /\ Entered(parted) \subseteq Entered(rest) \cup {Mark}
    <3>. HIDE DEF rest
    <3>1. CASE ~parts
      BY <2>5, <3>1
    <3>2. CASE parts
      <4>1. Append(rest, Mark) \in Seq(St) /\ Entered(Append(rest, Mark)) = Entered(rest) \cup {Mark}
        <5>1. Mark \in St
          OBVIOUS
        <5>. HIDE DEF St
        <5>. QED  BY <2>5, <5>1, MarksAppend, EnteredAppend
      <4>. QED  BY <3>2, <4>1
    <3>. QED  BY <3>1, <3>2
  <2>7. Entered(rest) \subseteq Entered(all)
        /\ \A m \in Entered(all) : m \in Entered(rest) \/ m = Mark \/ IsHead(pr, m)
    <3>. HIDE DEF rest, parted
    <3>1. CASE ~follows
      BY <3>1
    <3>2. CASE follows
      <4>1. Entered(Append(parted, ip0.out)) = Entered(parted) \cup {ip0.out}
        <5>1. ip0.out \in St
          BY <2>4, <3>2
        <5>. HIDE DEF St
        <5>. QED  BY <2>6, <5>1, EnteredAppend
      <4>. QED  BY <2>4, <2>6, <3>2, <4>1
    <3>. QED  BY <3>1, <3>2
  <2>8. InOrder(q, g.w) /\ Entered(g.w) = Entered(w) \cup {k}
    <3>. HIDE DEF g, w, k
    <3>. QED  BY <1>1, <1>4, <2>1, <2>2, OrderAppend, EnteredAppend
  <2>9. Ahead(g) = Entered(w) \cup {k} \cup Entered(all)
    BY <2>2, <2>8 DEF Ahead
  <2>10. Entered(below) \subseteq Entered(rest) /\ (~ip0.last => k + 1 \in Entered(rest))
    <3>. HIDE DEF rest, below
    <3>. QED  BY <2>5
  <2>11. \A m \in Entered(rest) : m \in Entered(below) \/ m = k + 1
    <3>. HIDE DEF rest, below
    <3>. QED  BY <2>5
  <2>12. k \in Nat
    BY <1>3, <2>1
  <2>. HIDE DEF g, w, below, k, all, rest, parted
  <2>13. \A m \in Entered(g.stk) : Led(q, Entered(g.w), m)
    <3>1. \A m \in Entered(below) : Led(q, Entered(g.w), m)
      BY <1>4, <2>8 DEF Led
    <3>2. Led(q, Entered(g.w), k + 1)
      <4> DEFINE next == k + 1
      <4>1. next - 1 \in Entered(g.w)
        <5>1. k \in Entered(g.w)
          BY <2>8
        <5>. QED  BY <2>12, <5>1
      <4>. HIDE DEF next
      <4>2. Led(q, Entered(g.w), next)
        BY <4>1 DEF Led
      <4>. QED  BY <4>2 DEF next
    <3>3. \A m \in Entered(all) : m \in Entered(below) \/ m = k + 1 \/ m = Mark \/ IsHead(pr, m)
      BY <2>7, <2>11
    <3>. QED  BY <2>2, <3>1, <3>2, <3>3 DEF Led
  <2>14. \A m \in Entered(g.w) : Goes(q, Ahead(g), m)
    <3>1. Goes(q, Ahead(g), k)
      BY <2>7, <2>9, <2>10 DEF Goes, ip0
    <3>2. \A m \in Entered(w) : Goes(q, Ahead(g), m)
      BY <1>4, <2>7, <2>9, <2>10 DEF Goes
    <3>. QED  BY <2>8, <3>1, <3>2
  <2>15. Ahead(f) \subseteq Ahead(g)
    BY <1>2, <2>7, <2>9, <2>10 DEF Ahead, w
  <2>. QED  BY <2>8, <2>13, <2>14, <2>15 DEF Linked, g, w
<1>. QED  BY <1>5, <1>6, <1>7

LEMMA AddedWhole ==
  ASSUME NEW q, WellFormedProg(ProgOf(q)), NEW flag, NEW queue, IsQueue(q, queue), Whole(q, queue),
         NEW first \in InstIds(ProgOf(q)) \cup {Mark}, Led(q, Entered(queue), first)
  PROVE  LET r == AddToQueue(q, queue, first, flag) IN
         Whole(q, r) /\ Entered(queue) \subseteq Entered(r) /\ (first # 0 => first \in Entered(r))
<1> DEFINE T == Turns(q)
           turn == AddLoop(q, queue, first, flag)
           start == Entered(queue) \cup {first}
           Ok(n) == Linked(q, turn[n]) /\ start \ {0} \subseteq Ahead(turn[n])
           Bad == {n \in 0..T : ~Ok(n)}
<1>1. T \in Nat
  BY InProgram DEF Turns
<1>2. /\ turn[0] = [stk |-> <<first>>, w |-> queue] /\ IsTurn(q, turn[0])
      /\ \A n \in 1..T : turn[n] = After(q, flag, turn[n - 1])
  BY AddLoopIs
<1>3. \A n \in 0..T : IsTurn(q, turn[n])
  BY TurnsKeep
<1>4. turn[T].stk = <<>>
  BY LoopEnds
<1>5. AddToQueue(q, queue, first, flag) = turn[T].w
  BY DEF AddToQueue
<1>. HIDE DEF turn, T
<1>6. Ok(0)
  <2>1. Entered(<<first>>) = {first}
    <3>1. Len(<<first>>) = 1 /\ <<first>>[1] = first /\ 1..1 = {1}
      OBVIOUS
    <3>. QED  BY <3>1 DEF Entered
  <2>2. Entered(turn[0].stk) = {first} /\ Entered(turn[0].w) = Entered(queue) /\ turn[0].w = queue
    BY <1>2, <2>1
  <2>3. Ahead(turn[0]) = start
    BY <2>2 DEF Ahead
  <2>. HIDE DEF start
  <2>4. \A k \in Entered(queue) : Goes(q, start, k)
    BY DEF Whole, Goes, start
  <2>5. Linked(q, turn[0])
    BY <2>2, <2>3, <2>4 DEF Linked, Whole
  <2>. QED  BY <2>3, <2>5
<1>7. \A n \in 1..T : Ok(n - 1) => Ok(n)
  <2>. SUFFICES ASSUME NEW n \in 1..T, Ok(n - 1)
                PROVE  Ok(n)
    OBVIOUS
  <2> DEFINE f == turn[n - 1]
             r == turn[n]
  <2>1. IsTurn(q, f) /\ r = After(q, flag, f)
    <3>1. n - 1 \in 0..T
      BY <1>1
    <3>. QED  BY <1>2, <1>3, <3>1
  <2>2. CASE f.stk = <<>>
    BY <2>1, <2>2 DEF After
  <2>3. CASE f.stk # <<>>
    <3>1. r = AddStep(q, flag, f)
      BY <2>1, <2>3 DEF After
    <3>2. Linked(q, f) /\ start \ {0} \subseteq Ahead(f)
      OBVIOUS
    <3>. HIDE DEF r, f, start
    <3>3. Linked(q, r) /\ Ahead(f) \ {0} \subseteq Ahead(r)
      BY <2>1, <2>3, <3>1, <3>2, TurnLinks
    <3>4. start \ {0} \subseteq Ahead(r)
      BY <3>2, <3>3
    <3>. QED  BY <3>3, <3>4 DEF r
  <2>. QED  BY <2>2, <2>3
<1>8. Ok(T)
  <2>. SUFFICES ASSUME ~Ok(T) PROVE FALSE
    OBVIOUS
  <2>. HIDE DEF Ok
  <2>1. T \in Bad /\ Bad \in SUBSET Nat
    BY <1>1
  <2>2. PICK n \in Bad : \A m \in Bad : n <= m
    <3>. HIDE DEF Bad
    <3>. QED  BY <2>1, Least
  <2>3. n \in 0..T /\ ~Ok(n)
    OBVIOUS
  <2>4. n # 0 /\ n \in 1..T /\ n - 1 \in 0..T
    BY <1>1, <1>6, <2>3
  <2>5. Ok(n - 1)
    <3>1. n - 1 \notin Bad
      <4>. HIDE DEF Bad
      <4>. QED  BY <1>1, <2>2, <2>4
    <3>. QED  BY <2>4, <3>1
  <2>. QED  BY <1>7, <2>3, <2>4, <2>5
<1> DEFINE r == turn[T].w
<1>9. Entered(<<>>) = {}
  <2>1. Len(<<>>) = 0 /\ 1..0 = {}
    OBVIOUS
  <2>. QED  BY <2>1 DEF Entered
<1>10. Ahead(turn[T]) = Entered(r)
  BY <1>4, <1>9 DEF Ahead
<1>11. Linked(q, turn[T]) /\ start \ {0} \subseteq Entered(r)
  BY <1>8, <1>10
<1>12. Whole(q, r)
  <2>1. InOrder(q, turn[T].w) /\ \A k \in Entered(turn[T].w) : Goes(q, Ahead(turn[T]), k)
    BY <1>11 DEF Linked
  <2>. QED  BY <1>10, <2>1 DEF Whole
<1>13. 0 \notin Entered(queue)
  <2>1. \A j \in 1..Len(queue) : queue[j] \in Member(ProgOf(q))
    BY ElementOfSeq DEF IsQueue
  <2>. QED  BY <2>1 DEF Entered, Member, Mark
<1>. HIDE DEF r
<1>14. Entered(queue) \subseteq Entered(r) /\ (first # 0 => first \in Entered(r))
  BY <1>11, <1>13
<1>. QED  BY <1>5, <1>12, <1>14 DEF r

(***************************************************************************)
(* The queue of a state: StateToWorkq and RunWorkqOnEmptyString.           *)
(***************************************************************************)
\* The Marks among the first n of s.
MarksTo(s, n) == Cardinality({j \in 1..n : s[j] = Mark})

LEMMA MarksToNext ==
  ASSUME NEW s, NEW n \in Nat
  PROVE  /\ MarksTo(s, n) \in Nat /\ MarksTo(s, 0) = 0
         /\ MarksTo(s, n + 1) = MarksTo(s, n) + One(s[n + 1] = Mark)
<1> DEFINE M(m) == {j \in 1..m : s[j] = Mark}
<1>1. IsFiniteSet(M(n))
  <2>1. IsFiniteSet(1..n)
    BY FS_Interval
  <2>. QED  BY <2>1, FS_Subset
<1>2. MarksTo(s, n) \in Nat
  BY <1>1, FS_CardinalityType DEF MarksTo
<1>3. MarksTo(s, 0) = 0
  <2>1. M(0) = {}
    OBVIOUS
  <2>. QED  BY <2>1, FS_EmptySet DEF MarksTo
<1>4. M(n + 1) = M(n) \cup (IF s[n + 1] = Mark THEN {n + 1} ELSE {}) /\ n + 1 \notin M(n)
  <2>1. \A j : j \in 1..(n + 1) <=> j \in 1..n \/ j = n + 1
    OBVIOUS
  <2>2. n + 1 \notin 1..n
    OBVIOUS
  <2>. QED  BY <2>1, <2>2
<1>5. MarksTo(s, n) = Cardinality(M(n)) /\ MarksTo(s, n + 1) = Cardinality(M(n + 1))
  BY DEF MarksTo
<1>. HIDE DEF M
<1>6. CASE s[n + 1] = Mark
  BY <1>1, <1>2, <1>3, <1>4, <1>5, <1>6, FS_AddElement DEF One
<1>7. CASE s[n + 1] # Mark
  BY <1>2, <1>3, <1>4, <1>5, <1>7 DEF One
<1>. QED  BY <1>6, <1>7

LEMMA MarksToLess ==
  ASSUME NEW s, NEW n \in Nat, NEW m \in Nat, n <= m
  PROVE  MarksTo(s, n) <= MarksTo(s, m)
<1>1. IsFiniteSet({j \in 1..m : s[j] = Mark})
  <2>1. IsFiniteSet(1..m)
    BY FS_Interval
  <2>. QED  BY <2>1, FS_Subset
<1>2. {j \in 1..n : s[j] = Mark} \in SUBSET {j \in 1..m : s[j] = Mark}
  OBVIOUS
<1>. QED  BY <1>1, <1>2, FS_Subset DEF MarksTo

\* The queue after the first n of seq.
LEMMA AllAdded ==
  ASSUME NEW q, WellFormedProg(ProgOf(q)), NEW flag, NEW seq \in Seq(Member(ProgOf(q)))
  PROVE  LET w == AddAll(q, seq, flag) IN
         /\ IsQueue(q, w) /\ Has(q, w) <= MarksIn(seq) + One(Parts(q))
         /\ InOrder(q, seq) => Whole(q, w)
<1> DEFINE T == Len(seq)
           Done(n) == {seq[m] : m \in 1..n}
           Sound(w, n) == InOrder(q, seq) => Whole(q, w) /\ Done(n) \subseteq Entered(w)
           Is(h) == h = [n \in 0..T |-> IF n = 0 THEN <<>>
                                        ELSE LET w == h[n - 1] IN AddToQueue(q, w, seq[n], flag)]
           all == CHOOSE x : Is(x)
           S == {w \in Seq(Member(ProgOf(q))) : OnceEach(w)}
           g == [m \in Nat |-> [w \in S |-> IF m + 1 \in 1..T THEN AddToQueue(q, w, seq[m + 1], flag) ELSE w]]
<1>1. T \in Nat /\ \A n \in 1..T : seq[n] \in InstIds(ProgOf(q)) \cup {Mark}
  <2>1. T \in Nat
    BY LenProperties
  <2>2. \A n \in 1..T : seq[n] \in Member(ProgOf(q))
    BY ElementOfSeq
  <2>. QED  BY <2>1, <2>2 DEF Member
<1>2. <<>> \in S /\ Sound(<<>>, 0)
  <2>1. Len(<<>>) = 0 /\ 1..0 = {}
    OBVIOUS
  <2>2. Whole(q, <<>>) /\ Done(0) = {}
    BY <2>1 DEF Whole, InOrder, Entered
  <2>. QED  BY <2>1, <2>2 DEF OnceEach
<1>3. \A w : w \in S <=> IsQueue(q, w)
  BY DEF IsQueue
<1>4. \A n \in 1..T : \A w \in S :
         /\ AddToQueue(q, w, seq[n], flag) \in S
         /\ Has(q, AddToQueue(q, w, seq[n], flag)) <= Has(q, w) + One(seq[n] = Mark)
  <2>. SUFFICES ASSUME NEW n \in 1..T, NEW w \in S
                PROVE  /\ IsQueue(q, AddToQueue(q, w, seq[n], flag))
                       /\ Has(q, AddToQueue(q, w, seq[n], flag)) <= Has(q, w) + One(seq[n] = Mark)
    BY <1>3
  <2>1. seq[n] \in InstIds(ProgOf(q)) \cup {Mark} /\ IsQueue(q, w)
    BY <1>1, <1>3
  <2>2. LET r == AddToQueue(q, w, seq[n], flag) IN
        /\ IsQueue(q, r)
        /\ Has(q, r) <= Has(q, w) + One(seq[n] = Mark)
    BY <2>1, Added
  <2>. QED  BY <2>2, Zenon
<1>5. \A n \in 1..T : \A w \in S : Sound(w, n - 1) => Sound(AddToQueue(q, w, seq[n], flag), n)
  <2>. SUFFICES ASSUME NEW n \in 1..T, NEW w \in S, InOrder(q, seq), Whole(q, w), Done(n - 1) \subseteq Entered(w)
                PROVE  LET r == AddToQueue(q, w, seq[n], flag) IN Whole(q, r) /\ Done(n) \subseteq Entered(r)
    OBVIOUS
  <2> DEFINE r == AddToQueue(q, w, seq[n], flag)
  <2>1. seq[n] \in InstIds(ProgOf(q)) \cup {Mark} /\ seq[n] # 0 /\ IsQueue(q, w)
    <3>1. seq[n] \in Member(ProgOf(q))
      BY ElementOfSeq
    <3>. QED  BY <1>1, <1>3, <3>1 DEF Member, Mark
  <2>2. Led(q, Entered(w), seq[n])
    <3>1. Led(q, Done(n - 1), seq[n])
      BY DEF InOrder
    <3>. HIDE DEF Done
    <3>. QED  BY <3>1 DEF Led
  <2>3. Whole(q, r) /\ Entered(w) \subseteq Entered(r) /\ seq[n] \in Entered(r)
    <3>1. LET v == AddToQueue(q, w, seq[n], flag) IN
          Whole(q, v) /\ Entered(w) \subseteq Entered(v) /\ (seq[n] # 0 => seq[n] \in Entered(v))
      BY <2>1, <2>2, AddedWhole
    <3>. QED  BY <2>1, <3>1, Zenon
  <2>4. Done(n) = Done(n - 1) \cup {seq[n]}
    <3>1. \A m : m \in 1..n <=> m \in 1..(n - 1) \/ m = n
      BY <1>1
    <3>. QED  BY <3>1
  <2>. HIDE DEF r, Done
  <2>. QED  BY <2>3, <2>4 DEF r
<1>. HIDE DEF S, Sound
<1>6. g \in [Nat -> [S -> S]]
  <2>1. \A m \in Nat : \A w \in S : (IF m + 1 \in 1..T THEN AddToQueue(q, w, seq[m + 1], flag) ELSE w) \in S
    BY <1>4
  <2>. QED  BY <2>1
<1>7. PICK h \in [0..T -> S] : h = [m \in 0..T |-> IF m = 0 THEN <<>> ELSE g[m - 1][h[m - 1]]]
  <2>. HIDE DEF g, T
  <2>1. \E h \in [0..T -> S] : IsRun(h, T, <<>>, g)
    BY <1>1, <1>2, <1>6, Iterates
  <2>. QED  BY <2>1 DEF IsRun
<1>8. Is(h)
  <2>1. \A m \in (0..T) \ {0} : m - 1 \in Nat /\ m - 1 \in 0..T /\ m - 1 + 1 = m /\ m \in 1..T
    BY <1>1
  <2>2. \A m \in (0..T) \ {0} : g[m - 1][h[m - 1]] = AddToQueue(q, h[m - 1], seq[m], flag)
    <3>1. \A m \in (0..T) \ {0} : h[m - 1] \in S
      BY <2>1
    <3>2. \A m \in Nat : \A w \in S : g[m][w] = IF m + 1 \in 1..T THEN AddToQueue(q, w, seq[m + 1], flag) ELSE w
      OBVIOUS
    <3>. HIDE DEF g, T
    <3>. QED  BY <2>1, <3>1, <3>2
  <2>3. [m \in 0..T |-> IF m = 0 THEN <<>> ELSE g[m - 1][h[m - 1]]]
          = [m \in 0..T |-> IF m = 0 THEN <<>> ELSE AddToQueue(q, h[m - 1], seq[m], flag)]
    <3>. HIDE DEF g, T
    <3>. QED  BY <2>2
  <2>. HIDE DEF g, T
  <2>. QED  BY <1>7, <2>3
<1>9. Is(all)
  <2>. HIDE DEF Is
  <2>. QED  BY <1>8
<1>10. AddAll(q, seq, flag) = all[T]
  BY Zenon DEF AddAll
<1>11. \A n \in 0..T : all[n] = IF n = 0 THEN <<>> ELSE AddToQueue(q, all[n - 1], seq[n], flag)
  <2>. HIDE DEF all, T
  <2>. QED  BY <1>9
<1> DEFINE Ok(n) == all[n] \in S /\ Has(q, all[n]) <= MarksTo(seq, n) + One(Parts(q)) /\ Sound(all[n], n)
           Bad == {n \in 0..T : ~Ok(n)}
<1>. HIDE DEF all, g
<1>12. Ok(0)
  <2>1. all[0] = <<>>
    BY <1>1, <1>11
  <2>2. Has(q, <<>>) <= MarksTo(seq, 0) + One(Parts(q))
    <3>1. MarksTo(seq, 0) = 0
      BY MarksToNext
    <3>2. Has(q, <<>>) = One(Parts(q)) /\ One(Parts(q)) \in {0, 1}
      BY EmptyQueue
    <3>. QED  BY <3>1, <3>2
  <2>. QED  BY <1>2, <2>1, <2>2, Zenon
<1>13. \A n \in 1..T : Ok(n - 1) => Ok(n)
  <2>. SUFFICES ASSUME NEW n \in 1..T, Ok(n - 1)
                PROVE  Ok(n)
    OBVIOUS
  <2>1. n \in Nat /\ n - 1 \in Nat /\ n - 1 + 1 = n /\ n \in 0..T /\ n # 0
    BY <1>1
  <2> DEFINE r == AddToQueue(q, all[n - 1], seq[n], flag)
  <2>2. all[n] = r
    BY <1>11, <2>1
  <2>3. r \in S /\ Has(q, r) <= Has(q, all[n - 1]) + One(seq[n] = Mark)
    BY <1>4
  <2>4. MarksTo(seq, n) = MarksTo(seq, n - 1) + One(seq[n] = Mark) /\ MarksTo(seq, n - 1) \in Nat
    <3>1. MarksTo(seq, n - 1 + 1) = MarksTo(seq, n - 1) + One(seq[n - 1 + 1] = Mark) /\ MarksTo(seq, n - 1) \in Nat
      BY <2>1, MarksToNext
    <3>. QED  BY <2>1, <3>1
  <2>5. Has(q, r) \in Nat /\ Has(q, all[n - 1]) \in Nat
    BY <1>3, <2>3, HasNat
  <2>6. One(Parts(q)) \in Nat /\ One(seq[n] = Mark) \in Nat
    BY DEF One
  <2>7. Has(q, all[n - 1]) <= MarksTo(seq, n - 1) + One(Parts(q))
    OBVIOUS
  <2>8. Has(q, r) <= MarksTo(seq, n) + One(Parts(q))
    <3>. HIDE DEF r
    <3>. QED  BY <2>3, <2>4, <2>5, <2>6, <2>7
  <2>9. Sound(r, n)
    <3>1. all[n - 1] \in S /\ Sound(all[n - 1], n - 1)
      OBVIOUS
    <3>. QED  BY <1>5, <3>1, Zenon
  <2>. QED  BY <2>2, <2>3, <2>8, <2>9
<1>14. \A n \in 0..T : Ok(n)
  <2>. SUFFICES ASSUME NEW bad \in Bad PROVE FALSE
    OBVIOUS
  <2>1. PICK n \in Bad : \A m \in Bad : n <= m
    <3>1. Bad \in SUBSET Nat /\ bad \in Bad
      BY <1>1
    <3>. HIDE DEF Bad
    <3>. QED  BY <3>1, Least
  <2>2. n \in 0..T /\ ~Ok(n)
    OBVIOUS
  <2>. HIDE DEF Ok
  <2>3. n # 0 /\ n \in 1..T /\ n - 1 \in 0..T
    BY <1>1, <1>12, <2>2
  <2>4. Ok(n - 1)
    <3>1. n - 1 \notin Bad
      <4>. HIDE DEF Bad
      <4>. QED  BY <1>1, <2>1, <2>3
    <3>. QED  BY <2>3, <3>1
  <2>. QED  BY <1>13, <2>2, <2>3, <2>4
<1>15. Ok(T) /\ MarksIn(seq) = MarksTo(seq, T)
  <2>1. T \in 0..T
    BY <1>1
  <2>2. MarksIn(seq) = MarksTo(seq, T)
    BY MarksNat DEF MarksTo
  <2>. QED  BY <1>14, <2>1, <2>2
<1>. QED  BY <1>3, <1>10, <1>15 DEF Sound

(***************************************************************************)
(* The queue after a byte: RunWorkqOnByte.                                 *)
(***************************************************************************)
\* The Marks in front of place j.
MarksBefore(s, j) == Cardinality({m \in 1..Len(s) : m < j /\ s[m] = Mark})

LEMMA BeforeIs ==
  ASSUME NEW S, NEW s \in Seq(S)
  PROVE  /\ \A j \in Nat : MarksBefore(s, j) \in Nat /\ MarksBefore(s, j) <= MarksIn(s)
         /\ \A j, k \in Nat : j <= k => MarksBefore(s, j) <= MarksBefore(s, k)
         /\ \A j \in 1..Len(s) : MarksBefore(s, j + 1) = MarksBefore(s, j) + One(s[j] = Mark)
         /\ MarksBefore(s, 1) = 0
<1> DEFINE B(j) == {m \in 1..Len(s) : m < j /\ s[m] = Mark}
           all == {m \in 1..Len(s) : s[m] = Mark}
<1>1. IsFiniteSet(all) /\ MarksIn(s) = Cardinality(all) /\ Len(s) \in Nat
  BY MarksNat, LenProperties
<1>2. \A j \in Nat : IsFiniteSet(B(j)) /\ Cardinality(B(j)) <= Cardinality(all) /\ Cardinality(B(j)) \in Nat
  <2>. SUFFICES ASSUME NEW j \in Nat
                PROVE  IsFiniteSet(B(j)) /\ Cardinality(B(j)) <= Cardinality(all) /\ Cardinality(B(j)) \in Nat
    OBVIOUS
  <2>1. B(j) \in SUBSET all
    OBVIOUS
  <2>. HIDE DEF B, all
  <2>. QED  BY <1>1, <2>1, FS_Subset, FS_CardinalityType
<1>3. \A j, k \in Nat : j <= k => Cardinality(B(j)) <= Cardinality(B(k))
  <2>. SUFFICES ASSUME NEW j \in Nat, NEW k \in Nat, j <= k
                PROVE  Cardinality(B(j)) <= Cardinality(B(k))
    OBVIOUS
  <2>1. B(j) \in SUBSET B(k)
    BY <1>1
  <2>. HIDE DEF B
  <2>. QED  BY <1>2, <2>1, FS_Subset
<1>4. \A j \in 1..Len(s) : Cardinality(B(j + 1)) = Cardinality(B(j)) + One(s[j] = Mark)
  <2>. SUFFICES ASSUME NEW j \in 1..Len(s)
                PROVE  Cardinality(B(j + 1)) = Cardinality(B(j)) + One(s[j] = Mark)
    OBVIOUS
  <2>1. B(j + 1) = B(j) \cup (IF s[j] = Mark THEN {j} ELSE {}) /\ j \notin B(j)
    <3>1. \A m \in 1..Len(s) : m < j + 1 <=> m < j \/ m = j
      BY <1>1
    <3>. QED  BY <1>1, <3>1
  <2>2. j \in Nat
    BY <1>1
  <2>. HIDE DEF B
  <2>3. CASE s[j] = Mark
    <3>1. B(j + 1) = B(j) \cup {j} /\ IsFiniteSet(B(j)) /\ Cardinality(B(j)) \in Nat
      BY <1>2, <2>1, <2>2, <2>3
    <3>. QED  BY <2>1, <2>3, <3>1, FS_AddElement DEF One
  <2>4. CASE s[j] # Mark
    <3>1. B(j + 1) = B(j) /\ Cardinality(B(j)) \in Nat
      BY <1>2, <2>1, <2>2, <2>4
    <3>. QED  BY <2>4, <3>1 DEF One
  <2>. QED  BY <2>3, <2>4
<1>5. Cardinality(B(1)) = 0
  <2>1. B(1) = {}
    BY <1>1
  <2>. QED  BY <2>1, FS_EmptySet
<1>6. \A j : MarksBefore(s, j) = Cardinality(B(j))
  BY DEF MarksBefore
<1>. HIDE DEF B
<1>. QED  BY <1>1, <1>2, <1>3, <1>4, <1>5, <1>6

\* Each list has an end, behind which the queue goes on.
LEMMA SkipIs ==
  ASSUME NEW pr, WellFormedProg(pr), NEW k \in InstIds(pr), NEW j \in Nat \ {0},
         Inst(pr, k).op = "ByteRange"
  PROVE  Skip(pr, j, k) \in Nat /\ Skip(pr, j, k) > j
<1> DEFINE n == Len(pr.inst)
           ends == {m \in InstIds(pr) : m >= k /\ Inst(pr, m).last}
<1>1. n \in Nat \ {0} /\ InstIds(pr) = 0..(n - 1) /\ k \in Nat
  BY InProgram
<1>2. /\ Inst(pr, k).hint \in Nat
      /\ \A m \in InstIds(pr) : Inst(pr, m).last \in BOOLEAN /\ (~Inst(pr, m).last => m + 1 \in InstIds(pr))
  BY DEF WellFormedProg, WellFormedInst
<1>3. LastOf(pr, k) \in Nat /\ LastOf(pr, k) >= k
  <2>1. n - 1 \in ends
    BY <1>1, <1>2
  <2>2. ends \in SUBSET Nat
    BY <1>1
  <2>. HIDE DEF ends
  <2>3. \E x \in ends : \A y \in ends : x <= y
    BY <2>1, <2>2, Least
  <2>4. Min(ends) \in ends
    BY <2>3 DEF Min
  <2>5. LastOf(pr, k) = Min(ends)
    BY DEF LastOf, ends
  <2>. QED  BY <2>2, <2>4, <2>5 DEF ends
<1>. QED  BY <1>1, <1>2, <1>3 DEF Skip

\* What instruction k leads to in its list is in the queue as well, so that neither a
\* hint nor the end of the list takes the iterator out of the queue.
LEMMA SkipStays ==
  ASSUME NEW q, WellFormedProg(ProgOf(q)), NEW w, IsQueue(q, w), Whole(q, w), NEW j \in 1..Len(w),
         w[j] # Mark, Inst(ProgOf(q), w[j]).op = "ByteRange"
  PROVE  Skip(ProgOf(q), j, w[j]) <= Len(w) + 1
<1> DEFINE pr == ProgOf(q)
           k == w[j]
           L == Len(w)
           ends == {m \in InstIds(pr) : m >= k /\ Inst(pr, m).last}
<1>1. /\ L \in Nat /\ k \in InstIds(pr) /\ k \in Nat /\ \A m \in InstIds(pr) : m \in Nat
      /\ \A m \in 1..L : w[m] = Mark \/ w[m] \in Nat
  <2>1. w \in Seq(Member(pr))
    BY DEF IsQueue
  <2>2. L \in Nat /\ \A m \in 1..L : w[m] \in Member(pr)
    BY <2>1, LenProperties, ElementOfSeq
  <2>. QED  BY <2>2, InProgram DEF Member
<1>2. \A m, x \in 1..L : w[m] = w[x] /\ w[m] # Mark => m = x
  BY DEF IsQueue, OnceEach
\* One instruction further, one place further at least.
<1>3. \A m \in 1..L : w[m] # Mark /\ ~Inst(pr, w[m]).last => \E x \in 1..L : x > m /\ w[x] = w[m] + 1
  <2>. SUFFICES ASSUME NEW m \in 1..L, w[m] # Mark, ~Inst(pr, w[m]).last
                PROVE  \E x \in 1..L : x > m /\ w[x] = w[m] + 1
    OBVIOUS
  <2>1. w[m] + 1 \in Entered(w)
    BY DEF Whole, Goes, Entered
  <2>2. PICK x \in 1..L : w[x] = w[m] + 1
    BY <2>1 DEF Entered
  <2>3. w[m] \in Nat /\ w[x] # Mark /\ w[x] # 0 /\ w[x] - 1 = w[m]
    BY <1>1, <2>2 DEF Mark
  <2>4. ~IsHead(pr, w[x])
    BY <2>3 DEF IsHead
  <2>5. Led(q, {w[y] : y \in 1..(x - 1)}, w[x])
    BY DEF Whole, InOrder
  <2>6. PICK y \in 1..(x - 1) : w[y] = w[m]
    BY <2>3, <2>4, <2>5 DEF Led
  <2>7. y \in 1..L /\ y < x
    BY <1>1, <2>6
  <2>8. y = m
    BY <1>2, <2>6, <2>7
  <2>. QED  BY <2>2, <2>7, <2>8
<1>4. ASSUME NEW D \in Nat, \A m \in k..(k + D - 1) : ~Inst(pr, m).last
      PROVE  j + D <= L
  <2> DEFINE Bad == {d \in 0..D : ~ \E x \in 1..L : x >= j + d /\ w[x] = k + d}
  <2>1. CASE D \in Bad
    <3>1. PICK n \in Bad : \A m \in Bad : n <= m
      <4>1. Bad \in SUBSET Nat
        OBVIOUS
      <4>. HIDE DEF Bad
      <4>. QED  BY <2>1, <4>1, Least
    <3>2. n \in 0..D /\ ~ \E x \in 1..L : x >= j + n /\ w[x] = k + n
      OBVIOUS
    <3>3. n # 0 /\ n - 1 \in 0..D /\ n - 1 \notin Bad
      <4>1. k + 0 = k /\ j >= j + 0
        BY <1>1
      <4>2. n # 0
        BY <3>2, <4>1
      <4>3. n - 1 \in 0..D /\ ~(n <= n - 1)
        BY <3>2, <4>2
      <4>. HIDE DEF Bad
      <4>. QED  BY <3>1, <4>2, <4>3
    <3>4. PICK x \in 1..L : x >= j + (n - 1) /\ w[x] = k + (n - 1)
      BY <3>3
    <3>5. k + (n - 1) \in k..(k + D - 1) /\ k + (n - 1) \in Nat
      BY <1>1, <3>2, <3>3
    <3>6. w[x] # Mark /\ ~Inst(pr, w[x]).last
      BY <1>4, <3>4, <3>5 DEF Mark
    <3>7. PICK y \in 1..L : y > x /\ w[y] = w[x] + 1
      BY <1>3, <3>6
    <3>8. y >= j + n /\ w[y] = k + n
      <4>1. n \in Nat /\ x \in Nat /\ y \in Nat /\ j \in Nat /\ k \in Nat
        BY <1>1, <3>2
      <4>2. \A a, b \in Nat : a + (b - 1) + 1 = a + b
        OBVIOUS
      <4>3. w[y] = k + n
        BY <3>4, <3>7, <4>1, <4>2
      <4>4. y >= j + n
        <5>. HIDE DEF k, L
        <5>. QED  BY <3>4, <3>7, <4>1
      <4>. QED  BY <4>3, <4>4
    <3>. QED  BY <3>2, <3>8
  <2>2. CASE D \notin Bad
    <3>1. PICK x \in 1..L : x >= j + D /\ w[x] = k + D
      BY <2>2
    <3>. QED  BY <1>1, <3>1
  <2>. QED  BY <2>1, <2>2
<1>5. /\ Inst(pr, k).hint \in Nat /\ \A m \in k..(k + Inst(pr, k).hint - 1) : ~Inst(pr, m).last
      /\ \A m \in InstIds(pr) : Inst(pr, m).last \in BOOLEAN /\ (~Inst(pr, m).last => m + 1 \in InstIds(pr))
  BY <1>1 DEF WellFormedProg, WellFormedInst
<1>6. j + Inst(pr, k).hint <= L
  BY <1>4, <1>5
<1>7. j + (LastOf(pr, k) - k) <= L /\ LastOf(pr, k) - k \in Nat
  <2>1. Len(pr.inst) - 1 \in ends
    <3>1. Len(pr.inst) \in Nat \ {0} /\ InstIds(pr) = 0..(Len(pr.inst) - 1)
      BY InProgram
    <3> DEFINE top == Len(pr.inst) - 1
    <3>2. top \in InstIds(pr) /\ top + 1 \notin InstIds(pr) /\ \A m \in InstIds(pr) : top >= m
      BY <3>1
    <3>. HIDE DEF top
    <3>3. Inst(pr, top).last /\ top >= k
      BY <1>1, <1>5, <3>2
    <3>. QED  BY <3>2, <3>3 DEF top
  <2>2. ends \in SUBSET Nat
    BY <1>1
  <2>3. PICK x \in ends : \A y \in ends : x <= y
    <3>. HIDE DEF ends
    <3>. QED  BY <2>1, <2>2, Least
  <2>4. LastOf(pr, k) = Min(ends) /\ Min(ends) \in ends /\ \A y \in ends : Min(ends) <= y
    <3>. HIDE DEF ends
    <3>1. Min(ends) \in ends /\ \A y \in ends : Min(ends) <= y
      BY <2>3 DEF Min
    <3>. QED  BY <3>1 DEF LastOf, ends
  <2> DEFINE e == LastOf(pr, k)
             D == e - k
  <2>5. e \in InstIds(pr) /\ e >= k /\ e \in Nat /\ \A y \in ends : e <= y
    <3>. HIDE DEF e
    <3>. QED  BY <1>1, <2>4 DEF e
  <2>6. D \in Nat /\ k + D - 1 = e - 1
    <3>. HIDE DEF e
    <3>. QED  BY <1>1, <2>5
  <2>7. \A m \in k..(e - 1) : ~Inst(pr, m).last
    <3>. SUFFICES ASSUME NEW m \in k..(e - 1)
                  PROVE  ~Inst(pr, m).last
      OBVIOUS
    <3>. HIDE DEF e
    <3>1. m \in InstIds(pr) /\ m >= k /\ ~(e <= m)
      <4>1. InstIds(pr) = 0..(Len(pr.inst) - 1) /\ Len(pr.inst) \in Nat
        BY InProgram
      <4>. QED  BY <1>1, <2>5, <4>1
    <3>2. m \notin ends
      <4>. HIDE DEF ends
      <4>. QED  BY <2>5, <3>1
    <3>. QED  BY <3>1, <3>2
  <2>. HIDE DEF e, D, ends, pr, k, L
  <2>8. j + D <= L
    BY <1>4, <2>6, <2>7
  <2>. QED  BY <2>6, <2>8 DEF D, e
<1>. HIDE DEF k, pr, L
<1>8. Skip(pr, j, k) = j + Inst(pr, k).hint \/ Skip(pr, j, k) = j + 1 + (LastOf(pr, k) - k)
  BY DEF Skip
<1>. QED  BY <1>1, <1>5, <1>6, <1>7, <1>8 DEF k, pr, L

LEMMA ByteKeeps ==
  ASSUME NEW q, WellFormedProg(ProgOf(q)), NEW c, NEW flag, NEW old, IsQueue(q, old)
  PROVE  LET r == RunWorkqOnByte(q, old, c, flag) IN
         /\ IsQueue(q, r.w) /\ r.ismatch \in BOOLEAN
         /\ Has(q, r.w) <= MarksIn(old) + One(Parts(q))
         /\ Whole(q, old) => r.j <= Len(old) + 1
<1> DEFINE pr == ProgOf(q)
           T == Len(old)
           Q == [j : Nat \ {0}, w : Seq(Member(pr)), ismatch : BOOLEAN]
           Within(j) == Whole(q, old) => j <= T + 1
           S == {r \in Q : /\ OnceEach(r.w) /\ Has(q, r.w) <= MarksBefore(old, r.j) + One(Parts(q))
                           /\ Within(r.j)}
           r0 == [j |-> 1, w |-> <<>>, ismatch |-> FALSE]
           Turn(r) == IF r.j > T THEN r ELSE RunStep(q, old, c, flag, r)
           Is(h) == h = [n \in 0..T |-> IF n = 0 THEN r0
                                        ELSE LET r == h[n - 1] IN IF r.j > T THEN r ELSE RunStep(q, old, c, flag, r)]
           turn == Running(q, old, c, flag)
           g == [m \in Nat |-> [r \in S |-> Turn(r)]]
<1>1. old \in Seq(Member(pr)) /\ T \in Nat /\ One(Parts(q)) \in {0, 1}
  BY LenProperties DEF IsQueue, One
<1>2. /\ \A j \in Nat : MarksBefore(old, j) \in Nat /\ MarksBefore(old, j) <= MarksIn(old)
      /\ \A j, k \in Nat : j <= k => MarksBefore(old, j) <= MarksBefore(old, k)
      /\ \A j \in 1..T : MarksBefore(old, j + 1) = MarksBefore(old, j) + One(old[j] = Mark)
      /\ MarksBefore(old, 1) = 0
  BY <1>1, BeforeIs
<1>3. r0 \in S
  <2>1. <<>> \in Seq(Member(pr)) /\ OnceEach(<<>>)
    BY EmptyQueue DEF IsQueue
  <2>2. Has(q, <<>>) <= MarksBefore(old, 1) + One(Parts(q))
    BY <1>1, <1>2, EmptyQueue
  <2>3. Within(1)
    BY <1>1
  <2>. QED  BY <2>1, <2>2, <2>3
<1>4. \A r \in S : Turn(r) \in S
  <2>. SUFFICES ASSUME NEW r \in S, ~(r.j > T)
                PROVE  RunStep(q, old, c, flag, r) \in S
    OBVIOUS
  <2> DEFINE k == old[r.j]
             over == T + 1
             ip0 == Inst(pr, k)
  <2>1. /\ r.j \in Nat \ {0} /\ r.w \in Seq(Member(pr)) /\ r.ismatch \in BOOLEAN
        /\ OnceEach(r.w) /\ Has(q, r.w) <= MarksBefore(old, r.j) + One(Parts(q)) /\ Within(r.j)
        /\ r = [j |-> r.j, w |-> r.w, ismatch |-> r.ismatch]
    OBVIOUS
  <2>2. r.j \in 1..T /\ k \in Member(pr) /\ IsQueue(q, r.w)
    BY <1>1, <2>1, ElementOfSeq DEF IsQueue
  <2>3. Has(q, r.w) \in Nat
    BY <2>2, HasNat
  <2>4. \A j \in Nat \ {0}, b \in BOOLEAN :
           j >= r.j /\ Within(j) => [j |-> j, w |-> r.w, ismatch |-> b] \in S
    <3>. SUFFICES ASSUME NEW j \in Nat \ {0}, NEW b \in BOOLEAN, j >= r.j, Within(j)
                  PROVE  Has(q, r.w) <= MarksBefore(old, j) + One(Parts(q))
      BY <2>1
    <3>1. MarksBefore(old, r.j) <= MarksBefore(old, j) /\ MarksBefore(old, r.j) \in Nat /\ MarksBefore(old, j) \in Nat
      BY <1>2, <2>1
    <3>. QED  BY <1>1, <2>1, <2>3, <3>1
  <2>5. /\ over \in Nat \ {0} /\ over >= r.j /\ r.j + 1 \in Nat \ {0} /\ r.j + 1 >= r.j
        /\ Within(over) /\ Within(r.j + 1)
    BY <1>1, <2>1, <2>2
  <2>6. CASE k = Mark
    <3>1. CASE r.ismatch
      <4>1. RunStep(q, old, c, flag, r) = [j |-> over, w |-> r.w, ismatch |-> r.ismatch]
        BY <2>1, <2>6, <3>1 DEF RunStep
      <4>. HIDE DEF S, over
      <4>. QED  BY <2>1, <2>4, <2>5, <4>1
    <3>2. CASE ~r.ismatch
      <4> DEFINE w == Append(r.w, Mark)
      <4>1. RunStep(q, old, c, flag, r) = [j |-> r.j + 1, w |-> w, ismatch |-> r.ismatch]
        BY <2>1, <2>6, <3>2 DEF RunStep
      <4>2. Mark \in Member(pr)
        BY DEF Member
      <4>3. w \in Seq(Member(pr)) /\ MarksIn(w) = MarksIn(r.w) + One(Mark = Mark)
        BY <2>1, <4>2, MarksAppend
      <4>4. OnceEach(w)
        BY <2>1, <4>2, OnceAppend
      <4>5. Fresh(q, w) <= Fresh(q, r.w)
        <5>1. Entered(w) = Entered(r.w) \cup {Mark}
          BY <2>1, <4>2, EnteredAppend
        <5>. HIDE DEF w
        <5>. QED  BY <5>1 DEF Fresh, One
      <4>6. MarksIn(r.w) \in Nat /\ Fresh(q, r.w) \in {0, 1} /\ Fresh(q, w) \in {0, 1}
        BY <2>2, HasNat DEF Fresh, One
      <4>. HIDE DEF w
      <4>7. Has(q, w) <= Has(q, r.w) + 1
        BY <4>3, <4>5, <4>6 DEF Has, One
      <4>8. MarksBefore(old, r.j + 1) = MarksBefore(old, r.j) + 1 /\ MarksBefore(old, r.j) \in Nat
        BY <1>2, <2>1, <2>2, <2>6 DEF One
      <4>9. Has(q, w) \in Nat
        BY <4>3, <4>4, HasNat DEF IsQueue
      <4>10. Has(q, w) <= MarksBefore(old, r.j + 1) + One(Parts(q))
        BY <1>1, <2>1, <2>3, <4>7, <4>8, <4>9
      <4>. QED  BY <2>1, <2>5, <4>1, <4>3, <4>4, <4>10
    <3>. QED  BY <3>1, <3>2
  <2>7. CASE k # Mark /\ ip0.op = "ByteRange" /\ c \in ip0.bytes
    <3> DEFINE w == AddToQueue(q, r.w, ip0.out, flag)
               j == Skip(pr, r.j, k)
    <3>1. RunStep(q, old, c, flag, r) = [j |-> j, w |-> w, ismatch |-> r.ismatch]
      <4>1. RunStep(q, old, c, flag, r) = [r EXCEPT !.j = j, !.w = w]
        BY <2>7 DEF RunStep
      <4>. HIDE DEF j, w
      <4>. QED  BY <2>1, <4>1
    <3>2. k \in InstIds(pr)
      BY <2>2, <2>7 DEF Member
    <3>3. j \in Nat /\ j > r.j
      BY <2>1, <2>7, <3>2, SkipIs
    <3>4. ip0.out \in InstIds(pr)
      BY <2>7, <3>2 DEF WellFormedProg, WellFormedInst
    <3>5. IsQueue(q, w) /\ Has(q, w) <= Has(q, r.w) + One(ip0.out = Mark)
      <4>1. ip0.out \in InstIds(ProgOf(q)) \cup {Mark}
        BY <3>4
      <4>2. LET u == AddToQueue(q, r.w, ip0.out, flag) IN
            /\ IsQueue(q, u)
            /\ Has(q, u) <= Has(q, r.w) + One(ip0.out = Mark)
        BY <2>2, <4>1, Added
      <4>. QED  BY <4>2, Zenon
    <3>6. One(ip0.out = Mark) = 0
      BY <3>4, InProgram DEF One
    <3>7. Has(q, w) \in Nat
      <4>. HIDE DEF w
      <4>. QED  BY <3>5, HasNat
    <3>8. MarksBefore(old, r.j) <= MarksBefore(old, j) /\ MarksBefore(old, r.j) \in Nat /\ MarksBefore(old, j) \in Nat
      <4>. HIDE DEF j
      <4>. QED  BY <1>2, <2>1, <3>3
    <3>. HIDE DEF w, j, ip0
    <3>9. Has(q, w) <= MarksBefore(old, j) + One(Parts(q))
      BY <1>1, <2>1, <2>3, <3>5, <3>6, <3>7, <3>8
    <3>10. j \in Nat \ {0}
      BY <2>1, <3>3
    <3>11. Within(j)
      <4>. SUFFICES ASSUME Whole(q, old) PROVE j <= T + 1
        OBVIOUS
      <4>. QED  BY <2>2, <2>7, SkipStays DEF j, ip0
    <3>. QED  BY <2>1, <3>1, <3>5, <3>9, <3>10, <3>11 DEF IsQueue
  <2>8. CASE k # Mark /\ ~(ip0.op = "ByteRange" /\ c \in ip0.bytes)
    <3>1. \E j \in {over, r.j + 1}, b \in BOOLEAN :
             RunStep(q, old, c, flag, r) = [j |-> j, w |-> r.w, ismatch |-> b]
      <4>1. CASE ip0.op = "Match" /\ (pr.anchorEnd => c = EndText)
        <5>1. ~(ip0.op = "ByteRange" /\ c \in ip0.bytes)
          BY <4>1
        <5>2. RunStep(q, old, c, flag, r)
                = [r EXCEPT !.j = IF First(q) THEN over ELSE r.j + 1, !.ismatch = TRUE]
          BY <2>8, <4>1, <5>1 DEF RunStep
        <5>. HIDE DEF over
        <5>. QED  BY <2>1, <5>2
      <4>2. CASE ~(ip0.op = "Match" /\ (pr.anchorEnd => c = EndText))
        <5>1. RunStep(q, old, c, flag, r) = [r EXCEPT !.j = r.j + 1]
          BY <2>8, <4>2 DEF RunStep
        <5>. HIDE DEF over
        <5>. QED  BY <2>1, <5>1
      <4>. QED  BY <4>1, <4>2
    <3>. HIDE DEF S, over
    <3>. QED  BY <2>4, <2>5, <3>1
  <2>. QED  BY <2>6, <2>7, <2>8
<1>. HIDE DEF S, r0
<1>5. g \in [Nat -> [S -> S]]
  <2>. HIDE DEF Turn
  <2>. QED  BY <1>4
<1>6. PICK h \in [0..T -> S] : h = [m \in 0..T |-> IF m = 0 THEN r0 ELSE g[m - 1][h[m - 1]]]
  <2>. HIDE DEF g, T
  <2>1. \E h \in [0..T -> S] : IsRun(h, T, r0, g)
    BY <1>1, <1>3, <1>5, Iterates
  <2>. QED  BY <2>1 DEF IsRun
<1>7. Is(h)
  <2>1. \A m \in (0..T) \ {0} : m - 1 \in Nat /\ m - 1 \in 0..T
    BY <1>1
  <2>2. \A m \in (0..T) \ {0} : g[m - 1][h[m - 1]] = Turn(h[m - 1])
    <3>1. \A m \in (0..T) \ {0} : h[m - 1] \in S
      BY <2>1
    <3>2. \A m \in Nat : \A r \in S : g[m][r] = Turn(r)
      <4>. HIDE DEF Turn
      <4>. QED  OBVIOUS
    <3>. HIDE DEF g, T, Turn
    <3>. QED  BY <2>1, <3>1, <3>2
  <2>3. [m \in 0..T |-> IF m = 0 THEN r0 ELSE g[m - 1][h[m - 1]]]
          = [m \in 0..T |-> IF m = 0 THEN r0 ELSE Turn(h[m - 1])]
    <3>. HIDE DEF g, T, Turn
    <3>. QED  BY <2>2
  <2>4. h = [m \in 0..T |-> IF m = 0 THEN r0 ELSE Turn(h[m - 1])]
    <3>. HIDE DEF g, T, Turn
    <3>. QED  BY <1>6, <2>3
  <2>. HIDE DEF g, T
  <2>. QED  BY <2>4
<1>8. Is(turn)
  <2>1. turn = CHOOSE x : Is(x)
    BY Zenon DEF Running, r0
  <2>. HIDE DEF turn, Is
  <2>. QED  BY <1>7, <2>1
<1>9. \A n \in 0..T : turn[n] \in S
  <2> DEFINE Bad == {n \in 0..T : turn[n] \notin S}
  <2>1. \A n \in 0..T : turn[n] = IF n = 0 THEN r0 ELSE Turn(turn[n - 1])
    <3>. HIDE DEF turn, T
    <3>. QED  BY <1>8
  <2>. HIDE DEF turn, Turn
  <2>. SUFFICES ASSUME NEW bad \in Bad PROVE FALSE
    OBVIOUS
  <2>2. PICK n \in Bad : \A m \in Bad : n <= m
    <3>1. Bad \in SUBSET Nat /\ bad \in Bad
      BY <1>1
    <3>. HIDE DEF Bad
    <3>. QED  BY <3>1, Least
  <2>3. n \in 0..T /\ turn[n] \notin S
    OBVIOUS
  <2>4. n # 0 /\ n - 1 \in 0..T
    <3>1. 0 \in 0..T
      BY <1>1
    <3>2. turn[0] \in S
      BY <1>3, <2>1, <3>1
    <3>. QED  BY <1>1, <2>3, <3>2
  <2>5. turn[n - 1] \in S
    <3>1. n - 1 \notin Bad
      <4>. HIDE DEF Bad
      <4>. QED  BY <1>1, <2>2, <2>3, <2>4
    <3>. QED  BY <2>4, <3>1
  <2>. QED  BY <1>4, <2>1, <2>3, <2>4, <2>5
<1>10. RunWorkqOnByte(q, old, c, flag) = turn[T] /\ T \in 0..T
  BY <1>1 DEF RunWorkqOnByte
<1> DEFINE r == turn[T]
<1>11. r \in S
  BY <1>9, <1>10
<1>. HIDE DEF turn, T
<1>12. /\ r.w \in Seq(Member(pr)) /\ OnceEach(r.w) /\ r.ismatch \in BOOLEAN /\ r.j \in Nat
       /\ Has(q, r.w) <= MarksBefore(old, r.j) + One(Parts(q)) /\ Within(r.j)
  BY <1>11 DEF S
<1>13. IsQueue(q, r.w)
  BY <1>12 DEF IsQueue
<1>14. Has(q, r.w) <= MarksIn(old) + One(Parts(q))
  <2>1. Has(q, r.w) \in Nat
    BY <1>13, HasNat
  <2>2. MarksBefore(old, r.j) \in Nat /\ MarksBefore(old, r.j) <= MarksIn(old) /\ MarksIn(old) \in Nat
    BY <1>1, <1>2, <1>12, MarksNat
  <2>. QED  BY <1>1, <1>12, <2>1, <2>2
<1>. QED  BY <1>10, <1>12, <1>13, <1>14 DEF T

(***************************************************************************)
(* What a state records of a queue.                                        *)
(***************************************************************************)
\* R is a strict order of all of P, and Beneath(P, R, j) what is before j.
IsOrder(P, R) ==
  /\ \A j \in P : <<j, j>> \notin R
  /\ \A j, m \in P : j # m => <<j, m>> \in R \/ <<m, j>> \in R
  /\ \A j, m, k \in P : <<j, m>> \in R /\ <<m, k>> \in R => <<j, k>> \in R
Beneath(P, R, j) == {m \in P : <<m, j>> \in R}

\* As many are before an element as its place says, and no two have one place.
LEMMA Ranked ==
  ASSUME NEW P, IsFiniteSet(P), NEW R, IsOrder(P, R)
  PROVE  /\ \A n \in 1..Cardinality(P) : \E j \in P : Cardinality(Beneath(P, R, j)) = n - 1
         /\ \A j, m \in P : Cardinality(Beneath(P, R, j)) = Cardinality(Beneath(P, R, m)) => j = m
<1> DEFINE N == Cardinality(P)
           rank(j) == Cardinality(Beneath(P, R, j))
           f == [j \in P |-> rank(j)]
<1>1. N \in Nat
  BY FS_CardinalityType
<1>2. \A j \in P : IsFiniteSet(Beneath(P, R, j)) /\ rank(j) \in Nat
  <2>1. \A j \in P : Beneath(P, R, j) \in SUBSET P
    BY DEF Beneath
  <2>. QED  BY <2>1, FS_Subset, FS_CardinalityType
<1>3. \A j \in P : rank(j) \in 0..(N - 1)
  <2>. SUFFICES ASSUME NEW j \in P
                PROVE  rank(j) <= N - 1
    BY <1>1, <1>2
  <2>1. Beneath(P, R, j) \in SUBSET (P \ {j})
    BY DEF Beneath, IsOrder
  <2>2. IsFiniteSet(P \ {j}) /\ Cardinality(P \ {j}) = N - 1
    BY FS_RemoveElement
  <2>. QED  BY <2>1, <2>2, FS_Subset
<1>4. \A j, m \in P : <<j, m>> \in R => rank(j) < rank(m)
  <2>. SUFFICES ASSUME NEW j \in P, NEW m \in P, <<j, m>> \in R
                PROVE  rank(j) < rank(m)
    OBVIOUS
  <2>1. Beneath(P, R, j) \in SUBSET Beneath(P, R, m)
    BY DEF Beneath, IsOrder
  <2>2. j \in Beneath(P, R, m) /\ j \notin Beneath(P, R, j)
    BY DEF Beneath, IsOrder
  <2>3. rank(j) <= rank(m) /\ rank(j) # rank(m)
    BY <1>2, <2>1, <2>2, FS_Subset
  <2>. QED  BY <1>2, <2>3
<1>5. \A j, m \in P : rank(j) = rank(m) => j = m
  <2>. SUFFICES ASSUME NEW j \in P, NEW m \in P, rank(j) = rank(m), j # m
                PROVE  FALSE
    OBVIOUS
  <2>1. <<j, m>> \in R \/ <<m, j>> \in R
    BY DEF IsOrder
  <2>. HIDE DEF rank
  <2>. QED  BY <1>2, <1>4, <2>1
<1>. HIDE DEF rank, N
<1>6. f \in Injection(P, 0..(N - 1))
  BY <1>3, <1>5 DEF Injection, IsInjective
<1>7. IsFiniteSet(0..(N - 1)) /\ Cardinality(0..(N - 1)) = N
  <2>1. 0 \in Int /\ N - 1 \in Int /\ (IF 0 > N - 1 THEN 0 ELSE N - 1 - 0 + 1) = N
    BY <1>1
  <2>. QED  BY <2>1, FS_Interval
<1>8. f \in Surjection(P, 0..(N - 1))
  <2>. HIDE DEF f
  <2>. QED  BY <1>6, <1>7, FS_Injection DEF N
<1>9. \A n \in 1..N : \E j \in P : rank(j) = n - 1
  <2>1. \A n \in 1..N : n - 1 \in 0..(N - 1)
    BY <1>1
  <2>2. \A k \in 0..(N - 1) : \E j \in P : f[j] = k
    <3>. HIDE DEF f
    <3>. QED  BY <1>8 DEF Surjection
  <2>. QED  BY <2>1, <2>2
<1>. QED  BY <1>5, <1>9 DEF rank, N

\* The parts of the definition of Record.
BeginsAt(q, kept, j) == kept[j] # Mark /\ IsHead(ProgOf(q), kept[j])
SparedOf(q, kept) ==
  {j \in DOMAIN kept :
     \/ BeginsAt(q, kept, j)
     \/ /\ kept[j] = Mark
        /\ \E h \in 1..(j - 1) : BeginsAt(q, kept, h)
        /\ \E h \in (j + 1)..Len(kept) :
             BeginsAt(q, kept, h) /\ \A m \in (j + 1)..(h - 1) : kept[m] # Mark}
GroupOf(q, kept, j) == Cardinality({m \in SparedOf(q, kept) : m <= j /\ kept[m] = Mark})
ComesBefore(q, kept, j, m) ==
  IF First(q) THEN j < m
  ELSE \/ GroupOf(q, kept, j) < GroupOf(q, kept, m)
       \/ GroupOf(q, kept, j) = GroupOf(q, kept, m) /\ kept[j] < kept[m]
RankOf(q, kept, j) == Cardinality({m \in SparedOf(q, kept) : ComesBefore(q, kept, m, j)})
PickOf(q, kept, n) == CHOOSE j \in SparedOf(q, kept) : RankOf(q, kept, j) = n - 1

LEMMA RecordIs ==
  \A q, kept : Record(q, kept)
                 = [n \in 1..Cardinality(SparedOf(q, kept)) |-> kept[PickOf(q, kept, n)]]
BY Zenon DEF Record, BeginsAt, SparedOf, GroupOf, ComesBefore, RankOf, PickOf

LEMMA Picked ==
  ASSUME NEW q, WellFormedProg(ProgOf(q)), NEW kept, IsQueue(q, kept)
  PROVE  LET P == SparedOf(q, kept) IN
         /\ P \subseteq 1..Len(kept) /\ IsFiniteSet(P)
         /\ \A n \in 1..Cardinality(P) : PickOf(q, kept, n) \in P
         /\ \A n, m \in 1..Cardinality(P) : PickOf(q, kept, n) = PickOf(q, kept, m) => n = m
<1> DEFINE P == SparedOf(q, kept)
           L == Len(kept)
           G(j) == GroupOf(q, kept, j)
           M(j) == {m \in P : m <= j /\ kept[m] = Mark}
           R == {w \in P \X P : ComesBefore(q, kept, w[1], w[2])}
<1>1. L \in Nat /\ DOMAIN kept = 1..L /\ \A j \in 1..L : kept[j] \in Int
  <2>1. kept \in Seq(Member(ProgOf(q)))
    BY DEF IsQueue
  <2>2. L \in Nat /\ DOMAIN kept = 1..L /\ \A j \in 1..L : kept[j] \in Member(ProgOf(q))
    BY <2>1, LenProperties, ElementOfSeq
  <2>. QED  BY <2>2, InProgram DEF Member, Mark
<1>2. P \subseteq 1..L
  BY <1>1 DEF SparedOf
<1>3. IsFiniteSet(P)
  <2>1. IsFiniteSet(1..L)
    BY <1>1, FS_Interval
  <2>. HIDE DEF P, L
  <2>. QED  BY <1>2, <2>1, FS_Subset
<1>4. \A j : G(j) = Cardinality(M(j))
  BY DEF GroupOf
<1>. HIDE DEF P, G, L
<1>5. \A j : IsFiniteSet(M(j)) /\ Cardinality(M(j)) \in Nat
  <2>1. \A j : M(j) \in SUBSET P
    OBVIOUS
  <2>. HIDE DEF M
  <2>. QED  BY <1>3, <2>1, FS_Subset, FS_CardinalityType
<1>6. \A j : G(j) \in Nat
  BY <1>4, <1>5
<1>7. \A j, m \in P : j < m => G(j) <= G(m) /\ (kept[m] = Mark => G(j) < G(m))
  <2>. SUFFICES ASSUME NEW j \in P, NEW m \in P, j < m
                PROVE  G(j) <= G(m) /\ (kept[m] = Mark => G(j) < G(m))
    OBVIOUS
  <2>1. j \in Nat /\ m \in Nat /\ \A x \in P : x \in Nat
    BY <1>1, <1>2
  <2>2. M(j) \in SUBSET M(m)
    <3>1. \A x \in P : x <= j => x <= m
      BY <2>1
    <3>. QED  BY <3>1
  <2>3. kept[m] = Mark => m \in M(m) /\ m \notin M(j)
    BY <2>1
  <2>4. Cardinality(M(j)) <= Cardinality(M(m)) /\ (Cardinality(M(j)) = Cardinality(M(m)) => M(j) = M(m))
    <3>. HIDE DEF M
    <3>. QED  BY <1>5, <2>2, FS_Subset
  <2>. HIDE DEF M
  <2>. QED  BY <1>4, <1>5, <2>3, <2>4
<1>8. \A j, m \in P : kept[j] = kept[m] /\ kept[j] # Mark => j = m
  BY <1>1, <1>2 DEF IsQueue, OnceEach, L
<1>9. \A j \in P : j \in Nat /\ kept[j] \in Int
  BY <1>1, <1>2
<1>10. \A j, m : <<j, m>> \in R <=> j \in P /\ m \in P /\ ComesBefore(q, kept, j, m)
  OBVIOUS
<1>. HIDE DEF R
<1>11. IsOrder(P, R)
  <2>1. CASE First(q)
    <3>1. \A j, m : ComesBefore(q, kept, j, m) <=> j < m
      BY <2>1 DEF ComesBefore
    <3>2. \A j \in P : <<j, j>> \notin R
      BY <1>9, <1>10, <3>1
    <3>3. \A j, m \in P : j # m => <<j, m>> \in R \/ <<m, j>> \in R
      BY <1>9, <1>10, <3>1
    <3>4. \A j, m, k \in P : <<j, m>> \in R /\ <<m, k>> \in R => <<j, k>> \in R
      BY <1>9, <1>10, <3>1
    <3>. QED  BY <3>2, <3>3, <3>4 DEF IsOrder
  <2>2. CASE ~First(q)
    <3>1. \A j, m : ComesBefore(q, kept, j, m) <=> G(j) < G(m) \/ (G(j) = G(m) /\ kept[j] < kept[m])
      BY <2>2 DEF ComesBefore, G
    <3>2. \A j \in P : <<j, j>> \notin R
      BY <1>6, <1>9, <1>10, <3>1
    <3>3. \A j, m \in P : j # m => <<j, m>> \in R \/ <<m, j>> \in R
      <4>. SUFFICES ASSUME NEW j \in P, NEW m \in P, j # m
                    PROVE  ComesBefore(q, kept, j, m) \/ ComesBefore(q, kept, m, j)
        BY <1>10
      <4>1. CASE kept[j] = kept[m]
        <5>1. kept[j] = Mark /\ kept[m] = Mark /\ (j < m \/ m < j)
          BY <1>8, <1>9, <4>1
        <5>. QED  BY <1>7, <3>1, <5>1
      <4>2. CASE kept[j] # kept[m]
        BY <1>6, <1>9, <3>1, <4>2
      <4>. QED  BY <4>1, <4>2
    <3>4. \A j, m, k \in P : <<j, m>> \in R /\ <<m, k>> \in R => <<j, k>> \in R
      BY <1>6, <1>9, <1>10, <3>1
    <3>. QED  BY <3>2, <3>3, <3>4 DEF IsOrder
  <2>. QED  BY <2>1, <2>2
<1>12. \A j \in P : Beneath(P, R, j) = {m \in P : ComesBefore(q, kept, m, j)}
  BY <1>10 DEF Beneath
<1>13. \A j \in P : RankOf(q, kept, j) = Cardinality(Beneath(P, R, j))
  BY <1>12 DEF RankOf, P
<1>14. \A n \in 1..Cardinality(P) : \E j \in P : RankOf(q, kept, j) = n - 1
  BY <1>3, <1>11, <1>13, Ranked
<1>15. \A n \in 1..Cardinality(P) : PickOf(q, kept, n) \in P /\ RankOf(q, kept, PickOf(q, kept, n)) = n - 1
  BY <1>14 DEF PickOf, P
<1>16. \A n, m \in 1..Cardinality(P) : PickOf(q, kept, n) = PickOf(q, kept, m) => n = m
  <2>1. Cardinality(P) \in Nat
    BY <1>3, FS_CardinalityType
  <2>2. \A n, m \in 1..Cardinality(P) : PickOf(q, kept, n) = PickOf(q, kept, m) => n - 1 = m - 1
    BY <1>15
  <2>3. \A n, m \in 1..Cardinality(P) : n - 1 = m - 1 => n = m
    BY <2>1
  <2>. QED  BY <2>2, <2>3
<1>. QED  BY <1>2, <1>3, <1>15, <1>16 DEF P, L

\* The Marks a state can have, so that those a queue gets besides have room.
Most(q) == IF Parts(q) THEN Len(ProgOf(q).inst) - 3 ELSE 0
HeadsOf(q) ==
  InstIds(ProgOf(q)) \ (IF Parts(q) THEN {0, Loop(q) + 1} ELSE {0})

LEMMA HeadCount ==
  ASSUME NEW q, WellFormedProg(ProgOf(q)), Parts(q)
  PROVE  /\ Most(q) \in Nat /\ IsFiniteSet(HeadsOf(q)) /\ Cardinality(HeadsOf(q)) = Most(q) + 1
         /\ \A k \in InstIds(ProgOf(q)) \ {0} : IsHead(ProgOf(q), k) => k \in HeadsOf(q)
<1> DEFINE n == Len(ProgOf(q).inst)
           su == Loop(q)
           ids == InstIds(ProgOf(q))
<1>1. n \in Nat \ {0} /\ ids = 0..(n - 1) /\ IsFiniteSet(ids) /\ Cardinality(ids) = n
  BY InProgram
<1>2. su \in ids /\ su # 0 /\ ~Inst(ProgOf(q), su).last
  BY DEF Parts, Loop, MarksAfter, WellFormedProg
<1>3. su + 1 \in ids
  BY <1>2 DEF WellFormedProg, WellFormedInst
<1>4. su \in Nat /\ su >= 1 /\ su + 1 <= n - 1 /\ 0 \in ids /\ su + 1 # 0
  BY <1>1, <1>2, <1>3
<1>5. HeadsOf(q) = (ids \ {0}) \ {su + 1}
  BY DEF HeadsOf
<1>6. Most(q) = n - 3 /\ n - 3 \in Nat
  BY <1>1, <1>4 DEF Most
<1>7. \A k \in ids \ {0} : IsHead(ProgOf(q), k) => k # su + 1
  <2>1. su + 1 - 1 = su
    BY <1>4
  <2>. QED  BY <1>2, <1>4, <2>1 DEF IsHead
<1>. HIDE DEF n, su, ids
<1>8. IsFiniteSet(ids \ {0}) /\ Cardinality(ids \ {0}) = n - 1
  BY <1>1, <1>4, FS_RemoveElement
<1>9. IsFiniteSet((ids \ {0}) \ {su + 1}) /\ Cardinality((ids \ {0}) \ {su + 1}) = n - 1 - 1
  <2>1. su + 1 \in ids \ {0}
    BY <1>3, <1>4
  <2>2. Cardinality((ids \ {0}) \ {su + 1}) = Cardinality(ids \ {0}) - 1 /\ IsFiniteSet((ids \ {0}) \ {su + 1})
    BY <1>8, <2>1, FS_RemoveElement
  <2>. QED  BY <1>8, <2>2
<1>10. n - 1 - 1 = n - 3 + 1
  BY <1>1
<1>. QED  BY <1>5, <1>6, <1>7, <1>9, <1>10 DEF ids

\* Between two Marks that a state keeps there is a head, and one before the first.
LEMMA MarksSpared ==
  ASSUME NEW q, WellFormedProg(ProgOf(q)), NEW kept, IsQueue(q, kept),
         ~Parts(q) => MarksIn(kept) = 0
  PROVE  LET SM == {j \in SparedOf(q, kept) : kept[j] = Mark} IN
         IsFiniteSet(SM) /\ Cardinality(SM) <= Most(q)
<1> DEFINE P == SparedOf(q, kept)
           SM == {j \in P : kept[j] = Mark}
           L == Len(kept)
           pr == ProgOf(q)
<1>1. L \in Nat /\ DOMAIN kept = 1..L /\ kept \in Seq(Member(pr)) /\ \A j \in 1..L : kept[j] \in Member(pr)
  BY LenProperties, ElementOfSeq DEF IsQueue
<1>2. P \subseteq 1..L /\ IsFiniteSet(P)
  BY Picked
<1>3. IsFiniteSet(SM)
  <2>. HIDE DEF P
  <2>. QED  BY <1>2, FS_Subset
<1>4. CASE ~Parts(q)
  <2>1. MarksIn(kept) = Cardinality({j \in 1..L : kept[j] = Mark}) /\ IsFiniteSet({j \in 1..L : kept[j] = Mark})
    BY <1>1, MarksNat
  <2>2. {j \in 1..L : kept[j] = Mark} = {}
    <3>. HIDE DEF L
    <3>. QED  BY <1>4, <2>1, FS_EmptySet
  <2>3. SM = {}
    <3>. HIDE DEF P, L
    <3>. QED  BY <1>2, <2>2
  <2>. QED  BY <1>3, <1>4, <2>3, FS_EmptySet DEF Most
<1>5. CASE Parts(q) /\ SM = {}
  <2>1. Cardinality(SM) = 0 /\ Most(q) \in Nat
    BY <1>5, HeadCount, FS_EmptySet
  <2>. QED  BY <1>3, <2>1
<1>6. CASE Parts(q) /\ SM # {}
  <2> DEFINE Follows(j, h) == /\ h \in (j + 1)..L /\ BeginsAt(q, kept, h)
                              /\ \A m \in (j + 1)..(h - 1) : kept[m] # Mark
             fol == [j \in SM |-> CHOOSE h : Follows(j, h)]
  <2>1. SM \in SUBSET Nat /\ SM \subseteq 1..L /\ \A j \in SM : kept[j] = Mark
    <3>1. \A j \in P : j \in 1..L /\ j \in Nat
      <4>. HIDE DEF P, L
      <4>. QED  BY <1>1, <1>2
    <3>. HIDE DEF P, L
    <3>. QED  BY <3>1
  <2>2. \A j \in SM : /\ \E h \in 1..(j - 1) : BeginsAt(q, kept, h)
                      /\ \E h : Follows(j, h)
    <3>1. \A j \in P : kept[j] = Mark =>
             /\ \E h \in 1..(j - 1) : BeginsAt(q, kept, h)
             /\ \E h \in (j + 1)..L : BeginsAt(q, kept, h) /\ \A m \in (j + 1)..(h - 1) : kept[m] # Mark
      BY DEF SparedOf, BeginsAt
    <3>. HIDE DEF P
    <3>. QED  BY <3>1
  <2>3. \A j \in SM : Follows(j, fol[j])
    <3>. HIDE DEF Follows, SM
    <3>. QED  BY <2>2
  <2>4. PICK j0 \in SM : \A m \in SM : j0 <= m
    <3>. HIDE DEF SM
    <3>. QED  BY <1>6, <2>1, Least
  <2>5. PICK g \in 1..(j0 - 1) : BeginsAt(q, kept, g)
    <3>. HIDE DEF SM
    <3>. QED  BY <2>2, <2>4
  <2>6. \A h \in 1..L : BeginsAt(q, kept, h) => kept[h] \in HeadsOf(q) /\ kept[h] # Mark
    <3>. SUFFICES ASSUME NEW h \in 1..L, BeginsAt(q, kept, h)
                  PROVE  kept[h] \in HeadsOf(q) /\ kept[h] # Mark
      OBVIOUS
    <3>1. kept[h] \in InstIds(pr) \ {0} /\ kept[h] # Mark /\ IsHead(pr, kept[h])
      BY <1>1 DEF BeginsAt, Member
    <3>. QED  BY <1>6, <3>1, HeadCount
  <2> DEFINE at == [j \in SM \cup {0} |-> IF j = 0 THEN g ELSE fol[j]]
             D == SM \cup {0}
  <2>7. 0 \notin SM
    BY <2>1
  <2>8. g \in Nat /\ g \in 1..L /\ g < j0 /\ j0 \in SM
    BY <1>1, <2>1, <2>4, <2>5
  <2>9. \A j \in SM : fol[j] \in Nat /\ fol[j] \in 1..L /\ j < fol[j] /\ j \in Nat
    <3>1. \A j \in SM : fol[j] \in (j + 1)..L /\ j \in Nat
      BY <2>1, <2>3
    <3>2. \A j \in Nat : \A h \in (j + 1)..L : h \in Nat /\ h \in 1..L /\ j < h
      BY <1>1
    <3>. HIDE DEF SM, fol, L
    <3>. QED  BY <3>1, <3>2
  <2>10. at[0] = g /\ \A j \in SM : at[j] = fol[j]
    <3>. HIDE DEF SM, fol
    <3>. QED  BY <2>7
  <2>11. \A j \in D : at[j] \in 1..L /\ BeginsAt(q, kept, at[j])
    <3>1. \A j \in SM : BeginsAt(q, kept, fol[j])
      BY <2>3
    <3>. HIDE DEF SM, fol, at
    <3>. QED  BY <2>5, <2>8, <2>9, <2>10, <3>1
  <2>12. \A j, m \in SM : j < m => fol[j] < m
    <3>. SUFFICES ASSUME NEW j \in SM, NEW m \in SM, j < m, ~(fol[j] < m)
                  PROVE  FALSE
      BY <2>9
    <3>1. kept[fol[j]] # Mark /\ \A x \in (j + 1)..(fol[j] - 1) : kept[x] # Mark
      BY <2>3 DEF BeginsAt
    <3>2. kept[m] = Mark
      BY <2>1
    <3>. HIDE DEF SM, fol
    <3>3. m # fol[j]
      BY <3>1, <3>2
    <3>4. m \in (j + 1)..(fol[j] - 1)
      BY <2>9, <3>3
    <3>. QED  BY <3>1, <3>2, <3>4
  <2>. HIDE DEF fol, SM, at
  <2>13. \A j, m \in D : j < m => at[j] < at[m]
    <3>. SUFFICES ASSUME NEW j \in D, NEW m \in D, j < m
                  PROVE  at[j] < at[m]
      OBVIOUS
    <3>1. m \in SM /\ at[m] = fol[m] /\ m < fol[m] /\ m \in Nat
      BY <2>9, <2>10
    <3>2. CASE j = 0
      BY <2>4, <2>8, <2>9, <2>10, <3>1, <3>2
    <3>3. CASE j \in SM
      BY <2>9, <2>10, <2>12, <3>1, <3>3
    <3>. QED  BY <3>2, <3>3
  <2>14. \A j, m \in D : kept[at[j]] = kept[at[m]] => j = m
    <3>. SUFFICES ASSUME NEW j \in D, NEW m \in D, kept[at[j]] = kept[at[m]]
                  PROVE  j = m
      OBVIOUS
    <3>1. at[j] \in 1..L /\ at[m] \in 1..L /\ kept[at[j]] # Mark
      BY <2>11 DEF BeginsAt
    <3>2. at[j] = at[m]
      BY <3>1 DEF IsQueue, OnceEach
    <3>3. j \in Nat /\ m \in Nat
      BY <2>9
    <3>. QED  BY <1>1, <2>13, <3>1, <3>2, <3>3
  <2> DEFINE f == [j \in D |-> kept[at[j]]]
  <2>15. f \in Injection(D, HeadsOf(q))
    <3>1. \A j \in D : kept[at[j]] \in HeadsOf(q)
      BY <2>6, <2>11
    <3>. HIDE DEF D
    <3>. QED  BY <2>14, <3>1 DEF Injection, IsInjective
  <2>16. IsFiniteSet(HeadsOf(q)) /\ Cardinality(HeadsOf(q)) = Most(q) + 1 /\ Most(q) \in Nat
    BY <1>6, HeadCount
  <2>17. IsFiniteSet(D) /\ Cardinality(D) <= Most(q) + 1
    <3>. HIDE DEF f, D
    <3>. QED  BY <2>15, <2>16, FS_Injection
  <2>18. Cardinality(D) = Cardinality(SM) + 1 /\ Cardinality(SM) \in Nat
    BY <1>3, <2>7, FS_AddElement, FS_CardinalityType DEF SM
  <2>19. Cardinality(SM) <= Most(q)
    <3>. HIDE DEF D
    <3>. QED  BY <2>16, <2>17, <2>18
  <2>. QED  BY <1>3, <2>19 DEF SM
<1>. QED  BY <1>4, <1>5, <1>6

LEMMA RecordKeeps ==
  ASSUME NEW q, WellFormedProg(ProgOf(q)), NEW kept, IsQueue(q, kept),
         ~Parts(q) => MarksIn(kept) = 0
  PROVE  /\ Record(q, kept) \in Seq(Member(ProgOf(q)))
         /\ MarksIn(Record(q, kept)) <= Most(q) /\ InOrder(q, Record(q, kept))
<1> DEFINE P == SparedOf(q, kept)
           N == Cardinality(P)
           r == Record(q, kept)
           SM == {j \in P : kept[j] = Mark}
           RM == {n \in 1..N : r[n] = Mark}
           pick == [n \in RM |-> PickOf(q, kept, n)]
<1>1. /\ P \subseteq 1..Len(kept) /\ IsFiniteSet(P) /\ N \in Nat
      /\ \A n \in 1..N : PickOf(q, kept, n) \in P
      /\ \A n, m \in 1..N : PickOf(q, kept, n) = PickOf(q, kept, m) => n = m
  BY Picked, FS_CardinalityType
<1>2. \A j \in P : kept[j] \in Member(ProgOf(q))
  BY <1>1, ElementOfSeq DEF IsQueue
<1>3. r = [n \in 1..N |-> kept[PickOf(q, kept, n)]]
  BY RecordIs
<1>4. IsFiniteSet(SM) /\ Cardinality(SM) <= Most(q)
  BY MarksSpared, Zenon
<1>. HIDE DEF P, N, r
<1>5. r \in [1..N -> Member(ProgOf(q))] /\ \A n \in 1..N : r[n] = kept[PickOf(q, kept, n)]
  BY <1>1, <1>2, <1>3
<1>6. r \in Seq(Member(ProgOf(q))) /\ Len(r) = N
  BY <1>1, <1>5, IsASeq, LenProperties
<1>7. MarksIn(r) = Cardinality(RM) /\ MarksIn(r) \in Nat
  BY <1>6, MarksNat
<1>8. pick \in Injection(RM, SM)
  <2>1. \A n \in RM : PickOf(q, kept, n) \in SM
    BY <1>1, <1>5
  <2>2. \A n, m \in RM : PickOf(q, kept, n) = PickOf(q, kept, m) => n = m
    BY <1>1
  <2>. HIDE DEF RM, SM
  <2>. QED  BY <2>1, <2>2 DEF Injection, IsInjective
<1>9. Cardinality(RM) <= Cardinality(SM)
  <2>. HIDE DEF pick, RM, SM
  <2>. QED  BY <1>4, <1>8, FS_Injection
<1>10. Cardinality(SM) \in Nat /\ Most(q) \in Int
  <2>1. Len(ProgOf(q).inst) \in Nat
    BY InProgram
  <2>. QED  BY <1>4, <2>1, FS_CardinalityType DEF Most
<1>11. MarksIn(r) <= Most(q)
  <2>. HIDE DEF RM, SM
  <2>. QED  BY <1>4, <1>7, <1>9, <1>10
<1>12. InOrder(q, r)
  <2>1. \A j \in P : kept[j] = Mark \/ IsHead(ProgOf(q), kept[j])
    BY DEF P, SparedOf, BeginsAt
  <2>2. \A n \in 1..N : r[n] = Mark \/ IsHead(ProgOf(q), r[n])
    BY <1>1, <1>5, <2>1
  <2>. QED  BY <1>6, <2>2 DEF InOrder, Led
<1>. QED  BY <1>6, <1>11, <1>12 DEF r

(***************************************************************************)
(* WorkqToCachedState, and the queues of the states it makes.              *)
(***************************************************************************)
\* The Marks of a queue count only where there are some at all.
MarksFit(q, w) == IsQueue(q, w) /\ (~Parts(q) => MarksIn(w) = 0)
\* A state whose queues have room.
Roomy(q, s) ==
  s.inst \in Seq(Member(ProgOf(q))) /\ MarksIn(s.inst) <= Most(q) /\ InOrder(q, s.inst)

LEMMA Kept ==
  ASSUME NEW q, NEW w, MarksFit(q, w), NEW n \in 0..Len(w)
  PROVE  MarksFit(q, SubSeq(w, 1, n))
<1> DEFINE r == SubSeq(w, 1, n)
           L == Len(w)
<1>1. w \in Seq(Member(ProgOf(q))) /\ OnceEach(w) /\ L \in Nat /\ n \in Nat /\ n <= L
  BY LenProperties DEF MarksFit, IsQueue
<1>2. /\ r \in Seq(Member(ProgOf(q))) /\ Len(r) = n /\ \A j \in 1..n : r[j] = w[j]
  <2>1. \A j \in 1..n : w[j] \in Member(ProgOf(q))
    BY <1>1, ElementOfSeq
  <2>2. /\ SubSeq(w, 1, n) \in Seq(Member(ProgOf(q)))
        /\ Len(SubSeq(w, 1, n)) = IF 1 <= n THEN n - 1 + 1 ELSE 0
        /\ \A j \in 1..(n - 1 + 1) : SubSeq(w, 1, n)[j] = w[1 + j - 1]
    BY <1>1, <2>1, SubSeqProperties
  <2>3. n - 1 + 1 = n /\ (1 <= n \/ n = 0) /\ \A j \in Int : 1 + j - 1 = j
    BY <1>1
  <2>. QED  BY <2>2, <2>3
<1>. HIDE DEF r, L
<1>3. \A j \in 1..n : j \in 1..L
  BY <1>1
<1>4. OnceEach(r)
  BY <1>1, <1>2, <1>3 DEF OnceEach, L
<1>5. ASSUME ~Parts(q)
      PROVE  MarksIn(r) = 0
  <2>1. MarksIn(w) = 0
    BY <1>5 DEF MarksFit
  <2>2. IsFiniteSet({j \in 1..L : w[j] = Mark}) /\ MarksIn(w) = Cardinality({j \in 1..L : w[j] = Mark})
    BY <1>1, MarksNat DEF L
  <2>3. {j \in 1..L : w[j] = Mark} = {}
    BY <2>1, <2>2, FS_EmptySet
  <2>4. \A j \in 1..Len(r) : r[j] # Mark
    BY <1>2, <1>3, <2>3
  <2>. QED  BY <1>2, <2>4, NoMarks
<1>. QED  BY <1>2, <1>4, <1>5 DEF MarksFit, IsQueue, r

LEMMA Cached ==
  ASSUME NEW q, WellFormedProg(ProgOf(q)), NEW w, MarksFit(q, w), NEW flag
  PROVE  LET s == WorkqToCachedState(q, w, flag) IN s = FullMatchState \/ Roomy(q, s)
<1> DEFINE pr == ProgOf(q)
           matches == {j \in DOMAIN w : w[j] # Mark /\ Inst(pr, w[j]).op = "Match" /\ ~pr.anchorEnd}
           cuts == {j \in DOMAIN w : (\E m \in matches : m < j) /\ Cut(q, w[j])}
           kept == IF cuts = {} THEN w ELSE SubSeq(w, 1, Min(cuts) - 1)
           s == WorkqToCachedState(q, w, flag)
<1>1. MarksFit(q, kept)
  <2>1. CASE cuts = {}
    BY <2>1
  <2>2. CASE cuts # {}
    <3>1. Len(w) \in Nat /\ DOMAIN w = 1..Len(w)
      BY LenProperties DEF MarksFit, IsQueue
    <3>2. cuts \subseteq 1..Len(w) /\ cuts \in SUBSET Nat
      BY <3>1
    <3>. HIDE DEF cuts
    <3>3. \E x \in cuts : \A y \in cuts : x <= y
      BY <2>2, <3>2, Least
    <3>4. Min(cuts) \in cuts
      BY <3>3 DEF Min
    <3>5. Min(cuts) - 1 \in 0..Len(w)
      <4>1. Min(cuts) \in 1..Len(w)
        BY <3>2, <3>4
      <4>2. \A j \in 1..Len(w) : j - 1 \in 0..Len(w)
        BY <3>1
      <4>. QED  BY <4>1, <4>2
    <3>. QED  BY <2>2, <3>5, Kept
  <2>. QED  BY <2>1, <2>2
<1>2. /\ Record(q, kept) \in Seq(Member(pr)) /\ MarksIn(Record(q, kept)) <= Most(q)
      /\ InOrder(q, Record(q, kept))
  <2>. HIDE DEF kept
  <2>. QED  BY <1>1, RecordKeeps DEF MarksFit
<1>3. s = FullMatchState \/ s.inst = Record(q, kept)
  <2>1. \E full \in BOOLEAN : \E f, n :
           s = IF full THEN FullMatchState ELSE [inst |-> Record(q, kept), flag |-> f, need |-> n]
    <3> DEFINE need == NeedOf(q, ToSet(kept) \ {Mark})
               sawmark(j) == \E m \in 1..(j - 1) : kept[m] = Mark /\ \E h \in 1..(m - 1) : kept[h] # Mark /\ IsHead(pr, kept[h])
               full == \E j \in DOMAIN kept : IsFull(q, kept[j], j = 1, sawmark(j), flag)
    <3>1. s = IF full THEN FullMatchState
              ELSE [inst |-> Record(q, kept), flag |-> IF need = {} THEN flag \cap {"Match"} ELSE flag, need |-> need]
      BY Zenon DEF WorkqToCachedState
    <3>2. full \in BOOLEAN
      OBVIOUS
    <3>. HIDE DEF full, need, kept, s
    <3>. QED  BY <3>1, <3>2, Zenon
  <2>. HIDE DEF s, kept
  <2>. QED  BY <2>1
<1>. QED  BY <1>2, <1>3 DEF Roomy

\* What MarksIn allows of a queue entered n times behind a state's Marks.
Bound(q, n) == Most(q) + n * One(Parts(q))

LEMMA BoundIs ==
  ASSUME NEW q, WellFormedProg(ProgOf(q))
  PROVE  /\ \A n \in Nat : Bound(q, n) \in Int /\ (~Parts(q) => Bound(q, n) = 0)
         /\ \A n \in {1, 2, 3} : Bound(q, n) <= MaxMark(q)
         /\ \A n \in Nat : Bound(q, n) + One(Parts(q)) = Bound(q, n + 1)
         /\ Bound(q, 0) = Most(q)
<1>1. Len(ProgOf(q).inst) \in Nat
  BY InProgram
<1>2. First(q) => ~Parts(q)
  BY DEF Parts, MarksAfter
<1>3. CASE Parts(q)
  <2> DEFINE len == Len(ProgOf(q).inst)
  <2>1. MaxMark(q) = len /\ Most(q) = len - 3 /\ One(Parts(q)) = 1 /\ len \in Nat
    BY <1>1, <1>2, <1>3 DEF MaxMark, Most, One
  <2>2. \A n \in Nat : n * 1 = n
    OBVIOUS
  <2>. HIDE DEF len
  <2>3. \A n \in Nat : Bound(q, n) = len - 3 + n
    BY <2>1, <2>2 DEF Bound
  <2>4. \A n \in Nat : n + 1 \in Nat /\ len - 3 + n \in Int /\ len - 3 + n + 1 = len - 3 + (n + 1)
    BY <2>1
  <2>5. \A n \in {1, 2, 3} : n \in Nat /\ len - 3 + n <= len
    BY <2>1
  <2>6. len - 3 + 0 = len - 3
    BY <2>1
  <2>. QED  BY <1>3, <2>1, <2>3, <2>4, <2>5, <2>6
<1>4. CASE ~Parts(q)
  <2>1. One(Parts(q)) = 0 /\ Most(q) = 0
    BY <1>4 DEF One, Most
  <2>2. \A n \in Nat : n * 0 = 0
    OBVIOUS
  <2>3. \A n \in Nat : Bound(q, n) = 0
    BY <2>1, <2>2 DEF Bound
  <2>4. MaxMark(q) \in Nat
    BY <1>1 DEF MaxMark
  <2>. QED  BY <2>1, <2>3, <2>4
<1>. QED  BY <1>3, <1>4

\* The queue that reads the byte, and the one behind it.
LEMMA QueueFits ==
  ASSUME NEW q, WellFormedProg(ProgOf(q)), NEW s, Roomy(q, s), NEW c
  PROVE  LET w == Queue(q, s, c) IN IsQueue(q, w) /\ MarksIn(w) <= Bound(q, 2) /\ Whole(q, w)
<1> DEFINE w0 == StateToWorkq(q, s)
           w1 == RunWorkqOnEmptyString(q, w0, BeforeFlag(s, c))
           w == Queue(q, s, c)
<1>1. /\ s.inst \in Seq(Member(ProgOf(q))) /\ InOrder(q, s.inst)
      /\ MarksIn(s.inst) <= Most(q) /\ MarksIn(s.inst) \in Nat
  BY MarksNat DEF Roomy
<1>2. IsQueue(q, w0) /\ Has(q, w0) <= MarksIn(s.inst) + One(Parts(q)) /\ Whole(q, w0)
  <2> DEFINE fl == s.flag \cap AllEmptyFlags
  <2>1. w0 = AddAll(q, s.inst, fl)
    BY DEF StateToWorkq
  <2>2. LET v == AddAll(q, s.inst, fl) IN
        IsQueue(q, v) /\ Has(q, v) <= MarksIn(s.inst) + One(Parts(q)) /\ Whole(q, v)
    <3>. HIDE DEF fl
    <3>. QED  BY <1>1, AllAdded
  <2>. QED  BY <2>1, <2>2, Zenon
<1>3. MarksIn(w0) \in Nat /\ Fresh(q, w0) \in {0, 1}
  BY <1>2, HasNat
<1>4. MarksIn(w0) <= Bound(q, 1) /\ One(Parts(q)) \in {0, 1}
  <2>1. One(Parts(q)) \in {0, 1}
    BY DEF One
  <2>2. Most(q) + One(Parts(q)) = Bound(q, 0 + 1) /\ 0 + 1 = 1 /\ Most(q) \in Int
    BY BoundIs
  <2>. HIDE DEF w0
  <2>. QED  BY <1>1, <1>2, <1>3, <2>1, <2>2 DEF Has
<1>5. IsQueue(q, w1) /\ Has(q, w1) <= MarksIn(w0) + One(Parts(q)) /\ Whole(q, w1)
  <2> DEFINE fl == BeforeFlag(s, c)
  <2>1. w1 = AddAll(q, w0, fl)
    BY DEF RunWorkqOnEmptyString
  <2>2. w0 \in Seq(Member(ProgOf(q))) /\ InOrder(q, w0)
    BY <1>2 DEF IsQueue, Whole
  <2>3. LET v == AddAll(q, w0, fl) IN
        IsQueue(q, v) /\ Has(q, v) <= MarksIn(w0) + One(Parts(q)) /\ Whole(q, v)
    <3>. HIDE DEF fl, w0
    <3>. QED  BY <2>2, AllAdded
  <2>. QED  BY <2>1, <2>3, Zenon
<1>6. MarksIn(w1) \in Nat /\ Fresh(q, w1) \in {0, 1}
  BY <1>5, HasNat
<1>7. Bound(q, 1) \in Int /\ Bound(q, 2) \in Int /\ Bound(q, 1) + One(Parts(q)) = Bound(q, 2)
  <2>1. Bound(q, 1) + One(Parts(q)) = Bound(q, 1 + 1) /\ 1 + 1 = 2
    BY BoundIs
  <2>. QED  BY <2>1, BoundIs
<1>8. w = w0 \/ w = w1
  BY DEF Queue
<1>. HIDE DEF w0, w1, w
<1>9. MarksIn(w0) <= Bound(q, 2) /\ MarksIn(w1) <= Bound(q, 2)
  BY <1>3, <1>4, <1>5, <1>6, <1>7 DEF Has
<1>. QED  BY <1>2, <1>5, <1>8, <1>9 DEF w

LEMMA ByteFits ==
  ASSUME NEW q, WellFormedProg(ProgOf(q)), NEW s, Roomy(q, s), NEW c, NEW flag
  PROVE  LET r == RunWorkqOnByte(q, Queue(q, s, c), c, flag) IN
         IsQueue(q, r.w) /\ MarksIn(r.w) <= Bound(q, 3) /\ r.j <= Len(Queue(q, s, c)) + 1
<1> DEFINE w == Queue(q, s, c)
           r == RunWorkqOnByte(q, w, c, flag)
<1>1. IsQueue(q, w) /\ MarksIn(w) <= Bound(q, 2) /\ Whole(q, w)
  BY QueueFits, Zenon
<1>2. IsQueue(q, r.w) /\ Has(q, r.w) <= MarksIn(w) + One(Parts(q)) /\ r.j <= Len(w) + 1
  <2>. HIDE DEF w
  <2>1. LET v == RunWorkqOnByte(q, w, c, flag) IN
        /\ IsQueue(q, v.w) /\ v.ismatch \in BOOLEAN
        /\ Has(q, v.w) <= MarksIn(w) + One(Parts(q))
        /\ Whole(q, w) => v.j <= Len(w) + 1
    BY <1>1, ByteKeeps
  <2>. QED  BY <1>1, <2>1, Zenon
<1>3. MarksIn(r.w) \in Nat /\ Fresh(q, r.w) \in {0, 1}
  BY <1>2, HasNat
<1>4. Bound(q, 2) \in Int /\ Bound(q, 3) \in Int /\ Bound(q, 2) + One(Parts(q)) = Bound(q, 3)
  <2>1. Bound(q, 2) + One(Parts(q)) = Bound(q, 2 + 1) /\ 2 + 1 = 3
    BY BoundIs
  <2>. QED  BY <2>1, BoundIs
<1>5. MarksIn(w) \in Nat /\ One(Parts(q)) \in {0, 1}
  BY <1>1, HasNat DEF One
<1>. HIDE DEF r, w
<1>6. MarksIn(r.w) <= Bound(q, 3)
  BY <1>1, <1>2, <1>3, <1>4, <1>5 DEF Has
<1>. QED  BY <1>2, <1>6 DEF r, w

\* Every state but FullMatchState is roomy.
LEMMA NextState ==
  ASSUME NEW q, WellFormedProg(ProgOf(q)), NEW s, Roomy(q, s), NEW c
  PROVE  LET next == RunStateOnByte(q, s, c) IN next = FullMatchState \/ Roomy(q, next)
<1> DEFINE run == RunWorkqOnByte(q, Queue(q, s, c), c, AfterFlag(c))
           fl == AfterFlag(c) \cup (IF run.ismatch THEN {"Match"} ELSE {})
                              \cup (IF c \in WordChar THEN {"LastWord"} ELSE {})
           next == RunStateOnByte(q, s, c)
<1>1. IsQueue(q, run.w) /\ MarksIn(run.w) <= Bound(q, 3)
  <2> DEFINE af == AfterFlag(c)
  <2>1. LET r == RunWorkqOnByte(q, Queue(q, s, c), c, af) IN
        IsQueue(q, r.w) /\ MarksIn(r.w) <= Bound(q, 3) /\ r.j <= Len(Queue(q, s, c)) + 1
    <3>. HIDE DEF af
    <3>. QED  BY ByteFits
  <2>. QED  BY <2>1, Zenon
<1>2. MarksFit(q, run.w)
  <2>1. MarksIn(run.w) \in Nat
    BY <1>1, HasNat
  <2>2. ~Parts(q) => Bound(q, 3) = 0
    BY BoundIs
  <2>. HIDE DEF run
  <2>. QED  BY <1>1, <2>1, <2>2 DEF MarksFit
<1>3. next = s \/ next = WorkqToCachedState(q, run.w, fl)
  BY Zenon DEF RunStateOnByte
<1>4. LET v == WorkqToCachedState(q, run.w, fl) IN v = FullMatchState \/ Roomy(q, v)
  <2>. HIDE DEF run, fl
  <2>. QED  BY <1>2, Cached
<1>. HIDE DEF next, run, fl
<1>. QED  BY <1>3, <1>4 DEF next

LEMMA FirstState ==
  ASSUME NEW q, WellFormedProg(ProgOf(q))
  PROVE  StartState(q) = FullMatchState \/ Roomy(q, StartState(q))
<1> DEFINE from == IF Anchored(q) THEN ProgOf(q).start ELSE ProgOf(q).startUnanchored
           fl == StartFlag(q)
           w == AddToQueue(q, <<>>, from, fl)
<1>1. from \in InstIds(ProgOf(q)) /\ from \in InstIds(ProgOf(q)) \cup {Mark} /\ from # Mark
  BY InProgram DEF WellFormedProg
<1>2. IsQueue(q, w) /\ Has(q, w) <= Has(q, <<>>) + One(from = Mark)
  <2>. HIDE DEF from, fl
  <2>1. LET v == AddToQueue(q, <<>>, from, fl) IN
        /\ IsQueue(q, v)
        /\ Has(q, v) <= Has(q, <<>>) + One(from = Mark)
    BY <1>1, EmptyQueue, Added
  <2>. QED  BY <2>1, Zenon
<1>3. MarksFit(q, w)
  <2>1. Has(q, <<>>) = One(Parts(q)) /\ One(from = Mark) = 0
    BY <1>1, EmptyQueue DEF One
  <2>2. MarksIn(w) \in Nat /\ Fresh(q, w) \in {0, 1}
    BY <1>2, HasNat
  <2>3. ~Parts(q) => One(Parts(q)) = 0
    BY DEF One
  <2>. HIDE DEF w, from
  <2>. QED  BY <1>2, <2>1, <2>2, <2>3 DEF MarksFit, Has
<1>4. StartState(q) = WorkqToCachedState(q, w, fl)
  BY Zenon DEF StartState
<1>5. LET v == WorkqToCachedState(q, w, fl) IN v = FullMatchState \/ Roomy(q, v)
  <2>. HIDE DEF w, fl
  <2>. QED  BY <1>3, Cached
<1>. HIDE DEF w, fl
<1>. QED  BY <1>4, <1>5

(***************************************************************************)
(* The search.                                                             *)
(***************************************************************************)
StatesInv ==
  /\ \E ask \in Queries : engine = ask.engine /\ query = ask.query
  /\ engine = "DFA" /\ pc = "scan" => Roomy(query, state)

LEMMA StatesNext == StatesInv /\ [Next]_vars => StatesInv'
<1>. SUFFICES ASSUME StatesInv, [Next]_vars PROVE StatesInv'
  OBVIOUS
<1>1. CASE UNCHANGED vars
  BY <1>1 DEF StatesInv, vars, engineVars, dfaVars
<1>2. CASE BitStateStep \/ NFAStep \/ OnePassStep
  <2>1. engine' = engine /\ query' = query
    BY <1>2, SameQuery DEF Next
  <2>2. engine # "DFA"
    <3>1. OnePassStep => engine = "OnePass"
      BY DEF OnePassStep, OnePassNext, OnePassReject, OnePassStart, OnePassByte, OnePassEnd
    <3>. QED  BY <1>2, <3>1, OthersLeaveThreads, OthersLeaveIt
  <2>. QED  BY <2>1, <2>2 DEF StatesInv
<1>3. CASE DFAStep
  <2>1. engine' = engine /\ query' = query
    BY <1>3, SameQuery DEF Next
  <2>2. WellFormedProg(ProgOf(query))
    BY AllAsked DEF StatesInv, Asked, prog
  <2>3. CASE DFAReject
    BY <2>1, <2>3 DEF StatesInv, DFAReject, DFAReturn
  <2>4. CASE DFAStart
    <3>1. state' = StartState(query)
      BY <2>4 DEF DFAStart
    <3>2. pc' = "scan" => state' # FullMatchState
      BY <2>4 DEF DFAStart, DFAReturn
    <3>. QED  BY <2>1, <2>2, <3>1, <3>2, FirstState DEF StatesInv
  <2>5. CASE DFAByte
    <3>1. engine = "DFA" /\ pc = "scan"
      BY <2>5 DEF DFAByte
    <3>2. \E c : state' = RunStateOnByte(query, state, c)
      BY <2>5 DEF DFAByte
    <3>3. pc' = "scan" => state' # FullMatchState
      BY <2>5 DEF DFAByte, DFAReturn
    <3>4. Roomy(query, state)
      BY <3>1 DEF StatesInv
    <3>5. PICK c : state' = RunStateOnByte(query, state, c)
      BY <3>2
    <3>6. LET next == RunStateOnByte(query, state, c) IN next = FullMatchState \/ Roomy(query, next)
      BY <2>2, <3>4, NextState
    <3>7. state' = FullMatchState \/ Roomy(query, state')
      BY <3>5, <3>6, Zenon
    <3>. QED  BY <2>1, <3>3, <3>7 DEF StatesInv
  <2>. QED  BY <1>3, <2>3, <2>4, <2>5 DEF DFAStep, DFANext
<1>. QED  BY <1>1, <1>2, <1>3 DEF Next

LEMMA StatesInvariant == Spec => []StatesInv
<1>1. Init => StatesInv
  BY DEF Init, StatesInv
<1>. QED  BY <1>1, StatesNext, PTL DEF Spec

\* QueuesFit: of RoomForAll, the part that is about this engine.  DFA's constructor
\* gives each queue of re2/dfa.cc as many places for Marks as the program has
\* instructions, none in a first match search, and AddToQueue's stack one for each
\* instruction that pushes and for each Mark, and RunWorkqOnByte moves its iterator by
\* hints and to the ends of lists: nothing of that is ever checked.
THEOREM QueuesAreEnough == Spec => []QueuesFit
<1>1. StatesInv => QueuesFit
  <2>. SUFFICES ASSUME StatesInv, engine = "DFA", pc = "scan", NEW c
                PROVE  LET w == Queue(query, state, c)
                           r == RunWorkqOnByte(query, w, c, AfterFlag(c))
                       IN /\ MarksIn(w) <= MaxMark(query) /\ MarksIn(r.w) <= MaxMark(query)
                          /\ r.j <= Len(w) + 1
                          /\ StackFits(query, w, BeforeFlag(state, c)) /\ StackFits(query, r.w, AfterFlag(c))
    BY DEF QueuesFit
  <2>1. Roomy(query, state) /\ WellFormedProg(ProgOf(query))
    BY AllAsked DEF StatesInv, Asked, prog
  <2> DEFINE q == query
             w == Queue(q, state, c)
             af == AfterFlag(c)
             r == RunWorkqOnByte(q, w, c, af)
  <2>2. IsQueue(q, w) /\ MarksIn(w) <= Bound(q, 2) /\ Whole(q, w)
    BY <2>1, QueueFits, Zenon
  <2>3. IsQueue(q, r.w) /\ MarksIn(r.w) <= Bound(q, 3) /\ r.j <= Len(w) + 1
    <3>1. LET v == RunWorkqOnByte(q, Queue(q, state, c), c, af) IN
          IsQueue(q, v.w) /\ MarksIn(v.w) <= Bound(q, 3) /\ v.j <= Len(Queue(q, state, c)) + 1
      <4>. HIDE DEF af
      <4>. QED  BY <2>1, ByteFits
    <3>. QED  BY <3>1, Zenon
  <2>4. MarksIn(w) \in Nat /\ MarksIn(r.w) \in Nat
    BY <2>2, <2>3, HasNat
  <2>5. /\ Bound(q, 2) \in Int /\ Bound(q, 3) \in Int /\ MaxMark(q) \in Int
        /\ Bound(q, 2) <= MaxMark(q) /\ Bound(q, 3) <= MaxMark(q)
    <3>1. Len(ProgOf(q).inst) \in Nat
      BY <2>1, InProgram
    <3>2. MaxMark(q) \in Int
      BY <3>1 DEF MaxMark
    <3>. QED  BY <2>1, <3>2, BoundIs
  <2>6. ASSUME NEW u, NEW flag, IsQueue(q, u)
        PROVE  StackFits(q, u, flag)
    <3>1. \A k \in InstIds(ProgOf(q)) : \A n \in 0..Turns(q) :
            Len(AddLoop(q, u, k, flag)[n].stk) <= StackSize(q)
      BY <2>1, <2>6, StackIsLarge
    <3>. QED  BY <3>1 DEF StackFits
  <2>. HIDE DEF w, r
  <2>7. MarksIn(w) <= MaxMark(q) /\ MarksIn(r.w) <= MaxMark(q)
    BY <2>2, <2>3, <2>4, <2>5
  <2>8. StackFits(q, w, BeforeFlag(state, c)) /\ StackFits(q, r.w, AfterFlag(c))
    BY <2>2, <2>3, <2>6
  <2>. QED  BY <2>3, <2>7, <2>8 DEF w, r
<1>. QED  BY <1>1, StatesInvariant, PTL

\* RoomForAll: the bitmap, the stack and the queues that an engine sets aside before
\* a search are enough for all of it, whatever the program and the text.
THEOREM RoomIsEnough == Spec => []RoomForAll
BY BitmapIsEnough, StackIsEnough, QueuesAreEnough, PTL DEF RoomForAll
=============================================================================
