--------------------------- MODULE BitStateProofs ---------------------------
(***************************************************************************)
(* Proofs about the search by backtracking: what is on the stack undoes    *)
(* every capture that is still set, no instruction waits twice at the same *)
(* position, and the search stays in its bitmap.                           *)
(***************************************************************************)
EXTENDS Engines, WellFoundedInduction, SequenceTheorems, TLAPS

LEMMA Least ==
  ASSUME NEW S \in SUBSET Nat, S # {}
  PROVE  \E least \in S : \A m \in S : least <= m
<1> DEFINE R == {ss \in Nat \X Nat : ss[1] < ss[2]}
<1>1. IsWellFoundedOn(R, Nat)
  BY NatLessThanWellFounded DEF OpToRel
<1>2. \E least \in S : \A m \in S : <<m, least>> \notin R
  <2> HIDE DEF R
  <2>. QED  BY <1>1, WFMin
<1>3. PICK least \in S : \A m \in S : <<m, least>> \notin R
  BY <1>2
<1>4. \A m \in S : ~(m < least)
  <2>. SUFFICES ASSUME NEW m \in S, m < least
                PROVE  FALSE
    OBVIOUS
  <2>1. <<m, least>> \in Nat \X Nat /\ <<m, least>>[1] = m /\ <<m, least>>[2] = least
    OBVIOUS
  <2>2. <<m, least>> \in R
    BY <2>1
  <2>. QED  BY <1>3, <2>2
<1>. QED  BY <1>4

(***************************************************************************)
(* The ways that are sure to match.                                        *)
(***************************************************************************)
Matching0(pr) == {k \in InstIds(pr) : Inst(pr, k).op = "Match"}
IsSure(pr, f, n) ==
  f = [m \in 0..n |-> IF m = 0 THEN Matching0(pr)
                      ELSE LET known == f[m - 1] IN known \cup LeadsTo(pr, known)]

\* The definition of SureWithin defines something.
LEMMA SureExists == \A pr : \A n \in Nat : \E f : IsSure(pr, f, n)
<1>. SUFFICES ASSUME NEW pr, NEW bad \in Nat, ~ \E f : IsSure(pr, f, bad)
              PROVE  FALSE
  OBVIOUS
<1> DEFINE Bad == {n \in Nat : ~ \E f : IsSure(pr, f, n)}
<1>1. PICK n \in Bad : \A m \in Bad : n <= m
  <2>1. Bad \in SUBSET Nat /\ bad \in Bad
    OBVIOUS
  <2>. HIDE DEF Bad
  <2>. QED  BY <2>1, Least
<1>2. CASE n = 0
  <2>1. IsSure(pr, [m \in 0..0 |-> Matching0(pr)], 0)
    BY DEF IsSure
  <2>. QED  BY <1>2, <2>1
<1>3. CASE n # 0
  <2>1. n - 1 \in Nat /\ n - 1 \notin Bad
    BY <1>1, <1>3
  <2>2. PICK f : IsSure(pr, f, n - 1)
    BY <2>1
  <2> DEFINE g == [m \in 0..n |-> IF m = 0 THEN Matching0(pr)
                                  ELSE LET known == f[m - 1] IN known \cup LeadsTo(pr, known)]
  <2>3. \A m \in 0..(n - 1) : g[m] = f[m]
    <3>1. \A m \in 0..(n - 1) : f[m] = IF m = 0 THEN Matching0(pr)
                                         ELSE f[m - 1] \cup LeadsTo(pr, f[m - 1])
      BY <2>2 DEF IsSure
    <3>2. \A m \in 0..n : g[m] = IF m = 0 THEN Matching0(pr)
                                   ELSE f[m - 1] \cup LeadsTo(pr, f[m - 1])
      OBVIOUS
    <3>3. \A m \in 0..(n - 1) : m \in 0..n
      BY <2>1
    <3>. HIDE DEF g
    <3>. QED  BY <3>1, <3>2, <3>3
  <2>4. \A m \in (0..n) \ {0} : g[m - 1] = f[m - 1]
    <3>1. \A m \in (0..n) \ {0} : m - 1 \in 0..(n - 1)
      BY <2>1
    <3>. HIDE DEF g
    <3>. QED  BY <2>3, <3>1
  <2>5. \A m \in 0..n : g[m] = IF m = 0 THEN Matching0(pr)
                                ELSE LET known == g[m - 1] IN known \cup LeadsTo(pr, known)
    <3>. SUFFICES ASSUME NEW m \in 0..n
                  PROVE  g[m] = IF m = 0 THEN Matching0(pr)
                                ELSE g[m - 1] \cup LeadsTo(pr, g[m - 1])
      OBVIOUS
    <3>1. g[m] = IF m = 0 THEN Matching0(pr) ELSE f[m - 1] \cup LeadsTo(pr, f[m - 1])
      OBVIOUS
    <3>. HIDE DEF g
    <3>. QED  BY <2>4, <3>1
  <2>6. IsSure(pr, g, n)
    <3>1. g = [m \in 0..n |-> g[m]]
      OBVIOUS
    <3>. HIDE DEF g
    <3>2. [m \in 0..n |-> g[m]]
            = [m \in 0..n |-> IF m = 0 THEN Matching0(pr)
                              ELSE LET known == g[m - 1] IN known \cup LeadsTo(pr, known)]
      BY <2>5
    <3>. QED  BY <3>1, <3>2 DEF IsSure
  <2>. QED  BY <2>6
<1>. QED  BY <1>2, <1>3

LEMMA SureIs ==
  ASSUME NEW pr, Len(pr.inst) \in Nat
  PROVE  /\ SureWithin(pr)[0] = Matching0(pr)
         /\ \A n \in 1..Len(pr.inst) :
              SureWithin(pr)[n] = SureWithin(pr)[n - 1] \cup LeadsTo(pr, SureWithin(pr)[n - 1])
<1>1. IsSure(pr, SureWithin(pr), Len(pr.inst))
  <2>1. SureWithin(pr) = CHOOSE f : IsSure(pr, f, Len(pr.inst))
    BY Zenon DEF IsSure, SureWithin, Matching0
  <2>2. \E f : IsSure(pr, f, Len(pr.inst))
    BY SureExists
  <2>. QED  BY <2>1, <2>2
<1> DEFINE sure == SureWithin(pr)
<1>. HIDE DEF sure
<1>2. \A m \in 0..Len(pr.inst) :
        sure[m] = IF m = 0 THEN Matching0(pr) ELSE sure[m - 1] \cup LeadsTo(pr, sure[m - 1])
  BY <1>1 DEF IsSure, sure
<1>3. 0 \in 0..Len(pr.inst) /\ \A m \in 1..Len(pr.inst) : m \in 0..Len(pr.inst) /\ m # 0
  OBVIOUS
<1>4. /\ sure[0] = Matching0(pr)
      /\ \A m \in 1..Len(pr.inst) : sure[m] = sure[m - 1] \cup LeadsTo(pr, sure[m - 1])
  BY <1>2, <1>3
<1>. QED  BY <1>4 DEF sure

\* Nothing but a Match is at the end of such a way.
LEMMA SureClosed ==
  ASSUME NEW pr, WellFormedProg(pr)
  PROVE  /\ Sure(pr) \subseteq InstIds(pr)
         /\ \A k \in Sure(pr) :
              \/ Inst(pr, k).op = "Match"
              \/ /\ Inst(pr, k).op \in {"Capture", "Nop"}
                 /\ Inst(pr, k).out \in Sure(pr)
                 /\ IsHead(pr, Inst(pr, k).out) /\ Inst(pr, Inst(pr, k).out).last
         /\ \A S \in SUBSET Sure(pr) :
              S # {} /\ (\A k \in S : Inst(pr, k).op # "Match") =>
                \E k \in S : Inst(pr, k).out \notin S
<1> DEFINE n == Len(pr.inst)
           sure == SureWithin(pr)
<1>1. n \in Nat /\ Sure(pr) = sure[n]
  BY DEF WellFormedProg, Sure
<1>2. sure[0] = Matching0(pr)
      /\ \A m \in 1..n : sure[m] = sure[m - 1] \cup LeadsTo(pr, sure[m - 1])
  BY <1>1, SureIs
<1>. HIDE DEF n, sure
<1>3. \A m \in 0..n : sure[m] \subseteq sure[n]
  <2>. SUFFICES ASSUME NEW bad \in 0..n, ~(sure[bad] \subseteq sure[n])
                PROVE  FALSE
    OBVIOUS
  <2> DEFINE Bad == {d \in 0..n : ~(sure[n - d] \subseteq sure[n])}
  <2>1. Bad \in SUBSET Nat /\ Bad # {}
    <3> DEFINE far == n - bad
    <3>1. far \in 0..n /\ n - far = bad
      BY <1>1
    <3>2. Bad \in SUBSET Nat
      BY <1>1
    <3>. HIDE DEF far
    <3>3. far \in Bad
      BY <3>1
    <3>. QED  BY <3>2, <3>3
  <2>2. PICK d \in Bad : \A m \in Bad : d <= m
    <3>. HIDE DEF Bad
    <3>. QED  BY <2>1, Least
  <2>3. d # 0 /\ d \in 1..n
    BY <1>1
  <2>4. d - 1 \notin Bad /\ d - 1 \in 0..n
    BY <1>1, <2>2, <2>3
  <2>5. sure[n - (d - 1)] \subseteq sure[n]
    BY <2>4
  <2>6. n - (d - 1) \in 1..n /\ (n - (d - 1)) - 1 = n - d
    BY <1>1, <2>3
  <2>7. sure[n - d] \subseteq sure[n - (d - 1)]
    BY <1>2, <2>6
  <2>. QED  BY <2>5, <2>7
<1>4. ASSUME NEW S \in SUBSET sure[n], S # {}
      PROVE  \E k \in S : \/ k \in Matching0(pr)
                          \/ \E m \in 0..n : /\ k \in LeadsTo(pr, sure[m])
                                             /\ S \cap sure[m] = {}
  <2> DEFINE R == {m \in 0..n : S \cap sure[m] # {}}
  <2>1. R \in SUBSET Nat /\ R # {}
    <3>1. n \in R
      BY <1>1, <1>4
    <3>. QED  BY <1>1, <3>1
  <2>2. PICK r \in R : \A m \in R : r <= m
    <3>. HIDE DEF R
    <3>. QED  BY <2>1, Least
  <2>3. PICK k \in S : k \in sure[r]
    OBVIOUS
  <2>4. CASE r = 0
    BY <1>2, <2>3, <2>4
  <2>5. CASE r # 0
    <3>1. r \in 1..n /\ r - 1 \in 0..n
      BY <1>1, <2>5
    <3>2. r - 1 \notin R
      BY <1>1, <2>2, <3>1
    <3>3. S \cap sure[r - 1] = {}
      BY <3>1, <3>2
    <3>4. k \in LeadsTo(pr, sure[r - 1])
      BY <1>2, <2>3, <3>1, <3>3
    <3>. QED  BY <3>1, <3>3, <3>4
  <2>. QED  BY <2>4, <2>5
<1>5. \A k \in sure[n] : k \in Matching0(pr) \/ \E m \in 0..n : k \in LeadsTo(pr, sure[m])
  <2>. SUFFICES ASSUME NEW k \in sure[n]
                PROVE  k \in Matching0(pr) \/ \E m \in 0..n : k \in LeadsTo(pr, sure[m])
    OBVIOUS
  <2>1. {k} \in SUBSET sure[n] /\ {k} # {}
    OBVIOUS
  <2>2. \E one \in {k} : \/ one \in Matching0(pr)
                        \/ \E m \in 0..n : /\ one \in LeadsTo(pr, sure[m])
                                           /\ {k} \cap sure[m] = {}
    BY ONLY <2>1, <1>4
  <2>. QED  BY <2>2
<1>6. \A k, known : k \in LeadsTo(pr, known) =>
        /\ k \in InstIds(pr) /\ Inst(pr, k).op \in {"Capture", "Nop"} /\ Inst(pr, k).out \in known
        /\ IsHead(pr, Inst(pr, k).out) /\ Inst(pr, Inst(pr, k).out).last
  BY DEF LeadsTo
<1>7. \A k : k \in Matching0(pr) => k \in InstIds(pr) /\ Inst(pr, k).op = "Match"
  BY DEF Matching0
<1>8. sure[n] \subseteq InstIds(pr)
  BY <1>5, <1>6, <1>7
<1>9. \A k \in sure[n] :
        \/ Inst(pr, k).op = "Match"
        \/ /\ Inst(pr, k).op \in {"Capture", "Nop"}
           /\ Inst(pr, k).out \in sure[n]
           /\ IsHead(pr, Inst(pr, k).out) /\ Inst(pr, Inst(pr, k).out).last
  BY <1>3, <1>5, <1>6, <1>7
<1>10. ASSUME NEW S \in SUBSET sure[n], S # {}, \A k \in S : Inst(pr, k).op # "Match"
       PROVE  \E k \in S : Inst(pr, k).out \notin S
  BY <1>4, <1>6, <1>7, <1>10
<1>. QED  BY <1>1, <1>8, <1>9, <1>10

(***************************************************************************)
(* The lists of a program.                                                 *)
(***************************************************************************)
\* The head of the list of k.
HeadOf(pr, k) ==
  CHOOSE h \in 0..k : IsHead(pr, h) /\ \A m \in h..(k - 1) : ~Inst(pr, m).last

InListOf(pr, h, k) == h \in 0..k /\ IsHead(pr, h) /\ \A m \in h..(k - 1) : ~Inst(pr, m).last

\* Every instruction is in just one list.
LEMMA HeadOfIs ==
  ASSUME NEW pr, NEW k \in Nat
  PROVE  /\ InListOf(pr, HeadOf(pr, k), k)
         /\ \A h : InListOf(pr, h, k) => HeadOf(pr, k) = h
<1>1. \E h : InListOf(pr, h, k)
  <2> DEFINE Bad == {m \in Nat : ~ \E h : InListOf(pr, h, m)}
  <2>. SUFFICES ASSUME Bad # {} PROVE FALSE
    OBVIOUS
  <2>1. PICK n \in Bad : \A m \in Bad : n <= m
    <3>1. Bad \in SUBSET Nat
      OBVIOUS
    <3>. HIDE DEF Bad
    <3>. QED  BY <3>1, Least
  <2>2. ~InListOf(pr, n, n)
    OBVIOUS
  <2>3. ~IsHead(pr, n) /\ n # 0 /\ ~Inst(pr, n - 1).last
    BY <2>2 DEF InListOf, IsHead
  <2>4. n - 1 \in Nat /\ n - 1 \notin Bad
    BY <2>1, <2>3
  <2>5. PICK h : InListOf(pr, h, n - 1)
    BY <2>4
  <2>6. InListOf(pr, h, n)
    <3>1. h \in 0..n
      BY <2>4, <2>5 DEF InListOf
    <3>2. \A m \in h..(n - 1) : m \in h..((n - 1) - 1) \/ m = n - 1
      BY <3>1
    <3>. QED  BY <2>3, <2>5, <3>1, <3>2 DEF InListOf
  <2>. QED  BY <2>6
<1>2. ASSUME NEW h, NEW g, InListOf(pr, h, k), InListOf(pr, g, k), h < g
      PROVE  FALSE
  <2>1. g - 1 \in h..(k - 1) /\ g # 0
    BY <1>2 DEF InListOf
  <2>. QED  BY <1>2, <2>1 DEF InListOf, IsHead
<1>3. ASSUME NEW h, NEW g, InListOf(pr, h, k), InListOf(pr, g, k)
      PROVE  h = g
  <2>1. h \in Nat /\ g \in Nat
    BY <1>3 DEF InListOf
  <2>2. h < g \/ g < h \/ h = g
    BY <2>1
  <2>. QED  BY <1>2, <1>3, <2>2
<1>4. HeadOf(pr, k) = CHOOSE h \in 0..k : IsHead(pr, h) /\ \A m \in h..(k - 1) : ~Inst(pr, m).last
  BY DEF HeadOf
<1>5. InListOf(pr, HeadOf(pr, k), k)
  BY <1>1, <1>4 DEF InListOf
<1>. QED  BY <1>3, <1>5

LEMMA SameList ==
  ASSUME NEW pr, NEW k \in Nat
  PROVE  /\ IsHead(pr, HeadOf(pr, k)) /\ HeadOf(pr, k) \in 0..k
         /\ IsHead(pr, k) => HeadOf(pr, k) = k
         /\ ~Inst(pr, k).last => HeadOf(pr, k + 1) = HeadOf(pr, k)
         /\ \A d \in Nat : (\A m \in k..(k + d - 1) : ~Inst(pr, m).last) =>
              HeadOf(pr, k + d) = HeadOf(pr, k)
<1>1. InListOf(pr, HeadOf(pr, k), k)
  BY HeadOfIs
<1>2. IsHead(pr, k) => InListOf(pr, k, k)
  BY DEF InListOf
<1>3. ASSUME NEW d \in Nat, \A m \in k..(k + d - 1) : ~Inst(pr, m).last
      PROVE  HeadOf(pr, k + d) = HeadOf(pr, k)
  <2>1. HeadOf(pr, k) \in 0..(k + d)
    BY <1>1 DEF InListOf
  <2>2. \A m \in HeadOf(pr, k)..(k + d - 1) : m \in HeadOf(pr, k)..(k - 1) \/ m \in k..(k + d - 1)
    BY <2>1
  <2>3. InListOf(pr, HeadOf(pr, k), k + d)
    BY <1>1, <1>3, <2>1, <2>2 DEF InListOf
  <2>. QED  BY <2>3, HeadOfIs
<1>4. ~Inst(pr, k).last => HeadOf(pr, k + 1) = HeadOf(pr, k)
  <2>1. \A m \in k..(k + 1 - 1) : m = k
    OBVIOUS
  <2>. QED  BY <1>3, <2>1
<1>. QED  BY <1>1, <1>2, <1>3, <1>4, HeadOfIs DEF InListOf

(***************************************************************************)
(* The stack.  A job stands for instructions at positions; two of them are *)
(* of the same visit if their lists are the same.                          *)
(***************************************************************************)
Job == [id : Int, p : Int, rle : Nat]
Here == query.beg..query.end

Waits(jb) == IF jb.id < 0 THEN {} ELSE {<<jb.id, q>> : q \in jb.p..(jb.p + jb.rle)}
Waiting(s) == {x \in Int \X Int : \E j \in 1..Len(s) : x \in Waits(s[j])}
SameVisit(pr, x, y) == x[2] = y[2] /\ HeadOf(pr, x[1]) = HeadOf(pr, y[1])
Apart(pr, s) ==
  \A j, k \in 1..Len(s) : j # k =>
    \A x \in Waits(s[j]), y \in Waits(s[k]) : ~SameVisit(pr, x, y)

\* The jobs a stack may have, of a program with nc registers and a text here.
Undoes(pr, jb, c) == jb.id < 0 /\ Inst(pr, -jb.id).cap = c
Fits(pr, here, nc, jb) ==
  IF jb.id < 0
  THEN /\ -jb.id \in InstIds(pr) /\ Inst(pr, -jb.id).cap \in 0..(nc - 1)
       /\ jb.p \in {NULL} \cup here /\ jb.rle = 0
  ELSE /\ jb.id \in InstIds(pr)
       /\ jb.p \in here /\ jb.p + jb.rle \in here
IsStack(pr, here, nc, s) ==
  s \in Seq(Job) /\ \A j \in 1..Len(s) : Fits(pr, here, nc, s[j])

\* The first job that undoes a register has NULL for it.
UndoneIn(pr, nc, s, c) ==
  \A k \in (0..(nc - 1)) \ {0, 1} :
    /\ (\A j \in 1..Len(s) : ~Undoes(pr, s[j], k)) => c[k] = NULL
    /\ \A j \in 1..Len(s) :
         Undoes(pr, s[j], k) /\ (\A m \in 1..(j - 1) : ~Undoes(pr, s[m], k)) => s[j].p = NULL

\* A stack whose jobs have become fewer or smaller.
LEMMA Shrunk ==
  ASSUME NEW pr, NEW s \in Seq(Job), NEW r \in Seq(Job), Len(r) <= Len(s),
         \A j \in 1..Len(r) : Waits(r[j]) \subseteq Waits(s[j]),
         Apart(pr, s)
  PROVE  Apart(pr, r) /\ Waiting(r) \subseteq Waiting(s)
<1>1. Len(r) \in Nat /\ Len(s) \in Nat
  BY LenProperties
<1>2. \A j \in 1..Len(r) : j \in 1..Len(s)
  BY <1>1
<1>3. Apart(pr, r)
  BY <1>2 DEF Apart
<1>4. Waiting(r) \subseteq Waiting(s)
  BY <1>2 DEF Waiting
<1>. QED  BY <1>3, <1>4

\* At the top a job is new, or it has become larger by x.
LEMMA Enlarged ==
  ASSUME NEW pr, NEW s \in Seq(Job), NEW r \in Seq(Job), NEW x,
         Len(r) # 0, Len(r) - 1 <= Len(s), Len(s) <= Len(r),
         \A j \in 1..(Len(r) - 1) : r[j] = s[j],
         \A y \in Waits(r[Len(r)]) : y = x \/ (Len(r) = Len(s) /\ y \in Waits(s[Len(s)])),
         Apart(pr, s), \A y \in Waiting(s) : ~SameVisit(pr, x, y)
  PROVE  Apart(pr, r) /\ Waiting(r) \subseteq Waiting(s) \cup {x}
<1>1. Len(r) \in Nat /\ Len(s) \in Nat
  BY LenProperties
<1>2. \A j \in 1..Len(s) : \A y \in Waits(s[j]) : y \in Waiting(s)
  <2>. SUFFICES ASSUME NEW j \in 1..Len(s), NEW y \in Waits(s[j])
                PROVE  y \in Waiting(s)
    OBVIOUS
  <2>1. s[j] \in Job
    BY ElementOfSeq
  <2>2. s[j].id \in Int /\ s[j].p \in Int /\ s[j].rle \in Int
    <3>1. s[j].id \in Int /\ s[j].p \in Int /\ s[j].rle \in Nat
      BY <2>1 DEF Job
    <3>. QED  BY <3>1
  <2>3. y \in Int \X Int
    BY <2>2 DEF Waits
  <2>. QED  BY <2>3 DEF Waiting
<1>3. \A j \in 1..Len(r) : \A y \in Waits(r[j]) :
        \/ j = Len(r) /\ y = x
        \/ j \in 1..Len(s) /\ y \in Waits(s[j])
  <2>. SUFFICES ASSUME NEW j \in 1..Len(r), NEW y \in Waits(r[j])
                PROVE  \/ j = Len(r) /\ y = x
                       \/ j \in 1..Len(s) /\ y \in Waits(s[j])
    OBVIOUS
  <2>1. CASE j = Len(r)
    BY <1>1, <2>1
  <2>2. CASE j # Len(r)
    <3>1. j \in 1..(Len(r) - 1) /\ j \in 1..Len(s)
      BY <1>1, <2>2
    <3>. QED  BY <3>1
  <2>. QED  BY <2>1, <2>2
<1>4. \A y, z : SameVisit(pr, y, z) <=> SameVisit(pr, z, y)
  BY DEF SameVisit
<1>5. Apart(pr, r)
  <2>. SUFFICES ASSUME NEW j \in 1..Len(r), NEW k \in 1..Len(r), j # k,
                       NEW y \in Waits(r[j]), NEW z \in Waits(r[k])
                PROVE  ~SameVisit(pr, y, z)
    BY DEF Apart
  <2>1. CASE j = Len(r) /\ y = x
    <3>1. z \in Waiting(s)
      BY <1>2, <1>3, <2>1
    <3>. QED  BY <2>1, <3>1
  <2>2. CASE k = Len(r) /\ z = x
    <3>1. y \in Waiting(s)
      BY <1>2, <1>3, <2>2
    <3>. QED  BY <1>4, <2>2, <3>1
  <2>3. CASE ~(j = Len(r) /\ y = x) /\ ~(k = Len(r) /\ z = x)
    <3>1. j \in 1..Len(s) /\ y \in Waits(s[j]) /\ k \in 1..Len(s) /\ z \in Waits(s[k])
      BY <1>3, <2>3
    <3>. QED  BY <3>1 DEF Apart
  <2>. QED  BY <2>1, <2>2, <2>3
<1>6. Waiting(r) \subseteq Waiting(s) \cup {x}
  BY <1>2, <1>3 DEF Waiting
<1>. QED  BY <1>5, <1>6

\* What undoes a register is all there is to UndoneIn.
LEMMA UndosKept ==
  ASSUME NEW pr, NEW nc, NEW s \in Seq(Job), NEW r \in Seq(Job), NEW c, NEW d,
         \A k, j \in Nat : j \in 1..Len(r) /\ Undoes(pr, r[j], k) => j \in 1..Len(s) /\ r[j] = s[j],
         \A k, j \in Nat : j \in 1..Len(s) /\ Undoes(pr, s[j], k) => j \in 1..Len(r) /\ r[j] = s[j],
         \A k \in (0..(nc - 1)) \ {0, 1} : d[k] = c[k],
         UndoneIn(pr, nc, s, c)
  PROVE  UndoneIn(pr, nc, r, d)
<1>. SUFFICES ASSUME NEW k \in (0..(nc - 1)) \ {0, 1}
              PROVE  /\ (\A j \in 1..Len(r) : ~Undoes(pr, r[j], k)) => d[k] = NULL
                     /\ \A j \in 1..Len(r) :
                          Undoes(pr, r[j], k) /\ (\A m \in 1..(j - 1) : ~Undoes(pr, r[m], k))
                            => r[j].p = NULL
  BY DEF UndoneIn
<1>1. Len(r) \in Nat /\ Len(s) \in Nat /\ k \in Nat
  BY LenProperties
<1>2. (\A j \in 1..Len(r) : ~Undoes(pr, r[j], k)) => d[k] = NULL
  BY <1>1 DEF UndoneIn
<1>3. ASSUME NEW j \in 1..Len(r), Undoes(pr, r[j], k),
             \A m \in 1..(j - 1) : ~Undoes(pr, r[m], k)
      PROVE  r[j].p = NULL
  <2>1. j \in Nat /\ j \in 1..Len(s) /\ r[j] = s[j]
    BY <1>1, <1>3
  <2>2. ASSUME NEW m \in 1..(j - 1), Undoes(pr, s[m], k)
        PROVE  FALSE
    <3>1. m \in Nat /\ m \in 1..Len(s)
      BY <2>1
    <3>2. r[m] = s[m]
      BY <1>1, <2>2, <3>1
    <3>. QED  BY <1>3, <2>2, <3>2
  <2>3. Undoes(pr, s[j], k) /\ \A m \in 1..(j - 1) : ~Undoes(pr, s[m], k)
    BY <1>3, <2>1, <2>2
  <2>4. s[j].p = NULL
    BY <2>1, <2>3 DEF UndoneIn
  <2>. QED  BY <2>1, <2>4
<1>. QED  BY <1>2, <1>3

\* All jobs but the top one.
LEMMA BelowTop ==
  ASSUME NEW s \in Seq(Job), s # <<>>
  PROVE  /\ Below(s) \in Seq(Job) /\ Len(Below(s)) = Len(s) - 1 /\ Len(s) \in Nat \ {0}
         /\ \A j \in 1..(Len(s) - 1) : Below(s)[j] = s[j]
         /\ Top(s) \in Job /\ Top(s) = s[Len(s)]
         /\ \A jb \in Job : /\ Append(Below(s), jb) \in Seq(Job)
                            /\ Len(Append(Below(s), jb)) = Len(s)
                            /\ \A j \in 1..(Len(s) - 1) : Append(Below(s), jb)[j] = s[j]
                            /\ Append(Below(s), jb)[Len(s)] = jb
<1>1. Len(s) \in Nat \ {0}
  BY EmptySeq, LenProperties
<1>2. Below(s) \in Seq(Job) /\ Len(Below(s)) = Len(s) - 1
      /\ \A j \in 1..(Len(s) - 1) : Below(s)[j] = s[j]
  <2>1. \A j \in 1..(Len(s) - 1) : s[j] \in Job
    BY <1>1, ElementOfSeq
  <2>2. /\ Below(s) \in Seq(Job)
        /\ Len(Below(s)) = IF 1 <= Len(s) - 1 THEN Len(s) - 1 - 1 + 1 ELSE 0
        /\ \A j \in 1..(Len(s) - 1 - 1 + 1) : Below(s)[j] = s[1 + j - 1]
    BY <1>1, <2>1, SubSeqProperties DEF Below
  <2>3. \A n \in Nat \ {0} : n - 1 - 1 + 1 = n - 1 /\ (1 <= n - 1 \/ n - 1 = 0)
    OBVIOUS
  <2>4. \A j \in Int : 1 + j - 1 = j
    OBVIOUS
  <2> DEFINE n == Len(s)
  <2>5. n - 1 - 1 + 1 = n - 1 /\ (1 <= n - 1 \/ n - 1 = 0)
    BY <1>1, <2>3
  <2>6. Len(Below(s)) = n - 1
    BY <2>2, <2>5
  <2>7. \A j \in 1..(n - 1) : Below(s)[j] = s[j]
    <3>. HIDE DEF n
    <3>1. \A j \in 1..(n - 1) : Below(s)[j] = s[1 + j - 1]
      BY <2>2, <2>5 DEF n
    <3>. QED  BY <2>4, <3>1
  <2>. QED  BY <2>2, <2>6, <2>7
<1>3. Top(s) \in Job /\ Top(s) = s[Len(s)]
  BY <1>1, ElementOfSeq DEF Top
<1>4. ASSUME NEW jb \in Job
      PROVE  /\ Append(Below(s), jb) \in Seq(Job)
             /\ Len(Append(Below(s), jb)) = Len(s)
             /\ \A j \in 1..(Len(s) - 1) : Append(Below(s), jb)[j] = s[j]
             /\ Append(Below(s), jb)[Len(s)] = jb
  BY <1>1, <1>2, AppendProperties
<1>. QED  BY <1>1, <1>2, <1>3, <1>4

\* Pushing an instruction makes it wait, and no other.
LEMMA PushWaits ==
  ASSUME NEW pr, NEW lo \in Nat, NEW hi \in Nat, NEW nc, NEW s, NEW c,
         NEW i0 \in InstIds(pr), NEW q \in lo..hi,
         IsStack(pr, lo..hi, nc, s), Apart(pr, s), UndoneIn(pr, nc, s, c),
         \A y \in Waiting(s) : ~SameVisit(pr, <<i0, q>>, y)
  PROVE  LET r == Push(s, i0, q) IN
         /\ IsStack(pr, lo..hi, nc, r) /\ Apart(pr, r) /\ UndoneIn(pr, nc, r, c)
         /\ Waiting(r) \subseteq Waiting(s) \cup {<<i0, q>>}
<1> DEFINE joins == s # <<>> /\ i0 = Top(s).id /\ q = Top(s).p + Top(s).rle + 1
           one == [id |-> i0, p |-> q, rle |-> 0]
           more == [Top(s) EXCEPT !.rle = @ + 1]
           r == Push(s, i0, q)
<1>1. s \in Seq(Job) /\ i0 \in Int /\ i0 >= 0 /\ q \in Int /\ Len(s) \in Nat
  BY LenProperties DEF IsStack, InstIds
<1>2. CASE joins
  <2>1. r = Append(Below(s), more)
    BY <1>1, <1>2 DEF Push
  <2>2. Top(s) \in Job /\ Top(s) = s[Len(s)] /\ Len(s) # 0
    BY <1>1, <1>2, BelowTop
  <2>3. more \in Job /\ more.id = Top(s).id /\ more.p = Top(s).p /\ more.rle = Top(s).rle + 1
    BY <2>2 DEF Job
  <2>4. /\ r \in Seq(Job) /\ Len(r) = Len(s) /\ r[Len(s)] = more
        /\ \A j \in 1..(Len(s) - 1) : r[j] = s[j]
    <3>. HIDE DEF more, r
    <3>1. \A jb \in Job : /\ Append(Below(s), jb) \in Seq(Job)
                          /\ Len(Append(Below(s), jb)) = Len(s)
                          /\ \A j \in 1..(Len(s) - 1) : Append(Below(s), jb)[j] = s[j]
                          /\ Append(Below(s), jb)[Len(s)] = jb
      BY <1>1, <1>2, BelowTop
    <3>. QED  BY <2>1, <2>3, <3>1
  <2>. HIDE DEF more, r
  <2>5. \A y \in Waits(more) : y = <<i0, q>> \/ y \in Waits(Top(s))
    BY SMTT(30), <1>1, <1>2, <2>2, <2>3 DEF Waits, Job
  <2>6. Apart(pr, r) /\ Waiting(r) \subseteq Waiting(s) \cup {<<i0, q>>}
    <3>1. Len(r) # 0 /\ Len(r) - 1 <= Len(s) /\ Len(s) <= Len(r)
      BY <1>1, <2>2, <2>4
    <3>2. \A j \in 1..(Len(r) - 1) : r[j] = s[j]
      BY <2>4
    <3>3. \A y \in Waits(r[Len(r)]) : y = <<i0, q>> \/ (Len(r) = Len(s) /\ y \in Waits(s[Len(s)]))
      BY <2>2, <2>4, <2>5
    <3>. QED  BY <1>1, <2>4, <3>1, <3>2, <3>3, Enlarged
  <2>7. Fits(pr, lo..hi, nc, more)
    <3>1. Fits(pr, lo..hi, nc, Top(s))
      BY <1>1, <2>2 DEF IsStack
    <3>2. more.p + more.rle = q
      BY <1>2, <2>2, <2>3 DEF Job
    <3>. QED  BY <1>1, <1>2, <2>3, <3>1, <3>2 DEF Fits
  <2>8. IsStack(pr, lo..hi, nc, r)
    <3>1. \A j \in 1..Len(r) : j \in 1..(Len(s) - 1) \/ j = Len(s)
      BY <1>1, <2>4
    <3>2. \A j \in 1..(Len(s) - 1) : Fits(pr, lo..hi, nc, s[j])
      BY <1>1 DEF IsStack
    <3>. QED  BY <2>4, <2>7, <3>1, <3>2 DEF IsStack
  <2>9. UndoneIn(pr, nc, r, c)
    <3>1. \A k : ~Undoes(pr, more, k) /\ ~Undoes(pr, s[Len(s)], k)
      BY <1>1, <1>2, <2>2, <2>3 DEF Undoes
    <3>2. \A j \in Nat : j \in 1..Len(s) => j \in 1..(Len(s) - 1) \/ j = Len(s)
      BY <1>1
    <3>. QED  BY <1>1, <2>4, <3>1, <3>2, UndosKept
  <2>. QED  BY <2>6, <2>8, <2>9 DEF r
<1>3. CASE ~joins
  <2>1. r = Append(s, one)
    BY <1>1, <1>3 DEF Push
  <2>2. one \in Job
    BY <1>1 DEF Job
  <2>3. /\ r \in Seq(Job) /\ Len(r) = Len(s) + 1 /\ r[Len(r)] = one
        /\ \A j \in 1..Len(s) : r[j] = s[j]
    <3>. HIDE DEF one
    <3>. QED  BY <1>1, <2>1, <2>2, AppendProperties
  <2>. HIDE DEF r
  <2>4. \A y \in Waits(one) : y = <<i0, q>>
    BY <1>1 DEF Waits
  <2>5. Apart(pr, r) /\ Waiting(r) \subseteq Waiting(s) \cup {<<i0, q>>}
    <3>1. Len(r) # 0 /\ Len(r) - 1 = Len(s) /\ Len(s) <= Len(r) /\ Len(r) - 1 <= Len(s)
      BY <1>1, <2>3
    <3>. HIDE DEF one
    <3>. QED  BY <1>1, <2>3, <2>4, <3>1, Enlarged
  <2>6. Fits(pr, lo..hi, nc, one)
    BY <1>1 DEF Fits
  <2>7. \A j \in 1..Len(r) : j \in 1..Len(s) \/ j = Len(r)
    BY <1>1, <2>3
  <2>8. IsStack(pr, lo..hi, nc, r)
    <3>. HIDE DEF one
    <3>. QED  BY <2>3, <2>6, <2>7 DEF IsStack
  <2>9. UndoneIn(pr, nc, r, c)
    <3>1. \A k : ~Undoes(pr, one, k)
      BY <1>1 DEF Undoes
    <3>2. \A j \in 1..Len(s) : j \in 1..Len(r)
      BY <1>1, <2>3
    <3>. HIDE DEF one
    <3>. QED  BY <1>1, <2>3, <2>7, <3>1, <3>2, UndosKept
  <2>. QED  BY <2>5, <2>8, <2>9 DEF r
<1>. QED  BY <1>2, <1>3

\* Pushing the old value of a register that is about to be set.
LEMMA PushUndoes ==
  ASSUME NEW pr, NEW here, NEW nc, NEW s, NEW c, NEW d,
         NEW i0 \in InstIds(pr), i0 # 0, Inst(pr, i0).cap \in 0..(nc - 1), 0..(nc - 1) \subseteq Nat,
         NEW q \in {NULL} \cup here, here \subseteq Nat, q = c[Inst(pr, i0).cap],
         \A k \in (0..(nc - 1)) \ {Inst(pr, i0).cap} : d[k] = c[k],
         IsStack(pr, here, nc, s), Apart(pr, s), UndoneIn(pr, nc, s, c)
  PROVE  LET r == Push(s, -i0, q) IN
         /\ IsStack(pr, here, nc, r) /\ Apart(pr, r) /\ UndoneIn(pr, nc, r, d)
         /\ Waiting(r) \subseteq Waiting(s)
<1> DEFINE one == [id |-> -i0, p |-> q, rle |-> 0]
           r == Push(s, -i0, q)
<1>1. /\ s \in Seq(Job) /\ i0 \in Int /\ i0 > 0 /\ q \in Int /\ Len(s) \in Nat
      /\ -i0 < 0 /\ -i0 \in Int /\ -(-i0) = i0
  BY LenProperties DEF IsStack, InstIds, NULL
<1>2. r = Append(s, one) /\ one \in Job
  BY <1>1 DEF Push, Job
<1>3. /\ r \in Seq(Job) /\ Len(r) = Len(s) + 1 /\ r[Len(r)] = one
      /\ \A j \in 1..Len(s) : r[j] = s[j] /\ j \in 1..Len(r)
      /\ \A j \in 1..Len(r) : j \in 1..Len(s) \/ j = Len(r)
  <2>. HIDE DEF one
  <2>. QED  BY SMTT(30), <1>1, <1>2, AppendProperties
<1>. HIDE DEF r
<1>4. one.id = -i0 /\ one.p = q /\ -one.id = i0
  BY <1>1
<1>5. Waits(one) = {}
  BY <1>1 DEF Waits
<1>6. Fits(pr, here, nc, one)
  BY <1>1, <1>4 DEF Fits
<1>7. \A k : Undoes(pr, one, k) <=> Inst(pr, i0).cap = k
  BY <1>1, <1>4 DEF Undoes
<1>. HIDE DEF one
<1>8. IsStack(pr, here, nc, r)
  BY <1>3, <1>6 DEF IsStack
<1>9. Apart(pr, r) /\ Waiting(r) \subseteq Waiting(s)
  <2>1. Apart(pr, r)
    BY <1>3, <1>5 DEF Apart
  <2>2. Waiting(r) \subseteq Waiting(s)
    BY <1>3, <1>5 DEF Waiting
  <2>. QED  BY <2>1, <2>2
<1>10. UndoneIn(pr, nc, r, d)
  <2>. SUFFICES ASSUME NEW k \in (0..(nc - 1)) \ {0, 1}
                PROVE  /\ (\A j \in 1..Len(r) : ~Undoes(pr, r[j], k)) => d[k] = NULL
                       /\ \A j \in 1..Len(r) :
                            Undoes(pr, r[j], k) /\ (\A m \in 1..(j - 1) : ~Undoes(pr, r[m], k))
                              => r[j].p = NULL
    BY DEF UndoneIn
  <2>1. /\ (\A j \in 1..Len(s) : ~Undoes(pr, s[j], k)) => c[k] = NULL
        /\ \A j \in 1..Len(s) :
             Undoes(pr, s[j], k) /\ (\A m \in 1..(j - 1) : ~Undoes(pr, s[m], k)) => s[j].p = NULL
    BY DEF UndoneIn
  <2>2. Len(r) \in 1..Len(r) /\ \A m \in 1..(Len(r) - 1) : m \in 1..Len(s)
    BY <1>1, <1>3
  <2>3. (\A j \in 1..Len(r) : ~Undoes(pr, r[j], k)) => d[k] = NULL
    BY <1>3, <1>7, <2>1, <2>2
  <2>4. ASSUME NEW j \in 1..Len(r), Undoes(pr, r[j], k),
               \A m \in 1..(j - 1) : ~Undoes(pr, r[m], k)
        PROVE  r[j].p = NULL
    <3>1. CASE j \in 1..Len(s)
      <4>1. \A m \in 1..(j - 1) : m \in 1..Len(s)
        BY <1>1, <3>1
      <4>. QED  BY <1>3, <2>1, <2>4, <3>1, <4>1
    <3>2. CASE j = Len(r)
      <4>1. \A m \in 1..Len(s) : m \in 1..(j - 1)
        BY <1>1, <1>3, <3>2
      <4>2. \A m \in 1..Len(s) : ~Undoes(pr, s[m], k)
        BY <1>3, <2>4, <4>1
      <4>. QED  BY <1>3, <1>4, <1>7, <2>1, <2>4, <3>2, <4>2
    <3>. QED  BY <1>3, <3>1, <3>2
  <2>. QED  BY <2>3, <2>4
<1>. QED  BY <1>8, <1>9, <1>10 DEF r

\* Popping an instruction: it waits no more, and what does is of other visits.
LEMMA PopWaits ==
  ASSUME NEW pr, NEW lo \in Nat, NEW hi \in Nat, NEW nc, NEW s, NEW c,
         IsStack(pr, lo..hi, nc, s), Apart(pr, s), UndoneIn(pr, nc, s, c),
         s # <<>>, Top(s).id >= 0
  PROVE  LET top == Top(s)
             x == <<top.id, top.p + top.rle>>
             r == IF top.rle = 0 THEN Below(s)
                  ELSE Append(Below(s), [top EXCEPT !.rle = @ - 1])
         IN /\ IsStack(pr, lo..hi, nc, r) /\ Apart(pr, r) /\ UndoneIn(pr, nc, r, c)
            /\ Waiting(r) \subseteq Waiting(s)
            /\ x \in Waiting(s) /\ x[1] \in InstIds(pr) /\ x[2] \in lo..hi
            /\ \A y \in Waiting(r) : ~SameVisit(pr, x, y)
<1> DEFINE top == Top(s)
           x == <<top.id, top.p + top.rle>>
           less == [top EXCEPT !.rle = @ - 1]
           r == IF top.rle = 0 THEN Below(s) ELSE Append(Below(s), less)
           n == Len(s)
<1>1. /\ s \in Seq(Job) /\ n \in Nat \ {0} /\ top \in Job /\ top = s[n]
      /\ Below(s) \in Seq(Job) /\ Len(Below(s)) = n - 1
      /\ \A j \in 1..(n - 1) : Below(s)[j] = s[j]
      /\ \A jb \in Job : /\ Append(Below(s), jb) \in Seq(Job)
                         /\ Len(Append(Below(s), jb)) = n
                         /\ \A j \in 1..(n - 1) : Append(Below(s), jb)[j] = s[j]
                         /\ Append(Below(s), jb)[n] = jb
  BY BelowTop DEF IsStack
<1>2. top.id \in Int /\ top.p \in Int /\ top.rle \in Nat /\ top.id >= 0
  BY <1>1 DEF Job
<1>3. top.id \in InstIds(pr) /\ top.p \in lo..hi /\ top.p + top.rle \in lo..hi
  <2>1. n \in 1..n
    BY <1>1
  <2>2. Fits(pr, lo..hi, nc, top)
    BY <1>1, <2>1 DEF IsStack
  <2>. QED  BY <1>2, <2>2 DEF Fits
<1>4. x \in Waits(top) /\ x \in Waiting(s)
  <2>1. top.p + top.rle \in top.p..(top.p + top.rle)
    BY <1>2
  <2>2. x \in Waits(top)
    BY <1>2, <2>1 DEF Waits
  <2>3. x \in Int \X Int /\ n \in 1..n
    BY <1>1, <1>2
  <2>. QED  BY <1>1, <2>2, <2>3 DEF Waiting
<1>5. /\ r \in Seq(Job) /\ Len(r) <= n /\ n - 1 <= Len(r) /\ Len(r) \in Nat
      /\ \A j \in 1..(n - 1) : j \in 1..Len(r) /\ r[j] = s[j]
      /\ \A j \in 1..Len(r) : j \in 1..(n - 1) \/ (j = n /\ r[j] = less /\ top.rle # 0)
  <2>1. CASE top.rle = 0
    <3>1. r = Below(s)
      BY <2>1
    <3>. HIDE DEF n, r
    <3>. QED  BY <1>1, <3>1
  <2>2. CASE top.rle # 0
    <3>1. less \in Job
      <4>1. top.rle - 1 \in Nat
        BY <1>2, <2>2
      <4>. HIDE DEF top
      <4>. QED  BY <1>1, <4>1 DEF Job
    <3>2. r = Append(Below(s), less)
      BY <2>2
    <3>. HIDE DEF n, r, less
    <3>3. r \in Seq(Job) /\ Len(r) = n /\ r[n] = less /\ \A j \in 1..(n - 1) : r[j] = s[j]
      BY <1>1, <3>1, <3>2
    <3>. QED  BY <1>1, <2>2, <3>3
  <2>. QED  BY <2>1, <2>2
<1>6. top.rle # 0 =>
        /\ less.id = top.id /\ less.p = top.p /\ less.rle = top.rle - 1
        /\ Waits(less) \subseteq Waits(top) \ {x}
        /\ \A y \in Waits(less) : y[2] # x[2]
        /\ Fits(pr, lo..hi, nc, less)
  <2>. SUFFICES ASSUME top.rle # 0
                PROVE  /\ less.id = top.id /\ less.p = top.p /\ less.rle = top.rle - 1
                       /\ Waits(less) \subseteq Waits(top) \ {x}
                       /\ \A y \in Waits(less) : y[2] # x[2]
                       /\ Fits(pr, lo..hi, nc, less)
    OBVIOUS
  <2>1. less.id = top.id /\ less.p = top.p /\ less.rle = top.rle - 1
    BY <1>1 DEF Job
  <2>. HIDE DEF less, top
  <2>2. less.p + less.rle \in lo..hi
    BY <1>2, <1>3, <2>1
  <2>3. ASSUME NEW y \in Waits(less)
        PROVE  y \in Waits(top) \ {x} /\ y[2] # x[2]
    <3>1. PICK q \in less.p..(less.p + less.rle) : y = <<less.id, q>>
      BY <1>2, <2>1 DEF Waits
    <3>2. q \in top.p..(top.p + top.rle) /\ q # top.p + top.rle
      BY <1>2, <2>1
    <3>. QED  BY <1>2, <2>1, <3>1, <3>2 DEF Waits
  <2>. QED  BY <1>2, <1>3, <2>1, <2>2, <2>3 DEF Fits
<1>. HIDE DEF top, less, r
<1>7. \A j \in 1..Len(r) : j \in 1..n /\ Waits(r[j]) \subseteq Waits(s[j])
  BY <1>1, <1>5, <1>6
<1>8. Apart(pr, r) /\ Waiting(r) \subseteq Waiting(s)
  BY <1>1, <1>5, <1>7, Shrunk
<1>9. IsStack(pr, lo..hi, nc, r)
  <2>1. \A j \in 1..(n - 1) : j \in 1..n
    BY <1>1
  <2>. QED  BY <1>1, <1>5, <1>6, <2>1 DEF IsStack
<1>10. UndoneIn(pr, nc, r, c)
  <2>1. \A k : ~Undoes(pr, s[n], k) /\ (top.rle # 0 => ~Undoes(pr, less, k))
    BY <1>1, <1>2, <1>6 DEF Undoes
  <2>2. \A j \in 1..n : j \in 1..(n - 1) \/ j = n
    BY <1>1
  <2>3. \A j \in 1..(n - 1) : j \in 1..n
    BY <1>1
  <2>. QED  BY <1>1, <1>5, <2>1, <2>2, <2>3, UndosKept
<1>11. ASSUME NEW y \in Waiting(r)
       PROVE  ~SameVisit(pr, x, y)
  <2>1. PICK j \in 1..Len(r) : y \in Waits(r[j])
    BY DEF Waiting
  <2>2. CASE j \in 1..(n - 1)
    <3>1. j \in 1..n /\ n \in 1..n /\ n # j /\ r[j] = s[j]
      BY <1>1, <1>5, <2>2
    <3>. QED  BY <1>1, <1>4, <2>1, <3>1 DEF Apart
  <2>3. CASE j = n /\ r[j] = less /\ top.rle # 0
    BY <1>6, <2>1, <2>3 DEF SameVisit
  <2>. QED  BY <1>5, <2>2, <2>3
<1>. QED  BY <1>3, <1>4, <1>8, <1>9, <1>10, <1>11 DEF r, top, less

\* Popping the old value of a register.
LEMMA PopUndoes ==
  ASSUME NEW pr, NEW here, NEW nc, NEW s, NEW c, NEW d,
         IsStack(pr, here, nc, s), Apart(pr, s), UndoneIn(pr, nc, s, c),
         s # <<>>, Top(s).id < 0,
         \A k \in 0..(nc - 1) :
           d[k] = IF k = Inst(pr, -Top(s).id).cap THEN Top(s).p ELSE c[k]
  PROVE  /\ IsStack(pr, here, nc, Below(s)) /\ Apart(pr, Below(s)) /\ UndoneIn(pr, nc, Below(s), d)
         /\ Waiting(Below(s)) \subseteq Waiting(s)
         /\ -Top(s).id \in InstIds(pr) /\ Inst(pr, -Top(s).id).cap \in 0..(nc - 1)
         /\ Top(s).p \in {NULL} \cup here
<1> DEFINE r == Below(s)
           n == Len(s)
           top == Top(s)
<1>1. /\ s \in Seq(Job) /\ n \in Nat \ {0} /\ top = s[n]
      /\ r \in Seq(Job) /\ Len(r) = n - 1
      /\ \A j \in 1..(n - 1) : r[j] = s[j]
  BY BelowTop DEF IsStack
<1>. HIDE DEF r, n, top
<1>2. n \in 1..n /\ \A j \in 1..(n - 1) : j \in 1..n /\ j # n
  BY <1>1
<1>3. Fits(pr, here, nc, top)
  BY <1>1, <1>2 DEF IsStack, n
<1>4. -top.id \in InstIds(pr) /\ Inst(pr, -top.id).cap \in 0..(nc - 1) /\ top.p \in {NULL} \cup here
  BY <1>3 DEF Fits, top
<1>5. IsStack(pr, here, nc, r)
  BY <1>1, <1>2 DEF IsStack, n
<1>6. Apart(pr, r) /\ Waiting(r) \subseteq Waiting(s)
  <2>1. Len(r) <= Len(s)
    BY <1>1 DEF n
  <2>2. \A j \in 1..Len(r) : Waits(r[j]) \subseteq Waits(s[j])
    BY <1>1
  <2>. QED  BY <1>1, <2>1, <2>2, Shrunk
<1>7. UndoneIn(pr, nc, r, d)
  <2>. SUFFICES ASSUME NEW k \in (0..(nc - 1)) \ {0, 1}
                PROVE  /\ (\A j \in 1..Len(r) : ~Undoes(pr, r[j], k)) => d[k] = NULL
                       /\ \A j \in 1..Len(r) :
                            Undoes(pr, r[j], k) /\ (\A m \in 1..(j - 1) : ~Undoes(pr, r[m], k))
                              => r[j].p = NULL
    BY DEF UndoneIn
  <2>1. /\ (\A j \in 1..n : ~Undoes(pr, s[j], k)) => c[k] = NULL
        /\ \A j \in 1..n :
             Undoes(pr, s[j], k) /\ (\A m \in 1..(j - 1) : ~Undoes(pr, s[m], k)) => s[j].p = NULL
    BY DEF UndoneIn, n
  <2>2. Undoes(pr, top, k) <=> Inst(pr, -top.id).cap = k
    BY DEF Undoes, top
  <2>3. \A j \in 1..n : j \in 1..(n - 1) \/ j = n
    BY <1>1
  <2>4. ASSUME \A j \in 1..Len(r) : ~Undoes(pr, r[j], k)
        PROVE  d[k] = NULL
    <3>1. \A j \in 1..(n - 1) : ~Undoes(pr, s[j], k)
      BY <1>1, <2>4
    <3>2. CASE Undoes(pr, top, k)
      <4>1. d[k] = top.p
        BY <2>2, <3>2 DEF top
      <4>. QED  BY <1>1, <1>2, <2>1, <3>1, <3>2, <4>1
    <3>3. CASE ~Undoes(pr, top, k)
      <4>1. d[k] = c[k]
        BY <2>2, <3>3 DEF top
      <4>. QED  BY <1>1, <2>1, <2>3, <3>1, <3>3, <4>1
    <3>. QED  BY <3>2, <3>3
  <2>5. ASSUME NEW j \in 1..Len(r), Undoes(pr, r[j], k),
               \A m \in 1..(j - 1) : ~Undoes(pr, r[m], k)
        PROVE  r[j].p = NULL
    <3>1. j \in 1..n /\ r[j] = s[j]
      BY <1>1, <1>2
    <3>2. \A m \in 1..(j - 1) : m \in 1..(n - 1) /\ r[m] = s[m]
      BY <1>1
    <3>. QED  BY <2>1, <2>5, <3>1, <3>2
  <2>. QED  BY <2>4, <2>5
<1>. QED  BY <1>4, <1>5, <1>6, <1>7 DEF r, top

(***************************************************************************)
(* The invariant of a search, of the values of its variables: it is at, it *)
(* tries i0 at q, it has visited vis, and s is its stack.                  *)
(***************************************************************************)
Asked ==
  /\ WellFormedProg(prog)
  /\ query.beg \in Nat /\ query.end \in Nat /\ query.beg <= query.end
  /\ ncap \in Nat /\ ncap >= 2

\* An AltMatch from which the search goes on at the end of the text, without
\* asking the bitmap whether it has been there.
SkipsText(k) ==
  Inst(prog, k).op = "AltMatch" /\ (Greedy(prog, Inst(prog, k)) \/ Longest(query))

\* An instruction at a position belongs to the visit of its list there.
ListOf(k) == HeadOf(prog, k)
Seen(vis, x) == <<ListOf(x[1]), x[2]>> \in vis \/ SkipsText(ListOf(x[1]))

\* What has been visited at the end of the text of the ways that are sure to match.
SureIn(vis) ==
  {k \in Sure(prog) : IsHead(prog, k) /\ Inst(prog, k).last /\ <<k, query.end>> \in vis}
FirstIn(at, s, k) == at = "pop" /\ Len(s) = 1 /\ s[1].id = k /\ s[1].rle = 0 /\ IsHead(prog, k)
NoSkips(s) == \A x \in Waiting(s) : ~SkipsText(ListOf(x[1]))

Types(at, i0, q, q0, vis, c, s) ==
  /\ at \in {"start", "pop", "loop", "done"}
  /\ q0 \in Here /\ q \in {NULL} \cup Here
  /\ vis \subseteq {k \in InstIds(prog) : IsHead(prog, k)} \X Here
  /\ c \in [0..(ncap - 1) -> {NULL} \cup Here]
  /\ IsStack(prog, Here, ncap, s)
  /\ at = "start" => s = <<>>
  /\ at = "loop" => i0 \in InstIds(prog) /\ q \in Here

\* Each visit of a list is at one place: at one instruction that waits, or at the
\* one that is being tried.
Once(at, i0, q, vis, s) ==
  /\ Apart(prog, s)
  /\ \A x \in Waiting(s) : Seen(vis, x)
  /\ at = "loop" => Seen(vis, <<i0, q>>) /\ \A x \in Waiting(s) : ~SameVisit(prog, <<i0, q>>, x)

\* A way that is sure to match is followed to its Match at once, and with it the
\* search ends: nothing on it is visited a second time.
SureFirst(at, i0, q, vis, s) ==
  SureIn(vis) # {} =>
    \/ at = "done"
    \/ \E k \in SureIn(vis) : SureIn(vis) = {k} /\ FirstIn(at, s, k) /\ s[1].p = query.end
    \/ /\ at = "loop" /\ q = query.end /\ i0 \in SureIn(vis)
       /\ \A k \in SureIn(vis) \ {i0} :
            Inst(prog, k).op # "Match" /\ Inst(prog, k).out \in SureIn(vis)

\* An AltMatch that skips the text leaves nothing behind before that way begins.
SkipsFirst(at, i0, q, vis, s) ==
  /\ at = "loop" /\ SkipsText(ListOf(i0)) =>
       \/ IsHead(prog, i0)
       \/ q = query.end /\ i0 = Shortcut(prog, Inst(prog, ListOf(i0)))
  /\ NoSkips(s) \/ SureIn(vis) # {} \/ \E k \in InstIds(prog) : FirstIn(at, s, k)

Searches(at, i0, q, vis, s) ==
  Once(at, i0, q, vis, s) /\ SureFirst(at, i0, q, vis, s) /\ SkipsFirst(at, i0, q, vis, s)

\* What waits while an instruction is tried, and what may lie behind it.
LEMMA Trying ==
  ASSUME Asked, NEW i0 \in InstIds(prog), NEW q, NEW vis, NEW s,
         Searches("loop", i0, q, vis, s)
  PROVE  \/ /\ SureIn(vis) = {} /\ NoSkips(s) /\ ~SkipsText(ListOf(i0))
         \/ /\ SureIn(vis) = {} /\ NoSkips(s) /\ Inst(prog, i0).op = "AltMatch"
         \/ /\ SureIn(vis) = {} /\ NoSkips(s) /\ SkipsText(ListOf(i0)) /\ q = query.end
            /\ i0 \in Sure(prog)
         \/ /\ SureIn(vis) # {} /\ q = query.end
            /\ i0 \in Sure(prog) /\ IsHead(prog, i0) /\ Inst(prog, i0).last
            /\ i0 \in SureIn(vis)
            /\ \A k \in SureIn(vis) \ {i0} :
                 Inst(prog, k).op # "Match" /\ Inst(prog, k).out \in SureIn(vis)
<1>1. CASE SureIn(vis) # {}
  BY <1>1 DEF Searches, SureFirst, FirstIn, SureIn
<1>2. CASE SureIn(vis) = {}
  <2>1. NoSkips(s)
    BY <1>2 DEF Searches, SkipsFirst, FirstIn
  <2>2. CASE ~SkipsText(ListOf(i0))
    BY <1>2, <2>1, <2>2
  <2>3. CASE SkipsText(ListOf(i0)) /\ IsHead(prog, i0)
    <3>1. i0 \in Nat
      BY DEF InstIds
    <3>2. ListOf(i0) = i0
      BY <2>3, <3>1, SameList DEF ListOf
    <3>. QED  BY <1>2, <2>1, <2>3, <3>2 DEF SkipsText
  <2>4. CASE SkipsText(ListOf(i0)) /\ ~IsHead(prog, i0)
    <3>1. q = query.end /\ i0 = Shortcut(prog, Inst(prog, ListOf(i0)))
      BY <2>4 DEF Searches, SkipsFirst
    <3>2. i0 \in Nat /\ ListOf(i0) \in 0..i0
      BY SameList DEF InstIds, ListOf
    <3>3. ListOf(i0) \in InstIds(prog)
      BY <3>2 DEF InstIds, Asked, WellFormedProg
    <3>4. i0 \in Sure(prog)
      BY <2>4, <3>1, <3>3 DEF Asked, WellFormedProg, WellFormedInst, SkipsText
    <3>. QED  BY <1>2, <2>1, <2>4, <3>1, <3>4
  <2>. QED  BY <2>2, <2>3, <2>4
<1>. QED  BY <1>1, <1>2

\* A list is entered that has not been visited here; or it has been, and is not.
LEMMA Entering ==
  ASSUME Asked, NEW i0 \in InstIds(prog), IsHead(prog, i0), NEW q, NEW vis, NEW s,
         Apart(prog, s), \A x \in Waiting(s) : Seen(vis, x),
         \A x \in Waiting(s) : SkipsText(ListOf(x[1])) => ListOf(x[1]) # i0,
         \/ SureIn(vis) = {} /\ NoSkips(s)
         \/ /\ q = query.end /\ i0 \in Sure(prog) /\ Inst(prog, i0).last
            /\ <<i0, q>> \notin vis
            /\ \A k \in SureIn(vis) :
                 Inst(prog, k).op # "Match" /\ Inst(prog, k).out \in SureIn(vis) \cup {i0}
  PROVE  /\ <<i0, q>> \notin vis => Searches("loop", i0, q, vis \cup {<<i0, q>>}, s)
         /\ <<i0, q>> \in vis => \A k, m : Searches("pop", k, m, vis, s)
<1> DEFINE after == vis \cup {<<i0, q>>}
<1>1. ListOf(i0) = i0
  BY SameList DEF ListOf, InstIds
<1>2. ASSUME <<i0, q>> \notin vis
      PROVE  Searches("loop", i0, q, after, s)
  <2>1. Once("loop", i0, q, after, s)
    <3>1. \A x \in Waiting(s) : Seen(after, x)
      BY DEF Seen
    <3>2. Seen(after, <<i0, q>>)
      BY <1>1 DEF Seen
    <3>3. \A x \in Waiting(s) : ~SameVisit(prog, <<i0, q>>, x)
      BY <1>1, <1>2 DEF SameVisit, Seen, ListOf
    <3>. QED  BY <3>1, <3>2, <3>3 DEF Once
  <2>2. CASE SureIn(vis) = {} /\ NoSkips(s)
    <3>1. SureIn(after) \subseteq {i0}
      BY <2>2 DEF SureIn
    <3>2. SureIn(after) # {} => q = query.end
      BY <2>2 DEF SureIn
    <3>3. SureFirst("loop", i0, q, after, s)
      BY <3>1, <3>2 DEF SureFirst
    <3>4. SkipsFirst("loop", i0, q, after, s)
      BY <2>2 DEF SkipsFirst
    <3>. QED  BY <2>1, <3>3, <3>4 DEF Searches
  <2>3. CASE /\ q = query.end /\ i0 \in Sure(prog) /\ Inst(prog, i0).last
             /\ \A k \in SureIn(vis) :
                  Inst(prog, k).op # "Match" /\ Inst(prog, k).out \in SureIn(vis) \cup {i0}
    <3>1. SureIn(after) = SureIn(vis) \cup {i0}
      BY <2>3 DEF SureIn
    <3>2. SureFirst("loop", i0, q, after, s)
      BY <2>3, <3>1 DEF SureFirst
    <3>3. SkipsFirst("loop", i0, q, after, s)
      BY <3>1 DEF SkipsFirst
    <3>. QED  BY <2>1, <3>2, <3>3 DEF Searches
  <2>. QED  BY <2>2, <2>3
<1>3. ASSUME <<i0, q>> \in vis, NEW k, NEW m
      PROVE  Searches("pop", k, m, vis, s)
  BY <1>3 DEF Searches, Once, SureFirst, SkipsFirst
<1>. QED  BY <1>2, <1>3

\* The list that a step leads to which is sure to match has not been visited.
LEMMA SureIsNew ==
  ASSUME Asked, NEW i0 \in Sure(prog), Inst(prog, i0).op # "Match", NEW vis,
         SureIn(vis) # {} =>
           /\ i0 \in SureIn(vis)
           /\ \A k \in SureIn(vis) \ {i0} :
                Inst(prog, k).op # "Match" /\ Inst(prog, k).out \in SureIn(vis)
  PROVE  LET next == Inst(prog, i0).out IN
         /\ next \in Sure(prog) /\ next \in InstIds(prog)
         /\ IsHead(prog, next) /\ Inst(prog, next).last /\ Inst(prog, next).op # "AltMatch"
         /\ <<next, query.end>> \notin vis
         /\ \A k \in SureIn(vis) :
              Inst(prog, k).op # "Match" /\ Inst(prog, k).out \in SureIn(vis) \cup {next}
<1> DEFINE next == Inst(prog, i0).out
<1>1. /\ Sure(prog) \subseteq InstIds(prog)
      /\ \A k \in Sure(prog) :
           \/ Inst(prog, k).op = "Match"
           \/ /\ Inst(prog, k).op \in {"Capture", "Nop"}
              /\ Inst(prog, k).out \in Sure(prog)
              /\ IsHead(prog, Inst(prog, k).out) /\ Inst(prog, Inst(prog, k).out).last
      /\ \A S \in SUBSET Sure(prog) :
           S # {} /\ (\A k \in S : Inst(prog, k).op # "Match") =>
             \E k \in S : Inst(prog, k).out \notin S
  BY SureClosed DEF Asked
<1>2. next \in Sure(prog) /\ next \in InstIds(prog) /\ IsHead(prog, next) /\ Inst(prog, next).last
      /\ Inst(prog, next).op # "AltMatch"
  BY <1>1
<1>3. next \notin SureIn(vis)
  <2>. SUFFICES ASSUME next \in SureIn(vis)
                PROVE  FALSE
    OBVIOUS
  <2>1. \A k \in SureIn(vis) : Inst(prog, k).op # "Match" /\ Inst(prog, k).out \in SureIn(vis)
    OBVIOUS
  <2>2. SureIn(vis) \in SUBSET Sure(prog)
    BY DEF SureIn
  <2>. QED  BY <1>1, <2>1, <2>2
<1>4. <<next, query.end>> \notin vis
  BY <1>2, <1>3 DEF SureIn
<1>. QED  BY <1>2, <1>4

\* What Entering asks for: a step leads to i1 at q.
CanEnter(i1, q, vis, s) ==
  /\ i1 \in InstIds(prog) /\ IsHead(prog, i1)
  /\ Apart(prog, s) /\ \A x \in Waiting(s) : Seen(vis, x)
  /\ \A x \in Waiting(s) : SkipsText(ListOf(x[1])) => ListOf(x[1]) # i1
  /\ \/ SureIn(vis) = {} /\ NoSkips(s)
     \/ /\ q = query.end /\ i1 \in Sure(prog) /\ Inst(prog, i1).last
        /\ <<i1, q>> \notin vis
        /\ \A k \in SureIn(vis) :
             Inst(prog, k).op # "Match" /\ Inst(prog, k).out \in SureIn(vis) \cup {i1}

\* A later instruction of the list is left to be tried.
LEMMA Leaving ==
  ASSUME Asked, NEW i0 \in InstIds(prog), NEW q \in Here, NEW vis, NEW s, NEW c,
         NEW d \in Nat, i0 + d \in InstIds(prog), ListOf(i0 + d) = ListOf(i0),
         IsStack(prog, Here, ncap, s), UndoneIn(prog, ncap, s, c), Once("loop", i0, q, vis, s)
  PROVE  LET r == Push(s, i0 + d, q) IN
         /\ IsStack(prog, Here, ncap, r) /\ Apart(prog, r) /\ UndoneIn(prog, ncap, r, c)
         /\ Waiting(r) \subseteq Waiting(s) \cup {<<i0 + d, q>>}
         /\ \A x \in Waiting(r) : Seen(vis, x)
<1> DEFINE x0 == <<i0 + d, q>>
           r == Push(s, i0 + d, q)
<1>1. \A y \in Waiting(s) : ~SameVisit(prog, x0, y)
  BY DEF Once, SameVisit, ListOf
<1>2. /\ IsStack(prog, Here, ncap, r) /\ Apart(prog, r) /\ UndoneIn(prog, ncap, r, c)
      /\ Waiting(r) \subseteq Waiting(s) \cup {x0}
  BY <1>1, PushWaits DEF Asked, Here, Once
<1>3. Seen(vis, x0)
  BY DEF Once, Seen
<1>. HIDE DEF r, x0
<1>4. \A x \in Waiting(r) : Seen(vis, x)
  BY <1>2, <1>3 DEF Once
<1>. QED  BY <1>2, <1>4 DEF r, x0

\* An instruction that reads nothing is followed, and the rest of its list is left.
LEMMA Following ==
  ASSUME Asked, NEW i0 \in InstIds(prog), NEW q \in Here, NEW vis, NEW s, NEW c,
         Inst(prog, i0).op \in {"Capture", "EmptyWidth", "Nop"},
         IsStack(prog, Here, ncap, s), UndoneIn(prog, ncap, s, c),
         Searches("loop", i0, q, vis, s)
  PROVE  LET r == PushRest(s, i0, q) IN
         /\ IsStack(prog, Here, ncap, r) /\ UndoneIn(prog, ncap, r, c)
         /\ CanEnter(Inst(prog, i0).out, q, vis, r)
<1> DEFINE r == PushRest(s, i0, q)
           next == Inst(prog, i0).out
<1>1. i0 \in Nat /\ i0 \in Int
  BY DEF InstIds
<1>2. next \in InstIds(prog) /\ IsHead(prog, next)
      /\ (~Inst(prog, i0).last => i0 + 1 \in InstIds(prog))
  BY DEF Asked, WellFormedProg, WellFormedInst
<1>3. ~Inst(prog, i0).last => ListOf(i0 + 1) = ListOf(i0)
  BY <1>1, SameList DEF ListOf
<1>4. /\ IsStack(prog, Here, ncap, r) /\ Apart(prog, r) /\ UndoneIn(prog, ncap, r, c)
      /\ \A x \in Waiting(r) : x \in Waiting(s) \/ (~Inst(prog, i0).last /\ x = <<i0 + 1, q>>)
      /\ \A x \in Waiting(r) : Seen(vis, x)
  <2>1. CASE Inst(prog, i0).last
    <3>1. r = s
      BY <2>1 DEF PushRest
    <3>. QED  BY <3>1 DEF Searches, Once
  <2>2. CASE ~Inst(prog, i0).last
    <3>1. r = Push(s, i0 + 1, q)
      BY <2>2 DEF PushRest
    <3>. HIDE DEF r
    <3>. QED  BY <1>2, <1>3, <2>2, <3>1, Leaving DEF Searches
  <2>. QED  BY <2>1, <2>2
<1>5. Sure(prog) \subseteq InstIds(prog)
      /\ \A k \in Sure(prog) : Inst(prog, k).op \in {"Match", "Capture", "Nop"}
  BY SureClosed DEF Asked
<1>. HIDE DEF r
<1>6. CASE SureIn(vis) = {} /\ NoSkips(s) /\ ~SkipsText(ListOf(i0))
  <2>1. NoSkips(r)
    BY <1>3, <1>4, <1>6 DEF NoSkips
  <2>. QED  BY <1>2, <1>4, <1>6, <2>1 DEF CanEnter, NoSkips, r
<1>7. CASE SureIn(vis) = {} /\ NoSkips(s) /\ SkipsText(ListOf(i0)) /\ q = query.end /\ i0 \in Sure(prog)
  <2>1. /\ next \in Sure(prog) /\ Inst(prog, next).last /\ Inst(prog, next).op # "AltMatch"
        /\ <<next, query.end>> \notin vis
    BY <1>7, SureIsNew
  <2>2. \A x \in Waiting(r) : SkipsText(ListOf(x[1])) => ListOf(x[1]) # next
    BY <1>7, <2>1 DEF SkipsText
  <2>. QED  BY <1>2, <1>4, <1>7, <2>1, <2>2 DEF CanEnter, r
<1>8. CASE /\ SureIn(vis) # {} /\ q = query.end
           /\ i0 \in Sure(prog) /\ Inst(prog, i0).last
           /\ i0 \in SureIn(vis)
           /\ \A k \in SureIn(vis) \ {i0} :
                Inst(prog, k).op # "Match" /\ Inst(prog, k).out \in SureIn(vis)
  <2>1. /\ next \in Sure(prog) /\ Inst(prog, next).last /\ Inst(prog, next).op # "AltMatch"
        /\ <<next, query.end>> \notin vis
        /\ \A k \in SureIn(vis) :
             Inst(prog, k).op # "Match" /\ Inst(prog, k).out \in SureIn(vis) \cup {next}
    BY <1>8, SureIsNew
  <2>2. \A x \in Waiting(r) : SkipsText(ListOf(x[1])) => ListOf(x[1]) # next
    BY <2>1 DEF SkipsText
  <2>. QED  BY <1>2, <1>4, <1>8, <2>1, <2>2 DEF CanEnter, r
<1>. QED  BY <1>5, <1>6, <1>7, <1>8, Trying

\* A byte is read, and what the hint points at is left.
LEMMA Reading ==
  ASSUME Asked, NEW i0 \in InstIds(prog), NEW q \in Here, NEW vis, NEW s, NEW c,
         Inst(prog, i0).op = "ByteRange",
         IsStack(prog, Here, ncap, s), UndoneIn(prog, ncap, s, c),
         Searches("loop", i0, q, vis, s)
  PROVE  LET hint == Inst(prog, i0).hint
             r == IF hint = 0 THEN s ELSE Push(s, i0 + hint, q) IN
         /\ IsStack(prog, Here, ncap, r) /\ UndoneIn(prog, ncap, r, c)
         /\ CanEnter(Inst(prog, i0).out, q + 1, vis, r)
<1> DEFINE hint == Inst(prog, i0).hint
           r == IF hint = 0 THEN s ELSE Push(s, i0 + hint, q)
<1>1. i0 \in Nat /\ i0 \in Int
  BY DEF InstIds
<1>2. /\ Inst(prog, i0).out \in InstIds(prog) /\ IsHead(prog, Inst(prog, i0).out)
      /\ hint \in Nat /\ i0 + hint \in InstIds(prog)
      /\ \A m \in i0..(i0 + hint - 1) : ~Inst(prog, m).last
  BY DEF Asked, WellFormedProg, WellFormedInst
<1>3. ListOf(i0 + hint) = ListOf(i0)
  <2>. HIDE DEF hint
  <2>1. \A d \in Nat : (\A m \in i0..(i0 + d - 1) : ~Inst(prog, m).last) =>
          HeadOf(prog, i0 + d) = HeadOf(prog, i0)
    BY <1>1, SameList
  <2>. QED  BY <1>2, <2>1 DEF ListOf
<1>4. SureIn(vis) = {} /\ NoSkips(s) /\ ~SkipsText(ListOf(i0))
  BY Trying, SureClosed DEF Asked
<1>. HIDE DEF hint
<1>5. /\ IsStack(prog, Here, ncap, r) /\ Apart(prog, r) /\ UndoneIn(prog, ncap, r, c)
      /\ Waiting(r) \subseteq Waiting(s) \cup {<<i0 + hint, q>>}
      /\ \A x \in Waiting(r) : Seen(vis, x)
  <2>1. CASE hint = 0
    BY <2>1 DEF Searches, Once
  <2>2. CASE hint # 0
    BY <1>2, <1>3, <2>2, Leaving DEF Searches
  <2>. QED  BY <2>1, <2>2
<1>. HIDE DEF r
<1>6. NoSkips(r)
  BY <1>3, <1>4, <1>5 DEF NoSkips
<1>7. CanEnter(Inst(prog, i0).out, q + 1, vis, r)
  BY <1>2, <1>4, <1>5, <1>6 DEF CanEnter, NoSkips
<1>. QED  BY <1>5, <1>7 DEF r, hint

\* Nothing comes of an instruction: the next one of its list is tried, if there is one.
LEMMA Passing ==
  ASSUME Asked, NEW i0 \in InstIds(prog), NEW q, NEW vis, NEW s,
         Searches("loop", i0, q, vis, s),
         SureIn(vis) = {}, NoSkips(s)
  PROVE  /\ \A k, m : Searches("pop", k, m, vis, s)
         /\ ~Inst(prog, i0).last => i0 + 1 \in InstIds(prog)
         /\ ~Inst(prog, i0).last /\ ~SkipsText(ListOf(i0)) => Searches("loop", i0 + 1, q, vis, s)
<1>1. i0 \in Nat
  BY DEF InstIds
<1>2. ~Inst(prog, i0).last => i0 + 1 \in InstIds(prog) /\ ListOf(i0 + 1) = ListOf(i0)
  BY <1>1, SameList DEF ListOf, Asked, WellFormedProg, WellFormedInst
<1>3. \A k, m : Searches("pop", k, m, vis, s)
  BY DEF Searches, Once, SureFirst, SkipsFirst
<1>4. ASSUME ~Inst(prog, i0).last, ~SkipsText(ListOf(i0))
      PROVE  Searches("loop", i0 + 1, q, vis, s)
  <2>1. Seen(vis, <<i0 + 1, q>>)
    BY <1>2, <1>4 DEF Searches, Once, Seen
  <2>2. \A x \in Waiting(s) : ~SameVisit(prog, <<i0 + 1, q>>, x)
    BY <1>2, <1>4 DEF Searches, Once, SameVisit, ListOf
  <2>3. Once("loop", i0 + 1, q, vis, s)
    BY <2>1, <2>2 DEF Searches, Once
  <2>. QED  BY <1>2, <1>4, <2>3 DEF Searches, SureFirst, SkipsFirst
<1>. QED  BY <1>2, <1>3, <1>4

LEMMA Stopping ==
  ASSUME NEW i0, NEW q, NEW vis, NEW s, Searches("loop", i0, q, vis, s)
  PROVE  \A k, m : Searches("done", k, m, vis, s)
BY DEF Searches, Once, SureFirst, SkipsFirst, FirstIn

(***************************************************************************)
(* One lemma for each action.                                              *)
(***************************************************************************)
Inv ==
  /\ Types(pc, id, p, p0, visited, cap, job)
  /\ UndoneIn(prog, ncap, job, cap)
  /\ Searches(pc, id, p, visited, job)

LEMMA Primed ==
  ASSUME query' = query,
         Types(pc', id', p', p0', visited', cap', job'),
         UndoneIn(prog, ncap, job', cap'),
         Searches(pc', id', p', visited', job')
  PROVE  Inv'
<1>1. prog' = prog /\ Here' = Here /\ ncap' = ncap
  BY DEF prog, Here, ncap
<1>4. Types(pc, id, p, p0, visited, cap, job)'
  BY <1>1 DEF Types
<1>5. UndoneIn(prog, ncap, job, cap)'
  BY <1>1
<1>6. Once(pc, id, p, visited, job)'
  BY <1>1 DEF Searches, Once, Seen, ListOf, SkipsText
<1>7. SureFirst(pc, id, p, visited, job)'
  BY <1>1 DEF Searches, SureFirst, SureIn, FirstIn
<1>8. SkipsFirst(pc, id, p, visited, job)'
  BY <1>1 DEF Searches, SkipsFirst, ListOf, SkipsText, NoSkips, SureIn, FirstIn
<1>. QED  BY <1>4, <1>5, <1>6, <1>7, <1>8 DEF Inv, Searches

LEMMA AcceleratedStays ==
  ASSUME Asked, NEW q \in Here
  PROVE  Accelerated(q) \in Here
<1> DEFINE k == Len(prog.prefix)
           Looked == IF prog.foldcase THEN 1..k ELSE {1, k}
           Hits == {j \in q..(query.end - k) : \A m \in Looked : query.context[j + m] \in prog.prefix[m]}
<1>1. k \in Nat /\ query.beg \in Nat /\ query.end \in Nat /\ q \in query.beg..query.end
  BY DEF Asked, WellFormedProg, Here
<1>2. PrefixAccel(query, q)
        = IF Hits = {} THEN NULL ELSE CHOOSE j \in Hits : \A m \in Hits : j <= m
  BY DEF PrefixAccel, prog
<1>3. Hits \subseteq Here /\ Hits \subseteq Nat
  <2>1. \A j \in q..(query.end - k) : j \in Here /\ j \in Nat
    BY <1>1 DEF Here
  <2>. QED  BY <2>1
<1>. HIDE DEF Hits, k
<1>4. Hits # {} => PrefixAccel(query, q) \in Here
  <2>. SUFFICES ASSUME Hits # {}
                PROVE  PrefixAccel(query, q) \in Here
    OBVIOUS
  <2>1. \E j \in Hits : \A m \in Hits : j <= m
    BY <1>3, Least
  <2>. QED  BY <1>2, <1>3, <2>1
<1>5. query.end \in Here
  BY <1>1 DEF Asked, Here
<1>. QED  BY <1>2, <1>4, <1>5 DEF Accelerated

LEMMA EmptyStack == Waiting(<<>>) = {}
BY DEF Waiting

LEMMA RejectKeeps == ASSUME Asked, Inv, Reject PROVE Inv'
<1>1. query' = query /\ pc = "start" /\ pc' = "done" /\ job = <<>>
      /\ UNCHANGED <<id, p, p0, visited, cap, job>>
  BY DEF Reject, Return, Inv, Types
<1>2. Types(pc', id', p', p0', visited', cap', job')
  BY <1>1 DEF Inv, Types
<1>3. Searches(pc', id', p', visited', job')
  BY <1>1, EmptyStack DEF Inv, Searches, Once, SureFirst, SkipsFirst, NoSkips
<1>. QED  BY <1>1, <1>2, <1>3, Primed DEF Inv

LEMMA StartTryKeeps == ASSUME Asked, Inv, StartTry PROVE Inv'
<1> DEFINE q == IF Anchored(query) THEN p0 ELSE Accelerated(p0)
           new == <<prog.start, q>> \notin visited
<1>1. /\ query' = query /\ pc = "start" /\ pc' = "pop" /\ job = <<>>
      /\ id' = id /\ p' = p /\ p0' = q
      /\ cap' = [cap EXCEPT ![0] = q]
      /\ job' = IF new THEN Push(<<>>, prog.start, q) ELSE <<>>
      /\ visited' = visited \cup {<<prog.start, q>>}
  BY DEF StartTry, Inv, Types, ShouldVisit
<1>2. q \in Here
  BY AcceleratedStays DEF Inv, Types
<1>3. prog.start \in InstIds(prog) /\ IsHead(prog, prog.start)
  BY DEF Asked, WellFormedProg
<1>. HIDE DEF q
<1>4. 0 \in 0..(ncap - 1) /\ ncap \in Nat
  BY DEF Asked
<1>5. /\ cap' \in [0..(ncap - 1) -> {NULL} \cup Here]
      /\ \A k \in (0..(ncap - 1)) \ {0, 1} : cap'[k] = cap[k]
  BY <1>1, <1>2, <1>4 DEF Inv, Types
<1>6. SureIn(visited) = {}
  BY <1>1 DEF Inv, Searches, SureFirst, FirstIn
<1>7. UndoneIn(prog, ncap, <<>>, cap')
  BY <1>1, <1>5 DEF Inv, UndoneIn
<1>8. CASE new
  <2>1. /\ IsStack(prog, Here, ncap, job') /\ Apart(prog, job') /\ UndoneIn(prog, ncap, job', cap')
        /\ Waiting(job') \subseteq {<<prog.start, q>>}
    <3>1. IsStack(prog, Here, ncap, <<>>) /\ Apart(prog, <<>>)
      BY <1>1 DEF Inv, Types, Searches, Once
    <3>. QED  BY <1>1, <1>2, <1>3, <1>7, <1>8, <3>1, EmptyStack, PushWaits DEF Asked, Here
  <2>2. Types(pc', id', p', p0', visited', cap', job')
    BY <1>1, <1>2, <1>3, <1>5, <2>1 DEF Inv, Types
  <2>3. \A x \in Waiting(job') : Seen(visited', x)
    <3>1. ListOf(prog.start) = prog.start
      BY <1>3, SameList DEF ListOf, InstIds
    <3>. QED  BY <1>1, <2>1, <3>1 DEF Seen
  <2>4. /\ Len(job') = 1 /\ job'[1] = [id |-> prog.start, p |-> q, rle |-> 0]
    BY <1>1, <1>8 DEF Push
  <2>5. FirstIn(pc', job', prog.start) /\ job'[1].p = q
    BY <1>1, <1>3, <2>4 DEF FirstIn
  <2>6. SureFirst(pc', id', p', visited', job')
    <3>1. SureIn(visited') \subseteq {prog.start} /\ (SureIn(visited') # {} => q = query.end)
      BY <1>1, <1>6 DEF SureIn
    <3>. QED  BY <2>5, <3>1 DEF SureFirst
  <2>7. SkipsFirst(pc', id', p', visited', job')
    BY <1>1, <1>3, <2>5 DEF SkipsFirst
  <2>8. Searches(pc', id', p', visited', job')
    BY <1>1, <2>1, <2>3, <2>6, <2>7 DEF Searches, Once
  <2>. QED  BY <1>1, <2>1, <2>2, <2>8, Primed
<1>9. CASE ~new
  <2>1. visited' = visited /\ job' = <<>>
    BY <1>1, <1>9
  <2>2. Types(pc', id', p', p0', visited', cap', job')
    BY <1>1, <1>2, <1>5, <2>1 DEF Inv, Types
  <2>3. Searches(pc', id', p', visited', job')
    BY <1>1, <1>6, <2>1, EmptyStack DEF Inv, Searches, Once, SureFirst, SkipsFirst, NoSkips
  <2>. QED  BY <1>1, <1>7, <2>1, <2>2, <2>3, Primed
<1>. QED  BY <1>8, <1>9

LEMMA EndTryKeeps == ASSUME Asked, Inv, EndTry PROVE Inv'
<1>1. /\ query' = query /\ pc = "pop" /\ pc' \in {"start", "done"} /\ job = <<>>
      /\ UNCHANGED <<id, p, visited, cap, job>>
      /\ p0' = p0 \/ (p0 # query.end /\ p0' = p0 + 1)
  BY DEF EndTry, Return
<1>2. p0' \in Here
  BY <1>1 DEF Inv, Types, Here, Asked
<1>3. Types(pc', id', p', p0', visited', cap', job')
  BY <1>1, <1>2 DEF Inv, Types
<1>4. SureIn(visited) = {}
  BY <1>1 DEF Inv, Searches, SureFirst, FirstIn
<1>5. Searches(pc', id', p', visited', job')
  BY <1>1, <1>4, EmptyStack DEF Inv, Searches, Once, SureFirst, SkipsFirst, NoSkips
<1>. QED  BY <1>1, <1>3, <1>5, Primed DEF Inv

LEMMA UndoCaptureKeeps == ASSUME Asked, Inv, UndoCapture PROVE Inv'
<1> DEFINE top == Top(job)
           reg == Inst(prog, -top.id).cap
<1>1. /\ query' = query /\ pc = "pop" /\ pc' = "pop" /\ job # <<>> /\ top.id < 0
      /\ cap' = [cap EXCEPT ![reg] = top.p] /\ job' = Below(job)
      /\ UNCHANGED <<id, p, p0, visited>>
  BY DEF UndoCapture
<1>2. \A k \in 0..(ncap - 1) : cap'[k] = IF k = reg THEN top.p ELSE cap[k]
  BY <1>1 DEF Inv, Types
<1>3. /\ IsStack(prog, Here, ncap, job') /\ Apart(prog, job') /\ UndoneIn(prog, ncap, job', cap')
      /\ Waiting(job') \subseteq Waiting(job)
      /\ reg \in 0..(ncap - 1) /\ top.p \in {NULL} \cup Here
  <2>1. IsStack(prog, Here, ncap, job) /\ Apart(prog, job) /\ UndoneIn(prog, ncap, job, cap)
    BY DEF Inv, Types, Searches, Once
  <2>2. ASSUME NEW d, \A k \in 0..(ncap - 1) : d[k] = IF k = reg THEN top.p ELSE cap[k]
        PROVE  /\ IsStack(prog, Here, ncap, Below(job)) /\ Apart(prog, Below(job))
               /\ UndoneIn(prog, ncap, Below(job), d) /\ Waiting(Below(job)) \subseteq Waiting(job)
               /\ reg \in 0..(ncap - 1) /\ top.p \in {NULL} \cup Here
    BY <1>1, <2>1, <2>2, PopUndoes
  <2>. QED  BY <1>1, <1>2, <2>2
<1>4. cap' \in [0..(ncap - 1) -> {NULL} \cup Here]
  BY <1>1, <1>3 DEF Inv, Types
<1>5. Types(pc', id', p', p0', visited', cap', job')
  BY <1>1, <1>3, <1>4 DEF Inv, Types
<1>6. \A k \in InstIds(prog) : ~FirstIn(pc, job, k)
  BY <1>1 DEF FirstIn, Top, InstIds
<1>7. SureIn(visited) = {}
  BY <1>1, <1>6, SureClosed DEF Inv, Searches, SureFirst, SureIn, Asked
<1>8. NoSkips(job')
  BY <1>3, <1>6, <1>7 DEF Inv, Searches, SkipsFirst, NoSkips
<1>9. Searches(pc', id', p', visited', job')
  BY <1>1, <1>3, <1>7, <1>8 DEF Inv, Searches, Once, SureFirst, SkipsFirst
<1>. QED  BY <1>1, <1>3, <1>5, <1>9, Primed

LEMMA PopJobKeeps == ASSUME Asked, Inv, PopJob PROVE Inv'
<1> DEFINE top == Top(job)
           x == <<top.id, top.p + top.rle>>
<1>1. /\ query' = query /\ pc = "pop" /\ pc' = "loop" /\ job # <<>> /\ top.id >= 0
      /\ id' = top.id /\ p' = top.p + top.rle
      /\ job' = IF top.rle = 0 THEN Below(job)
                ELSE Append(Below(job), [top EXCEPT !.rle = @ - 1])
      /\ UNCHANGED <<p0, visited, cap>>
  BY DEF PopJob
<1>2. /\ IsStack(prog, Here, ncap, job') /\ Apart(prog, job') /\ UndoneIn(prog, ncap, job', cap)
      /\ Waiting(job') \subseteq Waiting(job)
      /\ x \in Waiting(job) /\ id' \in InstIds(prog) /\ p' \in Here
      /\ \A y \in Waiting(job') : ~SameVisit(prog, <<id', p'>>, y)
  BY <1>1, PopWaits DEF Inv, Types, Searches, Once, Here, Asked
<1>3. Types(pc', id', p', p0', visited', cap', job')
  BY <1>1, <1>2 DEF Inv, Types
<1>4. Once(pc', id', p', visited', job')
  BY <1>1, <1>2 DEF Inv, Searches, Once
<1>5. ASSUME NEW k, FirstIn(pc, job, k)
      PROVE  id' = k /\ IsHead(prog, id') /\ job' = <<>> /\ p' = job[1].p
  <2>1. top = job[1] /\ top.rle = 0 /\ Len(job) = 1
    BY <1>5 DEF FirstIn, Top
  <2>2. top.p \in Int
    <3>1. top \in Job
      BY <1>1, BelowTop DEF Inv, Types, IsStack
    <3>. QED  BY <3>1 DEF Job
  <2>3. Below(job) = <<>>
    BY <2>1, SubSeqEmpty DEF Below
  <2>. QED  BY <1>1, <1>5, <2>1, <2>2, <2>3 DEF FirstIn
<1>6. SureFirst(pc', id', p', visited', job')
  <2>. SUFFICES ASSUME SureIn(visited) # {}
                PROVE  /\ p' = query.end /\ id' \in SureIn(visited)
                       /\ \A k \in SureIn(visited) \ {id'} : FALSE
    BY <1>1 DEF SureFirst
  <2>1. PICK k \in SureIn(visited) :
          SureIn(visited) = {k} /\ FirstIn(pc, job, k) /\ job[1].p = query.end
    BY <1>1 DEF Inv, Searches, SureFirst
  <2>2. id' = k /\ p' = job[1].p
    BY <1>5, <2>1
  <2>. QED  BY <2>1, <2>2
<1>7. SkipsFirst(pc', id', p', visited', job')
  <2>1. CASE NoSkips(job)
    <3>1. ~SkipsText(ListOf(id')) /\ NoSkips(job')
      BY <1>1, <1>2, <2>1 DEF NoSkips
    <3>. QED  BY <3>1 DEF SkipsFirst
  <2>2. CASE \E k \in InstIds(prog) : FirstIn(pc, job, k)
    <3>1. IsHead(prog, id') /\ job' = <<>>
      BY <1>5, <2>2
    <3>. QED  BY <3>1, EmptyStack DEF SkipsFirst, NoSkips
  <2>3. CASE SureIn(visited) # {}
    <3>1. \E k : FirstIn(pc, job, k)
      BY <1>1, <2>3 DEF Inv, Searches, SureFirst
    <3>2. IsHead(prog, id')
      BY <1>5, <3>1
    <3>. QED  BY <1>1, <2>3, <3>2 DEF SkipsFirst
  <2>. QED  BY <2>1, <2>2, <2>3 DEF Inv, Searches, SkipsFirst
<1>8. Searches(pc', id', p', visited', job')
  BY <1>4, <1>6, <1>7 DEF Searches
<1>. QED  BY <1>1, <1>2, <1>3, <1>8, Primed

\* What holds whenever an instruction is visited.
LEMMA InLoop ==
  ASSUME Asked, Inv, pc = "loop"
  PROVE  /\ id \in InstIds(prog) /\ id \in Nat /\ p \in Here
         /\ Searches("loop", id, p, visited, job)
         /\ IsStack(prog, Here, ncap, job) /\ UndoneIn(prog, ncap, job, cap)
BY DEF Inv, Types, InstIds

\* The instruction that follows, or the one after a step, is tried or is not.
LEMMA EnterKeeps ==
  ASSUME Asked, Inv, pc = "loop", NEW i1, NEW q \in Here,
         CanEnter(i1, q, visited, job'), Enter(i1, q),
         query' = query, p0' = p0,
         cap' \in [0..(ncap - 1) -> {NULL} \cup Here],
         IsStack(prog, Here, ncap, job'), UndoneIn(prog, ncap, job', cap')
  PROVE  Inv'
<1>1. CASE <<i1, q>> \notin visited
  <2>1. id' = i1 /\ p' = q /\ visited' = visited \cup {<<i1, q>>} /\ pc' = "loop"
    BY <1>1 DEF Enter, ShouldVisit
  <2>2. Searches(pc', id', p', visited', job')
    BY <1>1, <2>1, Entering DEF CanEnter
  <2>3. Types(pc', id', p', p0', visited', cap', job')
    BY <2>1 DEF Inv, Types, CanEnter
  <2>. QED  BY <2>2, <2>3, Primed
<1>2. CASE <<i1, q>> \in visited
  <2>1. pc' = "pop" /\ UNCHANGED <<id, p, visited>>
    BY <1>2 DEF Enter, ShouldVisit
  <2>2. Searches(pc', id', p', visited', job')
    BY <1>2, <2>1, Entering DEF CanEnter
  <2>3. Types(pc', id', p', p0', visited', cap', job')
    BY <2>1 DEF Inv, Types
  <2>. QED  BY <2>2, <2>3, Primed
<1>. QED  BY <1>1, <1>2

LEMMA NextKeeps ==
  ASSUME Asked, Inv, pc = "loop", SureIn(visited) = {}, NoSkips(job),
         Inst(prog, id).last \/ ~SkipsText(ListOf(id)), NextInst,
         UNCHANGED <<query, p, p0, visited, job>>,
         cap' \in [0..(ncap - 1) -> {NULL} \cup Here],
         UndoneIn(prog, ncap, job, cap')
  PROVE  Inv'
<1>1. \/ pc' = "pop" /\ id' = id
      \/ ~Inst(prog, id).last /\ id' = id + 1 /\ pc' = "loop"
  BY DEF NextInst, ip
<1>2. Searches(pc', id', p', visited', job')
  BY <1>1, InLoop, Passing
<1>3. Types(pc', id', p', p0', visited', cap', job')
  BY <1>1, InLoop, Passing DEF Inv, Types
<1>. QED  BY <1>2, <1>3, Primed

\* The search ends, with whatever is on the stack.
LEMMA DoneKeeps ==
  ASSUME Asked, Inv, pc = "loop", pc' = "done",
         UNCHANGED <<query, id, p, p0, visited, job>>,
         cap' \in [0..(ncap - 1) -> {NULL} \cup Here],
         UndoneIn(prog, ncap, job, cap')
  PROVE  Inv'
<1>1. Searches(pc', id', p', visited', job')
  BY InLoop, Stopping
<1>2. Types(pc', id', p', p0', visited', cap', job')
  BY DEF Inv, Types
<1>. QED  BY <1>1, <1>2, Primed

LEMMA SameCaptures == Inv => cap \in [0..(ncap - 1) -> {NULL} \cup Here]
BY DEF Inv, Types

LEMMA VisitFailKeeps == ASSUME Asked, Inv, VisitFail PROVE Inv'
<1>1. /\ pc = "loop" /\ pc' = "pop" /\ Inst(prog, id).op = "Fail"
      /\ UNCHANGED <<query, id, p, p0, visited, cap, job>>
  BY DEF VisitFail, Visit, ip
<1>2. SureIn(visited) = {} /\ NoSkips(job)
  BY <1>1, InLoop, Trying, SureClosed DEF Asked
<1>3. Searches(pc', id', p', visited', job')
  BY <1>1, <1>2, InLoop, Passing
<1>4. Types(pc', id', p', p0', visited', cap', job')
  BY <1>1 DEF Inv, Types
<1>. QED  BY <1>1, <1>3, <1>4, Primed DEF Inv

LEMMA VisitAltMatchKeeps == ASSUME Asked, Inv, VisitAltMatch PROVE Inv'
<1>1. /\ pc = "loop" /\ Inst(prog, id).op = "AltMatch"
      /\ UNCHANGED <<query, p0, visited, cap, job>>
  BY DEF VisitAltMatch, Visit, ip
<1>2. SureIn(visited) = {} /\ NoSkips(job)
  BY <1>1, InLoop, Trying, SureClosed DEF Asked
<1>3. /\ id \in InstIds(prog) /\ IsHead(prog, id) /\ ~Inst(prog, id).last /\ ~Inst(prog, id + 1).last
      /\ Inst(prog, id).out = id + 1 /\ Inst(prog, id).out1 = id + 2
      /\ Shortcut(prog, Inst(prog, id)) \in Sure(prog)
  BY <1>1, InLoop DEF Asked, WellFormedProg, WellFormedInst
<1>4. ListOf(id) = id /\ ListOf(id + 1) = id /\ ListOf(id + 2) = id
  <2>1. id \in Nat /\ id + 1 \in Nat /\ (id + 1) + 1 = id + 2
    BY <1>1, InLoop
  <2>2. HeadOf(prog, id) = id /\ HeadOf(prog, id + 1) = HeadOf(prog, id)
    BY <1>3, <2>1, SameList
  <2>3. HeadOf(prog, (id + 1) + 1) = HeadOf(prog, id + 1)
    BY <1>3, <2>1, SameList
  <2>. QED  BY <2>1, <2>2, <2>3 DEF ListOf
<1>5. CASE SkipsText(id)
  <2>1. id' = Shortcut(prog, Inst(prog, id)) /\ p' = query.end /\ pc' = "loop"
    BY <1>1, <1>5 DEF VisitAltMatch, SkipsText, Shortcut, ip
  <2>2. id' \in InstIds(prog) /\ ListOf(id') = id
    <3>1. id' = id + 1 \/ id' = id + 2
      BY <1>3, <2>1 DEF Shortcut
    <3>2. Sure(prog) \subseteq InstIds(prog)
      BY SureClosed DEF Asked
    <3>. QED  BY <1>3, <1>4, <2>1, <3>1, <3>2
  <2>3. p' \in Here
    BY <2>1 DEF Asked, Here
  <2>4. Types(pc', id', p', p0', visited', cap', job')
    BY <1>1, <2>1, <2>2, <2>3 DEF Inv, Types
  <2>5. Once(pc', id', p', visited', job')
    <3>1. Seen(visited, <<id', p'>>)
      BY <1>5, <2>2 DEF Seen
    <3>2. \A x \in Waiting(job) : ~SameVisit(prog, <<id', p'>>, x)
      BY <1>2, <1>5, <2>2 DEF NoSkips, SameVisit, ListOf
    <3>. QED  BY <1>1, <3>1, <3>2 DEF Inv, Searches, Once
  <2>6. SureFirst(pc', id', p', visited', job')
    BY <1>1, <1>2 DEF SureFirst
  <2>7. SkipsFirst(pc', id', p', visited', job')
    BY <1>1, <1>2, <2>1, <2>2 DEF SkipsFirst
  <2>8. Searches(pc', id', p', visited', job')
    BY <2>5, <2>6, <2>7 DEF Searches
  <2>. QED  BY <1>1, <2>4, <2>8, Primed DEF Inv
<1>6. CASE ~SkipsText(id)
  <2>1. NextInst /\ p' = p
    BY <1>1, <1>6 DEF VisitAltMatch, SkipsText, ip
  <2>. QED  BY <1>1, <1>2, <1>4, <1>6, <2>1, InLoop, SameCaptures, NextKeeps
<1>. QED  BY <1>5, <1>6

LEMMA VisitByteRangeKeeps == ASSUME Asked, Inv, VisitByteRange PROVE Inv'
<1>1. /\ pc = "loop" /\ Inst(prog, id).op = "ByteRange" /\ ip = Inst(prog, id)
      /\ UNCHANGED <<query, p0, cap>>
  BY DEF VisitByteRange, Visit, ip
<1>2. SureIn(visited) = {} /\ NoSkips(job) /\ ~SkipsText(ListOf(id))
  BY <1>1, InLoop, Trying, SureClosed DEF Asked
<1>3. CASE Matches(query, ip, p)
  <2>1. /\ job' = IF ip.hint = 0 THEN job ELSE Push(job, id + ip.hint, p)
        /\ Enter(ip.out, p + 1)
    BY <1>3 DEF VisitByteRange
  <2>2. p + 1 \in Here
    <3>1. p < query.end
      BY <1>3 DEF Matches, ByteAt
    <3>. QED  BY <1>1, <3>1, InLoop DEF Here, Asked
  <2>3. /\ IsStack(prog, Here, ncap, job') /\ UndoneIn(prog, ncap, job', cap)
        /\ CanEnter(ip.out, p + 1, visited, job')
    BY <1>1, <2>1, InLoop, Reading
  <2>. QED  BY <1>1, <2>1, <2>2, <2>3, SameCaptures, EnterKeeps
<1>4. CASE ~Matches(query, ip, p)
  <2>1. NextInst /\ UNCHANGED <<p, visited, job>>
    BY <1>4 DEF VisitByteRange
  <2>. QED  BY <1>1, <1>2, <2>1, InLoop, SameCaptures, NextKeeps
<1>. QED  BY <1>3, <1>4

LEMMA VisitNopKeeps == ASSUME Asked, Inv, VisitNop PROVE Inv'
<1>1. /\ pc = "loop" /\ Inst(prog, id).op = "Nop" /\ ip = Inst(prog, id)
      /\ UNCHANGED <<query, p0, cap>>
      /\ job' = PushRest(job, id, p) /\ Enter(ip.out, p)
  BY DEF VisitNop, Visit, ip
<1>2. /\ IsStack(prog, Here, ncap, job') /\ UndoneIn(prog, ncap, job', cap)
      /\ CanEnter(ip.out, p, visited, job')
  BY <1>1, InLoop, Following
<1>. QED  BY <1>1, <1>2, InLoop, SameCaptures, EnterKeeps

LEMMA VisitEmptyWidthKeeps == ASSUME Asked, Inv, VisitEmptyWidth PROVE Inv'
<1>1. /\ pc = "loop" /\ Inst(prog, id).op = "EmptyWidth" /\ ip = Inst(prog, id)
      /\ UNCHANGED <<query, p0, cap>>
  BY DEF VisitEmptyWidth, Visit, ip
<1>2. CASE ip.empty \subseteq EmptyFlags(query.context, p)
  <2>1. job' = PushRest(job, id, p) /\ Enter(ip.out, p)
    BY <1>2 DEF VisitEmptyWidth
  <2>2. /\ IsStack(prog, Here, ncap, job') /\ UndoneIn(prog, ncap, job', cap)
        /\ CanEnter(ip.out, p, visited, job')
    BY <1>1, <2>1, InLoop, Following
  <2>. QED  BY <1>1, <2>1, <2>2, InLoop, SameCaptures, EnterKeeps
<1>3. CASE ~(ip.empty \subseteq EmptyFlags(query.context, p))
  <2>1. NextInst /\ UNCHANGED <<p, visited, job>>
    BY <1>3 DEF VisitEmptyWidth
  <2>2. SureIn(visited) = {} /\ NoSkips(job) /\ ~SkipsText(ListOf(id))
    BY <1>1, InLoop, Trying, SureClosed DEF Asked
  <2>. QED  BY <1>1, <2>1, <2>2, InLoop, SameCaptures, NextKeeps
<1>. QED  BY <1>2, <1>3

LEMMA VisitCaptureKeeps == ASSUME Asked, Inv, VisitCapture PROVE Inv'
<1> DEFINE rest == PushRest(job, id, p)
           set == ip.cap \in DOMAIN cap
<1>1. /\ pc = "loop" /\ Inst(prog, id).op = "Capture" /\ ip = Inst(prog, id)
      /\ UNCHANGED <<query, p0>> /\ Enter(ip.out, p)
      /\ set => job' = Push(rest, -id, cap[ip.cap]) /\ cap' = [cap EXCEPT ![ip.cap] = p]
      /\ ~set => job' = rest /\ cap' = cap
  BY DEF VisitCapture, Visit, ip
<1>2. /\ IsStack(prog, Here, ncap, rest) /\ UndoneIn(prog, ncap, rest, cap)
      /\ CanEnter(ip.out, p, visited, rest)
  BY <1>1, InLoop, Following
<1>. HIDE DEF rest, set
<1>3. CASE set
  <2>1. /\ ip.cap \in 0..(ncap - 1) /\ cap[ip.cap] \in {NULL} \cup Here
        /\ cap' \in [0..(ncap - 1) -> {NULL} \cup Here]
        /\ \A k \in (0..(ncap - 1)) \ {ip.cap} : cap'[k] = cap[k]
    BY <1>1, <1>3, InLoop, SameCaptures DEF set
  <2>2. id # 0
    BY <1>1 DEF Asked, WellFormedProg
  <2>3. Here \subseteq Nat /\ 0..(ncap - 1) \subseteq Nat
    BY DEF Asked, Here
  <2>4. Apart(prog, rest)
    BY <1>2 DEF CanEnter
  <2>5. ASSUME NEW d, \A k \in (0..(ncap - 1)) \ {ip.cap} : d[k] = cap[k]
        PROVE  /\ IsStack(prog, Here, ncap, job') /\ Apart(prog, job') /\ UndoneIn(prog, ncap, job', d)
               /\ Waiting(job') \subseteq Waiting(rest)
    <3> DEFINE q == cap[ip.cap]
               r == Push(rest, -id, q)
    <3>1. /\ IsStack(prog, Here, ncap, r) /\ Apart(prog, r) /\ UndoneIn(prog, ncap, r, d)
          /\ Waiting(r) \subseteq Waiting(rest)
      BY <1>1, <1>2, <2>1, <2>2, <2>3, <2>4, <2>5, InLoop, PushUndoes
    <3>. QED  BY <1>1, <1>3, <3>1
  <2>6. /\ IsStack(prog, Here, ncap, job') /\ Apart(prog, job') /\ UndoneIn(prog, ncap, job', cap')
        /\ Waiting(job') \subseteq Waiting(rest)
    BY <2>1, <2>5
  <2>7. CanEnter(ip.out, p, visited, job')
    BY <1>2, <2>6 DEF CanEnter, NoSkips
  <2>. QED  BY <1>1, <2>1, <2>6, <2>7, InLoop, EnterKeeps
<1>4. CASE ~set
  BY <1>1, <1>2, <1>4, InLoop, SameCaptures, EnterKeeps
<1>. QED  BY <1>3, <1>4

LEMMA VisitMatchKeeps == ASSUME Asked, Inv, VisitMatch PROVE Inv'
<1>1. /\ pc = "loop" /\ Inst(prog, id).op = "Match" /\ UNCHANGED <<query, p, p0, visited, job>>
  BY DEF VisitMatch, Visit, ip
<1>2. p # query.end => SureIn(visited) = {} /\ NoSkips(job) /\ ~SkipsText(ListOf(id))
  BY <1>1, InLoop, Trying
<1>3. 1 \in 0..(ncap - 1) /\ p \in Here
  BY <1>1, InLoop DEF Asked
<1>4. CASE cap' = cap
  <2>1. \/ NextInst /\ p # query.end
        \/ pc' = "done" /\ id' = id
    BY <1>4 DEF VisitMatch, Return
  <2>. QED  BY <1>1, <1>2, <1>4, <2>1, InLoop, SameCaptures, NextKeeps, DoneKeeps
<1>5. CASE cap' = [cap EXCEPT ![1] = p]
  <2>1. /\ cap' \in [0..(ncap - 1) -> {NULL} \cup Here]
        /\ \A k \in (0..(ncap - 1)) \ {0, 1} : cap'[k] = cap[k]
    BY <1>3, <1>5, SameCaptures
  <2>2. UndoneIn(prog, ncap, job, cap')
    BY <2>1 DEF Inv, UndoneIn
  <2>3. \/ NextInst /\ p # query.end
        \/ pc' = "done" /\ id' = id
    BY DEF VisitMatch, Return
  <2>. QED  BY <1>1, <1>2, <2>1, <2>2, <2>3, NextKeeps, DoneKeeps
<1>. QED  BY <1>4, <1>5 DEF VisitMatch

LEMMA StepKeeps == ASSUME Asked, Inv, BitStateNext PROVE Inv'
BY RejectKeeps, StartTryKeeps, EndTryKeeps, UndoCaptureKeeps, PopJobKeeps,
   VisitFailKeeps, VisitAltMatchKeeps, VisitByteRangeKeeps, VisitCaptureKeeps,
   VisitEmptyWidthKeeps, VisitNopKeeps, VisitMatchKeeps DEF BitStateNext

(***************************************************************************)
(* All executions.  While another engine is asked, nothing of this one     *)
(* changes.                                                                *)
(***************************************************************************)
Idle == p0 = query.beg /\ visited = {} /\ job = <<>> /\ cap = NoCaptures
EngineInv ==
  /\ \E ask \in Queries : engine = ask.engine /\ query = ask.query
  /\ engine = "BitState" => Inv
  /\ engine # "BitState" => Idle

LEMMA AllAsked == (\E ask \in Queries : query = ask.query) => Asked
<1>. SUFFICES ASSUME NEW ask \in Queries, query = ask.query
              PROVE  Asked
  OBVIOUS
<1>1. WellFormedProg(prog)
  BY WellFormedPrograms DEF prog
<1>2. /\ query.beg \in Nat /\ query.end \in Nat /\ query.beg <= query.end /\ query.nmatch \in Nat
  BY WellFormedQueries
<1>3. NSubmatch(query) \in Nat
  BY <1>2 DEF NSubmatch
<1>4. ncap \in Nat /\ ncap >= 2
  BY <1>3 DEF ncap
<1>. QED  BY <1>1, <1>2, <1>4 DEF Asked

LEMMA IdleIsSafe == ASSUME Asked, Idle, pc = "start", p = NULL PROVE Inv
<1>1. query.beg \in Here
  BY DEF Asked, Here
<1>2. /\ cap \in [0..(ncap - 1) -> {NULL} \cup Here]
      /\ \A k \in 0..(ncap - 1) : cap[k] = NULL
  BY DEF Idle, NoCaptures
<1>3. <<>> \in Seq(Job) /\ Len(<<>>) = 0
  BY EmptySeq
<1>4. IsStack(prog, Here, ncap, job) /\ Apart(prog, job) /\ UndoneIn(prog, ncap, job, cap)
  BY <1>2, <1>3 DEF Idle, IsStack, Apart, UndoneIn
<1>5. Types(pc, id, p, p0, visited, cap, job)
  BY <1>1, <1>2, <1>4 DEF Idle, Types
<1>6. SureIn(visited) = {} /\ Waiting(job) = {}
  BY EmptyStack DEF Idle, SureIn
<1>7. Searches(pc, id, p, visited, job)
  BY <1>4, <1>6 DEF Searches, Once, SureFirst, SkipsFirst, NoSkips
<1>. QED  BY <1>4, <1>5, <1>7 DEF Inv

LEMMA EngineInit == Init => EngineInv
<1>. SUFFICES ASSUME Init PROVE EngineInv
  OBVIOUS
<1>1. \E ask \in Queries : engine = ask.engine /\ query = ask.query
  BY DEF Init
<1>2. Idle /\ pc = "start" /\ p = NULL
  BY DEF Init, BitStateInit, Idle
<1>. QED  BY <1>1, <1>2, AllAsked, IdleIsSafe DEF EngineInv

LEMMA SameQuery == Next => engine' = engine /\ query' = query
<1>1. BitStateNext => engine' = engine /\ query' = query
  BY DEF BitStateNext, Reject, StartTry, EndTry, UndoCapture, PopJob, VisitFail, VisitAltMatch,
         VisitByteRange, VisitCapture, VisitEmptyWidth, VisitNop, VisitMatch
<1>2. NFANext => engine' = engine /\ query' = query
  BY DEF NFANext, NFAReject, NFASetup, StartThread, NoThread, Check, ShortCut, Finish,
         StepSkip, StepByteRange, StepAltMatch, StepMatch, StepEnd, StepFrame, SearchFrame,
         AddPop, AddSeen, AddFail, AddAltMatch, AddNop, AddCapture, AddByteRange, AddMatch,
         AddEmptyWidth, AddReturn, AddFrame
<1>3. OnePassNext => engine' = engine /\ query' = query
  BY DEF OnePassNext, OnePassReject, OnePassStart, OnePassByte, OnePassEnd
<1>4. DFANext => engine' = engine /\ query' = query
  BY DEF DFANext, DFAReject, DFAStart, DFAByte
<1>. QED  BY <1>1, <1>2, <1>3, <1>4 DEF Next, BitStateStep, NFAStep, OnePassStep, DFAStep

LEMMA OthersLeaveIt ==
  /\ BitStateStep => engine = "BitState"
  /\ NFAStep \/ OnePassStep \/ DFAStep =>
       engine # "BitState" /\ UNCHANGED <<p0, visited, job, cap>>
BY DEF BitStateStep, BitStateNext, NFAStep, NFANext, OnePassStep, OnePassNext, OnePassReject,
       OnePassStart, OnePassByte, OnePassEnd, DFAStep, DFANext, DFAReject, DFAStart, DFAByte, bitStateVars

LEMMA EngineNext == EngineInv /\ [Next]_vars => EngineInv'
<1>. SUFFICES ASSUME EngineInv, [Next]_vars PROVE EngineInv'
  OBVIOUS
<1>1. CASE UNCHANGED vars
  <2>1. /\ UNCHANGED <<engine, query>>
        /\ UNCHANGED <<pc, id, p, p0, visited, cap, job>>
    BY <1>1 DEF vars, engineVars, bitStateVars
  <2>2. engine = "BitState" => Inv'
    BY <2>1, Primed DEF EngineInv, Inv
  <2>3. engine # "BitState" => Idle'
    BY <2>1 DEF EngineInv, Idle, NoCaptures, ncap
  <2>. QED  BY <2>1, <2>2, <2>3 DEF EngineInv
<1>2. CASE BitStateStep
  <2>1. Asked /\ engine = "BitState" /\ engine' = engine /\ query' = query
    BY <1>2, AllAsked, SameQuery, OthersLeaveIt DEF EngineInv, Next
  <2>2. Inv'
    BY <1>2, <2>1, StepKeeps DEF EngineInv, BitStateStep
  <2>. QED  BY <2>1, <2>2 DEF EngineInv
<1>3. CASE NFAStep \/ OnePassStep \/ DFAStep
  <2>1. /\ engine # "BitState" /\ engine' = engine /\ query' = query
        /\ UNCHANGED <<p0, visited, job, cap>>
    BY <1>3, SameQuery, OthersLeaveIt DEF Next
  <2>2. Idle'
    BY <2>1 DEF EngineInv, Idle, NoCaptures, ncap
  <2>. QED  BY <2>1, <2>2 DEF EngineInv
<1>. QED  BY <1>1, <1>2, <1>3 DEF Next

LEMMA EngineInvariant == Spec => []EngineInv
BY EngineInit, EngineNext, PTL DEF Spec

\* What other engines leave of this one satisfies its invariant but for pc and p.
LEMMA StackHolds ==
  EngineInv =>
    /\ Asked
    /\ p0 \in Here /\ visited \subseteq {k \in InstIds(prog) : IsHead(prog, k)} \X Here
    /\ cap \in [0..(ncap - 1) -> {NULL} \cup Here]
    /\ IsStack(prog, Here, ncap, job) /\ Apart(prog, job) /\ UndoneIn(prog, ncap, job, cap)
    /\ engine = "BitState" => p \in {NULL} \cup Here
    /\ pc = "loop" => \A x \in Waiting(job) : ~SameVisit(prog, <<id, p>>, x)
<1>. SUFFICES ASSUME EngineInv
              PROVE  /\ Asked
                     /\ p0 \in Here /\ visited \subseteq {k \in InstIds(prog) : IsHead(prog, k)} \X Here
                     /\ cap \in [0..(ncap - 1) -> {NULL} \cup Here]
                     /\ IsStack(prog, Here, ncap, job) /\ Apart(prog, job)
                     /\ UndoneIn(prog, ncap, job, cap)
                     /\ engine = "BitState" => p \in {NULL} \cup Here
                     /\ pc = "loop" => \A x \in Waiting(job) : ~SameVisit(prog, <<id, p>>, x)
  OBVIOUS
<1>1. Asked
  BY AllAsked DEF EngineInv
<1>2. CASE engine = "BitState"
  BY <1>1, <1>2 DEF EngineInv, Inv, Types, Searches, Once
<1>3. CASE engine # "BitState"
  <2>1. Idle
    BY <1>3 DEF EngineInv
  <2>2. <<>> \in Seq(Job) /\ Len(<<>>) = 0
    BY EmptySeq
  <2>3. /\ cap \in [0..(ncap - 1) -> {NULL} \cup Here]
        /\ \A k \in 0..(ncap - 1) : cap[k] = NULL
    BY <2>1 DEF Idle, NoCaptures
  <2>4. IsStack(prog, Here, ncap, job) /\ Apart(prog, job) /\ UndoneIn(prog, ncap, job, cap)
    BY <2>1, <2>2, <2>3 DEF Idle, IsStack, Apart, UndoneIn
  <2>5. query.beg \in Here
    BY <1>1 DEF Asked, Here
  <2>6. Waiting(job) = {}
    BY <2>1, EmptyStack DEF Idle
  <2>. QED  BY <1>1, <1>3, <2>1, <2>3, <2>4, <2>5, <2>6 DEF Idle
<1>. QED  BY <1>2, <1>3

\* NeverTwice: no instruction waits twice at the same position, nor does the one that
\* is tried; the stack of re2/bitstate.cc is so no longer than its bitmap.
THEOREM OneVisit == Spec => []NeverTwice
<1>1. EngineInv => NeverTwice
  <2>. SUFFICES ASSUME EngineInv PROVE NeverTwice
    OBVIOUS
  <2>1. /\ IsStack(prog, Here, ncap, job) /\ Apart(prog, job)
        /\ pc = "loop" => \A x \in Waiting(job) : ~SameVisit(prog, <<id, p>>, x)
        /\ query.beg \in Nat /\ query.end \in Nat /\ query.beg <= query.end
    BY StackHolds DEF Asked
  <2>2. \A j \in 1..Len(job) : Pending(j) = Waits(job[j])
    BY DEF Pending, Waits
  <2>3. \A j, k \in 1..Len(job) : j # k => Pending(j) \cap Pending(k) = {}
    BY SMTT(30), <2>1, <2>2 DEF Apart, SameVisit
  <2>4. \A j \in 1..Len(job) : job[j] \in Job
    BY <2>1, ElementOfSeq DEF IsStack
  <2>5. ASSUME pc = "loop", NEW j \in 1..Len(job), <<id, p>> \in Pending(j)
        PROVE  FALSE
    <3>1. <<id, p>> \in Int \X Int
      BY SMTT(30), <2>2, <2>4, <2>5 DEF Waits, Job
    <3>2. <<id, p>> \in Waiting(job)
      BY <2>2, <2>5, <3>1 DEF Waiting
    <3>. QED  BY <2>1, <2>5, <3>2 DEF SameVisit
  <2>6. ASSUME NEW j \in 1..Len(job)
        PROVE  job[j].p + job[j].rle <= query.end
    <3>1. Fits(prog, Here, ncap, job[j])
      BY <2>1 DEF IsStack
    <3>2. CASE job[j].id < 0
      <4>1. job[j].p \in {NULL} \cup Here /\ job[j].rle = 0
        BY <3>1, <3>2 DEF Fits
      <4>. QED  BY <2>1, <4>1 DEF Here, NULL
    <3>3. CASE ~(job[j].id < 0)
      <4>1. job[j].p + job[j].rle \in Here
        BY <3>1, <3>3 DEF Fits
      <4>. QED  BY <2>1, <4>1 DEF Here
    <3>. QED  BY <3>2, <3>3
  <2>. QED  BY <2>3, <2>5, <2>6 DEF NeverTwice
<1>. QED  BY <1>1, EngineInvariant, PTL

\* CapturesUndone: the jobs on the stack give back every register what it had.
THEOREM CapturesGivenBack == Spec => []CapturesUndone
<1>1. EngineInv => CapturesUndone
  <2>. SUFFICES ASSUME EngineInv, NEW k \in DOMAIN cap \ {0, 1} PROVE Unwound(k) = NULL
    BY DEF CapturesUndone
  <2> DEFINE undos == {j \in 1..Len(job) : IsUndo(j, k)}
  <2>1. UndoneIn(prog, ncap, job, cap) /\ k \in (0..(ncap - 1)) \ {0, 1} /\ Len(job) \in Nat
    BY StackHolds, LenProperties DEF IsStack
  <2>2. \A j : IsUndo(j, k) <=> Undoes(prog, job[j], k)
    BY DEF IsUndo, Undoes
  <2>3. CASE undos = {}
    <3>1. Unwound(k) = cap[k]
      BY <2>3 DEF Unwound
    <3>. QED  BY <2>1, <2>2, <2>3, <3>1 DEF UndoneIn
  <2>4. CASE undos # {}
    <3> DEFINE first == CHOOSE j \in undos : \A other \in undos : j <= other
    <3>1. Unwound(k) = job[first].p
      BY <2>4 DEF Unwound
    <3>2. undos \in SUBSET Nat
      BY <2>1
    <3>3. first \in undos /\ \A other \in undos : first <= other
      <4>1. \E j \in undos : \A other \in undos : j <= other
        <5>. HIDE DEF undos
        <5>. QED  BY <2>4, <3>2, Least
      <4>. HIDE DEF undos
      <4>. QED  BY <4>1
    <3>. HIDE DEF first
    <3>4. \A m \in 1..(first - 1) : ~Undoes(prog, job[m], k)
      <4>1. \A m \in 1..(first - 1) : m \in 1..Len(job) /\ ~(first <= m)
        BY <2>1, <3>3
      <4>. QED  BY <2>2, <3>3, <4>1
    <3>. QED  BY <2>1, <2>2, <3>1, <3>3, <3>4 DEF UndoneIn
  <2>. QED  BY <2>3, <2>4
<1>. QED  BY <1>1, EngineInvariant, PTL

\* BitmapFits: of RoomForAll, the part that is about this engine.  Nothing is visited
\* for which the bitmap has no bit.
THEOREM BitmapIsEnough == Spec => []BitmapFits
<1>1. EngineInv => BitmapFits
  BY StackHolds DEF BitmapFits, Here
<1>. QED  BY <1>1, EngineInvariant, PTL
=============================================================================
