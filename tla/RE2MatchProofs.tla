--------------------------- MODULE RE2MatchProofs ---------------------------
(***************************************************************************)
(* Proofs about Match and the calls around it: if objects are sound, every *)
(* way through prefix, DFAs and engines ends in the match that is meant,   *)
(* and the calls make of it what they are to.                              *)
(***************************************************************************)
EXTENDS RE2Match, WellFoundedInduction, SequenceTheorems, TLAPS

(***************************************************************************)
(* The least and the greatest.                                             *)
(***************************************************************************)
LEMMA Least ==
  ASSUME NEW S \in SUBSET Nat, S # {}
  PROVE  Min(S) \in S /\ \A m \in S : Min(S) <= m
<1> DEFINE R == {ss \in Nat \X Nat : ss[1] < ss[2]}
<1>1. IsWellFoundedOn(R, Nat)
  BY NatLessThanWellFounded DEF OpToRel
<1>2. \E least \in S : \A m \in S : <<m, least>> \notin R
  <2> HIDE DEF R
  <2>. QED  BY <1>1, WFMin
<1>3. PICK least \in S : \A m \in S : <<m, least>> \notin R
  BY <1>2
<1>4. \A m \in S : least <= m
  <2>. SUFFICES ASSUME NEW m \in S, m < least
                PROVE  FALSE
    OBVIOUS
  <2>1. <<m, least>> \in Nat \X Nat /\ <<m, least>>[1] = m /\ <<m, least>>[2] = least
    OBVIOUS
  <2>2. <<m, least>> \in R
    BY <2>1
  <2>. QED  BY <1>3, <2>2
<1>. QED  BY <1>4 DEF Min

LEMMA LeastIs ==
  ASSUME NEW S \in SUBSET Nat, NEW n \in S, \A m \in S : n <= m
  PROVE  Min(S) = n
<1>1. Min(S) \in S /\ Min(S) <= n /\ n <= Min(S)
  BY Least
<1>2. Min(S) \in Nat /\ n \in Nat
  BY <1>1
<1>. QED  BY <1>1, <1>2

LEMMA Greatest ==
  ASSUME NEW top \in Nat, NEW S \in SUBSET (0..top), S # {}
  PROVE  Max(S) \in S /\ \A m \in S : m <= Max(S)
<1> DEFINE Below == {top - m : m \in S}
<1>1. Below \in SUBSET Nat /\ Below # {}
  <2>1. \A m \in S : m \in Nat /\ top - m \in Nat
    OBVIOUS
  <2>. QED  BY <2>1
<1>2. Min(Below) \in Below /\ \A d \in Below : Min(Below) <= d
  <2>. HIDE DEF Below
  <2>. QED  BY <1>1, Least
<1>3. PICK g \in S : Min(Below) = top - g
  BY <1>2
<1>4. \A m \in S : m <= g
  <2>. SUFFICES ASSUME NEW m \in S
                PROVE  m <= g
    OBVIOUS
  <2>1. top - m \in Below
    OBVIOUS
  <2>2. top - g <= top - m
    BY <1>2, <1>3, <2>1
  <2>. QED  BY <2>2
<1>. QED  BY <1>4 DEF Max

(***************************************************************************)
(* The best of several ways.                                               *)
(***************************************************************************)
\* Ways that end at top or before.
Ending(ways, top) == Len(ways) \in Nat /\ DOMAIN ways = 1..Len(ways) /\ \A k \in DOMAIN ways : ways[k].p \in 0..top

\* The best way is one of those to choose from, and the best of those that end
\* where it ends.
LEMMA BestIs ==
  ASSUME NEW top \in Nat, NEW ways, Ending(ways, top), NEW longest \in BOOLEAN,
         NEW fits \in SUBSET DOMAIN ways, fits # {}
  PROVE  LET e == BestOf(ways, fits, longest).p IN
         /\ \E k \in fits : BestOf(ways, fits, longest) = ways[k]
         /\ BestOf(ways, fits, longest) = ways[Min({k \in fits : ways[k].p = e})]
<1> DEFINE ends == {ways[k].p : k \in fits}
           end == IF longest THEN Max(ends) ELSE ways[Min(fits)].p
           those == {k \in fits : ways[k].p = end}
<1>1. fits \subseteq Nat /\ ends \in SUBSET (0..top) /\ ends # {}
  BY DEF Ending
<1>2. Min(fits) \in fits
  BY <1>1, Least
<1>3. end \in ends
  <2>1. CASE longest
    <3>. HIDE DEF ends
    <3>. QED  BY <1>1, <2>1, Greatest
  <2>2. CASE ~longest
    BY <1>2, <2>2
  <2>. QED  BY <2>1, <2>2
<1>4. those \in SUBSET Nat /\ those # {}
  BY <1>1, <1>3
<1>5. Min(those) \in those
  <2>. HIDE DEF those
  <2>. QED  BY <1>4, Least
<1>6. BestOf(ways, fits, longest) = ways[Min(those)]
  BY DEF BestOf
<1>7. Min(those) \in fits /\ ways[Min(those)].p = end
  BY <1>5
<1>. HIDE DEF end
<1>. QED  BY <1>6, <1>7

\* Of ways with one end it is the first.
LEMMA BestOfOneEnd ==
  ASSUME NEW top \in Nat, NEW ways, Ending(ways, top), NEW longest \in BOOLEAN,
         NEW e, NEW fits \in SUBSET DOMAIN ways, fits # {}, \A k \in fits : ways[k].p = e
  PROVE  BestOf(ways, fits, longest) = ways[Min(fits)]
<1>1. PICK k \in fits : BestOf(ways, fits, longest) = ways[k]
  BY BestIs
<1>2. BestOf(ways, fits, longest).p = e
  BY <1>1
<1>3. BestOf(ways, fits, longest) = ways[Min({j \in fits : ways[j].p = e})]
  BY <1>2, BestIs
<1>4. {j \in fits : ways[j].p = e} = fits
  OBVIOUS
<1>. QED  BY <1>3, <1>4

(***************************************************************************)
(* What is known of the ways of an object, and which of them is wanted.    *)
(***************************************************************************)
ArgsFine(a) == a.startpos \in Nat /\ a.endpos \in Nat /\ a.anchor \in Anchors /\ a.nsubmatch \in Nat

LEMMA WaysAre ==
  ASSUME NEW o \in Objects, NEW prog \in o.progs, NEW w \in o.texts, NEW p \in 0..Len(w)
  PROVE  /\ Ending(Meaning(o, w, p), Len(w))
         /\ \A k \in DOMAIN Meaning(o, w, p) : LET way == Meaning(o, w, p)[k] IN
              /\ way.p \in p..Len(w) /\ way.cap[0] = p
              /\ \A i \in 1..o.caps : SpanOf(way, i, o.caps) \in Spans(w) \cup {None}
              /\ prog.anchorStart \/ o.prefix # <<>> => p = 0
              /\ prog.anchorEnd => way.p = Len(w)
              /\ way.p >= Len(o.prefix) /\ Prefixed(o, w)
<1> DEFINE ways == Meaning(o, w, p)
           Good(way) ==
              /\ way.p \in p..Len(w) /\ way.cap[0] = p
              /\ \A i \in 1..o.caps : SpanOf(way, i, o.caps) \in Spans(w) \cup {None}
              /\ prog.anchorStart \/ o.prefix # <<>> => p = 0
              /\ prog.anchorEnd => way.p = Len(w)
              /\ way.p >= Len(o.prefix) /\ Prefixed(o, w)
<1>1. ways \in Seq(Range(ways)) /\ \A way \in Range(ways) : Good(way)
  BY ObjectsFine DEF WaysFine
<1>2. w \in Seq(0..255)
  BY ObjectsFine DEF ShapeFine
<1>3. Len(w) \in Nat
  BY <1>2
<1>. HIDE DEF ways
<1>4. Len(ways) \in Nat /\ DOMAIN ways = 1..Len(ways)
  BY <1>1
<1>5. \A k \in DOMAIN ways : Good(ways[k])
  <2>. HIDE DEF Good
  <2>. QED  BY <1>1 DEF Range
<1>6. \A k \in DOMAIN ways : ways[k].p \in 0..Len(w)
  BY <1>3, <1>5
<1>. QED  BY <1>4, <1>5, <1>6 DEF ways, Ending

LEMMA ShapeIs ==
  ASSUME NEW o \in Objects, NEW w \in o.texts
  PROVE  /\ w \in Seq(0..255) /\ Len(w) \in Nat /\ Len(o.prefix) \in Nat
         /\ o.longest \in BOOLEAN /\ o.latin1 \in BOOLEAN
         /\ o.progs # {} => o.caps \in Nat
         /\ o.progs = {} => o.caps = -1
  BY ObjectsFine DEF ShapeFine

Starts(o, w, a) ==
  {p \in a.startpos..a.endpos : (a.anchor # "unanchored" => p = a.startpos) /\ FitsAt(o, w, p, a) # {}}

LEMMA WantedIs ==
  ASSUME NEW o, NEW w, NEW a, o.progs # {}, ~(a.endpos > Len(w))
  PROVE  Wanted(o, w, a) = IF Starts(o, w, a) = {} THEN {} ELSE {BestAt(o, w, Min(Starts(o, w, a)), a)}
  BY DEF Wanted, Starts

LEMMA FitsAre ==
  ASSUME NEW o \in Objects, NEW prog \in o.progs, NEW w \in o.texts, NEW p \in 0..Len(w), NEW a
  PROVE  /\ FitsAt(o, w, p, a) \subseteq DOMAIN Meaning(o, w, p)
         /\ \A k \in FitsAt(o, w, p, a) :
              IF a.anchor = "both" THEN Meaning(o, w, p)[k].p = a.endpos ELSE Meaning(o, w, p)[k].p <= a.endpos
  BY DEF FitsAt, Fitting

\* The best way from a place.
BestWay(o, prog, w, p, a, way) ==
  /\ \E k \in FitsAt(o, w, p, a) : way = Meaning(o, w, p)[k]
  /\ way = Meaning(o, w, p)[Min({k \in FitsAt(o, w, p, a) : Meaning(o, w, p)[k].p = way.p})]
  /\ way.cap[0] = p /\ way.p \in p..Len(w) /\ way.p <= a.endpos
  /\ a.anchor = "both" => way.p = a.endpos
  /\ \A i \in 1..o.caps : SpanOf(way, i, o.caps) \in Spans(w) \cup {None}
  /\ prog.anchorStart \/ o.prefix # <<>> => p = 0
  /\ prog.anchorEnd => way.p = Len(w)
  /\ way.p >= Len(o.prefix) /\ Prefixed(o, w)

LEMMA BestAtIs ==
  ASSUME NEW o \in Objects, NEW prog \in o.progs, NEW w \in o.texts, NEW p \in 0..Len(w),
         NEW a, ArgsFine(a), FitsAt(o, w, p, a) # {}
  PROVE  BestWay(o, prog, w, p, a, BestAt(o, w, p, a))
<1> DEFINE ways == Meaning(o, w, p)
           fits == FitsAt(o, w, p, a)
           way == BestAt(o, w, p, a)
<1>1. Ending(ways, Len(w)) /\ Len(w) \in Nat /\ o.longest \in BOOLEAN /\ fits \subseteq DOMAIN ways
  BY WaysAre, ShapeIs, FitsAre
<1>2. /\ \E k \in fits : way = ways[k]
      /\ way = ways[Min({k \in fits : ways[k].p = way.p})]
  <2>1. way = BestOf(ways, fits, o.longest)
    BY DEF BestAt
  <2>. HIDE DEF ways, fits, way
  <2>2. fits # {}
    BY DEF fits
  <2>. QED  BY <1>1, <2>1, <2>2, BestIs
<1>3. PICK k \in fits : way = ways[k]
  BY <1>2
<1>4. IF a.anchor = "both" THEN way.p = a.endpos ELSE way.p <= a.endpos
  BY <1>3, FitsAre
<1>5. way.p <= a.endpos /\ (a.anchor = "both" => way.p = a.endpos)
  BY <1>4 DEF ArgsFine
<1>6. k \in DOMAIN ways
  BY <1>1, <1>3
<1>. QED  BY <1>2, <1>3, <1>5, <1>6, WaysAre DEF BestWay

\* The leftmost place to begin at.
LEMMA StartsAre ==
  ASSUME NEW o \in Objects, NEW prog \in o.progs, NEW w \in o.texts, NEW a, ArgsFine(a), a.endpos <= Len(w),
         Starts(o, w, a) # {}
  PROVE  /\ Min(Starts(o, w, a)) \in Starts(o, w, a) /\ Min(Starts(o, w, a)) \in 0..Len(w)
         /\ \A p \in Starts(o, w, a) : Min(Starts(o, w, a)) <= p
<1>1. Len(w) \in Nat
  BY ShapeIs
<1>2. Starts(o, w, a) \in SUBSET (0..Len(w)) /\ Starts(o, w, a) \in SUBSET Nat
  BY <1>1 DEF Starts, ArgsFine
<1>3. Min(Starts(o, w, a)) \in Starts(o, w, a) /\ \A p \in Starts(o, w, a) : Min(Starts(o, w, a)) <= p
  BY <1>2, Least
<1>. QED  BY <1>2, <1>3

(***************************************************************************)
(* A search that Match does not turn down: what it turns down has no       *)
(* match.                                                                  *)
(***************************************************************************)
Live(o, prog, w, a) ==
  /\ a.startpos <= a.endpos /\ a.endpos <= Len(w)
  /\ prog.anchorStart => a.startpos = 0
  /\ prog.anchorEnd => a.endpos = Len(w)
  /\ o.prefix # <<>> => a.startpos = 0 /\ Len(o.prefix) <= a.endpos /\ Prefixed(o, w)

LEMMA Rejected ==
  ASSUME NEW o \in Objects, NEW prog \in o.progs, NEW w \in o.texts, NEW a, ArgsFine(a), ~Live(o, prog, w, a)
  PROVE  Wanted(o, w, a) = {}
<1>. SUFFICES ASSUME a.endpos <= Len(w), NEW p \in Starts(o, w, a)
              PROVE  FALSE
  <2>1. Len(w) \in Nat /\ a.endpos \in Nat
    BY ShapeIs DEF ArgsFine
  <2>2. CASE a.endpos > Len(w)
    BY <2>2 DEF Wanted
  <2>3. CASE a.endpos <= Len(w)
    BY <2>1, <2>3, WantedIs
  <2>. QED  BY <2>1, <2>2, <2>3
<1>1. Len(w) \in Nat
  BY ShapeIs
<1>2. p \in 0..Len(w) /\ p \in a.startpos..a.endpos /\ FitsAt(o, w, p, a) # {}
  BY <1>1 DEF Starts, ArgsFine
<1> DEFINE way == BestAt(o, w, p, a)
<1>3. /\ way.p \in p..Len(w) /\ way.p <= a.endpos
      /\ prog.anchorStart \/ o.prefix # <<>> => p = 0
      /\ prog.anchorEnd => way.p = Len(w)
      /\ way.p >= Len(o.prefix) /\ Prefixed(o, w)
  <2>1. BestWay(o, prog, w, p, a, way)
    BY <1>2, BestAtIs
  <2>. QED  BY <2>1 DEF BestWay
<1>4. Len(o.prefix) \in Nat
  BY ShapeIs
<1>. HIDE DEF way
<1>5. Live(o, prog, w, a)
  BY <1>1, <1>2, <1>3, <1>4 DEF Live, ArgsFine
<1>. QED  BY <1>5

(***************************************************************************)
(* What the searches find.                                                 *)
(***************************************************************************)
ExplicitOf(prog, a) ==
  CASE prog.anchorStart /\ prog.anchorEnd -> "both"
    [] prog.anchorStart /\ ~prog.anchorEnd /\ a.anchor # "both" -> "start"
    [] OTHER -> a.anchor
AnchoringOf(o, prog, a) ==
  IF o.prefix # <<>> /\ ExplicitOf(prog, a) # "both" THEN "start" ELSE ExplicitOf(prog, a)
KindOf(o, how) == IF how = "both" THEN "full" ELSE IF o.longest THEN "longest" ELSE "first"

\* Forward, through all that is asked.
LEMMA ForwardFinds ==
  ASSUME NEW o \in Objects, NEW prog \in o.progs, NEW w \in o.texts, NEW a, ArgsFine(a), Live(o, prog, w, a),
         NEW nmatch \in 0..(1 + o.caps)
  PROVE  LET how == AnchoringOf(o, prog, a)
             n == Len(o.prefix)
             p == Min(Starts(o, w, a))
         IN AnswerTo(Ask(prog, w, <<a.startpos + n, a.endpos>>, KindOf(o, how), how # "unanchored", nmatch))
              = IF Starts(o, w, a) = {} THEN Missed ELSE Hit(p + n, BestAt(o, w, p, a), nmatch, o.caps)
<1> DEFINE how == AnchoringOf(o, prog, a)
           n == Len(o.prefix)
           kind == KindOf(o, how)
           anchd == how # "unanchored"
           hits == Starts(o, w, a)
           begin == a.startpos + n
           Fits(s) == Fitting(Meaning(o, w, s - n), a.endpos, kind = "full")
           starts == {s \in begin..a.endpos : (anchd \/ kind = "full" => s = begin) /\ Fits(s) # {}}
           s0 == Min(starts)
<1>1. /\ Len(w) \in Nat /\ n \in Nat /\ o.longest \in BOOLEAN
      /\ a.startpos \in Nat /\ a.endpos \in Nat /\ a.anchor \in Anchors
      /\ begin <= a.endpos /\ a.endpos <= Len(w)
      /\ o.prefix # <<>> => begin = n /\ anchd /\ Prefixed(o, w)
      /\ o.prefix = <<>> => n = 0
  <2>1. Len(w) \in Nat /\ n \in Nat /\ o.longest \in BOOLEAN
    BY ShapeIs
  <2>2. o.prefix = <<>> => n = 0
    OBVIOUS
  <2>3. o.prefix # <<>> => anchd
    BY DEF AnchoringOf
  <2>. QED  BY <2>1, <2>2, <2>3 DEF ArgsFine, Live
<1>2. AnswerTo(Ask(prog, w, <<begin, a.endpos>>, kind, anchd, nmatch))
        = IF starts = {} THEN Missed
          ELSE Hit(s0, BestOf(Meaning(o, w, s0 - n), Fits(s0), o.longest), nmatch, o.caps)
  <2> DEFINE span0 == <<begin, a.endpos>>
  <2>1. span0 \in Spans(w) /\ span0[1] = begin /\ span0[2] = a.endpos
    BY <1>1 DEF Spans
  <2>2. kind \in {IF o.longest THEN "longest" ELSE "first", "full"} /\ anchd \in BOOLEAN
    BY DEF KindOf
  <2>3. ForwardFine(o)
    BY ObjectsFine
  <2>. HIDE DEF span0, kind, anchd
  <2>4. LET Fits2(s) == Fitting(Meaning(o, w, s - n), span0[2], kind = "full")
            starts2 == {s \in span0[1]..span0[2] : (anchd \/ kind = "full" => s = span0[1]) /\ Fits2(s) # {}}
            s2 == Min(starts2)
        IN AnswerTo(Ask(prog, w, span0, kind, anchd, nmatch))
            = IF starts2 = {} THEN Missed
              ELSE Hit(s2, BestOf(Meaning(o, w, s2 - n), Fits2(s2), o.longest), nmatch, o.caps)
    <3>1. o.prefix # <<>> => span0[1] = n /\ anchd /\ Prefixed(o, w)
      BY <1>1, <2>1 DEF anchd
    <3>. HIDE DEF n
    <3>2. FindsForward(o, prog, w, span0, kind, anchd, nmatch)
      BY <2>1, <2>2, <2>3 DEF ForwardFine
    <3>. QED  BY <3>1, <3>2 DEF FindsForward, n
  <2>. QED  BY <2>1, <2>4 DEF span0
<1>3. \A p \in 0..Len(w) : (anchd \/ kind = "full" \/ a.anchor # "unanchored" => p = a.startpos) /\ p \in a.startpos..a.endpos
        => Fits(p + n) = FitsAt(o, w, p, a)
  <2>. SUFFICES ASSUME NEW p \in 0..Len(w), p \in a.startpos..a.endpos
                PROVE  Fits(p + n) = FitsAt(o, w, p, a)
    OBVIOUS
  <2>1. (p + n) - n = p
    BY <1>1
  <2>2. CASE (kind = "full") = (a.anchor = "both")
    BY <2>1, <2>2 DEF FitsAt
  <2>3. CASE (kind = "full") # (a.anchor = "both")
    <3>1. kind = "full" /\ prog.anchorEnd /\ a.anchor # "both"
      BY <2>3, <1>1 DEF AnchoringOf, ExplicitOf, KindOf, Anchors
    <3>2. a.endpos = Len(w)
      BY <3>1 DEF Live
    <3>3. \A k \in DOMAIN Meaning(o, w, p) : Meaning(o, w, p)[k].p = Len(w)
      BY <3>1, WaysAre
    <3>. QED  BY <1>1, <2>1, <3>1, <3>2, <3>3 DEF FitsAt, Fitting
  <2>. QED  BY <2>2, <2>3
<1>4. \A p \in a.startpos..a.endpos : FitsAt(o, w, p, a) # {} =>
         (anchd \/ kind = "full" => p = a.startpos) = (a.anchor # "unanchored" => p = a.startpos)
  <2>. SUFFICES ASSUME NEW p \in a.startpos..a.endpos, FitsAt(o, w, p, a) # {}
                PROVE  (anchd \/ kind = "full" => p = a.startpos) = (a.anchor # "unanchored" => p = a.startpos)
    OBVIOUS
  <2>1. p \in 0..Len(w)
    BY <1>1
  <2>2. prog.anchorStart \/ o.prefix # <<>> => p = 0
    <3>1. BestWay(o, prog, w, p, a, BestAt(o, w, p, a))
      BY <2>1, BestAtIs
    <3>. QED  BY <3>1 DEF BestWay
  <2>3. prog.anchorStart \/ o.prefix # <<>> => p = a.startpos
    BY <2>2 DEF Live
  <2>4. kind = "full" => anchd
    BY DEF KindOf
  <2>5. a.anchor # "unanchored" => anchd
    BY <1>1 DEF AnchoringOf, ExplicitOf, Anchors
  <2>6. anchd => a.anchor # "unanchored" \/ prog.anchorStart \/ o.prefix # <<>>
    BY DEF AnchoringOf, ExplicitOf
  <2>. HIDE DEF kind, anchd
  <2>. QED  BY <2>3, <2>4, <2>5, <2>6
<1>. HIDE DEF kind, anchd, how
<1>5. \A p \in a.startpos..a.endpos : p \in hits <=> p + n \in starts
  <2>. SUFFICES ASSUME NEW p \in a.startpos..a.endpos
                PROVE  p \in hits <=> p + n \in starts
    OBVIOUS
  <2>1. p \in 0..Len(w)
    BY <1>1
  <2>2. p + n \in begin..(a.endpos + n) /\ (p + n = begin <=> p = a.startpos)
    BY <1>1
  <2>. HIDE DEF Fits
  <2>3. ASSUME p \in hits
        PROVE  p + n \in starts
    <3>1. FitsAt(o, w, p, a) # {} /\ (a.anchor # "unanchored" => p = a.startpos)
      BY <2>3 DEF Starts
    <3>2. anchd \/ kind = "full" => p = a.startpos
      BY <1>4, <3>1
    <3>3. Fits(p + n) # {}
      BY <1>3, <2>1, <3>1, <3>2
    <3>4. p + n \in begin..a.endpos
      <4>1. CASE o.prefix = <<>>
        BY <1>1, <2>2, <4>1
      <4>2. CASE o.prefix # <<>>
        BY <1>1, <3>2, <4>2
      <4>. QED  BY <4>1, <4>2
    <3>. QED  BY <2>2, <3>2, <3>3, <3>4
  <2>4. ASSUME p + n \in starts
        PROVE  p \in hits
    <3>1. Fits(p + n) # {} /\ (anchd \/ kind = "full" => p = a.startpos)
      BY <2>2, <2>4
    <3>2. CASE a.anchor # "unanchored" => p = a.startpos
      <4>1. FitsAt(o, w, p, a) # {}
        BY <1>3, <2>1, <3>1, <3>2
      <4>. QED  BY <3>2, <4>1 DEF Starts
    <3>3. CASE ~(a.anchor # "unanchored" => p = a.startpos)
      <4>1. ~anchd /\ a.anchor # "unanchored"
        BY <3>1, <3>3
      <4>. QED  BY <1>1, <4>1 DEF how, anchd, AnchoringOf, ExplicitOf, Anchors
    <3>. QED  BY <3>2, <3>3
  <2>. QED  BY <2>3, <2>4
<1>6. \A s \in starts : s - n \in a.startpos..a.endpos /\ s - n \in hits
  <2>. SUFFICES ASSUME NEW s \in starts
                PROVE  s - n \in a.startpos..a.endpos /\ s - n \in hits
    OBVIOUS
  <2>1. s \in begin..a.endpos
    OBVIOUS
  <2>2. s - n \in a.startpos..a.endpos /\ s - n + n = s
    <3>. HIDE DEF n
    <3>1. s \in (a.startpos + n)..a.endpos /\ n \in Nat /\ a.startpos \in Nat /\ a.endpos \in Nat
      BY <1>1, <2>1
    <3>. QED  BY <3>1
  <2>. HIDE DEF starts
  <2>. QED  BY <1>5, <2>2
<1>7. hits \in SUBSET (a.startpos..a.endpos) /\ starts \in SUBSET Nat
  BY <1>1 DEF Starts
<1>. HIDE DEF starts, hits
<1>8. CASE starts = {}
  <2>1. hits = {}
    BY <1>5, <1>7, <1>8
  <2>. QED  BY <1>2, <1>8, <2>1 DEF hits, how, kind, anchd
<1>9. CASE starts # {}
  <2>1. hits # {}
    BY <1>6, <1>9
  <2> DEFINE p == Min(hits)
  <2>2. p \in hits /\ p \in 0..Len(w) /\ \A q \in hits : p <= q
    BY <1>1, <2>1, StartsAre DEF hits
  <2>3. p + n \in starts
    BY <1>5, <1>7, <2>2
  <2>4. \A s \in starts : p + n <= s
    <3>. SUFFICES ASSUME NEW s \in starts
                  PROVE  p + n <= s
      OBVIOUS
    <3>1. p <= s - n /\ s \in Nat
      BY <1>6, <1>7, <2>2
    <3>. QED  BY <1>1, <2>2, <3>1
  <2>. HIDE DEF p
  <2>5. s0 = p + n
    BY <1>7, <2>3, <2>4, LeastIs
  <2>6. s0 - n = p
    BY <1>1, <2>2, <2>5
  <2>7. Fits(s0) = FitsAt(o, w, p, a)
    <3>1. FitsAt(o, w, p, a) # {} /\ (a.anchor # "unanchored" => p = a.startpos)
      BY <2>2 DEF hits, Starts
    <3>2. anchd \/ kind = "full" => p = a.startpos
      BY <1>4, <1>7, <2>2, <3>1
    <3>. HIDE DEF Fits
    <3>. QED  BY <1>3, <1>7, <2>2, <2>5, <3>1, <3>2
  <2>. QED  BY <1>2, <1>9, <2>1, <2>5, <2>6, <2>7 DEF BestAt, hits, how, kind, anchd, p
<1>. QED  BY <1>8, <1>9

\* Forward, where the match is known to be.
LEMMA FullFinds ==
  ASSUME NEW o \in Objects, NEW prog \in o.progs, NEW w \in o.texts, NEW a, ArgsFine(a), Live(o, prog, w, a),
         Starts(o, w, a) # {}, NEW nmatch \in 0..(1 + o.caps)
  PROVE  LET n == Len(o.prefix)
             p == Min(Starts(o, w, a))
             way == BestAt(o, w, p, a)
         IN /\ BestWay(o, prog, w, p, a, way) /\ p \in a.startpos..a.endpos
            /\ AnswerTo(Ask(prog, w, <<p + n, way.p>>, "full", TRUE, nmatch)) = Hit(p + n, way, nmatch, o.caps)
<1> DEFINE n == Len(o.prefix)
           p == Min(Starts(o, w, a))
           way == BestAt(o, w, p, a)
           ways == Meaning(o, w, p)
           fits == Fitting(ways, way.p, TRUE)
           there == <<p + n, way.p>>
<1>1. /\ Len(w) \in Nat /\ n \in Nat /\ o.longest \in BOOLEAN /\ a.endpos <= Len(w)
      /\ a.startpos \in Nat /\ a.endpos \in Nat /\ a.anchor \in Anchors
      /\ o.prefix = <<>> => n = 0
  <2>1. Len(w) \in Nat /\ n \in Nat /\ o.longest \in BOOLEAN
    BY ShapeIs
  <2>. QED  BY <2>1 DEF ArgsFine, Live
<1>2. p \in Starts(o, w, a) /\ p \in 0..Len(w)
  BY <1>1, StartsAre
<1>3. p \in a.startpos..a.endpos /\ FitsAt(o, w, p, a) # {}
  BY <1>2 DEF Starts
<1>. HIDE DEF p
<1>4. BestWay(o, prog, w, p, a, way)
  BY <1>2, <1>3, BestAtIs
<1>. HIDE DEF way
<1>5. /\ way.p \in p..Len(w) /\ way.p <= a.endpos /\ (a.anchor = "both" => way.p = a.endpos)
      /\ (o.prefix # <<>> => p = 0) /\ way.p >= n /\ Prefixed(o, w)
      /\ \E k \in FitsAt(o, w, p, a) : way = ways[k]
      /\ way = ways[Min({k \in FitsAt(o, w, p, a) : ways[k].p = way.p})]
  BY <1>4 DEF BestWay
<1>6. Ending(ways, Len(w))
  BY <1>2, WaysAre
<1>7. fits = {k \in FitsAt(o, w, p, a) : ways[k].p = way.p}
  BY <1>5 DEF FitsAt, Fitting
<1>8. fits # {} /\ fits \subseteq DOMAIN ways /\ \A k \in fits : ways[k].p = way.p
  <2>1. fits # {}
    BY <1>5, <1>7
  <2>. QED  BY <2>1 DEF Fitting
<1>. HIDE DEF fits, ways
<1>9. BestOf(ways, fits, o.longest) = way
  <2>1. PICK e : e = way.p
    OBVIOUS
  <2>2. \A k \in fits : ways[k].p = e
    BY <1>8, <2>1
  <2>3. BestOf(ways, fits, o.longest) = ways[Min(fits)]
    <3>1. fits \in SUBSET DOMAIN ways /\ fits # {}
      BY <1>8
    <3>. QED  BY <1>1, <1>6, <2>2, <3>1, BestOfOneEnd
  <2>. QED  BY <1>5, <1>7, <2>3
<1>10. there \in Spans(w) /\ there[1] = p + n /\ there[2] = way.p
  <2>1. p + n <= way.p /\ p + n \in 0..Len(w) /\ way.p \in 0..Len(w)
    <3>1. CASE o.prefix = <<>>
      BY <1>1, <1>2, <1>5, <3>1
    <3>2. CASE o.prefix # <<>>
      BY <1>1, <1>2, <1>5, <3>2
    <3>. QED  BY <3>1, <3>2
  <2>. QED  BY <2>1 DEF Spans
<1>11. FindsForward(o, prog, w, there, "full", TRUE, nmatch)
  <2>1. ForwardFine(o)
    BY ObjectsFine
  <2>. HIDE DEF there
  <2>. QED  BY <1>10, <2>1 DEF ForwardFine
<1> DEFINE Fits(s) == Fitting(Meaning(o, w, s - n), way.p, TRUE)
           starts == {s \in (p + n)..way.p : s = p + n /\ Fits(s) # {}}
           s0 == Min(starts)
<1>12. AnswerTo(Ask(prog, w, there, "full", TRUE, nmatch))
         = IF starts = {} THEN Missed
           ELSE Hit(s0, BestOf(Meaning(o, w, s0 - n), Fits(s0), o.longest), nmatch, o.caps)
  <2>1. o.prefix # <<>> => there[1] = n /\ Prefixed(o, w)
    BY <1>1, <1>5, <1>10
  <2>. QED  BY <1>10, <1>11, <2>1 DEF FindsForward
<1>13. (p + n) - n = p /\ p + n \in Nat
  BY <1>1, <1>2
<1>14. Fits(p + n) = fits
  <2>1. \A q : q = p => Fitting(Meaning(o, w, q), way.p, TRUE) = fits
    BY Zenon DEF fits, ways
  <2>. QED  BY <1>13, <2>1
<1>15. p + n \in (p + n)..way.p
  BY <1>1, <1>2, <1>5, <1>10 DEF Spans
<1>. HIDE DEF Fits
<1>16. p + n \in starts /\ starts \subseteq {p + n}
  BY <1>8, <1>14, <1>15
<1>17. s0 = p + n
  <2>1. starts \in SUBSET Nat /\ \A s \in starts : p + n <= s
    BY <1>13, <1>16
  <2>. HIDE DEF starts
  <2>. QED  BY <1>16, <2>1, LeastIs
<1>. HIDE DEF starts, s0
<1>18. AnswerTo(Ask(prog, w, there, "full", TRUE, nmatch)) = Hit(p + n, way, nmatch, o.caps)
  <2>1. starts # {} /\ s0 - n = p /\ Fits(s0) = fits
    <3>1. starts # {}
      BY <1>16
    <3>2. s0 - n = p
      BY <1>13, <1>17
    <3>3. Fits(s0) = fits
      BY <1>14, <1>17
    <3>. QED  BY <3>1, <3>2, <3>3
  <2>2. \A q : q = p => BestOf(Meaning(o, w, q), fits, o.longest) = way
    BY <1>9, Zenon DEF ways
  <2>3. BestOf(Meaning(o, w, s0 - n), Fits(s0), o.longest) = way
    BY <2>1, <2>2
  <2>. QED  BY <1>12, <1>17, <2>1, <2>3
<1>. QED  BY <1>3, <1>4, <1>18 DEF p, way

Backwards(w, end, begin) == [matched |-> TRUE, submatch |-> [i \in 0..0 |-> <<Len(w) - end, Len(w) - begin>>]]

\* Backward from where the best match ends, to where it begins.
LEMMA BackwardFinds ==
  ASSUME NEW o \in Objects, NEW prog \in o.progs, NEW w \in o.texts, NEW a, ArgsFine(a), Live(o, prog, w, a),
         o.prefix = <<>>, a.anchor = "unanchored", Starts(o, w, a) # {}, NEW back \in o.rprogs
  PROVE  LET p == Min(Starts(o, w, a))
             way == BestAt(o, w, p, a)
         IN AskBackward(back, w, <<a.startpos, way.p>>) = Backwards(w, way.p, p)
<1> DEFINE p == Min(Starts(o, w, a))
           way == BestAt(o, w, p, a)
           there == <<a.startpos, way.p>>
           starts == {s \in a.startpos..way.p : Fitting(Meaning(o, w, s), way.p, TRUE) # {}}
<1>1. Len(w) \in Nat /\ a.startpos \in Nat /\ a.endpos \in Nat /\ a.endpos <= Len(w)
  <2>1. Len(w) \in Nat
    BY ShapeIs
  <2>. QED  BY <2>1 DEF ArgsFine, Live
<1>2. p \in Starts(o, w, a) /\ p \in 0..Len(w) /\ \A q \in Starts(o, w, a) : p <= q
  BY <1>1, StartsAre
<1>3. p \in a.startpos..a.endpos /\ FitsAt(o, w, p, a) # {}
  BY <1>2 DEF Starts
<1>. HIDE DEF p
<1>4. BestWay(o, prog, w, p, a, way)
  BY <1>2, <1>3, BestAtIs
<1>. HIDE DEF way
<1>5. /\ way.p \in p..Len(w) /\ way.p <= a.endpos
      /\ \E k \in FitsAt(o, w, p, a) : way = Meaning(o, w, p)[k]
  BY <1>4 DEF BestWay
<1>6. there \in Spans(w) /\ there[1] = a.startpos /\ there[2] = way.p
  BY <1>1, <1>2, <1>3, <1>5 DEF Spans
<1>7. FindsBackward(o, back, w, there)
  <2>1. BackwardFine(o)
    BY ObjectsFine
  <2>. HIDE DEF there
  <2>. QED  BY <1>6, <2>1 DEF BackwardFine
<1>8. AskBackward(back, w, there) = IF starts = {} THEN Missed ELSE Backwards(w, way.p, Min(starts))
  BY <1>6, <1>7 DEF FindsBackward, Backwards
<1>9. p \in starts
  <2>1. Fitting(Meaning(o, w, p), way.p, TRUE) # {}
    BY <1>5 DEF FitsAt, Fitting
  <2>2. p \in a.startpos..way.p
    BY <1>1, <1>2, <1>3, <1>5
  <2>. QED  BY <2>1, <2>2
<1>10. \A s \in starts : p <= s
  <2>. SUFFICES ASSUME NEW s \in starts
                PROVE  p <= s
    OBVIOUS
  <2>1. PICK k \in DOMAIN Meaning(o, w, s) : Meaning(o, w, s)[k].p = way.p
    BY DEF Fitting
  <2>2. FitsAt(o, w, s, a) # {}
    BY <1>5, <2>1 DEF FitsAt, Fitting
  <2>3. s \in a.startpos..a.endpos
    BY <1>1, <1>2, <1>5
  <2>. QED  BY <1>2, <2>2, <2>3 DEF Starts
<1>11. starts \in SUBSET Nat
  <2>1. way.p \in Nat /\ a.startpos \in Nat
    BY <1>1, <1>2, <1>5
  <2>2. a.startpos..way.p \in SUBSET Nat
    BY <2>1
  <2>. QED  BY <2>2
<1>. HIDE DEF starts
<1>12. Min(starts) = p
  BY <1>9, <1>10, <1>11, LeastIs
<1>. QED  BY <1>8, <1>9, <1>12 DEF p, way

\* Backward from the end of the text, where every match ends.
LEMMA FromEndFinds ==
  ASSUME NEW o \in Objects, NEW prog \in o.progs, NEW w \in o.texts, NEW a, ArgsFine(a), Live(o, prog, w, a),
         o.prefix = <<>>, a.anchor = "unanchored", prog.anchorEnd, NEW back \in o.rprogs
  PROVE  AskBackward(back, w, <<a.startpos, a.endpos>>)
           = IF Starts(o, w, a) = {} THEN Missed ELSE Backwards(w, a.endpos, Min(Starts(o, w, a)))
<1> DEFINE there == <<a.startpos, a.endpos>>
           starts == {s \in a.startpos..a.endpos : Fitting(Meaning(o, w, s), a.endpos, TRUE) # {}}
<1>1. Len(w) \in Nat /\ a.startpos \in Nat /\ a.endpos \in Nat /\ a.startpos <= a.endpos /\ a.endpos = Len(w)
  <2>1. Len(w) \in Nat
    BY ShapeIs
  <2>. QED  BY <2>1 DEF ArgsFine, Live
<1>2. there \in Spans(w) /\ there[1] = a.startpos /\ there[2] = a.endpos
  BY <1>1 DEF Spans
<1>3. FindsBackward(o, back, w, there)
  <2>1. BackwardFine(o)
    BY ObjectsFine
  <2>. HIDE DEF there
  <2>. QED  BY <1>2, <2>1 DEF BackwardFine
<1>4. AskBackward(back, w, there) = IF starts = {} THEN Missed ELSE Backwards(w, a.endpos, Min(starts))
  BY <1>2, <1>3 DEF FindsBackward, Backwards
<1>5. \A s \in a.startpos..a.endpos : Fitting(Meaning(o, w, s), a.endpos, TRUE) = FitsAt(o, w, s, a)
  <2>. SUFFICES ASSUME NEW s \in a.startpos..a.endpos
                PROVE  Fitting(Meaning(o, w, s), a.endpos, TRUE) = FitsAt(o, w, s, a)
    OBVIOUS
  <2>1. s \in 0..Len(w)
    BY <1>1
  <2>2. \A k \in DOMAIN Meaning(o, w, s) : Meaning(o, w, s)[k].p = a.endpos
    BY <1>1, <2>1, WaysAre
  <2>. QED  BY <1>1, <2>2 DEF FitsAt, Fitting
<1>6. starts = Starts(o, w, a)
  BY <1>5 DEF Starts
<1>. QED  BY <1>4, <1>6

(***************************************************************************)
(* The invariant of a search.  at is where Match is, how its re_anchor.    *)
(***************************************************************************)
ProgOf(o) == CHOOSE p \in o.progs : TRUE
Leftmost(o, w, a) == Min(Starts(o, w, a))
Best(o, w, a) == BestAt(o, w, Leftmost(o, w, a), a)

SearchIs(o, w, a, at, how, passedOver, m) ==
  at \in {"dfa", "backward", "engine"} =>
    /\ o.progs # {} /\ Live(o, ProgOf(o), w, a) /\ how = AnchoringOf(o, ProgOf(o), a)
    /\ at = "dfa" => m = <<a.startpos + Len(o.prefix), a.endpos>>
    /\ at = "backward" =>
         how = "unanchored" /\ Starts(o, w, a) # {} /\ m = <<a.startpos, Best(o, w, a).p>>
    /\ at = "engine" /\ ~passedOver =>
         Starts(o, w, a) # {} /\ m = <<Leftmost(o, w, a) + Len(o.prefix), Best(o, w, a).p>>

FoundIs(o, w, a, at, yes, sub) ==
  /\ a.nsubmatch = 0 => DOMAIN sub = {}
  /\ at = "matched" =>
       /\ yes = (Wanted(o, w, a) # {})
       /\ \A way \in Wanted(o, w, a) : a.nsubmatch # 0 => sub = Vec(o, way, a.nsubmatch)

LEMMA ProgIs ==
  ASSUME NEW o, o.progs # {}
  PROVE  ProgOf(o) \in o.progs
  BY DEF ProgOf

\* What the searches rely on, in one place.
LEMMA LiveIs ==
  ASSUME NEW o \in Objects, o.progs # {}, NEW w \in o.texts, NEW a, ArgsFine(a), Live(o, ProgOf(o), w, a)
  PROVE  /\ ProgOf(o) \in o.progs /\ Len(w) \in Nat /\ Len(o.prefix) \in Nat /\ o.caps \in Nat
         /\ a.startpos \in Nat /\ a.endpos \in Nat /\ a.startpos <= a.endpos /\ a.endpos <= Len(w)
         /\ Wanted(o, w, a) = IF Starts(o, w, a) = {} THEN {} ELSE {Best(o, w, a)}
         /\ Starts(o, w, a) # {} =>
              /\ BestWay(o, ProgOf(o), w, Leftmost(o, w, a), a, Best(o, w, a))
              /\ Leftmost(o, w, a) \in a.startpos..a.endpos
              /\ AnchoringOf(o, ProgOf(o), a) # "unanchored" => Leftmost(o, w, a) = a.startpos
         /\ AnchoringOf(o, ProgOf(o), a) = "unanchored" => o.prefix = <<>> /\ a.anchor = "unanchored"
         /\ o.prefix = <<>> => Len(o.prefix) = 0
<1> DEFINE prog == ProgOf(o)
           p == Leftmost(o, w, a)
           how == AnchoringOf(o, prog, a)
<1>1. prog \in o.progs
  BY ProgIs
<1>. HIDE DEF prog
<1>2. Len(w) \in Nat /\ Len(o.prefix) \in Nat /\ o.caps \in Nat
  BY ShapeIs
<1>3. a.startpos \in Nat /\ a.endpos \in Nat /\ a.startpos <= a.endpos /\ a.endpos <= Len(w) /\ a.anchor \in Anchors
  BY DEF ArgsFine, Live, prog
<1>4. Wanted(o, w, a) = IF Starts(o, w, a) = {} THEN {} ELSE {Best(o, w, a)}
  <2>1. ~(a.endpos > Len(w))
    BY <1>2, <1>3
  <2>. QED  BY <2>1, WantedIs DEF Best, Leftmost
<1>5. how = "unanchored" => o.prefix = <<>> /\ a.anchor = "unanchored"
  BY <1>3 DEF AnchoringOf, ExplicitOf, Anchors
<1>6. ASSUME Starts(o, w, a) # {}
      PROVE  /\ BestWay(o, prog, w, p, a, Best(o, w, a)) /\ p \in a.startpos..a.endpos
             /\ how # "unanchored" => p = a.startpos
  <2>1. p \in Starts(o, w, a) /\ p \in 0..Len(w)
    BY <1>1, <1>3, <1>6, StartsAre DEF Leftmost
  <2>. HIDE DEF p
  <2>2. p \in a.startpos..a.endpos /\ FitsAt(o, w, p, a) # {} /\ (a.anchor # "unanchored" => p = a.startpos)
    BY <2>1 DEF Starts
  <2>3. BestWay(o, prog, w, p, a, BestAt(o, w, p, a))
    BY <1>1, <2>1, <2>2, BestAtIs
  <2>4. prog.anchorStart \/ o.prefix # <<>> => p = 0 /\ a.startpos = 0
    BY <2>3 DEF BestWay, Live, prog
  <2>5. how # "unanchored" => a.anchor # "unanchored" \/ prog.anchorStart \/ o.prefix # <<>>
    BY DEF AnchoringOf, ExplicitOf
  <2>. QED  BY <2>2, <2>3, <2>4, <2>5 DEF Best, p
<1>7. o.prefix = <<>> => Len(o.prefix) = 0
  OBVIOUS
<1>. QED  BY <1>1, <1>2, <1>3, <1>4, <1>5, <1>6, <1>7 DEF prog

(***************************************************************************)
(* The calls and what they keep.                                           *)
(***************************************************************************)
Searching == {"match", "dfa", "backward", "engine", "matched"}
\* The arguments of the search under way: that of GlobalReplace goes on from g.p.
ArgsNow(c, w, g) ==
  IF c.kind = "GlobalReplace" THEN [ArgsOf(c, w) EXCEPT !.startpos = g.p] ELSE ArgsOf(c, w)

ObjectIs ==
  object \in Objects /\ rprog \in {"unbuilt", "built", "failed"} /\ (rprog = "built" => object.rprogs # {})
CallIs == pc # "idle" => text \in object.texts /\ call \in Calls(object, text)
RestIs == pc = "idle" => args = NoArgs /\ submatch = <<>> /\ global = NoLoop
ArgsAre == pc \in Searching => ~Refused(call) /\ ArgsFine(args) /\ args = ArgsNow(call, text, global)
SearchNow == SearchIs(object, text, args, pc, anchoring, skipped, match)
FoundNow == FoundIs(object, text, args, pc, found, submatch)

MatchState ==
  ObjectIs /\ CallIs /\ RestIs /\ ArgsAre /\ SearchNow /\ FoundNow

\* The parts that a step of Match itself leaves alone.
Around == <<object, text, call, args, global, answer>>

LEMMA SearchKeeps ==
  ASSUME ObjectIs, CallIs, ArgsAre, pc \in Searching, UNCHANGED Around, pc' \in Searching,
         rprog' = rprog \/ ReverseProg
  PROVE  ObjectIs' /\ CallIs' /\ RestIs' /\ ArgsAre'
<1>1. rprog' \in {"unbuilt", "built", "failed"} /\ (rprog' = "built" => object.rprogs # {})
  BY DEF ObjectIs, ReverseProg
<1>2. ObjectIs'
  BY <1>1 DEF ObjectIs, Around
<1>3. CallIs' /\ RestIs'
  BY DEF CallIs, RestIs, Searching, Around
<1>4. ArgsAre'
  <2>1. ~Refused(call)'
    BY DEF ArgsAre, Refused, ok, NumberOfCapturingGroups, Around
  <2>. QED  BY <2>1 DEF ArgsAre, Around
<1>. QED  BY <1>2, <1>3, <1>4

LEMMA BeginFound ==
  ASSUME MatchState, MatchBegin
  PROVE  SearchNow' /\ FoundNow' /\ pc' \in Searching
<1> DEFINE prog == ForwardProg
           Refused0 ==
             \/ ~ok
             \/ args.startpos > args.endpos \/ args.endpos > Len(text)
             \/ prog.anchorStart /\ args.startpos # 0
             \/ prog.anchorEnd /\ args.endpos # Len(text)
             \/ object.prefix # <<>> /\ ~PrefixFits
<1>1. /\ object \in Objects /\ text \in object.texts /\ ArgsFine(args)
      /\ args.nsubmatch = 0 => DOMAIN submatch = {}
  BY DEF MatchState, ObjectIs, CallIs, ArgsAre, Searching, MatchBegin, FoundNow, FoundIs
<1>2. UNCHANGED <<object, text, args>>
  BY DEF MatchBegin
<1>3. CASE Refused0
  <2>1. Wanted(object, text, args) = {}
    <3>1. CASE object.progs = {}
      BY <3>1 DEF Wanted
    <3>2. CASE object.progs # {}
      <4>1. prog \in object.progs
        BY <3>2 DEF ForwardProg
      <4>2. Len(text) \in Nat /\ args.startpos \in Nat /\ args.endpos \in Nat
        BY <1>1, ShapeIs DEF ArgsFine
      <4>. HIDE DEF prog
      <4>3. ~Live(object, prog, text, args)
        BY <1>3, <3>2, <4>2 DEF Live, ok, PrefixFits
      <4>. QED  BY <1>1, <4>1, <4>3, Rejected
    <3>. QED  BY <3>1, <3>2
  <2>2. pc' = "matched" /\ found' = FALSE /\ submatch' = submatch
    BY <1>3 DEF MatchBegin, Returns
  <2>. QED  BY <1>1, <1>2, <2>1, <2>2 DEF SearchNow, SearchIs, FoundNow, FoundIs, Searching
<1>4. CASE ~Refused0
  <2>1. object.progs # {} /\ prog = ProgOf(object)
    BY <1>4 DEF ok, ProgOf, ForwardProg
  <2>2. /\ anchoring' = IF object.prefix # <<>> /\ Explicit # "both" THEN "start" ELSE Explicit
        /\ match' = subtext /\ pc' = "dfa" /\ submatch' = submatch
    BY <1>4 DEF MatchBegin
  <2>3. Explicit = ExplicitOf(prog, args)
    BY DEF Explicit, ExplicitOf
  <2>. HIDE DEF prog
  <2>4. anchoring' = AnchoringOf(object, prog, args)
    BY <2>2, <2>3 DEF AnchoringOf
  <2>5. Live(object, prog, text, args)
    <3>1. Len(text) \in Nat /\ args.startpos \in Nat /\ args.endpos \in Nat
      BY <1>1, ShapeIs DEF ArgsFine
    <3>. QED  BY <1>4, <3>1 DEF Live, PrefixFits
  <2>6. SearchIs(object, text, args, "dfa", anchoring', skipped', subtext)
    BY <2>1, <2>4, <2>5 DEF SearchIs, subtext
  <2>7. SearchNow'
    BY <1>2, <2>2, <2>6 DEF SearchNow
  <2>. QED  BY <1>1, <1>2, <2>2, <2>7 DEF FoundNow, FoundIs, Searching
<1>. QED  BY <1>3, <1>4

\* Where a search is.
LEMMA SearchingIs ==
  ASSUME MatchState, pc \in {"dfa", "backward", "engine"}
  PROVE  /\ object \in Objects /\ text \in object.texts /\ ArgsFine(args) /\ object.progs # {}
         /\ ForwardProg = ProgOf(object) /\ Live(object, ProgOf(object), text, args)
         /\ anchoring = AnchoringOf(object, ProgOf(object), args)
         /\ MatchKind = KindOf(object, anchoring) /\ object.longest \in BOOLEAN
         /\ args.nsubmatch \in Nat /\ (args.nsubmatch = 0 => DOMAIN submatch = {})
<1>1. object \in Objects /\ text \in object.texts /\ ArgsFine(args)
  BY DEF MatchState, ObjectIs, CallIs, ArgsAre, Searching
<1>2. args.nsubmatch = 0 => DOMAIN submatch = {}
  BY DEF MatchState, FoundNow, FoundIs
<1>3. /\ object.progs # {} /\ Live(object, ProgOf(object), text, args)
      /\ anchoring = AnchoringOf(object, ProgOf(object), args)
  BY DEF MatchState, SearchNow, SearchIs
<1>4. object.longest \in BOOLEAN
  BY <1>1, ShapeIs
<1>5. MatchKind = KindOf(object, anchoring)
  BY <1>4 DEF MatchKind, KindOf
<1>. QED  BY <1>1, <1>2, <1>3, <1>4, <1>5 DEF ForwardProg, ProgOf, ArgsFine

\* What a DFA says or fails to say: Match goes on from it.
LEMMA DFALeads ==
  ASSUME MatchState, pc \in {"dfa", "backward"}, UNCHANGED <<object, text, args, anchoring>>,
         NEW result, NEW where, NEW next \in {"backward", "engine"}, AfterDFA(result, where, next),
         result.matched = (Starts(object, text, args) # {}),
         Starts(object, text, args) # {} => SearchIs(object, text, args, next, anchoring, FALSE, where)
  PROVE  SearchNow' /\ FoundNow' /\ pc' \in Searching
<1>1. /\ object \in Objects /\ object.progs # {} /\ text \in object.texts /\ ArgsFine(args)
      /\ Live(object, ProgOf(object), text, args) /\ anchoring = AnchoringOf(object, ProgOf(object), args)
      /\ (args.nsubmatch = 0 => DOMAIN submatch = {})
  BY SearchingIs
<1>2. Wanted(object, text, args) = IF Starts(object, text, args) = {} THEN {} ELSE {Best(object, text, args)}
  BY <1>1, LiveIs
<1>3. CASE Skip
  BY <1>1, <1>3 DEF Skip, SearchNow, SearchIs, FoundNow, FoundIs, Searching
<1>4. CASE result.matched /\ args.nsubmatch = 0 /\ anchoring = "unanchored" /\ Returns(TRUE, submatch)
  BY <1>1, <1>2, <1>4 DEF Returns, SearchNow, SearchIs, FoundNow, FoundIs, Searching
<1>5. CASE result.matched /\ match' = where /\ pc' = next /\ UNCHANGED <<found, submatch>>
  <2>1. SearchIs(object, text, args, next, anchoring, skipped', where)
    BY <1>5 DEF SearchIs
  <2>. QED  BY <1>1, <1>5, <2>1 DEF SearchNow, FoundNow, FoundIs, Searching
<1>6. CASE ~result.matched /\ Returns(FALSE, submatch)
  BY <1>1, <1>2, <1>6 DEF Returns, SearchNow, SearchIs, FoundNow, FoundIs, Searching
<1>. QED  BY <1>3, <1>4, <1>5, <1>6 DEF AfterDFA

\* What a DFA finds going forward.
LEMMA DFAForward ==
  ASSUME MatchState, pc = "dfa"
  PROVE  SearchDFA(subtext)
           = IF Starts(object, text, args) = {} THEN Missed
             ELSE Hit(Leftmost(object, text, args) + Len(object.prefix), Best(object, text, args), 1, object.caps)
<1>1. /\ object \in Objects /\ object.progs # {} /\ text \in object.texts /\ ArgsFine(args)
      /\ ForwardProg = ProgOf(object) /\ Live(object, ProgOf(object), text, args)
      /\ anchoring = AnchoringOf(object, ProgOf(object), args) /\ MatchKind = KindOf(object, anchoring)
  BY SearchingIs
<1>2. ProgOf(object) \in object.progs /\ object.caps \in Nat
  BY <1>1, LiveIs
<1>3. 1 \in 0..(1 + object.caps)
  BY <1>2
<1>. QED  BY <1>1, <1>2, <1>3, ForwardFinds DEF SearchDFA, subtext, Leftmost, Best

LEMMA FoundForward ==
  ASSUME MatchState, pc = "dfa", NEW forward, forward = SearchDFA(subtext)
  PROVE  /\ forward.matched = (Starts(object, text, args) # {})
         /\ Starts(object, text, args) # {} => forward.submatch[0][2] = Best(object, text, args).p
<1>1. CASE Starts(object, text, args) = {}
  <2>1. forward = Missed
    BY <1>1, DFAForward
  <2>2. forward.matched = FALSE
    BY <2>1 DEF Missed
  <2>3. (Starts(object, text, args) # {}) = FALSE
    BY <1>1
  <2>. QED  BY <1>1, <2>2, <2>3, Zenon
<1>2. CASE Starts(object, text, args) # {}
  <2>1. PICK s : s = Leftmost(object, text, args) + Len(object.prefix)
    OBVIOUS
  <2>2. PICK way : way = Best(object, text, args)
    OBVIOUS
  <2>3. forward = Hit(s, way, 1, object.caps)
    BY <1>2, <2>1, <2>2, DFAForward
  <2>4. forward.matched = TRUE /\ forward.submatch[0] = <<s, way.p>>
    <3>1. 0 \in 0..(1 - 1)
      OBVIOUS
    <3>. QED  BY <2>3, <3>1 DEF Hit
  <2>5. (Starts(object, text, args) # {}) = TRUE
    BY <1>2
  <2>6. forward.matched = (Starts(object, text, args) # {})
    BY <2>4, <2>5, Zenon
  <2>7. forward.submatch[0][2] = Best(object, text, args).p
    BY <2>2, <2>4
  <2>. QED  BY <2>6, <2>7
<1>. QED  BY <1>1, <1>2

LEMMA SearchForwardFinds ==
  ASSUME MatchState, SearchForward
  PROVE  SearchNow' /\ FoundNow' /\ pc' \in Searching
<1>1. PICK forward : /\ forward = SearchDFA(subtext)
                     /\ AfterDFA(forward, <<match[1], IF forward.matched THEN forward.submatch[0][2] ELSE NULL>>,
                                 "backward")
  BY DEF SearchForward
<1> DEFINE where == <<match[1], IF forward.matched THEN forward.submatch[0][2] ELSE NULL>>
<1>2. /\ forward.matched = (Starts(object, text, args) # {})
      /\ forward.matched => forward.submatch[0][2] = Best(object, text, args).p
  BY <1>1, FoundForward DEF SearchForward
<1>3. pc = "dfa" /\ anchoring = "unanchored" /\ UNCHANGED <<object, text, args, anchoring>>
  BY DEF SearchForward
<1>4. /\ object \in Objects /\ object.progs # {} /\ text \in object.texts /\ ArgsFine(args)
      /\ Live(object, ProgOf(object), text, args) /\ anchoring = AnchoringOf(object, ProgOf(object), args)
  BY <1>3, SearchingIs
<1>5. match[1] = args.startpos
  <2>1. match = <<args.startpos + Len(object.prefix), args.endpos>>
    BY <1>3 DEF MatchState, SearchNow, SearchIs
  <2>2. Len(object.prefix) = 0 /\ args.startpos \in Nat
    BY <1>3, <1>4, LiveIs
  <2>. QED  BY <2>1, <2>2
<1>6. Starts(object, text, args) # {} => SearchIs(object, text, args, "backward", anchoring, FALSE, where)
  BY <1>2, <1>3, <1>4, <1>5 DEF SearchIs
<1>. HIDE DEF where
<1>. QED  BY <1>1, <1>2, <1>3, <1>6, DFALeads DEF where

LEMMA SearchAnchoredFinds ==
  ASSUME MatchState, SearchAnchored
  PROVE  SearchNow' /\ FoundNow' /\ pc' \in Searching
<1>1. pc = "dfa" /\ anchoring # "unanchored" /\ UNCHANGED <<object, text, args, anchoring>>
  BY DEF SearchAnchored
<1>2. /\ object \in Objects /\ object.progs # {} /\ text \in object.texts /\ ArgsFine(args)
      /\ Live(object, ProgOf(object), text, args) /\ anchoring = AnchoringOf(object, ProgOf(object), args)
      /\ (args.nsubmatch = 0 => DOMAIN submatch = {})
  BY <1>1, SearchingIs
<1>3. CASE NotWorthIt
  <2>1. Skip
    BY <1>3 DEF SearchAnchored
  <2>. QED  BY <1>1, <1>2, <2>1 DEF Skip, SearchNow, SearchIs, FoundNow, FoundIs, Searching
<1>4. CASE ~NotWorthIt
  <2>1. PICK forward : /\ forward = SearchDFA(subtext)
                       /\ AfterDFA(forward, IF forward.matched THEN <<match[1], forward.submatch[0][2]>> ELSE match,
                                   "engine")
    BY <1>4 DEF SearchAnchored
  <2> DEFINE where == IF forward.matched THEN <<match[1], forward.submatch[0][2]>> ELSE match
  <2>2. /\ forward.matched = (Starts(object, text, args) # {})
        /\ forward.matched => forward.submatch[0][2] = Best(object, text, args).p
    BY <1>1, <2>1, FoundForward
  <2>3. Starts(object, text, args) # {} => match[1] = Leftmost(object, text, args) + Len(object.prefix)
    <3>1. match = <<args.startpos + Len(object.prefix), args.endpos>>
      BY <1>1 DEF MatchState, SearchNow, SearchIs
    <3>2. Starts(object, text, args) # {} => Leftmost(object, text, args) = args.startpos
      BY <1>1, <1>2, LiveIs
    <3>. QED  BY <3>1, <3>2
  <2>4. Starts(object, text, args) # {} => SearchIs(object, text, args, "engine", anchoring, FALSE, where)
    BY <1>2, <2>2, <2>3 DEF SearchIs
  <2>. HIDE DEF where
  <2>. QED  BY <1>1, <2>1, <2>2, <2>4, DFALeads DEF where
<1>. QED  BY <1>3, <1>4

\* The answer of a search backward, turned round.
LEMMA TurnedRound ==
  ASSUME NEW there, NEW end \in Int, NEW begin \in Int, there[2] = end, Len(text) \in Nat,
         AskBackward(BackwardProg, text, there) = Backwards(text, end, begin)
  PROVE  SearchBackward(there).matched = TRUE /\ SearchBackward(there).submatch[0] = <<begin, end>>
<1> DEFINE back == AskBackward(BackwardProg, text, there)
           n == Len(text)
<1>1. back = [matched |-> TRUE, submatch |-> [i \in 0..0 |-> <<n - end, n - begin>>]]
  BY DEF Backwards
<1>2. SearchBackward(there)
        = IF back.matched THEN [back EXCEPT !.submatch[0] = <<n - @[2], there[2]>>] ELSE back
  BY Zenon DEF SearchBackward
<1>3. 0 \in 0..0
  OBVIOUS
<1>. HIDE DEF back, n
<1>4. SearchBackward(there) = [back EXCEPT !.submatch[0] = <<n - @[2], there[2]>>]
  BY <1>1, <1>2
<1>5. n - (n - begin) = begin
  BY DEF n
<1>. QED  BY <1>1, <1>3, <1>4, <1>5

LEMMA SearchForBeginFinds ==
  ASSUME MatchState, SearchForBegin
  PROVE  SearchNow' /\ FoundNow' /\ pc' \in Searching
<1>1. pc = "backward" /\ UNCHANGED <<object, text, args, anchoring>> /\ ReverseProg
  BY DEF SearchForBegin
<1>2. /\ object \in Objects /\ object.progs # {} /\ text \in object.texts /\ ArgsFine(args)
      /\ Live(object, ProgOf(object), text, args) /\ anchoring = AnchoringOf(object, ProgOf(object), args)
      /\ (args.nsubmatch = 0 => DOMAIN submatch = {})
  BY <1>1, SearchingIs
<1> DEFINE p == Leftmost(object, text, args)
           way == Best(object, text, args)
<1>3. /\ anchoring = "unanchored" /\ Starts(object, text, args) # {} /\ match = <<args.startpos, way.p>>
  BY <1>1 DEF MatchState, SearchNow, SearchIs
<1>4. CASE rprog' = "failed"
  <2>1. Skip
    BY <1>4 DEF SearchForBegin
  <2>. QED  BY <1>1, <1>2, <2>1 DEF Skip, SearchNow, SearchIs, FoundNow, FoundIs, Searching
<1>5. CASE rprog' # "failed"
  <2>1. PICK back : /\ back = SearchBackward(match)
                    /\ AfterDFA(back, IF back.matched THEN back.submatch[0] ELSE match, "engine")
    BY <1>5 DEF SearchForBegin
  <2> DEFINE where == IF back.matched THEN back.submatch[0] ELSE match
  <2>2. BackwardProg \in object.rprogs
    <3>1. object.rprogs # {}
      BY <1>1, <1>5 DEF ReverseProg, MatchState, ObjectIs
    <3>. QED  BY <3>1 DEF BackwardProg
  <2>3. /\ object.prefix = <<>> /\ args.anchor = "unanchored" /\ ProgOf(object) \in object.progs
        /\ Len(text) \in Nat /\ Len(object.prefix) = 0
        /\ p \in args.startpos..args.endpos /\ args.startpos \in Nat
        /\ BestWay(object, ProgOf(object), text, p, args, way)
    BY <1>2, <1>3, LiveIs
  <2>4. p \in Int /\ way.p \in Int
    BY <2>3 DEF BestWay
  <2>5. AskBackward(BackwardProg, text, match) = Backwards(text, way.p, p)
    BY <1>2, <1>3, <2>2, <2>3, BackwardFinds DEF Best, Leftmost
  <2>6. back.matched = TRUE /\ back.submatch[0] = <<p, way.p>>
    <3>. HIDE DEF p, way
    <3>1. match[2] = way.p
      BY <1>3
    <3>. QED  BY <2>1, <2>3, <2>4, <2>5, <3>1, TurnedRound
  <2>7. SearchIs(object, text, args, "engine", anchoring, FALSE, where)
    <3>1. p + Len(object.prefix) = p
      BY <2>3, <2>4
    <3>. QED  BY <1>2, <1>3, <2>6, <3>1 DEF SearchIs
  <2>. HIDE DEF where
  <2>. QED  BY <1>1, <1>3, <2>1, <2>6, <2>7, DFALeads DEF where
<1>. QED  BY <1>4, <1>5

LEMMA SearchFromEndFinds ==
  ASSUME MatchState, SearchFromEnd
  PROVE  SearchNow' /\ FoundNow' /\ pc' \in Searching
<1>1. /\ pc = "dfa" /\ anchoring = "unanchored" /\ ForwardProg.anchorEnd
      /\ UNCHANGED <<object, text, args, anchoring>> /\ ReverseProg
  BY DEF SearchFromEnd
<1>2. /\ object \in Objects /\ object.progs # {} /\ text \in object.texts /\ ArgsFine(args)
      /\ Live(object, ProgOf(object), text, args) /\ anchoring = AnchoringOf(object, ProgOf(object), args)
      /\ (args.nsubmatch = 0 => DOMAIN submatch = {}) /\ ForwardProg = ProgOf(object)
  BY <1>1, SearchingIs
<1> DEFINE p == Leftmost(object, text, args)
           way == Best(object, text, args)
<1>3. CASE rprog' = "failed"
  <2>1. Skip
    BY <1>3 DEF SearchFromEnd
  <2>. QED  BY <1>1, <1>2, <2>1 DEF Skip, SearchNow, SearchIs, FoundNow, FoundIs, Searching
<1>4. CASE rprog' # "failed"
  <2>1. PICK back : /\ back = SearchBackward(subtext)
                    /\ AfterDFA(back, IF back.matched THEN back.submatch[0] ELSE match, "engine")
    BY <1>4 DEF SearchFromEnd
  <2> DEFINE where == IF back.matched THEN back.submatch[0] ELSE match
  <2>2. BackwardProg \in object.rprogs
    <3>1. object.rprogs # {}
      BY <1>1, <1>4 DEF ReverseProg, MatchState, ObjectIs
    <3>. QED  BY <3>1 DEF BackwardProg
  <2>3. /\ object.prefix = <<>> /\ args.anchor = "unanchored" /\ ProgOf(object) \in object.progs
        /\ Len(text) \in Nat /\ Len(object.prefix) = 0 /\ args.startpos \in Nat /\ args.endpos \in Nat
    BY <1>1, <1>2, LiveIs
  <2>4. subtext = <<args.startpos, args.endpos>>
    BY <2>3 DEF subtext
  <2>5. AskBackward(BackwardProg, text, subtext)
          = IF Starts(object, text, args) = {} THEN Missed ELSE Backwards(text, args.endpos, p)
    BY <1>1, <1>2, <2>2, <2>3, <2>4, FromEndFinds DEF Leftmost
  <2>6. CASE Starts(object, text, args) = {}
    <3>1. AskBackward(BackwardProg, text, subtext) = Missed
      BY <2>5, <2>6
    <3>2. SearchBackward(subtext) = Missed
      BY <3>1 DEF SearchBackward, Missed
    <3>3. back.matched = FALSE
      BY <2>1, <3>2 DEF Missed
    <3>. HIDE DEF where
    <3>. QED  BY <1>1, <2>1, <2>6, <3>3, DFALeads DEF where
  <2>7. CASE Starts(object, text, args) # {}
    <3>1. /\ p \in args.startpos..args.endpos
          /\ BestWay(object, ProgOf(object), text, p, args, way)
      BY <1>2, <2>7, LiveIs
    <3>2. p \in Int /\ way.p = args.endpos
      <4>1. way.p = Len(text) /\ args.endpos = Len(text)
        BY <1>1, <1>2, <3>1 DEF BestWay, Live
      <4>. QED  BY <2>3, <3>1, <4>1
    <3>3. back.matched = TRUE /\ back.submatch[0] = <<p, args.endpos>>
      <4>. HIDE DEF p, way
      <4>1. subtext[2] = args.endpos /\ args.endpos \in Int
        BY <2>3, <2>4
      <4>2. AskBackward(BackwardProg, text, subtext) = Backwards(text, args.endpos, p)
        BY <2>5, <2>7
      <4>. HIDE DEF where
      <4>. QED  BY <2>1, <2>3, <3>2, <4>1, <4>2, TurnedRound
    <3>4. SearchIs(object, text, args, "engine", anchoring, FALSE, where)
      <4>1. p + Len(object.prefix) = p
        BY <2>3, <3>2
      <4>. QED  BY <1>2, <2>7, <3>2, <3>3, <4>1 DEF SearchIs
    <3>. HIDE DEF where
    <3>. QED  BY <1>1, <2>1, <2>7, <3>3, <3>4, DFALeads DEF where
  <2>. QED  BY <2>6, <2>7
<1>. QED  BY <1>3, <1>4

\* What Match stores of what an engine has found.
LEMMA NcapIs ==
  ASSUME object.caps \in Nat, args.nsubmatch \in Nat
  PROVE  /\ ncap \in Nat /\ ncap <= 1 + object.caps /\ ncap <= args.nsubmatch
         /\ ncap \in {1 + object.caps, args.nsubmatch}
<1> DEFINE S == {1 + object.caps, args.nsubmatch}
<1>1. S \in SUBSET Nat /\ S # {} /\ 1 + object.caps \in S /\ args.nsubmatch \in S
  OBVIOUS
<1>2. Min(S) \in S /\ \A m \in S : Min(S) <= m
  <2>. HIDE DEF S
  <2>. QED  BY <1>1, Least
<1>3. ncap = Min(S)
  BY DEF ncap, NumberOfCapturingGroups
<1>. QED  BY <1>1, <1>2, <1>3

LEMMA StoredIs ==
  ASSUME object.caps \in Nat, args.nsubmatch \in Nat, Len(object.prefix) \in Nat, NEW way,
         way.cap[0] \in Nat, NEW sub,
         ncap > 0 => sub[0] = <<way.cap[0] + Len(object.prefix), way.p>>,
         \A i \in 1..(ncap - 1) : sub[i] = SpanOf(way, i, object.caps)
  PROVE  Stored(sub) = Vec(object, way, args.nsubmatch)
<1>1. /\ ncap \in Nat /\ ncap <= 1 + object.caps /\ ncap <= args.nsubmatch
      /\ ncap \in {1 + object.caps, args.nsubmatch}
  BY NcapIs
<1> DEFINE n == args.nsubmatch
           Put(i) == CASE i >= ncap -> None
                       [] i < ncap /\ i = 0 -> <<sub[0][1] - Len(object.prefix), sub[0][2]>>
                       [] OTHER -> sub[i]
<1>2. \A i \in 0..(n - 1) : Put(i) = SpanOf(way, i, object.caps)
  <2>. SUFFICES ASSUME NEW i \in 0..(n - 1)
                PROVE  Put(i) = SpanOf(way, i, object.caps)
    OBVIOUS
  <2>1. CASE i >= ncap
    <3>1. i \notin 1..object.caps /\ i # 0
      BY <1>1, <2>1
    <3>. QED  BY <2>1, <3>1 DEF SpanOf
  <2>2. CASE i < ncap /\ i = 0
    <3>1. sub[0] = <<way.cap[0] + Len(object.prefix), way.p>> /\ ~(i >= ncap)
      BY <1>1, <2>2
    <3>2. (way.cap[0] + Len(object.prefix)) - Len(object.prefix) = way.cap[0]
      OBVIOUS
    <3>3. SpanOf(way, 0, object.caps) = <<way.cap[0], way.p>>
      BY DEF SpanOf
    <3>. QED  BY <2>2, <3>1, <3>2, <3>3
  <2>3. CASE i < ncap /\ i # 0
    <3>1. i \in 1..(ncap - 1) /\ ~(i >= ncap)
      BY <1>1, <2>3
    <3>. QED  BY <2>3, <3>1
  <2>4. i >= ncap \/ i < ncap
    BY <1>1
  <2>. QED  BY <2>1, <2>2, <2>3, <2>4
<1>. HIDE DEF Put
<1>3. Vec(object, way, n) = [i \in 0..(n - 1) |-> Put(i)]
  BY <1>2 DEF Vec
<1>. QED  BY <1>3 DEF Stored, Put

\* The match that is stored is the one that is wanted.
LEMMA EngineStores ==
  ASSUME MatchState, pc = "engine", UNCHANGED <<object, text, args>>, Starts(object, text, args) # {},
         NEW sub, Returns(TRUE, Stored(sub)),
         ncap > 0 => sub[0] = <<Leftmost(object, text, args) + Len(object.prefix), Best(object, text, args).p>>,
         \A i \in 1..(ncap - 1) : sub[i] = SpanOf(Best(object, text, args), i, object.caps)
  PROVE  SearchNow' /\ FoundNow' /\ pc' \in Searching
<1> DEFINE way == Best(object, text, args)
           p == Leftmost(object, text, args)
<1>1. /\ object \in Objects /\ object.progs # {} /\ text \in object.texts /\ ArgsFine(args)
      /\ Live(object, ProgOf(object), text, args) /\ args.nsubmatch \in Nat
  BY SearchingIs
<1>2. /\ object.caps \in Nat /\ Len(object.prefix) \in Nat
      /\ Wanted(object, text, args) = {way}
      /\ BestWay(object, ProgOf(object), text, p, args, way)
      /\ p \in args.startpos..args.endpos /\ args.startpos \in Nat
  BY <1>1, LiveIs
<1>3. way.cap[0] = p /\ p \in Nat
  BY <1>2 DEF BestWay
<1>4. Stored(sub) = Vec(object, way, args.nsubmatch)
  <2>. HIDE DEF way, p
  <2>. QED  BY <1>1, <1>2, <1>3, StoredIs DEF way, p
<1>5. args.nsubmatch = 0 => DOMAIN Stored(sub) = {}
  BY DEF Stored
<1>6. pc' = "matched" /\ found' = TRUE /\ submatch' = Stored(sub)
  BY DEF Returns
<1>7. (Wanted(object, text, args) # {}) = TRUE
  BY <1>2
<1>8. \A w \in Wanted(object, text, args) : Stored(sub) = Vec(object, w, args.nsubmatch)
  BY <1>2, <1>4
<1>9. FoundIs(object, text, args, "matched", TRUE, Stored(sub))
  BY <1>5, <1>7, <1>8 DEF FoundIs
<1>10. SearchIs(object, text, args, "matched", anchoring', skipped', match')
  BY DEF SearchIs
<1>. QED  BY <1>6, <1>9, <1>10 DEF SearchNow, FoundNow, Searching

LEMMA WhereOnlyFinds ==
  ASSUME MatchState, WhereOnly
  PROVE  SearchNow' /\ FoundNow' /\ pc' \in Searching
<1>1. /\ pc = "engine" /\ ~skipped /\ ncap <= 1 /\ UNCHANGED <<object, text, args>>
      /\ Returns(TRUE, Stored([i \in {0} |-> match]))
  BY DEF WhereOnly, MatchEnd
<1>2. /\ Starts(object, text, args) # {}
      /\ match = <<Leftmost(object, text, args) + Len(object.prefix), Best(object, text, args).p>>
  BY <1>1 DEF MatchState, SearchNow, SearchIs
<1> DEFINE sub == [i \in {0} |-> match]
<1>3. sub[0] = match
  OBVIOUS
<1>4. ncap \in Nat
  <2>1. args.nsubmatch \in Nat /\ object \in Objects /\ object.progs # {} /\ text \in object.texts
    BY <1>1, SearchingIs
  <2>2. object.caps \in Nat
    BY <2>1, ShapeIs
  <2>. QED  BY <2>1, <2>2, NcapIs
<1>5. 1..(ncap - 1) = {}
  BY <1>1, <1>4
<1>. HIDE DEF sub
<1>. QED  BY <1>1, <1>2, <1>3, <1>5, EngineStores DEF sub

LEMMA SearchWithFinds ==
  ASSUME MatchState, NEW name, SearchWith(name)
  PROVE  SearchNow' /\ FoundNow' /\ pc' \in Searching
<1>1. /\ pc = "engine" /\ UNCHANGED <<object, text, args>> /\ Search
  BY DEF SearchWith
<1>2. /\ object \in Objects /\ object.progs # {} /\ text \in object.texts /\ ArgsFine(args)
      /\ ForwardProg = ProgOf(object) /\ Live(object, ProgOf(object), text, args)
      /\ anchoring = AnchoringOf(object, ProgOf(object), args) /\ MatchKind = KindOf(object, anchoring)
      /\ args.nsubmatch \in Nat /\ (args.nsubmatch = 0 => DOMAIN submatch = {})
  BY <1>1, SearchingIs
<1> DEFINE p == Leftmost(object, text, args)
           n == Len(object.prefix)
           way == Best(object, text, args)
<1>3. PICK result :
        /\ result = AnswerTo(Ask(ForwardProg, text, span, IF skipped THEN MatchKind ELSE "full", anchored, ncap))
        /\ MatchEnd(result.matched, IF result.matched THEN result.submatch ELSE <<>>)
  BY <1>1 DEF Search
<1>4. /\ ProgOf(object) \in object.progs /\ object.caps \in Nat /\ ncap \in 0..(1 + object.caps)
      /\ Wanted(object, text, args) = IF Starts(object, text, args) = {} THEN {} ELSE {way}
  <2>1. ProgOf(object) \in object.progs /\ object.caps \in Nat
        /\ Wanted(object, text, args) = IF Starts(object, text, args) = {} THEN {} ELSE {way}
    BY <1>2, LiveIs
  <2>2. ncap \in 0..(1 + object.caps)
    BY <1>2, <2>1, NcapIs
  <2>. QED  BY <2>1, <2>2
<1>5. result = IF Starts(object, text, args) = {} THEN Missed ELSE Hit(p + n, way, ncap, object.caps)
  <2>1. CASE skipped
    <3>1. span = <<args.startpos + n, args.endpos>> /\ anchored = (anchoring # "unanchored")
      BY <2>1 DEF span, anchored, subtext
    <3>2. result = AnswerTo(Ask(ForwardProg, text, <<args.startpos + n, args.endpos>>, MatchKind,
                                anchoring # "unanchored", ncap))
      BY <1>3, <2>1, <3>1
    <3>. QED  BY <1>2, <1>4, <3>2, ForwardFinds DEF Best, Leftmost
  <2>2. CASE ~skipped
    <3>1. Starts(object, text, args) # {} /\ match = <<p + n, way.p>>
      BY <1>1, <2>2 DEF MatchState, SearchNow, SearchIs
    <3>2. span = <<p + n, way.p>> /\ anchored = TRUE
      BY <2>2, <3>1 DEF span, anchored
    <3>3. result = AnswerTo(Ask(ForwardProg, text, <<p + n, way.p>>, "full", TRUE, ncap))
      BY <1>3, <2>2, <3>2
    <3>. QED  BY <1>2, <1>4, <3>1, <3>3, FullFinds DEF Best, Leftmost
  <2>. QED  BY <2>1, <2>2
<1>6. CASE Starts(object, text, args) = {}
  <2>1. pc' = "matched" /\ found' = FALSE /\ submatch' = submatch
    BY <1>3, <1>5, <1>6 DEF MatchEnd, Returns, Missed
  <2>2. (Wanted(object, text, args) # {}) = FALSE /\ Wanted(object, text, args) = {}
    BY <1>4, <1>6
  <2>3. FoundIs(object, text, args, "matched", FALSE, submatch)
    BY <1>2, <2>2 DEF FoundIs
  <2>4. SearchIs(object, text, args, "matched", anchoring', skipped', match')
    BY DEF SearchIs
  <2>. QED  BY <1>1, <2>1, <2>3, <2>4 DEF SearchNow, FoundNow, Searching
<1>7. CASE Starts(object, text, args) # {}
  <2>1. result = Hit(p + n, way, ncap, object.caps)
    BY <1>5, <1>7
  <2>2. /\ result.matched = TRUE
        /\ result.submatch = [i \in 0..(ncap - 1) |-> IF i = 0 THEN <<p + n, way.p>> ELSE SpanOf(way, i, object.caps)]
    <3>. HIDE DEF p, n, way
    <3>. QED  BY <2>1 DEF Hit
  <2>3. Returns(TRUE, Stored(result.submatch))
    BY <1>3, <2>2 DEF MatchEnd
  <2>4. ncap > 0 => result.submatch[0] = <<p + n, way.p>>
    <3>. HIDE DEF p, n, way
    <3>. QED  BY <1>4, <2>2
  <2>5. \A i \in 1..(ncap - 1) : result.submatch[i] = SpanOf(way, i, object.caps)
    <3>. HIDE DEF p, n, way
    <3>. QED  BY <1>4, <2>2
  <2>. QED  BY <1>1, <1>7, <2>3, <2>4, <2>5, EngineStores
<1>. QED  BY <1>6, <1>7

(***************************************************************************)
(* The calls around Match.                                                 *)
(***************************************************************************)
LEMMA MaxSubmatchIs ==
  ASSUME NEW rewrite
  PROVE  /\ MaxSubmatch(rewrite) \in 0..9
         /\ \A n \in Groups(rewrite) : n \in 0..MaxSubmatch(rewrite)
<1> DEFINE S == Groups(rewrite) \cup {0}
<1>1. S \in SUBSET (0..9) /\ S # {}
  BY DEF Groups
<1>2. Max(S) \in S /\ \A m \in S : m <= Max(S)
  <2>. HIDE DEF S
  <2>. QED  BY <1>1, Greatest
<1>3. MaxSubmatch(rewrite) = Max(S) /\ Groups(rewrite) \subseteq S
  BY DEF MaxSubmatch
<1>. HIDE DEF S
<1>4. MaxSubmatch(rewrite) \in 0..9 /\ \A n \in Groups(rewrite) : n \in 0..9 /\ n <= MaxSubmatch(rewrite)
  BY <1>1, <1>2, <1>3
<1>. QED  BY <1>4

LEMMA CallsAre ==
  ASSUME NEW o \in Objects, NEW w \in o.texts, NEW c \in Calls(o, w)
  PROVE  /\ CallFine(c) /\ c.kind \in {"Match"} \cup DoMatches \cup Rewritings
         /\ c.kind \in DoMatches => c.n \in Nat /\ c.failing \in 0..c.n
         /\ c.kind \in Rewritings => c.rewrite \in Seq(0..255)
         /\ c.kind # "Match" => nvec(c) \in Nat
         /\ ArgsFine(ArgsOf(c, w))
<1>1. CallFine(c)
  BY ObjectsFine DEF ShapeFine
<1>2. /\ c.kind \in {"Match"} \cup DoMatches \cup Rewritings
      /\ c.kind \in DoMatches => c.n \in Nat /\ c.failing \in 0..c.n
      /\ c.kind \in Rewritings => c.rewrite \in Seq(0..255)
      /\ c.kind = "Match" => c.args \in [startpos : Nat, endpos : Nat, anchor : Anchors, nsubmatch : Nat]
  BY <1>1 DEF CallFine, DoMatches, Rewritings
<1>3. c.kind # "Match" => nvec(c) \in Nat
  <2>1. MaxSubmatch(c.rewrite) \in 0..9
    BY MaxSubmatchIs
  <2>. QED  BY <1>2, <2>1 DEF nvec
<1>4. ArgsFine(ArgsOf(c, w))
  <2>1. Len(w) \in Nat
    BY ShapeIs
  <2>2. AnchorOf(c) \in Anchors
    BY DEF AnchorOf, Anchors
  <2>. QED  BY <1>2, <1>3, <2>1, <2>2 DEF ArgsFine, ArgsOf
<1>. QED  BY <1>1, <1>2, <1>3, <1>4

\* What is known when Match returns.
LEMMA MatchedIs ==
  ASSUME MatchState, pc = "matched"
  PROVE  /\ object \in Objects /\ text \in object.texts /\ call \in Calls(object, text) /\ ~Refused(call)
         /\ ArgsFine(args) /\ args = ArgsNow(call, text, global)
         /\ found = (Wanted(object, text, args) # {})
         /\ \A way \in Wanted(object, text, args) :
              IF args.nsubmatch = 0 THEN DOMAIN submatch = {} ELSE submatch = Vec(object, way, args.nsubmatch)
  BY DEF MatchState, ObjectIs, CallIs, ArgsAre, FoundNow, FoundIs, Searching

LEMMA VecIs ==
  ASSUME NEW o, NEW way, NEW n \in Nat, NEW i \in 0..(n - 1)
  PROVE  DOMAIN Vec(o, way, n) = 0..(n - 1) /\ Vec(o, way, n)[i] = SpanOf(way, i, o.caps)
  BY DEF Vec

LEMMA MatchReturnsRight ==
  ASSUME MatchState, MatchReturns
  PROVE  AnswersRight' /\ ReplacedRight'
<1>1. /\ pc = "matched" /\ call.kind = "Match" /\ pc' = "answered"
      /\ answer' = (IF found THEN [ok |-> TRUE, submatch |-> submatch] ELSE No)
      /\ UNCHANGED <<object, text, call>>
  BY DEF MatchReturns, Answered, Still
<1>2. /\ object \in Objects /\ args = ArgsOf(call, text) /\ args.nsubmatch \in Nat
      /\ found = (Wanted(object, text, args) # {})
      /\ \A way \in Wanted(object, text, args) :
           IF args.nsubmatch = 0 THEN DOMAIN submatch = {} ELSE submatch = Vec(object, way, args.nsubmatch)
  BY <1>1, MatchedIs DEF ArgsNow, ArgsFine
<1>3. call.kind \notin Rewritings /\ call.kind \notin DoMatches
  BY <1>1 DEF Rewritings, DoMatches
<1>4. ReplacedRight'
  BY <1>1, <1>3 DEF ReplacedRight
<1> DEFINE wanted == Wanted(object, text, ArgsOf(call, text))
<1>5. answer'.ok = (wanted # {} /\ (call.kind \in DoMatches => call.failing = 0))
  <2>1. answer'.ok = found
    BY <1>1, <1>2 DEF No
  <2>. QED  BY <1>2, <1>3, <2>1
<1>6. \A way \in wanted : \A i \in DOMAIN answer'.submatch : answer'.submatch[i] = SpanOf(way, i, object.caps)
  <2>. SUFFICES ASSUME NEW way \in wanted, NEW i \in DOMAIN answer'.submatch
                PROVE  answer'.submatch[i] = SpanOf(way, i, object.caps)
    OBVIOUS
  <2>1. answer'.submatch = submatch
    BY <1>1, <1>2
  <2>2. CASE args.nsubmatch = 0
    BY <1>2, <2>1, <2>2
  <2>3. CASE args.nsubmatch # 0
    <3>1. submatch = Vec(object, way, args.nsubmatch)
      BY <1>2, <2>3
    <3>2. i \in 0..(args.nsubmatch - 1)
      BY <2>1, <3>1 DEF Vec
    <3>. QED  BY <1>2, <2>1, <3>1, <3>2, VecIs
  <2>. QED  BY <2>2, <2>3
<1>. HIDE DEF wanted
<1>7. \A w \in {wanted} :
        /\ answer'.ok = (w # {} /\ (call.kind \in DoMatches => call.failing = 0))
        /\ \A way \in w : \A i \in DOMAIN answer'.submatch : answer'.submatch[i] = SpanOf(way, i, object.caps)
  BY <1>5, <1>6
<1>8. AnswersRight'
  BY <1>1, <1>7, Zenon DEF AnswersRight, Span, wanted
<1>. QED  BY <1>4, <1>8

LEMMA DoMatchReturnsRight ==
  ASSUME MatchState, DoMatchReturns
  PROVE  AnswersRight' /\ ReplacedRight'
<1> DEFINE taken == IF call.failing = 0 THEN call.n ELSE call.failing - 1
           yes == call.failing = 0
<1>1. /\ pc = "matched" /\ call.kind \in DoMatches /\ pc' = "answered"
      /\ answer' = (IF ~found THEN No
                    ELSE [ok |-> yes, taken |-> [i \in 1..taken |-> submatch[i]],
                          consumed |-> IF yes /\ Consumes(call) THEN submatch[0][2] ELSE 0])
      /\ UNCHANGED <<object, text, call>>
  BY DEF DoMatchReturns, Answered, Still
<1>2. call.kind \notin Rewritings /\ call.kind # "Match" /\ call.kind # "GlobalReplace"
  BY <1>1 DEF Rewritings, DoMatches
<1>3. /\ object \in Objects /\ args = ArgsOf(call, text) /\ args.nsubmatch = nvec(call) /\ nvec(call) \in Nat
      /\ call.n \in Nat /\ call.failing \in 0..call.n
      /\ found = (Wanted(object, text, args) # {})
      /\ \A way \in Wanted(object, text, args) :
           IF args.nsubmatch = 0 THEN DOMAIN submatch = {} ELSE submatch = Vec(object, way, args.nsubmatch)
  BY <1>1, <1>2, MatchedIs, CallsAre DEF ArgsNow, ArgsOf
<1>4. ReplacedRight'
  BY <1>1, <1>2 DEF ReplacedRight
<1> DEFINE wanted == Wanted(object, text, ArgsOf(call, text))
<1>5. answer'.ok = (wanted # {} /\ (call.kind \in DoMatches => call.failing = 0))
  <2>1. CASE found
    <3>1. answer'.ok = yes
      BY <1>1, <2>1
    <3>. QED  BY <1>1, <1>3, <2>1, <3>1
  <2>2. CASE ~found
    <3>1. answer'.ok = FALSE
      BY <1>1, <2>2 DEF No
    <3>. QED  BY <1>3, <2>2, <3>1
  <2>. QED  BY <2>1, <2>2
<1>6. /\ (call.n # 0 \/ Consumes(call)) => nvec(call) = call.n + 1
      /\ call.n = 0 /\ ~Consumes(call) => nvec(call) = 0
  BY <1>2, <1>3 DEF nvec
<1>7. \A way \in wanted :
        /\ \A i \in DOMAIN answer'.taken : answer'.taken[i] = SpanOf(way, i, object.caps)
        /\ Consumes(call) /\ answer'.ok => answer'.consumed = way.p
  <2>. SUFFICES ASSUME NEW way \in wanted
                PROVE  /\ \A i \in DOMAIN answer'.taken : answer'.taken[i] = SpanOf(way, i, object.caps)
                       /\ Consumes(call) /\ answer'.ok => answer'.consumed = way.p
    OBVIOUS
  <2>1. /\ answer'.taken = [i \in 1..taken |-> submatch[i]] /\ answer'.ok = yes
        /\ answer'.consumed = IF yes /\ Consumes(call) THEN submatch[0][2] ELSE 0
    BY <1>1, <1>3
  <2>2. nvec(call) # 0 => submatch = Vec(object, way, nvec(call))
    BY <1>3
  <2>3. ASSUME NEW i \in DOMAIN answer'.taken
        PROVE  answer'.taken[i] = SpanOf(way, i, object.caps)
    <3>1. i \in 1..taken /\ answer'.taken[i] = submatch[i]
      BY <2>1, <2>3
    <3>2. nvec(call) = call.n + 1 /\ i \in 0..(nvec(call) - 1)
      BY <1>3, <1>6, <3>1
    <3>3. Vec(object, way, nvec(call))[i] = SpanOf(way, i, object.caps)
      BY <1>3, <3>2, VecIs
    <3>. QED  BY <1>3, <2>2, <3>1, <3>2, <3>3
  <2>4. ASSUME Consumes(call), answer'.ok
        PROVE  answer'.consumed = way.p
    <3>1. answer'.consumed = submatch[0][2]
      BY <2>1, <2>4
    <3>2. nvec(call) = call.n + 1 /\ 0 \in 0..(nvec(call) - 1)
      BY <1>3, <1>6, <2>4
    <3>3. Vec(object, way, nvec(call))[0] = SpanOf(way, 0, object.caps)
      BY <1>3, <3>2, VecIs
    <3>4. SpanOf(way, 0, object.caps)[2] = way.p
      BY DEF SpanOf
    <3>. QED  BY <1>3, <2>2, <3>1, <3>2, <3>3, <3>4
  <2>. QED  BY <2>3, <2>4
<1>. HIDE DEF wanted
<1>8. \A w \in {wanted} :
        /\ answer'.ok = (w # {} /\ (call.kind \in DoMatches => call.failing = 0))
        /\ \A way \in w :
             /\ \A i \in DOMAIN answer'.taken : answer'.taken[i] = SpanOf(way, i, object.caps)
             /\ Consumes(call) /\ answer'.ok => answer'.consumed = way.p
  BY <1>5, <1>7
<1>9. Consumes(call)' = Consumes(call)
  BY <1>1 DEF Consumes
<1>10. AnswersRight'
  BY <1>1, <1>2, <1>8, <1>9, ZenonT(30) DEF AnswersRight, Span, wanted
<1>. QED  BY <1>4, <1>10

LEMMA ReplaceReturnsRight ==
  ASSUME MatchState, ReplaceReturns
  PROVE  AnswersRight' /\ ReplacedRight'
<1> DEFINE new == Rewrite(text, call.rewrite, submatch)
           around == SubSeq(text, 1, submatch[0][1]) \o new \o SubSeq(text, submatch[0][2] + 1, Len(text))
<1>1. /\ pc = "matched" /\ call.kind \in {"Replace", "Extract"} /\ pc' = "answered"
      /\ answer' = (CASE ~found -> No
                     [] found /\ call.kind = "Extract" -> [ok |-> IsGood(call.rewrite), out |-> new]
                     [] OTHER -> IF IsGood(call.rewrite) THEN [ok |-> TRUE, out |-> around] ELSE No)
      /\ UNCHANGED <<object, text, call>>
  BY DEF ReplaceReturns, Answered, Still
<1>2. call.kind \in Rewritings /\ call.kind # "Match" /\ call.kind # "GlobalReplace" /\ call.kind \notin DoMatches
  BY <1>1 DEF Rewritings, DoMatches
<1>3. /\ object \in Objects /\ args = ArgsOf(call, text) /\ args.nsubmatch = nvec(call) /\ nvec(call) \in Nat
      /\ ~Refused(call) /\ found = (Wanted(object, text, args) # {})
      /\ \A way \in Wanted(object, text, args) : nvec(call) # 0 => submatch = Vec(object, way, nvec(call))
  BY <1>1, <1>2, MatchedIs, CallsAre DEF ArgsNow, ArgsOf
<1>4. nvec(call) = 1 + MaxSubmatch(call.rewrite) /\ MaxSubmatch(call.rewrite) \in 0..9
  BY <1>2, MaxSubmatchIs DEF nvec
<1>5. AnswersRight'
  BY <1>1, <1>2 DEF AnswersRight
<1> DEFINE wanted == Wanted(object, text, ArgsOf(call, text))
<1>6. CheckRewriteString(object, call.rewrite) = IsGood(call.rewrite)
  <2>1. ~(nvec(call) > 1 + object.caps)
    BY <1>2, <1>3 DEF Refused, NumberOfCapturingGroups
  <2>2. object.caps \in Int
    BY <1>3, ObjectsFine DEF ShapeFine
  <2>3. MaxSubmatch(call.rewrite) <= object.caps
    BY <1>4, <2>1, <2>2
  <2>. QED  BY <2>3 DEF CheckRewriteString, IsGood
<1>7. answer'.ok = (wanted # {} /\ CheckRewriteString(object, call.rewrite))
  <2>0. IsGood(call.rewrite) \in BOOLEAN
    BY DEF IsGood
  <2>1. CASE found
    <3>1. answer'.ok = IsGood(call.rewrite)
      BY <1>1, <2>0, <2>1 DEF No
    <3>. QED  BY <1>3, <1>6, <2>0, <2>1, <3>1
  <2>2. CASE ~found
    <3>1. answer'.ok = FALSE
      BY <1>1, <2>2 DEF No
    <3>. QED  BY <1>3, <2>2, <3>1
  <2>. QED  BY <2>1, <2>2
<1>8. \A way \in wanted :
        LET put == Rewrite(text, call.rewrite, Vec(object, way, nvec(call)))
        IN IF call.kind = "Extract" THEN answer'.out = put
           ELSE answer'.ok => answer'.out = SubSeq(text, 1, way.cap[0]) \o put \o SubSeq(text, way.p + 1, Len(text))
  <2>. SUFFICES ASSUME NEW way \in wanted
                PROVE  LET put == Rewrite(text, call.rewrite, Vec(object, way, nvec(call)))
                       IN IF call.kind = "Extract" THEN answer'.out = put
                          ELSE answer'.ok =>
                                 answer'.out = SubSeq(text, 1, way.cap[0]) \o put \o SubSeq(text, way.p + 1, Len(text))
    OBVIOUS
  <2>1. found /\ submatch = Vec(object, way, nvec(call))
    <3>1. way \in Wanted(object, text, args) /\ nvec(call) # 0
      BY <1>3, <1>4
    <3>2. submatch = Vec(object, way, nvec(call))
      BY <1>3, <3>1
    <3>3. found = TRUE
      BY <1>3, <3>1
    <3>. QED  BY <3>2, <3>3
  <2>2. submatch[0] = <<way.cap[0], way.p>>
    <3>1. 0 \in 0..(nvec(call) - 1)
      BY <1>4
    <3>2. Vec(object, way, nvec(call))[0] = SpanOf(way, 0, object.caps)
      BY <1>3, <3>1, VecIs
    <3>. QED  BY <2>1, <3>2 DEF SpanOf
  <2>3. CASE call.kind = "Extract"
    BY <1>1, <2>1, <2>3
  <2>4. CASE call.kind # "Extract"
    <3>1. answer' = IF IsGood(call.rewrite) THEN [ok |-> TRUE, out |-> around] ELSE No
      BY <1>1, <2>1, <2>4
    <3>2. answer'.ok => answer'.out = around
      BY <3>1 DEF No
    <3>3. around = SubSeq(text, 1, way.cap[0]) \o new \o SubSeq(text, way.p + 1, Len(text))
      <4>1. submatch[0][1] = way.cap[0] /\ submatch[0][2] = way.p
        BY <2>2
      <4>. HIDE DEF new
      <4>. QED  BY <4>1
    <3>4. new = Rewrite(text, call.rewrite, Vec(object, way, nvec(call)))
      BY <2>1
    <3>. HIDE DEF new, around
    <3>. QED  BY <2>4, <3>2, <3>3, <3>4
  <2>. QED  BY <2>3, <2>4
<1>. HIDE DEF wanted
<1>9. ReplaceRight(object, text, call, answer')
  BY <1>7, <1>8, Zenon DEF ReplaceRight, wanted
<1>10. ReplacedRight'
  BY <1>1, <1>2, <1>9 DEF ReplacedRight
<1>. QED  BY <1>5, <1>10

(***************************************************************************)
(* Sequences put together.                                                 *)
(***************************************************************************)
\* What FlattenSeq has put together by the i-th sequence.
IsFlat(seqs, f, n) == f = [i \in 1..n |-> IF i = 1 THEN seqs[i] ELSE f[i - 1] \o seqs[i]]

LEMMA FlatStep ==
  ASSUME NEW seqs, NEW f, NEW n \in Nat, IsFlat(seqs, f, n), NEW i \in 1..n
  PROVE  f[i] = IF i = 1 THEN seqs[i] ELSE f[i - 1] \o seqs[i]
<1> DEFINE g == [j \in 1..n |-> IF j = 1 THEN seqs[j] ELSE f[j - 1] \o seqs[j]]
<1>1. f = g
  BY DEF IsFlat
<1>2. g[i] = IF i = 1 THEN seqs[i] ELSE f[i - 1] \o seqs[i]
  OBVIOUS
<1>. HIDE DEF g
<1>. QED  BY <1>1, <1>2

LEMMA FlatExists == \A seqs : \A n \in Nat : \E f : IsFlat(seqs, f, n)
<1>. SUFFICES ASSUME NEW seqs, NEW bad \in Nat, ~ \E f : IsFlat(seqs, f, bad)
              PROVE  FALSE
  OBVIOUS
<1> DEFINE Bads == {n \in Nat : ~ \E f : IsFlat(seqs, f, n)}
<1>1. PICK n \in Bads : \A m \in Bads : n <= m
  <2>1. Bads \in SUBSET Nat /\ bad \in Bads
    OBVIOUS
  <2>. HIDE DEF Bads
  <2>. QED  BY <2>1, Least
<1>2. CASE n = 0
  <2> DEFINE g == [i \in 1..0 |-> seqs[i]]
  <2>1. g = [i \in 1..0 |-> IF i = 1 THEN seqs[i] ELSE g[i - 1] \o seqs[i]]
    <3>1. \A i \in 1..0 : FALSE
      OBVIOUS
    <3>. QED  BY <3>1
  <2>. HIDE DEF g
  <2>2. IsFlat(seqs, g, 0)
    BY <2>1, Zenon DEF IsFlat
  <2>. QED  BY <1>2, <2>2
<1>3. CASE n # 0
  <2>1. n - 1 \in Nat /\ n - 1 \notin Bads
    BY <1>1, <1>3
  <2>2. PICK f : IsFlat(seqs, f, n - 1)
    BY <2>1
  <2> DEFINE g == [i \in 1..n |-> IF i = 1 THEN seqs[i] ELSE f[i - 1] \o seqs[i]]
  <2>3. \A i \in 1..(n - 1) : g[i] = f[i]
    <3>. SUFFICES ASSUME NEW i \in 1..(n - 1)
                  PROVE  g[i] = f[i]
      OBVIOUS
    <3>1. f[i] = IF i = 1 THEN seqs[i] ELSE f[i - 1] \o seqs[i]
      BY <2>1, <2>2, FlatStep
    <3>2. i \in 1..n
      BY <2>1
    <3>. QED  BY <3>1, <3>2
  <2>4. \A i \in 1..n : g[i] = IF i = 1 THEN seqs[i] ELSE g[i - 1] \o seqs[i]
    <3>. SUFFICES ASSUME NEW i \in 1..n
                  PROVE  g[i] = IF i = 1 THEN seqs[i] ELSE g[i - 1] \o seqs[i]
      OBVIOUS
    <3>1. g[i] = IF i = 1 THEN seqs[i] ELSE f[i - 1] \o seqs[i]
      OBVIOUS
    <3>2. i # 1 => i - 1 \in 1..(n - 1)
      BY <2>1
    <3>. HIDE DEF g
    <3>. QED  BY <2>3, <3>1, <3>2
  <2>5. IsFlat(seqs, g, n)
    <3>1. g = [i \in 1..n |-> g[i]]
      OBVIOUS
    <3>. HIDE DEF g
    <3>2. [i \in 1..n |-> g[i]] = [i \in 1..n |-> IF i = 1 THEN seqs[i] ELSE g[i - 1] \o seqs[i]]
      BY <2>4
    <3>. QED  BY <3>1, <3>2 DEF IsFlat
  <2>. QED  BY <2>5
<1>. QED  BY <1>2, <1>3

LEMMA FlattenIs ==
  ASSUME NEW seqs, Len(seqs) \in Nat, Len(seqs) # 0
  PROVE  \E f : IsFlat(seqs, f, Len(seqs)) /\ FlattenSeq(seqs) = f[Len(seqs)]
<1> DEFINE f == CHOOSE g : IsFlat(seqs, g, Len(seqs))
<1>1. FlattenSeq(seqs) = f[Len(seqs)]
  BY Zenon DEF IsFlat, FlattenSeq
<1>2. IsFlat(seqs, f, Len(seqs))
  <2>1. \E g : IsFlat(seqs, g, Len(seqs))
    BY FlatExists
  <2>. QED  BY <2>1
<1>. QED  BY <1>1, <1>2

\* It is a sequence of the same elements.
LEMMA FlatTyped ==
  ASSUME NEW S, NEW seqs \in Seq(Seq(S)), NEW n \in 0..Len(seqs), NEW f, IsFlat(seqs, f, n)
  PROVE  \A i \in 1..n : f[i] \in Seq(S)
<1>0. Len(seqs) \in Nat /\ n \in Nat /\ \A i \in 1..n : seqs[i] \in Seq(S)
  OBVIOUS
<1>. SUFFICES ASSUME NEW bad \in 1..n, f[bad] \notin Seq(S)
              PROVE  FALSE
  OBVIOUS
<1> DEFINE Bads == {i \in 1..n : f[i] \notin Seq(S)}
<1>1. PICK i \in Bads : \A j \in Bads : i <= j
  <2>1. Bads \in SUBSET Nat /\ bad \in Bads
    BY <1>0
  <2>. HIDE DEF Bads
  <2>. QED  BY <2>1, Least
<1>2. i \in 1..n /\ f[i] \notin Seq(S)
  OBVIOUS
<1>3. f[i] = IF i = 1 THEN seqs[i] ELSE f[i - 1] \o seqs[i]
  BY <1>0, <1>2, FlatStep
<1>4. CASE i = 1
  BY <1>0, <1>2, <1>3, <1>4
<1>5. CASE i # 1
  <2>1. i - 1 \in 1..n /\ i - 1 \notin Bads
    BY <1>0, <1>1, <1>2, <1>5
  <2>2. f[i - 1] \in Seq(S) /\ seqs[i] \in Seq(S)
    BY <1>0, <1>2, <2>1
  <2>. QED  BY <1>2, <1>3, <1>5, <2>2, ConcatProperties
<1>. QED  BY <1>4, <1>5

\* It is the same of the same sequences.
LEMMA FlatSame ==
  ASSUME NEW seqs, NEW those, NEW n \in Nat, NEW m \in Nat, n <= m, NEW f, IsFlat(seqs, f, n),
         NEW g, IsFlat(those, g, m), \A i \in 1..n : seqs[i] = those[i]
  PROVE  \A i \in 1..n : f[i] = g[i]
<1>. SUFFICES ASSUME NEW bad \in 1..n, f[bad] # g[bad]
              PROVE  FALSE
  OBVIOUS
<1> DEFINE Bads == {i \in 1..n : f[i] # g[i]}
<1>1. PICK i \in Bads : \A j \in Bads : i <= j
  <2>1. Bads \in SUBSET Nat /\ bad \in Bads
    OBVIOUS
  <2>. HIDE DEF Bads
  <2>. QED  BY <2>1, Least
<1>2. i \in 1..n /\ i \in 1..m /\ f[i] # g[i]
  OBVIOUS
<1>3. f[i] = IF i = 1 THEN seqs[i] ELSE f[i - 1] \o seqs[i]
  BY <1>2, FlatStep
<1>4. g[i] = IF i = 1 THEN those[i] ELSE g[i - 1] \o those[i]
  BY <1>2, FlatStep
<1>5. i # 1 => f[i - 1] = g[i - 1]
  <2>. SUFFICES ASSUME i # 1
                PROVE  f[i - 1] = g[i - 1]
    OBVIOUS
  <2>1. i - 1 \in 1..n /\ i - 1 \notin Bads
    BY <1>1, <1>2
  <2>. QED  BY <2>1
<1>. QED  BY <1>2, <1>3, <1>4, <1>5

LEMMA FlattenTyped ==
  ASSUME NEW S, NEW seqs \in Seq(Seq(S))
  PROVE  FlattenSeq(seqs) \in Seq(S)
<1>1. Len(seqs) \in Nat
  OBVIOUS
<1>2. CASE Len(seqs) = 0
  <2>1. FlattenSeq(seqs) = seqs
    BY <1>2 DEF FlattenSeq
  <2>2. seqs = <<>>
    BY <1>2
  <2>. QED  BY <2>1, <2>2
<1>3. CASE Len(seqs) # 0
  <2>1. PICK f : IsFlat(seqs, f, Len(seqs)) /\ FlattenSeq(seqs) = f[Len(seqs)]
    BY <1>1, <1>3, FlattenIs
  <2>2. Len(seqs) \in 0..Len(seqs) /\ Len(seqs) \in 1..Len(seqs)
    BY <1>1, <1>3
  <2>3. \A i \in 1..Len(seqs) : f[i] \in Seq(S)
    BY <2>1, <2>2, FlatTyped
  <2>. QED  BY <2>1, <2>2, <2>3
<1>. QED  BY <1>2, <1>3

LEMMA FlattenAppend ==
  ASSUME NEW S, NEW seqs \in Seq(Seq(S)), NEW more \in Seq(S)
  PROVE  FlattenSeq(Append(seqs, more)) = FlattenSeq(seqs) \o more
<1> DEFINE those == Append(seqs, more)
           n == Len(seqs)
<1>1. /\ those \in Seq(Seq(S)) /\ Len(those) = n + 1 /\ n \in Nat /\ those[n + 1] = more
      /\ \A i \in 1..n : those[i] = seqs[i]
  OBVIOUS
<1>. HIDE DEF those
<1>2. PICK g : IsFlat(those, g, n + 1) /\ FlattenSeq(those) = g[n + 1]
  BY <1>1, FlattenIs
<1>3. g[n + 1] = IF n + 1 = 1 THEN those[n + 1] ELSE g[(n + 1) - 1] \o those[n + 1]
  BY <1>1, <1>2, FlatStep
<1>4. CASE n = 0
  <2>1. FlattenSeq(seqs) = <<>>
    <3>1. FlattenSeq(seqs) = seqs
      BY <1>4 DEF FlattenSeq
    <3>2. seqs = <<>>
      BY <1>4
    <3>. QED  BY <3>1, <3>2
  <2>2. FlattenSeq(those) = more
    BY <1>1, <1>2, <1>3, <1>4
  <2>. QED  BY <2>1, <2>2, ConcatEmptySeq DEF those
<1>5. CASE n # 0
  <2>1. PICK f : IsFlat(seqs, f, n) /\ FlattenSeq(seqs) = f[n]
    BY <1>1, <1>5, FlattenIs
  <2>2. f[n] = g[n]
    <3>1. n \in 1..n /\ n <= n + 1 /\ n + 1 \in Nat /\ \A i \in 1..n : seqs[i] = those[i]
      BY <1>1, <1>5
    <3>. HIDE DEF n
    <3>2. IsFlat(seqs, f, n) /\ IsFlat(those, g, n + 1)
      BY <1>2, <2>1
    <3>3. n \in Nat
      BY <1>1
    <3>4. \A i \in 1..n : f[i] = g[i]
      BY <3>1, <3>2, <3>3, FlatSame
    <3>. QED  BY <3>1, <3>4
  <2>3. g[n + 1] = g[n] \o more
    BY <1>1, <1>3, <1>5
  <2>. QED  BY <1>2, <2>1, <2>2, <2>3 DEF those
<1>. QED  BY <1>4, <1>5

(***************************************************************************)
(* Rewrite strings.                                                        *)
(***************************************************************************)
TokenSet == {Byte(c) : c \in 0..255} \cup {Group(n) : n \in 0..9} \cup {Nonsense}
NothingRead == [tokens |-> <<>>, open |-> FALSE]
Reads(c, before) ==
  LET Put(token) == [tokens |-> Append(before.tokens, token), open |-> FALSE]
  IN CASE before.open -> Put(Escaped(c))
       [] ~before.open /\ c = Backslash -> [before EXCEPT !.open = TRUE]
       [] OTHER -> Put(Byte(c))
IsRead(rewrite, f, n) == f = [k \in 0..n |-> IF k = 0 THEN NothingRead ELSE Reads(rewrite[k], f[k - 1])]

LEMMA ReadStep ==
  ASSUME NEW rewrite, NEW f, NEW n \in Nat, IsRead(rewrite, f, n), NEW k \in 0..n
  PROVE  f[k] = IF k = 0 THEN NothingRead ELSE Reads(rewrite[k], f[k - 1])
<1> DEFINE g == [j \in 0..n |-> IF j = 0 THEN NothingRead ELSE Reads(rewrite[j], f[j - 1])]
<1>1. f = g
  BY DEF IsRead
<1>2. g[k] = IF k = 0 THEN NothingRead ELSE Reads(rewrite[k], f[k - 1])
  OBVIOUS
<1>. HIDE DEF g
<1>. QED  BY <1>1, <1>2

LEMMA ReadExists == \A rewrite : \A n \in Nat : \E f : IsRead(rewrite, f, n)
<1>. SUFFICES ASSUME NEW rewrite, NEW bad \in Nat, ~ \E f : IsRead(rewrite, f, bad)
              PROVE  FALSE
  OBVIOUS
<1> DEFINE Bads == {n \in Nat : ~ \E f : IsRead(rewrite, f, n)}
<1>1. PICK n \in Bads : \A m \in Bads : n <= m
  <2>1. Bads \in SUBSET Nat /\ bad \in Bads
    OBVIOUS
  <2>. HIDE DEF Bads
  <2>. QED  BY <2>1, Least
<1>2. CASE n = 0
  <2> DEFINE g == [k \in 0..0 |-> NothingRead]
  <2>1. \A k \in 0..0 : NothingRead = IF k = 0 THEN NothingRead ELSE Reads(rewrite[k], g[k - 1])
    OBVIOUS
  <2>2. g = [k \in 0..0 |-> IF k = 0 THEN NothingRead ELSE Reads(rewrite[k], g[k - 1])]
    BY <2>1
  <2>. HIDE DEF g
  <2>3. IsRead(rewrite, g, 0)
    BY <2>2, Zenon DEF IsRead
  <2>. QED  BY <1>2, <2>3
<1>3. CASE n # 0
  <2>1. n - 1 \in Nat /\ n - 1 \notin Bads
    BY <1>1, <1>3
  <2>2. PICK f : IsRead(rewrite, f, n - 1)
    BY <2>1
  <2> DEFINE g == [k \in 0..n |-> IF k = 0 THEN NothingRead ELSE Reads(rewrite[k], f[k - 1])]
  <2>3. \A k \in 0..(n - 1) : g[k] = f[k]
    <3>. SUFFICES ASSUME NEW k \in 0..(n - 1)
                  PROVE  g[k] = f[k]
      OBVIOUS
    <3>1. f[k] = IF k = 0 THEN NothingRead ELSE Reads(rewrite[k], f[k - 1])
      BY <2>1, <2>2, ReadStep
    <3>2. k \in 0..n
      BY <2>1
    <3>. QED  BY <3>1, <3>2
  <2>4. \A k \in 0..n : g[k] = IF k = 0 THEN NothingRead ELSE Reads(rewrite[k], g[k - 1])
    <3>. SUFFICES ASSUME NEW k \in 0..n
                  PROVE  g[k] = IF k = 0 THEN NothingRead ELSE Reads(rewrite[k], g[k - 1])
      OBVIOUS
    <3>1. g[k] = IF k = 0 THEN NothingRead ELSE Reads(rewrite[k], f[k - 1])
      OBVIOUS
    <3>2. k # 0 => k - 1 \in 0..(n - 1)
      BY <2>1
    <3>. HIDE DEF g
    <3>. QED  BY <2>3, <3>1, <3>2
  <2>5. IsRead(rewrite, g, n)
    <3>1. g = [k \in 0..n |-> g[k]]
      OBVIOUS
    <3>. HIDE DEF g
    <3>2. [k \in 0..n |-> g[k]] = [k \in 0..n |-> IF k = 0 THEN NothingRead ELSE Reads(rewrite[k], g[k - 1])]
      BY <2>4
    <3>. QED  BY <3>1, <3>2 DEF IsRead
  <2>. QED  BY <2>5
<1>. QED  BY <1>2, <1>3

ReadSet == [tokens : Seq(TokenSet), open : BOOLEAN]

LEMMA EscapedIs ==
  ASSUME NEW c \in 0..255
  PROVE  Escaped(c) \in TokenSet /\ Byte(c) \in TokenSet
<1>1. Byte(c) \in TokenSet /\ Nonsense \in TokenSet
  BY DEF TokenSet
<1>2. c \in 48..57 => Group(c - 48) \in TokenSet
  <2>. SUFFICES ASSUME c \in 48..57
                PROVE  Group(c - 48) \in TokenSet
    OBVIOUS
  <2>1. c - 48 \in 0..9
    OBVIOUS
  <2>. QED  BY <2>1 DEF TokenSet
<1>. QED  BY <1>1, <1>2 DEF Escaped

LEMMA ReadsAre ==
  ASSUME NEW c \in 0..255, NEW before \in ReadSet
  PROVE  Reads(c, before) \in ReadSet
<1>1. \A token \in TokenSet : [tokens |-> Append(before.tokens, token), open |-> FALSE] \in ReadSet
  BY DEF ReadSet
<1>2. [before EXCEPT !.open = TRUE] \in ReadSet
  BY DEF ReadSet
<1>3. Escaped(c) \in TokenSet /\ Byte(c) \in TokenSet
  BY EscapedIs
<1>. QED  BY <1>1, <1>2, <1>3 DEF Reads

\* Tokens gives tokens.
LEMMA TokensAre ==
  ASSUME NEW rewrite \in Seq(0..255)
  PROVE  Tokens(rewrite) \in Seq(TokenSet)
<1> DEFINE n == Len(rewrite)
           f == CHOOSE g : IsRead(rewrite, g, n)
<1>1. n \in Nat /\ \A k \in 1..n : rewrite[k] \in 0..255
  BY ElementOfSeq, LenProperties
<1>2. IsRead(rewrite, f, n)
  <2>1. \E g : IsRead(rewrite, g, n)
    BY <1>1, ReadExists
  <2>. QED  BY <2>1
<1>3. Tokens(rewrite) = IF f[n].open THEN Append(f[n].tokens, Nonsense) ELSE f[n].tokens
  BY Zenon DEF Tokens, IsRead, Reads, NothingRead
<1>. HIDE DEF f, n
<1>4. f[n] \in ReadSet
  <2>. SUFFICES ASSUME f[n] \notin ReadSet
                PROVE  FALSE
    OBVIOUS
  <2> DEFINE Bads == {k \in 0..n : f[k] \notin ReadSet}
  <2>1. PICK k \in Bads : \A j \in Bads : k <= j
    <3>1. Bads \in SUBSET Nat /\ n \in Bads
      BY <1>1
    <3>. HIDE DEF Bads
    <3>. QED  BY <3>1, Least
  <2>2. k \in 0..n /\ f[k] \notin ReadSet
    OBVIOUS
  <2>3. f[k] = IF k = 0 THEN NothingRead ELSE Reads(rewrite[k], f[k - 1])
    BY <1>1, <1>2, <2>2, ReadStep
  <2>4. CASE k = 0
    <3>1. NothingRead \in ReadSet
      BY DEF NothingRead, ReadSet
    <3>. QED  BY <2>2, <2>3, <2>4, <3>1
  <2>5. CASE k # 0
    <3>1. k - 1 \in 0..n /\ k - 1 \notin Bads /\ k \in 1..n
      BY <1>1, <2>1, <2>2, <2>5
    <3>2. f[k - 1] \in ReadSet /\ rewrite[k] \in 0..255
      BY <1>1, <3>1
    <3>3. Reads(rewrite[k], f[k - 1]) \in ReadSet
      BY <3>2, ReadsAre
    <3>. QED  BY <2>2, <2>3, <2>5, <3>3
  <2>. QED  BY <2>4, <2>5
<1>5. f[n].tokens \in Seq(TokenSet) /\ Nonsense \in TokenSet
  BY <1>4 DEF ReadSet, TokenSet
<1>. QED  BY <1>3, <1>5

\* A rewrite string is replaced by bytes, if the groups that it asks for are in the text.
LEMMA RewriteIs ==
  ASSUME NEW w \in Seq(0..255), NEW rewrite \in Seq(0..255), NEW vec,
         \A n \in Groups(rewrite) : vec[n] \in Spans(w) \cup {None}
  PROVE  Rewrite(w, rewrite, vec) \in Seq(0..255)
<1> DEFINE tokens == Tokens(rewrite)
           good == {k \in 0..Len(tokens) : \A j \in 1..k : tokens[j].kind # "bad"}
           Put(k) == IF tokens[k].kind = "byte" THEN <<tokens[k].n>> ELSE Bytes(w, vec[tokens[k].n])
           puts == [k \in 1..Max(good) |-> Put(k)]
<1>1. tokens \in Seq(TokenSet)
  BY TokensAre
<1>2. Rewrite(w, rewrite, vec) = FlattenSeq(puts)
  BY Zenon DEF Rewrite
<1>3. \A n \in 0..9 : Group(n) \in ToSet(tokens) => n \in Groups(rewrite)
  BY DEF Groups
<1>. HIDE DEF tokens
<1>4. Len(tokens) \in Nat /\ \A k \in 1..Len(tokens) : tokens[k] \in TokenSet /\ tokens[k] \in ToSet(tokens)
  BY <1>1 DEF ToSet
<1>5. Max(good) \in good
  <2>1. good \in SUBSET (0..Len(tokens)) /\ 0 \in good
    BY <1>4
  <2>. HIDE DEF good
  <2>. QED  BY <1>4, <2>1, Greatest
<1>6. Max(good) \in 0..Len(tokens) /\ \A k \in 1..Max(good) : tokens[k].kind # "bad"
  BY <1>5
<1>. HIDE DEF good
<1>7. \A k \in 1..Max(good) : Put(k) \in Seq(0..255)
  <2>. SUFFICES ASSUME NEW k \in 1..Max(good)
                PROVE  Put(k) \in Seq(0..255)
    OBVIOUS
  <2>1. tokens[k] \in TokenSet /\ tokens[k] \in ToSet(tokens) /\ tokens[k].kind # "bad"
    BY <1>4, <1>6
  <2>2. CASE \E c \in 0..255 : tokens[k] = Byte(c)
    <3>1. PICK c \in 0..255 : tokens[k] = Byte(c)
      BY <2>2
    <3>2. tokens[k].kind = "byte" /\ tokens[k].n = c
      BY <3>1 DEF Byte
    <3>. QED  BY <3>2
  <2>3. CASE \E n \in 0..9 : tokens[k] = Group(n)
    <3>1. PICK n \in 0..9 : tokens[k] = Group(n)
      BY <2>3
    <3>2. tokens[k].kind = "group" /\ tokens[k].n = n
      BY <3>1 DEF Group
    <3>3. n \in Groups(rewrite)
      BY <1>3, <2>1, <3>1
    <3>4. vec[n] \in Spans(w) \cup {None}
      BY <3>3
    <3>5. Bytes(w, vec[n]) \in Seq(0..255)
      <4>1. CASE vec[n] = None
        BY <4>1 DEF Bytes
      <4>2. CASE vec[n] # None
        <5>1. Len(w) \in Nat /\ vec[n][1] \in 0..Len(w) /\ vec[n][2] \in 0..Len(w)
          BY <3>4, <4>2 DEF Spans
        <5>2. \A i \in (vec[n][1] + 1)..vec[n][2] : w[i] \in 0..255
          <6>1. \A i \in 1..Len(w) : w[i] \in 0..255
            BY ElementOfSeq
          <6>2. (vec[n][1] + 1)..vec[n][2] \subseteq 1..Len(w)
            BY <5>1
          <6>. QED  BY <6>1, <6>2
        <5>3. SubSeq(w, vec[n][1] + 1, vec[n][2]) \in Seq(0..255)
          <6>1. PICK lo, hi : lo = vec[n][1] + 1 /\ hi = vec[n][2]
            OBVIOUS
          <6>2. lo \in Int /\ hi \in Int /\ \A i \in lo..hi : w[i] \in 0..255
            BY <5>1, <5>2, <6>1
          <6>3. SubSeq(w, lo, hi) \in Seq(0..255)
            BY <6>2, SubSeqProperties
          <6>. QED  BY <6>1, <6>3
        <5>. QED  BY <4>2, <5>3 DEF Bytes
      <4>. QED  BY <4>1, <4>2
    <3>. QED  BY <3>2, <3>5
  <2>. QED  BY <2>1, <2>2, <2>3 DEF TokenSet, Nonsense
<1>8. puts \in Seq(Seq(0..255))
  <2>1. Max(good) \in Nat
    BY <1>4, <1>6
  <2>. HIDE DEF Put
  <2>. QED  BY <1>7, <2>1
<1>. HIDE DEF puts
<1>. QED  BY <1>2, <1>8, FlattenTyped

(***************************************************************************)
(* Where a search goes on that does not take an empty match.               *)
(***************************************************************************)
LEMMA RuneAtIs ==
  ASSUME NEW w, NEW p, NEW latin1
  PROVE  /\ \A x, y \in RuneAt(w, p, latin1) : x = y
         /\ \A x \in RuneAt(w, p, latin1) : x[2] \in 1..4 /\ (latin1 => x[2] = 1)
<1> DEFINE c(k) == w[p + k]
           x(k) == p + k <= Len(w) /\ c(k) \in 128..191
           m(k) == c(k) % 64
           Long(r, n) == IF r > MaxRune(n - 1) /\ r <= Runemax THEN {<<r, n>>} ELSE {}
           Few(S) == (\A u, v \in S : u = v) /\ \A u \in S : u[2] \in 1..4 /\ (latin1 => u[2] = 1)
           Some(S) == (\A u, v \in S : u = v) /\ \A u \in S : u[2] \in 1..4
<1>1. Few({}) /\ Few({<<c(1), 1>>})
  OBVIOUS
<1>2. \A r : Some(Long(r, 2)) /\ Some(Long(r, 3)) /\ Some(Long(r, 4))
  OBVIOUS
<1>. HIDE DEF Long
<1>3. ~latin1 => \A r : Few(Long(r, 2)) /\ Few(Long(r, 3)) /\ Few(Long(r, 4))
  BY <1>2
<1>4. RuneAt(w, p, latin1) =
        CASE p >= Len(w) -> {}
          [] p < Len(w) /\ (latin1 \/ c(1) < 128) -> {<<c(1), 1>>}
          [] p < Len(w) /\ ~latin1 /\ c(1) \in 192..223 /\ x(2) -> Long((c(1) % 32) * 64 + m(2), 2)
          [] p < Len(w) /\ ~latin1 /\ c(1) \in 224..239 /\ x(2) /\ x(3) ->
               Long(((c(1) % 16) * 64 + m(2)) * 64 + m(3), 3)
          [] p < Len(w) /\ ~latin1 /\ c(1) \in 240..247 /\ x(2) /\ x(3) /\ x(4) ->
               Long((((c(1) % 8) * 64 + m(2)) * 64 + m(3)) * 64 + m(4), 4)
          [] OTHER -> {}
  BY Zenon DEF RuneAt, Long
<1>5. Few(RuneAt(w, p, latin1))
  <2> DEFINE l2 == Long((c(1) % 32) * 64 + m(2), 2)
             l3 == Long(((c(1) % 16) * 64 + m(2)) * 64 + m(3), 3)
             l4 == Long((((c(1) % 8) * 64 + m(2)) * 64 + m(3)) * 64 + m(4), 4)
             l1 == {<<c(1), 1>>}
             at == RuneAt(w, p, latin1)
  <2>1. Few({}) /\ Few(l1) /\ (~latin1 => Few(l2) /\ Few(l3) /\ Few(l4))
    BY <1>1, <1>3
  <2>2. at = {} \/ at = l1 \/ (~latin1 /\ (at = l2 \/ at = l3 \/ at = l4))
    <3>1. at =
        CASE p >= Len(w) -> {}
          [] p < Len(w) /\ (latin1 \/ c(1) < 128) -> l1
          [] p < Len(w) /\ ~latin1 /\ c(1) \in 192..223 /\ x(2) -> l2
          [] p < Len(w) /\ ~latin1 /\ c(1) \in 224..239 /\ x(2) /\ x(3) -> l3
          [] p < Len(w) /\ ~latin1 /\ c(1) \in 240..247 /\ x(2) /\ x(3) /\ x(4) -> l4
          [] OTHER -> {}
      BY <1>4
    <3>. HIDE DEF l1, l2, l3, l4, c, x, at
    <3>. QED  BY <3>1
  <2>. HIDE DEF l1, l2, l3, l4, at, Few
  <2>3. Few(at)
    BY <2>1, <2>2
  <2>. QED  BY <2>3 DEF at
<1>. QED  BY <1>5

LEMMA GreatestIs ==
  ASSUME NEW top \in Nat, NEW S \in SUBSET (0..top), NEW n \in S, \A m \in S : m <= n
  PROVE  Max(S) = n
<1>1. Max(S) \in S /\ n <= Max(S) /\ Max(S) <= n
  BY Greatest
<1>2. \A m \in S : m \in Nat
  OBVIOUS
<1>3. Max(S) \in Nat /\ n \in Nat
  BY <1>1, <1>2
<1>. QED  BY <1>1, <1>3

\* The places that GlobalReplace does not look at are those before where it goes on.
LEMMA AheadIs ==
  ASSUME NEW o, NEW w, NEW p \in Nat, NEW a, o.latin1 \in BOOLEAN
  PROVE  /\ Ahead(w, p, o.latin1) \in 1..4
         /\ FitsAt(o, w, p, a) # {} /\ BestAt(o, w, p, a).p = p =>
              Passed(o, w, p, a) = p..(p + Ahead(w, p, o.latin1) - 1)
<1> DEFINE runes == RuneAt(w, p, o.latin1)
           ahead == Ahead(w, p, o.latin1)
           Rune == {p + x[2] - 1 : x \in runes}
           S == {p} \cup Rune
           Empty == FitsAt(o, w, p, a) # {} /\ BestAt(o, w, p, a).p = p
<1>1. /\ \A x, y \in runes : x = y
      /\ \A x \in runes : x[2] \in 1..4 /\ (o.latin1 => x[2] = 1)
  BY RuneAtIs
<1>2. ahead = IF o.latin1 \/ runes = {} THEN 1 ELSE (CHOOSE x \in runes : TRUE)[2]
  BY DEF Ahead
<1>3. Passed(o, w, p, a) = IF Empty THEN p..Max(S) ELSE {}
  BY Zenon DEF Passed
<1>. HIDE DEF runes, Empty
<1>4. CASE runes = {}
  <2>1. ahead = 1 /\ S = {p}
    BY <1>2, <1>4
  <2>. HIDE DEF S, ahead
  <2>2. Max(S) = p
    <3>1. S \in SUBSET (0..p) /\ p \in S /\ \A m \in S : m <= p
      BY <2>1
    <3>. QED  BY <3>1, GreatestIs
  <2>3. p + ahead - 1 = p
    BY <2>1
  <2>. QED  BY <1>3, <2>1, <2>2, <2>3 DEF ahead, Empty
<1>5. CASE runes # {}
  <2>1. PICK x \in runes : x = CHOOSE y \in runes : TRUE
    BY <1>5
  <2>2. x[2] \in 1..4 /\ ahead = x[2]
    BY <1>1, <1>2, <1>5, <2>1
  <2>3. \A y \in runes : y = x
    BY <1>1
  <2>4. Rune = {p + x[2] - 1}
    BY <2>3
  <2> DEFINE end == p + x[2] - 1
  <2>5. S = {p, end} /\ end \in Nat /\ p <= end
    BY <2>2, <2>4
  <2>6. end = p + ahead - 1
    BY <2>2
  <2>. HIDE DEF S, ahead, end, Rune
  <2>7. Max(S) = end
    <3>1. S \in SUBSET (0..end) /\ end \in S /\ \A m \in S : m <= end
      BY <2>5
    <3>. QED  BY <2>5, <3>1, GreatestIs
  <2>8. ahead \in 1..4
    BY <2>2
  <2>. QED  BY <1>3, <2>6, <2>7, <2>8 DEF ahead, Empty
<1>. QED  BY <1>4, <1>5

LEMMA EmptyPassed ==
  ASSUME NEW o, NEW w, NEW p, p \in Nat, NEW a, o.latin1 \in BOOLEAN,
         FitsAt(o, w, p, a) # {}, BestAt(o, w, p, a).p = p
  PROVE  \E k \in 1..4 : /\ Ahead(w, p, o.latin1) = k
                         /\ Passed(o, w, p, a) = p..(p + k - 1)
<1>1. /\ Ahead(w, p, o.latin1) \in 1..4
      /\ FitsAt(o, w, p, a) # {} /\ BestAt(o, w, p, a).p = p =>
           Passed(o, w, p, a) = p..(p + Ahead(w, p, o.latin1) - 1)
  BY AheadIs
<1>. QED  BY <1>1

(***************************************************************************)
(* The loop of GlobalReplace.                                              *)
(***************************************************************************)
\* What is stored of m groups of a match in w.
PieceSet(w, m) == {v \in [0..(m - 1) -> Spans(w) \cup {None}] : v[0] \in Spans(w)}
Upto(w, p) == IF p <= Len(w) THEN p ELSE Len(w)

\* Up to g.p matches have been replaced, but for an empty one at the end of the last piece
\* that is passed over.
LoopIs(o, w, c, g) ==
  LET n == Len(g.pieces)
      a == ArgsOf(c, w)
      from == From(g.pieces, n + 1)
  IN /\ g.pieces \in Seq(PieceSet(w, nvec(c))) /\ g.p \in Nat /\ from <= g.p
     /\ n = 0 => g.lastend = NULL /\ g.p = 0
     /\ n > 0 => g.lastend = from /\ Wanted(o, w, a) # {}
     /\ \A k \in 1..n : NoneMissed(o, w, a, g.pieces, k) /\ PieceRight(o, w, a, g.pieces, k)
     /\ \A q \in from..(g.p - 1) : FitsAt(o, w, q, a) = {} \/ (n > 0 /\ q \in Passed(o, w, from, a))
     /\ n > 0 /\ g.p > from => \A q \in Passed(o, w, from, a) : q < g.p
     /\ g.out = Replaced(w, c.rewrite, g.pieces) \o SubSeq(w, from + 1, Upto(w, g.p))

\* Pieces lie in the text.
LEMMA PiecesAre ==
  ASSUME NEW w, Len(w) \in Nat, NEW m, NEW pieces \in Seq(PieceSet(w, m))
  PROVE  /\ Len(pieces) \in Nat
         /\ \A k \in 1..Len(pieces) :
              pieces[k] \in PieceSet(w, m) /\ pieces[k][0] \in Spans(w)
              /\ pieces[k][0][1] \in 0..Len(w) /\ pieces[k][0][2] \in 0..Len(w)
         /\ \A k \in 1..(Len(pieces) + 1) : From(pieces, k) \in 0..Len(w)
         /\ \A k \in 1..Len(pieces) : To(w, pieces, k) = pieces[k][0][1] /\ To(w, pieces, k) \in 0..Len(w)
<1>1. Len(pieces) \in Nat /\ \A k \in 1..Len(pieces) : pieces[k] \in PieceSet(w, m)
  BY ElementOfSeq, LenProperties
<1>2. \A k \in 1..Len(pieces) : pieces[k][0] \in Spans(w)
  BY <1>1 DEF PieceSet
<1>3. \A k \in 1..Len(pieces) : pieces[k][0][1] \in 0..Len(w) /\ pieces[k][0][2] \in 0..Len(w)
  BY <1>2 DEF Spans
<1>4. \A k \in 1..(Len(pieces) + 1) : From(pieces, k) \in 0..Len(w)
  <2>. SUFFICES ASSUME NEW k \in 1..(Len(pieces) + 1)
                PROVE  From(pieces, k) \in 0..Len(w)
    OBVIOUS
  <2>1. k # 1 => k - 1 \in 1..Len(pieces)
    BY <1>1
  <2>. QED  BY <1>3, <2>1 DEF From
<1>5. \A k \in 1..Len(pieces) : To(w, pieces, k) = pieces[k][0][1]
  BY <1>1 DEF To
<1>. QED  BY <1>1, <1>2, <1>3, <1>4, <1>5

\* Another piece changes nothing of those before.
LEMMA MorePieces ==
  ASSUME NEW w, Len(w) \in Nat, NEW m, NEW pieces \in Seq(PieceSet(w, m)), NEW v \in PieceSet(w, m)
  PROVE  LET more == Append(pieces, v)
             n == Len(pieces)
         IN /\ more \in Seq(PieceSet(w, m)) /\ Len(more) = n + 1 /\ more[n + 1] = v
            /\ \A k \in 1..n : more[k] = pieces[k] /\ To(w, more, k) = To(w, pieces, k)
            /\ \A k \in 1..(n + 1) : From(more, k) = From(pieces, k)
            /\ From(more, n + 2) = v[0][2] /\ To(w, more, n + 1) = v[0][1]
<1> DEFINE more == Append(pieces, v)
           n == Len(pieces)
<1>1. /\ more \in Seq(PieceSet(w, m)) /\ Len(more) = n + 1 /\ more[n + 1] = v /\ n \in Nat
      /\ \A k \in 1..n : more[k] = pieces[k]
  BY AppendProperties, LenProperties
<1>. HIDE DEF more, n
<1>2. \A k \in 1..n : To(w, more, k) = To(w, pieces, k)
  <2>1. \A k \in 1..n : ~(k > Len(more)) /\ ~(k > Len(pieces))
    BY <1>1 DEF n
  <2>. QED  BY <1>1, <2>1 DEF To
<1>3. \A k \in 1..(n + 1) : From(more, k) = From(pieces, k)
  <2>. SUFFICES ASSUME NEW k \in 1..(n + 1)
                PROVE  From(more, k) = From(pieces, k)
    OBVIOUS
  <2>1. k # 1 => k - 1 \in 1..n
    BY <1>1
  <2>. QED  BY <1>1, <2>1 DEF From
<1>4. From(more, n + 2) = v[0][2]
  <2>1. n + 2 # 1 /\ (n + 2) - 1 = n + 1
    BY <1>1
  <2>. QED  BY <1>1, <2>1 DEF From
<1>5. To(w, more, n + 1) = v[0][1]
  <2>1. ~(n + 1 > Len(more))
    BY <1>1
  <2>. QED  BY <1>1, <2>1 DEF To
<1>. QED  BY <1>1, <1>2, <1>3, <1>4, <1>5 DEF more, n

LEMMA BytesAre ==
  ASSUME NEW w \in Seq(0..255), NEW x \in 0..Len(w), NEW y \in 0..Len(w)
  PROVE  Bytes(w, <<x, y>>) = SubSeq(w, x + 1, y) /\ SubSeq(w, x + 1, y) \in Seq(0..255)
<1>1. Len(w) \in Nat /\ \A i \in 1..Len(w) : w[i] \in 0..255
  BY ElementOfSeq, LenProperties
<1>2. <<x, y>> # None
  BY <1>1 DEF None, NULL
<1>3. (x + 1)..y \subseteq 1..Len(w)
  BY <1>1
<1>4. SubSeq(w, x + 1, y) \in Seq(0..255)
  <2>1. PICK lo : lo = x + 1
    OBVIOUS
  <2>2. lo \in Int /\ y \in Int /\ \A i \in lo..y : w[i] \in 0..255
    BY <1>1, <1>3, <2>1
  <2>3. SubSeq(w, lo, y) \in Seq(0..255)
    BY <2>2, SubSeqProperties
  <2>. QED  BY <2>1, <2>3
<1>. QED  BY <1>2, <1>4 DEF Bytes

\* What a piece comes to: what is before it, and what it is replaced by.
PieceText(w, rewrite, pieces, k) ==
  Bytes(w, <<From(pieces, k), To(w, pieces, k)>>) \o Rewrite(w, rewrite, pieces[k])

LEMMA PieceRewrites ==
  ASSUME NEW w \in Seq(0..255), NEW rewrite \in Seq(0..255), NEW v \in PieceSet(w, 1 + MaxSubmatch(rewrite))
  PROVE  Rewrite(w, rewrite, v) \in Seq(0..255)
<1>1. MaxSubmatch(rewrite) \in 0..9 /\ \A n \in Groups(rewrite) : n \in 0..MaxSubmatch(rewrite)
  BY MaxSubmatchIs
<1>2. \A n \in Groups(rewrite) : n \in 0..((1 + MaxSubmatch(rewrite)) - 1)
  BY <1>1
<1>3. \A n \in Groups(rewrite) : v[n] \in Spans(w) \cup {None}
  BY <1>2 DEF PieceSet
<1>. QED  BY <1>3, RewriteIs

LEMMA ReplacedIs ==
  ASSUME NEW w \in Seq(0..255), NEW rewrite \in Seq(0..255),
         NEW pieces \in Seq(PieceSet(w, 1 + MaxSubmatch(rewrite)))
  PROVE  /\ [k \in 1..Len(pieces) |-> PieceText(w, rewrite, pieces, k)] \in Seq(Seq(0..255))
         /\ Replaced(w, rewrite, pieces) = FlattenSeq([k \in 1..Len(pieces) |-> PieceText(w, rewrite, pieces, k)])
         /\ Replaced(w, rewrite, pieces) \in Seq(0..255)
<1> DEFINE texts == [k \in 1..Len(pieces) |-> PieceText(w, rewrite, pieces, k)]
<1>1. Len(w) \in Nat
  BY LenProperties
<1>2. \A k \in 1..Len(pieces) : PieceText(w, rewrite, pieces, k) \in Seq(0..255)
  <2>. SUFFICES ASSUME NEW k \in 1..Len(pieces)
                PROVE  PieceText(w, rewrite, pieces, k) \in Seq(0..255)
    OBVIOUS
  <2>1. /\ pieces[k] \in PieceSet(w, 1 + MaxSubmatch(rewrite)) /\ Len(pieces) \in Nat
        /\ To(w, pieces, k) \in 0..Len(w)
    BY <1>1, PiecesAre
  <2>2. From(pieces, k) \in 0..Len(w)
    <3>1. k \in 1..(Len(pieces) + 1)
      BY <2>1
    <3>2. \A j \in 1..(Len(pieces) + 1) : From(pieces, j) \in 0..Len(w)
      BY <1>1, PiecesAre
    <3>. QED  BY <3>1, <3>2
  <2>3. Bytes(w, <<From(pieces, k), To(w, pieces, k)>>) \in Seq(0..255)
    BY <2>1, <2>2, BytesAre
  <2>4. Rewrite(w, rewrite, pieces[k]) \in Seq(0..255)
    BY <2>1, PieceRewrites
  <2>. QED  BY <2>3, <2>4, ConcatProperties DEF PieceText
<1>3. texts \in Seq(Seq(0..255))
  <2>1. Len(pieces) \in Nat
    BY LenProperties
  <2>. QED  BY <1>2, <2>1
<1>4. Replaced(w, rewrite, pieces) = FlattenSeq(texts)
  BY Zenon DEF Replaced, PieceText
<1>. HIDE DEF texts
<1>5. FlattenSeq(texts) \in Seq(0..255)
  BY <1>3, FlattenTyped
<1>. QED  BY <1>3, <1>4, <1>5 DEF texts

LEMMA ReplacedMore ==
  ASSUME NEW w \in Seq(0..255), NEW rewrite \in Seq(0..255),
         NEW pieces \in Seq(PieceSet(w, 1 + MaxSubmatch(rewrite))), NEW v \in PieceSet(w, 1 + MaxSubmatch(rewrite))
  PROVE  Replaced(w, rewrite, Append(pieces, v))
           = Replaced(w, rewrite, pieces)
               \o (Bytes(w, <<From(pieces, Len(pieces) + 1), v[0][1]>>) \o Rewrite(w, rewrite, v))
<1> DEFINE n == Len(pieces)
           more == Append(pieces, v)
           texts == [k \in 1..n |-> PieceText(w, rewrite, pieces, k)]
           new == Bytes(w, <<From(pieces, n + 1), v[0][1]>>) \o Rewrite(w, rewrite, v)
           all == [k \in 1..Len(more) |-> PieceText(w, rewrite, more, k)]
<1>1. Len(w) \in Nat /\ n \in Nat
  BY LenProperties
<1>2. /\ more \in Seq(PieceSet(w, 1 + MaxSubmatch(rewrite))) /\ Len(more) = n + 1 /\ more[n + 1] = v
      /\ \A k \in 1..n : more[k] = pieces[k] /\ To(w, more, k) = To(w, pieces, k)
      /\ \A k \in 1..(n + 1) : From(more, k) = From(pieces, k)
      /\ To(w, more, n + 1) = v[0][1]
  BY <1>1, MorePieces
<1>3. texts \in Seq(Seq(0..255)) /\ Replaced(w, rewrite, pieces) = FlattenSeq(texts)
  BY ReplacedIs
<1>. HIDE DEF more
<1>4. all \in Seq(Seq(0..255)) /\ Replaced(w, rewrite, more) = FlattenSeq(all)
  BY <1>2, ReplacedIs
<1>5. \A k \in 1..n : PieceText(w, rewrite, more, k) = PieceText(w, rewrite, pieces, k)
  <2>. SUFFICES ASSUME NEW k \in 1..n
                PROVE  PieceText(w, rewrite, more, k) = PieceText(w, rewrite, pieces, k)
    OBVIOUS
  <2>1. k \in 1..(n + 1)
    BY <1>1
  <2>. QED  BY <1>2, <2>1 DEF PieceText
<1>6. PieceText(w, rewrite, more, n + 1) = new
  <2>1. n + 1 \in 1..(n + 1)
    BY <1>1
  <2>. QED  BY <1>2, <2>1 DEF PieceText
<1>7. new \in Seq(0..255) /\ Len(all) = n + 1 /\ Len(texts) = n /\ all[n + 1] = new /\ \A k \in 1..n : all[k] = texts[k]
  <2>1. DOMAIN all = 1..(n + 1) /\ DOMAIN texts = 1..n
    BY <1>2
  <2>2. Len(all) = n + 1 /\ Len(texts) = n
    <3>1. n + 1 \in Nat
      BY <1>1
    <3>. QED  BY <1>1, <1>2, <3>1
  <2>3. all[n + 1] = new
    <3>1. n + 1 \in 1..Len(more)
      BY <1>1, <1>2
    <3>. HIDE DEF new
    <3>. QED  BY <1>6, <3>1
  <2>4. \A k \in 1..n : all[k] = texts[k]
    <3>1. \A k \in 1..n : k \in 1..Len(more)
      BY <1>1, <1>2
    <3>. QED  BY <1>5, <3>1
  <2>5. new \in Seq(0..255)
    <3>1. n + 1 \in 1..Len(all)
      BY <1>1, <2>2
    <3>. HIDE DEF all, new
    <3>2. all[n + 1] \in Seq(0..255)
      BY <1>4, <3>1, ElementOfSeq
    <3>. QED  BY <2>3, <3>2
  <2>. QED  BY <2>2, <2>3, <2>4, <2>5
<1>. HIDE DEF all, texts, new
<1>8. all = Append(texts, new)
  <2> DEFINE those == Append(texts, new)
  <2>1. /\ those \in Seq(Seq(0..255)) /\ Len(those) = n + 1 /\ those[n + 1] = new
        /\ \A k \in 1..n : those[k] = texts[k]
    BY <1>3, <1>7, AppendProperties
  <2>. HIDE DEF those
  <2>2. \A k \in 1..Len(all) : all[k] = those[k]
    <3>. SUFFICES ASSUME NEW k \in 1..Len(all)
                  PROVE  all[k] = those[k]
      OBVIOUS
    <3>1. k \in 1..n \/ k = n + 1
      BY <1>1, <1>7
    <3>. QED  BY <1>7, <2>1, <3>1
  <2>. QED  BY <1>4, <1>7, <2>1, <2>2, SeqEqual DEF those
<1>9. FlattenSeq(all) = FlattenSeq(texts) \o new
  BY <1>3, <1>7, <1>8, FlattenAppend
<1>. QED  BY <1>3, <1>4, <1>9 DEF new, more

\* GlobalReplace searches on with the same arguments from further on.
FitsSame(o, w, a, b) == \A q : FitsAt(o, w, q, a) = FitsAt(o, w, q, b) /\ BestAt(o, w, q, a) = BestAt(o, w, q, b)

LEMMA GlobalArgs ==
  ASSUME NEW o \in Objects, NEW w \in o.texts, NEW c \in Calls(o, w), c.kind = "GlobalReplace",
         nvec(c) <= 1 + o.caps, NEW g, g.p \in Nat
  PROVE  LET a == ArgsOf(c, w)
             b == ArgsNow(c, w, g)
         IN /\ w \in Seq(0..255) /\ Len(w) \in Nat /\ c.rewrite \in Seq(0..255)
            /\ nvec(c) = 1 + MaxSubmatch(c.rewrite) /\ nvec(c) \in Nat /\ nvec(c) > 0 /\ o.progs # {} /\ o.caps \in Nat
            /\ a = [startpos |-> 0, endpos |-> Len(w), anchor |-> "unanchored", nsubmatch |-> nvec(c)]
            /\ b = [a EXCEPT !.startpos = g.p] /\ ArgsFine(a) /\ ArgsFine(b)
            /\ b = [startpos |-> g.p, endpos |-> Len(w), anchor |-> "unanchored", nsubmatch |-> nvec(c)]
            /\ FitsSame(o, w, a, b)
            /\ \A q : q \in Starts(o, w, a) <=> q \in 0..Len(w) /\ FitsAt(o, w, q, a) # {}
            /\ \A q : q \in Starts(o, w, b) <=> q \in g.p..Len(w) /\ FitsAt(o, w, q, a) # {}
            /\ Wanted(o, w, a) = IF Starts(o, w, a) = {} THEN {} ELSE {Best(o, w, a)}
            /\ Wanted(o, w, b) = IF Starts(o, w, b) = {} THEN {} ELSE {Best(o, w, b)}
<1> DEFINE a == ArgsOf(c, w)
           b == ArgsNow(c, w, g)
<1>1. w \in Seq(0..255) /\ Len(w) \in Nat /\ c.rewrite \in Seq(0..255) /\ ArgsFine(a)
  BY ShapeIs, CallsAre DEF Rewritings
<1>2. c.kind \in Rewritings /\ c.kind # "Match"
  BY DEF Rewritings
<1>3. nvec(c) = 1 + MaxSubmatch(c.rewrite) /\ MaxSubmatch(c.rewrite) \in 0..9
  BY <1>2, MaxSubmatchIs DEF nvec
<1>4. o.progs # {} /\ o.caps \in Nat
  <2>1. o.caps # -1
    BY <1>3
  <2>. QED  BY <2>1, ShapeIs
<1>5. a = [startpos |-> 0, endpos |-> Len(w), anchor |-> "unanchored", nsubmatch |-> nvec(c)]
  BY <1>2 DEF ArgsOf, AnchorOf
<1>6. b = [a EXCEPT !.startpos = g.p]
  BY DEF ArgsNow
<1>. HIDE DEF a, b
<1>7. b = [startpos |-> g.p, endpos |-> Len(w), anchor |-> "unanchored", nsubmatch |-> nvec(c)]
  BY <1>5, <1>6
<1>8. ArgsFine(b)
  BY <1>1, <1>3, <1>7 DEF ArgsFine, Anchors
<1>9. a.startpos = 0 /\ b.startpos = g.p /\ a.endpos = Len(w) /\ b.endpos = Len(w)
      /\ a.anchor = "unanchored" /\ b.anchor = "unanchored"
  BY <1>5, <1>7
<1>10. FitsSame(o, w, a, b)
  BY <1>9 DEF FitsSame, FitsAt, BestAt
<1>11. /\ \A q : q \in Starts(o, w, a) <=> q \in 0..Len(w) /\ FitsAt(o, w, q, a) # {}
       /\ \A q : q \in Starts(o, w, b) <=> q \in g.p..Len(w) /\ FitsAt(o, w, q, b) # {}
  BY <1>9 DEF Starts
<1>12. \A q : q \in Starts(o, w, b) <=> q \in g.p..Len(w) /\ FitsAt(o, w, q, a) # {}
  BY <1>10, <1>11 DEF FitsSame
<1>13. ~(a.endpos > Len(w)) /\ ~(b.endpos > Len(w))
  BY <1>1, <1>9
<1>14. Wanted(o, w, a) = IF Starts(o, w, a) = {} THEN {} ELSE {Best(o, w, a)}
  BY <1>4, <1>13, WantedIs DEF Best, Leftmost
<1>15. Wanted(o, w, b) = IF Starts(o, w, b) = {} THEN {} ELSE {Best(o, w, b)}
  BY <1>4, <1>13, WantedIs DEF Best, Leftmost
<1>16. nvec(c) \in Nat /\ nvec(c) > 0
  BY <1>3
<1>. QED  BY <1>1, <1>3, <1>4, <1>5, <1>6, <1>7, <1>8, <1>10, <1>11, <1>12, <1>14, <1>15, <1>16 DEF a, b

LEMMA LoopBegins ==
  ASSUME NEW o \in Objects, NEW w \in o.texts, NEW c \in Calls(o, w), c.kind = "GlobalReplace"
  PROVE  LoopIs(o, w, c, NoLoop)
<1>1. w \in Seq(0..255) /\ Len(w) \in Nat
  BY ShapeIs
<1>2. NoLoop.pieces = <<>> /\ NoLoop.p = 0 /\ NoLoop.lastend = NULL /\ NoLoop.out = <<>>
  BY DEF NoLoop
<1>3. Len(<<>>) = 0 /\ From(<<>>, 0 + 1) = 0
  BY DEF From
<1>4. Replaced(w, c.rewrite, <<>>) = <<>>
  <2> DEFINE all == [k \in 1..Len(<<>>) |-> PieceText(w, c.rewrite, <<>>, k)]
  <2>1. Replaced(w, c.rewrite, <<>>) = FlattenSeq(all)
    BY Zenon DEF Replaced, PieceText
  <2>2. all = <<>>
    OBVIOUS
  <2>3. FlattenSeq(<<>>) = <<>>
    BY DEF FlattenSeq
  <2>. HIDE DEF all
  <2>. QED  BY <2>1, <2>2, <2>3
<1>5. SubSeq(w, 0 + 1, Upto(w, 0)) = <<>>
  <2>1. Upto(w, 0) = 0
    BY <1>1 DEF Upto
  <2>. QED  BY <2>1, SubSeqEmpty
<1>6. <<>> \in Seq(PieceSet(w, nvec(c)))
  OBVIOUS
<1>7. <<>> \o <<>> = <<>>
  OBVIOUS
<1>8. PICK g : g = NoLoop
  OBVIOUS
<1>9. /\ Len(g.pieces) = 0 /\ From(g.pieces, 0 + 1) = 0 /\ g.p = 0 /\ g.lastend = NULL /\ g.pieces \in Seq(PieceSet(w, nvec(c)))
      /\ g.out = Replaced(w, c.rewrite, g.pieces) \o SubSeq(w, 0 + 1, Upto(w, g.p))
  BY <1>2, <1>3, <1>4, <1>5, <1>6, <1>7, <1>8
<1>10. LoopIs(o, w, c, g)
  <2> DEFINE n == Len(g.pieces)
             from == From(g.pieces, n + 1)
  <2>1. n = 0 /\ from = 0
    BY <1>9
  <2>2. g.out = Replaced(w, c.rewrite, g.pieces) \o SubSeq(w, from + 1, Upto(w, g.p))
    BY <1>9, <2>1
  <2>3. /\ g.pieces \in Seq(PieceSet(w, nvec(c))) /\ g.p = 0 /\ g.lastend = NULL
    BY <1>9
  <2>. HIDE DEF n, from
  <2>4. /\ g.p \in Nat /\ from <= g.p /\ (n = 0 => g.lastend = NULL /\ g.p = 0) /\ ~(n > 0)
    BY <2>1, <2>3
  <2>5. 1..n = {} /\ from..(g.p - 1) = {}
    BY <2>1, <2>3
  <2>. QED  BY <2>2, <2>3, <2>4, <2>5 DEF LoopIs, n, from
<1>. QED  BY <1>8, <1>10

\* Texts one after another.
LEMMA Joined ==
  ASSUME NEW w \in Seq(0..255), NEW front \in Seq(0..255), NEW x \in 0..Len(w), NEW y \in x..Len(w), NEW z \in y..Len(w)
  PROVE  (front \o SubSeq(w, x + 1, y)) \o SubSeq(w, y + 1, z) = front \o SubSeq(w, x + 1, z)
<1>1. Len(w) \in Nat
  BY LenProperties
<1>2. x + 1 \in 1..(Len(w) + 1) /\ y \in ((x + 1) - 1)..Len(w) /\ y \in 0..Len(w) /\ z \in 0..Len(w)
  BY <1>1
<1>3. SubSeq(w, x + 1, y) \o SubSeq(w, y + 1, z) = SubSeq(w, x + 1, z)
  <2>1. PICK lo : lo = x + 1
    OBVIOUS
  <2>2. lo \in 1..(Len(w) + 1) /\ y \in (lo - 1)..Len(w)
    BY <1>2, <2>1
  <2>3. SubSeq(w, lo, y) \o SubSeq(w, y + 1, z) = SubSeq(w, lo, z)
    BY <2>2, ConcatAdjacentSubSeq
  <2>. QED  BY <2>1, <2>3
<1>4. SubSeq(w, x + 1, y) \in Seq(0..255) /\ SubSeq(w, y + 1, z) \in Seq(0..255)
  BY <1>2, BytesAre
<1> DEFINE t == SubSeq(w, x + 1, y)
           u == SubSeq(w, y + 1, z)
<1>. HIDE DEF t, u
<1>5. (front \o t) \o u = front \o (t \o u)
  <2>1. t \in Seq(0..255) /\ u \in Seq(0..255)
    BY <1>4 DEF t, u
  <2>. QED  BY <2>1, ConcatAssociative
<1>6. t \o u = SubSeq(w, x + 1, z)
  BY <1>3 DEF t, u
<1>. QED  BY <1>5, <1>6 DEF t, u

DoneWith(w, loop) ==
  IF loop.pieces = <<>> THEN [ok |-> FALSE, count |-> 0, out |-> w]
  ELSE [ok |-> TRUE, count |-> Len(loop.pieces), out |-> loop.out \o SubSeq(w, loop.p + 1, Len(w))]

\* Where there is no match from g.p on, the answer is right.
LEMMA LoopEnds ==
  ASSUME NEW o \in Objects, NEW w \in o.texts, NEW c \in Calls(o, w), c.kind = "GlobalReplace",
         nvec(c) <= 1 + o.caps, NEW g, LoopIs(o, w, c, g),
         \A q \in g.p..Len(w) : FitsAt(o, w, q, ArgsOf(c, w)) = {}
  PROVE  GlobalRight(o, w, c, g.pieces, DoneWith(w, g))
<1> DEFINE a == ArgsOf(c, w)
           pieces == g.pieces
           n == Len(pieces)
           from == From(pieces, n + 1)
           r == Replaced(w, c.rewrite, pieces)
           done == DoneWith(w, g)
<1>1. /\ pieces \in Seq(PieceSet(w, nvec(c))) /\ g.p \in Nat /\ from <= g.p
      /\ n = 0 => g.lastend = NULL /\ g.p = 0
      /\ n > 0 => g.lastend = from /\ Wanted(o, w, a) # {}
      /\ \A k \in 1..n : NoneMissed(o, w, a, pieces, k) /\ PieceRight(o, w, a, pieces, k)
      /\ \A q \in from..(g.p - 1) : FitsAt(o, w, q, a) = {} \/ (n > 0 /\ q \in Passed(o, w, from, a))
      /\ g.out = r \o SubSeq(w, from + 1, Upto(w, g.p))
  BY DEF LoopIs
<1>2. /\ w \in Seq(0..255) /\ Len(w) \in Nat /\ c.rewrite \in Seq(0..255)
      /\ nvec(c) = 1 + MaxSubmatch(c.rewrite)
      /\ \A q : q \in Starts(o, w, a) <=> q \in 0..Len(w) /\ FitsAt(o, w, q, a) # {}
      /\ Wanted(o, w, a) = IF Starts(o, w, a) = {} THEN {} ELSE {Best(o, w, a)}
  BY <1>1, GlobalArgs
<1>3. n \in Nat /\ from \in 0..Len(w) /\ r \in Seq(0..255)
  <2>1. n \in Nat
    BY <1>1, LenProperties
  <2>2. n + 1 \in 1..(n + 1)
    BY <2>1
  <2>3. from \in 0..Len(w)
    BY <1>1, <1>2, <2>2, PiecesAre
  <2>4. r \in Seq(0..255)
    BY <1>1, <1>2, ReplacedIs
  <2>. QED  BY <2>1, <2>3, <2>4
<1>. HIDE DEF a
<1>4. done.ok = (Wanted(o, w, a) # {})
  <2>1. CASE n = 0
    <3>1. pieces = <<>>
      BY <1>1, <2>1
    <3>2. done.ok = FALSE
      BY <3>1 DEF DoneWith
    <3>3. Starts(o, w, a) = {}
      BY <1>1, <1>2, <2>1 DEF a
    <3>4. Wanted(o, w, a) = {}
      BY <1>2, <3>3
    <3>. QED  BY <3>2, <3>4
  <2>2. CASE n # 0
    <3>1. pieces # <<>> /\ n > 0
      BY <1>3, <2>2
    <3>2. done.ok = TRUE
      BY <3>1 DEF DoneWith
    <3>3. (Wanted(o, w, a) # {}) = TRUE
      BY <1>1, <3>1
    <3>. QED  BY <3>2, <3>3
  <2>. QED  BY <2>1, <2>2
<1>5. NoneMissed(o, w, a, pieces, n + 1)
  <2>1. To(w, pieces, n + 1) = Len(w) + 1
    <3>1. n + 1 > Len(pieces)
      BY <1>3
    <3>. QED  BY <3>1 DEF To
  <2>. SUFFICES ASSUME NEW q \in from..((Len(w) + 1) - 1)
                PROVE  FitsAt(o, w, q, a) = {} \/ (n + 1 > 1 /\ q \in Passed(o, w, from, a))
    BY <2>1 DEF NoneMissed
  <2>2. CASE q < g.p
    <3>1. q \in from..(g.p - 1)
      BY <1>1, <1>2, <1>3, <2>2
    <3>. QED  BY <1>1, <1>3, <3>1
  <2>3. CASE ~(q < g.p)
    <3>1. q \in g.p..Len(w)
      BY <1>1, <1>2, <1>3, <2>3
    <3>. QED  BY <3>1 DEF a
  <2>. QED  BY <2>2, <2>3
<1>6. done.out = r \o SubSeq(w, from + 1, Len(w))
  <2>1. CASE n = 0
    <3>1. pieces = <<>> /\ from = 0
      BY <1>1, <2>1 DEF From
    <3>2. done.out = w
      BY <3>1 DEF DoneWith
    <3>3. r = <<>>
      <4> DEFINE all == [k \in 1..Len(pieces) |-> PieceText(w, c.rewrite, pieces, k)]
      <4>1. r = FlattenSeq(all)
        BY Zenon DEF Replaced, PieceText
      <4>2. all = <<>>
        BY <2>1
      <4>3. FlattenSeq(<<>>) = <<>>
        BY DEF FlattenSeq
      <4>. HIDE DEF all
      <4>. QED  BY <4>1, <4>2, <4>3
    <3>4. SubSeq(w, from + 1, Len(w)) = w
      <4>1. from + 1 = 1
        BY <3>1
      <4>. QED  BY <1>2, <4>1, SubSeqFull
    <3>. QED  BY <1>2, <3>2, <3>3, <3>4, ConcatEmptySeq
  <2>2. CASE n # 0
    <3>1. pieces # <<>>
      BY <1>3, <2>2
    <3>2. done.out = g.out \o SubSeq(w, g.p + 1, Len(w))
      BY <3>1 DEF DoneWith
    <3>3. CASE g.p <= Len(w)
      <4>1. Upto(w, g.p) = g.p /\ g.p \in from..Len(w) /\ Len(w) \in g.p..Len(w)
        BY <1>1, <1>2, <1>3, <3>3 DEF Upto
      <4>2. (r \o SubSeq(w, from + 1, g.p)) \o SubSeq(w, g.p + 1, Len(w)) = r \o SubSeq(w, from + 1, Len(w))
        <5>. HIDE DEF r, from
        <5>. QED  BY <1>2, <1>3, <4>1, Joined
      <4>. QED  BY <1>1, <3>2, <4>1, <4>2
    <3>4. CASE ~(g.p <= Len(w))
      <4>1. Upto(w, g.p) = Len(w)
        BY <3>4 DEF Upto
      <4>2. SubSeq(w, g.p + 1, Len(w)) = <<>>
        BY <1>1, <1>2, <3>4, SubSeqEmpty
      <4>3. SubSeq(w, from + 1, Len(w)) \in Seq(0..255)
        <5>1. Len(w) \in 0..Len(w)
          BY <1>2
        <5>. QED  BY <1>2, <1>3, <5>1, BytesAre
      <4>4. r \o SubSeq(w, from + 1, Len(w)) \in Seq(0..255)
        BY <1>3, <4>3, ConcatProperties
      <4>5. done.out = (r \o SubSeq(w, from + 1, Len(w))) \o <<>>
        BY <1>1, <3>2, <4>1, <4>2
      <4>. HIDE DEF r, done, from
      <4>6. (r \o SubSeq(w, from + 1, Len(w))) \o <<>> = r \o SubSeq(w, from + 1, Len(w))
        BY <4>4, ConcatEmptySeq
      <4>. QED  BY <4>5, <4>6
    <3>. QED  BY <3>3, <3>4
  <2>. QED  BY <2>1, <2>2
<1>7. \A k \in 1..(n + 1) : NoneMissed(o, w, a, pieces, k)
  <2>1. \A k \in 1..(n + 1) : k \in 1..n \/ k = n + 1
    BY <1>3
  <2>. QED  BY <1>1, <1>5, <2>1
<1>. HIDE DEF pieces, done
<1>. QED  BY <1>1, <1>4, <1>6, <1>7 DEF GlobalRight, a, pieces, done

\* What the search that goes on from g.p finds.
LEMMA NextMatch ==
  ASSUME NEW o \in Objects, NEW w \in o.texts, NEW c \in Calls(o, w), c.kind = "GlobalReplace",
         nvec(c) <= 1 + o.caps, NEW g, LoopIs(o, w, c, g), NEW way \in Wanted(o, w, ArgsNow(c, w, g))
  PROVE  LET a == ArgsOf(c, w)
             s == way.cap[0]
             v == Vec(o, way, nvec(c))
         IN /\ s \in g.p..Len(w) /\ way.p \in s..Len(w) /\ FitsAt(o, w, s, a) # {} /\ way = BestAt(o, w, s, a)
            /\ \A q \in g.p..(s - 1) : FitsAt(o, w, q, a) = {}
            /\ v \in PieceSet(w, nvec(c)) /\ v[0] = <<s, way.p>> /\ v[0][1] = s /\ v[0][2] = way.p
            /\ v[0] \in Spans(w)
<1> DEFINE a == ArgsOf(c, w)
           b == ArgsNow(c, w, g)
           s == Leftmost(o, w, b)
           v == Vec(o, way, nvec(c))
<1>1. g.p \in Nat
  BY DEF LoopIs
<1>2. /\ Len(w) \in Nat /\ o.progs # {} /\ o.caps \in Nat /\ ArgsFine(b) /\ nvec(c) \in Nat /\ nvec(c) > 0
      /\ FitsSame(o, w, a, b)
      /\ \A q : q \in Starts(o, w, b) <=> q \in g.p..Len(w) /\ FitsAt(o, w, q, a) # {}
      /\ Wanted(o, w, b) = IF Starts(o, w, b) = {} THEN {} ELSE {Best(o, w, b)}
      /\ b.endpos <= Len(w)
  <2>1. b = [startpos |-> g.p, endpos |-> Len(w), anchor |-> "unanchored", nsubmatch |-> nvec(c)] /\ Len(w) \in Nat
    BY <1>1, GlobalArgs
  <2>2. b.endpos <= Len(w)
    BY <2>1
  <2>. QED  BY <1>1, <2>2, GlobalArgs
<1>3. ProgOf(o) \in o.progs
  BY <1>2, ProgIs
<1>. HIDE DEF a, b
<1>4. way \in Wanted(o, w, b)
  BY DEF b
<1>5. Starts(o, w, b) # {} /\ way = Best(o, w, b)
  BY <1>2, <1>4
<1>6. s \in Starts(o, w, b) /\ s \in 0..Len(w) /\ \A q \in Starts(o, w, b) : s <= q
  BY <1>2, <1>3, <1>5, StartsAre DEF Leftmost
<1>7. s \in g.p..Len(w) /\ FitsAt(o, w, s, a) # {} /\ FitsAt(o, w, s, b) # {} /\ way = BestAt(o, w, s, b)
      /\ way = BestAt(o, w, s, a)
  BY <1>2, <1>5, <1>6 DEF Best, FitsSame
<1>. HIDE DEF s
<1>8. BestWay(o, ProgOf(o), w, s, b, way)
  <2>1. BestWay(o, ProgOf(o), w, s, b, BestAt(o, w, s, b))
    BY <1>2, <1>3, <1>6, <1>7, BestAtIs
  <2>. QED  BY <1>7, <2>1
<1>9. /\ way.cap[0] = s /\ way.p \in s..Len(w)
      /\ \A i \in 1..o.caps : SpanOf(way, i, o.caps) \in Spans(w) \cup {None}
  BY <1>8 DEF BestWay
<1>10. \A q \in g.p..(s - 1) : FitsAt(o, w, q, a) = {}
  <2>. SUFFICES ASSUME NEW q \in g.p..(s - 1), FitsAt(o, w, q, a) # {}
                PROVE  FALSE
    OBVIOUS
  <2>1. q \in g.p..Len(w) /\ q < s
    BY <1>1, <1>2, <1>7
  <2>2. s <= q
    BY <1>2, <1>6, <2>1
  <2>. QED  BY <1>1, <1>7, <2>1, <2>2
<1>11. SpanOf(way, 0, o.caps) = <<s, way.p>> /\ <<s, way.p>> \in Spans(w)
  <2>1. SpanOf(way, 0, o.caps) = <<s, way.p>>
    BY <1>9 DEF SpanOf
  <2>2. s \in 0..Len(w) /\ way.p \in 0..Len(w) /\ s <= way.p
    BY <1>2, <1>6, <1>9
  <2>. QED  BY <2>1, <2>2 DEF Spans
<1>12. \A i \in 0..(nvec(c) - 1) : SpanOf(way, i, o.caps) \in Spans(w) \cup {None}
  <2>. SUFFICES ASSUME NEW i \in 0..(nvec(c) - 1)
                PROVE  SpanOf(way, i, o.caps) \in Spans(w) \cup {None}
    OBVIOUS
  <2>1. CASE i = 0
    BY <1>11, <2>1
  <2>2. CASE i \in 1..o.caps
    BY <1>9, <2>2
  <2>3. CASE i # 0 /\ i \notin 1..o.caps
    BY <2>3 DEF SpanOf
  <2>. QED  BY <2>1, <2>2, <2>3
<1>13. v[0] = <<s, way.p>>
  <2>1. 0 \in 0..(nvec(c) - 1)
    BY <1>2
  <2>. QED  BY <1>2, <1>11, <2>1, VecIs
<1>14. v \in PieceSet(w, nvec(c))
  <2>1. v \in [0..(nvec(c) - 1) -> Spans(w) \cup {None}]
    BY <1>12 DEF Vec
  <2>. QED  BY <1>11, <1>13, <2>1 DEF PieceSet
<1>. QED  BY <1>7, <1>9, <1>10, <1>11, <1>13, <1>14 DEF a, b

\* The match is another piece.
LEMMA LoopTakes ==
  ASSUME NEW o \in Objects, NEW w \in o.texts, NEW c \in Calls(o, w), c.kind = "GlobalReplace",
         nvec(c) <= 1 + o.caps, NEW g, LoopIs(o, w, c, g), g.p <= Len(w),
         NEW way \in Wanted(o, w, ArgsNow(c, w, g)),
         NEW v, v = Vec(o, way, nvec(c)), v[0] # <<g.lastend, g.lastend>>
  PROVE  LoopIs(o, w, c, [p |-> v[0][2], lastend |-> v[0][2],
                          out |-> g.out \o Bytes(w, <<g.p, v[0][1]>>) \o Rewrite(w, c.rewrite, v),
                          pieces |-> Append(g.pieces, v)])
<1> DEFINE a == ArgsOf(c, w)
           pieces == g.pieces
           n == Len(pieces)
           from == From(pieces, n + 1)
           s == way.cap[0]
           more == Append(pieces, v)
           rw == Rewrite(w, c.rewrite, v)
           r == Replaced(w, c.rewrite, pieces)
           out == g.out \o Bytes(w, <<g.p, v[0][1]>>) \o rw
<1>1. /\ pieces \in Seq(PieceSet(w, nvec(c))) /\ g.p \in Nat /\ from <= g.p
      /\ n > 0 => g.lastend = from
      /\ \A k \in 1..n : NoneMissed(o, w, a, pieces, k) /\ PieceRight(o, w, a, pieces, k)
      /\ \A q \in from..(g.p - 1) : FitsAt(o, w, q, a) = {} \/ (n > 0 /\ q \in Passed(o, w, from, a))
      /\ n > 0 /\ g.p > from => \A q \in Passed(o, w, from, a) : q < g.p
      /\ g.out = r \o SubSeq(w, from + 1, Upto(w, g.p))
  BY DEF LoopIs
<1>2. /\ w \in Seq(0..255) /\ Len(w) \in Nat /\ c.rewrite \in Seq(0..255)
      /\ nvec(c) = 1 + MaxSubmatch(c.rewrite) /\ a.nsubmatch = nvec(c)
      /\ \A q : q \in Starts(o, w, a) <=> q \in 0..Len(w) /\ FitsAt(o, w, q, a) # {}
      /\ Wanted(o, w, a) = IF Starts(o, w, a) = {} THEN {} ELSE {Best(o, w, a)}
      /\ o.latin1 \in BOOLEAN
  <2>1. a = [startpos |-> 0, endpos |-> Len(w), anchor |-> "unanchored", nsubmatch |-> nvec(c)]
    BY <1>1, GlobalArgs
  <2>2. a.nsubmatch = nvec(c)
    BY <2>1
  <2>. QED  BY <1>1, <2>2, GlobalArgs, ShapeIs, SMTT(30)
<1>3. n \in Nat /\ from \in 0..Len(w)
  <2>1. n \in Nat
    BY <1>1, LenProperties
  <2>2. n + 1 \in 1..(n + 1)
    BY <2>1
  <2>. QED  BY <1>1, <1>2, <2>1, <2>2, PiecesAre
<1>4. /\ s \in g.p..Len(w) /\ way.p \in s..Len(w) /\ FitsAt(o, w, s, a) # {} /\ way = BestAt(o, w, s, a)
      /\ \A q \in g.p..(s - 1) : FitsAt(o, w, q, a) = {}
      /\ v \in PieceSet(w, nvec(c)) /\ v[0] = <<s, way.p>> /\ v[0][1] = s /\ v[0][2] = way.p
  BY NextMatch
<1>5. /\ more \in Seq(PieceSet(w, nvec(c))) /\ Len(more) = n + 1 /\ more[n + 1] = v
      /\ \A k \in 1..n : more[k] = pieces[k] /\ To(w, more, k) = To(w, pieces, k)
      /\ \A k \in 1..(n + 1) : From(more, k) = From(pieces, k)
      /\ From(more, n + 2) = v[0][2] /\ To(w, more, n + 1) = v[0][1]
  BY <1>1, <1>2, <1>4, MorePieces
<1>. HIDE DEF a, pieces, s, more
<1>6. \A k \in 1..n : NoneMissed(o, w, a, more, k) /\ PieceRight(o, w, a, more, k)
  <2>. SUFFICES ASSUME NEW k \in 1..n
                PROVE  NoneMissed(o, w, a, more, k) /\ PieceRight(o, w, a, more, k)
    OBVIOUS
  <2>1. /\ From(more, k) = From(pieces, k) /\ To(w, more, k) = To(w, pieces, k) /\ more[k] = pieces[k]
    <3>1. k \in 1..(n + 1)
      BY <1>3
    <3>. QED  BY <1>5, <3>1
  <2>2. NoneMissed(o, w, a, pieces, k) /\ PieceRight(o, w, a, pieces, k)
    BY <1>1
  <2>. QED  BY <2>1, <2>2 DEF NoneMissed, PieceRight
<1>7. From(more, n + 1) = from /\ To(w, more, n + 1) = s /\ from <= s /\ s \in Nat
  <2>1. n + 1 \in 1..(n + 1)
    BY <1>3
  <2>. QED  BY <1>1, <1>3, <1>4, <1>5, <2>1
<1>8. NoneMissed(o, w, a, more, n + 1)
  <2>. SUFFICES ASSUME NEW q \in from..(s - 1)
                PROVE  FitsAt(o, w, q, a) = {} \/ (n + 1 > 1 /\ q \in Passed(o, w, from, a))
    BY <1>7 DEF NoneMissed
  <2>1. CASE q < g.p
    <3>1. q \in from..(g.p - 1)
      BY <1>1, <1>3, <1>7, <2>1
    <3>. QED  BY <1>1, <1>3, <3>1
  <2>2. CASE ~(q < g.p)
    <3>1. q \in g.p..(s - 1)
      BY <1>1, <1>3, <1>7, <2>2
    <3>. QED  BY <1>4, <3>1
  <2>. QED  BY <2>1, <2>2
<1>9. n > 0 => s \notin Passed(o, w, from, a)
  <2>. SUFFICES ASSUME n > 0, s \in Passed(o, w, from, a)
                PROVE  FALSE
    OBVIOUS
  <2>1. CASE g.p > from
    BY <1>1, <1>4, <1>7, <2>1
  <2>2. CASE ~(g.p > from)
    <3>1. g.p = from
      BY <1>1, <1>3, <2>2
    <3>2. FitsAt(o, w, from, a) # {} /\ BestAt(o, w, from, a).p = from
      <4>1. Passed(o, w, from, a) # {}
        OBVIOUS
      <4>. SUFFICES ASSUME ~(FitsAt(o, w, from, a) # {} /\ BestAt(o, w, from, a).p = from)
                    PROVE  FALSE
        OBVIOUS
      <4>. HIDE DEF from
      <4>2. Passed(o, w, from, a) = {}
        BY Zenon DEF Passed
      <4>. QED  BY <4>1, <4>2
    <3>3. s = from
      <4>1. from \notin g.p..(s - 1)
        BY <1>4, <3>2
      <4>. QED  BY <1>3, <1>7, <3>1, <4>1
    <3>4. way.p = from
      BY <1>4, <3>2, <3>3
    <3>5. v[0] = <<g.lastend, g.lastend>>
      BY <1>1, <1>4, <3>3, <3>4
    <3>. QED  BY <3>5
  <2>. QED  BY <2>1, <2>2
<1>10. PieceRight(o, w, a, more, n + 1)
  <2>1. more[n + 1] = Vec(o, BestAt(o, w, s, a), a.nsubmatch)
    BY <1>2, <1>4, <1>5
  <2>2. n + 1 > 1 => n > 0
    BY <1>3
  <2>. QED  BY <1>7, <1>9, <2>1, <2>2 DEF PieceRight
<1>11. Wanted(o, w, a) # {}
  <2>1. s \in Starts(o, w, a)
    <3>1. s \in 0..Len(w)
      BY <1>1, <1>2, <1>4
    <3>. QED  BY <1>2, <1>4, <3>1
  <2>. QED  BY <1>2, <2>1
<1>12. out = Replaced(w, c.rewrite, more) \o SubSeq(w, way.p + 1, Upto(w, way.p))
  <2> DEFINE pre == SubSeq(w, from + 1, s)
  <2>1. /\ r \in Seq(0..255) /\ rw \in Seq(0..255)
        /\ Replaced(w, c.rewrite, more) = r \o (Bytes(w, <<from, s>>) \o rw)
    <3>1. r \in Seq(0..255)
      BY <1>1, <1>2, ReplacedIs
    <3>2. rw \in Seq(0..255)
      BY <1>2, <1>4, PieceRewrites
    <3>3. Replaced(w, c.rewrite, more) = r \o (Bytes(w, <<from, v[0][1]>>) \o rw)
      <4>1. pieces \in Seq(PieceSet(w, 1 + MaxSubmatch(c.rewrite))) /\ v \in PieceSet(w, 1 + MaxSubmatch(c.rewrite))
        BY <1>1, <1>2, <1>4
      <4>. QED  BY <1>2, <4>1, ReplacedMore DEF more
    <3>. QED  BY <1>4, <3>1, <3>2, <3>3
  <2>2. g.p \in from..Len(w) /\ s \in g.p..Len(w) /\ g.p \in 0..Len(w) /\ s \in 0..Len(w) /\ Upto(w, g.p) = g.p
    BY <1>1, <1>2, <1>3, <1>4 DEF Upto
  <2>3. Bytes(w, <<g.p, s>>) = SubSeq(w, g.p + 1, s) /\ Bytes(w, <<from, s>>) = pre /\ pre \in Seq(0..255)
    BY <1>2, <1>3, <2>2, BytesAre
  <2>. HIDE DEF r, rw, from, pre
  <2>4. (r \o SubSeq(w, from + 1, g.p)) \o SubSeq(w, g.p + 1, s) = r \o pre
    BY <1>2, <1>3, <2>1, <2>2, Joined DEF pre
  <2>5. g.out \o Bytes(w, <<g.p, s>>) = r \o pre
    BY <1>1, <2>2, <2>3, <2>4
  <2>6. out = (r \o pre) \o rw
    BY <1>4, <2>5
  <2>7. (r \o pre) \o rw = r \o (pre \o rw)
    BY <2>1, <2>3, ConcatAssociative
  <2>8. Replaced(w, c.rewrite, more) \in Seq(0..255)
    BY <1>2, <1>5, ReplacedIs
  <2>9. SubSeq(w, way.p + 1, Upto(w, way.p)) = <<>>
    <3>1. way.p \in Nat /\ Upto(w, way.p) = way.p
      BY <1>2, <1>4, <1>7 DEF Upto
    <3>. QED  BY <3>1, SubSeqEmpty
  <2>. HIDE DEF out
  <2>10. out = Replaced(w, c.rewrite, more)
    BY <2>1, <2>3, <2>6, <2>7
  <2>. QED  BY <2>8, <2>9, <2>10, ConcatEmptySeq
<1> DEFINE h == [p |-> v[0][2], lastend |-> v[0][2], out |-> out, pieces |-> more]
<1>13. h.p = way.p /\ h.lastend = way.p /\ h.out = out /\ h.pieces = more
  BY <1>4
<1>. HIDE DEF h, out, from
<1> DEFINE m == Len(h.pieces)
           till == From(h.pieces, m + 1)
<1>14. m = n + 1 /\ till = way.p /\ way.p \in Nat
  <2>1. m = n + 1
    BY <1>5, <1>13
  <2>2. m + 1 = n + 2
    BY <1>3, <2>1
  <2>. QED  BY <1>4, <1>5, <1>7, <1>13, <2>1, <2>2
<1>15. \A k \in 1..m : NoneMissed(o, w, a, h.pieces, k) /\ PieceRight(o, w, a, h.pieces, k)
  <2>1. \A k \in 1..m : k \in 1..n \/ k = n + 1
    BY <1>3, <1>14
  <2>. QED  BY <1>6, <1>8, <1>10, <1>13, <2>1
<1>. HIDE DEF m, till
<1>16. /\ h.pieces \in Seq(PieceSet(w, nvec(c))) /\ h.p \in Nat /\ till <= h.p
       /\ m = 0 => h.lastend = NULL /\ h.p = 0
       /\ m > 0 => h.lastend = till /\ Wanted(o, w, a) # {}
       /\ \A q \in till..(h.p - 1) : FALSE
       /\ ~(h.p > till)
       /\ h.out = Replaced(w, c.rewrite, h.pieces) \o SubSeq(w, till + 1, Upto(w, h.p))
  BY <1>3, <1>5, <1>11, <1>12, <1>13, <1>14
<1>17. LoopIs(o, w, c, h)
  BY <1>15, <1>16 DEF LoopIs, m, till, a
<1>. QED  BY <1>17 DEF h, out, more, pieces

\* An empty match at the end of the last piece is passed over.
LEMMA LoopSkips ==
  ASSUME NEW o \in Objects, NEW w \in o.texts, NEW c \in Calls(o, w), c.kind = "GlobalReplace",
         nvec(c) <= 1 + o.caps, NEW g, LoopIs(o, w, c, g), g.p <= Len(w),
         NEW way \in Wanted(o, w, ArgsNow(c, w, g)),
         Vec(o, way, nvec(c))[0] = <<g.lastend, g.lastend>>,
         NEW next, next = g.p + Ahead(w, g.p, o.latin1),
         NEW h, h.p = next, h.lastend = g.lastend, h.pieces = g.pieces,
         h.out = g.out \o Bytes(w, <<g.p, Min({next, Len(w)})>>)
  PROVE  LoopIs(o, w, c, h) /\ h.p \in Nat
<1> DEFINE a == ArgsOf(c, w)
           n == Len(g.pieces)
           from == From(g.pieces, n + 1)
           r == Replaced(w, c.rewrite, g.pieces)
           s == way.cap[0]
<1>1. /\ g.pieces \in Seq(PieceSet(w, nvec(c))) /\ g.p \in Nat /\ from <= g.p
      /\ n = 0 => g.lastend = NULL /\ g.p = 0
      /\ n > 0 => g.lastend = from /\ Wanted(o, w, a) # {}
      /\ \A k \in 1..n : NoneMissed(o, w, a, g.pieces, k) /\ PieceRight(o, w, a, g.pieces, k)
      /\ g.out = r \o SubSeq(w, from + 1, Upto(w, g.p))
  BY DEF LoopIs
<1>2. /\ w \in Seq(0..255) /\ Len(w) \in Nat /\ c.rewrite \in Seq(0..255) /\ nvec(c) = 1 + MaxSubmatch(c.rewrite)
      /\ o.latin1 \in BOOLEAN
  BY <1>1, GlobalArgs, ShapeIs
<1>3. n \in Nat /\ from \in 0..Len(w) /\ r \in Seq(0..255)
  <2>1. n \in Nat
    BY <1>1, LenProperties
  <2>2. n + 1 \in 1..(n + 1)
    BY <2>1
  <2>3. from \in 0..Len(w)
    BY <1>1, <1>2, <2>2, PiecesAre
  <2>4. r \in Seq(0..255)
    BY <1>1, <1>2, ReplacedIs
  <2>. QED  BY <2>1, <2>3, <2>4
<1>4. /\ s \in g.p..Len(w) /\ way.p \in s..Len(w) /\ FitsAt(o, w, s, a) # {} /\ way = BestAt(o, w, s, a)
      /\ g.lastend = s /\ g.lastend = way.p
  <2>1. /\ s \in g.p..Len(w) /\ way.p \in s..Len(w) /\ FitsAt(o, w, s, a) # {} /\ way = BestAt(o, w, s, a)
        /\ Vec(o, way, nvec(c))[0] = <<s, way.p>>
    BY NextMatch
  <2>. QED  BY <2>1
<1>. HIDE DEF a, s
<1>5. n > 0
  <2>. SUFFICES ASSUME n = 0
                PROVE  FALSE
    BY <1>3
  <2>. QED  BY <1>1, <1>4 DEF NULL
<1>6. g.p = from /\ s = from /\ way.p = from /\ from \in Nat
  BY <1>1, <1>3, <1>4, <1>5
<1>7. next \in Nat /\ from < next /\ Passed(o, w, from, a) = from..(next - 1)
  <2>1. from \in Nat /\ o.latin1 \in BOOLEAN /\ FitsAt(o, w, from, a) # {} /\ BestAt(o, w, from, a).p = from
        /\ next = from + Ahead(w, from, o.latin1)
    BY <1>2, <1>4, <1>6
  <2>. HIDE DEF from
  <2>2. PICK k \in 1..4 : Ahead(w, from, o.latin1) = k /\ Passed(o, w, from, a) = from..(from + k - 1)
    BY <2>1, EmptyPassed
  <2>3. next = from + k /\ from + k - 1 = next - 1
    BY <2>1, <2>2
  <2>. QED  BY <2>1, <2>2, <2>3
<1> DEFINE upto == Min({next, Len(w)})
<1>8. upto = Upto(w, next) /\ upto \in from..Len(w)
  <2>1. CASE next <= Len(w)
    <3>1. upto = next
      <4> DEFINE S == {next, Len(w)}
      <4>1. S \in SUBSET Nat /\ next \in S /\ \A m \in S : next <= m
        BY <1>2, <1>7, <2>1
      <4>. HIDE DEF S
      <4>2. Min(S) = next
        BY <4>1, LeastIs
      <4>. QED  BY <4>2 DEF S
    <3>. QED  BY <1>2, <1>3, <1>7, <2>1, <3>1 DEF Upto
  <2>2. CASE ~(next <= Len(w))
    <3>1. upto = Len(w)
      <4> DEFINE S == {next, Len(w)}
      <4>1. S \in SUBSET Nat /\ Len(w) \in S /\ \A m \in S : Len(w) <= m
        BY <1>2, <1>7, <2>2
      <4>. HIDE DEF S
      <4>2. Min(S) = Len(w)
        BY <4>1, LeastIs
      <4>. QED  BY <4>2 DEF S
    <3>. QED  BY <1>2, <1>3, <2>2, <3>1 DEF Upto
  <2>. QED  BY <2>1, <2>2
<1>. HIDE DEF upto, from
<1>9. h.out = r \o SubSeq(w, from + 1, Upto(w, next))
  <2>1. Upto(w, g.p) = from /\ from \in from..Len(w) /\ from \in 0..Len(w) /\ upto \in 0..Len(w)
    BY <1>2, <1>3, <1>6, <1>8 DEF Upto
  <2>2. Bytes(w, <<g.p, upto>>) = SubSeq(w, from + 1, upto)
    BY <1>2, <1>6, <2>1, BytesAre
  <2>3. h.out = (r \o SubSeq(w, from + 1, from)) \o SubSeq(w, from + 1, upto)
    BY <1>1, <2>1, <2>2 DEF upto
  <2>. HIDE DEF r
  <2>4. (r \o SubSeq(w, from + 1, from)) \o SubSeq(w, from + 1, upto) = r \o SubSeq(w, from + 1, upto)
    BY <1>2, <1>3, <1>8, <2>1, Joined
  <2>. QED  BY <1>8, <2>3, <2>4
<1>10. /\ h.p \in Nat /\ from <= h.p /\ h.lastend = from
       /\ \A q \in from..(h.p - 1) : q \in Passed(o, w, from, a)
       /\ \A q \in Passed(o, w, from, a) : q < h.p
  <2>1. h.p = next /\ h.lastend = from
    BY <1>4, <1>6
  <2>2. from <= next
    BY <1>6, <1>7
  <2>3. \A q \in Passed(o, w, from, a) : q < next
    BY <1>6, <1>7
  <2>. QED  BY <1>7, <2>1, <2>2, <2>3
<1>11. h.pieces = g.pieces /\ h.p = next
  OBVIOUS
<1>12. LoopIs(o, w, c, h)
  <2> DEFINE m == Len(h.pieces)
             till == From(h.pieces, m + 1)
  <2>1. m = n /\ till = from
    BY <1>11 DEF from
  <2>2. \A k \in 1..m : NoneMissed(o, w, a, h.pieces, k) /\ PieceRight(o, w, a, h.pieces, k)
    BY <1>1, <1>11, <2>1
  <2>3. h.out = Replaced(w, c.rewrite, h.pieces) \o SubSeq(w, till + 1, Upto(w, h.p))
    BY <1>9, <1>11, <2>1
  <2>. HIDE DEF m, till
  <2>4. /\ h.pieces \in Seq(PieceSet(w, nvec(c))) /\ h.p \in Nat /\ till <= h.p
        /\ ~(m = 0) /\ m > 0 /\ h.lastend = till /\ Wanted(o, w, a) # {}
        /\ \A q \in till..(h.p - 1) : q \in Passed(o, w, till, a)
        /\ \A q \in Passed(o, w, till, a) : q < h.p
    BY <1>1, <1>3, <1>5, <1>10, <1>11, <2>1
  <2>. QED  BY <2>2, <2>3, <2>4 DEF LoopIs, a, m, till
<1>. QED  BY <1>10, <1>12

(***************************************************************************)
(* The invariant.                                                          *)
(***************************************************************************)
LoopNow == pc \in Searching /\ call.kind = "GlobalReplace" => LoopIs(object, text, call, global)
MatchInv == MatchState /\ LoopNow /\ AnswersRight /\ ReplacedRight

\* Nothing has been answered before the call is.
LEMMA NotAnswered ==
  ASSUME pc # "answered"
  PROVE  AnswersRight /\ ReplacedRight
  BY DEF AnswersRight, ReplacedRight, Asked

LEMMA InitInv ==
  ASSUME MatchInit
  PROVE  MatchInv
<1>1. /\ pc = "idle" /\ args = NoArgs /\ submatch = <<>> /\ global = NoLoop
      /\ object \in Objects /\ rprog = "unbuilt"
  BY DEF MatchInit, MatchIdle
<1>2. ObjectIs /\ CallIs /\ RestIs /\ ArgsAre /\ LoopNow
  BY <1>1 DEF ObjectIs, CallIs, RestIs, ArgsAre, LoopNow, Searching
<1>3. SearchNow /\ FoundNow
  BY <1>1 DEF SearchNow, SearchIs, FoundNow, FoundIs
<1>4. AnswersRight /\ ReplacedRight
  BY <1>1, NotAnswered
<1>. QED  BY <1>2, <1>3, <1>4 DEF MatchInv, MatchState

\* Steps of Match itself.
LEMMA SearchInv ==
  ASSUME MatchInv, UNCHANGED Around, pc \in Searching, rprog' = rprog \/ ReverseProg,
         SearchNow' /\ FoundNow' /\ pc' \in Searching
  PROVE  MatchInv'
<1>1. ObjectIs' /\ CallIs' /\ RestIs' /\ ArgsAre'
  BY SearchKeeps DEF MatchInv, MatchState
<1>2. LoopNow'
  BY DEF MatchInv, LoopNow, Around
<1>3. pc' # "answered"
  BY DEF Searching
<1>4. AnswersRight' /\ ReplacedRight'
  BY <1>3 DEF AnswersRight, ReplacedRight, Asked
<1>. QED  BY <1>1, <1>2, <1>4 DEF MatchInv, MatchState

\* Calls that are answered.
LEMMA AnsweredInv ==
  ASSUME MatchInv, pc \in Searching, pc' = "answered", UNCHANGED <<object, rprog, text, call>>,
         args'.nsubmatch = 0 => DOMAIN submatch' = {}, AnswersRight' /\ ReplacedRight'
  PROVE  MatchInv'
<1>1. ObjectIs' /\ CallIs' /\ RestIs' /\ ArgsAre'
  BY DEF MatchInv, MatchState, ObjectIs, CallIs, RestIs, ArgsAre, Searching
<1>2. LoopNow' /\ SearchNow' /\ FoundNow'
  BY DEF LoopNow, SearchNow, SearchIs, FoundNow, FoundIs, Searching
<1>. QED  BY <1>1, <1>2 DEF MatchInv, MatchState

LEMMA CallMadeInv ==
  ASSUME MatchInv, CallMade
  PROVE  MatchInv'
<1>1. /\ pc = "idle" /\ args = NoArgs /\ submatch = <<>> /\ global = NoLoop /\ object \in Objects
      /\ rprog \in {"unbuilt", "built", "failed"} /\ (rprog = "built" => object.rprogs # {})
  BY DEF CallMade, MatchInv, MatchState, RestIs, ObjectIs
<1>0. PICK w \in object.texts : \E c \in Calls(object, w) :
        /\ text' = w /\ call' = c
        /\ IF Refused(c) THEN Answered(No) /\ UNCHANGED args
           ELSE MatchWith(ArgsOf(c, w)) /\ UNCHANGED answer
  BY DEF CallMade
<1>2. PICK c \in Calls(object, w) :
        /\ text' = w /\ call' = c
        /\ IF Refused(c) THEN Answered(No) /\ UNCHANGED args
           ELSE MatchWith(ArgsOf(c, w)) /\ UNCHANGED answer
  BY <1>0
<1>3. UNCHANGED <<object, isOnePass, rprog, anchoring, skipped, match, found, submatch, global>>
  BY DEF CallMade
<1>4. ObjectIs' /\ CallIs'
  BY <1>1, <1>2, <1>3 DEF ObjectIs, CallIs
<1>5. Refused(call)' = Refused(c)
  BY <1>2, <1>3 DEF Refused, ok, NumberOfCapturingGroups
<1>6. CASE Refused(c)
  <2>1. pc' = "answered" /\ args' = NoArgs /\ submatch' = <<>>
    BY <1>1, <1>2, <1>3, <1>6 DEF Answered
  <2>2. RestIs' /\ ArgsAre' /\ LoopNow' /\ SearchNow' /\ FoundNow'
    BY <2>1 DEF RestIs, ArgsAre, LoopNow, SearchNow, SearchIs, FoundNow, FoundIs, Searching
  <2>3. AnswersRight' /\ ReplacedRight'
    BY <1>5, <1>6 DEF AnswersRight, ReplacedRight, Asked
  <2>. QED  BY <1>4, <2>2, <2>3 DEF MatchInv, MatchState
<1>7. CASE ~Refused(c)
  <2>1. pc' = "match" /\ args' = ArgsOf(c, w) /\ submatch' = <<>> /\ global' = NoLoop
    BY <1>1, <1>2, <1>3, <1>7 DEF MatchWith
  <2>2. RestIs' /\ SearchNow' /\ FoundNow'
    BY <2>1 DEF RestIs, SearchNow, SearchIs, FoundNow, FoundIs
  <2>3. ArgsFine(ArgsOf(c, w))
    BY <1>1, CallsAre
  <2>4. ArgsOf(c, w) = ArgsNow(c, w, NoLoop)
    <3>1. c.kind = "GlobalReplace" => [ArgsOf(c, w) EXCEPT !.startpos = 0] = ArgsOf(c, w)
      BY DEF ArgsOf
    <3>2. NoLoop.p = 0
      BY DEF NoLoop
    <3>. QED  BY <3>1, <3>2 DEF ArgsNow
  <2>5. ArgsAre'
    BY <1>2, <1>5, <1>7, <2>1, <2>3, <2>4 DEF ArgsAre
  <2>6. LoopNow'
    <3>1. c.kind = "GlobalReplace" => LoopIs(object, w, c, NoLoop)
      BY <1>1, LoopBegins
    <3>. QED  BY <1>2, <1>3, <2>1, <3>1 DEF LoopNow
  <2>7. AnswersRight' /\ ReplacedRight'
    BY <2>1 DEF AnswersRight, ReplacedRight, Asked
  <2>. QED  BY <1>4, <2>2, <2>5, <2>6, <2>7 DEF MatchInv, MatchState
<1>. QED  BY <1>6, <1>7

LEMMA SearchStepInv ==
  ASSUME MatchInv,
         \/ MatchBegin \/ SearchFromEnd \/ SearchForward \/ SearchForBegin \/ SearchAnchored
         \/ WhereOnly \/ \E name \in {"OnePass", "BitState", "NFA"} : SearchWith(name)
  PROVE  MatchInv'
<1>1. MatchState
  BY DEF MatchInv
<1>2. CASE MatchBegin
  <2>1. SearchNow' /\ FoundNow' /\ pc' \in Searching
    BY <1>1, <1>2, BeginFound
  <2>2. UNCHANGED Around /\ pc \in Searching /\ rprog' = rprog
    BY <1>2 DEF MatchBegin, Around, Searching
  <2>. QED  BY <2>1, <2>2, SearchInv
<1>3. CASE SearchFromEnd
  <2>1. SearchNow' /\ FoundNow' /\ pc' \in Searching
    BY <1>1, <1>3, SearchFromEndFinds
  <2>2. UNCHANGED Around /\ pc \in Searching /\ ReverseProg
    BY <1>3 DEF SearchFromEnd, Around, Searching
  <2>. QED  BY <2>1, <2>2, SearchInv
<1>4. CASE SearchForward
  <2>1. SearchNow' /\ FoundNow' /\ pc' \in Searching
    BY <1>1, <1>4, SearchForwardFinds
  <2>2. UNCHANGED Around /\ pc \in Searching /\ rprog' = rprog
    BY <1>4 DEF SearchForward, Around, Searching
  <2>. QED  BY <2>1, <2>2, SearchInv
<1>5. CASE SearchForBegin
  <2>1. SearchNow' /\ FoundNow' /\ pc' \in Searching
    BY <1>1, <1>5, SearchForBeginFinds
  <2>2. UNCHANGED Around /\ pc \in Searching /\ ReverseProg
    BY <1>5 DEF SearchForBegin, Around, Searching
  <2>. QED  BY <2>1, <2>2, SearchInv
<1>6. CASE SearchAnchored
  <2>1. SearchNow' /\ FoundNow' /\ pc' \in Searching
    BY <1>1, <1>6, SearchAnchoredFinds
  <2>2. UNCHANGED Around /\ pc \in Searching /\ rprog' = rprog
    BY <1>6 DEF SearchAnchored, Around, Searching
  <2>. QED  BY <2>1, <2>2, SearchInv
<1>7. CASE WhereOnly
  <2>1. SearchNow' /\ FoundNow' /\ pc' \in Searching
    BY <1>1, <1>7, WhereOnlyFinds
  <2>2. UNCHANGED Around /\ pc \in Searching /\ rprog' = rprog
    BY <1>7 DEF WhereOnly, Around, Searching
  <2>. QED  BY <2>1, <2>2, SearchInv
<1>8. ASSUME NEW name \in {"OnePass", "BitState", "NFA"}, SearchWith(name)
      PROVE  MatchInv'
  <2>1. SearchNow' /\ FoundNow' /\ pc' \in Searching
    BY <1>1, <1>8, SearchWithFinds
  <2>2. UNCHANGED Around /\ pc \in Searching /\ rprog' = rprog
    BY <1>8 DEF SearchWith, Around, Searching
  <2>. QED  BY <2>1, <2>2, SearchInv
<1>. QED  BY <1>2, <1>3, <1>4, <1>5, <1>6, <1>7, <1>8

LEMMA ReturnInv ==
  ASSUME MatchInv, MatchReturns \/ DoMatchReturns \/ ReplaceReturns
  PROVE  MatchInv'
<1>1. MatchState
  BY DEF MatchInv
<1>2. AnswersRight' /\ ReplacedRight'
  BY <1>1, MatchReturnsRight, DoMatchReturnsRight, ReplaceReturnsRight
<1>3. /\ pc = "matched" /\ pc' = "answered" /\ Still /\ args' = args
  <2>1. CASE MatchReturns
    BY <2>1 DEF MatchReturns, Answered
  <2>2. CASE DoMatchReturns
    BY <2>2 DEF DoMatchReturns, Answered
  <2>3. CASE ReplaceReturns
    BY <2>3 DEF ReplaceReturns, Answered
  <2>. QED  BY <2>1, <2>2, <2>3
<1>4. args'.nsubmatch = 0 => DOMAIN submatch' = {}
  BY <1>1, <1>3 DEF MatchState, FoundNow, FoundIs, Still
<1>5. pc \in Searching /\ UNCHANGED <<object, rprog, text, call>>
  BY <1>3 DEF Searching, Still
<1>. QED  BY <1>2, <1>3, <1>4, <1>5, AnsweredInv

(***************************************************************************)
(* The steps of GlobalReplace.                                             *)
(***************************************************************************)
LEMMA LoopMatchedIs ==
  ASSUME MatchInv, pc = "matched", call.kind = "GlobalReplace"
  PROVE  /\ object \in Objects /\ text \in object.texts /\ call \in Calls(object, text) /\ ~Refused(call)
         /\ nvec(call) <= 1 + object.caps /\ LoopIs(object, text, call, global) /\ global.p \in Nat
         /\ args = ArgsNow(call, text, global) /\ args.nsubmatch = nvec(call) /\ nvec(call) # 0
         /\ found = (Wanted(object, text, ArgsNow(call, text, global)) # {})
         /\ \A way \in Wanted(object, text, ArgsNow(call, text, global)) : submatch = Vec(object, way, nvec(call))
<1>1. /\ object \in Objects /\ text \in object.texts /\ call \in Calls(object, text) /\ ~Refused(call)
      /\ args = ArgsNow(call, text, global)
      /\ found = (Wanted(object, text, args) # {})
      /\ \A way \in Wanted(object, text, args) :
           IF args.nsubmatch = 0 THEN DOMAIN submatch = {} ELSE submatch = Vec(object, way, args.nsubmatch)
  BY MatchedIs DEF MatchInv
<1>2. LoopIs(object, text, call, global)
  BY DEF MatchInv, LoopNow, Searching
<1>3. global.p \in Nat
  BY <1>2 DEF LoopIs
<1>4. nvec(call) <= 1 + object.caps
  <2>1. ~(nvec(call) > 1 + object.caps)
    BY <1>1 DEF Refused, Rewritings, DoMatches, NumberOfCapturingGroups
  <2>2. nvec(call) \in Nat /\ object.caps \in Int
    <3>1. nvec(call) \in Nat
      BY <1>1, CallsAre
    <3>2. object.caps \in Int
      BY <1>1, ShapeIs
    <3>. QED  BY <3>1, <3>2
  <2>. QED  BY <2>1, <2>2
<1>5. args.nsubmatch = nvec(call) /\ nvec(call) # 0
  <2>1. /\ ArgsNow(call, text, global)
             = [startpos |-> global.p, endpos |-> Len(text), anchor |-> "unanchored", nsubmatch |-> nvec(call)]
        /\ nvec(call) \in Nat /\ nvec(call) > 0
    BY <1>1, <1>3, <1>4, GlobalArgs
  <2>. QED  BY <1>1, <2>1
<1>. QED  BY <1>1, <1>2, <1>3, <1>4, <1>5

\* An answer of GlobalReplace.
LEMMA GlobalDoneInv ==
  ASSUME MatchInv, pc = "matched", call.kind = "GlobalReplace", Still, args' = args,
         GlobalDone(global'), LoopIs(object, text, call, global'),
         \A q \in global'.p..Len(text) : FitsAt(object, text, q, ArgsOf(call, text)) = {}
  PROVE  MatchInv'
<1>1. /\ object \in Objects /\ text \in object.texts /\ call \in Calls(object, text)
      /\ nvec(call) <= 1 + object.caps /\ args.nsubmatch = nvec(call) /\ nvec(call) # 0
  BY LoopMatchedIs
<1>2. pc' = "answered" /\ answer' = DoneWith(text, global')
  BY DEF GlobalDone, Answered, DoneWith
<1>3. UNCHANGED <<object, rprog, text, call, submatch>>
  BY DEF Still
<1>4. PICK loop : loop = global'
  OBVIOUS
<1>5. GlobalRight(object, text, call, loop.pieces, DoneWith(text, loop))
  <2>1. LoopIs(object, text, call, loop) /\ \A q \in loop.p..Len(text) : FitsAt(object, text, q, ArgsOf(call, text)) = {}
    BY <1>4
  <2>. QED  BY <1>1, <2>1, LoopEnds
<1>6. ReplacedRight'
  BY <1>2, <1>3, <1>4, <1>5 DEF ReplacedRight
<1>7. AnswersRight'
  BY <1>3 DEF AnswersRight, Rewritings
<1>8. args'.nsubmatch # 0 /\ pc \in Searching
  BY <1>1 DEF Searching
<1>. QED  BY <1>2, <1>3, <1>6, <1>7, <1>8, AnsweredInv

\* The next search of GlobalReplace.
LEMMA GlobalNextInv ==
  ASSUME MatchInv, pc = "matched", call.kind = "GlobalReplace", Still,
         NEW loop, GlobalNext(loop), LoopIs(object, text, call, loop)
  PROVE  MatchInv'
<1>1. /\ object \in Objects /\ text \in object.texts /\ call \in Calls(object, text) /\ ~Refused(call)
      /\ nvec(call) <= 1 + object.caps /\ args.nsubmatch = nvec(call) /\ nvec(call) # 0 /\ global.p \in Nat
      /\ args = ArgsNow(call, text, global)
  BY LoopMatchedIs
<1>2. global' = loop /\ loop.p \in Nat /\ Len(text) \in Nat
  BY <1>1, ShapeIs DEF GlobalNext, LoopIs
<1>3. UNCHANGED <<object, rprog, text, call, submatch>>
  BY DEF Still
<1>4. CASE loop.p <= Len(text)
  <2>1. pc' = "match" /\ args' = [args EXCEPT !.startpos = loop.p]
    BY <1>4 DEF GlobalNext, MatchWith
  <2>2. args' = ArgsNow(call, text, loop) /\ ArgsFine(args') /\ args'.nsubmatch # 0
    <3>1. args = [startpos |-> global.p, endpos |-> Len(text), anchor |-> "unanchored", nsubmatch |-> nvec(call)]
      BY <1>1, GlobalArgs
    <3>2. /\ ArgsNow(call, text, loop)
               = [startpos |-> loop.p, endpos |-> Len(text), anchor |-> "unanchored", nsubmatch |-> nvec(call)]
          /\ ArgsFine(ArgsNow(call, text, loop))
      BY <1>1, <1>2, GlobalArgs
    <3>3. args' = [startpos |-> loop.p, endpos |-> Len(text), anchor |-> "unanchored", nsubmatch |-> nvec(call)]
      BY <2>1, <3>1
    <3>. QED  BY <1>1, <3>2, <3>3
  <2>3. ObjectIs' /\ CallIs' /\ RestIs'
    BY <1>1, <1>3, <2>1 DEF MatchInv, MatchState, ObjectIs, CallIs, RestIs
  <2>4. ArgsAre'
    <3>1. ~Refused(call)'
      BY <1>1, <1>3 DEF Refused, ok, NumberOfCapturingGroups
    <3>. QED  BY <1>2, <1>3, <2>2, <3>1 DEF ArgsAre
  <2>5. SearchNow' /\ FoundNow'
    BY <2>1, <2>2 DEF SearchNow, SearchIs, FoundNow, FoundIs
  <2>6. LoopNow'
    BY <1>2, <1>3 DEF LoopNow
  <2>7. AnswersRight' /\ ReplacedRight'
    BY <2>1 DEF AnswersRight, ReplacedRight, Asked
  <2>. QED  BY <2>3, <2>4, <2>5, <2>6, <2>7 DEF MatchInv, MatchState
<1>5. CASE ~(loop.p <= Len(text))
  <2>1. GlobalDone(loop) /\ args' = args
    BY <1>5 DEF GlobalNext
  <2>2. GlobalDone(global')
    BY <1>2, <2>1
  <2>3. \A q \in global'.p..Len(text) : FitsAt(object, text, q, ArgsOf(call, text)) = {}
    BY <1>2, <1>5
  <2>. QED  BY <1>2, <2>1, <2>2, <2>3, GlobalDoneInv
<1>. QED  BY <1>4, <1>5

LEMMA GlobalStopsInv ==
  ASSUME MatchInv, GlobalStops
  PROVE  MatchInv'
<1>1. /\ pc = "matched" /\ call.kind = "GlobalReplace" /\ ~found /\ GlobalDone(global)
      /\ Still /\ args' = args /\ global' = global
  BY DEF GlobalStops
<1>2. /\ object \in Objects /\ text \in object.texts /\ call \in Calls(object, text)
      /\ nvec(call) <= 1 + object.caps /\ LoopIs(object, text, call, global) /\ global.p \in Nat
      /\ Wanted(object, text, ArgsNow(call, text, global)) = {}
  BY <1>1, LoopMatchedIs
<1>3. \A q \in global.p..Len(text) : FitsAt(object, text, q, ArgsOf(call, text)) = {}
  <2> DEFINE b == ArgsNow(call, text, global)
  <2>1. /\ \A q : q \in Starts(object, text, b) <=>
                    q \in global.p..Len(text) /\ FitsAt(object, text, q, ArgsOf(call, text)) # {}
        /\ Wanted(object, text, b) = IF Starts(object, text, b) = {} THEN {} ELSE {Best(object, text, b)}
    BY <1>1, <1>2, GlobalArgs, ZenonT(30)
  <2>. HIDE DEF b
  <2>2. Starts(object, text, b) = {}
    BY <1>2, <2>1 DEF b
  <2>. QED  BY <2>1, <2>2
<1>4. GlobalDone(global') /\ LoopIs(object, text, call, global')
  BY <1>1, <1>2
<1>5. \A q \in global'.p..Len(text) : FitsAt(object, text, q, ArgsOf(call, text)) = {}
  BY <1>1, <1>3
<1>. QED  BY <1>1, <1>4, <1>5, GlobalDoneInv

\* The search that has found something was in the text.
LEMMA LoopFound ==
  ASSUME MatchInv, pc = "matched", call.kind = "GlobalReplace", found
  PROVE  \E way \in Wanted(object, text, ArgsNow(call, text, global)) :
           submatch = Vec(object, way, nvec(call)) /\ global.p <= Len(text)
<1>1. /\ object \in Objects /\ text \in object.texts /\ call \in Calls(object, text)
      /\ nvec(call) <= 1 + object.caps /\ LoopIs(object, text, call, global) /\ global.p \in Nat
      /\ Wanted(object, text, ArgsNow(call, text, global)) # {}
      /\ \A way \in Wanted(object, text, ArgsNow(call, text, global)) : submatch = Vec(object, way, nvec(call))
  BY LoopMatchedIs
<1>2. PICK way \in Wanted(object, text, ArgsNow(call, text, global)) : submatch = Vec(object, way, nvec(call))
  BY <1>1
<1>3. way.cap[0] \in global.p..Len(text)
  BY <1>1, NextMatch
<1>4. Len(text) \in Nat
  BY <1>1, ShapeIs
<1>5. global.p <= Len(text)
  BY <1>1, <1>3, <1>4
<1>. QED  BY <1>2, <1>5

LEMMA GlobalSkipsInv ==
  ASSUME MatchInv, GlobalSkips
  PROVE  MatchInv'
<1> DEFINE next == global.p + Ahead(text, global.p, object.latin1)
           loop == [global EXCEPT !.p = next, !.out = @ \o Bytes(text, <<global.p, Min({next, Len(text)})>>)]
<1>1. /\ pc = "matched" /\ call.kind = "GlobalReplace" /\ found /\ submatch[0] = <<global.lastend, global.lastend>>
      /\ GlobalNext(loop) /\ Still
  BY DEF GlobalSkips
<1>2. /\ object \in Objects /\ text \in object.texts /\ call \in Calls(object, text)
      /\ nvec(call) <= 1 + object.caps /\ LoopIs(object, text, call, global)
  BY <1>1, LoopMatchedIs
<1>3. PICK way \in Wanted(object, text, ArgsNow(call, text, global)) :
           submatch = Vec(object, way, nvec(call)) /\ global.p <= Len(text)
  BY <1>1, LoopFound
<1>4. /\ loop.p = next /\ loop.lastend = global.lastend /\ loop.pieces = global.pieces
      /\ loop.out = global.out \o Bytes(text, <<global.p, Min({next, Len(text)})>>)
  OBVIOUS
<1>5. LoopIs(object, text, call, loop)
  <2>. HIDE DEF loop
  <2>1. PICK n : n = next
    OBVIOUS
  <2>2. /\ loop.p = n /\ n = global.p + Ahead(text, global.p, object.latin1)
        /\ loop.out = global.out \o Bytes(text, <<global.p, Min({n, Len(text)})>>)
    BY <1>4, <2>1
  <2>3. Vec(object, way, nvec(call))[0] = <<global.lastend, global.lastend>>
    BY <1>1, <1>3
  <2>. HIDE DEF next
  <2>. QED  BY <1>1, <1>2, <1>3, <1>4, <2>2, <2>3, LoopSkips
<1>. HIDE DEF loop
<1>. QED  BY <1>1, <1>5, GlobalNextInv

LEMMA GlobalTakesInv ==
  ASSUME MatchInv, GlobalTakes
  PROVE  MatchInv'
<1> DEFINE loop == [p |-> submatch[0][2], lastend |-> submatch[0][2],
                    out |-> global.out \o Bytes(text, <<global.p, submatch[0][1]>>)
                              \o Rewrite(text, call.rewrite, submatch),
                    pieces |-> Append(global.pieces, submatch)]
<1>1. /\ pc = "matched" /\ call.kind = "GlobalReplace" /\ found /\ submatch[0] # <<global.lastend, global.lastend>>
      /\ GlobalNext(loop) /\ Still
  BY DEF GlobalTakes
<1>2. /\ object \in Objects /\ text \in object.texts /\ call \in Calls(object, text)
      /\ nvec(call) <= 1 + object.caps /\ LoopIs(object, text, call, global)
  BY <1>1, LoopMatchedIs
<1>3. PICK way \in Wanted(object, text, ArgsNow(call, text, global)) :
           submatch = Vec(object, way, nvec(call)) /\ global.p <= Len(text)
  BY <1>1, LoopFound
<1>4. LoopIs(object, text, call, loop)
  BY <1>1, <1>2, <1>3, LoopTakes
<1>. HIDE DEF loop
<1>. QED  BY <1>1, <1>4, GlobalNextInv

(***************************************************************************)
(* All of it.                                                              *)
(***************************************************************************)
LEMMA NextCallInv ==
  ASSUME MatchInv, NextCall
  PROVE  MatchInv'
<1>1. /\ pc' = "idle" /\ args' = NoArgs /\ submatch' = <<>> /\ global' = NoLoop /\ UNCHANGED <<object, rprog>>
  BY DEF NextCall
<1>2. ObjectIs' /\ CallIs' /\ RestIs' /\ ArgsAre' /\ LoopNow'
  BY <1>1 DEF MatchInv, MatchState, ObjectIs, CallIs, RestIs, ArgsAre, LoopNow, Searching
<1>3. SearchNow' /\ FoundNow'
  BY <1>1 DEF SearchNow, SearchIs, FoundNow, FoundIs
<1>4. AnswersRight' /\ ReplacedRight'
  BY <1>1 DEF AnswersRight, ReplacedRight, Asked
<1>. QED  BY <1>2, <1>3, <1>4 DEF MatchInv, MatchState

LEMMA StutterInv ==
  ASSUME MatchInv, UNCHANGED matchVars
  PROVE  MatchInv'
<1>1. UNCHANGED <<object, rprog, text, call, pc, args, anchoring, skipped, match, found, submatch, global, answer>>
  BY DEF matchVars
<1>2. Refused(call)' = Refused(call) /\ Asked' = Asked
  <2>1. Refused(call)' = Refused(call)
    BY <1>1 DEF Refused, ok, NumberOfCapturingGroups
  <2>. QED  BY <1>1, <2>1 DEF Asked
<1>3. ObjectIs' /\ CallIs' /\ RestIs' /\ ArgsAre' /\ LoopNow'
  BY <1>1, <1>2 DEF MatchInv, MatchState, ObjectIs, CallIs, RestIs, ArgsAre, LoopNow
<1>4. SearchNow' /\ FoundNow'
  BY <1>1 DEF MatchInv, MatchState, SearchNow, FoundNow
<1>5. AnswersRight'
  BY <1>1, <1>2, Zenon DEF MatchInv, AnswersRight, Span
<1>6. ReplacedRight'
  BY <1>1, <1>2, Zenon DEF MatchInv, ReplacedRight
<1>. QED  BY <1>3, <1>4, <1>5, <1>6 DEF MatchInv, MatchState

LEMMA StepInv == MatchInv /\ [MatchNext]_matchVars => MatchInv'
<1>. SUFFICES ASSUME MatchInv, [MatchNext]_matchVars
              PROVE  MatchInv'
  OBVIOUS
<1>1. CASE CallMade
  BY <1>1, CallMadeInv
<1>2. CASE \/ MatchBegin \/ SearchFromEnd \/ SearchForward \/ SearchForBegin \/ SearchAnchored
           \/ WhereOnly \/ \E name \in {"OnePass", "BitState", "NFA"} : SearchWith(name)
  BY <1>2, SearchStepInv
<1>3. CASE MatchReturns \/ DoMatchReturns \/ ReplaceReturns
  BY <1>3, ReturnInv
<1>4. CASE GlobalStops
  BY <1>4, GlobalStopsInv
<1>5. CASE GlobalSkips
  BY <1>5, GlobalSkipsInv
<1>6. CASE GlobalTakes
  BY <1>6, GlobalTakesInv
<1>7. CASE NextCall
  BY <1>7, NextCallInv
<1>8. CASE UNCHANGED matchVars
  BY <1>8, StutterInv
<1>. QED  BY <1>1, <1>2, <1>3, <1>4, <1>5, <1>6, <1>7, <1>8 DEF MatchNext

\* The invariant: where a search is says what the DFAs have settled, as the comments of
\* Match claim, and the loop of GlobalReplace has replaced what it is to as far as it is.
THEOREM MatchInvariant == MatchSpec => []MatchInv
<1>1. MatchInit => MatchInv
  BY InitInv
<1>. QED  BY <1>1, StepInv, PTL DEF MatchSpec

\* Match reports the leftmost match that the pattern means, the best way and its groups,
\* and FullMatch, PartialMatch, Consume and FindAndConsume what follows from it, whatever
\* objects, texts and calls there are, and whichever DFAs run out of memory.
THEOREM AnswersAreRight == MatchSpec => []AnswersRight
<1>1. MatchInv => AnswersRight
  BY DEF MatchInv
<1>. QED  BY <1>1, MatchInvariant, PTL

\* Replace and Extract rewrite that match; GlobalReplace all that are meant, none twice
\* and none left out, and keeps the text between them, however long the text is.
THEOREM ReplacementsAreRight == MatchSpec => []ReplacedRight
<1>1. MatchInv => ReplacedRight
  BY DEF MatchInv
<1>. QED  BY <1>1, MatchInvariant, PTL
=============================================================================
