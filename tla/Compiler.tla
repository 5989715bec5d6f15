------------------------------ MODULE Compiler ------------------------------
(***************************************************************************)
(* The compiler (re2/compile.cc): from a simplified tree to a program of   *)
(* Alt, AltMatch, ByteRange, Capture, EmptyWidth, Match, Nop and Fail      *)
(* instructions, before Prog rewrites it.                                  *)
(***************************************************************************)
EXTENDS Simplify

(***************************************************************************)
(* A compiler at work: inst are the instructions so far, no more than max; *)
(* frag is the fragment that was built last; range and cache belong to the *)
(* rune range compiler.  A hole <<id, n>> is the out (n = 0) or out1       *)
(* (n = 1) of instruction id that is not known yet: a patch list is a set  *)
(* of them.                                                                *)
(***************************************************************************)
NoMatchFrag == [begin |-> 0, end |-> {}, nullable |-> FALSE]
Frag(begin, end, nullable) == [begin |-> begin, end |-> end, nullable |-> nullable]
IsNoMatch(f) == f.begin = 0

Setup(max, reversed, flags, anchor) ==
  [inst |-> <<Fail>>, max |-> max, failed |-> FALSE, reversed |-> reversed,
   latin1 |-> "Latin1" \in flags, anchor |-> anchor,
   frag |-> NoMatchFrag, range |-> NoMatchFrag, cache |-> {}]

Fresh(c) == Len(c.inst)              \* the number the next instruction gets
Give(c, f) == [c EXCEPT !.frag = f]
SetHole(c, hole, p) ==
  IF hole[2] = 0 THEN [c EXCEPT !.inst[hole[1] + 1].out = p] ELSE [c EXCEPT !.inst[hole[1] + 1].out1 = p]
Patch(c, holes, p) == FoldSet(LAMBDA hole, d : SetHole(d, hole, p), c, holes)

\* AllocInst for the instructions and the fragment they make.
Alloc(c, insts, f) ==
  IF c.failed \/ Fresh(c) + Len(insts) > c.max THEN [Give(c, NoMatchFrag) EXCEPT !.failed = TRUE]
  ELSE [Give(c, f) EXCEPT !.inst = @ \o insts]

(***************************************************************************)
(* Fragments.                                                              *)
(***************************************************************************)
AltInst(out, out1) == [Plain EXCEPT !.op = "Alt", !.out = out, !.out1 = out1]
RangeInst(lo, hi, fold) ==
  [ByteRange(Accepted(lo, hi, fold), 0, 0) EXCEPT !.lo = lo, !.hi = hi, !.fold = fold]

Leaf(c, inst, nullable) == Alloc(c, <<inst>>, Frag(Fresh(c), {<<Fresh(c), 0>>}, nullable))
NopFrag(c) == Leaf(c, Nop(0), TRUE)
RangeFrag(c, lo, hi, fold) == Leaf(c, RangeInst(lo, hi, fold), FALSE)
EmptyFrag(c, empty) == Leaf(c, EmptyWidth({empty}, 0), TRUE)
MatchFrag(c, id) == Alloc(c, <<[Match EXCEPT !.id = id]>>, Frag(Fresh(c), {}, FALSE))

CatFrag(c, a, b) ==
  LET Both == a.nullable /\ b.nullable
      NopFirst == Inst(c, a.begin).op = "Nop" /\ a.end = {<<a.begin, 0>>}
  IN CASE IsNoMatch(a) \/ IsNoMatch(b) -> Give(c, NoMatchFrag)
       [] ~IsNoMatch(a) /\ ~IsNoMatch(b) /\ NopFirst -> Give(Patch(c, a.end, b.begin), b)
       [] ~IsNoMatch(a) /\ ~IsNoMatch(b) /\ ~NopFirst /\ c.reversed ->
            Give(Patch(c, b.end, a.begin), Frag(b.begin, a.end, Both))
       [] OTHER -> Give(Patch(c, a.end, b.begin), Frag(a.begin, b.end, Both))

AltFrag(c, a, b) ==
  CASE IsNoMatch(a) -> Give(c, b)
    [] ~IsNoMatch(a) /\ IsNoMatch(b) -> Give(c, a)
    [] OTHER -> Alloc(c, <<AltInst(a.begin, b.begin)>>,
                      Frag(Fresh(c), a.end \cup b.end, a.nullable \/ b.nullable))

\* An Alt that goes into a or on, in the order that greed asks for.
Choice(a, nongreedy) == IF nongreedy THEN AltInst(0, a.begin) ELSE AltInst(a.begin, 0)
Onward(c, nongreedy) == {<<Fresh(c), IF nongreedy THEN 0 ELSE 1>>}

Back(c, a, nongreedy, f) ==
  LET Looped(d) == IF d.failed THEN d ELSE Patch(d, a.end, Fresh(c))
  IN Looped(Alloc(c, <<Choice(a, nongreedy)>>, f))
PlusFrag(c, a, nongreedy) == Back(c, a, nongreedy, Frag(a.begin, Onward(c, nongreedy), a.nullable))
QuestFrag(c, a, nongreedy) ==
  IF IsNoMatch(a) THEN NopFrag(c)
  ELSE Alloc(c, <<Choice(a, nongreedy)>>, Frag(Fresh(c), Onward(c, nongreedy) \cup a.end, TRUE))
StarFrag(c, a, nongreedy) ==
  LET Optional(plus) == QuestFrag(plus, plus.frag, nongreedy)
  IN IF a.nullable THEN Optional(PlusFrag(c, a, nongreedy))
     ELSE Back(c, a, nongreedy, Frag(Fresh(c), Onward(c, nongreedy), TRUE))

CaptureFrag(c, a, n) ==
  LET Closed(d) == IF d.failed THEN d ELSE Patch(d, a.end, Fresh(c) + 1)
  IN IF IsNoMatch(a) THEN Give(c, NoMatchFrag)
     ELSE Closed(Alloc(c, <<Capture(2 * n, a.begin), Capture(2 * n + 1, 0)>>,
                       Frag(Fresh(c), {<<Fresh(c) + 1, 0>>}, a.nullable)))

\* The k-th fragment of a string, which e has built, after those that d had.
CatNext(k, d, e) == IF k = 1 THEN e ELSE CatFrag(e, d.frag, e.frag)
Literal(c, r, fold) ==
  IF c.latin1 \/ r < Runeself THEN RangeFrag(c, r, r, fold)
  ELSE LET bytes == UTF8(r)
       IN FoldLeft(LAMBDA d, k : CatNext(k, d, RangeFrag(d, bytes[k], bytes[k], FALSE)), c, [k \in DOMAIN bytes |-> k])

(***************************************************************************)
(* Rune ranges: an alternation of the byte sequences that encode them, in  *)
(* UTF-8 a trie of common prefixes, with common suffixes by way of a       *)
(* cache.  An instruction on its way into the trie is left in frag.begin.  *)
(***************************************************************************)
BeginRange(c) == [c EXCEPT !.range = NoMatchFrag, !.cache = {}]
EndRange(c) == Give(c, c.range)

Key(lo, hi, fold, next) == <<lo, hi, fold, next>>
UncachedRuneByteSuffix(c, lo, hi, fold, next) ==
  LET Linked(d) == CASE d.failed -> d
                     [] ~d.failed /\ next # 0 -> Patch(d, d.frag.end, next)
                     [] OTHER -> [d EXCEPT !.range.end = @ \cup d.frag.end]
  IN Linked(RangeFrag(c, lo, hi, fold))
CachedRuneByteSuffix(c, lo, hi, fold, next) ==
  LET key == Key(lo, hi, fold, next)
      hits == {entry \in c.cache : entry[1] = key}
      Remembered(d) == [d EXCEPT !.cache = @ \cup {<<key, d.frag.begin>>}]
  IN IF hits # {} THEN Give(c, Frag((CHOOSE entry \in hits : TRUE)[2], {}, FALSE))
     ELSE Remembered(UncachedRuneByteSuffix(c, lo, hi, fold, next))
IsCachedRuneByteSuffix(c, id) ==
  LET i == Inst(c, id) IN \E entry \in c.cache : entry[1] = Key(i.lo, i.hi, i.fold, i.out)

ByteRangeEqual(c, id1, id2) ==
  LET Accepts(i) == <<i.lo, i.hi, i.fold>> IN Accepts(Inst(c, id1)) = Accepts(Inst(c, id2))

\* Where in the trie the range of id stands: {<<>>} is the root itself, a hole
\* the instruction it leads to; {} if it is not there.
TheRoot == <<>>
RECURSIVE FindByteRange(_, _, _)
FindByteRange(c, root, id) ==
  LET i == Inst(c, root)
      Equals(sub) == ByteRangeEqual(c, sub, id)
  IN CASE i.op = "ByteRange" -> IF Equals(root) THEN {TheRoot} ELSE {}
       [] i.op = "Alt" /\ Equals(i.out1) -> {<<root, 1>>}
       [] i.op = "Alt" /\ ~Equals(i.out1) /\ c.reversed /\ Inst(c, i.out).op = "Alt" ->
            FindByteRange(c, i.out, id)
       [] OTHER -> IF c.reversed /\ Equals(i.out) THEN {<<root, 0>>} ELSE {}

\* Mutant: a suffix that others share is added to in place.
NeverClone(c, br) == FALSE
\* Cached suffixes are not fiddled with.
NeedsClone(c, br) == IsCachedRuneByteSuffix(c, br)

\* Leaves the root of the trie in frag.begin.
RECURSIVE AddSuffixRecursive(_, _, _)
AddSuffixRecursive(c, root, id) ==
  LET Holder(hole) == IF hole = TheRoot THEN root ELSE
                        LET i == Inst(c, hole[1]) IN IF hole[2] = 0 THEN i.out ELSE i.out1
      Freed(d) == IF IsCachedRuneByteSuffix(d, id) THEN d ELSE [d EXCEPT !.inst = Front(@)]
      Hung(d, hole, br) ==
        IF d.failed THEN d
        ELSE Give(SetHole(d, <<br, 0>>, d.frag.begin), Frag(IF hole = TheRoot THEN br ELSE root, {}, FALSE))
      Below(d, hole, br) ==
        IF d.failed THEN d
        ELSE Hung(AddSuffixRecursive(Freed(d), Inst(d, br).out, Inst(d, id).out), hole, br)
      \* A cached suffix is not touched: its clone takes its place here.
      Cloned(d, hole) == IF d.failed \/ hole = TheRoot THEN d ELSE SetHole(d, hole, Fresh(c))
      Under(hole, old) ==
        IF NeedsClone(c, old)
        THEN Below(Cloned(Alloc(c, <<Inst(c, old)>>, c.frag), hole), hole, Fresh(c))
        ELSE Below(c, hole, old)
      Added(found) ==
        IF found = {} THEN Alloc(c, <<AltInst(root, id)>>, Frag(Fresh(c), {}, FALSE))
        ELSE LET hole == CHOOSE h \in found : TRUE IN Under(hole, Holder(hole))
  IN Added(FindByteRange(c, root, id))

\* Add the suffix that begins with the last fragment.
AddSuffix(c) ==
  LET id == c.frag.begin
      Rooted(d) == [d EXCEPT !.range.begin = d.frag.begin]
  IN CASE c.failed -> c
       [] ~c.failed /\ c.range.begin = 0 -> [c EXCEPT !.range.begin = id]
       [] OTHER -> Rooted(IF c.latin1 THEN Alloc(c, <<AltInst(c.range.begin, id)>>, Frag(Fresh(c), {}, FALSE))
                          ELSE AddSuffixRecursive(c, c.range.begin, id))

\* A chain of suffixes, the last byte's first; the sequence of <<lo, hi, cached>>
\* is in the order they are made in.
SuffixOf(c, bytes) ==
  FoldLeft(LAMBDA d, b : IF b[3] THEN CachedRuneByteSuffix(d, b[1], b[2], FALSE, d.frag.begin)
                         ELSE UncachedRuneByteSuffix(d, b[1], b[2], FALSE, d.frag.begin),
           Give(c, NoMatchFrag), bytes)

Add_80_10ffff(c) ==
  LET x == <<128, 191, FALSE>>
      AddAll(chains) == FoldLeft(LAMBDA d, chain : AddSuffix(SuffixOf(d, chain)), c, chains)
      \* One more byte x is put before those that the shorter suffix shares.
      Lead(d, lead) == [c |-> AddSuffix(UncachedRuneByteSuffix(d, lead[1], lead[2], FALSE, d.frag.begin)),
                        shared |-> d.frag.begin]
      Longer(s, lead) == Lead(UncachedRuneByteSuffix(s.c, 128, 191, FALSE, s.shared), lead)
  IN IF c.reversed
     THEN AddAll(<< << <<194, 223, FALSE>>, x>>, << <<224, 239, FALSE>>, x, x>>,
                    << <<240, 244, FALSE>>, x, x, x>> >>)
     ELSE FoldLeft(Longer, [c |-> c, shared |-> 0], << <<194, 223>>, <<224, 239>>, <<240, 244>> >>).c

\* The bytes from lo to hi agree but for ranges at the end: one suffix.
AddBytes(c, lo, hi) ==
  LET ulo == UTF8(lo)
      uhi == UTF8(hi)
      n == Len(ulo)
      Cached(k) == IF c.reversed THEN k = 1 \/ (ulo[k] = uhi[k] /\ k # n)
                   ELSE k = n \/ (ulo[k] < uhi[k] /\ k # 1)
      At(k) == <<ulo[k], uhi[k], Cached(k)>>
  IN AddSuffix(SuffixOf(c, [k \in 1..n |-> At(IF c.reversed THEN k ELSE n + 1 - k)]))

RECURSIVE AddRuneRangeUTF8(_, _, _, _)
AddRuneRangeUTF8(c, lo, hi, fold) ==
  LET Parts(mid) == AddRuneRangeUTF8(AddRuneRangeUTF8(c, lo, mid, fold), mid + 1, hi, fold)
      longer == {k \in 1..3 : lo <= MaxRune(k) /\ MaxRune(k) < hi}
      Low(k, r) == r % 64^k
      \* The number of bytes at the end that do not just all vary, if the
      \* leading ones differ.
      split == {k \in 1..3 : /\ lo - Low(k, lo) # hi - Low(k, hi)
                             /\ Low(k, lo) # 0 \/ Low(k, hi) # 64^k - 1}
      k == Min(split)
  IN CASE lo > hi -> c
       [] lo = Runeself /\ hi = Runemax -> Add_80_10ffff(c)
       [] lo <= hi /\ ~(lo = Runeself /\ hi = Runemax) /\ longer # {} -> Parts(MaxRune(Min(longer)))
       [] lo <= hi /\ longer = {} /\ hi < Runeself ->
            AddSuffix(UncachedRuneByteSuffix(c, lo, hi, fold, 0))
       [] lo <= hi /\ ~(lo = Runeself /\ hi = Runemax) /\ longer = {} /\ hi >= Runeself /\ split # {} ->
            IF Low(k, lo) # 0 THEN Parts(lo - Low(k, lo) + 64^k - 1) ELSE Parts(hi - Low(k, hi) - 1)
       [] OTHER -> AddBytes(c, lo, hi)

AddRuneRange(c, lo, hi, fold) ==
  CASE ~c.latin1 -> AddRuneRangeUTF8(c, lo, hi, fold)
    [] c.latin1 /\ (lo > hi \/ lo > 255) -> c
    [] OTHER -> AddSuffix(UncachedRuneByteSuffix(c, lo, Min({hi, 255}), fold, 0))

\* The ranges of A-Z go if those of a-z stand for them too.
ClassFrag(c, cc) ==
  LET folds == FoldsASCII(cc)
      kept == SelectSeq(RangesOf(cc), LAMBDA range : ~(folds /\ 65 <= range[1] /\ range[2] <= 90))
      Fold(lo, hi) == /\ folds
                      /\ ~(lo <= 65 /\ 122 <= hi) /\ ~(hi < 65) /\ ~(122 < lo) /\ ~(90 < lo /\ hi < 97)
  IN EndRange(FoldLeft(LAMBDA d, range : AddRuneRange(d, range[1], range[2], Fold(range[1], range[2])),
                       BeginRange(c), kept))

(***************************************************************************)
(* The walk.                                                               *)
(***************************************************************************)
\* To run backward, text and lines end where they begin.
Facing(c, empty) ==
  LET Turned == [BeginText |-> "EndText", EndText |-> "BeginText",
                 BeginLine |-> "EndLine", EndLine |-> "BeginLine"]
  IN IF c.reversed /\ empty \in DOMAIN Turned THEN Turned[empty] ELSE empty

HaveMatchFrag(c, id) ==
  LET AtEnd(d, match) == CatFrag(d, d.frag, match)
      Matched(d) == IF c.anchor = "both" THEN AtEnd(EmptyFrag(d, "EndText"), d.frag) ELSE d
  IN Matched(MatchFrag(c, id))

PostVisit(built, re) ==
  LET c == built.c
      frags == built.frags
      NonGreedy == Has(re, "NonGreedy")
      Broken == [Give(c, NoMatchFrag) EXCEPT !.failed = TRUE]
      Join(Two(_, _, _)) == FoldLeft(LAMBDA d, f : Two(d, d.frag, f), Give(c, frags[1]), Tail(frags))
  IN IF c.failed THEN c
     ELSE
     CASE re.op = "NoMatch" -> Give(c, NoMatchFrag)
       [] re.op = "EmptyMatch" -> NopFrag(c)
       [] re.op = "HaveMatch" -> HaveMatchFrag(c, re.id)
       [] re.op = "Concat" -> Join(CatFrag)
       [] re.op = "Alternate" -> Join(AltFrag)
       [] re.op = "Star" -> StarFrag(c, frags[1], NonGreedy)
       [] re.op = "Plus" -> PlusFrag(c, frags[1], NonGreedy)
       [] re.op = "Quest" -> QuestFrag(c, frags[1], NonGreedy)
       [] re.op \in {"Literal", "LiteralString"} ->
            FoldLeft(LAMBDA d, k : CatNext(k, d, Literal(d, re.runes[k], Has(re, "FoldCase"))),
                     c, [k \in DOMAIN re.runes |-> k])
       [] re.op = "AnyChar" -> EndRange(AddRuneRange(BeginRange(c), 0, Runemax, FALSE))
       [] re.op = "AnyByte" -> RangeFrag(c, 0, 255, FALSE)
       [] re.op = "CharClass" -> IF re.cc.ranges = {} THEN Broken ELSE ClassFrag(c, re.cc)
       [] re.op = "Capture" -> CaptureFrag(c, frags[1], re.cap)
       [] re.op \in DOMAIN EmptyWidthOps -> EmptyFrag(c, Facing(c, EmptyWidthOps[re.op]))
       [] OTHER -> Broken

\* Once failed, all is over.
RECURSIVE Walk(_, _)
Walk(c, re) ==
  LET Kept(s, d) == [c |-> d, frags |-> Append(s.frags, d.frag)]
  IN PostVisit(FoldLeft(LAMBDA s, sub : Kept(s, Walk(s.c, sub)), [c |-> c, frags |-> <<>>], re.subs), re)

WalkExponential(c, re) ==
  IF Visits(re) > 2 * c.max THEN [c EXCEPT !.failed = TRUE] ELSE Walk(c, re)

(***************************************************************************)
(* What is left of a tree without the \A in front, or the \z at the end;   *)
(* {} if it has none within four levels.                                   *)
(***************************************************************************)
RECURSIVE WithoutAnchor(_, _, _)
WithoutAnchor(re, anchor, depth) ==
  LET k == IF anchor = "BeginText" THEN 1 ELSE Len(re.subs)
      Below(sub) == WithoutAnchor(sub, anchor, depth + 1)
  IN CASE depth >= 4 -> {}
       [] depth < 4 /\ re.op = "Concat" /\ re.subs # <<>> ->
            {Concat([j \in DOMAIN re.subs |-> IF j = k THEN sub ELSE re.subs[j]], re.flags) : sub \in Below(re.subs[k])}
       [] depth < 4 /\ re.op = "Capture" ->
            {[ReOver("Capture", <<sub>>, re.flags) EXCEPT !.cap = re.cap] : sub \in Below(Sub(re))}
       [] OTHER -> IF depth < 4 /\ re.op = anchor THEN {Re("EmptyMatch", re.flags)} ELSE {}
IsAnchorStart(re) == WithoutAnchor(re, "BeginText", 0)
IsAnchorEnd(re) == WithoutAnchor(re, "EndText", 0)
Stripped(re, without) == IF without = {} THEN re ELSE CHOOSE sub \in without : TRUE
\* A tree without its anchors, and which it had.
Anchoring(re) ==
  LET begin == IsAnchorStart(re)
      end == IsAnchorEnd(Stripped(re, begin))
  IN [begin |-> begin # {}, end |-> end # {}, re |-> Stripped(Stripped(re, begin), end)]

(***************************************************************************)
(* Compile and CompileSet, up to Finish: {} if they fail.                  *)
(***************************************************************************)
DotStar(c) == LET Looped(d) == StarFrag(d, d.frag, TRUE) IN Looped(RangeFrag(c, 0, 255, FALSE))
AfterDotStar(c, f) == LET Entered(d) == CatFrag(d, d.frag, f) IN Entered(DotStar(c))

\* No possible match: just Fail is left.
Prog(c, start, startUnanchored, anchorStart, anchorEnd) ==
  IF c.failed THEN {}
  ELSE {[inst |-> IF start = 0 /\ startUnanchored = 0 THEN <<Fail>> ELSE c.inst,
         start |-> start, startUnanchored |-> startUnanchored,
         anchorStart |-> anchorStart, anchorEnd |-> anchorEnd,
         prefix |-> <<>>, foldcase |-> FALSE]}

Compile(re, flags, reversed, max) ==
  LET Done(d, start, front, back) == Prog(d, start, d.frag.begin, front, back)
      Unanchored(d, front, back) == Done(IF front THEN d ELSE AfterDotStar(d, d.frag), d.frag.begin, front, back)
      AtMatch(d, f, front, back) == Unanchored(CatFrag(d, f, d.frag), front, back)
      Matched(d, front, back) == AtMatch([MatchFrag(d, 0) EXCEPT !.reversed = FALSE], d.frag, front, back)
      Built(bare) == Matched(WalkExponential(Setup(max, reversed, flags, "unanchored"), bare.re),
                             IF reversed THEN bare.end ELSE bare.begin, IF reversed THEN bare.begin ELSE bare.end)
  IN Built(Anchoring(Simplified(re)))

CompileSet(re, flags, anchor, max) ==
  LET Done(d) == Prog(d, d.frag.begin, d.frag.begin, TRUE, TRUE)
      Unanchored(d) == IF anchor = "unanchored" THEN AfterDotStar(d, d.frag) ELSE d
  IN Done(Unanchored(WalkExponential(Setup(max, FALSE, flags, anchor), Simplified(re))))
=============================================================================
