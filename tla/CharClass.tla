----------------------------- MODULE CharClass -----------------------------
(***************************************************************************)
(* Character classes (re2/regexp.cc, re2/regexp.h, re2/parse.cc): a set of *)
(* ranges <<lo, hi>> that neither overlap nor abut, and which ASCII        *)
(* letters, as upper and lower bitmaps, the class contains.                *)
(***************************************************************************)
EXTENDS Runes

AlphaMask == 0..25
EmptyClass == [ranges |-> {}, upper |-> {}, lower |-> {}]

ContainsRune(cc, r) == \E range \in cc.ranges : range[1] <= r /\ r <= range[2]
Size(cc) == MapThenSumSet(LAMBDA range : range[2] - range[1] + 1, cc.ranges)
FullClass(cc) == Size(cc) = Runemax + 1
FoldsASCII(cc) == cc.upper = cc.lower
Lowest(cc) == Min({range[1] : range \in cc.ranges})
\* The ranges in order.
RangesOf(cc) ==
  [k \in 1..Cardinality(cc.ranges) |->
     CHOOSE range \in cc.ranges : Cardinality({x \in cc.ranges : x[1] < range[1]}) = k - 1]

Covers(cc, lo, hi) == \E range \in cc.ranges : range[1] <= lo /\ hi <= range[2]

\* Mutant: ranges that abut are not merged.
AddRangeApart(cc, lo, hi) ==
  LET Letters(first) == {k \in AlphaMask : lo <= first + k /\ first + k <= hi}
  IN IF hi < lo THEN cc
     ELSE [upper |-> cc.upper \cup Letters(65),
           lower |-> cc.lower \cup Letters(97),
           ranges |-> IF Covers(cc, lo, hi) THEN cc.ranges ELSE cc.ranges \cup {<<lo, hi>>}]
AddRange(cc, lo, hi) ==
  LET Touching == {range \in cc.ranges : range[1] <= hi + 1 /\ lo <= range[2] + 1}
      Letters(first) == {k \in AlphaMask : lo <= first + k /\ first + k <= hi}
  IN IF hi < lo THEN cc
     ELSE [upper |-> cc.upper \cup Letters(65),
           lower |-> cc.lower \cup Letters(97),
           ranges |->
             IF Covers(cc, lo, hi) THEN cc.ranges
             ELSE (cc.ranges \ Touching)
                    \cup {<<Min({lo} \cup {range[1] : range \in Touching}),
                            Max({hi} \cup {range[2] : range \in Touching})>>}]

AddRanges(cc, ranges) == FoldSet(LAMBDA range, c : AddRange(c, range[1], range[2]), cc, ranges)
AddCharClass(cc, other) == AddRanges(cc, other.ranges)

RemoveAbove(cc, r) ==
  IF r >= Runemax THEN cc
  ELSE [upper |-> {k \in cc.upper : 65 + k <= r},
        lower |-> {k \in cc.lower : 97 + k <= r},
        ranges |-> {<<range[1], Min({range[2], r})>> : range \in {x \in cc.ranges : x[1] <= r}}]

Negate(cc) ==
  LET Starts == ({0} \cup {range[2] + 1 : range \in cc.ranges}) \ {range[1] : range \in cc.ranges}
      Stop(lo) == Min({range[1] - 1 : range \in {x \in cc.ranges : x[1] > lo}} \cup {Runemax})
  IN [upper |-> AlphaMask \ cc.upper, lower |-> AlphaMask \ cc.lower,
      ranges |-> {<<lo, Stop(lo)>> : lo \in {x \in Starts : x <= Runemax}}]

(***************************************************************************)
(* Adding ranges with the runes they fold to.                              *)
(***************************************************************************)
AddFoldedRangeLatin1(cc, lo, hi) ==
  LET Part(a, b, delta) == <<Max({lo, a}) + delta, Min({hi, b}) + delta>>
  IN AddRanges(cc, {<<lo, hi>>, Part(65, 90, 32), Part(97, 122, -32)})

\* A range that is there already is taken to be there with its folds.
RECURSIVE AddFoldedRange(_, _, _), AddFolds(_, _, _)
AddFoldedRange(cc, lo, hi) ==
  IF hi < lo \/ Covers(cc, lo, hi) THEN cc ELSE AddFolds(AddRange(cc, lo, hi), lo, hi)
AddFolds(cc, lo, hi) ==
  LET f == LookupCaseFold(lo)
      from == Max({lo, f[1]})
      to == Min({hi, f[2]})
      Pairs(parity) == [lo |-> IF from % 2 = parity THEN from ELSE from - 1,
                        hi |-> IF to % 2 = parity THEN to + 1 ELSE to]
      folded == CASE f[3] = EvenOdd -> Pairs(0)
                  [] f[3] = OddEven -> Pairs(1)
                  [] OTHER -> [lo |-> from + f[3], hi |-> to + f[3]]
  IN IF hi < lo \/ f = <<>> \/ hi < f[1] THEN cc
     ELSE AddFolds(AddFoldedRange(cc, folded.lo, folded.hi), f[2] + 1, hi)

\* Take out \n if the flags say so, and fold case.
CutsNewline(flags) == "ClassNL" \notin flags \/ "NeverNL" \in flags
RECURSIVE AddRangeFlags(_, _, _, _)
AddRangeFlags(cc, lo, hi, flags) ==
  CASE CutsNewline(flags) /\ lo <= 10 /\ 10 <= hi ->
         LET below == IF lo < 10 THEN AddRangeFlags(cc, lo, 9, flags) ELSE cc
         IN IF hi > 10 THEN AddRangeFlags(below, 11, hi, flags) ELSE below
    [] ~(CutsNewline(flags) /\ lo <= 10 /\ 10 <= hi) /\ "FoldCase" \notin flags -> AddRange(cc, lo, hi)
    [] OTHER -> IF "Latin1" \in flags THEN AddFoldedRangeLatin1(cc, lo, hi)
                ELSE AddFoldedRange(cc, lo, hi)

\* Add a named group, given by its ranges in order, or what is not in it.
RECURSIVE AddUGroup(_, _, _, _)
AddUGroup(cc, group, sign, flags) ==
  LET n == Len(group)
      Gaps == [k \in 1..(n + 1) |->
                 <<IF k = 1 THEN 0 ELSE group[k - 1][2] + 1,
                   IF k > n THEN Runemax ELSE group[k][1] - 1>>]
      Ranges == IF sign = 1 THEN group ELSE SelectSeq(Gaps, LAMBDA range : range[1] <= range[2])
      NewLines == IF CutsNewline(flags) THEN {<<10, 10>>} ELSE {}
  IN IF sign = -1 /\ "FoldCase" \in flags
     THEN AddCharClass(cc, Negate(AddRanges(AddUGroup(EmptyClass, group, 1, flags), NewLines)))
     ELSE FoldLeft(LAMBDA c, range : AddRangeFlags(c, range[1], range[2], flags), cc, Ranges)

\* What a class says of itself is right.
WellFormedClass(cc) ==
  /\ \A x, y \in cc.ranges : x = y \/ x[2] + 1 < y[1] \/ y[2] + 1 < x[1]
  /\ \A range \in cc.ranges : 0 <= range[1] /\ range[1] <= range[2] /\ range[2] <= Runemax
  /\ cc.upper = {k \in AlphaMask : ContainsRune(cc, 65 + k)}
  /\ cc.lower = {k \in AlphaMask : ContainsRune(cc, 97 + k)}
=============================================================================
