------------------------------- MODULE Regexp -------------------------------
(***************************************************************************)
(* Syntax trees of regular expressions (re2/regexp.h, re2/regexp.cc), and  *)
(* what a tree matches.                                                    *)
(***************************************************************************)
EXTENDS CharClass, Program

CONSTANT kMaxNsub    \* the greatest number of pieces of a node

NoName == <<>>       \* else <<name>>

(***************************************************************************)
(* Nodes: op says which fields mean anything.  A class is open while its   *)
(* builder is there.  simple is what ComputeSimple found when the node was *)
(* made.                                                                   *)
(***************************************************************************)
Re(op, flags) ==
  [op |-> op, flags |-> flags, subs |-> <<>>, runes |-> <<>>, cc |-> EmptyClass,
   min |-> 0, max |-> 0, cap |-> 0, name |-> NoName, id |-> 0,
   open |-> FALSE, simple |-> FALSE]
ReOver(op, subs, flags) == [Re(op, flags) EXCEPT !.subs = subs]
NewLiteral(r, flags) == [Re("Literal", flags) EXCEPT !.runes = <<r>>]
LiteralString(runes, flags) ==
  CASE Len(runes) = 0 -> Re("EmptyMatch", flags)
    [] Len(runes) = 1 -> NewLiteral(runes[1], flags)
    [] OTHER -> [Re("LiteralString", flags) EXCEPT !.runes = runes]
NewCharClass(cc, flags) == [Re("CharClass", flags) EXCEPT !.cc = cc]
Repeat(sub, flags, min, max) == [ReOver("Repeat", <<sub>>, flags) EXCEPT !.min = min, !.max = max]
HaveMatch(id, flags) == [Re("HaveMatch", flags) EXCEPT !.id = id]

Loops == {"Star", "Plus", "Quest"}
Has(re, flag) == flag \in re.flags
Sub(re) == re.subs[1]

ComputeSimple(re) ==
  CASE re.op \in {"Concat", "Alternate", "Capture"} -> \A k \in DOMAIN re.subs : re.subs[k].simple
    [] re.op = "CharClass" -> re.cc.ranges # {} /\ ~FullClass(re.cc)
    [] re.op \in Loops -> Sub(re).simple /\ Sub(re).op \notin Loops \cup {"EmptyMatch", "NoMatch"}
    [] re.op = "Repeat" -> FALSE
    [] OTHER -> TRUE
Finished(re) == [re EXCEPT !.simple = ComputeSimple(re)]

StarPlusOrQuest(op, sub, flags) ==
  LET Squashes == sub.op \in Loops /\ flags = sub.flags
  IN CASE Squashes /\ sub.op \in {op, "Star"} -> sub
       [] Squashes /\ sub.op \notin {op, "Star"} -> ReOver("Star", sub.subs, flags)
       [] OTHER -> ReOver(op, <<sub>>, flags)

\* ConcatOrAlternate without factoring: too many pieces make a tree of two levels.
Split(op, subs, flags) ==
  LET n == Len(subs)
      Piece(k) == SubSeq(subs, (k - 1) * kMaxNsub + 1, Min({k * kMaxNsub, n}))
      Inner(k) == IF Len(Piece(k)) = 1 THEN Piece(k)[1] ELSE ReOver(op, Piece(k), flags)
  IN IF n <= kMaxNsub THEN ReOver(op, subs, flags)
     ELSE ReOver(op, [k \in 1..((n + kMaxNsub - 1) \div kMaxNsub) |-> Inner(k)], flags)

\* Equal: what the comparison of two nodes looks at.
RECURSIVE Shape(_)
Shape(re) ==
  LET Flags(relevant) == re.flags \cap relevant IN
  <<re.op, [k \in DOMAIN re.subs |-> Shape(re.subs[k])],
    CASE re.op = "EndText" -> <<Flags({"WasDollar"})>>
      [] re.op \in {"Literal", "LiteralString"} -> <<re.runes, Flags({"FoldCase"})>>
      [] re.op \in Loops -> <<Flags({"NonGreedy"})>>
      [] re.op = "Repeat" -> <<Flags({"NonGreedy"}), re.min, re.max>>
      [] re.op = "Capture" -> <<re.cap, re.name>>
      [] re.op = "HaveMatch" -> <<re.id>>
      [] re.op = "CharClass" -> <<re.cc.ranges>>
      [] OTHER -> <<>> >>
Equal(re, other) == Shape(re) = Shape(other)

Concat(subs, flags) ==
  CASE Len(subs) = 0 -> Re("EmptyMatch", flags)
    [] Len(subs) = 1 -> subs[1]
    [] OTHER -> Split("Concat", subs, flags)
AlternateNoFactor(subs, flags) ==
  CASE Len(subs) = 0 -> Re("NoMatch", flags)
    [] Len(subs) = 1 -> subs[1]
    [] OTHER -> Split("Alternate", subs, flags)

(***************************************************************************)
(* What a tree matches in the bytes w from p on: its ways, in the order of *)
(* their priority, as ends with the capture registers there; of two ways   *)
(* to one end just the first.  A loop over an empty match ends.            *)
(***************************************************************************)
Way(p, cap) == [p |-> p, cap |-> cap]

\* The first way to each end.
Firsts(ways) ==
  LET First(k) == \A j \in 1..(k - 1) : ways[j].p # ways[k].p
      kept == {k \in DOMAIN ways : First(k)}
      f[k \in 0..Len(ways)] ==
        IF k = 0 THEN <<>> ELSE IF k \in kept THEN Append(f[k - 1], ways[k]) ELSE f[k - 1]
  IN f[Len(ways)]

\* An ASCII letter of a literal stands for both cases if case is folded.
SameRune(re, literal, r) ==
  \/ literal = r
  \/ Has(re, "FoldCase") /\ \/ IsLower(literal) /\ r = literal - 32
                            \/ IsUpper(literal) /\ r = literal + 32

EmptyWidthOps ==
  [BeginLine |-> "BeginLine", EndLine |-> "EndLine", BeginText |-> "BeginText",
   EndText |-> "EndText", WordBoundary |-> "WordBoundary", NoWordBoundary |-> "NonWordBoundary"]

RECURSIVE WaysOf(_, _, _, _), WaysOfLoop(_, _, _, _, _)
Then(re, w, ways) ==
  Firsts(FlattenSeq([k \in DOMAIN ways |-> WaysOf(re, w, ways[k].p, ways[k].cap)]))

WaysOf(re, w, p, cap) ==
  LET At(q) == RuneAt(w, q, Has(re, "Latin1"))
      If(yes) == IF yes THEN <<Way(p, cap)>> ELSE <<>>
      One(Test(_)) == LET hit == {x \in At(p) : Test(x[1])}
                      IN IF hit = {} THEN <<>> ELSE <<Way(p + (CHOOSE x \in hit : TRUE)[2], cap)>>
      Greedily(more) == IF Has(re, "NonGreedy") THEN If(TRUE) \o more ELSE more \o If(TRUE)
      f[n \in Nat, q \in 0..Len(w)] ==      \* the runes from the n-th on
        IF n > Len(re.runes) THEN <<Way(q, cap)>>
        ELSE LET hit == {x \in At(q) : SameRune(re, re.runes[n], x[1])}
             IN IF hit = {} THEN <<>> ELSE f[n + 1, q + (CHOOSE x \in hit : TRUE)[2]]
  IN CASE re.op = "NoMatch" -> <<>>
       [] re.op \in {"EmptyMatch", "HaveMatch"} -> If(TRUE)
       [] re.op \in {"Literal", "LiteralString"} -> f[1, p]
       [] re.op = "CharClass" -> One(LAMBDA r : ContainsRune(re.cc, r))
       [] re.op = "AnyChar" -> One(LAMBDA r : TRUE)
       [] re.op = "AnyByte" -> IF p < Len(w) THEN <<Way(p + 1, cap)>> ELSE <<>>
       [] re.op \in DOMAIN EmptyWidthOps -> If(EmptyWidthOps[re.op] \in EmptyFlags(w, p))
       [] re.op = "Concat" -> FoldLeft(LAMBDA ways, sub : Then(sub, w, ways), If(TRUE), re.subs)
       [] re.op = "Alternate" ->
            Firsts(FlattenSeq([k \in DOMAIN re.subs |-> WaysOf(re.subs[k], w, p, cap)]))
       [] re.op = "Capture" ->
            LET in == WaysOf(Sub(re), w, p, (2 * re.cap) :> p @@ cap)
            IN [k \in DOMAIN in |-> Way(in[k].p, (2 * re.cap + 1) :> in[k].p @@ in[k].cap)]
       [] re.op = "Quest" -> Firsts(Greedily(WaysOf(Sub(re), w, p, cap)))
       [] re.op = "Star" -> WaysOfLoop(re, w, Way(p, cap), 0, -1)
       [] re.op = "Plus" -> WaysOfLoop(re, w, Way(p, cap), 1, -1)
       [] re.op = "Repeat" -> WaysOfLoop(re, w, Way(p, cap), re.min, re.max)

\* From way on, from times to to times more; -1 is without end.
WaysOfLoop(re, w, way, from, to) ==
  LET next == WaysOf(Sub(re), w, way.p, way.cap)
      On(k) == WaysOfLoop(re, w, next[k], IF from = 0 THEN 0 ELSE from - 1,
                          IF to = -1 THEN -1 ELSE to - 1)
      \* A turn that reads nothing is not followed by another one for its own sake.
      more == FlattenSeq([k \in DOMAIN next |->
                IF next[k].p = way.p /\ from <= 1 THEN <<next[k]>> ELSE On(k)])
  IN CASE to = 0 -> <<way>>
       [] to # 0 /\ from > 0 -> Firsts(more)
       [] OTHER -> Firsts(IF Has(re, "NonGreedy") THEN <<way>> \o more ELSE more \o <<way>>)

\* The registers at the beginning of a match at p.
Beginning(p, n) == [k \in 0..(2 * n + 1) |-> IF k = 0 THEN p ELSE NULL]
Whole(re, w, p, n) == WaysOf(re, w, p, Beginning(p, n))
MatchesAlone(re, w, anchor) ==
  \E p \in IF anchor = "unanchored" THEN 0..Len(w) ELSE {0} :
    \E way \in ToSet(Whole(re, w, p, 0)) : anchor = "both" => way.p = Len(w)

\* Can it match the empty string?  (Yes, rather than no, in doubt.)
RECURSIVE Nullable(_), NullableLoop(_), NumCaptures(_)
Nullable(re) ==
  CASE re.op \in {"Literal", "LiteralString", "CharClass", "AnyChar", "AnyByte", "NoMatch"} -> FALSE
    [] re.op \in {"Concat"} -> \A k \in DOMAIN re.subs : Nullable(re.subs[k])
    [] re.op = "Alternate" -> \E k \in DOMAIN re.subs : Nullable(re.subs[k])
    [] re.op \in {"Capture", "Plus"} -> Nullable(Sub(re))
    [] re.op = "Repeat" -> re.min = 0 \/ Nullable(Sub(re))
    [] OTHER -> TRUE
\* Is there a loop over something that can match the empty string?
NullableLoop(re) ==
  \/ re.op \in {"Star", "Plus", "Repeat"} /\ Nullable(Sub(re))
  \/ \E k \in DOMAIN re.subs : NullableLoop(re.subs[k])

\* The nodes that a walk over a tree visits.
RECURSIVE Visits(_)
Visits(re) == 1 + MapThenSumSet(LAMBDA k : Visits(re.subs[k]), DOMAIN re.subs)

NumCaptures(re) ==
  MapThenSumSet(LAMBDA k : NumCaptures(re.subs[k]), DOMAIN re.subs)
    + (IF re.op = "Capture" THEN 1 ELSE 0)
=============================================================================
