----------------------------- MODULE Factoring -----------------------------
(***************************************************************************)
(* Factoring of alternations by the parser (re2/parse.cc): common literal  *)
(* prefixes, then common leading pieces, then single runes and classes,    *)
(* which are merged.                                                       *)
(***************************************************************************)
EXTENDS Regexp

IsString(re) == re.op \in {"Literal", "LiteralString"}

RECURSIVE LeadingString(_), RemoveLeadingString(_, _)
LeadingString(re) ==
  IF re.op = "Concat" /\ re.subs # <<>> THEN LeadingString(Sub(re))
  ELSE [runes |-> IF IsString(re) THEN re.runes ELSE <<>>,
        flags |-> re.flags \cap {"FoldCase", "Latin1"}]

RemoveLeadingString(re, n) ==
  LET left == SubSeq(re.runes, n + 1, Len(re.runes))
      sub == RemoveLeadingString(Sub(re), n)
  IN CASE IsString(re) ->
            [re EXCEPT !.runes = left,
                       !.op = IF n >= Len(re.runes) THEN "EmptyMatch"
                              ELSE IF Len(left) = 1 THEN "Literal" ELSE "LiteralString"]
       [] re.op = "Concat" /\ sub.op = "EmptyMatch" ->
            IF Len(re.subs) = 2 THEN re.subs[2] ELSE [re EXCEPT !.subs = Tail(@)]
       [] re.op = "Concat" /\ sub.op # "EmptyMatch" -> [re EXCEPT !.subs[1] = sub]
       [] OTHER -> re

\* {} if there is none.
LeadingRegexp(re) ==
  LET first == IF re.op = "Concat" /\ Len(re.subs) >= 2 THEN Sub(re) ELSE re
  IN IF first.op = "EmptyMatch" THEN {} ELSE {first}

RemoveLeadingRegexp(re) ==
  CASE LeadingRegexp(re) = {} -> re
    [] LeadingRegexp(re) # {} /\ re.op = "Concat" /\ Len(re.subs) >= 2 ->
         IF Len(re.subs) = 2 THEN re.subs[2] ELSE [re EXCEPT !.subs = Tail(@)]
    [] OTHER -> Re("EmptyMatch", re.flags)

CommonPrefix(s, t) ==
  LET Same(n) == SubSeq(s, 1, n) = SubSeq(t, 1, n)
  IN SubSeq(s, 1, Max({n \in 0..Min({Len(s), Len(t)}) : Same(n)}))

\* What the first subs begin with, for as many of them as begin alike.
RECURSIVE StringRun(_, _, _)
StringRun(subs, n, prefix) ==
  LET next == LeadingString(subs[n + 1])
      common == CommonPrefix(prefix.runes, next.runes)
  IN IF n = Len(subs) \/ next.flags # prefix.flags \/ common = <<>>
     THEN [length |-> n, prefix |-> prefix]
     ELSE StringRun(subs, n + 1, [prefix EXCEPT !.runes = common])

\* How many regexps are of the run that the first one opens.
RunLength(continues) == Max({n \in DOMAIN continues : \A k \in 2..n : continues[k]})

RuneOp(op) == op \in {"CharClass", "AnyChar", "AnyByte"}
Factorable(first) ==
  \/ first.op \in DOMAIN EmptyWidthOps \/ RuneOp(first.op)
  \/ /\ first.op = "Repeat" /\ first.min = first.max
     /\ Sub(first).op = "Literal" \/ RuneOp(Sub(first).op)

\* A folded literal is made a class of its own first.
AddLiteralOrClass(cc, re) ==
  LET r == re.runes[1] IN
  CASE re.op = "CharClass" ->
         FoldLeft(LAMBDA c, range : AddRangeFlags(c, range[1], range[2], re.flags), cc, RangesOf(re.cc))
    [] re.op = "Literal" /\ Has(re, "FoldCase") ->
         AddCharClass(cc, AddRangeFlags(EmptyClass, r, r, re.flags))
    [] OTHER -> AddRangeFlags(cc, r, r, re.flags)

IsRune(re) == re.op \in {"Literal", "CharClass"}

RECURSIVE Round1(_, _), Round2(_, _), Round3(_, _), FactorAlternation(_, _)
\* A common prefix, and what is left of the regexps that had it.
Spliced(prefix, suffixes, flags) ==
  Concat(<<prefix, AlternateNoFactor(FactorAlternation(suffixes, flags), flags)>>, flags)

Round1(subs, flags) ==
  LET run == StringRun(subs, 1, LeadingString(Head(subs)))
      n == run.length
      suffixes == [k \in 1..n |-> RemoveLeadingString(subs[k], Len(run.prefix.runes))]
  IN IF subs = <<>> THEN <<>>
     ELSE <<IF n = 1 THEN Head(subs)
            ELSE Spliced(LiteralString(run.prefix.runes, run.prefix.flags), suffixes, flags)>>
          \o Round1(SubSeq(subs, n + 1, Len(subs)), flags)

Round2(subs, flags) ==
  LET firsts == LeadingRegexp(Head(subs))
      first == CHOOSE re \in firsts : TRUE
      Continues(re) == /\ firsts # {} /\ Factorable(first)
                       /\ \E other \in LeadingRegexp(re) : Equal(first, other)
      n == RunLength([k \in DOMAIN subs |-> Continues(subs[k])])
      suffixes == [k \in 1..n |-> RemoveLeadingRegexp(subs[k])]
  IN IF subs = <<>> THEN <<>>
     ELSE <<IF n = 1 THEN Head(subs) ELSE Spliced(first, suffixes, flags)>>
          \o Round2(SubSeq(subs, n + 1, Len(subs)), flags)

Round3(subs, flags) ==
  LET Continues(re) == IsRune(Head(subs)) /\ IsRune(re)
      n == RunLength([k \in DOMAIN subs |-> Continues(subs[k])])
      merged == FoldLeft(AddLiteralOrClass, EmptyClass, SubSeq(subs, 1, n))
  IN IF subs = <<>> THEN <<>>
     ELSE <<IF n = 1 THEN Head(subs) ELSE NewCharClass(merged, flags \ {"FoldCase"})>>
          \o Round3(SubSeq(subs, n + 1, Len(subs)), flags)

FactorAlternation(subs, flags) == Round3(Round2(Round1(subs, flags), flags), flags)

Alternate(subs, flags) ==
  IF Len(subs) <= 1 THEN AlternateNoFactor(subs, flags)
  ELSE AlternateNoFactor(FactorAlternation(subs, flags), flags)
=============================================================================
