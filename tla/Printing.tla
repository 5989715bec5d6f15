------------------------------ MODULE Printing ------------------------------
(***************************************************************************)
(* Regexp::ToString (re2/tostring.cc): a tree written as a pattern again.  *)
(***************************************************************************)
EXTENDS Regexp

\* The context that a tree is printed in, from the tightest on.
PrecAtom == 0
PrecUnary == 1
PrecConcat == 2
PrecAlternate == 3
PrecEmpty == 4
PrecParen == 5
PrecToplevel == 6

NoMatchText == Chars("[^\\x00-\\x{10ffff}]")

\* The characters of n in base 10 or 16.
RECURSIVE Digits(_, _)
Digits(n, base) ==
  (IF n < base THEN <<>> ELSE Digits(n \div base, base)) \o <<HexDigits[(n % base) + 1]>>
Number(n) == Digits(n, 10)
CharOf(r) == CHOOSE c \in DOMAIN CodeOf \cup {"Backquote"} : Code(c) = r
In(c, s) == c \in ToSet(Chars(s))

AppendCCChar(r) ==
  LET Short == [n \in {9, 10, 12, 13} |->
                  CASE n = 9 -> "t" [] n = 10 -> "n" [] n = 12 -> "f" [] n = 13 -> "r"]
      hex == Digits(r, 16)
  IN CASE r \in 32..126 -> (IF In(CharOf(r), "[]^-\\") THEN <<"\\">> ELSE <<>>) \o <<CharOf(r)>>
       [] r \in DOMAIN Short -> <<"\\", Short[r]>>
       [] r < 256 /\ r \notin 32..126 /\ r \notin DOMAIN Short ->
            Chars("\\x") \o (IF r < 16 THEN <<"0">> ELSE <<>>) \o hex
       [] OTHER -> Chars("\\x{") \o hex \o <<"}">>
AppendCCRange(lo, hi) ==
  AppendCCChar(lo) \o (IF lo < hi THEN <<"-">> \o AppendCCChar(hi) ELSE <<>>)
\* Mutant: letters whose case is folded are written like others.
AppendLiteralAsIs(r, fold) ==
  IF r \in 32..126 /\ In(CharOf(r), "(){}[]*+?|.^$\\") THEN <<"\\", CharOf(r)>> ELSE AppendCCRange(r, r)
AppendLiteral(r, fold) ==
  CASE r \in 32..126 /\ In(CharOf(r), "(){}[]*+?|.^$\\") -> <<"\\", CharOf(r)>>
    [] fold /\ IsLower(r) -> <<"[", CharOf(r - 32), CharOf(r), "]">>
    [] OTHER -> AppendCCRange(r, r)

ClassText(cc) ==
  LET Negated == ContainsRune(cc, 65534) /\ ~FullClass(cc)
      ranges == RangesOf(IF Negated THEN Negate(cc) ELSE cc)
  IN IF cc.ranges = {} THEN NoMatchText
     ELSE Chars(IF Negated THEN "[^" ELSE "[")
            \o FlattenSeq([k \in DOMAIN ranges |-> AppendCCRange(ranges[k][1], ranges[k][2])]) \o <<"]">>

RepeatText(re) ==
  CASE re.op = "Star" -> <<"*">>
    [] re.op = "Plus" -> <<"+">>
    [] re.op = "Quest" -> <<"?">>
    [] OTHER -> <<"{">> \o Number(re.min)
                  \o (CASE re.max = -1 -> <<",">>
                        [] re.max = re.min -> <<>>
                        [] OTHER -> <<",">> \o Number(re.max))
                  \o <<"}">>

AtomText ==
  [NoMatch |-> NoMatchText, AnyChar |-> Chars("."), AnyByte |-> Chars("\\C"),
   BeginLine |-> Chars("^"), EndLine |-> Chars("$"), BeginText |-> Chars("(?-m:^)"),
   WordBoundary |-> Chars("\\b"), NoWordBoundary |-> Chars("\\B")]

\* Every tree in an alternation is followed by a | but for the last one.
RECURSIVE Text(_, _)
Text(re, prec) ==
  LET Within(p, text) == IF prec < p THEN Chars("(?:") \o text \o <<")">> ELSE text
      Below(p) == [k \in DOMAIN re.subs |-> Text(re.subs[k], p)]
      Greed == IF Has(re, "NonGreedy") THEN <<"?">> ELSE <<>>
      Literals == FlattenSeq([k \in DOMAIN re.runes |-> AppendLiteral(re.runes[k], Has(re, "FoldCase"))])
      Name == IF re.name = NoName THEN <<>> ELSE Chars("?P<") \o re.name[1] \o <<">">>
  IN CASE re.op = "EmptyMatch" -> IF prec < PrecEmpty THEN Chars("(?:)") ELSE <<>>
       [] re.op = "Literal" -> Literals
       [] re.op = "LiteralString" -> Within(PrecConcat, Literals)
       [] re.op = "Concat" -> Within(PrecConcat, FlattenSeq(Below(PrecConcat)))
       [] re.op = "Alternate" ->
            LET one == Below(PrecAlternate)
            IN Within(PrecAlternate, FoldLeft(LAMBDA t, u : t \o <<"|">> \o u, one[1], Tail(one)))
       [] re.op = "Capture" -> <<"(">> \o Name \o Below(PrecParen)[1] \o <<")">>
       [] re.op \in Loops \cup {"Repeat"} -> Within(PrecUnary, Below(PrecAtom)[1] \o RepeatText(re) \o Greed)
       [] re.op = "CharClass" -> ClassText(re.cc)
       [] re.op = "EndText" -> IF Has(re, "WasDollar") THEN Chars("(?-m:$)") ELSE Chars("\\z")
       [] re.op = "HaveMatch" -> Chars("(?HaveMatch:") \o Number(re.id) \o <<")">>
       [] OTHER -> AtomText[re.op]

AsText(re) == Text(re, PrecToplevel)

\* A pattern that matches just these characters (RE2::QuoteMeta).
QuoteMeta(chars) ==
  LET Quoted(c) ==
        CASE IsLetter(c) \/ IsDigit(c) \/ c = "_" \/ Code(c) >= 128 -> <<c>>
          [] Code(c) = 0 -> Chars("\\x00")
          [] OTHER -> <<"\\", c>>
  IN FlattenSeq([k \in DOMAIN chars |-> Quoted(chars[k])])
=============================================================================
