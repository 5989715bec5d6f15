----------------------------- MODULE MCPipeline -----------------------------
(***************************************************************************)
(* Patterns for the pipeline, together with the trees that are meant by    *)
(* them.  An expression is made up of text and tree together: what is      *)
(* written down counts, nothing is simplified.                             *)
(***************************************************************************)
EXTENDS Pipeline

(***************************************************************************)
(* Expressions: the text, the tree, how many groups it has, and whether it *)
(* needs parentheses to be repeated (1), strung together (2).              *)
(***************************************************************************)
Exp(text, t, caps, loose) == [text |-> text, tree |-> t, caps |-> caps, loose |-> loose]
Wrapped(x, most) ==
  IF x.loose > most \/ x.text = <<>> THEN Chars("(?:") \o x.text \o <<")">> ELSE x.text

RECURSIVE Shift(_, _)
Shift(re, n) ==
  [re EXCEPT !.cap = IF re.op = "Capture" THEN @ + n ELSE @,
             !.subs = [k \in DOMAIN re.subs |-> Shift(re.subs[k], n)]]

Lit(c) == Exp(<<c>>, NewLiteral(Code(c), {}), 0, 0)
Atom(text, t) == Exp(Chars(text), t, 0, 0)
Letters(text, ranges) == Atom(text, NewCharClass([EmptyClass EXCEPT !.ranges = ranges], {}))
Group(x) == Exp(<<"(">> \o x.text \o <<")">>, [ReOver("Capture", <<Shift(x.tree, 1)>>, {}) EXCEPT !.cap = 1],
                x.caps + 1, 0)
Both(op, x, y, text, loose) ==
  Exp(text, ReOver(op, <<x.tree, Shift(y.tree, x.caps)>>, {}), x.caps + y.caps, loose)
Cat(x, y) == Both("Concat", x, y, Wrapped(x, 2) \o Wrapped(y, 2), 2)
Alt(x, y) == Both("Alternate", x, y, x.text \o <<"|">> \o y.text, 3)
Times(x, op, t) == Exp(Wrapped(x, 0) \o Chars(op), t, x.caps, 1)

Lazily(lazy) == IF lazy THEN {"NonGreedy"} ELSE {}
Rep(x, op) ==
  LET Over(name, fl) == Times(x, op, ReOver(name, <<x.tree>>, fl))
      Counted(lo, hi, fl) == Times(x, op, Repeat(x.tree, fl, lo, hi))
  IN CASE op = "*" -> Over("Star", {}) [] op = "*?" -> Over("Star", {"NonGreedy"})
       [] op = "+" -> Over("Plus", {}) [] op = "+?" -> Over("Plus", {"NonGreedy"})
       [] op = "?" -> Over("Quest", {}) [] op = "??" -> Over("Quest", {"NonGreedy"})
       [] op = "{0}" -> Counted(0, 0, {}) [] op = "{2}" -> Counted(2, 2, {})
       [] op = "{2,}" -> Counted(2, -1, {}) [] op = "{0,2}" -> Counted(0, 2, {})
       [] op = "{1,2}" -> Counted(1, 2, {})
       [] op = "{1,3}?" -> Counted(1, 3, {"NonGreedy"}) [] op = "{0,}?" -> Counted(0, -1, {"NonGreedy"})

Empty == Exp(<<>>, Re("EmptyMatch", {}), 0, 0)
a == Lit("a")
b == Lit("b")
c == Lit("c")
ab == Cat(a, b)
ac == Cat(a, c)
abc == Cat(ab, c)
AorB == Letters("[ab]", {<<97, 98>>})
Dot == Atom(".", Re("AnyChar", {}))
Caret == Atom("^", Re("BeginLine", {}))
Dollar == Atom("$", Re("EndLine", {}))
WordEdge == Atom("\\b", Re("WordBoundary", {}))
InWord == Atom("\\B", Re("NoWordBoundary", {}))
BeginText == Atom("\\A", Re("BeginText", {}))
EndText == Atom("\\z", Re("EndText", {}))

MCCaseFolds ==
  << <<65, 90, 32>>, <<97, 106, -32>>, <<107, 107, 8383>>, <<108, 114, -32>>, <<115, 115, 268>>,
     <<116, 122, -32>>, <<256, 303, EvenOdd>>, <<313, 328, OddEven>>, <<383, 383, -300>>,
     <<8490, 8490, -8415>> >>
Digit == << <<48, 57>> >>
Word == << <<48, 57>>, <<65, 90>>, <<95, 95>>, <<97, 122>> >>
UGroup(ranges, sign) == [ranges |-> ranges, sign |-> sign]
MCPerlGroups == "d" :> UGroup(Digit, 1) @@ "D" :> UGroup(Digit, -1) @@ "w" :> UGroup(Word, 1) @@ "W" :> UGroup(Word, -1)
MCPosixGroups == Chars("alpha") :> << <<65, 90>>, <<97, 122>> >> @@ Chars("word") :> Word
MCUnicodeGroups == Chars("Any") :> << <<0, Runemax>> >> @@ <<"N">> :> Digit
MCCaptureRunes == (48..57) \cup (65..90) \cup {95} \cup (97..122)
MCWordChar == (48..57) \cup (65..90) \cup {95} \cup (97..122)

RepeatOps == {"*", "*?", "+", "+?", "?", "??", "{0}", "{2}", "{2,}", "{0,2}", "{1,3}?", "{0,}?"}
Repeated ==
  {Rep(x, op) : x \in {a, ab, Group(a), Alt(a, b), Empty, Rep(a, "*"), Rep(Group(b), "?"), Caret}, op \in RepeatOps}
NextToAnother ==
  {Cat(Rep(a, op), y) : op \in RepeatOps,
     y \in {a, Cat(a, a), Cat(Cat(a, a), b), Rep(a, "*"), Rep(a, "+?"), Rep(a, "{2}"), b}}
Members ==
  {Empty, a, b, ab, ac, abc, Cat(AorB, c), Cat(AorB, b), Rep(a, "*"), Group(a), AorB, Dot,
    Cat(Rep(a, "{2}"), b), Cat(Rep(a, "{2}"), c), Cat(WordEdge, a), Cat(WordEdge, b)}
InPairs == {Alt(x, y) : x, y \in Members}
InThrees == {Alt(Alt(x, y), z) : x, y, z \in {Empty, a, b, ab, abc, Cat(Rep(a, "{2}"), b)}}
Nested ==
  {Group(Alt(Group(a), Rep(b, "*"))), Cat(Group(Rep(Group(a), "*")), Group(b)),
    Rep(Group(Alt(a, ab)), "*"), Alt(Alt(a, Group(b)), Cat(Group(a), b)),
    Cat(Caret, Cat(a, Dollar)), Cat(BeginText, Alt(a, b)), Alt(Cat(BeginText, a), b),
    Cat(Group(BeginText), a), Cat(Group(Cat(a, EndText)), Empty), Cat(Alt(a, ab), EndText),
    Cat(Group(Cat(BeginText, a)), EndText), Alt(EndText, a), Cat(Rep(BeginText, "*"), a),
    Cat(WordEdge, Cat(Rep(a, "+"), WordEdge)), Cat(a, Cat(InWord, Dot)), Alt(WordEdge, b),
    Cat(ab, Cat(abc, a)), Group(Cat(ab, Rep(c, "*"))), Rep(Alt(Alt(abc, ac), b), "{2}"),
    Rep(Rep(Rep(a, "?"), "{2}"), "?"), Cat(Rep(Dot, "*?"), b), Rep(Rep(a, "+"), "+?")}

(***************************************************************************)
(* Sources.                                                                *)
(***************************************************************************)
Enough == 200
Perl == PrintFlags
Source(text, asked, means, room, texts) ==
  [chars |-> text, flags |-> asked, means |-> means, max |-> room, texts |-> texts]

ABC == UNION {[1..n -> {97, 98}] : n \in 0..3} \cup {<<99>>, <<97, 98, 99>>, <<97, 97, 97, 98>>, <<97, 99>>}
Plainly(x) == Source(x.text, Perl, {x.tree}, Enough, ABC)
Written(text, asked, texts, x) == Source(Chars(text), asked, {x.tree}, Enough, texts)
Wrong(text, asked) == Source(Chars(text), asked, {}, Enough, {})

Errors ==
  {"(", ")", "a)", "(a", "(a|b|", "[a", "[a-", "[b-a]", "[]", "\\", "\\8", "\\x4", "\\x{110000}", "\\x{", "\\y",
    "*", "a|*", "(*)", "^**", "a**", "a{2}{2}", "{2}", "a{2,1}", "x{11}", "x{1,11}", "(?:x{4}){3}", "(?:(?:x{2}){3}){2}",
    "(?i", "(?i-", "(?-)", "(?ii", "(?a)", "(?i--s)", "(?P<n", "(?P<>a)", "(?P<n m>a)", "(?<n", "(?=a)", "(?!a)", "(?<=a)",
    "\\p", "\\pX", "\\p{Any", "\\p{Foo}", "[[:foo:]]", "[a-\\d]", "\\Q\\E*"}


\* What letters of flags, escapes, groups of runes and options mean.
Folded(lower) == Letters("", {<<lower, lower>>, <<lower - 32, lower - 32>>})
But(ranges) == Letters("", ranges)
NotA == But({<<0, 96>>, <<98, Runemax>>})
Dotless == But({<<0, 9>>, <<11, Runemax>>})
Lines == UNION {[1..n -> {10, 97}] : n \in 0..3}
Upper == UNION {[1..n -> {65, 98, 66, 97}] : n \in 1..2}
Signs == {<<46>>, <<97>>, <<98>>, <<97, 46>>, <<97, 98>>, <<97, 46, 98>>, <<45>>, <<93>>, <<123>>, <<97, 123, 44, 49, 125>>,
          <<95>>, <<48>>, <<10>>, <<97, 49>>, <<97, 42>>, <<92, 98>>}
Wide == {UTF8(8490), UTF8(233), UTF8(97) \o UTF8(233), UTF8(1114111), <<75>>, <<107>>, <<97>>, <<195>>, <<233>>, UTF8(55)}
Latin == {<<233>>, <<97>>, <<65>>, <<195, 169>>, <<97, 233>>}
Latin1(x) == [x EXCEPT !.tree.flags = {"Latin1"}]
Eacute == Exp(<<"Eacute">>, NewLiteral(233, {}), 0, 0)
Byte == Atom("\\C", Re("AnyByte", {}))
\* More bytes than the shift DFA looks at.
FoldedAB == Cat(Folded(97), Folded(98))
LongFolded == Cat(Cat(FoldedAB, Cat(FoldedAB, FoldedAB)), Cat(FoldedAB, FoldedAB))
Ten == <<97, 98, 65, 66, 97, 66, 65, 98, 97, 98>>
LongTexts == {Ten, <<97>> \o Ten, <<97, 98>> \o Ten, Ten \o <<99>>, [Ten EXCEPT ![10] = 99],
              [Ten EXCEPT ![9] = 99] \o Ten, SubSeq(Ten, 1, 9)}

Flagged ==
  {Written("(?-s:.)a", Perl, Lines, Cat(Dotless, a)),
   Written(".a", Perl \ {"DotNL"}, Lines, Cat(Dotless, a)),
   Written("(?s).a", Perl \ {"DotNL"}, Lines, Cat(Dot, a)),
   Written("^a$", Perl, Lines, Cat(Caret, Cat(a, Dollar))),
   Written("^a$", Perl \cup {"OneLine"}, Lines, Cat(BeginText, Cat(a, EndText))),
   Written("(?m:^a)$", Perl \cup {"OneLine"}, Lines, Cat(Caret, Cat(a, EndText))),
   Written("(?m)(?-m:^)a|$", Perl, Lines, Alt(Cat(BeginText, a), Dollar)),
   Written("^*a", Perl, Lines, Cat(Rep(Caret, "*"), a)),
   Written("(?U)a*b??", Perl, ABC, Cat(Rep(a, "*?"), Rep(b, "?"))),
   Written("(?U:a+)a?", Perl, ABC, Cat(Rep(a, "+?"), Rep(a, "?"))),
   Written("a{1,2}?", Perl \cup {"NonGreedy"}, ABC, Rep(a, "{1,2}")),
   Written("(?i)ab", Perl, Upper, Cat(Folded(97), Folded(98))),
   Written("(?i:a)b", Perl, Upper, Cat(Folded(97), b)),
   Written("(a(?i)b)B", Perl, Upper \cup {<<97, 98, 66>>, <<97, 66, 98>>, <<97, 66, 66>>}, Cat(Group(Cat(a, Folded(98))), Lit("B"))),
   Written("(?i:AB|ab|a)", Perl, Upper, Alt(Cat(Folded(97), Folded(98)), Folded(97))),
   Written("(?i:a)|ab|(?i)a", Perl, Upper, Alt(Alt(Folded(97), ab), Folded(97))),
   Written("(?i:a)b|Ab", Perl, Upper, Alt(Cat(Folded(97), b), Cat(Lit("A"), b))),
   Written("(?i)(?:ab){5}", Perl, Upper, LongFolded),
   Written("(?i)ababababab", Perl, LongTexts, LongFolded),
   Written("[Aa]b|[Aa]B", Perl, Upper, Cat(Folded(97), Folded(98))),
   Written("[Aa]|b", Perl, Upper, Alt(Folded(97), b)),
   Written("(?i)[a-a]a", Perl, Upper, Cat(Folded(97), Folded(97))),
   Written("ab", Perl \cup {"FoldCase"}, Upper, Cat(Folded(97), Folded(98))),
   Written("(?i)k", Perl, Wide, But({<<75, 75>>, <<107, 107>>, <<8490, 8490>>})),
   Written("(?i)[^k]", Perl, Wide, But({<<0, 74>>, <<76, 106>>, <<108, 8489>>, <<8491, Runemax>>})),
   Written("(?i)\\W", Perl, Wide, But({<<0, 47>>, <<58, 64>>, <<91, 94>>, <<96, 96>>, <<123, 382>>, <<384, 8489>>, <<8491, Runemax>>}))}

Escaped ==
  {Written("\\x61\\x{62}", Perl, ABC, ab), Written("\\141\\0", Perl, {<<97>>, <<97, 0>>, <<97, 48>>}, Cat(a, Letters("", {<<0, 0>>}))),
   Written("a\\.", Perl, Signs, Cat(a, Lit("."))), Written("\\n", Perl, Signs, But({<<10, 10>>})),
   Written("\\Qa.\\Eb", Perl, Signs, Cat(a, Cat(Lit("."), b))), Written("\\Qa*", Perl, Signs, Cat(a, Lit("*"))),
   Written("\\Q\\Ea", Perl, Signs, a), Written("\\Q\\b\\E", Perl, Signs, Cat(Lit("\\"), b)),
   Written("a{,1}", Perl, Signs, Cat(a, Cat(Lit("{"), Cat(Lit(","), Cat(Lit("1"), Lit("}")))))),
   Written("{", Perl, Signs, Lit("{")), Written("a{01}|b", Perl, Signs, Alt(Cat(a, Exp(<<>>, LiteralString(<<123, 48, 49, 125>>, {}), 0, 0)), b)),
   Written("[]a]", Perl, Signs, Alt(Lit("]"), a)), Written("[a-]", Perl, Signs, Alt(Lit("-"), a)),
   Written("[-a]", Perl, Signs, Alt(Lit("-"), a)), Written("[^\\]a]", Perl, Signs, But({<<0, 92>>, <<94, 96>>, <<98, Runemax>>})),
   Written("[a-b]", Perl, Signs, AorB), Written("[^a]", Perl, Signs, NotA),
   Written("[^a]", Perl \ {"ClassNL"}, Signs, But({<<0, 9>>, <<11, 96>>, <<98, Runemax>>})),
   Written("\\w", Perl, Signs, But(ToSet(Word))), Written("\\d|[\\w-]", Perl, Signs, Alt(But(ToSet(Word)), Lit("-"))),
   Written("[^\\D]", Perl, Signs, But(ToSet(Digit))), Written("\\D", Perl \ {"ClassNL"}, Signs, But({<<0, 9>>, <<11, 47>>, <<58, Runemax>>})),
   Written("[[:word:]]", Perl, Signs, But(ToSet(Word))), Written("[[:^word:]a]", Perl, Signs, But({<<0, 47>>, <<58, 64>>, <<91, 94>>, <<96, 97>>, <<123, Runemax>>})),
   Written("\\pN", Perl, Signs, But(ToSet(Digit))), Written("\\PN", Perl, Signs, But({<<0, 47>>, <<58, Runemax>>})),
   Written("\\p{^N}", Perl, Signs, But({<<0, 47>>, <<58, Runemax>>})), Written("\\P{^N}", Perl, Signs, But(ToSet(Digit))),
   Written("[^\\x00-\\x{10FFFF}]|a", Perl, Signs, a), Written("\\p{Any}", Perl, Signs, Dot), Written("\\P{Any}b?", Perl, ABC, But({}))}

Optional ==
  {Written("a.", Perl \cup {"Literal"}, Signs, Cat(a, Lit("."))), Written("(a)b", Perl \cup {"NeverCapture"}, ABC, ab),
   Written("(?P<n>a)(?<m>b)", Perl, ABC, Cat(Group(a), Group(b))), Written("(?:a)(b)", Perl, ABC, Cat(a, Group(b))),
   Written("a\\nb", Perl \cup {"NeverNL"}, {<<97, 10, 98>>, <<97, 98>>}, Cat(a, Cat(But({}), b))),
   Written("[^a]", Perl \cup {"NeverNL"}, Signs, But({<<0, 9>>, <<11, 96>>, <<98, Runemax>>})),
   Written(".", Perl \cup {"NeverNL"}, Signs, Dotless),
   Written("a**", Perl \ {"PerlX"}, ABC, Rep(a, "*")), Written("a*?b", Perl \ {"PerlX"}, ABC, Cat(Rep(Rep(a, "*"), "?"), b)),
   Written("a{2}{2}", Perl \ {"PerlX"}, ABC \cup {<<97, 97, 97, 97>>}, Rep(Rep(a, "{2}"), "{2}")),
   Wrong("(?:a)", Perl \ {"PerlX"}), Wrong("\\Qa", Perl \ {"PerlX"}), Wrong("\\b", Perl \ {"PerlB"}),
   Wrong("\\d", Perl \ {"PerlClasses"}), Wrong("\\pN", Perl \ {"UnicodeGroups"}), Wrong("[a-b-c]", Perl \ {"PerlX"})}

Encoded ==
  {Source(Eacute.text, Perl, {Eacute.tree}, Enough, Wide),
   Source(Eacute.text, Perl \cup {"Latin1"}, {Latin1(Eacute).tree}, Enough, Latin),
   Source(<<"[", "^", "Eacute", "]">>, Perl \cup {"Latin1"}, {Latin1(But({<<0, 232>>, <<234, 255>>})).tree}, Enough, Latin),
   Source(<<"Eacute", "*">>, Perl, {Rep(Eacute, "*").tree}, Enough, Wide \cup {UTF8(233) \o UTF8(233)}),
   Source(Wrapped(Eacute, 3) \o <<"|">> \o <<"Kelvin">>, Perl, {Alt(Eacute, But({<<8490, 8490>>})).tree}, Enough, Wide),
   Source(<<"a", "bad">>, Perl, {}, Enough, {}),
   Written(".", Perl \cup {"Latin1"}, Latin, Latin1(Dot)), Written("(?i)a.", Perl \cup {"Latin1"}, Latin, Cat(Folded(97), Latin1(Dot))),
   Written(".", Perl, Wide, Dot), Written("[^a]", Perl, Wide, NotA), Written("\\C", Perl, Wide, Byte),
   Written("a[^a]", Perl, Wide, Cat(a, NotA)), Written("\\x{10FFFF}", Perl, Wide, But({<<Runemax, Runemax>>})),
   Written("[\\x{e0}-\\x{e9}]", Perl, Wide, But({<<224, 233>>}))}

\* Ranges that overlap, in part or in the other case.
Overlapping ==
  LET OneRange(lo, hi) == Letters("", {<<lo, hi>>})
      BothCases == Letters("", {<<65, 66>>, <<97, 98>>})
      Pairs == {<<x, y>> : x \in {65, 66, 97, 98, 99, 100, 101}, y \in {97, 98, 99}}
  IN {Written("[ab]c|ac|bc", Perl, Pairs, Alt(Alt(Cat(AorB, c), ac), Cat(b, c))),
      Written("[a-c]a|[b-d]b|[c-e]c", Perl, Pairs,
              Alt(Alt(Cat(OneRange(97, 99), a), Cat(OneRange(98, 100), b)), Cat(OneRange(99, 101), c))),
      Written("(?i:[ab])c|[Aa]b|Ba", Perl, Pairs, Alt(Alt(Cat(BothCases, c), Cat(Folded(97), b)), Cat(Lit("B"), a))),
      Written("[@-Bb]a|(?i:[ab])c|[_b]b", Perl, Pairs \cup {<<64, 97>>, <<95, 98>>},
              Alt(Alt(Cat(Letters("", {<<64, 66>>, <<98, 98>>}), a), Cat(BothCases, c)), Cat(Letters("", {<<95, 95>>, <<98, 98>>}), b)))}

\* Ranges of runes whose bytes, read backward, share a suffix that one of them adds to.
SharedSuffix ==
  LET ranges == {<<4096, 4101>>, <<4112, 4117>>, <<8192, 8197>>}
      runes == {4096, 4101, 4102, 4111, 4112, 4117, 4118, 8192, 8197, 8198, 8208, 8213}
  IN {Written("[\\x{1000}-\\x{1005}\\x{1010}-\\x{1015}\\x{2000}-\\x{2005}]", Perl, {UTF8(r) : r \in runes}, But(ranges))}

\* Loops over any bytes in front of a match.
Skipping ==
  {Written("\\C*", Perl, ABC, Rep(Byte, "*")), Written("\\C*?", Perl, ABC, Rep(Byte, "*?")),
   Written("a|((b\\C*))", Perl, ABC, Alt(a, Group(Group(Cat(b, Rep(Byte, "*")))))),
   Written("((\\C*?))", Perl, ABC, Group(Group(Rep(Byte, "*?")))),
   Written("(\\C*)|b\\C*", Perl, ABC, Alt(Group(Rep(Byte, "*")), Cat(b, Rep(Byte, "*"))))}

\* Patterns that stand for nothing but their characters.
AsIs(chars) == Exp(chars, LiteralString([k \in DOMAIN chars |-> Code(chars[k])], {}), 0, 0)
Quoted(chars) ==
  LET w == FlattenSeq([k \in DOMAIN chars |-> UTF8(Code(chars[k]))])
  IN Source(QuoteMeta(chars), Perl, {AsIs(chars).tree}, Enough,
            {w, Tail(w), Front(w), <<97>> \o w, w \o w, [w EXCEPT ![1] = 98]})
ToQuote ==
  {Chars("a.b"), Chars("(a*)+?|[^b]$"), Chars("\\Q{2}\\E-"), Chars("_a0"), Chars("(?i)\\b"),
   <<"Nul", "1">>, <<"a", "Newline">>, <<"Eacute", "*">>, <<"Kelvin", "Kelvin">>}

\* Too little room for the program, or just enough.
Cramped ==
  {Source(x.text, Perl, {x.tree}, room, {<<>>, <<97>>, <<97, 98>>, <<98>>}) :
     x \in {Alt(ab, Rep(a, "{2}")), Rep(Group(Alt(a, b)), "*"), Rep(Rep(a, "?"), "*")}, room \in {2, 5, 8, 11, 14}}
\* More pieces than a node holds.
Long ==
  {Plainly(Cat(Cat(Cat(Rep(a, "*"), Rep(b, "?")), Cat(Rep(c, "?"), Rep(a, "?"))), Cat(Rep(b, "*"), c))),
   Plainly(Alt(Alt(Alt(Rep(a, "*"), Group(b)), Alt(Rep(c, "+"), ab)), Alt(Cat(b, c), Rep(b, "+"))))}

MCSources ==
  {Plainly(x) : x \in Repeated \cup NextToAnother \cup InPairs \cup InThrees \cup Nested}
    \cup {Wrong(text, Perl) : text \in Errors} \cup Flagged \cup Escaped \cup Optional \cup Encoded \cup Skipping
    \cup Overlapping \cup SharedSuffix
    \cup Cramped \cup Long \cup {Quoted(chars) : chars \in ToQuote}

\* Letters in both cases, written as a class, where Unicode knows a third.
FoldSources ==
  {Written("[Kk]|x", Perl, Wide, Alt(But({<<75, 75>>, <<107, 107>>}), Lit("x"))),
   Written("[Kk]", Perl, Wide, But({<<75, 75>>, <<107, 107>>})),
   Written("[Ss]|x", Perl, {<<115>>, <<83>>, UTF8(383)}, Alt(But({<<83, 83>>, <<115, 115>>}), Lit("x")))}
=============================================================================
