------------------------------ MODULE MCLibrary ------------------------------
(***************************************************************************)
(* Patterns, as the parser leaves them, with texts and calls: for an RE2   *)
(* object, for a set, for a filter.                                        *)
(***************************************************************************)
EXTENDS Library

MCCaseFolds == << <<65, 90, 32>>, <<97, 122, -32>> >>
MCToLower == << <<65, 90, 32>>, <<192, 214, 32>>, <<8490, 8490, -8383>> >>
MCWordChar == (48..57) \cup (65..90) \cup {95} \cup (97..122)
MCProgOf(q) == q.prog

Seqn(subs) == ReOver("Concat", subs, {})
Either(subs) == ReOver("Alternate", subs, {})
Grouped(n, sub) == [ReOver("Capture", <<sub>>, {}) EXCEPT !.cap = n]
Star(sub) == ReOver("Star", <<sub>>, {})
LazyStar(sub) == ReOver("Star", <<sub>>, {"NonGreedy"})
Plus(sub) == ReOver("Plus", <<sub>>, {})
Quest(sub) == ReOver("Quest", <<sub>>, {})
End == [Re("EndText", {}) EXCEPT !.flags = {"WasDollar"}]
Begin == Re("BeginText", {})
Nothing == Re("EmptyMatch", {})
A == NewLiteral(97, {})
B == NewLiteral(98, {})
AB == LiteralString(<<97, 98>>, {})
FoldedAB == LiteralString(<<97, 98>>, {"FoldCase"})
Eacute == NewLiteral(233, {})

UpTo(n) == UNION {[1..k -> {97, 98}] : k \in 0..n}
Upper == {<<65, 98>>, <<97, 66>>, <<65, 66, 97>>, <<98, 65, 98>>, <<97>>, <<>>}
Accents == {UTF8(233), UTF8(233) \o <<97>>, <<97>> \o UTF8(233), <<195>>, <<97, 98>>, UTF8(233) \o <<98>> \o UTF8(233)}
Lines == {<<97, 10>>, <<10, 97>>, <<97, 10, 97>>, <<10, 10>>, <<>>}
Enough == 100
PF == {"ClassNL", "OneLine", "PerlClasses", "PerlB", "PerlX", "UnicodeGroups"}
RECURSIVE Flagged(_, _)
Flagged(re, fl) ==
  [re EXCEPT !.flags = @ \cup fl, !.subs = [k \in DOMAIN re.subs |-> Flagged(re.subs[k], fl)]]
Pattern(tree, texts) ==
  [tree |-> Flagged(tree, PF), latin1 |-> FALSE, longest |-> FALSE, room |-> Enough, rroom |-> Enough, texts |-> texts]
LongestOf(pattern) == [pattern EXCEPT !.longest = TRUE]
Cramped(pattern, room, rroom) == [pattern EXCEPT !.room = room, !.rroom = rroom]

Two == UpTo(2) \cup {<<97, 97, 98>>, <<98, 97, 98>>, <<97, 98, 97>>}
MCPatterns == {
  Pattern(Seqn(<<Grouped(1, Plus(A)), Grouped(2, Quest(B))>>), Two),
  LongestOf(Pattern(Seqn(<<Grouped(1, LazyStar(A)), Grouped(2, Quest(B))>>), Two)),
  Pattern(Seqn(<<Grouped(1, Seqn(<<A, Either(<<Nothing, B>>)>>)), Grouped(2, Either(<<B, Nothing>>))>>), Two),
  LongestOf(Pattern(Seqn(<<Grouped(1, Seqn(<<A, Either(<<Nothing, B>>)>>)), Grouped(2, Either(<<B, Nothing>>))>>), Two)),
  Pattern(Seqn(<<Begin, A, Grouped(1, Star(B))>>), Two),
  Pattern(Seqn(<<Begin, FoldedAB, End>>), Upper),
  Pattern(Seqn(<<Begin, FoldedAB, Grouped(1, Quest(NewLiteral(97, {"FoldCase"})))>>), Upper),
  Pattern(Seqn(<<Begin, Either(<<Grouped(1, B), A>>), End>>), Two),
  Pattern(Seqn(<<Grouped(1, LazyStar(A)), End>>), Two),
  Pattern(Seqn(<<Quest(Grouped(1, A)), End>>), Two),
  Pattern(Seqn(<<Re("WordBoundary", {}), Grouped(1, Quest(B))>>), Two \cup {<<97, 32, 98>>}),
  Pattern(Either(<<Grouped(1, Seqn(<<A, End>>)), B>>), Two),
  Pattern(Either(<<Seqn(<<Begin, Begin, A>>), B>>), Two),
  Pattern(Seqn(<<Begin, Begin, A, Begin, B>>), Two),
  Pattern(Seqn(<<A, Re("EndLine", {})>>), Lines),
  Pattern(Re("BeginLine", {}), Lines),
  Pattern(Star(Eacute), Accents),
  Pattern(Star(A), Accents),
  Pattern(Seqn(<<Begin, Eacute, Star(A)>>), Accents),
  [Pattern(Flagged(Star(A), {"Latin1"}), Accents) EXCEPT !.latin1 = TRUE],
  Cramped(Pattern(Grouped(1, AB), Two), 9, 6),
  Cramped(Pattern(Seqn(<<AB, End>>), Two), 9, 3),
  Cramped(Pattern(Grouped(1, AB), Two), 4, Enough)}

Args(s, e, anchor, n) == [startpos |-> s, endpos |-> e, anchor |-> anchor, nsubmatch |-> n]
Chosen(w) == IF Len(w) < 3 THEN (0..(Len(w) + 1)) \X (0..(Len(w) + 1))
             ELSE {<<0, Len(w)>>, <<1, Len(w)>>, <<0, Len(w) - 1>>, <<1, Len(w) - 1>>, <<Len(w), Len(w)>>}
MCRewrites == {<<>>, <<92, 48>>, <<120, 92, 49>>, <<92, 50, 92, 49>>, <<92, 92>>, <<92>>, <<120, 92, 120>>}
MCCalls(re, w) ==
  LET caps == NumCaptures(re.tree)
      Do(kind, n, failing) == [kind |-> kind, n |-> n, failing |-> failing]
  IN {[kind |-> "Match", args |-> Args(range[1], range[2], anchor, n)] :
        range \in Chosen(w), anchor \in {"unanchored", "start", "both"}, n \in {0, 1, caps + 2}}
     \cup {Do(kind, n, f) : kind \in DoMatches, n \in {0, caps + 1}, f \in {0}}
     \cup UNION {{Do(kind, caps, f) : f \in 0..caps} : kind \in DoMatches}
     \cup {[kind |-> kind, rewrite |-> rewrite] : kind \in Rewritings, rewrite \in MCRewrites}
MCNoPattern == Pattern(Nothing, {})

(***************************************************************************)
(* Patterns for sets.                                                      *)
(***************************************************************************)
SetPF == PF \cup {"NeverCapture"}
Of(written, tree) ==
  [text |-> [k \in DOMAIN Chars(written) |-> Code(Chars(written)[k])], tree |-> {Flagged(tree, SetPF)}]
MCSetPatterns ==
  {Of("", Nothing), Of("a", A), Of("ab", AB), Of("b", B),
   Of("a*", Star(A)), Of("^b", Seqn(<<Begin, B>>)),
   Of("a$", Seqn(<<A, End>>)), Of("a*b", Seqn(<<Star(A), B>>)),
   Of("b+?a", Seqn(<<ReOver("Plus", <<B>>, {"NonGreedy"}), A>>)),
   Of("\\bb", Seqn(<<Re("WordBoundary", {}), B>>)),
   Of("[^\\x00-\\x{10ffff}]", Re("NoMatch", {})),
   [text |-> <<40>>, tree |-> {}]}
MCSetTexts == UpTo(2) \cup {<<97, 97, 98>>, <<98, 97, 98>>, <<99, 97>>}

(***************************************************************************)
(* Patterns for filters.                                                   *)
(***************************************************************************)
Class(ranges) == NewCharClass([EmptyClass EXCEPT !.ranges = ranges], {})
AnyChars == ReOver("Star", <<Re("AnyChar", {})>>, {})
AorB == Class({<<97, 98>>})
MCFilterPatterns ==
  {{}} \cup {{Flagged(tree, PF)} : tree \in
    {Seqn(<<AB, AnyChars, AB>>), Seqn(<<B, AnyChars, A>>), Either(<<A, LiteralString(<<98, 98>>, {})>>),
     Either(<<Seqn(<<AB, AnyChars, A>>), Grouped(1, LiteralString(<<98, 98>>, {}))>>),
     Seqn(<<Begin, Quest(A), Plus(AB), End>>),
     Seqn(<<AorB, AorB, AorB, AorB, AorB>>),
     Class({<<75, 75>>, <<107, 107>>, <<8490, 8490>>}),
     Seqn(<<Class({<<97, 122>>}), Eacute>>), Re("NoMatch", {})}}
MCFilterTexts ==
  UpTo(1) \cup {<<66, 97>>, <<97, 98>>, <<97, 98, 97>>, <<98, 98>>, <<98, 97, 98, 98, 97>>, <<97, 98, 98, 97, 98>>,
    UTF8(8490), <<107>>, <<97>> \o UTF8(233), <<97>> \o UTF8(201), <<195>>}
(***************************************************************************)
(* One filtered pattern, cc.*aa.*bb|dd.*aa.*bb|...|ll.*aa.*bb|aa.*bb: what *)
(* its last alternative asks for is shared with ten others, as many as are *)
(* too many for the filter.                                                *)
(***************************************************************************)
Twice(r) == LiteralString(<<r, r>>, {})
Tails == <<AnyChars, Twice(97), AnyChars, Twice(98)>>
Alternatives == [k \in 1..11 |-> Seqn(IF k < 11 THEN <<Twice(98 + k)>> \o Tails ELSE Tail(Tails))]
PrunedPatterns == {{Flagged(Either(Alternatives), PF)}}
\* "xaaybbb", and one that has another alternative in it.
PrunedTexts == {<<120, 97, 97, 121, 98, 98, 98>>, <<99, 99, 97, 97, 98, 98>>}
=============================================================================
