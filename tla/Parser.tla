------------------------------- MODULE Parser -------------------------------
(***************************************************************************)
(* Regexp::Parse and its ParseState (re2/parse.cc): a stack of regexps and *)
(* of the pseudo-operators ( and |, one turn of the loop for each piece of *)
(* the pattern.                                                            *)
(***************************************************************************)
EXTENDS Factoring, Lexer

CONSTANT MaximumRepeatCount

VARIABLES
  pattern,      \* the characters, and the flags they are parsed with
  at,           \* how far the pattern is read
  stack,        \* stacktop_ is the last one
  flags,        \* flags_
  ncap,         \* ncap_
  lastunary,    \* was the last piece a repetition operator?
  status,       \* parsing, ok, or an error
  root          \* the tree that is returned

parserVars == <<pattern, at, stack, flags, ncap, lastunary, status, root>>

s == pattern.chars
Top(st) == st[Len(st)]
IsMarker(re) == re.op \in {"LeftParen", "VerticalBar"}
TopIsOperand(st) == st # <<>> /\ ~IsMarker(Top(st))
FinishRegexp(re) == [re EXCEPT !.open = FALSE]

(***************************************************************************)
(* Pushing.                                                                *)
(***************************************************************************)
\* Mutant: whether case is folded is not looked at.
CanConcatAnyString(st) ==
  LET n == Len(st) IN n >= 2 /\ IsString(st[n]) /\ IsString(st[n - 1])
CanConcatString(st) ==
  LET n == Len(st) IN
  /\ n >= 2 /\ IsString(st[n]) /\ IsString(st[n - 1])
  /\ Has(st[n], "FoldCase") = Has(st[n - 1], "FoldCase")
MaybeConcatString(st) ==
  LET n == Len(st) IN
  IF CanConcatString(st)
  THEN Append(SubSeq(st, 1, n - 2),
              [st[n - 1] EXCEPT !.op = "LiteralString", !.runes = @ \o st[n].runes])
  ELSE st

\* A class of one rune, or of one ASCII letter in both cases, is pushed as a literal.
AsLiteral(re, fl) ==
  LET cc == RemoveAbove(re.cc, RuneMax(fl))
      r == Lowest(cc)
  IN CASE ~re.open -> re
       [] re.open /\ Size(cc) = 1 -> NewLiteral(r, fl)
       [] re.open /\ Size(cc) = 2 /\ IsUpper(r) /\ ContainsRune(cc, r + 32) ->
            NewLiteral(r + 32, fl \cup {"FoldCase"})
       [] OTHER -> [re EXCEPT !.cc = cc]

PushRegexp(st, re, fl) ==
  Append(MaybeConcatString(st), IF IsMarker(re) THEN re ELSE Finished(AsLiteral(re, fl)))

PushSimpleOp(st, op, fl) == PushRegexp(st, Re(op, fl), fl)
PushClass(st, cc, fl) ==
  PushRegexp(st, [NewCharClass(cc, fl \ {"FoldCase"}) EXCEPT !.open = TRUE], fl)

PushLiteral(st, r, fl) ==
  LET latin1 == "Latin1" \in fl
      Folds == "FoldCase" \in fl /\ IF latin1 THEN IsUpper(r) \/ IsLower(r) ELSE CycleFoldRune(r) # r
      Hidden(x) == "NeverNL" \in fl /\ x = 10
  IN CASE Folds /\ latin1 -> PushClass(st, AddFoldedRangeLatin1(EmptyClass, r, r), fl)
       [] Folds /\ ~latin1 ->
            PushClass(st, AddRanges(EmptyClass, {<<x, x>> : x \in {x \in Orbit(r) : ~Hidden(x)}}), fl)
       [] ~Folds /\ Hidden(r) -> PushSimpleOp(st, "NoMatch", fl)
       [] OTHER -> Append(MaybeConcatString(st), Finished(NewLiteral(r, fl)))

PushCaret(st, fl) == PushSimpleOp(st, IF "OneLine" \in fl THEN "BeginText" ELSE "BeginLine", fl)
PushDollar(st, fl) ==
  LET OneLine == "OneLine" \in fl
  IN PushSimpleOp(st, IF OneLine THEN "EndText" ELSE "EndLine", IF OneLine THEN fl \cup {"WasDollar"} ELSE fl)
PushDot(st, fl) ==
  IF "DotNL" \in fl /\ "NeverNL" \notin fl THEN PushSimpleOp(st, "AnyChar", fl)
  ELSE PushClass(st, AddRanges(EmptyClass, {<<0, 9>>, <<11, RuneMax(fl)>>}), fl)

(***************************************************************************)
(* Repetitions.                                                            *)
(***************************************************************************)
\* The flags of a repetition operator.
Greediness(fl, nongreedy) ==
  IF ~nongreedy THEN fl ELSE IF "NonGreedy" \in fl THEN fl \ {"NonGreedy"} ELSE fl \cup {"NonGreedy"}

PushRepeatOp(st, op, fl) ==
  LET top == Top(st)
      Replace(re) == Append(Front(st), re)
  IN CASE top.op = op /\ fl = top.flags -> st
       [] top.op # op /\ top.op \in Loops /\ fl = top.flags -> Replace([top EXCEPT !.op = "Star"])
       [] OTHER -> Replace(Finished(ReOver(op, <<FinishRegexp(top)>>, fl)))

\* RepetitionWalker: how many copies nested repetitions leave of limit.
RECURSIVE RepetitionsLeft(_, _)
RepetitionsLeft(re, limit) ==
  LET m == IF re.max < 0 THEN re.min ELSE re.max
      own == IF re.op = "Repeat" /\ m > 0 THEN limit \div m ELSE limit
  IN Min({own} \cup {RepetitionsLeft(re.subs[k], own) : k \in DOMAIN re.subs})

PushRepetition(st, min, max, fl) ==
  Append(Front(st), Finished(Repeat(FinishRegexp(Top(st)), fl, min, max)))

(***************************************************************************)
(* Collapsing.                                                             *)
(***************************************************************************)
DoCollapse(st, op, fl) ==
  LET mark == Max({0} \cup {k \in DOMAIN st : IsMarker(st[k])})
      items == SubSeq(st, mark + 1, Len(st))
      subs == FlattenSeq([k \in DOMAIN items |->
                IF items[k].op = op THEN items[k].subs ELSE <<FinishRegexp(items[k])>>])
  IN IF Len(items) = 1 THEN st
     ELSE Append(SubSeq(st, 1, mark),
                 Finished(IF op = "Concat" THEN Concat(subs, fl) ELSE Alternate(subs, fl)))

DoConcatenation(st, fl) ==
  DoCollapse(IF TopIsOperand(st) THEN st ELSE PushSimpleOp(st, "EmptyMatch", fl), "Concat", fl)

\* Any character subsumes a rune or class next to it in an alternation.
Subsumes(re, other) == re.op = "AnyChar" /\ (IsRune(other) \/ other.op = "AnyChar")

DoVerticalBar(st, fl) ==
  LET Bar(below, bar, r1) ==
        LET r3 == Top(below) IN
        CASE below # <<>> /\ Subsumes(r3, r1) -> Append(below, bar)
          [] below # <<>> /\ ~Subsumes(r3, r1) /\ Subsumes(r1, r3) -> Front(below) \o <<r1, bar>>
          [] OTHER -> below \o <<r1, bar>>
      Pushed(st1) ==
        LET n == Len(st1) IN
        IF n >= 2 /\ st1[n - 1].op = "VerticalBar" THEN Bar(SubSeq(st1, 1, n - 2), st1[n - 1], st1[n])
        ELSE PushSimpleOp(st1, "VerticalBar", fl)
  IN Pushed(DoConcatenation(MaybeConcatString(st), fl))

DoAlternation(st, fl) == DoCollapse(Front(DoVerticalBar(st, fl)), "Alternate", fl)

(***************************************************************************)
(* The parse loop.                                                         *)
(***************************************************************************)
Parse(p) ==
  /\ pattern = p
  /\ at = 1 /\ stack = <<>> /\ flags = p.flags /\ ncap = 0
  /\ lastunary = FALSE /\ status = "parsing" /\ root = {}

Reading == status = "parsing" /\ at <= Len(s)
c0 == Here(s, at)
Syntactic == Reading /\ "Literal" \notin pattern.flags
Has2(c) == Here(s, at) = "\\" /\ Here(s, at + 1) = c

\* One piece of the pattern is read.
Piece(st, next) ==
  /\ stack' = st /\ at' = next /\ lastunary' = FALSE
  /\ UNCHANGED <<pattern, flags, ncap, status, root>>

Fails(code) ==
  /\ status' = code
  /\ UNCHANGED <<pattern, at, stack, flags, ncap, lastunary, root>>

LiteralAt ==
  \E r \in {StringViewToRune(s, at)} :
    IF r.error # "" THEN Fails(r.error) ELSE Piece(PushLiteral(stack, r.rune, flags), r.next)

ReadLiteral ==
  /\ Reading
  /\ \/ "Literal" \in pattern.flags
     \/ c0 \notin {"(", "|", ")", "^", "$", ".", "[", "*", "+", "?", "{", "\\"}
  /\ LiteralAt

ReadCaret == Syntactic /\ c0 = "^" /\ Piece(PushCaret(stack, flags), at + 1)
ReadDollar == Syntactic /\ c0 = "$" /\ Piece(PushDollar(stack, flags), at + 1)
ReadDot == Syntactic /\ c0 = "." /\ Piece(PushDot(stack, flags), at + 1)
ReadBar == Syntactic /\ c0 = "|" /\ Piece(DoVerticalBar(stack, flags), at + 1)

ReadClass ==
  /\ Syntactic /\ c0 = "["
  /\ \E class \in {ParseCharClass(s, at, flags)} :
       IF class.error # "" THEN Fails(class.error)
       ELSE Piece(PushClass(stack, class.cc, flags), class.next)

\* Opening a parenthesis; number is -1 if it captures nothing.
DoLeftParen(number, name, fl, next) ==
  /\ stack' = PushRegexp(stack, [Re("LeftParen", flags) EXCEPT !.cap = number, !.name = name], flags)
  /\ ncap' = IF number > 0 THEN number ELSE ncap
  /\ at' = next /\ flags' = fl /\ lastunary' = FALSE
  /\ UNCHANGED <<pattern, status, root>>

PerlOpAhead == "PerlX" \in flags /\ StartsWith(s, at, "(?")
ReadLeftParen ==
  /\ Syntactic /\ c0 = "(" /\ ~PerlOpAhead
  /\ DoLeftParen(IF "NeverCapture" \in flags THEN -1 ELSE ncap + 1, NoName, flags, at + 1)

ReadRightParen ==
  LET Closed(st, paren, re) ==
        /\ flags' = paren.flags
        /\ stack' = PushRegexp(st, IF paren.cap <= 0 THEN re
                                   ELSE Finished([paren EXCEPT !.op = "Capture", !.subs = <<FinishRegexp(re)>>]),
                               paren.flags)
  IN /\ Syntactic /\ c0 = ")"
     /\ \E st \in {DoAlternation(stack, flags)} :
          IF Len(st) < 2 THEN Fails("UnexpectedParen")
          ELSE /\ Closed(SubSeq(st, 1, Len(st) - 2), st[Len(st) - 1], Top(st))
               /\ at' = at + 1 /\ lastunary' = FALSE
               /\ UNCHANGED <<pattern, ncap, status, root>>

(***************************************************************************)
(* (?i), (?i:, (?P<name> and the like.                                     *)
(***************************************************************************)
LookAround ==
  \/ Here(s, at + 2) \in {"=", "!"} /\ at + 3 <= Len(s)
  \/ Here(s, at + 2) = "<" /\ Here(s, at + 3) \in {"=", "!"} /\ at + 4 <= Len(s)
NameBegin ==
  CASE StartsWith(s, at, "(?P<") /\ at + 4 <= Len(s) -> at + 4
    [] StartsWith(s, at, "(?<") /\ at + 3 <= Len(s) -> at + 3
    [] OTHER -> 0

\* A letter of a flag group turns a flag on or off; m is the opposite of a flag.
FlagOf == "i" :> "FoldCase" @@ "m" :> "OneLine" @@ "s" :> "DotNL" @@ "U" :> "NonGreedy"
Turned(fl, c, negated) ==
  IF negated = (c = "m") THEN fl \cup {FlagOf[c]} ELSE fl \ {FlagOf[c]}

\* Reads flag letters from i on.
RECURSIVE ParseFlagLetters(_, _, _, _)
ParseFlagLetters(i, fl, negated, sawflags) ==
  LET c == Here(s, i) IN
  CASE c = Bad -> Error("BadUTF8")
    [] c \in DOMAIN FlagOf -> ParseFlagLetters(i + 1, Turned(fl, c, negated), negated, TRUE)
    [] c = "-" /\ ~negated -> ParseFlagLetters(i + 1, fl, TRUE, FALSE)
    [] c \in {":", ")"} /\ (negated => sawflags) ->
         [error |-> "", next |-> i + 1, flags |-> fl, opens |-> c = ":"]
    [] OTHER -> Error("BadPerlOp")

ReadPerlOp ==
  LET begin == NameBegin
      end == Find(s, begin, ">")
      Named(name) ==
        CASE ~IsValidUTF8(name) -> Fails("BadUTF8")
          [] IsValidUTF8(name) /\ ~IsValidCaptureName(name) -> Fails("BadNamedCapture")
          [] OTHER -> DoLeftParen(ncap + 1, <<name>>, flags, end + 1)
      Group(group) ==
        CASE group.error # "" -> Fails(group.error)
          [] group.error = "" /\ group.opens -> DoLeftParen(-1, NoName, group.flags, group.next)
          [] OTHER -> /\ flags' = group.flags /\ at' = group.next /\ lastunary' = FALSE
                      /\ UNCHANGED <<pattern, stack, ncap, status, root>>
  IN /\ Syntactic /\ c0 = "(" /\ PerlOpAhead
     /\ CASE LookAround -> Fails("BadPerlOp")
          [] ~LookAround /\ begin # 0 ->
               IF end = 0 THEN Fails(IF IsValidUTF8(SubSeq(s, at, Len(s))) THEN "BadNamedCapture" ELSE "BadUTF8")
               ELSE Named(SubSeq(s, begin, end - 1))
          [] OTHER -> \E group \in {ParseFlagLetters(at + 2, flags, FALSE, FALSE)} : Group(group)

(***************************************************************************)
(* Repetition operators.                                                   *)
(***************************************************************************)
Repetition(st, next) ==
  /\ stack' = st /\ at' = next /\ lastunary' = TRUE
  /\ UNCHANGED <<pattern, flags, ncap, status, root>>

Lazy(next) == "PerlX" \in flags /\ Here(s, next) = "?"
Stacked == "PerlX" \in flags /\ lastunary

OpOf == "*" :> "Star" @@ "+" :> "Plus" @@ "?" :> "Quest"
ReadRepeatOp ==
  /\ Syntactic /\ c0 \in DOMAIN OpOf
  /\ CASE Stacked -> Fails("RepeatOp")
       [] ~Stacked /\ ~TopIsOperand(stack) -> Fails("RepeatArgument")
       [] OTHER -> Repetition(PushRepeatOp(stack, OpOf[c0], Greediness(flags, Lazy(at + 1))),
                              IF Lazy(at + 1) THEN at + 2 ELSE at + 1)

ReadRepetition ==
  LET TooLarge(x) == (x.hi # -1 /\ x.hi < x.lo) \/ x.lo > MaximumRepeatCount \/ x.hi > MaximumRepeatCount
      TooDeep(x, re) == (x.lo >= 2 \/ x.hi >= 2) /\ RepetitionsLeft(re, MaximumRepeatCount) = 0
      Pushed(st, count) ==
        IF TooDeep(count, Top(st)) THEN Fails("RepeatSize")
        ELSE Repetition(st, IF Lazy(count.next) THEN count.next + 1 ELSE count.next)
      Counted(count) ==
        CASE Stacked -> Fails("RepeatOp")
          [] ~Stacked /\ TooLarge(count) -> Fails("RepeatSize")
          [] ~Stacked /\ ~TooLarge(count) /\ ~TopIsOperand(stack) -> Fails("RepeatArgument")
          [] OTHER -> Pushed(PushRepetition(stack, count.lo, count.hi, Greediness(flags, Lazy(count.next))), count)
  IN /\ Syntactic /\ c0 = "{"
     /\ \E counts \in {MaybeParseRepetition(s, at)} :
          IF counts = {} THEN Piece(PushLiteral(stack, Code("{"), flags), at + 1)
          ELSE \E count \in counts : Counted(count)

(***************************************************************************)
(* Backslashes.                                                            *)
(***************************************************************************)
SimpleEscapes ==
  (IF "PerlB" \in flags THEN "b" :> "WordBoundary" @@ "B" :> "NoWordBoundary" ELSE <<>>)
    @@ (IF "PerlX" \in flags THEN "A" :> "BeginText" @@ "z" :> "EndText" @@ "C" :> "AnyByte" ELSE <<>>)
Quoting == "PerlX" \in flags /\ Has2("Q")

\* \Q, and all to \E or the end.
ReadQuoted ==
  LET end == Find(s, at + 2, "\\E")
      Literals(quoted) ==
        IF ~IsValidUTF8(quoted) THEN Fails("BadUTF8")
        ELSE Piece(FoldLeft(LAMBDA st, c : PushLiteral(st, Code(c), flags), stack, quoted),
                   IF end = 0 THEN Len(s) + 1 ELSE end + 2)
  IN /\ Syntactic /\ Quoting
     /\ Literals(SubSeq(s, at + 2, IF end = 0 THEN Len(s) ELSE end - 1))

ReadBackslash ==
  LET c == Here(s, at + 1)
      Escaped(escape) ==
        IF escape.error # "" THEN Fails(escape.error)
        ELSE Piece(PushLiteral(stack, escape.rune, flags), escape.next)
      Group(groups) ==
        \E group \in groups :
          IF group.error # "" THEN Fails(group.error)
          ELSE Piece(PushClass(stack, group.cc, flags), group.next)
      Groups == {Class(AddUGroup(EmptyClass, g.ranges, g.sign, flags), at + 2) : g \in PerlGroupAt(s, at, flags)}
                  \cup ({ParseUnicodeGroup(s, at, flags, EmptyClass)} \ {Nothing})
  IN /\ Syntactic /\ c0 = "\\" /\ ~Quoting
     /\ IF c \in DOMAIN SimpleEscapes THEN Piece(PushSimpleOp(stack, SimpleEscapes[c], flags), at + 2)
        ELSE \E groups \in {Groups} :
               IF groups # {} THEN Group(groups)
               ELSE \E escape \in {ParseEscape(s, at, RuneMax(flags))} : Escaped(escape)

DoFinish ==
  /\ status = "parsing" /\ at > Len(s)
  /\ \E st \in {DoAlternation(stack, flags)} :
       IF Len(st) > 1 THEN Fails("MissingParen")
       ELSE /\ status' = "ok" /\ root' = {FinishRegexp(st[1])} /\ stack' = <<>>
            /\ UNCHANGED <<pattern, at, flags, ncap, lastunary>>

ParserNext ==
  \/ ReadLiteral \/ ReadCaret \/ ReadDollar \/ ReadDot \/ ReadBar \/ ReadClass
  \/ ReadLeftParen \/ ReadRightParen \/ ReadPerlOp \/ ReadRepeatOp \/ ReadRepetition
  \/ ReadQuoted \/ ReadBackslash \/ DoFinish
=============================================================================
