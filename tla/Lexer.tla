------------------------------- MODULE Lexer -------------------------------
(***************************************************************************)
(* The lexing routines of the parser (re2/parse.cc).  They look at the     *)
(* characters s of a pattern from the i-th on and return where they        *)
(* stopped with what they found, or an error.                              *)
(***************************************************************************)
EXTENDS Regexp

CONSTANTS
  PosixGroups, PerlGroups, UnicodeGroups,  \* the ranges of a group, by its name
  CaptureRunes                             \* letters, digits and the like

Here(s, i) == IF i <= Len(s) THEN s[i] ELSE ""
StartsWith(s, i, chars) ==
  LET j == i + Len(chars) - 1 IN j <= Len(s) /\ SubSeq(s, i, j) = Chars(chars)
\* The first place from i on where chars stand, or 0.
Find(s, i, chars) ==
  LET hits == {j \in i..Len(s) : StartsWith(s, j, chars)} IN IF hits = {} THEN 0 ELSE Min(hits)
\* Of the characters from i on the first ones that all have a property.
Span(s, i, Test(_)) ==
  SubSeq(s, i, i - 1 + Max({n \in 0..(Len(s) + 1 - i) : \A j \in i..(i + n - 1) : Test(s[j])}))
Value(digits, base, Digit(_)) == FoldLeft(LAMBDA v, d : v * base + Digit(d), 0, digits)

Error(code) == [error |-> code, next |-> 0]
Rune(r, next) == [error |-> "", next |-> next, rune |-> r]

RuneMax(flags) == IF "Latin1" \in flags THEN 255 ELSE Runemax

StringViewToRune(s, i) ==
  IF Here(s, i) \in {"", Bad} THEN Error("BadUTF8") ELSE Rune(Code(s[i]), i + 1)
IsValidUTF8(chars) == Bad \notin ToSet(chars)

(***************************************************************************)
(* {2,4} and its kin: {} if it is none, and then the brace is a literal.   *)
(***************************************************************************)
ParseInteger(s, i) ==
  LET Number(digits) ==
        IF digits = <<>> \/ (Len(digits) >= 2 /\ digits[1] = "0") \/ Len(digits) > 9 THEN {}
        ELSE {[n |-> Value(digits, 10, UnDigit), next |-> i + Len(digits)]}
  IN Number(Span(s, i, IsDigit))

MaybeParseRepetition(s, i) ==
  LET Closed(lo, hi, next) ==
        IF Here(s, next) = "}" THEN {[lo |-> lo, hi |-> hi, next |-> next + 1]} ELSE {}
      After(lo) ==
        CASE Here(s, lo.next) = "," /\ Here(s, lo.next + 1) = "}" -> Closed(lo.n, -1, lo.next + 1)
          [] Here(s, lo.next) = "," /\ Here(s, lo.next + 1) # "}" ->
               UNION {Closed(lo.n, hi.n, hi.next) : hi \in ParseInteger(s, lo.next + 1)}
          [] OTHER -> Closed(lo.n, lo.n, lo.next)
  IN IF Here(s, i) # "{" THEN {} ELSE UNION {After(lo) : lo \in ParseInteger(s, i + 1)}

(***************************************************************************)
(* Escapes; s[i] is the backslash.                                         *)
(***************************************************************************)
CEscapes == "n" :> 10 @@ "r" :> 13 @@ "t" :> 9 @@ "a" :> 7 @@ "f" :> 12 @@ "v" :> 11
IsOctal(c) == c \in ToSet(Chars("01234567"))

ParseHex(s, i, max) ==      \* from behind the x on
  LET Braced(code, end) ==
        CASE code > max \/ (end > i + 1 /\ Here(s, end) = "") -> Error("BadEscape")
          [] code <= max /\ Here(s, end) = Bad -> Error("BadUTF8")
          [] code <= max /\ end > i + 1 /\ Here(s, end) = "}" -> Rune(code, end + 1)
          [] OTHER -> Error("BadEscape")
      AllOf(digits) == Braced(Value(digits, 16, UnHex), i + 1 + Len(digits))
      c == Here(s, i)
      c1 == Here(s, i + 1)
  IN CASE c = "" -> Error("BadEscape")
       [] c = Bad -> Error("BadUTF8")
       [] c = "{" /\ c1 = "" -> Error("BadUTF8")
       [] c = "{" /\ c1 # "" -> AllOf(Span(s, i + 1, IsHex))
       [] c \notin {"", Bad, "{"} /\ c1 = Bad -> Error("BadUTF8")
       [] c \notin {"", Bad, "{"} /\ c1 # Bad ->
            IF IsHex(c) /\ c1 # "" /\ IsHex(c1) THEN Rune(Value(<<c, c1>>, 16, UnHex), i + 2)
            ELSE Error("BadEscape")

ParseEscape(s, i, max) ==
  LET c == Here(s, i + 1)
      Octal(digits) ==
        IF (digits = <<c>> /\ c # "0") \/ Value(digits, 8, UnDigit) > max THEN Error("BadEscape")
        ELSE Rune(Value(digits, 8, UnDigit), i + 1 + Len(digits))
      UpToThree(digits) == SubSeq(digits, 1, Min({3, Len(digits)}))
  IN CASE c = "" -> Error("TrailingBackslash")
       [] c = Bad -> Error("BadUTF8")
       [] IsOctal(c) -> Octal(UpToThree(Span(s, i + 1, IsOctal)))
       [] c = "x" -> ParseHex(s, i + 2, max)
       [] c \in DOMAIN CEscapes -> Rune(CEscapes[c], i + 2)
       [] c \notin {"", Bad} /\ Code(c) < Runeself /\ ~IsDigit(c) /\ ~IsLetter(c) -> Rune(Code(c), i + 2)
       [] OTHER -> Error("BadEscape")

(***************************************************************************)
(* Groups of runes: what follows adds to class cc.  Nothing, if it is not  *)
(* the beginning of a group.                                               *)
(***************************************************************************)
Nothing == [error |-> "nothing", next |-> 0]
Class(cc, next) == [error |-> "", next |-> next, cc |-> cc]

PerlGroupAt(s, i, flags) ==
  LET name == IF Here(s, i) = "\\" THEN Here(s, i + 1) ELSE "" IN
  IF "PerlClasses" \in flags /\ name \in DOMAIN PerlGroups THEN {PerlGroups[name]} ELSE {}

ParseUnicodeGroup(s, i, flags, cc) ==
  LET c == Here(s, i + 2)
      end == Find(s, i + 3, "}")
      Raw == CASE c = "{" -> SubSeq(s, i + 3, end - 1)
               [] c \in {"", Bad} -> <<>>       \* the error of StringViewToRune is not noticed
               [] OTHER -> <<c>>
      Next == IF c = "{" THEN end + 1 ELSE i + 3
      Group(name, sign) == IF name \notin DOMAIN UnicodeGroups THEN Error("BadCharRange")
                           ELSE Class(AddUGroup(cc, UnicodeGroups[name], sign, flags), Next)
      Named(raw) == LET negated == Here(raw, 1) = "^" IN
                    IF ~IsValidUTF8(raw) THEN Error("BadUTF8")
                    ELSE Group(IF negated THEN Tail(raw) ELSE raw,
                               IF (Here(s, i + 1) = "P") # negated THEN -1 ELSE 1)
  IN CASE "UnicodeGroups" \notin flags \/ Here(s, i) # "\\" \/ Here(s, i + 1) \notin {"p", "P"} -> Nothing
       [] c = "{" /\ end = 0 ->
            Error(IF IsValidUTF8(SubSeq(s, i, Len(s))) THEN "BadCharRange" ELSE "BadUTF8")
       [] OTHER -> Named(Raw)

ParseCCName(s, i, flags, cc) ==
  LET end == Find(s, i + 2, ":]")
      Group(base, sign) == IF base \notin DOMAIN PosixGroups THEN Error("BadCharRange")
                           ELSE Class(AddUGroup(cc, PosixGroups[base], sign, flags), end + 2)
      Named(name) == LET negated == Here(name, 1) = "^"
                     IN Group(IF negated THEN Tail(name) ELSE name, IF negated THEN -1 ELSE 1)
  IN IF ~StartsWith(s, i, "[:") \/ end = 0 THEN Nothing ELSE Named(SubSeq(s, i + 2, end - 1))

(***************************************************************************)
(* Bracketed classes.                                                      *)
(***************************************************************************)
ParseCCCharacter(s, i, max) ==
  CASE Here(s, i) = "" -> Error("MissingBracket")
    [] Here(s, i) = "\\" -> ParseEscape(s, i, max)
    [] OTHER -> StringViewToRune(s, i)

ParseCCRange(s, i, flags, cc) ==
  LET Character(j) == ParseCCCharacter(s, j, RuneMax(flags))
      Through(lo, hi) == CASE hi.error # "" -> hi
                           [] hi.error = "" /\ hi.rune < lo.rune -> Error("BadCharRange")
                           [] OTHER -> Class(AddRangeFlags(cc, lo.rune, hi.rune, flags \cup {"ClassNL"}), hi.next)
      Dashed(j) == Here(s, j) = "-" /\ Here(s, j + 1) \notin {"", "]"}
      From(lo) == CASE lo.error # "" -> lo
                    [] lo.error = "" /\ Dashed(lo.next) -> Through(lo, Character(lo.next + 1))
                    [] OTHER -> Through(lo, lo)
  IN From(Character(i))

\* The items of a class up to its bracket.
RECURSIVE ParseItems(_, _, _, _, _)
ParseItems(s, i, flags, cc, first) ==
  LET badDash == Here(s, i) = "-" /\ ~first /\ "PerlX" \notin flags /\ Here(s, i + 1) # "]"
      \* No two of the groups begin alike.
      Perl == {Class(AddUGroup(cc, g.ranges, g.sign, flags), i + 2) : g \in PerlGroupAt(s, i, flags)}
      Item(groups) == IF groups = {} THEN ParseCCRange(s, i, flags, cc) ELSE CHOOSE item \in groups : TRUE
      More(item) == IF item.error # "" THEN item ELSE ParseItems(s, item.next, flags, item.cc, FALSE)
      Group == IF i + 2 <= Len(s) THEN {ParseCCName(s, i, flags, cc), ParseUnicodeGroup(s, i, flags, cc)} \ {Nothing}
               ELSE {}
  IN CASE Here(s, i) = "" -> Error("MissingBracket")
       [] Here(s, i) = "]" /\ ~first -> Class(cc, i + 1)
       [] badDash -> Error(IF Here(s, i + 1) \in {"", Bad} THEN "BadUTF8" ELSE "BadCharRange")
       [] OTHER -> More(Item(Group \cup Perl))

ParseCharClass(s, i, flags) ==
  LET negated == Here(s, i + 1) = "^"
      start == IF negated /\ CutsNewline(flags) THEN AddRange(EmptyClass, 10, 10) ELSE EmptyClass
      Closed(items) == IF items.error # "" \/ ~negated THEN items ELSE [items EXCEPT !.cc = Negate(@)]
  IN Closed(ParseItems(s, IF negated THEN i + 2 ELSE i + 1, flags, start, TRUE))

IsValidCaptureName(chars) ==
  chars # <<>> /\ IsValidUTF8(chars) /\ \A k \in DOMAIN chars : Code(chars[k]) \in CaptureRunes
=============================================================================
