------------------------------- MODULE Runes -------------------------------
(***************************************************************************)
(* Runes and their encodings (util/rune.cc), and case folding              *)
(* (re2/parse.cc, re2/unicode_casefold.cc).                                *)
(***************************************************************************)
EXTENDS Integers, Sequences, SequencesExt, FiniteSetsExt, TLC

CONSTANT CaseFolds    \* unicode_casefold: <<lo, hi, delta>>, in order

Runemax == 1114111
Runeself == 128
EvenOdd == 1
OddEven == -1

(***************************************************************************)
(* Strings of a specification as the characters of a pattern.  A character *)
(* that no such string can hold goes by its name, listed in Beyond.        *)
(***************************************************************************)
UpToUnderscore == " !\"#$%&'()*+,-./0123456789:;<=>?@ABCDEFGHIJKLMNOPQRSTUVWXYZ[\\]^_"
FromSmallA == "abcdefghijklmnopqrstuvwxyz{|}~"
Chars(s) == [k \in 1..Len(s) |-> SubSeq(s, k, k)]
CodesOf(s, first) == [c \in ToSet(Chars(s)) |-> first - 1 + SelectInSeq(Chars(s), LAMBDA x : x = c)]
CodeOf == CodesOf(UpToUnderscore, 32) @@ CodesOf(FromSmallA, 97)
Beyond == [Kelvin |-> 8490, LongS |-> 383, Newline |-> 10, Eacute |-> 233, Backquote |-> 96, Nul |-> 0]
\* Every character is good UTF-8 but the one called bad.
Bad == "bad"
Code(c) == IF c \in DOMAIN CodeOf THEN CodeOf[c] ELSE Beyond[c]

HexDigits == Chars("0123456789abcdef")
IsDigit(c) == c \in DOMAIN CodeOf /\ CodeOf[c] \in 48..57
IsLetter(c) == c \in DOMAIN CodeOf /\ CodeOf[c] \in (65..90) \cup (97..122)
UnDigit(c) == Code(c) - 48
IsHex(c) == IsDigit(c) \/ c \in ToSet(Chars("abcdefABCDEF"))
UnHex(c) ==
  IF IsDigit(c) THEN UnDigit(c) ELSE IF Code(c) < 97 THEN Code(c) - 65 + 10 ELSE Code(c) - 97 + 10

(***************************************************************************)
(* runetochar and chartorune.                                              *)
(***************************************************************************)
MaxRune(n) == CASE n = 1 -> 127 [] n = 2 -> 2047 [] n = 3 -> 65535 [] n = 4 -> Runemax
UTF8(r) ==
  CASE r <= MaxRune(1) -> <<r>>
    [] r > MaxRune(1) /\ r <= MaxRune(2) -> <<192 + (r \div 64), 128 + (r % 64)>>
    [] r > MaxRune(2) /\ r <= MaxRune(3) ->
         <<224 + (r \div 4096), 128 + ((r \div 64) % 64), 128 + (r % 64)>>
    [] OTHER ->
         <<240 + (r \div 262144), 128 + ((r \div 4096) % 64), 128 + ((r \div 64) % 64), 128 + (r % 64)>>
Encode(r, latin1) == IF latin1 THEN <<r>> ELSE UTF8(r)
EncodeAll(runes, latin1) == FlattenSeq([k \in 1..Len(runes) |-> Encode(runes[k], latin1)])

\* The rune at byte p of w: {<<rune, its length>>}, or {} if there is none or it
\* is not encoded rightly.
RuneAt(w, p, latin1) ==
  LET c(k) == w[p + k]
      x(k) == p + k <= Len(w) /\ c(k) \in 128..191
      m(k) == c(k) % 64
      Long(r, n) == IF r > MaxRune(n - 1) /\ r <= Runemax THEN {<<r, n>>} ELSE {}
  IN CASE p >= Len(w) -> {}
       [] p < Len(w) /\ (latin1 \/ c(1) < 128) -> {<<c(1), 1>>}
       [] p < Len(w) /\ ~latin1 /\ c(1) \in 192..223 /\ x(2) -> Long((c(1) % 32) * 64 + m(2), 2)
       [] p < Len(w) /\ ~latin1 /\ c(1) \in 224..239 /\ x(2) /\ x(3) ->
            Long(((c(1) % 16) * 64 + m(2)) * 64 + m(3), 3)
       [] p < Len(w) /\ ~latin1 /\ c(1) \in 240..247 /\ x(2) /\ x(3) /\ x(4) ->
            Long((((c(1) % 8) * 64 + m(2)) * 64 + m(3)) * 64 + m(4), 4)
       [] OTHER -> {}

(***************************************************************************)
(* Case folding.                                                           *)
(***************************************************************************)
IsUpper(r) == r \in 65..90
IsLower(r) == r \in 97..122

\* The entry that contains r, or else the next one; <<>> if there is none.
LookupCaseFold(r) ==
  LET after == {k \in 1..Len(CaseFolds) : r <= CaseFolds[k][2]}
  IN IF after = {} THEN <<>> ELSE CaseFolds[Min(after)]

ApplyFold(f, r) ==
  CASE f[3] = EvenOdd -> IF r % 2 = 0 THEN r + 1 ELSE r - 1
    [] f[3] = OddEven -> IF r % 2 = 1 THEN r + 1 ELSE r - 1
    [] OTHER -> r + f[3]

CycleFoldRune(r) ==
  LET f == LookupCaseFold(r) IN IF f = <<>> \/ r < f[1] THEN r ELSE ApplyFold(f, r)

\* All runes that r folds to.
Orbit(r) ==
  LET orbit[found \in SUBSET Nat] ==
        LET more == found \cup {CycleFoldRune(x) : x \in found}
        IN IF more = found THEN found ELSE orbit[more]
  IN orbit[{r}]
=============================================================================
