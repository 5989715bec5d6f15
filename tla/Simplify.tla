------------------------------ MODULE Simplify ------------------------------
(***************************************************************************)
(* Regexp::Simplify (re2/simplify.cc): adjacent repetitions of one thing   *)
(* are coalesced, then counted repetitions are written out and classes of  *)
(* nothing and of everything replaced.                                     *)
(***************************************************************************)
EXTENDS Regexp

\* Were the children replaced?  (That simple is set now does not count.)
RECURSIVE Bare(_)
Bare(re) == [re EXCEPT !.simple = FALSE, !.subs = [k \in DOMAIN re.subs |-> Bare(re.subs[k])]]
ChildArgsChanged(re, args) == \E k \in DOMAIN args : Bare(args[k]) # Bare(re.subs[k])

\* A new node with the data of re but not its name.
Rebuilt(re, args) == [re EXCEPT !.subs = args, !.name = NoName, !.simple = FALSE]

(***************************************************************************)
(* CoalesceWalker.                                                         *)
(***************************************************************************)
Repeats == Loops \cup {"Repeat"}
Single(re) == re.op \in {"Literal", "CharClass", "AnyChar", "AnyByte"}

CanCoalesce(r1, r2) ==
  /\ r1.op \in Repeats /\ Single(Sub(r1))
  /\ \/ /\ r2.op \in Repeats /\ Equal(Sub(r1), Sub(r2))
        /\ Has(r1, "NonGreedy") = Has(r2, "NonGreedy")
     \/ Equal(Sub(r1), r2)
     \/ /\ Sub(r1).op = "Literal" /\ r2.op = "LiteralString"
        /\ r2.runes[1] = Sub(r1).runes[1]
        /\ Has(Sub(r1), "FoldCase") = Has(r2, "FoldCase")

Counts(re) ==
  CASE re.op = "Star" -> <<0, -1>>
    [] re.op = "Plus" -> <<1, -1>>
    [] re.op = "Quest" -> <<0, 1>>
    [] re.op = "Repeat" -> <<re.min, re.max>>
    [] OTHER -> <<1, 1>>
\* Mutant: no end is added like a number.
MaxSumOfAny(m, n) == m + n
MaxSum(m, n) == IF m = -1 \/ n = -1 THEN -1 ELSE m + n

\* What r1 and r2 are replaced by.
DoCoalesce(r1, r2) ==
  LET lo == Counts(r1)[1]
      hi == Counts(r1)[2]
      Times(m, n) == Repeat(Sub(r1), r1.flags, lo + m, MaxSum(hi, n))
      run == Max({n \in 1..Len(r2.runes) : \A k \in 1..n : r2.runes[k] = Sub(r1).runes[1]})
      gone == Re("EmptyMatch", {})
  IN CASE r2.op = "LiteralString" /\ run < Len(r2.runes) ->
            <<Times(run, run), LiteralString(SubSeq(r2.runes, run + 1, Len(r2.runes)), r2.flags)>>
       [] r2.op = "LiteralString" /\ run = Len(r2.runes) -> <<gone, Times(run, run)>>
       [] OTHER -> <<gone, Times(Counts(r2)[1], Counts(r2)[2])>>

RECURSIVE Coalesce(_)
Coalesce(re) ==
  LET args == [k \in DOMAIN re.subs |-> Coalesce(re.subs[k])]
      Join(done, sub) == IF done # <<>> /\ CanCoalesce(Last(done), sub)
                         THEN Front(done) \o DoCoalesce(Last(done), sub) ELSE Append(done, sub)
      joined == FoldLeft(Join, <<>>, args)
  IN CASE re.op = "Concat" /\ joined # args ->
            Rebuilt(re, SelectSeq(joined, LAMBDA sub : sub.op # "EmptyMatch"))
       [] ~(re.op = "Concat" /\ joined # args) /\ ChildArgsChanged(re, args) -> Rebuilt(re, args)
       [] OTHER -> re

(***************************************************************************)
(* SimplifyWalker.                                                         *)
(***************************************************************************)
IsEmptyOp(re) == re.op \in DOMAIN EmptyWidthOps
Concat2(re1, re2, flags) == ReOver("Concat", <<re1, re2>>, flags)

\* (x(x(x)?)?)? with n copies of x.
RECURSIVE Suffix(_, _, _)
Suffix(re, n, flags) ==
  IF n = 1 THEN StarPlusOrQuest("Quest", re, flags)
  ELSE StarPlusOrQuest("Quest", Concat2(re, Suffix(re, n - 1, flags), flags), flags)

SimplifyRepeat(re, lo, hi, flags) ==
  LET NoText == \/ IsEmptyOp(re)
                \/ re.op \in {"Concat", "Alternate"} /\ \A k \in DOMAIN re.subs : IsEmptyOp(re.subs[k])
      min == IF NoText THEN Min({lo, 1}) ELSE lo
      max == IF NoText THEN Min({hi, 1}) ELSE hi
      Copies(n) == [k \in 1..n |-> re]
      Loop(op) == StarPlusOrQuest(op, re, flags)
  IN CASE max = -1 ->
            IF min = 0 THEN Loop("Star") ELSE Concat(Append(Copies(min - 1), Loop("Plus")), flags)
       [] max = 0 -> Re("EmptyMatch", flags)
       [] max > 0 /\ max = min -> Concat(Copies(min), flags)
       [] max > 0 /\ max # min /\ min = 0 -> Suffix(re, max, flags)
       [] OTHER -> Concat2(Concat(Copies(min), flags), Suffix(re, max - min, flags), flags)

RECURSIVE SimplifyWalk(_)
SimplifyWalk(re) ==
  LET args == [k \in DOMAIN re.subs |-> SimplifyWalk(re.subs[k])]
      changed == ChildArgsChanged(re, args)
      Done(r) == [r EXCEPT !.simple = TRUE]
  IN CASE re.simple -> re
       [] ~re.simple /\ re.op \in Repeats /\ args[1].op = "EmptyMatch" -> args[1]
       [] ~re.simple /\ re.op = "Repeat" /\ args[1].op # "EmptyMatch" ->
            Done(SimplifyRepeat(args[1], re.min, re.max, re.flags))
       [] ~re.simple /\ re.op \in Loops /\ args[1].op = re.op /\ changed /\ args[1].flags = re.flags ->
            args[1]
       [] ~re.simple /\ re.op = "CharClass" ->
            Done(IF re.cc.ranges = {} THEN Re("NoMatch", re.flags)
                 ELSE IF FullClass(re.cc) THEN Re("AnyChar", re.flags) ELSE re)
       [] OTHER -> Done(IF changed THEN Rebuilt(re, args) ELSE [re EXCEPT !.subs = args])

Simplified(re) == SimplifyWalk(Coalesce(re))
=============================================================================
