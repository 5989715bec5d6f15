----------------------------- MODULE MCEngines -----------------------------
(***************************************************************************)
(* Searches of each engine with all programs below: the one-pass engine    *)
(* those it may be asked, the DFA for the end of the match.                *)
(*                                                                         *)
(* The programs are as Compiler and Flatten yield them for Latin-1.  The   *)
(* first two lists of all but the anchored ones are Fail and the           *)
(* unanchored start, which the engines do not enter.                       *)
(***************************************************************************)
EXTENDS Engines

\* Every engine finds the match that trying everything finds, with its
\* submatches if they are asked for.
M == INSTANCE Matching WITH answer <- result
RefinesMatching == M!Spec

AnyByte == {"a", "b", "A", "n", "s"}     \* a, b, A, newline and space
MCNewLine == "n"
MCWordChar == {"a", "b", "A"}

a == {"a"}
b == {"b"}

\* A list: its last instruction is marked.
L(l) == SubSeq(l, 1, Len(l) - 1) \o << [l[Len(l)] EXCEPT !.last = TRUE] >>

AnchoredBoth(lists) ==
  [inst |-> L(<<Fail>>) \o lists, start |-> 1, startUnanchored |-> 1, anchorStart |-> TRUE, anchorEnd |-> TRUE,
   prefix |-> <<>>, foldcase |-> FALSE]

Unanchored(lists) ==
  [inst |-> L(<<Fail>>) \o L(<<Nop(3), ByteRange(AnyByte, 0, 1)>>) \o lists, start |-> 3, startUnanchored |-> 1,
   anchorStart |-> FALSE, anchorEnd |-> FALSE, prefix |-> <<>>, foldcase |-> FALSE]

Accelerating(lists, prefix) == [Unanchored(lists) EXCEPT !.prefix = prefix]

\* (a|ab)(b|ba)?
Ambiguous == Accelerating(
  L(<<Capture(2, 4)>>) \o L(<<ByteRange(a, 0, 5)>>) \o L(<<Nop(14), ByteRange(b, 0, 14)>>) \o
     L(<<Capture(4, 9), Nop(12)>>) \o L(<<ByteRange(b, 0, 10)>>) \o L(<<Nop(13), ByteRange(a, 0, 13)>>) \o
     L(<<Match>>) \o L(<<Capture(5, 12)>>) \o L(<<Capture(3, 7)>>), <<a>>)

\* (a*)*b?
NestedStars == Unanchored(
  L(<<Nop(10), Nop(11)>>) \o L(<<ByteRange(a, 1, 5), Capture(3, 7)>>) \o L(<<Nop(10), Nop(11)>>) \o
     L(<<Match>>) \o L(<<Capture(2, 5)>>) \o L(<<ByteRange(b, 1, 9), Nop(9)>>))

\* (a|b)*?b
Lazy == Unanchored(
  L(<<ByteRange(b, 1, 5), Capture(2, 6)>>) \o L(<<Match>>) \o L(<<ByteRange(a \cup b, 0, 7)>>) \o
     L(<<Capture(3, 3)>>))

\* \b(a*)\b
Words == Unanchored(
  L(<<EmptyWidth({"WordBoundary"}, 4)>>) \o L(<<Capture(2, 5)>>) \o
     L(<<ByteRange(a, 1, 5), Capture(3, 7)>>) \o L(<<EmptyWidth({"WordBoundary"}, 8)>>) \o L(<<Match>>))

\* (?m)^(a*)$
Lines == Unanchored(
  L(<<EmptyWidth({"BeginLine"}, 4)>>) \o L(<<Capture(2, 5)>>) \o
     L(<<ByteRange(a, 1, 5), Capture(3, 7)>>) \o L(<<EmptyWidth({"EndLine"}, 8)>>) \o L(<<Match>>))

\* (?s)(a*?).*
GreedyRest == Unanchored(
  L(<<Capture(2, 4)>>) \o L(<<Capture(3, 6), ByteRange(a, 0, 4)>>) \o
     L(<<AltMatch(7, 8), ByteRange(AnyByte, 1, 6), Match>>))

\* (?s)a(.*?)
LazyRest == Accelerating(
  L(<<ByteRange(a, 0, 4)>>) \o L(<<Capture(2, 5)>>) \o
     L(<<AltMatch(6, 7), Capture(3, 8), ByteRange(AnyByte, 0, 5)>>) \o L(<<Match>>), <<a>>)

\* [ab]*b
Run == Unanchored(L(<<ByteRange(a \cup b, 1, 3), ByteRange(b, 0, 5)>>) \o L(<<Match>>))

\* aa|ba|[ab]b
Hints == Unanchored(
  L(<<ByteRange(a, 2, 6), ByteRange(b, 1, 8), ByteRange(a \cup b, 0, 9)>>) \o
     L(<<ByteRange(a, 0, 7)>>) \o L(<<Match>>) \o L(<<ByteRange(a, 0, 7)>>) \o L(<<ByteRange(b, 0, 7)>>))

\* ^(a*?)(a*)$
BothEnds == AnchoredBoth(
  L(<<Capture(2, 2)>>) \o L(<<Capture(3, 4), ByteRange(a, 0, 2)>>) \o L(<<Capture(4, 5)>>) \o
     L(<<ByteRange(a, 1, 5), Capture(5, 7)>>) \o L(<<Match>>))

\* aab, looked for by its first and last byte
Literal == Accelerating(
  L(<<ByteRange(a, 0, 4)>>) \o L(<<ByteRange(a, 0, 5)>>) \o L(<<ByteRange(b, 0, 6)>>) \o L(<<Match>>),
  <<a, a, b>>)

\* (?i)ab
FoldCase ==
  [Accelerating(L(<<ByteRange({"a", "A"}, 0, 4)>>) \o L(<<ByteRange(b, 0, 5)>>) \o L(<<Match>>),
                << {"a", "A"}, b >>) EXCEPT !.foldcase = TRUE]

\* (?:(a)|b)*
StaleCapture == Unanchored(
  L(<<Capture(2, 6), ByteRange(b, 1, 3), Match>>) \o L(<<ByteRange(a, 0, 7)>>) \o L(<<Capture(3, 3)>>))

\* [^\x00-\xff]
Nothing == [Unanchored(<<>>) EXCEPT !.inst = L(<<Fail>>), !.start = 0, !.startUnanchored = 0]

\* For each program the bytes and the greatest length of its contexts, and the
\* number of its submatches.
Cases ==
  {<<Ambiguous, a \cup b, 3, 3>>, <<NestedStars, a \cup b, 3, 2>>,
   <<Lazy, a \cup b, 3, 2>>, <<Words, {"a", "s"}, 3, 2>>, <<Lines, {"a", "n"}, 3, 2>>,
   <<GreedyRest, a \cup b, 3, 2>>, <<LazyRest, a \cup b, 3, 2>>,
   <<Run, a \cup b, 4, 1>>, <<Hints, a \cup b, 3, 1>>, <<BothEnds, a, 3, 3>>,
   <<Literal, a \cup b, 4, 1>>, <<FoldCase, {"A", "b"}, 3, 1>>,
   <<StaleCapture, a \cup b, 3, 2>>, <<Nothing, a, 1, 1>>}

\* All searches in parts of these contexts.
AllQueries ==
  LET Of(c) ==
        [prog : {c[1]}, context : UNION {[1..m -> c[2]] : m \in 0..c[3]},
         beg : 0..c[3], end : 0..c[3],
         kind : {"first", "longest", "full"}, anchored : BOOLEAN, nmatch : {0, c[4]}, endOnly : {FALSE}]
  IN {q \in UNION {Of(c) : c \in Cases} :
        q.beg <= q.end /\ q.end <= Len(q.context) /\ (q.kind = "full" => q.anchored)}

MCProgOf(q) == q.prog

OnePassQueries == {q \in AllQueries : MayRunOnePass(q)}
DFAQueries == {[q EXCEPT !.nmatch = IF @ = 0 THEN 0 ELSE 1, !.endOnly = TRUE] : q \in AllQueries}

EngineQueries ==
  [engine : {"BitState", "NFA"}, query : AllQueries]
    \cup [engine : {"OnePass"}, query : OnePassQueries]
    \cup [engine : {"DFA"}, query : DFAQueries]
=============================================================================
