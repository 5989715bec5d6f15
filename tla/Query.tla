------------------------------- MODULE Query -------------------------------
(***************************************************************************)
(* What all matching engines are asked: a program, a text, which is        *)
(* context[beg + 1 .. end], and a kind of match.  A pointer into the text  *)
(* is the number of bytes of the context before it.                        *)
(***************************************************************************)
EXTENDS Program

CONSTANT ProgOf(_)   \* the program of a query

\* The byte at p, if the text goes on there.
ByteAt(q, p) == IF p < q.end THEN {q.context[p + 1]} ELSE {}
Matches(q, ip, p) == ByteAt(q, p) \cap ip.bytes # {}

\* The first place at or after p where the prefix is likely, or NULL: only its
\* first and last byte are looked at, unless the case of letters is folded.
PrefixAccel(q, p) ==
  LET prefix == ProgOf(q).prefix
      k == Len(prefix)
      Looked == IF ProgOf(q).foldcase THEN 1..k ELSE {1, k}
      Hits == {j \in p..(q.end - k) : \A m \in Looked : q.context[j + m] \in prefix[m]}
  IN IF Hits = {} THEN NULL ELSE CHOOSE j \in Hits : \A m \in Hits : j <= m

(***************************************************************************)
(* The parameters of a search, as Search of each engine derives them from  *)
(* its arguments: kind is first, longest or full (of which nmatch is at    *)
(* least one).                                                             *)
(***************************************************************************)
Anchored(q) == q.anchored \/ q.kind = "full" \/ ProgOf(q).anchorStart
Longest(q) == q.kind # "first" \/ ProgOf(q).anchorEnd
EndMatch(q) == ProgOf(q).anchorEnd
NSubmatch(q) == IF q.kind = "full" /\ q.nmatch < 1 THEN 1 ELSE q.nmatch

\* The program is anchored at an end of the context that the text does not reach.
Hopeless(q) ==
  \/ ProgOf(q).anchorStart /\ q.beg # 0
  \/ ProgOf(q).anchorEnd /\ q.end # Len(q.context)

\* The submatches a caller gets from capture registers
\* (of the DFA only where the match ends).
Submatches(q, cap) ==
  [k \in 0..(q.nmatch - 1) |-> <<IF q.endOnly THEN NULL ELSE cap[2 * k], cap[2 * k + 1]>>]
NoMatch == [matched |-> FALSE]
MatchAt(q, cap) == [matched |-> TRUE, submatch |-> Submatches(q, cap)]
=============================================================================
