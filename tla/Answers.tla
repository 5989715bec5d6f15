------------------------------ MODULE Answers ------------------------------
(***************************************************************************)
(* The answer to a query, found by trial and error: the alternatives of a  *)
(* program are tried in the order of its lists, and nothing that has been  *)
(* tried is kept in mind.                                                  *)
(***************************************************************************)
EXTENDS Query, Ways

WaysFrom(q, p) ==
  Ways(ProgOf(q), q.context, q.end, EndMatch(q), ProgOf(q).start, p,
       [k \in 0..(2 * NSubmatch(q) + 1) |-> IF k = 0 THEN p ELSE NULL], {})

\* Of several matches the leftmost; of these, the first one or the first of the
\* longest ones; a full match must reach the end of the text.
Best(q) ==
  LET Starts == IF Hopeless(q) THEN {} ELSE IF Anchored(q) THEN {q.beg} ELSE q.beg..q.end
      Found == {p \in Starts : WaysFrom(q, p) # <<>>}
      Answer(best) == IF q.kind = "full" /\ best[1] # q.end THEN NoMatch ELSE MatchAt(q, best)
      BestOfAll(ways) ==
        LET Good(k) == Longest(q) => \A j \in 1..Len(ways) : ways[j][1] <= ways[k][1]
        IN Answer(ways[CHOOSE k \in 1..Len(ways) : Good(k) /\ \A j \in 1..(k - 1) : ~Good(j)])
  IN IF Found = {} THEN NoMatch
     ELSE BestOfAll(WaysFrom(q, CHOOSE p \in Found : \A other \in Found : p <= other))
=============================================================================
