------------------------------ MODULE Matching ------------------------------
(***************************************************************************)
(* What every engine promises (prog.h): asked a query, it finds at some    *)
(* time the match that a search by trial and error finds.                  *)
(***************************************************************************)
EXTENDS Answers

VARIABLES
  query,
  answer           \* <<>> until the engine has answered

\* Any query may be asked.
Init == answer = <<>>

Answer ==
  /\ answer = <<>>
  /\ Len(answer') = 1 /\ answer'[1] = Best(query)
  /\ UNCHANGED query

Next == Answer
Spec == Init /\ [][Next]_<<query, answer>>
=============================================================================
