------------------------------- MODULE Engine -------------------------------
(***************************************************************************)
(* What the searches of all engines have in common: a call, an instruction *)
(* and a position they work on, an answer.  One engine runs at a time.     *)
(***************************************************************************)
EXTENDS Query

VARIABLES
  engine,          \* the engine that is asked
  query,           \* the call
  pc,              \* where it is; start at first, done when it has returned
  id, p,           \* the instruction to visit, and where
  matched,
  result           \* what the call has returned, or <<>>

engineVars == <<engine, query, pc, id, p, matched, result>>

prog == ProgOf(query)
ncap == IF NSubmatch(query) = 0 THEN 2 ELSE 2 * NSubmatch(query)
ip == Inst(prog, id)

NoCaptures == [k \in 0..(ncap - 1) |-> NULL]
CaptureAt(cap, k, q) == IF k \in DOMAIN cap THEN [cap EXCEPT ![k] = q] ELSE cap

\* The check of a full match that Prog's search functions make themselves.
Return(found, best) ==
  /\ pc' = "done"
  /\ result' = << IF ~found \/ (query.kind = "full" /\ best[1] # query.end)
                  THEN NoMatch ELSE MatchAt(query, best) >>

\* Where a search beginning at q can start at the earliest.
Accelerated(q) ==
  IF q = query.end \/ prog.prefix = <<>> THEN q
  ELSE IF PrefixAccel(query, q) = NULL THEN query.end ELSE PrefixAccel(query, q)
=============================================================================
