--------------------------- MODULE DFACacheRefines ---------------------------
(***************************************************************************)
(* The shared cache, its locks and its resets implement the search of      *)
(* DFASearch: whatever the other threads do to the cache, every search     *)
(* returns the answer of an undisturbed scan, or gives up where it may.    *)
(*                                                                         *)
(* The abstract search consumes an input when the concrete one arrives in  *)
(* the next state; between its read and the arrival (a lock, a reset, two  *)
(* rebuilt states) the abstract scan stands still.  Its state is the       *)
(* contents of s, or of the saved copy while s itself is discarded.        *)
(***************************************************************************)
EXTENDS DFACache

Searching(t) == frame[t].req # NULL /\ frame[t].req.op = "search"

Current(f) ==
  IF f.savedS # NULL THEN f.savedS ELSE IF f.s \in Addr THEN content[f.s] ELSE NULL
Phase(f) ==
  IF f.pc = "done" THEN "done" ELSE IF Current(f) = NULL THEN "starting" ELSE "scanning"

\* What the abstract search sees of a thread: of a range walk nothing.
IdleView ==
  [phase |-> "idle", req |-> NULL, cur |-> NULL, p |-> 0,
   lastmatch |-> NoPos, matches |-> {}, result |-> NULL]

\* c is the input that is read but not yet consumed.
View(t) ==
  LET f == frame[t] IN
  IF Searching(t)
  THEN [phase |-> Phase(f), req |-> f.req, cur |-> Current(f),
        p |-> IF f.c # NULL THEN f.p - 1 ELSE f.p,
        lastmatch |-> f.lastmatch, matches |-> f.matches, result |-> f.result]
  ELSE IdleView

absPhase == [t \in Thread |-> View(t).phase]
absReq == [t \in Thread |-> View(t).req]
absCur == [t \in Thread |-> View(t).cur]
absP == [t \in Thread |-> View(t).p]
absLast == [t \in Thread |-> View(t).lastmatch]
absMatches == [t \in Thread |-> View(t).matches]
absResult == [t \in Thread |-> View(t).result]

A == INSTANCE DFASearch WITH
       phase <- absPhase, req <- absReq, cur <- absCur, p <- absP,
       lastmatch <- absLast, matches <- absMatches, result <- absResult

\* What the refinement rests on besides IInv.  A search that has not begun to
\* scan has found nothing; start and its saved copy are the start state of the
\* request's kind; the input that was read is one of the text, or the one after.
ScanOK(t) ==
  LET f == frame[t]
      k == StartOf[f.req.kind]
  IN
  Searching(t) =>
    /\ f.pc # "walk"
    /\ f.pc = "done" \/ f.result = NULL
    /\ Current(f) = NULL =>
         f.p = 0 /\ f.c = NULL /\ f.lastmatch = NoPos /\ f.matches = {}
    /\ f.pc = "loop" => f.c = NULL
    /\ f.start \in Addr => content[f.start] = k
    /\ f.savedStart # NULL => f.savedStart = k
    /\ f.c # NULL =>
         f.p - 1 \in 0..f.req.n /\ (f.p <= f.req.n => f.c \in Class)

\* Only a search scans and saves states, and it resets the cache at or before
\* the position it is at.
ResetsOK(f) ==
  /\ f.pc \in {"loop", "load", "run", "oom"} \/ f.savedS # NULL \/ f.resetp # NoPos =>
       f.req # NULL /\ f.req.op = "search"
  /\ f.resetp # NoPos => f.resetp <= f.p

\* The inductive invariant behind the refinement, and behind the rule for
\* searches that reset the cache too often.
ScanInv == IInv /\ \A t \in Thread : ScanOK(t) /\ ResetsOK(frame[t])

\* Every search gets the answer of a scan over the complete automaton that
\* nobody disturbs, however the threads share, fill and reset the cache.
RefinesSearch == A!ASpec
=============================================================================
