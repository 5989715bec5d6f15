---------------------------- MODULE OnePassTable ----------------------------
(***************************************************************************)
(* IsOnePass (re2/onepass.cc) looks for programs in which a byte of the    *)
(* text decides, wherever a search is, which way it goes on, and makes a   *)
(* table of them: for the head of each list what a byte leads to, under    *)
(* which conditions and with which captures, and the conditions of a       *)
(* match.  Bytes stand for themselves here and not for their class in      *)
(* bytemap_.                                                               *)
(***************************************************************************)
EXTENDS Program, FiniteSets

kMaxCap == 10

(***************************************************************************)
(* What a list leads to without reading: the actions, each for some bytes, *)
(* in the order in which they were found, and at most one match.           *)
(***************************************************************************)
NoCond == [empty |-> {}, caps |-> {}]
Never == [empty |-> {"WordBoundary", "NonWordBoundary"}, caps |-> {}]
Impossible(cond) == Never.empty \subseteq cond.empty

Under(cond, inst) ==
  CASE inst.op = "Capture" /\ inst.cap < kMaxCap -> [cond EXCEPT !.caps = @ \cup {inst.cap}]
    [] inst.op = "EmptyWidth" -> [cond EXCEPT !.empty = @ \cup inst.empty]
    [] OTHER -> cond

Conflicts(f, act) ==
  \E old \in f.actions : /\ old.bytes \cap act.bytes # {} /\ ~Impossible(old.cond)
                         /\ [old EXCEPT !.bytes = {}] # [act EXCEPT !.bytes = {}]

\* On to another instruction, which no other way may have reached.
Onto(f, k, cond) ==
  IF k \in f.workq THEN [f EXCEPT !.ok = FALSE]
  ELSE IF k = 0 THEN f
  ELSE [f EXCEPT !.workq = @ \cup {k}, !.stack = <<[id |-> k, cond |-> cond]>> \o @]

\* One turn of the loop, which takes an instruction from the stack.
FloodStep(pr, before) ==
  LET k == before.stack[1].id
      cond == before.stack[1].cond
      inst == Inst(pr, k)
      f == [before EXCEPT !.stack = Tail(@)]
      Rest(g) == IF inst.last THEN g ELSE Onto(g, k + 1, cond)
      act == [bytes |-> inst.bytes, cond |-> cond, next |-> inst.out, wins |-> f.matched]
  IN CASE inst.op = "Fail" -> f
       [] inst.op = "AltMatch" -> Onto(f, k + 1, cond)
       [] inst.op = "ByteRange" ->
            IF Conflicts(f, act) THEN [f EXCEPT !.ok = FALSE]
            ELSE Rest([f EXCEPT !.actions = @ \cup {act}])
       [] inst.op = "Match" ->
            IF f.matched THEN [f EXCEPT !.ok = FALSE]
            ELSE Rest([f EXCEPT !.matched = TRUE, !.matchcond = cond])
       [] OTHER -> \* the rest is on the queue before, and waits on the stack
            LET g == Rest(f) IN IF g.ok THEN Onto(g, inst.out, Under(cond, inst)) ELSE g

\* The OneState of the list at k0, when the stack is empty: no instruction is
\* taken from it twice, except the first one.
OneState(pr, k0) ==
  LET flood[n \in 0..(Len(pr.inst) + 1)] ==
        IF n = 0
        THEN [ok |-> TRUE, workq |-> {}, stack |-> <<[id |-> k0, cond |-> NoCond]>>,
              matched |-> FALSE, matchcond |-> Never, actions |-> {}]
        ELSE LET f == flood[n - 1] IN
             IF f.ok /\ f.stack # <<>> THEN FloodStep(pr, f) ELSE f
  IN flood[Len(pr.inst) + 1]

\* The heads of lists that a search can get to from those found.
Nodes(pr, start) ==
  LET tovisit[found \in SUBSET InstIds(pr)] ==
        LET more == found \cup {act.next : act \in UNION {OneState(pr, k).actions : k \in found}}
        IN IF more = found THEN found ELSE tovisit[more]
  IN tovisit[{start}]

IsOnePass(pr) == pr.start # 0 /\ \A k \in Nodes(pr, pr.start) : OneState(pr, k).ok
=============================================================================
