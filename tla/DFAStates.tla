----------------------------- MODULE DFAStates -----------------------------
(***************************************************************************)
(* How re2/dfa.cc makes its states from the instructions of a program, and *)
(* one search over them.  (What several searches that share a cache do is  *)
(* in DFACache, to which these states are keys.)                           *)
(*                                                                         *)
(* A state [inst, flag, need] has the heads of the lists it is in, in the  *)
(* order of their priority; in a longest match search a Mark separates     *)
(* those that began at different positions, and what is between two Marks  *)
(* is sorted.  A match is noticed one byte late.                           *)
(***************************************************************************)
EXTENDS Engine, SequencesExt

VARIABLES
  state,           \* the state the search is in
  lastmatch        \* where the last match ended, or NULL

dfaVars == <<state, lastmatch>>

Mark == -1
EndText == "EndText"                     \* kByteEndText
DeadState == [inst |-> <<>>, flag |-> {}, need |-> {}]
FullMatchState == [inst |-> <<-2>>, flag |-> {}, need |-> {}]

(***************************************************************************)
(* SearchDFA: which DFA is asked for what.                                 *)
(***************************************************************************)
AtEnd(q) == q.kind = "full" \/ EndMatch(q)
Earliest(q) == q.nmatch = 0 /\ ~AtEnd(q)
First(q) == q.kind = "first" /\ ~AtEnd(q) /\ ~Earliest(q)

(***************************************************************************)
(* Work queues: sequences of instructions, each once, and of Marks.        *)
(***************************************************************************)
\* The loop in front of an unanchored search: what begins later has less priority.
MarksAfter(q, k) == ~First(q) /\ k = ProgOf(q).startUnanchored /\ k # ProgOf(q).start

\* One turn of AddToQueue's loop: f.stk is its stack, f.w the queue.  (What the code
\* goes on with at once, without the stack, is on top of it here.)
AddStep(q, flag, f) ==
  LET k == Last(f.stk)
      below == Front(f.stk)
      ip0 == Inst(ProgOf(q), k)
      rest == IF ip0.last THEN below ELSE Append(below, k + 1)
      parted == IF ip0.op = "Nop" /\ MarksAfter(q, k) THEN Append(rest, Mark) ELSE rest
      follows == \/ ip0.op \in {"Capture", "Nop"}
                 \/ ip0.op = "EmptyWidth" /\ ip0.empty \subseteq flag
  IN IF k = Mark THEN [stk |-> below, w |-> Append(f.w, Mark)]
     ELSE IF k = 0 \/ \E j \in DOMAIN f.w : f.w[j] = k THEN [stk |-> below, w |-> f.w]
     ELSE [stk |-> IF follows THEN Append(parted, ip0.out) ELSE rest, w |-> Append(f.w, k)]

\* The loop: each turn takes one off the stack, and an instruction puts three there
\* at most, once.
Turns(q) == 3 * Len(ProgOf(q).inst)
AddLoop(q, queue, first, flag) ==
  LET turn[n \in 0..Turns(q)] ==
        IF n = 0 THEN [stk |-> <<first>>, w |-> queue]
        ELSE LET f == turn[n - 1] IN IF f.stk = <<>> THEN f ELSE AddStep(q, flag, f)
  IN turn
AddToQueue(q, queue, first, flag) == AddLoop(q, queue, first, flag)[Turns(q)].w

AddAll(q, seq, flag) ==
  LET all[n \in 0..Len(seq)] ==
        IF n = 0 THEN <<>> ELSE LET w == all[n - 1] IN AddToQueue(q, w, seq[n], flag)
  IN all[Len(seq)]

StateToWorkq(q, s) == AddAll(q, s.inst, s.flag \cap AllEmptyFlags)
RunWorkqOnEmptyString(q, w, flag) == AddAll(q, w, flag)

\* The last instruction of the list of k.
LastOf(pr, k) == Min({j \in InstIds(pr) : j >= k /\ Inst(pr, j).last})

\* Where the queue goes on when instruction k of a list, at its place j, has
\* matched: the hint says what else of the list can match.
Skip(pr, j, k) ==
  IF Inst(pr, k).hint # 0 THEN j + Inst(pr, k).hint ELSE j + 1 + (LastOf(pr, k) - k)

\* One turn of the loop over the old queue: r.j is where it is, r.w the new queue,
\* r.ismatch whether a match was before the byte.
RunStep(q, old, c, flag, r) ==
  LET pr == ProgOf(q)
      k == old[r.j]
      ip0 == Inst(pr, k)
      over == Len(old) + 1
  IN IF k = Mark
     THEN IF r.ismatch THEN [r EXCEPT !.j = over] ELSE [r EXCEPT !.j = @ + 1, !.w = Append(@, Mark)]
     ELSE CASE ip0.op = "ByteRange" /\ c \in ip0.bytes ->
                 [r EXCEPT !.j = Skip(pr, @, k), !.w = AddToQueue(q, @, ip0.out, flag)]
            [] ip0.op = "Match" /\ (pr.anchorEnd => c = EndText) ->
                 [r EXCEPT !.j = IF First(q) THEN over ELSE @ + 1, !.ismatch = TRUE]
            [] OTHER -> [r EXCEPT !.j = @ + 1]
\* The queue after byte c.
Running(q, old, c, flag) ==
  LET turn[n \in 0..Len(old)] ==
        IF n = 0 THEN [j |-> 1, w |-> <<>>, ismatch |-> FALSE]
        ELSE LET r == turn[n - 1] IN IF r.j > Len(old) THEN r ELSE RunStep(q, old, c, flag, r)
  IN turn
RunWorkqOnByte(q, old, c, flag) == Running(q, old, c, flag)[Len(old)]

(***************************************************************************)
(* WorkqToCachedState.                                                     *)
(***************************************************************************)
\* No Marks at the ends, nor two in a row; between them the order of numbers,
\* if it is without meaning.
Record(q, kept) ==
  LET Begins(j) == kept[j] # Mark /\ IsHead(ProgOf(q), kept[j])
      spared == {j \in DOMAIN kept :
                   \/ Begins(j)
                   \/ /\ kept[j] = Mark
                      /\ \E h \in 1..(j - 1) : Begins(h)
                      /\ \E h \in (j + 1)..Len(kept) :
                           Begins(h) /\ \A m \in (j + 1)..(h - 1) : kept[m] # Mark}
      Group(j) == Cardinality({m \in spared : m <= j /\ kept[m] = Mark})
      Before(j, m) == IF First(q) THEN j < m
                      ELSE \/ Group(j) < Group(m)
                           \/ Group(j) = Group(m) /\ kept[j] < kept[m]
  IN [n \in 1..Cardinality(spared) |->
        kept[CHOOSE j \in spared : Cardinality({m \in spared : Before(m, j)}) = n - 1]]

Cut(q, k) == First(q) \/ k = Mark

\* The AltMatch at the head of the queue, or of the leftmost threads, goes on to
\* match whatever the text is.
IsFull(q, k, first, sawmark, flag) ==
  LET ip0 == Inst(ProgOf(q), k) IN
  /\ k # Mark /\ ip0.op = "AltMatch" /\ "Match" \in flag
  /\ IF First(q) THEN first /\ Greedy(ProgOf(q), ip0) ELSE ~sawmark

NeedOf(q, ids) ==
  UNION {Inst(ProgOf(q), k).empty : k \in {k \in ids : Inst(ProgOf(q), k).op = "EmptyWidth"}}

WorkqToCachedState(q, w, flag) ==
  LET pr == ProgOf(q)
      \* Up to where the queue counts: a match cuts off what has less priority.
      matches == {j \in DOMAIN w : w[j] # Mark /\ Inst(pr, w[j]).op = "Match" /\ ~pr.anchorEnd}
      cuts == {j \in DOMAIN w : (\E m \in matches : m < j) /\ Cut(q, w[j])}
      kept == IF cuts = {} THEN w ELSE SubSeq(w, 1, Min(cuts) - 1)
      need == NeedOf(q, ToSet(kept) \ {Mark})
      sawmark(j) == \E m \in 1..(j - 1) : kept[m] = Mark /\ \E h \in 1..(m - 1) : kept[h] # Mark /\ IsHead(pr, kept[h])
  IN IF \E j \in DOMAIN kept : IsFull(q, kept[j], j = 1, sawmark(j), flag) THEN FullMatchState
     ELSE [inst |-> Record(q, kept), flag |-> IF need = {} THEN flag \cap {"Match"} ELSE flag, need |-> need]

(***************************************************************************)
(* RunStateOnByte.                                                         *)
(***************************************************************************)
\* The flags before byte c, and those after it.
BeforeFlag(s, c) ==
  (s.flag \cap AllEmptyFlags)
  \cup (IF c = NewLine THEN {"EndLine"} ELSE {})
  \cup (IF c = EndText THEN {"EndLine", "EndText"} ELSE {})
  \cup (IF (c \in WordChar) = ("LastWord" \in s.flag) THEN {"NonWordBoundary"} ELSE {"WordBoundary"})
AfterFlag(c) == IF c = NewLine THEN {"BeginLine"} ELSE {}

\* The queue that reads the byte: run again if there are new flags it needs.
Queue(q, s, c) ==
  LET w == StateToWorkq(q, s) IN
  IF (BeforeFlag(s, c) \ s.flag) \cap s.need # {}
  THEN RunWorkqOnEmptyString(q, w, BeforeFlag(s, c)) ELSE w

RunStateOnByte(q, s, c) ==
  LET run == RunWorkqOnByte(q, Queue(q, s, c), c, AfterFlag(c)) IN
  IF s = FullMatchState THEN s
  ELSE WorkqToCachedState(q, run.w,
         AfterFlag(c) \cup (IF run.ismatch THEN {"Match"} ELSE {})
                      \cup (IF c \in WordChar THEN {"LastWord"} ELSE {}))

\* AnalyzeSearch: what comes before the text decides on the start state.
StartFlag(q) ==
  LET before == q.context[q.beg] IN
  IF q.beg = 0 THEN {"BeginText", "BeginLine"}
  ELSE IF before = NewLine THEN {"BeginLine"}
  ELSE IF before \in WordChar THEN {"LastWord"} ELSE {}
StartState(q) ==
  LET from == IF Anchored(q) THEN ProgOf(q).start ELSE ProgOf(q).startUnanchored
  IN WorkqToCachedState(q, AddToQueue(q, <<>>, from, StartFlag(q)), StartFlag(q))

(***************************************************************************)
(* The search.                                                             *)
(***************************************************************************)
DFAInit == state = DeadState /\ lastmatch = NULL

DFAReturn(found, ep) ==
  /\ pc' = "done"
  /\ result' = << IF ~found \/ (AtEnd(query) /\ ep # query.end) THEN NoMatch
                  ELSE MatchAt(query, [k \in 0..1 |-> IF k = 0 THEN NULL ELSE ep]) >>

DFAReject ==
  /\ engine = "DFA" /\ pc = "start" /\ Hopeless(query)
  /\ DFAReturn(FALSE, NULL)
  /\ UNCHANGED <<engine, query, id, p, matched, dfaVars>>

DFAStart ==
  /\ engine = "DFA" /\ pc = "start" /\ ~Hopeless(query)
  /\ \E s \in {StartState(query)} :
       /\ state' = s /\ p' = query.beg
       /\ matched' = ("Match" \in s.flag)
       /\ lastmatch' = IF "Match" \in s.flag THEN query.beg ELSE NULL
       /\ IF s = DeadState THEN DFAReturn(FALSE, NULL)
          ELSE IF s = FullMatchState
          THEN DFAReturn(TRUE, IF Earliest(query) THEN query.beg ELSE query.end)
          ELSE IF "Match" \in s.flag /\ Earliest(query) THEN DFAReturn(TRUE, query.beg)
          ELSE pc' = "scan" /\ UNCHANGED result
  /\ UNCHANGED <<engine, query, id>>

\* Memchr and its like may only be used where nothing but the prefix leads on.
MayAccel ==
  ~Anchored(query) /\ state = StartState(query) /\ state.need = {} /\ p # query.end
Position == IF MayAccel THEN Accelerated(p) ELSE p

\* A byte of the text, or the one after it.
DFAByte ==
  LET Next(at) == IF at # query.end THEN query.context[at + 1]
                  ELSE IF query.end < Len(query.context) THEN query.context[query.end + 1] ELSE EndText
  IN /\ engine = "DFA" /\ pc = "scan"
     /\ \E at \in {Position} : \E s \in {RunStateOnByte(query, state, Next(at))} :
          LET last == at = query.end
              isMatch == "Match" \in s.flag
          IN /\ state' = s
             /\ p' = IF last THEN at ELSE at + 1
             /\ matched' = (matched \/ isMatch)
             /\ lastmatch' = IF isMatch THEN at ELSE lastmatch
             /\ IF s = FullMatchState THEN DFAReturn(TRUE, query.end)
                ELSE IF s = DeadState \/ last \/ (isMatch /\ Earliest(query))
                THEN DFAReturn(matched', lastmatch')
                ELSE pc' = "scan" /\ UNCHANGED result
     /\ UNCHANGED <<engine, query, id>>

DFANext == DFAReject \/ DFAStart \/ DFAByte

(***************************************************************************)
(* What DFA's constructor sets aside.                                      *)
(***************************************************************************)
\* The Marks that a queue has room for.
MaxMark(q) == IF First(q) THEN 0 ELSE Len(ProgOf(q).inst)
\* The instructions that push what is behind them: with the Marks and the first one,
\* the stack of AddToQueue is to hold one entry for each.
Pushing(pr) == {k \in InstIds(pr) : Inst(pr, k).op \in {"Capture", "EmptyWidth", "Nop"}}
StackSize(q) == Cardinality(Pushing(ProgOf(q))) + MaxMark(q) + 1

(***************************************************************************)
(* Properties.                                                             *)
(***************************************************************************)
\* Whatever byte comes next, a queue gets no more Marks than there is room for,
\* entering any list in it needs no more of the stack than there is, and the iterator
\* over the old queue, which hints and ends of lists move, does not leave it.  (There
\* is no check, and Workq::mark adds a Mark even behind another.)
MarksIn(w) == Cardinality({j \in DOMAIN w : w[j] = Mark})
StackFits(q, w, flag) ==
  \A k \in {m \in InstIds(ProgOf(q)) : IsHead(ProgOf(q), m)} :
    \A turn \in {AddLoop(q, w, k, flag)} :
      \A n \in 0..Turns(q) : Len(turn[n].stk) <= StackSize(q)
QueuesFit ==
  engine = "DFA" /\ pc = "scan" =>
    \A c \in {query.context[j] : j \in DOMAIN query.context} \cup {EndText} :
      \A w \in {Queue(query, state, c)} : \A r \in {RunWorkqOnByte(query, w, c, AfterFlag(c))} :
        /\ MarksIn(w) <= MaxMark(query) /\ MarksIn(r.w) <= MaxMark(query)
        /\ r.j <= Len(w) + 1
        /\ StackFits(query, w, BeforeFlag(state, c)) /\ StackFits(query, r.w, AfterFlag(c))
=============================================================================
