-------------------------------- MODULE NFA --------------------------------
(***************************************************************************)
(* The simulation of re2/nfa.cc.  Threads wait in run queues (sparse       *)
(* arrays), in the order in which backtracking would try them, each queue  *)
(* having every instruction once at most.  Threads that took different     *)
(* captures share nothing; threads that took none share a capture array,   *)
(* counted and put on a free list when the last one goes.                  *)
(*                                                                         *)
(* A thread in the arena is a number from 1 on; no thread is 0.            *)
(***************************************************************************)
EXTENDS Engine, FiniteSets

VARIABLES
  runq, nextq,     \* sequences of [id, t]
  i,               \* Step's position in runq, 0 outside of Step
  stk, t0,         \* locals of AddToThreadq
  t,               \* the thread its caller passed to AddToThreadq
  pool,            \* [ref, capture, free]: the arena and the free list
  match            \* match_

nfaVars == <<runq, nextq, i, stk, t0, t, pool, match>>

NFAInit ==
  /\ runq = <<>> /\ nextq = <<>> /\ i = 0
  /\ stk = <<>> /\ t0 = 0 /\ t = 0
  /\ pool = [ref |-> <<>>, capture |-> <<>>, free |-> <<>>]
  /\ match = NoCaptures

(***************************************************************************)
(* Threads.                                                                *)
(***************************************************************************)
\* The number AllocThread gives, and the pool when its captures are written.
NewThread(pl) == IF pl.free = <<>> THEN Len(pl.ref) + 1 ELSE Head(pl.free)
AllocThread(pl, cap) ==
  IF pl.free = <<>>
  THEN [pl EXCEPT !.ref = Append(@, 1), !.capture = Append(@, cap)]
  ELSE [ref |-> [pl.ref EXCEPT ![Head(pl.free)] = 1],
        capture |-> [pl.capture EXCEPT ![Head(pl.free)] = cap],
        free |-> Tail(pl.free)]

Incref(pl, th) == [pl EXCEPT !.ref[th] = @ + 1]

\* Faulty variant: a thread is free when it is still used once.
DecrefEarly(pl, th) ==
  IF pl.ref[th] > 2 THEN [pl EXCEPT !.ref[th] = @ - 1]
  ELSE [pl EXCEPT !.ref[th] = @ - 1, !.free = <<th>> \o @]

Decref(pl, th) ==
  IF pl.ref[th] > 1 THEN [pl EXCEPT !.ref[th] = @ - 1]
  ELSE [pl EXCEPT !.ref[th] = 0, !.free = <<th>> \o @]

\* All threads of a queue from its k-th on.
DecrefFrom(pl, q, k) ==
  LET n == Len(q)
      after[j \in k..(n + 1)] ==
        IF j = k THEN pl
        ELSE IF q[j - 1].t = 0 THEN after[j - 1] ELSE Decref(after[j - 1], q[j - 1].t)
  IN IF k > n THEN pl ELSE after[n + 1]

(***************************************************************************)
(* AddToThreadq(q, id, ..., th), which adds to nextq when Step calls it and*)
(* to runq otherwise.                                                      *)
(***************************************************************************)
threadq == IF i = 0 THEN runq ELSE nextq
Fill(queue) == IF i = 0 THEN runq' = queue /\ UNCHANGED nextq ELSE nextq' = queue /\ UNCHANGED runq

\* Faulty variant: an instruction that saves no thread is not noted.
HasIndexOfThread(k) == \E j \in 1..Len(threadq) : threadq[j].id = k /\ threadq[j].t # 0

HasIndex(k) == \E j \in 1..Len(threadq) : threadq[j].id = k

AddToThreadq(start, th) ==
  /\ stk' = IF start = 0 THEN <<>> ELSE << [id |-> start, t |-> 0] >>
  /\ t0' = th /\ t' = th /\ pc' = "pop"

\* The next one from the stack, restoring t0 if it says so.
AddPop ==
  /\ pc = "pop" /\ stk # <<>>
  /\ LET a == stk[Len(stk)] IN
       /\ IF a.t # 0 THEN pool' = Decref(pool, t0) /\ t0' = a.t
                     ELSE UNCHANGED <<pool, t0>>
       /\ id' = a.id
       /\ pc' = IF a.id = 0 THEN "pop" ELSE "add"
  /\ stk' = SubSeq(stk, 1, Len(stk) - 1)
  /\ UNCHANGED <<engine, query, p, matched, result, runq, nextq, i, t, match>>

\* Goto Loop, which skips instruction 0.
Follow(k) == id' = k /\ pc' = IF k = 0 THEN "pop" ELSE "add"
FollowNext == IF ip.last THEN pc' = "pop" /\ UNCHANGED id ELSE Follow(id + 1)
PushNext(stack) == IF ip.last THEN stack ELSE Append(stack, [id |-> id + 1, t |-> 0])

Add(op) == pc = "add" /\ ip.op = op /\ ~HasIndex(id)
AddFrame == UNCHANGED <<engine, query, p, matched, result, i, t, match>>
Enqueue(th) == Fill(Append(threadq, [id |-> id, t |-> th]))

AddSeen ==
  /\ pc = "add" /\ HasIndex(id)
  /\ pc' = "pop"
  /\ UNCHANGED <<id, runq, nextq, stk, t0, pool>> /\ AddFrame

AddFail ==
  /\ Add("Fail") /\ Enqueue(0)
  /\ pc' = "pop"
  /\ UNCHANGED <<id, stk, t0, pool>> /\ AddFrame

AddAltMatch ==
  /\ Add("AltMatch") /\ Enqueue(t0)
  /\ pool' = Incref(pool, t0)
  /\ Follow(id + 1)
  /\ UNCHANGED <<stk, t0>> /\ AddFrame

AddNop ==
  /\ Add("Nop") /\ Enqueue(0)
  /\ stk' = PushNext(stk)
  /\ Follow(ip.out)
  /\ UNCHANGED <<t0, pool>> /\ AddFrame

AddCapture ==
  /\ Add("Capture") /\ Enqueue(0)
  /\ IF ip.cap < ncap
     THEN /\ stk' = Append(PushNext(stk), [id |-> 0, t |-> t0])
          /\ pool' = AllocThread(pool, [pool.capture[t0] EXCEPT ![ip.cap] = p])
          /\ t0' = NewThread(pool)
     ELSE stk' = PushNext(stk) /\ UNCHANGED <<t0, pool>>
  /\ Follow(ip.out) /\ AddFrame

AddByteRange ==
  /\ Add("ByteRange")
  /\ \/ /\ Matches(query, ip, p)
        /\ Enqueue(t0) /\ pool' = Incref(pool, t0)
        /\ IF ip.hint = 0 THEN pc' = "pop" /\ UNCHANGED id ELSE Follow(id + ip.hint)
     \/ /\ ~Matches(query, ip, p)
        /\ Enqueue(0) /\ UNCHANGED pool
        /\ FollowNext
  /\ UNCHANGED <<stk, t0>> /\ AddFrame

AddMatch ==
  /\ Add("Match") /\ Enqueue(t0)
  /\ pool' = Incref(pool, t0)
  /\ FollowNext
  /\ UNCHANGED <<stk, t0>> /\ AddFrame

AddEmptyWidth ==
  /\ Add("EmptyWidth") /\ Enqueue(0)
  /\ stk' = PushNext(stk)
  /\ IF ip.empty \subseteq EmptyFlags(query.context, p) THEN Follow(ip.out)
     ELSE pc' = "pop" /\ UNCHANGED id
  /\ UNCHANGED <<t0, pool>> /\ AddFrame

\* Back in Step, or in Search.
AddReturn ==
  /\ pc = "pop" /\ stk = <<>>
  /\ pool' = Decref(pool, t)
  /\ IF i = 0 THEN pc' = "check" /\ UNCHANGED i ELSE pc' = "step" /\ i' = i + 1
  /\ UNCHANGED <<engine, query, id, p, matched, result, runq, nextq, stk, t0, t, match>>

(***************************************************************************)
(* Step(runq, nextq, c, context, p).                                       *)
(***************************************************************************)
th == runq[i].t
op == Inst(prog, runq[i].id)
StepFrame == UNCHANGED <<engine, query, id, p, result, stk, t0, t>>

\* In leftmost-longest mode a thread that began after the match is dropped.
Late == Longest(query) /\ matched /\ match[0] < pool.capture[th][0]
Step(o) == pc = "step" /\ i <= Len(runq) /\ th # 0 /\ ~Late /\ op.op = o

NextThread == i' = i + 1 /\ pool' = Decref(pool, th) /\ UNCHANGED <<pc, runq>>
\* The rest of the queue can only find worse matches.
CutOff == runq' = <<>> /\ pool' = DecrefFrom(pool, runq, i) /\ UNCHANGED <<pc, i>>

StepSkip ==
  /\ pc = "step" /\ i <= Len(runq)
  /\ \/ th = 0 /\ i' = i + 1 /\ UNCHANGED <<pc, runq, pool>>
     \/ th # 0 /\ Late /\ NextThread
  /\ UNCHANGED <<nextq, matched, match>> /\ StepFrame

StepByteRange ==
  /\ Step("ByteRange")
  /\ AddToThreadq(op.out, th)
  /\ UNCHANGED <<engine, query, id, p, matched, result, runq, nextq, i, pool, match>>

\* The shortcut is taken by the first thread only: the rest of the text matches.
StepAltMatch ==
  /\ Step("AltMatch")
  /\ \/ /\ i = 1 /\ (Greedy(prog, op) \/ Longest(query))
        /\ match' = pool.capture[th] /\ matched' = TRUE
        /\ id' = IF Greedy(prog, op) THEN op.out1 ELSE op.out
        /\ runq' = <<>> /\ pool' = DecrefFrom(pool, runq, i)
        /\ p' = query.end /\ pc' = "short" /\ UNCHANGED i
     \/ /\ ~(i = 1 /\ (Greedy(prog, op) \/ Longest(query)))
        /\ NextThread /\ UNCHANGED <<id, p, match, matched>>
  /\ UNCHANGED <<engine, query, result, nextq, stk, t0, t>>

\* A match is noticed one byte late.
BetterMatch(cap) ==
  \/ ~matched \/ cap[0] < match[0]
  \/ cap[0] = match[0] /\ p - 1 > match[1]

StepMatch ==
  LET cap == pool.capture[th] IN
  /\ Step("Match")
  /\ IF EndMatch(query) /\ p - 1 # query.end
     THEN NextThread /\ UNCHANGED <<match, matched>>
     ELSE IF Longest(query)
     THEN /\ NextThread
          /\ IF BetterMatch(cap) THEN match' = [cap EXCEPT ![1] = p - 1] /\ matched' = TRUE
             ELSE UNCHANGED <<match, matched>>
     ELSE CutOff /\ match' = [cap EXCEPT ![1] = p - 1] /\ matched' = TRUE
  /\ UNCHANGED nextq /\ StepFrame

\* The queues are swapped.
StepEnd ==
  /\ pc = "step" /\ i > Len(runq)
  /\ runq' = nextq /\ nextq' = <<>> /\ i' = 0
  /\ pc' = "start"
  /\ UNCHANGED <<matched, pool, match>> /\ StepFrame

(***************************************************************************)
(* Search.                                                                 *)
(***************************************************************************)
SearchFrame == UNCHANGED <<engine, query, nextq, i, stk>>

NFAReject ==
  /\ pc = "start" /\ p = NULL
  /\ prog.start = 0 \/ Hopeless(query)
  /\ Return(FALSE, match)
  /\ UNCHANGED <<id, p, matched, runq, t0, t, pool, match>> /\ SearchFrame

NFASetup ==
  /\ pc = "start" /\ p = NULL /\ prog.start # 0 /\ ~Hopeless(query)
  /\ p' = query.beg
  /\ UNCHANGED <<pc, id, matched, result, runq, t0, t, pool, match>> /\ SearchFrame

\* A new thread, unless there is a match or the search is anchored.
MayStart == ~matched /\ (~Anchored(query) \/ p = query.beg)
StartThread ==
  /\ pc = "start" /\ p # NULL /\ p <= query.end /\ MayStart
  /\ LET beg == IF ~Anchored(query) /\ runq = <<>> THEN Accelerated(p) ELSE p IN
       /\ p' = beg
       /\ pool' = AllocThread(pool, [match EXCEPT ![0] = beg])
       /\ stk' = << [id |-> prog.start, t |-> 0] >>
  /\ t0' = NewThread(pool) /\ t' = NewThread(pool) /\ pc' = "pop"
  /\ UNCHANGED <<engine, query, id, matched, result, runq, nextq, i, match>>

NoThread ==
  /\ pc = "start" /\ p # NULL /\ (p > query.end \/ ~MayStart)
  /\ pc' = IF p > query.end THEN "finish" ELSE "check"
  /\ UNCHANGED <<id, p, matched, result, runq, t0, t, pool, match>> /\ SearchFrame

\* All threads have died, or one more byte.
Check ==
  /\ pc = "check"
  /\ IF runq = <<>> THEN pc' = "finish" /\ UNCHANGED <<p, i>>
     ELSE pc' = "step" /\ p' = p + 1 /\ i' = 1
  /\ UNCHANGED <<engine, query, id, matched, result, runq, nextq, stk, t0, t, pool, match>>

\* The way of a shortcut to its Match.
ShortCut ==
  /\ pc = "short"
  /\ match' = CASE ip.op = "Capture" -> CaptureAt(match, ip.cap, p)
                [] ip.op = "Match" -> [match EXCEPT ![1] = p]
                [] OTHER -> match
  /\ IF ip.op = "Match" THEN pc' = "finish" /\ runq' = nextq /\ nextq' = <<>> /\ UNCHANGED id
     ELSE id' = ip.out /\ UNCHANGED <<pc, runq, nextq>>
  /\ UNCHANGED <<engine, query, p, matched, result, i, stk, t0, t, pool>>

Finish ==
  /\ pc = "finish"
  /\ Return(matched, match)
  /\ pool' = DecrefFrom(pool, runq, 1) /\ runq' = <<>>
  /\ UNCHANGED <<id, p, matched, t0, t, match>> /\ SearchFrame

NFANext ==
  /\ engine = "NFA"
  /\ \/ NFAReject \/ NFASetup \/ StartThread \/ NoThread \/ Check \/ ShortCut \/ Finish
     \/ StepSkip \/ StepByteRange \/ StepAltMatch \/ StepMatch \/ StepEnd
     \/ AddPop \/ AddSeen \/ AddFail \/ AddAltMatch \/ AddNop \/ AddCapture
     \/ AddByteRange \/ AddMatch \/ AddEmptyWidth \/ AddReturn

(***************************************************************************)
(* Properties.                                                             *)
(***************************************************************************)
\* While AddToThreadq runs, t0 and the threads on its stack are the ones it
\* allocated and the one of its caller.
Adding == engine = "NFA" /\ pc \in {"pop", "add"}
Owners(k) ==
  LET from == IF i = 0 THEN 1 ELSE IF Adding THEN i + 1 ELSE i
      In(queue, first) == Cardinality({j \in first..Len(queue) : queue[j].t = k})
  IN In(runq, from) + In(nextq, 1)
     + (IF Adding THEN In(stk, 1) + (IF t0 = k THEN 1 ELSE 0) ELSE 0)

\* A thread's count is the number of places that hold it, and it is on the
\* free list, once, when there are none; so no capture array is overwritten
\* while another thread uses it, and all threads are free at the end.
RefsExact ==
  /\ \A k \in DOMAIN pool.ref : pool.ref[k] = Owners(k)
  /\ {pool.free[j] : j \in DOMAIN pool.free} = {k \in DOMAIN pool.ref : pool.ref[k] = 0}
  /\ \A j, k \in DOMAIN pool.free : j # k => pool.free[j] # pool.free[k]

\* AddToThreadq never outgrows the stack that the constructor allocates.
InstCount(o) == Cardinality({k \in InstIds(prog) : Inst(prog, k).op = o})
NStack == 2 * InstCount("Capture") + InstCount("EmptyWidth") + InstCount("Nop") + 1
StackBounded == Len(stk) <= NStack
=============================================================================
