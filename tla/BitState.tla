------------------------------ MODULE BitState ------------------------------
(***************************************************************************)
(* The search by backtracking of re2/bitstate.cc.  What is left to try is  *)
(* on an explicit stack of jobs, and no (list, position) pair is entered   *)
(* twice, whichever start position of the search led there.                *)
(*                                                                         *)
(* A job [id, p, rle] stands for the instruction id at p, p+1, ..., p+rle, *)
(* the last of them first.  A job with a negative id gives a capture       *)
(* register its old value p back.                                          *)
(***************************************************************************)
EXTENDS Engine

VARIABLES
  p0,              \* where the search starts that is being tried
  visited, cap, job,
  submatch         \* the capture registers of the best match, or <<>>

bitStateVars == <<p0, visited, cap, job, submatch>>

Top(stack) == stack[Len(stack)]
Below(stack) == SubSeq(stack, 1, Len(stack) - 1)

\* A job that continues the run of the top one joins it.
Push(stack, i, q) ==
  IF i >= 0 /\ stack # <<>> /\ i = Top(stack).id /\ q = Top(stack).p + Top(stack).rle + 1
  THEN Append(Below(stack), [Top(stack) EXCEPT !.rle = @ + 1])
  ELSE Append(stack, [id |-> i, p |-> q, rle |-> 0])

PushRest(stack, i, q) == IF Inst(prog, i).last THEN stack ELSE Push(stack, i + 1, q)

ShouldVisit(i, q) == <<i, q>> \notin visited

(***************************************************************************)
(* Search.                                                                 *)
(***************************************************************************)
BitStateInit ==
  /\ p0 = query.beg
  /\ visited = {} /\ job = <<>>
  /\ cap = NoCaptures /\ submatch = <<>>

Reject ==
  /\ pc = "start" /\ Hopeless(query)
  /\ Return(FALSE, cap)
  /\ UNCHANGED <<engine, query, id, p, p0, visited, cap, job, matched, submatch>>

\* The beginning of TrySearch.
StartTry ==
  /\ pc = "start" /\ ~Hopeless(query)
  /\ LET q == IF Anchored(query) THEN p0 ELSE Accelerated(p0) IN
       /\ p0' = q
       /\ cap' = [cap EXCEPT ![0] = q]
       /\ job' = IF ShouldVisit(prog.start, q) THEN Push(<<>>, prog.start, q) ELSE <<>>
       /\ visited' = visited \cup {<<prog.start, q>>}
  /\ matched' = FALSE /\ pc' = "pop"
  /\ UNCHANGED <<engine, query, id, p, submatch, result>>

\* Faulty variant: the next search begins where this one did.
EndTryStays ==
  /\ pc = "pop" /\ job = <<>>
  /\ \/ /\ matched \/ Anchored(query) \/ p0 = query.end
        /\ Return(matched, submatch)
     \/ /\ ~(matched \/ Anchored(query) \/ p0 = query.end)
        /\ pc' = "start" /\ UNCHANGED result
  /\ UNCHANGED <<engine, query, id, p, p0, visited, cap, job, matched, submatch>>

\* Nothing is left to try from p0.
EndTry ==
  /\ pc = "pop" /\ job = <<>>
  /\ \/ /\ matched \/ Anchored(query) \/ p0 = query.end
        /\ Return(matched, submatch)
        /\ UNCHANGED p0
     \/ /\ ~(matched \/ Anchored(query) \/ p0 = query.end)
        /\ p0' = p0 + 1 /\ pc' = "start"
        /\ UNCHANGED result
  /\ UNCHANGED <<engine, query, id, p, visited, cap, job, matched, submatch>>

(***************************************************************************)
(* TrySearch: a job is popped.                                             *)
(***************************************************************************)
UndoCapture ==
  /\ pc = "pop" /\ job # <<>> /\ Top(job).id < 0
  /\ cap' = [cap EXCEPT ![Inst(prog, -Top(job).id).cap] = Top(job).p]
  /\ job' = Below(job)
  /\ UNCHANGED <<engine, query, pc, id, p, p0, visited, matched, submatch, result>>

\* Faulty variant: a run is popped from its beginning.
PopJobFirst ==
  LET top == Top(job) IN
  /\ pc = "pop" /\ job # <<>> /\ top.id >= 0
  /\ id' = top.id /\ p' = top.p
  /\ job' = IF top.rle = 0 THEN Below(job)
            ELSE Append(Below(job), [top EXCEPT !.p = @ + 1, !.rle = @ - 1])
  /\ pc' = "loop"
  /\ UNCHANGED <<engine, query, p0, visited, cap, matched, submatch, result>>

\* The rest of a run stays on the stack.
PopJob ==
  LET top == Top(job) IN
  /\ pc = "pop" /\ job # <<>> /\ top.id >= 0
  /\ id' = top.id /\ p' = top.p + top.rle
  /\ job' = IF top.rle = 0 THEN Below(job)
            ELSE Append(Below(job), [top EXCEPT !.rle = @ - 1])
  /\ pc' = "loop"
  /\ UNCHANGED <<engine, query, p0, visited, cap, matched, submatch, result>>

(***************************************************************************)
(* TrySearch: an instruction is visited.                                   *)
(***************************************************************************)
Visit(op) == pc = "loop" /\ ip.op = op

\* Next: the following instruction of the same list is not checked.
NextInst == IF ip.last THEN pc' = "pop" /\ UNCHANGED id
                       ELSE id' = id + 1 /\ UNCHANGED pc

\* Faulty variant: a list is entered again.
EnterAgain(i, q) ==
  id' = i /\ p' = q /\ visited' = visited \cup {<<i, q>>} /\ UNCHANGED pc

\* CheckAndLoop: only heads of lists have a number in list_heads_.
Enter(i, q) ==
  IF ShouldVisit(i, q)
  THEN id' = i /\ p' = q /\ visited' = visited \cup {<<i, q>>} /\ UNCHANGED pc
  ELSE pc' = "pop" /\ UNCHANGED <<id, p, visited>>

VisitFail ==
  /\ Visit("Fail")
  /\ pc' = "pop"
  /\ UNCHANGED <<engine, query, id, p, p0, visited, cap, job, matched, submatch, result>>

\* The loop over all bytes is cut short if it is preferred, or longest.
VisitAltMatch ==
  /\ Visit("AltMatch")
  /\ \/ /\ Greedy(prog, ip)
        /\ id' = ip.out1 /\ p' = query.end /\ UNCHANGED pc
     \/ /\ ~Greedy(prog, ip) /\ Longest(query)
        /\ id' = ip.out /\ p' = query.end /\ UNCHANGED pc
     \/ /\ ~Greedy(prog, ip) /\ ~Longest(query)
        /\ NextInst /\ UNCHANGED p
  /\ UNCHANGED <<engine, query, p0, visited, cap, job, matched, submatch, result>>

VisitByteRange ==
  /\ Visit("ByteRange")
  /\ \/ /\ Matches(query, ip, p)
        /\ job' = IF ip.hint = 0 THEN job ELSE Push(job, id + ip.hint, p)
        /\ Enter(ip.out, p + 1)
     \/ /\ ~Matches(query, ip, p)
        /\ NextInst /\ UNCHANGED <<p, visited, job>>
  /\ UNCHANGED <<engine, query, p0, cap, matched, submatch, result>>

\* Faulty variant: the old value is not restored.
VisitCaptureForgets ==
  /\ Visit("Capture")
  /\ job' = PushRest(job, id, p)
  /\ cap' = [k \in DOMAIN cap |-> IF k = ip.cap THEN p ELSE cap[k]]
  /\ Enter(ip.out, p)
  /\ UNCHANGED <<engine, query, p0, matched, submatch, result>>

VisitCapture ==
  /\ Visit("Capture")
  /\ LET rest == PushRest(job, id, p) IN
       IF ip.cap \in DOMAIN cap
       THEN job' = Push(rest, -id, cap[ip.cap]) /\ cap' = [cap EXCEPT ![ip.cap] = p]
       ELSE job' = rest /\ UNCHANGED cap
  /\ Enter(ip.out, p)
  /\ UNCHANGED <<engine, query, p0, matched, submatch, result>>

VisitEmptyWidth ==
  /\ Visit("EmptyWidth")
  /\ \/ /\ ip.empty \subseteq EmptyFlags(query.context, p)
        /\ job' = PushRest(job, id, p)
        /\ Enter(ip.out, p)
     \/ /\ ~(ip.empty \subseteq EmptyFlags(query.context, p))
        /\ NextInst /\ UNCHANGED <<p, visited, job>>
  /\ UNCHANGED <<engine, query, p0, cap, matched, submatch, result>>

VisitNop ==
  /\ Visit("Nop")
  /\ job' = PushRest(job, id, p)
  /\ Enter(ip.out, p)
  /\ UNCHANGED <<engine, query, p0, cap, matched, submatch, result>>

\* The match is kept if it is the first one, or longer where that matters.
Better(q) == submatch = <<>> \/ (Longest(query) /\ q > submatch[1])

VisitMatch ==
  /\ Visit("Match")
  /\ \/ /\ EndMatch(query) /\ p # query.end
        /\ NextInst /\ UNCHANGED <<cap, matched, submatch, result>>
     \/ /\ ~(EndMatch(query) /\ p # query.end)
        /\ NSubmatch(query) = 0
        /\ Return(TRUE, cap)
        /\ UNCHANGED <<id, cap, matched, submatch>>
     \/ /\ ~(EndMatch(query) /\ p # query.end)
        /\ NSubmatch(query) # 0
        /\ matched' = TRUE
        /\ cap' = [cap EXCEPT ![1] = p]
        /\ submatch' = IF Better(p) THEN cap' ELSE submatch
        /\ IF ~Longest(query) \/ p = query.end
           THEN Return(TRUE, submatch') /\ UNCHANGED id
           ELSE NextInst /\ UNCHANGED result
  /\ UNCHANGED <<engine, query, p, p0, visited, job>>

BitStateNext ==
  /\ engine = "BitState"
  /\ \/ Reject \/ StartTry \/ EndTry \/ UndoCapture \/ PopJob
     \/ VisitFail \/ VisitAltMatch \/ VisitByteRange \/ VisitCapture
     \/ VisitEmptyWidth \/ VisitNop \/ VisitMatch

(***************************************************************************)
(* Properties.                                                             *)
(***************************************************************************)
\* The search stays in the part of the text and of the bitmap that is its own.
BitmapFits ==
  /\ engine = "BitState" => p \in {NULL} \cup (query.beg..query.end)
  /\ p0 \in query.beg..query.end
  /\ visited \subseteq {k \in InstIds(prog) : IsHead(prog, k)} \X (query.beg..query.end)
  /\ \A k \in DOMAIN cap : cap[k] \in {NULL} \cup (query.beg..query.end)

\* The instructions at positions that a job stands for.
Pending(j) == IF job[j].id < 0 THEN {}
              ELSE {<<job[j].id, q>> : q \in job[j].p..(job[j].p + job[j].rle)}

\* No instruction waits twice at the same position: that bounds the stack, and
\* with it the search is linear in the text.
NeverTwice ==
  /\ \A j, k \in 1..Len(job) : j # k => Pending(j) \cap Pending(k) = {}
  /\ pc = "loop" => \A j \in 1..Len(job) : <<id, p>> \notin Pending(j)
  /\ \A j \in 1..Len(job) : job[j].p + job[j].rle <= query.end

\* The jobs that are on the stack restore the registers the search began with,
\* of which only [0] is set (and [1], which a match leaves behind).
IsUndo(j, k) == job[j].id < 0 /\ Inst(prog, -job[j].id).cap = k
Unwound(k) ==
  LET undos == {j \in 1..Len(job) : IsUndo(j, k)}
  IN IF undos = {} THEN cap[k]
     ELSE job[CHOOSE j \in undos : \A other \in undos : j <= other].p
CapturesUndone == \A k \in DOMAIN cap \ {0, 1} : Unwound(k) = NULL
=============================================================================
