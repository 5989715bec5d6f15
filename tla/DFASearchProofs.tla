--------------------------- MODULE DFASearchProofs ---------------------------
(***************************************************************************)
(* Proof that the shared cache implements the search of DFASearch, for any *)
(* threads, automaton, costs and budget: the steps of a search map to      *)
(* steps of an undisturbed scan or change nothing that scan can see.       *)
(***************************************************************************)
EXTENDS DFACacheProofs, DFACacheRefines, FiniteSetTheorems

\* What both the invariant of the cache and that of the scans say of a step.
Scans == IInv /\ IInv' /\ \A u \in Thread : ScanOK(u)

\* The other threads, and the contents of the states they stand on, are as before.
OthersStay(t) ==
  \A u \in Thread \ {t} :
    /\ frame'[u] = frame[u]
    /\ \A a \in {frame[u].start, frame[u].s} : a \in Addr => content'[a] = content[a]

LEMMA OthersInView ==
  ASSUME NEW t \in Thread, OthersStay(t), \A u \in Thread : ScanOK(u),
         NEW u \in Thread \ {t}
  PROVE  View(u)' = View(u) /\ ScanOK(u)'
  BY DEF OthersStay, View, ScanOK, Searching, Current, Phase, IdleView

\* A step of t changes only t's part of what the abstract search sees.
Sees(t, v) ==
  /\ absPhase' = [absPhase EXCEPT ![t] = v.phase]
  /\ absReq' = [absReq EXCEPT ![t] = v.req]
  /\ absCur' = [absCur EXCEPT ![t] = v.cur]
  /\ absP' = [absP EXCEPT ![t] = v.p]
  /\ absLast' = [absLast EXCEPT ![t] = v.lastmatch]
  /\ absMatches' = [absMatches EXCEPT ![t] = v.matches]
  /\ absResult' = [absResult EXCEPT ![t] = v.result]

LEMMA SeesOneThread ==
  ASSUME NEW t \in Thread, OthersStay(t), \A u \in Thread : ScanOK(u)
  PROVE  Sees(t, View(t)')
  BY OthersInView
  DEF Sees, absPhase, absReq, absCur, absP, absLast, absMatches, absResult

LEMMA ViewNow ==
  ASSUME NEW t \in Thread
  PROVE  /\ absPhase[t] = View(t).phase /\ absReq[t] = View(t).req
         /\ absCur[t] = View(t).cur /\ absP[t] = View(t).p
         /\ absLast[t] = View(t).lastmatch /\ absMatches[t] = View(t).matches
         /\ absResult[t] = View(t).result
  BY DEF absPhase, absReq, absCur, absP, absLast, absMatches, absResult

\* A step that t's view does not show is a stutter of the abstract search.
LEMMA Unseen ==
  ASSUME NEW t \in Thread, OthersStay(t), \A u \in Thread : ScanOK(u), View(t)' = View(t)
  PROVE  UNCHANGED A!avars
  BY OthersInView
  DEF A!avars, absPhase, absReq, absCur, absP, absLast, absMatches, absResult

\* The frame of t changes and the cache grows, or t is alone.
LEMMA StepsAlone ==
  ASSUME Scans, NEW t \in Thread, NEW g, SetFrame(t, g), Grows \/ writer = t
  PROVE  frame'[t] = g /\ OthersStay(t)
  <1>1. /\ frame'[t] = g /\ \A u \in Thread \ {t} : frame'[u] = frame[u]
    BY DEF SetFrame, Scans, IInv, TypeOK
  <1>2. ASSUME NEW u \in Thread \ {t}, NEW a \in {frame[u].start, frame[u].s}, a \in Addr
        PROVE  content'[a] = content[a]
    <2>1. CASE Grows
      BY <1>2, <2>1, Held DEF Grows, Scans
    <2>2. CASE writer = t
      BY <1>2, <2>2, Alone, FrameOf, Distinct DEF Scans, IInv, ThreadOK, StatesOK
    <2> QED BY <2>1, <2>2
  <1> QED BY <1>1, <1>2 DEF OthersStay

-----------------------------------------------------------------------------
(***************************************************************************)
(* Steps that end a scan, go on with it, or leave it where it is.          *)
(***************************************************************************)

\* What the invariants say of a thread that is in a search.
LEMMA SearchFacts ==
  ASSUME IInv, NEW t \in Thread, ScanOK(t), frame[t].pc # "idle", Searching(t)
  PROVE  /\ frame[t] \in Frames /\ ThreadOK(t)
         /\ frame[t].req \in SearchRequest /\ frame[t].req \in A!SearchRequest
         /\ frame[t].req.kind \in StartKind /\ frame[t].req.n \in Nat
         /\ frame[t].req.earliest \in BOOLEAN
         /\ View(t).req = frame[t].req
  <1>1. /\ frame[t] \in Frames /\ ThreadOK(t) /\ frame[t].req \in Requests
    BY FrameOf, RequestKind DEF ThreadOK, IInv
  <1>2. frame[t].req \in SearchRequest
    <2>1. frame[t].req \notin RangeRequest
      BY DEF Searching, RangeRequest
    <2> QED BY <1>1, <2>1, Sorts
  <1>3. MaxText \in Nat
    BY Sorts
  <1> QED
    BY <1>1, <1>2, <1>3 DEF SearchRequest, A!SearchRequest, View

ScansKept == \A u \in Thread : ScanOK(u)'

LEMMA FinishEnds ==
  ASSUME Scans, NEW t \in Thread, Searching(t), frame[t].pc # "idle", NEW r, Finish(t, r),
         r # Fatal, Grows \/ writer = t
  PROVE  ScansKept /\ A!Finish(t, r)
  <1> DEFINE g == [IdleFrame EXCEPT !.pc = "done", !.req = frame[t].req, !.result = r]
  <1>1. frame'[t] = g /\ OthersStay(t)
    <2>1. SetFrame(t, g)
      BY DEF Finish
    <2> HIDE DEF g
    <2> QED BY <2>1, StepsAlone
  <1>2. /\ g.pc = "done" /\ g.req = frame[t].req /\ g.result = r /\ g.start = NULL /\ g.s = NULL
        /\ g.c = NULL /\ g.p = 0 /\ g.savedStart = NULL /\ g.savedS = NULL
        /\ g.lastmatch = NoPos /\ g.matches = {}
    BY DEF IdleFrame
  <1> HIDE DEF g
  <1>3. ScanOK(t)'
    BY <1>1, <1>2, Distinct DEF ScanOK, Searching
  <1>4. View(t)' = [phase |-> "done", req |-> frame[t].req, cur |-> NULL, p |-> 0,
                    lastmatch |-> NoPos, matches |-> {}, result |-> r]
    BY <1>1, <1>2, Distinct DEF View, Searching, Phase, Current
  <1>5. Sees(t, View(t)')
    BY <1>1, SeesOneThread DEF Scans
  <1>6. absReq[t] = frame[t].req
    BY ViewNow, SearchFacts DEF Scans
  <1>7. UNCHANGED absReq
    <2>1. absReq = [u \in Thread |-> absReq[u]]
      BY DEF absReq
    <2> QED BY <1>4, <1>5, <1>6, <2>1 DEF Sees
  <1>8. ScansKept
    BY <1>1, <1>3, OthersInView DEF ScansKept, Scans
  <1> QED
    BY <1>4, <1>5, <1>7, <1>8 DEF Sees, A!Finish

\* The scan goes on from the contents k, at the position and with the matches
\* of the frame h.
LEMMA GoesOn ==
  ASSUME Scans, NEW t \in Thread, Searching(t), frame[t].pc # "idle", NEW h, SetFrame(t, h),
         Grows \/ writer = t,
         h.pc = "loop", h.req = frame[t].req, h.s \in Addr, h.savedS = NULL, h.c = NULL,
         h.savedStart = NULL, h.start \in Addr => content'[h.start] = StartOf[h.req.kind],
         h.result = frame[t].result, frame[t].result = NULL,
         NEW k \in Key, content'[h.s] = k
  PROVE  ScansKept /\ A!Continue(t, k, h.p, h.lastmatch, h.matches)
  <1>1. frame'[t] = h /\ OthersStay(t)
    BY StepsAlone
  <1>2. k # NULL
    BY Distinct
  <1>3. ScanOK(t)'
    BY <1>1, <1>2, Distinct DEF ScanOK, Searching, Current
  <1>4. View(t)' = [phase |-> "scanning", req |-> frame[t].req, cur |-> k, p |-> h.p,
                    lastmatch |-> h.lastmatch, matches |-> h.matches, result |-> NULL]
    BY <1>1, <1>2, Distinct DEF View, Searching, Phase, Current
  <1>5. Sees(t, View(t)')
    BY <1>1, SeesOneThread DEF Scans
  <1>6. absReq[t] = frame[t].req /\ absResult[t] = NULL
    BY ViewNow, SearchFacts DEF Scans, View
  <1>7. UNCHANGED absReq /\ UNCHANGED absResult
    <2>1. /\ absReq = [u \in Thread |-> absReq[u]]
          /\ absResult = [u \in Thread |-> absResult[u]]
      BY DEF absReq, absResult
    <2>2. /\ absReq' = [absReq EXCEPT ![t] = frame[t].req]
          /\ absResult' = [absResult EXCEPT ![t] = NULL]
      BY <1>4, <1>5 DEF Sees
    <2> QED BY <1>6, <2>1, <2>2
  <1>8. ScansKept
    BY <1>1, <1>3, OthersInView DEF ScansKept, Scans
  <1> QED
    BY <1>4, <1>5, <1>7, <1>8 DEF Sees, A!Continue

\* The thread changes, but not what the abstract search sees of it.
LEMMA StandsStill ==
  ASSUME Scans, NEW t \in Thread, NEW g, SetFrame(t, g), Grows \/ writer = t,
         frame'[t] = g => View(t)' = View(t) /\ ScanOK(t)'
  PROVE  ScansKept /\ UNCHANGED A!avars
  BY StepsAlone, Unseen, OthersInView DEF Scans, ScansKept

\* So does a range walk, whatever it does.
LEMMA WalkUnseen ==
  ASSUME Scans, NEW t \in Thread, NEW g, SetFrame(t, g), Grows \/ writer = t,
         ~Searching(t), g.req = frame[t].req
  PROVE  ScansKept /\ UNCHANGED A!avars
  <1>1. frame'[t] = g => View(t)' = View(t) /\ ScanOK(t)'
    BY DEF View, ScanOK, Searching
  <1> QED BY <1>1, StandsStill

-----------------------------------------------------------------------------
(***************************************************************************)
(* The steps of one thread.                                                *)
(***************************************************************************)
Implements(t) == ScansKept /\ [A!ANext]_(A!avars)

\* A call of Search begins an abstract one; one of PossibleMatchRange does not.
LEMMA EnterImplements ==
  ASSUME Scans, NEW t \in Thread, NEW op \in {"search", "range"}, Enter(t, op)
  PROVE  Implements(t)
  <1>1. PICK r \in Requests :
          r.op = op /\ SetFrame(t, [IdleFrame EXCEPT !.pc = "analyze", !.req = r])
    BY DEF Enter
  <1> DEFINE g == [IdleFrame EXCEPT !.pc = "analyze", !.req = r]
  <1>2. /\ g.pc = "analyze" /\ g.req = r /\ g.result = NULL /\ g.start = NULL /\ g.s = NULL
        /\ g.c = NULL /\ g.p = 0 /\ g.savedStart = NULL /\ g.savedS = NULL
        /\ g.lastmatch = NoPos /\ g.matches = {}
    BY DEF IdleFrame
  <1>3. frame[t].req = NULL /\ Grows
    BY FrameOf, GraphStays DEF Enter, At, Scans, ThreadOK, StatesOK
  <1>4. SetFrame(t, g) /\ r \in Requests /\ r # NULL
    BY <1>1, Distinct
  <1> HIDE DEF g
  <1>5. frame'[t] = g /\ OthersStay(t)
    BY <1>3, <1>4, StepsAlone
  <1>6. ScansKept
    <2>1. ScanOK(t)'
      BY <1>2, <1>5, Distinct DEF ScanOK, Searching
    <2> QED BY <1>5, <2>1, OthersInView DEF ScansKept, Scans
  <1>7. View(t) = IdleView
    BY <1>3 DEF View, Searching
  <1>8. CASE op = "search"
    <2>1. View(t)' = [phase |-> "starting", req |-> r, cur |-> NULL, p |-> 0,
                      lastmatch |-> NoPos, matches |-> {}, result |-> NULL]
      BY <1>1, <1>2, <1>4, <1>5, <1>8, Distinct DEF View, Searching, Phase, Current
    <2>2. r \in A!SearchRequest
      BY <1>1, <1>8, Sorts DEF SearchRequest, RangeRequest, A!SearchRequest
    <2>3. Sees(t, View(t)')
      BY <1>5, SeesOneThread DEF Scans
    <2>4. A!Call(t)
      <3>1. /\ absPhase[t] = "idle" /\ absCur[t] = NULL /\ absP[t] = 0 /\ absLast[t] = NoPos
            /\ absMatches[t] = {} /\ absResult[t] = NULL
        BY <1>7, ViewNow DEF IdleView
      <3>2. /\ absPhase' = [absPhase EXCEPT ![t] = "starting"]
            /\ absReq' = [absReq EXCEPT ![t] = r]
        BY <2>1, <2>3 DEF Sees
      <3>3. /\ absCur' = [absCur EXCEPT ![t] = NULL] /\ absP' = [absP EXCEPT ![t] = 0]
            /\ absLast' = [absLast EXCEPT ![t] = NoPos]
            /\ absMatches' = [absMatches EXCEPT ![t] = {}]
            /\ absResult' = [absResult EXCEPT ![t] = NULL]
        BY <2>1, <2>3 DEF Sees
      <3>4. UNCHANGED <<absCur, absP, absLast, absMatches, absResult>>
        <4>1. /\ absCur = [u \in Thread |-> absCur[u]] /\ absP = [u \in Thread |-> absP[u]]
              /\ absLast = [u \in Thread |-> absLast[u]]
              /\ absMatches = [u \in Thread |-> absMatches[u]]
              /\ absResult = [u \in Thread |-> absResult[u]]
          BY DEF absCur, absP, absLast, absMatches, absResult
        <4> QED BY <3>1, <3>3, <4>1
      <3> QED BY <2>2, <3>1, <3>2, <3>4 DEF A!Call
    <2> QED BY <1>6, <2>4 DEF Implements, A!ANext
  <1>9. CASE op = "range"
    <2>1. View(t)' = View(t)
      BY <1>1, <1>2, <1>5, <1>7, <1>9 DEF View, Searching
    <2> QED
      BY <1>5, <1>6, <2>1, Unseen DEF Implements, Scans
  <1> QED BY <1>8, <1>9

\* The destructor of RWLocker is the return of the abstract search.
LEMMA ReturnImplements ==
  ASSUME Scans, NEW t \in Thread, Return(t)
  PROVE  Implements(t)
  <1>1. SetFrame(t, IdleFrame) /\ Grows /\ frame[t].pc = "done"
    BY GraphStays DEF Return, At, Scans
  <1>2. frame'[t] = IdleFrame /\ OthersStay(t)
    BY <1>1, StepsAlone
  <1>3. ScansKept /\ View(t)' = IdleView
    <2>1. ScanOK(t)' /\ View(t)' = IdleView
      BY <1>2 DEF ScanOK, View, Searching, IdleFrame
    <2> QED BY <1>2, <2>1, OthersInView DEF ScansKept, Scans
  <1>4. CASE Searching(t)
    <2>1. /\ frame[t].s = NULL /\ frame[t].savedS = NULL /\ Current(frame[t]) = NULL
          /\ frame[t].c = NULL /\ frame[t].p = 0 /\ frame[t].lastmatch = NoPos
          /\ frame[t].matches = {}
      <3>1. frame[t].s = NULL /\ frame[t].savedS = NULL
        BY <1>1, FrameOf DEF Scans, ThreadOK, StatesOK
      <3>2. Current(frame[t]) = NULL
        BY <3>1, Distinct DEF Current
      <3> QED BY <1>4, <3>1, <3>2 DEF ScanOK, Scans
    <2>2. /\ absPhase[t] = "done" /\ absCur[t] = NULL /\ absP[t] = 0 /\ absLast[t] = NoPos
          /\ absMatches[t] = {}
      BY <1>1, <1>4, <2>1, ViewNow DEF View, Phase
    <2>3. Sees(t, View(t)')
      BY <1>2, SeesOneThread DEF Scans
    <2>4. /\ absPhase' = [absPhase EXCEPT ![t] = "idle"]
          /\ absReq' = [absReq EXCEPT ![t] = NULL]
          /\ absResult' = [absResult EXCEPT ![t] = NULL]
      BY <1>3, <2>3 DEF Sees, IdleView
    <2>5. /\ absCur' = [absCur EXCEPT ![t] = NULL] /\ absP' = [absP EXCEPT ![t] = 0]
          /\ absLast' = [absLast EXCEPT ![t] = NoPos]
          /\ absMatches' = [absMatches EXCEPT ![t] = {}]
      BY <1>3, <2>3 DEF Sees, IdleView
    <2>6. UNCHANGED <<absCur, absP, absLast, absMatches>>
      <3>1. /\ absCur = [u \in Thread |-> absCur[u]] /\ absP = [u \in Thread |-> absP[u]]
            /\ absLast = [u \in Thread |-> absLast[u]]
            /\ absMatches = [u \in Thread |-> absMatches[u]]
        BY DEF absCur, absP, absLast, absMatches
      <3> QED BY <2>2, <2>5, <3>1
    <2>7. A!Return(t)
      BY <2>2, <2>4, <2>6 DEF A!Return
    <2> QED BY <1>3, <2>7 DEF Implements, A!ANext
  <1>5. CASE ~Searching(t)
    <2>1. View(t)' = View(t)
      BY <1>3, <1>5 DEF View
    <2> QED
      BY <1>2, <1>3, <2>1, Unseen DEF Implements, Scans
  <1> QED BY <1>4, <1>5

\* The contents a thread with the frame f stands for after the step.
CurrentNext(f) ==
  IF f.savedS # NULL THEN f.savedS ELSE IF f.s \in Addr THEN content'[f.s] ELSE NULL

\* Steps that take locks, fill or reset the cache, or rebuild what was saved: the
\* abstract search stands still.  The frame changes only in the fields named.
LEMMA QuietStep ==
  ASSUME Scans, NEW t \in Thread, NEW g, SetFrame(t, g), Grows \/ writer = t,
         g.req = frame[t].req, g.c = frame[t].c, g.p = frame[t].p,
         g.lastmatch = frame[t].lastmatch, g.matches = frame[t].matches,
         g.result = frame[t].result,
         frame[t].pc \notin {"idle", "done", "walk"}, g.pc \notin {"done", "walk"},
         g.pc = "loop" => frame[t].pc = "loop",
         Searching(t) => CurrentNext(g) = Current(frame[t]),
         Searching(t) /\ g.start \in Addr => content'[g.start] = StartOf[g.req.kind],
         Searching(t) /\ g.savedStart # NULL => g.savedStart = StartOf[g.req.kind]
  PROVE  Implements(t)
  <1>1. CASE ~Searching(t)
    BY <1>1, WalkUnseen DEF Implements
  <1>2. CASE Searching(t)
    <2>1. ASSUME frame'[t] = g PROVE View(t)' = View(t) /\ ScanOK(t)'
      <3>1. Searching(t)' /\ Current(frame[t])' = Current(frame[t])
        BY <1>2, <2>1 DEF Searching, Current, CurrentNext
      <3>2. View(t)' = View(t)
        BY <1>2, <2>1, <3>1 DEF View, Phase
      <3>3. ScanOK(t)
        BY DEF Scans
      <3>4. ScanOK(t)'
        BY <1>2, <2>1, <3>1, <3>3 DEF ScanOK
      <3> QED BY <3>2, <3>4
    <2> QED BY <2>1, StandsStill DEF Implements
  <1> QED BY <1>1, <1>2

\* What QuietStep asks of a thread that keeps its states, in a cache that grows.
LEMMA KeepsStates ==
  ASSUME Scans, NEW t \in Thread, Grows, NEW g,
         g.start = frame[t].start, g.s = frame[t].s, g.req = frame[t].req,
         g.savedStart = frame[t].savedStart, g.savedS = frame[t].savedS, Searching(t)
  PROVE  /\ CurrentNext(g) = Current(frame[t])
         /\ g.start \in Addr => content'[g.start] = StartOf[g.req.kind]
         /\ g.savedStart # NULL => g.savedStart = StartOf[g.req.kind]
  <1>1. \A a \in {frame[t].start, frame[t].s} : a \in Addr => content'[a] = content[a]
    BY Held DEF Grows, Scans
  <1>2. ScanOK(t)
    BY DEF Scans
  <1> QED BY <1>1, <1>2 DEF Current, CurrentNext, ScanOK

\* A step that moves only the program counter.
LEMMA JumpImplements ==
  ASSUME Scans, NEW t \in Thread, NEW pc \in Pcs, Goto(t, pc), Grows,
         frame[t].pc \notin {"idle", "done", "walk"}, pc \notin {"done", "walk", "loop"}
  PROVE  Implements(t)
  <1> DEFINE g == [frame[t] EXCEPT !.pc = pc]
  <1>1. frame[t] \in Frames
    BY FrameOf DEF Scans
  <1>2. /\ g.pc = pc /\ g.req = frame[t].req /\ g.c = frame[t].c /\ g.p = frame[t].p
        /\ g.lastmatch = frame[t].lastmatch /\ g.matches = frame[t].matches
        /\ g.result = frame[t].result /\ g.start = frame[t].start /\ g.s = frame[t].s
        /\ g.savedStart = frame[t].savedStart /\ g.savedS = frame[t].savedS
    BY <1>1 DEF Frames
  <1>3. SetFrame(t, g)
    BY DEF Goto
  <1> HIDE DEF g
  <1> QED BY <1>2, <1>3, QuietStep, KeepsStates

LEMMA QuickCheckImplements ==
  ASSUME Scans, NEW t \in Thread, QuickCheck(t) PROVE Implements(t)
  <1> DEFINE pc == IF startInfo[frame[t].req.kind] # NULL THEN "begin" ELSE "fillStart"
  <1>1. Goto(t, pc) /\ Grows /\ frame[t].pc = "analyze"
    BY GraphStays DEF QuickCheck, At, Scans
  <1>2. pc \in Pcs /\ pc \notin {"done", "walk", "loop"}
    BY PcsAre
  <1> HIDE DEF pc
  <1> QED BY <1>1, <1>2, JumpImplements

LEMMA DropReaderLockImplements ==
  ASSUME Scans, NEW t \in Thread, DropReaderLock(t) PROVE Implements(t)
  <1> DEFINE pc == IF writer = t THEN "clear" ELSE "wantWrite"
  <1>1. Goto(t, pc) /\ Grows /\ frame[t].pc = "reset"
    BY GraphStays DEF DropReaderLock, At, Scans
  <1>2. pc \in Pcs /\ pc \notin {"done", "walk", "loop"}
    BY PcsAre
  <1> HIDE DEF pc
  <1> QED BY <1>1, <1>2, JumpImplements

LEMMA WriterLockImplements ==
  ASSUME Scans, NEW t \in Thread, WriterLock(t) PROVE Implements(t)
  <1>1. Goto(t, "clear") /\ Grows /\ frame[t].pc = "wantWrite"
    BY GraphStays DEF WriterLock, At, Scans
  <1> QED BY <1>1, PcsAre, JumpImplements

\* No call ends in LOG(DFATAL).
LEMMA NotFatal ==
  ASSUME Scans, NEW t \in Thread, Finish(t, Fatal) PROVE FALSE
  <1>1. frame'[t].result = Fatal
    BY DEF Finish, SetFrame, Scans, IInv, TypeOK, IdleFrame
  <1>2. frame'[t].result # Fatal
    BY DEF Scans, IInv, RoomOK
  <1> QED BY <1>1, <1>2

LEMMA FillStartImplements ==
  ASSUME Scans, NEW t \in Thread, FillStart(t) PROVE Implements(t)
  <1> DEFINE f == frame[t]
             k == f.req.kind
             g == [f EXCEPT !.pc = "begin", !.afterReset = FALSE]
  <1>1. PICK ptr \in Ptr :
       /\ IF startInfo[k] # NULL
          THEN ptr = startInfo[k] /\ UNCHANGED graph
          ELSE /\ WorkqToCachedState(StartOf[k], ptr)
               /\ startInfo' = [startInfo EXCEPT ![k] = ptr]
               /\ UNCHANGED next
       /\ SetFrame(t, g) \/ Goto(t, "reset") \/ Finish(t, Fatal)
    BY DEF FillStart
  <1>2. f \in Frames /\ f.pc = "fillStart" /\ k \in StartKind
    BY FrameOf, RequestKind DEF FillStart, At, ThreadOK, IInv, Scans
  <1>3. Grows
    BY <1>1, <1>2, FillKeepsGraph, GraphStays, GraphNow DEF Scans
  <1>4. CASE SetFrame(t, g)
    <2>1. /\ g.pc = "begin" /\ g.req = f.req /\ g.c = f.c /\ g.p = f.p
          /\ g.lastmatch = f.lastmatch /\ g.matches = f.matches
          /\ g.result = f.result /\ g.start = f.start /\ g.s = f.s
          /\ g.savedStart = f.savedStart /\ g.savedS = f.savedS
      BY <1>2 DEF Frames
    <2> HIDE DEF g
    <2> QED BY <1>2, <1>3, <1>4, <2>1, QuietStep, KeepsStates
  <1>5. CASE Goto(t, "reset")
    BY <1>2, <1>3, <1>5, PcsAre, JumpImplements
  <1> QED BY <1>1, <1>4, <1>5, NotFatal

\* A reset leaves the thread with what it has saved.
LEMMA ClearCacheImplements ==
  ASSUME Scans, NEW t \in Thread, ClearCache(t) PROVE Implements(t)
  <1> DEFINE f == frame[t]
             pc == IF f.savedS = NULL THEN "analyze"
                   ELSE IF f.savedStart = NULL THEN "restoreS" ELSE "restoreStart"
             g == [f EXCEPT !.afterReset = TRUE, !.pc = pc]
  <1>1. /\ f \in Frames /\ f.pc = "clear" /\ writer = t /\ SetFrame(t, g)
        /\ f.start = NULL /\ f.s = NULL
    BY FrameOf DEF ClearCache, At, Scans, ThreadOK, LocksOK, StatesOK, AfterClear
  <1>2. /\ g.pc = pc /\ g.req = f.req /\ g.c = f.c /\ g.p = f.p
        /\ g.lastmatch = f.lastmatch /\ g.matches = f.matches
        /\ g.result = f.result /\ g.start = NULL /\ g.s = NULL
        /\ g.savedStart = f.savedStart /\ g.savedS = f.savedS
        /\ pc \notin {"done", "walk", "loop"}
    BY <1>1 DEF Frames
  <1> HIDE DEF g, pc
  <1>3. CurrentNext(g) = Current(frame[t])
    BY <1>1, <1>2, Distinct DEF Current, CurrentNext
  <1>4. Searching(t) /\ g.savedStart # NULL => g.savedStart = StartOf[g.req.kind]
    BY <1>2 DEF Scans, ScanOK
  <1> QED BY <1>1, <1>2, <1>3, <1>4, Distinct, QuietStep

\* start is rebuilt from its saved contents, which are those of the start state.
LEMMA RestoreStartImplements ==
  ASSUME Scans, NEW t \in Thread, RestoreStart(t) PROVE Implements(t)
  <1> DEFINE f == frame[t]
             k == f.savedStart
  <1>1. PICK ptr \in Ptr :
          /\ CachedState(k, ptr)
          /\ IF ptr = NULL THEN Finish(t, Fatal)
             ELSE SetFrame(t, [f EXCEPT !.pc = "restoreS", !.start = ptr, !.savedStart = NULL])
    BY DEF RestoreStart
  <1>2. /\ f \in Frames /\ f.pc = "restoreStart" /\ k \in Key /\ f.s = NULL /\ f.savedS # NULL
        /\ UNCHANGED <<next, startInfo>>
    BY FrameOf DEF RestoreStart, At, Scans, ThreadOK, StatesOK, Frames
  <1>3. ptr # NULL
    BY <1>1, NotFatal
  <1>4. Grows /\ content'[ptr] = k
    BY <1>1, <1>2, <1>3, GraphNow, CachedStateKeepsGraph, CachedStateFinds DEF Scans
  <1> DEFINE g == [f EXCEPT !.pc = "restoreS", !.start = ptr, !.savedStart = NULL]
  <1>5. SetFrame(t, g)
    BY <1>1, <1>3
  <1>6. /\ g.pc = "restoreS" /\ g.req = f.req /\ g.c = f.c /\ g.p = f.p
        /\ g.lastmatch = f.lastmatch /\ g.matches = f.matches
        /\ g.result = f.result /\ g.start = ptr /\ g.s = f.s
        /\ g.savedStart = NULL /\ g.savedS = f.savedS
    BY <1>2 DEF Frames
  <1> HIDE DEF g
  <1>7. CurrentNext(g) = Current(f)
    BY <1>2, <1>6 DEF CurrentNext, Current
  <1>8. Searching(t) => k = StartOf[f.req.kind]
    BY <1>2, Distinct DEF Scans, ScanOK
  <1> QED BY <1>2, <1>4, <1>5, <1>6, <1>7, <1>8, QuietStep

\* s is rebuilt from its saved contents.
LEMMA RestoreSImplements ==
  ASSUME Scans, NEW t \in Thread, RestoreS(t) PROVE Implements(t)
  <1> DEFINE f == frame[t]
             k == f.savedS
  <1>1. PICK ptr \in Ptr :
          /\ CachedState(k, ptr)
          /\ IF ptr = NULL THEN Finish(t, Fatal)
             ELSE SetFrame(t, [f EXCEPT !.pc = "run", !.s = ptr, !.savedS = NULL])
    BY DEF RestoreS
  <1>2. /\ f \in Frames /\ f.pc = "restoreS" /\ k \in Key /\ f.savedStart = NULL
        /\ UNCHANGED <<next, startInfo>>
    BY FrameOf DEF RestoreS, At, Scans, ThreadOK, StatesOK, Frames
  <1>3. ptr # NULL
    BY <1>1, NotFatal
  <1>4. Grows /\ content'[ptr] = k /\ ptr \in Addr
    BY <1>1, <1>2, <1>3, GraphNow, CachedStateKeepsGraph, CachedStateFinds DEF Scans
  <1> DEFINE g == [f EXCEPT !.pc = "run", !.s = ptr, !.savedS = NULL]
  <1>5. SetFrame(t, g)
    BY <1>1, <1>3
  <1>6. /\ g.pc = "run" /\ g.req = f.req /\ g.c = f.c /\ g.p = f.p
        /\ g.lastmatch = f.lastmatch /\ g.matches = f.matches
        /\ g.result = f.result /\ g.start = f.start /\ g.s = ptr
        /\ g.savedStart = NULL /\ g.savedS = NULL
    BY <1>2 DEF Frames
  <1> HIDE DEF g
  <1>7. CurrentNext(g) = Current(f)
    BY <1>2, <1>4, <1>6, Distinct DEF CurrentNext, Current
  <1>8. Searching(t) /\ f.start \in Addr => content'[f.start] = StartOf[f.req.kind]
    BY <1>4, Held DEF Scans, ScanOK, Grows
  <1> QED BY <1>2, <1>4, <1>5, <1>6, <1>7, <1>8, QuietStep

\* Out of memory: the search gives up, or saves the contents it stands for.
LEMMA OutOfMemoryImplements ==
  ASSUME Scans, NEW t \in Thread, OutOfMemory(t) PROVE Implements(t)
  <1> DEFINE f == frame[t]
             inText == f.p <= f.req.n
             g == [f EXCEPT !.pc = "reset",
                            !.resetp = IF inText THEN f.p ELSE @,
                            !.savedStart = IF inText THEN content[f.start] ELSE NULL,
                            !.savedS = content[f.s],
                            !.start = NULL, !.s = NULL]
  <1>1. /\ f \in Frames /\ f.pc = "oom" /\ Grows
        /\ f.s \in Addr /\ (inText => f.start \in Addr) /\ f.savedS = NULL
    BY FrameOf, GraphStays DEF OutOfMemory, At, Scans, ThreadOK, StatesOK
  <1>2. content[f.s] \in Key /\ content[f.s] # NULL
    BY <1>1, Held, Distinct DEF Scans
  <1>3. Current(f) = content[f.s]
    BY <1>1 DEF Current
  <1>4. CASE inText /\ TooSlow(f)
    <2>1. Finish(t, GaveUp) /\ ~ManyMatch
      BY <1>4 DEF OutOfMemory, TooSlow
    <2>2. GaveUp # Fatal
      <3>1. GaveUp \in Results
        BY DEF GaveUp, Results
      <3> QED BY <3>1, Distinct
    <2>3. CASE Searching(t)
      <3>1. ScansKept /\ A!Finish(t, GaveUp)
        BY <1>1, <2>1, <2>2, <2>3, FinishEnds
      <3>2. absPhase[t] = "scanning"
        BY <1>1, <1>2, <1>3, <2>3, ViewNow DEF View, Phase
      <3>3. A!GiveUp(t)
        BY <2>1, <3>1, <3>2 DEF A!GiveUp, A!GaveUp, GaveUp
      <3> QED BY <3>1, <3>3 DEF Implements, A!ANext
    <2>4. CASE ~Searching(t)
      <3> DEFINE h == [IdleFrame EXCEPT !.pc = "done", !.req = f.req, !.result = GaveUp]
      <3>1. SetFrame(t, h) /\ h.req = f.req
        BY <2>1 DEF Finish, IdleFrame
      <3> HIDE DEF h
      <3> QED BY <1>1, <2>4, <3>1, WalkUnseen DEF Implements
    <2> QED BY <2>3, <2>4
  <1>5. CASE ~(inText /\ TooSlow(f))
    <2>1. SetFrame(t, g)
      BY <1>5 DEF OutOfMemory
    <2>2. /\ g.pc = "reset" /\ g.req = f.req /\ g.c = f.c /\ g.p = f.p
          /\ g.lastmatch = f.lastmatch /\ g.matches = f.matches
          /\ g.result = f.result /\ g.start = NULL /\ g.s = NULL
          /\ g.savedStart = (IF inText THEN content[f.start] ELSE NULL)
          /\ g.savedS = content[f.s]
      BY <1>1 DEF Frames
    <2> HIDE DEF g
    <2>3. CurrentNext(g) = Current(f)
      BY <1>2, <1>3, <2>2 DEF CurrentNext
    <2>4. Searching(t) /\ g.savedStart # NULL => g.savedStart = StartOf[g.req.kind]
      BY <1>1, <2>2 DEF Scans, ScanOK
    <2> QED
      BY <1>1, <2>1, <2>2, <2>3, <2>4, Distinct, QuietStep
  <1> QED BY <1>4, <1>5

-----------------------------------------------------------------------------
(***************************************************************************)
(* The range walk shows nothing.                                           *)
(***************************************************************************)
LEMMA WalkStep ==
  ASSUME Scans, NEW t \in Thread, ~Searching(t), Grows,
         \/ \E g : SetFrame(t, g) /\ g.req = frame[t].req
         \/ \E r : Finish(t, r)
  PROVE  Implements(t)
  <1>1. CASE \E g : SetFrame(t, g) /\ g.req = frame[t].req
    BY <1>1, WalkUnseen DEF Implements
  <1>2. CASE \E r : Finish(t, r)
    <2>1. PICK r : Finish(t, r)
      BY <1>2
    <2> DEFINE g == [IdleFrame EXCEPT !.pc = "done", !.req = frame[t].req, !.result = r]
    <2>2. SetFrame(t, g) /\ g.req = frame[t].req
      BY <2>1 DEF Finish, IdleFrame
    <2> HIDE DEF g
    <2> QED BY <2>2, WalkUnseen DEF Implements
  <1> QED BY <1>1, <1>2

LEMMA PassKeepsRequest ==
  ASSUME NEW f \in Frames, NEW pass PROVE StartPass(f, pass).req = f.req
  BY DEF StartPass, Frames

LEMMA EndPassStep ==
  ASSUME NEW t \in Thread, frame[t] \in Frames, EndPass(t)
  PROVE  (\E g : SetFrame(t, g) /\ g.req = frame[t].req) \/ (\E r : Finish(t, r))
  BY PassKeepsRequest DEF EndPass, FinishRange

LEMMA BeginRangeImplements ==
  ASSUME Scans, NEW t \in Thread, BeginRange(t) PROVE Implements(t)
  <1> DEFINE f == frame[t]
             s == startInfo[f.req.kind]
             e == [f EXCEPT !.start = s]
  <1>1. f \in Frames /\ Grows /\ ~Searching(t)
    BY FrameOf, GraphStays DEF BeginRange, Scans, Searching
  <1>2. CASE s \in Special
    BY <1>1, <1>2, WalkStep DEF BeginRange
  <1>3. CASE s \notin Special
    <2>1. SetFrame(t, StartPass(e, "min"))
      BY <1>3 DEF BeginRange
    <2>2. StartPass(e, "min").req = f.req
      BY <1>1 DEF StartPass, Frames
    <2> QED BY <1>1, <2>1, <2>2, WalkStep
  <1> QED BY <1>2, <1>3

\* A thread in a walk is not in a search.
LEMMA WalkersDoNotSearch ==
  ASSUME Scans, NEW t \in Thread, frame[t].pc = "walk"
  PROVE  ~Searching(t) /\ frame[t] \in Frames
  BY FrameOf DEF Scans, ScanOK

LEMMA WalkHeadImplements ==
  ASSUME Scans, NEW t \in Thread, WalkHead(t) PROVE Implements(t)
  <1> DEFINE f == frame[t]
             g == [f EXCEPT !.seen = @ \cup {f.s},
                            !.todo = IF f.pass = "min" THEN Input ELSE Class]
  <1>1. f \in Frames /\ Grows /\ ~Searching(t)
    BY WalkersDoNotSearch, GraphStays DEF WalkHead, At, Scans
  <1>2. EndPass(t) \/ SetFrame(t, g)
    BY DEF WalkHead
  <1>3. g.req = f.req
    BY <1>1 DEF Frames
  <1> QED BY <1>1, <1>2, <1>3, EndPassStep, WalkStep

LEMMA WalkByteImplements ==
  ASSUME Scans, NEW t \in Thread, WalkByte(t) PROVE Implements(t)
  <1> DEFINE f == frame[t]
             Goes(ns) == [f EXCEPT !.s = ns, !.p = @ + 1, !.todo = {}]
             Skips(x) == [f EXCEPT !.todo = @ \ {x}]
  <1>1. f \in Frames /\ ThreadOK(t) /\ ~Searching(t) /\ f.pc = "walk"
    BY WalkersDoNotSearch, FrameOf DEF WalkByte, At, Scans
  <1>2. PICK x \in f.todo, ns \in Ptr :
          /\ RunStateOnByte(f.s, x, ns)
          /\ \/ EndPass(t)
             \/ \E r : Finish(t, r)
             \/ SetFrame(t, Goes(ns))
             \/ SetFrame(t, Skips(x))
    BY DEF WalkByte, FinishRange
  <1>3. Grows
    <2>1. CASE f.s = FullMatchState
      <3>1. UNCHANGED graph
        BY <1>2, <2>1 DEF RunStateOnByte
      <3> QED BY <3>1, GraphStays DEF Scans
    <2>2. CASE f.s # FullMatchState
      <3>1. f.s \in Live /\ x \in Input
        BY <1>1, <2>2 DEF ThreadOK, StatesOK, Frames
      <3> QED
        BY <1>2, <3>1, RunKeepsGraph, GraphNow DEF Scans
    <2> QED BY <2>1, <2>2
  <1>4. Goes(ns).req = f.req /\ Skips(x).req = f.req
    BY <1>1 DEF Frames
  <1> QED BY <1>1, <1>2, <1>3, <1>4, EndPassStep, WalkStep

-----------------------------------------------------------------------------
(***************************************************************************)
(* The steps of the scan.                                                  *)
(***************************************************************************)

\* What is noted on arrival is what the abstract search notes.
LEMMA NotesSame ==
  ASSUME NEW f \in Frames, NEW k, NEW pos
  PROVE  /\ Noted(f, k, pos).lastmatch = A!LastMatch(k, pos, f.lastmatch)
         /\ Noted(f, k, pos).matches = A!Matches(f.req, k, f.matches)
  BY DEF Noted, Frames, A!LastMatch, A!Matches

\* The abstract start goes by the contents of the start state.
LEMMA BeginImplements ==
  ASSUME Scans, NEW t \in Thread, Begin(t) PROVE Implements(t)
  <1> DEFINE f == frame[t]
             s == startInfo[f.req.kind]
             k == StartOf[f.req.kind]
             g == Noted(f, content[s], 0)
  <1>1. /\ f.pc = "begin" /\ UNCHANGED graph /\ Grows /\ Searching(t) /\ ScanOK(t)
    <2>1. f.pc = "begin"
      BY DEF Begin, At
    <2>2. f.req # NULL
      BY <2>1, FrameOf DEF Scans, ThreadOK, StatesOK
    <2> QED
      BY <2>1, <2>2, GraphStays DEF Begin, Scans, Searching
  <1>2. /\ f \in Frames /\ ThreadOK(t) /\ f.req.kind \in StartKind /\ f.req.n \in Nat
        /\ f.req.earliest \in BOOLEAN /\ Forward \in BOOLEAN
        /\ k \in Contents /\ View(t).req = f.req
    BY <1>1, SearchFacts, Sorts DEF Scans
  <1>3. s # NULL /\ Leads(s, k)
    BY <1>1, <1>2 DEF ThreadOK, StatesOK, Scans, IInv, GraphSound
  <1>4. /\ f.s = NULL /\ f.savedS = NULL /\ f.savedStart = NULL /\ Current(f) = NULL
        /\ f.p = 0 /\ f.c = NULL /\ f.lastmatch = NoPos /\ f.matches = {} /\ f.result = NULL
    <2>1. f.s = NULL /\ f.savedS = NULL /\ f.savedStart = NULL
      BY <1>1, <1>2 DEF ThreadOK, StatesOK
    <2>2. Current(f) = NULL
      BY <2>1, Distinct DEF Current
    <2> QED BY <1>1, <2>1, <2>2 DEF ScanOK
  <1>5. absPhase[t] = "starting" /\ absReq[t] = f.req
    BY <1>1, <1>2, <1>4, ViewNow DEF View, Phase
  <1>6. ASSUME NEW r \in Results, Finish(t, r) PROVE ScansKept /\ A!Finish(t, r)
    BY <1>1, <1>6, FinishEnds, Distinct
  <1>7. CASE s = DeadState
    <2>1. Finish(t, Answer(FALSE, NoPos, {})) /\ k = DeadState
      BY <1>1, <1>3, <1>7, Distinct DEF Begin, Special, Leads, Live
    <2>2. Answer(FALSE, NoPos, {}) \in Results
      BY DEF Answer, Results
    <2>3. ScansKept /\ A!Finish(t, Answer(FALSE, NoPos, {}))
      BY <1>6, <2>1, <2>2
    <2>4. k # FullMatchState /\ k \notin MatchKey
      BY <2>1, Sorts, Distinct DEF Special
    <2>5. A!Start(t)
      BY <1>5, <2>1, <2>3, <2>4 DEF A!Start, A!Answer, Answer
    <2> QED BY <2>3, <2>5 DEF Implements, A!ANext
  <1>8. CASE s = FullMatchState
    <2> DEFINE ep == IF f.req.earliest THEN 0 ELSE f.req.n
    <2>1. /\ Finish(t, Answer(TRUE, IF Forward = f.req.earliest THEN TextBegin(f.req)
                                                               ELSE TextEnd(f.req), {}))
          /\ k = FullMatchState /\ k # DeadState /\ k \notin MatchKey
      BY <1>1, <1>3, <1>8, Distinct, Sorts DEF Begin, Special, Leads, Live
    <2>2. (IF Forward = f.req.earliest THEN TextBegin(f.req) ELSE TextEnd(f.req)) = ep
      BY <1>2 DEF TextBegin, TextEnd
    <2>3. Finish(t, Answer(TRUE, ep, {})) /\ ep \in Nat
      BY <1>2, <2>1, <2>2
    <2> HIDE DEF ep
    <2>4. Answer(TRUE, ep, {}) \in Results
      BY <2>3 DEF Answer, Results
    <2>5. ScansKept /\ A!Finish(t, Answer(TRUE, ep, {}))
      BY <1>6, <2>3, <2>4
    <2>6. A!Start(t)
      BY <1>5, <2>1, <2>5 DEF A!Start, A!Answer, Answer, ep
    <2> QED BY <2>5, <2>6 DEF Implements, A!ANext
  <1>9. CASE s \notin Special
    <2>1. s \in Live /\ s \in Addr /\ content[s] = k /\ k \in Key /\ k \notin Special
      BY <1>2, <1>3, <1>9 DEF Leads, Live, Contents
    <2>2. k # DeadState /\ k # FullMatchState
      BY <2>1 DEF Special
    <2>3. g \in Frames /\ OnlyNotes(f, g)
      BY <1>2, NotedType
    <2>4. g.lastmatch = A!LastMatch(k, 0, NoPos) /\ g.matches = A!Matches(f.req, k, {})
      BY <1>2, <1>4, <2>1, NotesSame
    <2>5. CASE k \in MatchKey /\ f.req.earliest
      <3>1. Finish(t, Answer(TRUE, g.lastmatch, g.matches))
        BY <2>1, <2>2, <2>5, <1>9 DEF Begin, IsMatch, Special
      <3>2. g.lastmatch = 0 /\ g.matches = {}
        BY <2>4, <2>5 DEF A!LastMatch, A!Matches
      <3>3. Answer(TRUE, 0, {}) \in Results
        BY DEF Answer, Results
      <3>4. ScansKept /\ A!Finish(t, Answer(TRUE, 0, {}))
        BY <1>6, <3>1, <3>2, <3>3
      <3>5. A!Start(t)
        BY <1>5, <2>2, <2>5, <3>4 DEF A!Start, A!Answer, Answer
      <3> QED BY <3>4, <3>5 DEF Implements, A!ANext
    <2>6. CASE ~(k \in MatchKey /\ f.req.earliest)
      <3> DEFINE h == [g EXCEPT !.pc = "loop", !.start = s, !.s = s]
      <3>1. SetFrame(t, h)
        BY <2>1, <2>2, <2>6, <1>9, Distinct DEF Begin, IsMatch, Special
      <3>2. /\ h.pc = "loop" /\ h.start = s /\ h.s = s /\ h.req = f.req /\ h.p = f.p
            /\ h.savedS = f.savedS /\ h.savedStart = f.savedStart /\ h.c = f.c
            /\ h.result = f.result /\ h.lastmatch = g.lastmatch /\ h.matches = g.matches
        BY <1>2, <2>3 DEF Frames, OnlyNotes
      <3>3. content'[s] = k
        BY <1>1, <2>1 DEF graph
      <3> HIDE DEF h, g, s, k, f
      <3>4. ScansKept /\ A!Continue(t, k, 0, h.lastmatch, h.matches)
        <4>1. ScansKept /\ A!Continue(t, k, h.p, h.lastmatch, h.matches)
          BY <1>1, <1>4, <2>1, <3>1, <3>2, <3>3, GoesOn DEF f, k
        <4> QED BY <1>4, <3>2, <4>1
      <3>5. A!Start(t)
        BY <1>5, <2>2, <2>4, <2>6, <3>2, <3>4 DEF A!Start, k
      <3> QED BY <3>4, <3>5 DEF Implements, A!ANext
    <2> QED BY <2>5, <2>6
  <1> QED BY <1>7, <1>8, <1>9 DEF Special

\* Reading an input shows only as the jump over the inputs before it.
LEMMA NextByteImplements ==
  ASSUME Scans, NEW t \in Thread, NextByte(t) PROVE Implements(t)
  <1> DEFINE f == frame[t]
             accel == f.p < f.req.n /\ f.s = f.start /\ f.req.kind \in AccelKind
  <1>1. PICK q \in IF accel THEN f.p .. f.req.n ELSE {f.p} :
          \E x \in IF q = f.req.n THEN Input
                   ELSE IF accel THEN Class \ SkipClass ELSE Class :
            SetFrame(t, [f EXCEPT !.pc = "load", !.c = x, !.p = q + 1])
    BY DEF NextByte
  <1>2. PICK x \in Input :
          /\ q # f.req.n => x \in Class
          /\ SetFrame(t, [f EXCEPT !.pc = "load", !.c = x, !.p = q + 1])
    BY <1>1 DEF Input
  <1> DEFINE g == [f EXCEPT !.pc = "load", !.c = x, !.p = q + 1]
  <1>3. /\ f \in Frames /\ f.pc = "loop" /\ Grows /\ ThreadOK(t) /\ ScanOK(t) /\ UNCHANGED graph
        /\ x # NULL /\ SetFrame(t, g)
    BY <1>2, FrameOf, GraphStays, Distinct DEF NextByte, At, Scans
  <1>4. /\ g.pc = "load" /\ g.req = f.req /\ g.c = x /\ g.p = q + 1
        /\ g.lastmatch = f.lastmatch /\ g.matches = f.matches
        /\ g.result = f.result /\ g.start = f.start /\ g.s = f.s
        /\ g.savedStart = f.savedStart /\ g.savedS = f.savedS
    BY <1>3 DEF Frames
  <1> HIDE DEF g
  <1>5. CASE ~Searching(t)
    BY <1>3, <1>4, <1>5, WalkStep
  <1>6. CASE Searching(t)
    <2>1. /\ f.s \in Addr /\ f.savedS = NULL /\ f.savedStart = NULL /\ f.p <= f.req.n
          /\ f.p \in Nat /\ f.req.n \in Nat /\ f.c = NULL /\ f.result = NULL
          /\ content[f.s] # NULL /\ content'[f.s] = content[f.s]
          /\ f.start \in Addr => content'[f.start] = content[f.start]
      <3>1. f.req.n \in Nat
        BY <1>3, <1>6, SearchFacts DEF Scans
      <3>2. f.s \in Addr /\ f.savedS = NULL /\ f.savedStart = NULL /\ f.p <= f.req.n /\ f.p \in Nat
        BY <1>3 DEF ThreadOK, StatesOK, Frames
      <3>3. f.c = NULL /\ f.result = NULL
        BY <1>3, <1>6 DEF ScanOK
      <3> QED BY <1>3, <3>1, <3>2, <3>3, Held, Distinct DEF Scans, Grows
    <2>2. q \in f.p .. f.req.n /\ q + 1 - 1 = q /\ q \in Nat /\ (q # f.p => accel)
      BY <1>1, <2>1
    <2>3. ASSUME frame'[t] = g PROVE ScanOK(t)'
      <3>1. Searching(t)' /\ CurrentNext(g) # NULL
        BY <1>4, <1>6, <2>1, <2>3 DEF Searching, CurrentNext
      <3> QED
        BY <1>2, <1>3, <1>4, <1>6, <2>1, <2>2, <2>3, <3>1 DEF ScanOK, Current, CurrentNext
    <2>4. View(t) = [phase |-> "scanning", req |-> f.req, cur |-> content[f.s], p |-> f.p,
                     lastmatch |-> f.lastmatch, matches |-> f.matches, result |-> NULL]
      BY <1>3, <1>6, <2>1 DEF View, Phase, Current
    <2>5. ASSUME frame'[t] = g
          PROVE  View(t)' = [phase |-> "scanning", req |-> f.req, cur |-> content[f.s], p |-> q,
                             lastmatch |-> f.lastmatch, matches |-> f.matches, result |-> NULL]
      BY <1>3, <1>4, <1>6, <2>1, <2>2, <2>5 DEF View, Phase, Current, Searching
    <2>6. CASE q = f.p
      BY <1>3, <2>3, <2>4, <2>5, <2>6, StandsStill DEF Implements
    <2>7. CASE q # f.p
      <3>1. frame'[t] = g /\ OthersStay(t)
        BY <1>3, StepsAlone
      <3> DEFINE v == [phase |-> "scanning", req |-> f.req, cur |-> content[f.s], p |-> q,
                       lastmatch |-> f.lastmatch, matches |-> f.matches, result |-> NULL]
      <3>2. Sees(t, v)
        <4>1. View(t)' = v
          BY <2>5, <3>1
        <4> HIDE DEF v
        <4> QED BY <3>1, <4>1, SeesOneThread DEF Scans
      <3>3. /\ absPhase[t] = "scanning" /\ absReq[t] = f.req /\ absCur[t] = content[f.s]
            /\ absP[t] = f.p /\ absLast[t] = f.lastmatch /\ absMatches[t] = f.matches
            /\ absResult[t] = NULL
        BY <2>4, ViewNow
      <3>4. absP' = [absP EXCEPT ![t] = q] /\ absPhase' = [absPhase EXCEPT ![t] = "scanning"]
            /\ absReq' = [absReq EXCEPT ![t] = f.req]
        BY <3>2 DEF Sees
      <3>5. /\ absCur' = [absCur EXCEPT ![t] = content[f.s]]
            /\ absLast' = [absLast EXCEPT ![t] = f.lastmatch]
            /\ absMatches' = [absMatches EXCEPT ![t] = f.matches]
            /\ absResult' = [absResult EXCEPT ![t] = NULL]
        BY <3>2 DEF Sees
      <3>6. UNCHANGED <<absPhase, absReq, absCur, absLast, absMatches, absResult>>
        <4>1. /\ absPhase = [u \in Thread |-> absPhase[u]] /\ absReq = [u \in Thread |-> absReq[u]]
              /\ absCur = [u \in Thread |-> absCur[u]] /\ absLast = [u \in Thread |-> absLast[u]]
              /\ absMatches = [u \in Thread |-> absMatches[u]]
              /\ absResult = [u \in Thread |-> absResult[u]]
          BY DEF absPhase, absReq, absCur, absLast, absMatches, absResult
        <4> QED BY <3>3, <3>4, <3>5, <4>1
      <3>7. f.req.kind \in AccelKind /\ content[f.s] = StartOf[f.req.kind] /\ q \in (f.p + 1) .. f.req.n
        BY <1>3, <1>6, <2>1, <2>2, <2>7 DEF ScanOK
      <3>8. A!Skip(t)
        BY <3>3, <3>4, <3>6, <3>7 DEF A!Skip
      <3>9. ScansKept
        BY <2>3, <3>1, OthersInView DEF ScansKept, Scans
      <3> QED BY <3>8, <3>9 DEF Implements, A!ANext
    <2> QED BY <2>6, <2>7
  <1> QED BY <1>5, <1>6

\* An edge leads where the automaton says: the thread does what the abstract
\* scan does with the input it has read.
LEMMA ArriveImplements ==
  ASSUME Scans, NEW t \in Thread, Searching(t), frame[t].pc \in {"load", "run"},
         NEW ns \in Ptr \ {NULL},
         Arrive(t, ns, IF ns \in Addr THEN content'[ns] ELSE NULL), Grows,
         NEW k \in Contents, k = Delta[content[frame[t].s]][frame[t].c],
         IF k \in Special THEN ns = k ELSE ns \in Addr /\ content'[ns] = k
  PROVE  Implements(t)
  <1> DEFINE f == frame[t]
             pos == f.p - 1
             g == Noted(f, k, pos)
  <1>1. /\ f \in Frames /\ ThreadOK(t) /\ ScanOK(t) /\ f.req.n \in Nat
        /\ f.req.earliest \in BOOLEAN
    BY SearchFacts DEF Scans
  <1>2. /\ f.s \in Addr /\ f.savedS = NULL /\ f.savedStart = NULL /\ f.c \in Input /\ f.c # NULL
        /\ f.result = NULL /\ content[f.s] # NULL
        /\ f.start \in Addr => content'[f.start] = StartOf[f.req.kind]
    BY <1>1, Held, Distinct DEF ThreadOK, StatesOK, ScanOK, Scans, Grows
  <1>3. /\ f.p \in Nat /\ pos \in 0 .. f.req.n /\ pos + 1 = f.p /\ pos \in Nat
        /\ f.c \in IF pos < f.req.n THEN Class ELSE Input
        /\ f.p > f.req.n <=> pos = f.req.n
    BY <1>1, <1>2 DEF ScanOK, Frames
  <1>4. /\ absPhase[t] = "scanning" /\ absReq[t] = f.req /\ absCur[t] = content[f.s]
        /\ absP[t] = pos /\ absLast[t] = f.lastmatch /\ absMatches[t] = f.matches
    BY <1>1, <1>2, ViewNow DEF View, Phase, Current
  <1>5. ASSUME NEW r \in Results, Finish(t, r) PROVE ScansKept /\ A!Finish(t, r)
    BY <1>5, FinishEnds, Distinct
  <1>9. /\ absP[t] <= absReq[t].n /\ Delta[absCur[t]][f.c] = k
        /\ f.c \in IF absP[t] < absReq[t].n THEN Class ELSE A!Input
    BY <1>3, <1>4 DEF Input, A!Input
  <1>6. CASE k = DeadState
    <2> DEFINE r == Answer(f.lastmatch # NoPos, f.lastmatch, f.matches)
    <2>1. Finish(t, r)
      BY <1>6, Distinct DEF Arrive, Matched, Special
    <2>2. r \in Results
      BY <1>1 DEF Answer, Results, Frames
    <2>3. ScansKept /\ A!Finish(t, r)
      BY <1>5, <2>1, <2>2
    <2>4. k # FullMatchState /\ k \notin Key
      BY <1>6, Distinct DEF Special
    <2>5. A!Step(t)
      BY <1>4, <1>6, <1>9, <2>3, <2>4 DEF A!Step, A!Answer, Answer
    <2> QED BY <2>3, <2>5 DEF Implements, A!ANext
  <1>7. CASE k = FullMatchState
    <2> DEFINE r == Answer(TRUE, f.req.n, f.matches)
    <2>1. Finish(t, r)
      BY <1>7, Distinct DEF Arrive, Special
    <2>2. r \in Results
      BY <1>1 DEF Answer, Results, Frames
    <2>3. ScansKept /\ A!Finish(t, r)
      BY <1>5, <2>1, <2>2
    <2>4. k # DeadState /\ k \notin Key
      BY <1>7, Distinct DEF Special
    <2>5. A!Step(t)
      BY <1>4, <1>7, <1>9, <2>3, <2>4 DEF A!Step, A!Answer, Answer
    <2> QED BY <2>3, <2>5 DEF Implements, A!ANext
  <1>8. CASE k \in Key /\ k \notin Special
    <2>1. /\ ns \in Addr /\ content'[ns] = k /\ k # DeadState /\ k # FullMatchState
          /\ MoveTo(t, ns, k)
      BY <1>8, Distinct DEF Arrive, Special
    <2>2. g \in Frames /\ OnlyNotes(f, g)
      BY <1>1, <1>3, NotedType
    <2> DEFINE last == A!LastMatch(k, pos, f.lastmatch)
               ids == A!Matches(f.req, k, f.matches)
    <2>3. g.lastmatch = last /\ g.matches = ids
      BY <1>1, NotesSame
    <2> HIDE DEF last, ids
    <2>4. CASE pos = f.req.n \/ (k \in MatchKey /\ f.req.earliest)
      <3> DEFINE r == Answer(last # NoPos, last, ids)
      <3>1. Finish(t, r)
        BY <1>3, <2>1, <2>3, <2>4 DEF MoveTo
      <3>2. r \in Results
        <4> HIDE DEF g
        <4> QED BY <2>2, <2>3 DEF Frames, Answer, Results
      <3>3. ScansKept /\ A!Finish(t, r)
        BY <1>5, <3>1, <3>2
      <3>4. A!Step(t)
        BY <1>4, <1>8, <1>9, <2>1, <2>4, <3>3 DEF A!Step, A!Answer, Answer, last, ids
      <3> QED BY <3>3, <3>4 DEF Implements, A!ANext
    <2>5. CASE ~(pos = f.req.n \/ (k \in MatchKey /\ f.req.earliest))
      <3> DEFINE h == [g EXCEPT !.pc = "loop", !.s = ns, !.c = NULL, !.afterReset = FALSE]
      <3>1. SetFrame(t, h)
        BY <1>3, <2>1, <2>5 DEF MoveTo
      <3>2. /\ h.pc = "loop" /\ h.start = f.start /\ h.s = ns /\ h.req = f.req /\ h.p = f.p
            /\ h.savedS = f.savedS /\ h.savedStart = f.savedStart /\ h.c = NULL
            /\ h.result = f.result /\ h.lastmatch = last /\ h.matches = ids
        BY <1>1, <2>2, <2>3 DEF Frames, OnlyNotes
      <3> HIDE DEF h, g
      <3>3. ScansKept /\ A!Continue(t, k, h.p, h.lastmatch, h.matches)
        BY <1>2, <1>8, <2>1, <3>1, <3>2, GoesOn
      <3>4. A!Continue(t, k, pos + 1, last, ids)
        BY <1>3, <3>2, <3>3
      <3>5. A!Step(t)
        BY <1>4, <1>8, <1>9, <2>1, <2>5, <3>4 DEF A!Step, last, ids
      <3> QED BY <3>3, <3>5 DEF Implements, A!ANext
    <2> QED BY <2>4, <2>5
  <1> QED BY <1>6, <1>7, <1>8 DEF Contents, Special

\* A range walk arrives nowhere by these steps; if it did, it would not show.
LEMMA ArriveUnseen ==
  ASSUME Scans, NEW t \in Thread, ~Searching(t), NEW ns, NEW k, Arrive(t, ns, k),
         ns \in Ptr \ {NULL}, Grows
  PROVE  Implements(t)
  <1> DEFINE f == frame[t]
             g == Noted(f, k, f.p - 1)
             h == [g EXCEPT !.pc = "loop", !.s = ns, !.c = NULL, !.afterReset = FALSE]
  <1>1. (\E r : Finish(t, r)) \/ SetFrame(t, h)
    BY DEF Arrive, MoveTo, Ptr, Special
  <1>2. h.req = f.req
    BY FrameOf DEF Scans, Frames, Noted
  <1> HIDE DEF h
  <1> QED BY <1>1, <1>2, WalkStep

LEMMA LoadImplements ==
  ASSUME Scans, NEW t \in Thread, Load(t) PROVE Implements(t)
  <1> DEFINE f == frame[t]
             ns == next[f.s][f.c]
             k == Delta[content[f.s]][f.c]
  <1>1. /\ f \in Frames /\ ThreadOK(t) /\ f.pc = "load" /\ UNCHANGED graph /\ Grows
    BY FrameOf, GraphStays DEF Load, At, Scans
  <1>2. f.s \in Live /\ content[f.s] \in Key /\ f.c \in Input /\ ns \in Ptr /\ k \in Contents
    BY <1>1, Held, Sorts DEF ThreadOK, StatesOK, Scans, IInv, TypeOK, Live
  <1>3. CASE ns = NULL
    <2>1. Goto(t, "run")
      BY <1>3 DEF Load
    <2> QED BY <1>1, <2>1, PcsAre, JumpImplements
  <1>4. CASE ns # NULL /\ Searching(t)
    <2>1. Arrive(t, ns, IF ns \in Addr THEN content'[ns] ELSE NULL)
      BY <1>1, <1>4 DEF Load, graph
    <2>2. IF k \in Special THEN ns = k ELSE ns \in Addr /\ content'[ns] = k
      BY <1>1, <1>2, <1>4 DEF Scans, IInv, GraphSound, Leads, Live, graph
    <2> HIDE DEF ns
    <2> QED BY <1>1, <1>2, <1>4, <2>1, <2>2, ArriveImplements
  <1>5. CASE ns # NULL /\ ~Searching(t)
    <2>1. Arrive(t, ns, IF ns \in Addr THEN content[ns] ELSE NULL)
      BY <1>5 DEF Load
    <2> HIDE DEF ns
    <2> QED BY <1>1, <1>2, <1>5, <2>1, ArriveUnseen
  <1> QED BY <1>3, <1>4, <1>5

LEMMA RunImplements ==
  ASSUME Scans, NEW t \in Thread, RunStateOnByteUnlocked(t) PROVE Implements(t)
  <1> DEFINE f == frame[t]
             k == Delta[content[f.s]][f.c]
  <1>1. PICK ns \in Ptr :
          /\ RunStateOnByte(f.s, f.c, ns)
          /\ CASE ns # NULL -> Arrive(t, ns, IF ns \in Addr THEN content'[ns] ELSE NULL)
               [] ns = NULL /\ ~f.afterReset -> Goto(t, "oom")
               [] ns = NULL /\ f.afterReset -> Finish(t, Fatal)
    BY DEF RunStateOnByteUnlocked
  <1>2. f \in Frames /\ ThreadOK(t) /\ f.pc = "run"
    BY FrameOf DEF RunStateOnByteUnlocked, At, Scans
  <1>3. f.s \in Live /\ content[f.s] \in Key /\ f.c \in Input /\ k \in Contents
    BY <1>2, Held, Sorts DEF ThreadOK, StatesOK, Scans
  <1>4. Grows /\ content'[f.s] = content[f.s]
    <2>1. Grows
      BY <1>1, <1>3, RunKeepsGraph, GraphNow DEF Scans
    <2> QED BY <1>3, <2>1 DEF Grows
  <1>5. CASE ns # NULL /\ Searching(t)
    <2>1. next'[f.s][f.c] = ns
      <3>1. f.s # FullMatchState
        BY <1>3, Distinct DEF Live, Special
      <3> QED
        BY <1>1, <1>3, <3>1
        DEF RunStateOnByte, graph, Scans, IInv, TypeOK, Live
    <2>2. IF k \in Special THEN ns = k ELSE ns \in Addr /\ content'[ns] = k
      <3>1. f.s \in Live'
        BY <1>3, <1>4, Distinct DEF Live
      <3> QED
        BY <1>3, <1>4, <1>5, <2>1, <3>1 DEF Scans, IInv, GraphSound, Leads, Live
    <2>3. Arrive(t, ns, IF ns \in Addr THEN content'[ns] ELSE NULL)
      BY <1>1, <1>5
    <2> QED BY <1>2, <1>3, <1>4, <1>5, <2>2, <2>3, ArriveImplements
  <1>6. CASE ns # NULL /\ ~Searching(t)
    <2> DEFINE v == IF ns \in Addr THEN content'[ns] ELSE NULL
    <2>1. Arrive(t, ns, v)
      BY <1>1, <1>6
    <2> HIDE DEF v
    <2> QED BY <1>2, <1>4, <1>6, <2>1, ArriveUnseen
  <1>7. CASE ns = NULL
    <2>1. Goto(t, "oom")
      BY <1>1, <1>7, NotFatal
    <2> QED BY <1>2, <1>4, <2>1, PcsAre, JumpImplements
  <1> QED BY <1>5, <1>6, <1>7

-----------------------------------------------------------------------------
(***************************************************************************)
(* Where a search has reset the cache.                                     *)
(***************************************************************************)
ResetsKept == \A u \in Thread : ResetsOK(frame'[u])

LEMMA ResetStep ==
  ASSUME IInv, \A u \in Thread : ResetsOK(frame[u]), NEW t \in Thread, NEW g,
         SetFrame(t, g), ResetsOK(g)
  PROVE  ResetsKept
  BY DEF ResetsKept, SetFrame, IInv, TypeOK

\* A step that leaves request and resets as they were, and does not go back.
LEMMA ResetStays ==
  ASSUME IInv, \A u \in Thread : ResetsOK(frame[u]), NEW t \in Thread, NEW g,
         SetFrame(t, g), g.req = frame[t].req, g.resetp = frame[t].resetp,
         g.p = frame[t].p \/ g.resetp = NoPos,
         g.savedS = NULL \/ g.savedS = frame[t].savedS,
         \/ g.pc \notin {"loop", "load", "run", "oom"}
         \/ frame[t].pc \in {"loop", "load", "run", "oom"} \/ frame[t].savedS # NULL
         \/ g.req.op = "search" /\ g.req # NULL
  PROVE  ResetsKept
  <1>1. ResetsOK(g)
    BY DEF ResetsOK
  <1> QED BY <1>1, ResetStep

LEMMA ResetEnds ==
  ASSUME IInv, \A u \in Thread : ResetsOK(frame[u]), NEW t \in Thread, NEW r, Finish(t, r)
  PROVE  ResetsKept
  <1> DEFINE g == [IdleFrame EXCEPT !.pc = "done", !.req = frame[t].req, !.result = r]
  <1>1. SetFrame(t, g) /\ ResetsOK(g)
    BY DEF Finish, IdleFrame, ResetsOK
  <1> HIDE DEF g
  <1> QED BY <1>1, ResetStep

LEMMA ResetGoto ==
  ASSUME IInv, \A u \in Thread : ResetsOK(frame[u]), NEW t \in Thread, NEW pc, Goto(t, pc),
         pc \notin {"loop", "load", "run", "oom"} \/ frame[t].pc \in {"loop", "load", "run", "oom"}
  PROVE  ResetsKept
  <1> DEFINE g == [frame[t] EXCEPT !.pc = pc]
  <1>1. SetFrame(t, g)
    BY DEF Goto
  <1>2. /\ g.pc = pc /\ g.req = frame[t].req /\ g.resetp = frame[t].resetp /\ g.p = frame[t].p
        /\ g.savedS = frame[t].savedS
    BY FrameOf DEF Frames
  <1> HIDE DEF g
  <1> QED BY <1>1, <1>2, ResetStays

LEMMA ResetArrives ==
  ASSUME IInv, \A u \in Thread : ResetsOK(frame[u]), NEW t \in Thread,
         frame[t].pc \in {"load", "run"}, NEW ns \in Ptr \ {NULL}, NEW k, Arrive(t, ns, k)
  PROVE  ResetsKept
  <1> DEFINE f == frame[t]
             g == Noted(f, k, f.p - 1)
             h == [g EXCEPT !.pc = "loop", !.s = ns, !.c = NULL, !.afterReset = FALSE]
  <1>1. (\E r : Finish(t, r)) \/ SetFrame(t, h)
    BY DEF Arrive, MoveTo, Ptr, Special
  <1>2. h.pc = "loop" /\ h.req = f.req /\ h.resetp = f.resetp /\ h.p = f.p /\ h.savedS = f.savedS
    BY FrameOf DEF Frames, Noted
  <1> HIDE DEF h
  <1> QED BY <1>1, <1>2, ResetStays, ResetEnds

LEMMA ResetEndPass ==
  ASSUME IInv, \A u \in Thread : ResetsOK(frame[u]), NEW t \in Thread, EndPass(t),
         ~Searching(t)
  PROVE  ResetsKept
  <1> DEFINE f == frame[t]
             g == StartPass(f, "max")
  <1>1. (\E r : Finish(t, r)) \/ SetFrame(t, g)
    BY DEF EndPass, FinishRange
  <1>2. g.pc = "walk" /\ g.req = f.req /\ g.resetp = f.resetp /\ g.savedS = f.savedS
    BY FrameOf DEF Frames, StartPass
  <1>3. g.resetp = NoPos
    BY <1>2 DEF ResetsOK, Searching
  <1> HIDE DEF g
  <1> QED BY <1>1, <1>2, <1>3, ResetStays, ResetEnds

\* The same of every step.
LEMMA StepKeepsResets ==
  ASSUME Scans, \A u \in Thread : ResetsOK(frame[u]), Next
  PROVE  ResetsKept
  <1>1. PICK t \in Thread :
          \/ Search(t) \/ PossibleMatchRange(t)
          \/ Local(t) \/ WithMutex(t) \/ WriterLock(t)
    BY DEF Next
  <1> DEFINE f == frame[t]
  <1>2. f \in Frames /\ ThreadOK(t) /\ IInv /\ ResetsOK(f)
    BY FrameOf DEF Scans
  <1>3. ASSUME NEW op, Enter(t, op) PROVE ResetsKept
    <2>1. PICK r \in Requests : SetFrame(t, [IdleFrame EXCEPT !.pc = "analyze", !.req = r])
      BY <1>3 DEF Enter
    <2> DEFINE g == [IdleFrame EXCEPT !.pc = "analyze", !.req = r]
    <2>2. SetFrame(t, g) /\ ResetsOK(g)
      BY <2>1 DEF IdleFrame, ResetsOK
    <2> HIDE DEF g
    <2> QED BY <1>2, <2>2, ResetStep
  <1>4. CASE QuickCheck(t) \/ DropReaderLock(t) \/ WriterLock(t)
    <2>1. PICK pc \in {"begin", "fillStart", "clear", "wantWrite"} : Goto(t, pc)
      BY <1>4 DEF QuickCheck, DropReaderLock, WriterLock
    <2> QED BY <1>2, <2>1, ResetGoto
  <1>5. CASE Begin(t)
    <2> DEFINE s == startInfo[f.req.kind]
               g == Noted(f, content[s], 0)
               h == [g EXCEPT !.pc = "loop", !.start = s, !.s = s]
    <2>0. s \in Ptr \ {NULL}
      <3>1. f.req.kind \in StartKind
        BY <1>2, <1>5, RequestKind DEF Begin, At, IInv, ThreadOK
      <3> QED BY <1>2, <1>5, <3>1 DEF Begin, At, IInv, TypeOK, ThreadOK, StatesOK
    <2>1. (\E r : Finish(t, r)) \/ SetFrame(t, h)
      BY <1>5, <2>0 DEF Begin, Ptr, Special
    <2>2. /\ h.pc = "loop" /\ h.req = f.req /\ h.resetp = f.resetp /\ h.p = f.p
          /\ h.savedS = f.savedS
      BY <1>2 DEF Frames, Noted
    <2>3. f.req # NULL /\ f.req.op = "search"
      BY <1>2, <1>5 DEF Begin, At, ThreadOK, StatesOK
    <2> HIDE DEF h, s
    <2> QED BY <1>2, <2>1, <2>2, <2>3, ResetStays, ResetEnds
  <1>6. CASE NextByte(t)
    <2>0. f.pc = "loop" /\ f.p <= f.req.n /\ f.req.n \in Nat /\ f.p \in Nat
      BY <1>2, <1>6, RequestKind DEF NextByte, At, ThreadOK, StatesOK, IInv, Frames
    <2>1. PICK q \in f.p .. f.req.n, x \in Input :
            SetFrame(t, [f EXCEPT !.pc = "load", !.c = x, !.p = q + 1])
      <3>1. f.p \in f.p .. f.req.n
        BY <2>0
      <3> QED BY <1>6, <3>1 DEF NextByte, Input
    <2> DEFINE g == [f EXCEPT !.pc = "load", !.c = x, !.p = q + 1]
    <2>2. /\ g.pc = "load" /\ g.req = f.req /\ g.resetp = f.resetp /\ g.p = q + 1
          /\ g.savedS = f.savedS /\ f.resetp \in Nat \cup {NoPos}
      BY <1>2 DEF Frames
    <2> HIDE DEF g
    <2>3. ResetsOK(g)
      BY <1>2, <2>0, <2>2 DEF ResetsOK
    <2>4. SetFrame(t, g)
      BY <2>1 DEF g
    <2> QED BY <1>2, <2>3, <2>4, ResetStep
  <1>7. CASE Load(t)
    <2> DEFINE ns == next[f.s][f.c]
    <2>1. f.pc = "load" /\ ns \in Ptr
      <3>1. f.pc = "load"
        BY <1>7 DEF Load, At
      <3>2. f.s \in Addr /\ f.c \in Input
        BY <1>2, <3>1 DEF ThreadOK, StatesOK
      <3> QED BY <1>2, <3>1, <3>2 DEF IInv, TypeOK
    <2>2. CASE ns = NULL
      BY <1>2, <1>7, <2>1, <2>2, ResetGoto DEF Load
    <2>3. CASE ns # NULL
      BY <1>2, <1>7, <2>1, <2>3, ResetArrives DEF Load
    <2> QED BY <2>2, <2>3
  <1>8. CASE RunStateOnByteUnlocked(t)
    <2>1. PICK ns \in Ptr :
            CASE ns # NULL -> Arrive(t, ns, IF ns \in Addr THEN content'[ns] ELSE NULL)
              [] ns = NULL /\ ~f.afterReset -> Goto(t, "oom")
              [] ns = NULL /\ f.afterReset -> Finish(t, Fatal)
      BY <1>8 DEF RunStateOnByteUnlocked
    <2>2. f.pc = "run"
      BY <1>8 DEF RunStateOnByteUnlocked, At
    <2>3. CASE ns # NULL
      <3> DEFINE v == IF ns \in Addr THEN content'[ns] ELSE NULL
      <3>1. Arrive(t, ns, v)
        BY <2>1, <2>3
      <3> HIDE DEF v
      <3> QED BY <1>2, <2>2, <2>3, <3>1, ResetArrives
    <2>4. CASE ns = NULL
      BY <1>2, <2>1, <2>2, <2>4, ResetGoto, ResetEnds
    <2> QED BY <2>3, <2>4
  <1>9. CASE OutOfMemory(t)
    <2> DEFINE inText == f.p <= f.req.n
               resetp == IF inText THEN f.p ELSE f.resetp
               g == [f EXCEPT !.pc = "reset", !.resetp = resetp,
                              !.savedStart = IF inText THEN content[f.start] ELSE NULL,
                              !.savedS = content[f.s],
                              !.start = NULL, !.s = NULL]
    <2>1. f.pc = "oom" /\ (Finish(t, GaveUp) \/ SetFrame(t, g))
      BY <1>2, <1>9 DEF OutOfMemory, At, Frames
    <2>2. g.pc = "reset" /\ g.req = f.req /\ g.resetp = resetp /\ g.p = f.p /\ f.p \in Nat
      BY <1>2 DEF Frames
    <2>3. ResetsOK(g)
      BY <1>2, <2>1, <2>2 DEF ResetsOK
    <2> HIDE DEF g
    <2> QED BY <1>2, <2>1, <2>3, ResetStep, ResetEnds
  <1>10. CASE ClearCache(t)
    <2> DEFINE g == AfterClear(f)
    <2>1. SetFrame(t, g)
      BY <1>10 DEF ClearCache
    <2>2. /\ g.pc \in {"analyze", "restoreS", "restoreStart"} /\ g.req = f.req
          /\ g.resetp = f.resetp /\ g.p = f.p /\ g.savedS = f.savedS
      BY <1>2 DEF Frames, AfterClear
    <2> HIDE DEF g
    <2> QED BY <1>2, <2>1, <2>2, ResetStays
  <1>11. CASE Return(t)
    <2>1. SetFrame(t, IdleFrame) /\ ResetsOK(IdleFrame)
      BY <1>11 DEF Return, IdleFrame, ResetsOK
    <2> QED BY <1>2, <2>1, ResetStep
  <1>12. CASE FillStart(t)
    <2> DEFINE g == [f EXCEPT !.pc = "begin", !.afterReset = FALSE]
    <2>1. SetFrame(t, g) \/ Goto(t, "reset") \/ Finish(t, Fatal)
      BY <1>12 DEF FillStart
    <2>2. /\ g.pc = "begin" /\ g.req = f.req /\ g.resetp = f.resetp /\ g.p = f.p
          /\ g.savedS = f.savedS
      BY <1>2 DEF Frames
    <2> HIDE DEF g
    <2> QED BY <1>2, <2>1, <2>2, ResetStays, ResetGoto, ResetEnds
  <1>13. CASE RestoreStart(t)
    <2>1. PICK ptr \in Ptr :
            \/ Finish(t, Fatal)
            \/ SetFrame(t, [f EXCEPT !.pc = "restoreS", !.start = ptr, !.savedStart = NULL])
      BY <1>13 DEF RestoreStart
    <2> DEFINE g == [f EXCEPT !.pc = "restoreS", !.start = ptr, !.savedStart = NULL]
    <2>2. /\ g.pc = "restoreS" /\ g.req = f.req /\ g.resetp = f.resetp /\ g.p = f.p
          /\ g.savedS = f.savedS
      BY <1>2 DEF Frames
    <2>3. Finish(t, Fatal) \/ SetFrame(t, g)
      BY <2>1
    <2> HIDE DEF g
    <2> QED BY <1>2, <2>2, <2>3, ResetStays, ResetEnds
  <1>14. CASE RestoreS(t)
    <2>1. PICK ptr \in Ptr :
            \/ Finish(t, Fatal)
            \/ SetFrame(t, [f EXCEPT !.pc = "run", !.s = ptr, !.savedS = NULL])
      BY <1>14 DEF RestoreS
    <2> DEFINE g == [f EXCEPT !.pc = "run", !.s = ptr, !.savedS = NULL]
    <2>2. /\ g.pc = "run" /\ g.req = f.req /\ g.resetp = f.resetp /\ g.p = f.p
          /\ g.savedS = NULL
      BY <1>2 DEF Frames
    <2>3. Finish(t, Fatal) \/ SetFrame(t, g)
      BY <2>1
    <2>4. f.savedS # NULL
      BY <1>2, <1>14 DEF RestoreS, At, ThreadOK, StatesOK
    <2> HIDE DEF g
    <2> QED BY <1>2, <2>2, <2>3, <2>4, ResetStays, ResetEnds
  <1>15. CASE BeginRange(t)
    <2> DEFINE s == startInfo[f.req.kind]
               e == [f EXCEPT !.start = s]
               g == StartPass(e, "min")
    <2>1. (\E r : Finish(t, r)) \/ SetFrame(t, g)
      BY <1>15 DEF BeginRange
    <2>2. g.pc = "walk" /\ g.req = f.req /\ g.resetp = f.resetp /\ g.savedS = f.savedS
      BY <1>2 DEF Frames, StartPass
    <2>3. f.resetp = NoPos
      BY <1>2, <1>15 DEF BeginRange, ResetsOK
    <2> HIDE DEF g
    <2> QED BY <1>2, <2>1, <2>2, <2>3, ResetStays, ResetEnds
  <1>16. CASE WalkHead(t)
    <2> DEFINE g == [f EXCEPT !.seen = @ \cup {f.s},
                              !.todo = IF f.pass = "min" THEN Input ELSE Class]
    <2>1. ~Searching(t) /\ (EndPass(t) \/ SetFrame(t, g))
      BY <1>16, WalkersDoNotSearch DEF WalkHead, At
    <2>2. /\ g.pc = f.pc /\ g.req = f.req /\ g.resetp = f.resetp /\ g.p = f.p
          /\ g.savedS = f.savedS
      BY <1>2 DEF Frames
    <2> HIDE DEF g
    <2> QED BY <1>2, <2>1, <2>2, ResetStays, ResetEndPass
  <1>17. CASE WalkByte(t)
    <2> DEFINE Goes(ns) == [f EXCEPT !.s = ns, !.p = @ + 1, !.todo = {}]
               Skips(x) == [f EXCEPT !.todo = @ \ {x}]
    <2>1. PICK x, ns :
            \/ EndPass(t)
            \/ \E r : Finish(t, r)
            \/ SetFrame(t, Goes(ns))
            \/ SetFrame(t, Skips(x))
      BY <1>17 DEF WalkByte, FinishRange
    <2>2. ~Searching(t) /\ f.resetp = NoPos
      BY <1>2, <1>17, WalkersDoNotSearch DEF WalkByte, At, ResetsOK, Searching
    <2> DEFINE g == Goes(ns)
               h == Skips(x)
    <2>3. /\ g.pc = f.pc /\ g.req = f.req /\ g.resetp = f.resetp /\ g.savedS = f.savedS
          /\ h.pc = f.pc /\ h.req = f.req /\ h.resetp = f.resetp /\ h.savedS = f.savedS
      BY <1>2 DEF Frames
    <2>4. EndPass(t) \/ (\E r : Finish(t, r)) \/ SetFrame(t, g) \/ SetFrame(t, h)
      BY <2>1
    <2> HIDE DEF g, h
    <2> QED BY <1>2, <2>2, <2>3, <2>4, ResetStays, ResetEnds, ResetEndPass
  <1> QED
    BY <1>1, <1>3, <1>4, <1>5, <1>6, <1>7, <1>8, <1>9, <1>10, <1>11, <1>12, <1>13, <1>14,
       <1>15, <1>16, <1>17
    DEF Search, PossibleMatchRange, Local, WithMutex

-----------------------------------------------------------------------------
(***************************************************************************)
(* The theorem.                                                            *)
(***************************************************************************)
LEMMA ScanInit == ASSUME Init PROVE \A t \in Thread : ScanOK(t)
  BY DEF Init, ScanOK, Searching, IdleFrame

LEMMA InitMaps == ASSUME Init PROVE A!AInit
  <1>1. ASSUME NEW t \in Thread PROVE View(t) = IdleView
    <2>1. ~Searching(t)
      BY DEF Init, IdleFrame, Searching
    <2> QED BY <2>1 DEF View
  <1>2. \A t \in Thread : View(t) = IdleView
    BY <1>1
  <1> QED
    BY <1>2 DEF A!AInit, IdleView,
       absPhase, absReq, absCur, absP, absLast, absMatches, absResult

\* Every step of the cache is a step of the abstract search or a stutter.
LEMMA StepImplements ==
  ASSUME Scans, Next PROVE ScansKept /\ [A!ANext]_(A!avars)
  <1>1. PICK t \in Thread :
          \/ Search(t) \/ PossibleMatchRange(t)
          \/ Local(t) \/ WithMutex(t) \/ WriterLock(t)
    BY DEF Next
  <1>2. Implements(t)
    BY <1>1, EnterImplements, QuickCheckImplements, BeginImplements, NextByteImplements,
       LoadImplements, OutOfMemoryImplements, DropReaderLockImplements, ClearCacheImplements,
       ReturnImplements, WalkHeadImplements, WalkByteImplements, FillStartImplements,
       RunImplements, RestoreStartImplements, RestoreSImplements, BeginRangeImplements,
       WriterLockImplements
    DEF Search, PossibleMatchRange, Local, WithMutex
  <1> QED BY <1>2 DEF Implements

\* The inductive invariant of the scans.
THEOREM ScanInvariant == Spec => []ScanInv
  <1>1. Init => ScanInv
    BY InitOK, ScanInit DEF ScanInv, Init, IdleFrame, ResetsOK
  <1>2. ScanInv /\ [Next]_vars => ScanInv'
    <2> SUFFICES ASSUME ScanInv, [Next]_vars PROVE ScanInv'
      OBVIOUS
    <2>1. IInv'
      BY NextOK DEF ScanInv
    <2>2. CASE Next
      BY <2>1, <2>2, StepImplements, StepKeepsResets DEF Scans, ScansKept, ResetsKept, ScanInv
    <2>3. CASE UNCHANGED vars
      BY <2>1, <2>3 DEF ScanInv, ScanOK, Searching, Current, ResetsOK, vars, graph
    <2> QED BY <2>2, <2>3
  <1> QED BY <1>1, <1>2, PTL DEF Spec

\* Whatever the other threads do to the cache, and however often it is reset,
\* every search returns the answer of a scan over the complete automaton that
\* nobody disturbs, or gives up where its caller can cope with that
\* (InlinedSearchLoop, StateSaver, RunStateOnByte).
THEOREM SearchIsRefined == Spec => RefinesSearch
  <1>1. Init => A!AInit
    BY InitMaps
  <1>2. ScanInv /\ ScanInv' /\ [Next]_vars => [A!ANext]_(A!avars)
    <2> SUFFICES ASSUME ScanInv, ScanInv', [Next]_vars PROVE [A!ANext]_(A!avars)
      OBVIOUS
    <2>1. CASE Next
      BY <2>1, StepImplements DEF Scans, ScanInv
    <2>2. CASE UNCHANGED vars
      BY <2>2 DEF A!avars, View, Searching, IdleView, Phase, Current, vars, graph,
         absPhase, absReq, absCur, absP, absLast, absMatches, absResult
    <2> QED BY <2>1, <2>2
  <1> QED BY <1>1, <1>2, ScanInvariant, PTL DEF Spec, RefinesSearch, A!ASpec

\* No other step takes a thread from "oom" to "reset".
LEMMA OnlyOutOfMemory ==
  ASSUME IInv, Next, NEW t \in Thread, At(t, "oom"), frame'[t].pc = "reset"
  PROVE  OutOfMemory(t)
  <1>1. PICK u \in Thread :
          \/ Search(u) \/ PossibleMatchRange(u)
          \/ Local(u) \/ WithMutex(u) \/ WriterLock(u)
    BY DEF Next
  <1>2. CASE u # t
    <2> DEFINE Own == frame'[t] = frame[t]
    <2>10. \A g : SetFrame(u, g) => Own
      BY <1>2 DEF SetFrame, IInv, TypeOK
    <2>11. \A pc, r : Goto(u, pc) \/ Finish(u, r) => Own
      BY <2>10 DEF Goto, Finish
    <2> SUFFICES Own
      BY DEF At
    <2> HIDE DEF Own
    <2>3. CASE Search(u) \/ PossibleMatchRange(u) \/ QuickCheck(u) \/ DropReaderLock(u)
               \/ WriterLock(u) \/ ClearCache(u) \/ Return(u) \/ NextByte(u)
      BY <2>10, <2>11, <2>3 DEF Search, PossibleMatchRange, Enter, QuickCheck,
         DropReaderLock, WriterLock, ClearCache, Return, NextByte
    <2>4. CASE FillStart(u) \/ RestoreStart(u) \/ RestoreS(u) \/ OutOfMemory(u)
      BY <2>10, <2>11, <2>4 DEF FillStart, RestoreStart, RestoreS, OutOfMemory
    <2>5. ASSUME NEW ns \in Ptr \ {NULL}, NEW k, Arrive(u, ns, k) PROVE Own
      BY <2>10, <2>11, <2>5 DEF Arrive, MoveTo, Ptr, Special
    <2>6. CASE Load(u)
      <3>1. next[frame[u].s][frame[u].c] \in Ptr
        BY <2>6, FrameOf DEF Load, At, ThreadOK, StatesOK, IInv, TypeOK
      <3> QED BY <2>10, <2>11, <2>5, <2>6, <3>1 DEF Load
    <2>7. CASE RunStateOnByteUnlocked(u)
      <3>1. PICK ns \in Ptr :
              CASE ns # NULL -> Arrive(u, ns, IF ns \in Addr THEN content'[ns] ELSE NULL)
                [] ns = NULL /\ ~frame[u].afterReset -> Goto(u, "oom")
                [] ns = NULL /\ frame[u].afterReset -> Finish(u, Fatal)
        BY <2>7 DEF RunStateOnByteUnlocked
      <3> DEFINE v == IF ns \in Addr THEN content'[ns] ELSE NULL
      <3>2. (Arrive(u, ns, v) /\ ns # NULL) \/ Goto(u, "oom") \/ Finish(u, Fatal)
        BY <3>1
      <3> HIDE DEF v
      <3> QED BY <2>10, <2>11, <2>5, <3>2
    <2>8. CASE Begin(u)
      <3>1. frame[u].req.kind \in StartKind
        BY <2>8, FrameOf, RequestKind DEF Begin, At, IInv, ThreadOK
      <3>2. startInfo[frame[u].req.kind] \in Ptr \ {NULL}
        BY <2>8, <3>1, FrameOf DEF Begin, At, IInv, TypeOK, ThreadOK, StatesOK
      <3> QED BY <2>10, <2>11, <2>8, <3>2 DEF Begin, Ptr, Special
    <2>9. CASE BeginRange(u) \/ WalkHead(u) \/ WalkByte(u)
      BY <2>10, <2>11, <2>9 DEF BeginRange, WalkHead, WalkByte, EndPass, FinishRange
    <2> QED
      BY <1>1, <2>3, <2>4, <2>6, <2>7, <2>8, <2>9 DEF Local, WithMutex
  <1>3. CASE u = t
    BY <1>1, <1>3 DEF At, Search, PossibleMatchRange, Enter, Local, WithMutex, WriterLock,
       QuickCheck, Begin, NextByte, Load, DropReaderLock, ClearCache, Return, WalkHead, WalkByte,
       FillStart, RunStateOnByteUnlocked, RestoreStart, RestoreS, BeginRange
  <1> QED BY <1>2, <1>3

\* A forward search that fills the cache too soon after its last reset does not
\* reset it again (dfa.cc:1435): the distance it compares is the one scanned.
THEOREM ForwardSearchGivesUp ==
  ASSUME Forward = TRUE
  PROVE  Spec => SlowSearchGivesUp
  <1> DEFINE Slow(t) ==
        (At(t, "oom") /\ frame[t].p <= frame[t].req.n /\ frame[t].resetp # NoPos /\ ~ManyMatch) =>
          (frame'[t].pc = "reset" => Scanned(frame[t]) >= BailFactor * Cardinality(Live))
  <1>1. ScanInv /\ [Next]_vars => [\A t \in Thread : Slow(t)]_vars
    <2> SUFFICES ASSUME ScanInv, Next, NEW t \in Thread,
                        At(t, "oom"), frame[t].p <= frame[t].req.n, frame[t].resetp # NoPos,
                        ~ManyMatch, frame'[t].pc = "reset"
                 PROVE  Scanned(frame[t]) >= BailFactor * Cardinality(Live)
      OBVIOUS
    <2> DEFINE f == frame[t]
    <2>1. OutOfMemory(t)
      BY OnlyOutOfMemory DEF ScanInv
    <2>2. ~TooSlow(f)
      <3>1. GaveUp \in Results
        BY DEF GaveUp, Results
      <3>2. ~Finish(t, GaveUp)
        BY DEF Finish, SetFrame, IdleFrame, ScanInv, IInv, TypeOK
      <3> QED BY <2>1, <3>2 DEF OutOfMemory
    <2>3. f \in Frames /\ f.resetp \in Nat /\ f.p \in Nat /\ f.resetp <= f.p
      BY FrameOf DEF Frames, ScanInv, ResetsOK
    <2>4. f.req.n \in 0..MaxText /\ MaxText \in Nat
      BY SearchFacts, Sorts DEF ScanInv, ResetsOK, Searching, At, SearchRequest
    <2>5. f.p - f.resetp \in 0 .. SizeMod - 1 /\ SizeMod \in Nat
      <3>1. BailFactor \in Nat /\ Cardinality(Addr) \in Nat /\ SizeMod \in Nat
            /\ SizeMod > MaxText + 1 + BailFactor * Cardinality(Addr)
        BY Sorts, FS_CardinalityType
      <3>2. BailFactor * Cardinality(Addr) >= 0
        BY <3>1
      <3> QED BY <2>3, <2>4, <3>1, <3>2
    <2>6. Distance(f) = f.p - f.resetp
      BY <2>5 DEF Distance
    <2>7. BailFactor * Cardinality(Live) \in Nat
      <3>1. Cardinality(Live) \in Nat
        BY Sorts, FS_Subset, FS_CardinalityType DEF Live
      <3> QED BY <3>1, Sorts
    <2> QED
      BY <2>2, <2>3, <2>6, <2>7 DEF TooSlow, Scanned
  <1> QED BY <1>1, ScanInvariant, PTL DEF Spec, SlowSearchGivesUp
=============================================================================
