--------------------------- MODULE DFACacheProofs ---------------------------
(***************************************************************************)
(* Proofs about the shared state cache, for any threads, automaton, costs  *)
(* and budget.  The argument is the inductive invariant IInv of DFACache.  *)
(***************************************************************************)
EXTENDS DFACache, WellFoundedInduction, FiniteSetTheorems, TLAPS

GraphType ==
  /\ content \in [Addr -> Key \cup {NULL}]
  /\ next \in [Addr -> [Input -> Ptr]]
  /\ startInfo \in [StartKind -> Ptr]
  /\ budget \in Int
GraphOK == GraphType /\ GraphSound /\ FreeHasNoEdges /\ NoDuplicateStates
ThreadOK(t) == LocksOK(t) /\ StatesOK(t) /\ RoomOK(t)

\* The cache only grows in a step.
Grows ==
  /\ \A a \in Live : content'[a] = content[a]
  /\ \A k \in StartKind : startInfo[k] # NULL => startInfo'[k] # NULL

-----------------------------------------------------------------------------
(***************************************************************************)
(* Construction of states.                                                 *)
(***************************************************************************)

LEMMA CachedStateFinds ==
  ASSUME GraphOK, NEW k \in Key, NEW ptr \in Ptr, CachedState(k, ptr)
  PROVE  /\ content' \in [Addr -> Key \cup {NULL}] /\ budget' \in Int
         /\ \A a \in Live : content'[a] = content[a]
         /\ \A a \in Addr : content'[a] # NULL => a \in Live \/ a = ptr
         /\ NoDuplicateStates'
         /\ ptr # NULL => ptr \in Addr /\ content'[ptr] = k
         /\ budget >= Cost[k] => ptr # NULL /\ budget' >= budget - Cost[k]
  <1> USE Sorts, Distinct DEF GraphOK, GraphType, Live, Ptr
  <1>1. CASE ptr \in {a \in Live : content[a] = k} /\ UNCHANGED <<content, budget>>
    BY <1>1 DEF NoDuplicateStates
  <1>2. CASE /\ {a \in Live : content[a] = k} = {} /\ budget >= Cost[k]
             /\ ptr \in Addr \ Live
             /\ content' = [content EXCEPT ![ptr] = k]
             /\ budget' = budget - Cost[k]
    BY <1>2 DEF NoDuplicateStates
  <1>3. CASE /\ {a \in Live : content[a] = k} = {} /\ budget < Cost[k]
             /\ ptr = NULL /\ budget' = -1 /\ UNCHANGED content
    BY <1>3 DEF NoDuplicateStates
  <1> QED BY <1>1, <1>2, <1>3 DEF CachedState, Allocate

LEMMA CachedStateKeepsGraph ==
  ASSUME GraphOK, NEW k \in Key, NEW ptr \in Ptr, CachedState(k, ptr),
         UNCHANGED <<next, startInfo>>
  PROVE  GraphOK' /\ Grows
  <1>1. /\ GraphType' /\ NoDuplicateStates' /\ Grows
        /\ \A a \in Addr : content'[a] # NULL => a \in Live \/ a = ptr
    BY CachedStateFinds DEF GraphOK, GraphType, Grows
  <1>2. FreeHasNoEdges'
    BY <1>1, Distinct DEF FreeHasNoEdges, Live, GraphOK, GraphType, Grows
  <1>3. GraphSound'
    BY <1>1, Distinct DEF GraphSound, FreeHasNoEdges, Leads, Live, GraphOK, GraphType, Grows, NoEdges
  <1> QED BY <1>1, <1>2, <1>3 DEF GraphOK

\* What a construction gives the caller: the right state, and memory for it if
\* the budget had it.
Built(ptr, k) ==
  /\ ptr # NULL => IF k \in Special THEN ptr = k ELSE ptr \in Addr /\ content'[ptr] = k
  /\ k \in Key /\ budget >= Cost[k] => ptr # NULL /\ budget' >= budget - Cost[k]
  /\ k \in Special => ptr # NULL

LEMMA WorkqBuilds ==
  ASSUME GraphOK, NEW k \in Contents, NEW ptr \in Ptr, WorkqToCachedState(k, ptr)
  PROVE  /\ content' \in [Addr -> Key \cup {NULL}] /\ budget' \in Int
         /\ \A a \in Live : content'[a] = content[a]
         /\ \A a \in Addr : content'[a] # NULL => a \in Live \/ a = ptr
         /\ NoDuplicateStates'
         /\ ptr \in Addr => ptr \in Live'
         /\ Built(ptr, k)
  <1>1. CASE k \in Special
    BY <1>1, Distinct DEF WorkqToCachedState, Built, Leads, GraphOK, GraphType, Special,
         NoDuplicateStates, Live
  <1>2. CASE k \in Key /\ k \notin Special
    <2>1. CachedState(k, ptr)
      BY <1>2 DEF WorkqToCachedState
    <2> QED
      BY <1>2, <2>1, CachedStateFinds, Distinct DEF Built, Leads, Live
  <1> QED BY <1>1, <1>2 DEF Contents

\* FillStart's part: the start pointer is set to a state of the right contents.
LEMMA FillKeepsGraph ==
  ASSUME GraphOK, NEW k \in StartKind, NEW ptr \in Ptr,
         WorkqToCachedState(StartOf[k], ptr), startInfo[k] = NULL,
         startInfo' = [startInfo EXCEPT ![k] = ptr], UNCHANGED next
  PROVE  GraphOK' /\ Grows /\ Built(ptr, StartOf[k])
  <1>0. StartOf[k] \in Contents
    BY Sorts
  <1>1. /\ GraphType' /\ NoDuplicateStates' /\ Grows /\ Built(ptr, StartOf[k])
        /\ \A a \in Addr : content'[a] # NULL => a \in Live \/ a = ptr
        /\ ptr \in Addr => ptr \in Live'
    BY <1>0, WorkqBuilds DEF GraphOK, GraphType, Grows
  <1>2. FreeHasNoEdges'
    BY <1>1, Distinct DEF FreeHasNoEdges, Live, GraphOK, GraphType, Grows
  <1>3. GraphSound'
    BY SMTT(30), <1>1, Distinct
    DEF GraphSound, FreeHasNoEdges, Leads, Live, GraphOK, GraphType, Grows, NoEdges, Built
  <1> QED BY <1>1, <1>2, <1>3 DEF GraphOK

LEMMA RunKeepsGraph ==
  ASSUME GraphOK, NEW s \in Live, NEW x \in Input, NEW ns \in Ptr, RunStateOnByte(s, x, ns)
  PROVE  /\ GraphOK' /\ Grows
         /\ ns \in Addr => ns \in Live'
         /\ Built(ns, Delta[content[s]][x]) \/ (ns # NULL /\ UNCHANGED graph)
  <1> DEFINE k == Delta[content[s]][x]
  <1>0. content[s] \in Key /\ k \in Contents /\ s # FullMatchState
    BY Sorts, Distinct DEF GraphOK, GraphType, Live, Special
  <1>1. CASE next[s][x] # NULL
    <2>1. ns = next[s][x] /\ UNCHANGED graph
      BY <1>0, <1>1 DEF RunStateOnByte
    <2>2. ns \in Addr => ns \in Live'
      BY <1>1, <2>1, Distinct DEF GraphOK, GraphSound, Leads, Live, graph, Special
    <2>3. GraphOK' /\ Grows
      BY <2>1 DEF graph, GraphOK, GraphType, GraphSound, Leads, FreeHasNoEdges,
           NoDuplicateStates, Grows, Live
    <2> QED BY <1>1, <2>1, <2>2, <2>3
  <1>2. CASE next[s][x] = NULL
    <2>1. /\ WorkqToCachedState(k, ns)
          /\ next' = [next EXCEPT ![s][x] = ns]
          /\ UNCHANGED startInfo
      BY <1>0, <1>2 DEF RunStateOnByte
    <2> HIDE DEF k
    <2>2. /\ content' \in [Addr -> Key \cup {NULL}] /\ budget' \in Int
          /\ \A a \in Live : content'[a] = content[a]
          /\ \A a \in Addr : content'[a] # NULL => a \in Live \/ a = ns
          /\ NoDuplicateStates'
          /\ ns \in Addr => ns \in Live'
          /\ Built(ns, k)
      BY <1>0, <2>1, WorkqBuilds
    <2>3. GraphType' /\ Grows
      BY <2>1, <2>2 DEF GraphType, Grows, GraphOK, Ptr, Live
    <2>4. FreeHasNoEdges'
      <3>1. ASSUME NEW a \in Addr, a \notin Live' PROVE a \notin Live
        BY <3>1, <2>2 DEF Live
      <3>2. ASSUME NEW a \in Addr, a \notin Live' PROVE next'[a] = NoEdges
        BY <3>1, <3>2, <2>1 DEF FreeHasNoEdges, GraphOK, GraphType
      <3> QED BY <3>2 DEF FreeHasNoEdges
    <2>5. GraphSound'
      <3>1. ASSUME NEW a \in Live', NEW y \in Input, next'[a][y] # NULL
            PROVE  Leads(next[a][y], Delta[content[a]][y])'
        <4>1. CASE a = s /\ y = x
          <5>1. next'[a][y] = ns /\ ns # NULL /\ content'[a] = content[a]
            BY <4>1, <2>1, <2>2, <3>1 DEF GraphOK, GraphType, Live
          <5> QED
            BY <4>1, <5>1, <2>2, <1>0, Distinct DEF Built, Leads, Live, k, Contents
        <4>2. CASE ~(a = s /\ y = x)
          <5>1. next'[a][y] = next[a][y]
            BY <4>2, <2>1 DEF GraphOK, GraphType, Live
          <5>2. a \in Live
            BY <5>1, <3>1, Distinct DEF GraphOK, FreeHasNoEdges, NoEdges, Live
          <5> QED
            BY <5>1, <5>2, <3>1, <2>2 DEF GraphOK, GraphSound, Leads, Live
        <4> QED BY <4>1, <4>2
      <3>2. ASSUME NEW j \in StartKind, startInfo'[j] # NULL
            PROVE  Leads(startInfo[j], StartOf[j])'
        BY <3>2, <2>1, <2>2 DEF GraphOK, GraphSound, Leads, Live
      <3> QED BY <3>1, <3>2 DEF GraphSound, Leads, Live
    <2> QED BY <2>2, <2>3, <2>4, <2>5 DEF GraphOK, k
  <1> QED BY <1>1, <1>2
-----------------------------------------------------------------------------
(***************************************************************************)
(* Threads that do not take part in a step.                                *)
(***************************************************************************)
LEMMA Alone ==
  ASSUME WritersAlone, NEW t \in Thread, NEW u \in Thread, u # t, LocksOK(u), writer = t
  PROVE  ~Inside(u) /\ frame[u].pc \in {"idle", "wantWrite"} /\ ~frame[u].afterReset /\ mutex # u
  BY Distinct DEF WritersAlone, LocksOK, Inside

LEMMA RequestKind ==
  ASSUME TypeOK, NEW t \in Thread, StatesOK(t), frame[t].pc # "idle"
  PROVE  /\ frame[t].req \in Requests
         /\ frame[t].req.kind \in StartKind /\ frame[t].req.n \in Nat
  <1>1. frame[t].req \in Requests
    BY DEF TypeOK, Frames, StatesOK
  <1>2. CASE frame[t].req \in SearchRequest
    BY <1>1, <1>2, Sorts DEF SearchRequest
  <1>3. CASE frame[t].req \in RangeRequest
    <2>1. frame[t].req.kind = RangeKind /\ frame[t].req.n \in 0..MaxText
      BY <1>3 DEF RangeRequest
    <2>2. RangeKind \in StartKind /\ MaxText \in Nat
      BY Sorts
    <2> QED
      BY <1>1, <2>1, <2>2
  <1> QED
    BY <1>1, <1>2, <1>3, Sorts

LEMMA OthersUndisturbed ==
  ASSUME TypeOK, Grows, GraphOK', NEW u \in Thread, ThreadOK(u), frame'[u] = frame[u],
         u \in readers' <=> u \in readers, writer' = u <=> writer = u,
         mutex' = u <=> mutex = u,
         writer = u => UNCHANGED graph
  PROVE  ThreadOK(u)'
  <1> USE DEF ThreadOK
  <1>1. LocksOK(u)'
    BY DEF LocksOK, Inside
  <1>2. StatesOK(u)'
    <2>1. Live \subseteq Live'
      BY Distinct DEF Grows, Live
    <2>2. frame[u].pc = "begin" =>
            frame[u].req.kind \in StartKind /\ startInfo'[frame[u].req.kind] # NULL
      BY RequestKind DEF StatesOK, Grows
    <2> QED
      BY <2>1, <2>2 DEF StatesOK
  <1>3. RoomOK(u)'
    BY DEF RoomOK, LocksOK, graph
  <1> QED BY <1>1, <1>2, <1>3

-----------------------------------------------------------------------------
(***************************************************************************)
(* Steps of one thread.                                                    *)
(***************************************************************************)
LEMMA PcsAre ==
  /\ "idle" \in Pcs /\ "analyze" \in Pcs /\ "fillStart" \in Pcs /\ "begin" \in Pcs
  /\ "loop" \in Pcs /\ "load" \in Pcs /\ "run" \in Pcs /\ "oom" \in Pcs
  /\ "reset" \in Pcs /\ "wantWrite" \in Pcs /\ "clear" \in Pcs /\ "walk" \in Pcs
  /\ "restoreStart" \in Pcs /\ "restoreS" \in Pcs /\ "done" \in Pcs
  BY DEF Pcs

LEMMA FrameOf == ASSUME IInv, NEW t \in Thread PROVE frame[t] \in Frames /\ ThreadOK(t)
  BY DEF IInv, TypeOK, ThreadOK

LEMMA GraphStays == ASSUME IInv, UNCHANGED graph PROVE GraphOK' /\ Grows
  BY DEF graph, IInv, TypeOK, GraphOK, GraphType, GraphSound, Leads, FreeHasNoEdges,
     NoDuplicateStates, Live, Grows

LEMMA GraphNow == ASSUME IInv PROVE GraphOK
  BY DEF IInv, TypeOK, GraphOK, GraphType

\* A step of t that clears nothing preserves the invariant if it leaves the graph
\* and t itself in order.
LEMMA StepOf ==
  ASSUME IInv, NEW t \in Thread, NEW g \in Frames, SetFrame(t, g),
         readers' \subseteq Thread, writer' \in Thread \cup {NoThread},
         mutex' \in Thread \cup {NoThread}, WritersAlone', GraphOK', Grows,
         \A u \in Thread \ {t} :
           /\ u \in readers' <=> u \in readers
           /\ writer' = u <=> writer = u
           /\ mutex' = u <=> mutex = u,
         Inside(t) \/ UNCHANGED graph,
         frame'[t] = g => ThreadOK(t)'
  PROVE  IInv'
  <1>1. /\ frame'[t] = g /\ \A u \in Thread \ {t} : frame'[u] = frame[u]
        /\ frame' \in [Thread -> Frames]
    BY DEF IInv, TypeOK, SetFrame
  <1>2. TypeOK'
    BY <1>1 DEF TypeOK, GraphOK, GraphType
  <1>3. ASSUME NEW u \in Thread \ {t} PROVE ThreadOK(u)'
    <2>1. writer = u => UNCHANGED graph
      BY Alone DEF IInv
    <2> QED
      BY <1>1, <2>1, OthersUndisturbed DEF IInv, ThreadOK
  <1> QED
    BY <1>1, <1>2, <1>3 DEF IInv, ThreadOK, GraphOK

\* The end of a call, with any result but Fatal.
LEMMA FinishOK ==
  ASSUME IInv, NEW t \in Thread, frame[t].pc \notin {"idle", "wantWrite"},
         NEW r \in Results, Finish(t, r),
         UNCHANGED <<readers, writer>>, mutex' \in Thread \cup {NoThread}, mutex' # t,
         \A u \in Thread \ {t} : mutex' = u <=> mutex = u,
         GraphOK', Grows
  PROVE  IInv'
  <1> DEFINE g == [IdleFrame EXCEPT !.pc = "done", !.req = frame[t].req, !.result = r]
  <1>1. g \in Frames
    BY FrameOf, PcsAre DEF Frames, IdleFrame
  <1>2. Inside(t)
    BY FrameOf DEF ThreadOK, LocksOK
  <1>3. ASSUME frame'[t] = g PROVE ThreadOK(t)'
    <2>1. LocksOK(t)'
      BY <1>2, <1>3 DEF LocksOK, Inside, IdleFrame
    <2>2. StatesOK(t)'
      BY <1>3, FrameOf DEF StatesOK, IdleFrame, ThreadOK
    <2>3. RoomOK(t)'
      BY <1>3, Distinct DEF RoomOK, IdleFrame
    <2> QED BY <2>1, <2>2, <2>3 DEF ThreadOK
  <1> HIDE DEF g
  <1>4. SetFrame(t, g)
    BY DEF Finish, g
  <1> QED
    BY <1>1, <1>2, <1>3, <1>4, StepOf DEF IInv, TypeOK, WritersAlone

LEMMA QuickCheckOK == ASSUME IInv, NEW t \in Thread, QuickCheck(t) PROVE IInv'
  <1> DEFINE f == frame[t]
             g == [f EXCEPT !.pc = IF startInfo[f.req.kind] # NULL THEN "begin" ELSE "fillStart"]
  <1>1. /\ f \in Frames /\ ThreadOK(t) /\ SetFrame(t, g) /\ f.pc = "analyze"
        /\ UNCHANGED <<readers, writer, mutex>> /\ UNCHANGED graph
    BY FrameOf DEF QuickCheck, At, locks, Goto
  <1>2. g \in Frames
    BY <1>1, PcsAre DEF Frames
  <1>3. ASSUME frame'[t] = g PROVE ThreadOK(t)'
    BY <1>1, <1>3 DEF ThreadOK, LocksOK, StatesOK, RoomOK, Inside, graph, Live, Frames
  <1> HIDE DEF f, g
  <1> QED
    BY <1>1, <1>2, <1>3, StepOf, GraphStays DEF IInv, TypeOK, WritersAlone

LEMMA EnterOK == ASSUME IInv, NEW t \in Thread, NEW op, Enter(t, op) PROVE IInv'
  <1>1. PICK r \in Requests : SetFrame(t, [IdleFrame EXCEPT !.pc = "analyze", !.req = r])
    BY DEF Enter
  <1> DEFINE g == [IdleFrame EXCEPT !.pc = "analyze", !.req = r]
  <1>2. /\ ThreadOK(t) /\ frame[t].pc = "idle" /\ writer = NoThread
        /\ readers' = readers \cup {t} /\ UNCHANGED <<writer, mutex>> /\ UNCHANGED graph
    BY FrameOf DEF Enter, At, CanRead
  <1>3. g \in Frames
    BY PcsAre DEF Frames, IdleFrame
  <1>4. ASSUME frame'[t] = g PROVE ThreadOK(t)'
    <2>1. LocksOK(t)'
      BY <1>2, <1>4 DEF ThreadOK, LocksOK, Inside, IdleFrame
    <2>2. StatesOK(t)'
      BY <1>4, Distinct DEF StatesOK, IdleFrame
    <2>3. RoomOK(t)'
      BY <1>4, <1>2, Distinct DEF RoomOK, ThreadOK, IdleFrame
    <2> QED BY <2>1, <2>2, <2>3 DEF ThreadOK
  <1> HIDE DEF g
  <1> QED
    BY <1>1, <1>2, <1>3, <1>4, StepOf, GraphStays DEF IInv, TypeOK, WritersAlone, g

LEMMA FillStartOK == ASSUME IInv, NEW t \in Thread, FillStart(t) PROVE IInv'
  <1> DEFINE f == frame[t]
             k == f.req.kind
  <1>1. PICK ptr \in Ptr :
       /\ IF startInfo[k] # NULL
          THEN ptr = startInfo[k] /\ UNCHANGED graph
          ELSE /\ WorkqToCachedState(StartOf[k], ptr)
               /\ startInfo' = [startInfo EXCEPT ![k] = ptr]
               /\ UNCHANGED next
       /\ CASE ptr # NULL -> SetFrame(t, [f EXCEPT !.pc = "begin", !.afterReset = FALSE])
            [] ptr = NULL /\ ~f.afterReset -> Goto(t, "reset")
            [] ptr = NULL /\ f.afterReset -> Finish(t, Fatal)
    BY DEF FillStart
  <1>2. /\ f \in Frames /\ ThreadOK(t) /\ f.pc = "fillStart" /\ UNCHANGED <<readers, writer, mutex>>
        /\ k \in StartKind
    BY FrameOf, RequestKind DEF FillStart, At, locks, ThreadOK, IInv
  <1>3. GraphOK' /\ Grows /\ startInfo'[k] = ptr /\ (Built(ptr, StartOf[k]) \/ ptr # NULL)
    BY <1>1, <1>2, FillKeepsGraph, GraphStays, GraphNow DEF GraphOK, GraphType, graph
  <1>4. ~(ptr = NULL /\ f.afterReset)
    BY <1>2, <1>3, Sorts DEF Built, Contents, ThreadOK, RoomOK, GraphOK, GraphType, IInv, TypeOK
  <1>5. CASE ptr # NULL
    <2> DEFINE g == [f EXCEPT !.pc = "begin", !.afterReset = FALSE]
    <2>1. SetFrame(t, g)
      BY <1>1, <1>5
    <2>0. g \in Frames
      BY <1>2, PcsAre DEF Frames
    <2>2. ASSUME frame'[t] = g PROVE ThreadOK(t)'
      BY <1>2, <1>3, <1>5, <2>2 DEF ThreadOK, LocksOK, StatesOK, RoomOK, Inside, Frames
    <2> HIDE DEF g, f, k
    <2> QED
      BY <1>2, <1>3, <2>0, <2>1, <2>2, StepOf DEF IInv, TypeOK, WritersAlone, ThreadOK, LocksOK, f
  <1>6. CASE ptr = NULL /\ ~f.afterReset
    <2> DEFINE g == [f EXCEPT !.pc = "reset"]
    <2>1. SetFrame(t, g)
      BY <1>1, <1>6 DEF Goto
    <2>0. g \in Frames
      BY <1>2, PcsAre DEF Frames
    <2>2. ASSUME frame'[t] = g PROVE ThreadOK(t)'
      BY <1>2, <1>3, <1>6, <2>2 DEF ThreadOK, LocksOK, StatesOK, RoomOK, Inside, Frames
    <2> HIDE DEF g, f, k
    <2> QED
      BY <1>2, <1>3, <2>0, <2>1, <2>2, StepOf DEF IInv, TypeOK, WritersAlone, ThreadOK, LocksOK, f
  <1> QED BY <1>4, <1>5, <1>6

\* A thread that holds a state holds its contents too.
LEMMA Held ==
  ASSUME IInv, NEW t \in Thread, NEW a \in {frame[t].start, frame[t].s}, a \in Addr
  PROVE  a \in Live /\ content[a] \in Key
  BY FrameOf, Distinct DEF ThreadOK, StatesOK, Live, IInv, TypeOK, Special

\* Noting a match changes nothing else in the frame.
OnlyNotes(f, g) ==
  g = [f EXCEPT !.lastmatch = g.lastmatch, !.matches = g.matches]

LEMMA NotedType ==
  ASSUME NEW f \in Frames, NEW k, NEW pos \in Nat
  PROVE  Noted(f, k, pos) \in Frames /\ OnlyNotes(f, Noted(f, k, pos))
  <1> DEFINE last == IF k \in MatchKey THEN pos ELSE f.lastmatch
             ids == IF k \in MatchKey /\ ~f.req.earliest
                    THEN f.matches \cup MatchIds[k] ELSE f.matches
  <1>1. last \in Nat \cup {NoPos} /\ ids \in SUBSET AllIds
    BY Sorts DEF Frames, AllIds
  <1>2. Noted(f, k, pos) = [f EXCEPT !.lastmatch = last, !.matches = ids]
    BY DEF Noted, Frames
  <1> HIDE DEF last, ids
  <1>3. [f EXCEPT !.lastmatch = last, !.matches = ids] \in Frames
    BY <1>1, PcsAre DEF Frames
  <1>4. OnlyNotes(f, [f EXCEPT !.lastmatch = last, !.matches = ids])
    BY DEF OnlyNotes, Frames
  <1> QED BY <1>2, <1>3, <1>4

LEMMA BeginOK == ASSUME IInv, NEW t \in Thread, Begin(t) PROVE IInv'
  <1> DEFINE f == frame[t]
             s == startInfo[f.req.kind]
             g == Noted(f, content[s], 0)
  <1>1. /\ f \in Frames /\ ThreadOK(t) /\ f.pc = "begin" /\ UNCHANGED <<readers, writer, mutex>>
        /\ UNCHANGED graph /\ f.req \in Requests /\ f.req.kind \in StartKind /\ f.req.n \in Nat
    BY FrameOf, RequestKind DEF Begin, At, locks, ThreadOK, IInv
  <1>2. /\ GraphOK' /\ Grows /\ s \in Ptr /\ s # NULL /\ mutex # t
        /\ s \in Addr => s \in Live
    BY <1>1, GraphStays, Distinct
    DEF IInv, TypeOK, ThreadOK, StatesOK, LocksOK, GraphSound, Leads, Special
  <1>3. g \in Frames /\ OnlyNotes(f, g)
    BY <1>1, NotedType
  <1>4. ASSUME NEW r \in Results, Finish(t, r) PROVE IInv'
    BY <1>1, <1>2, <1>4, FinishOK DEF IInv, TypeOK
  <1>5. CASE s = DeadState
    <2>1. Finish(t, Answer(FALSE, NoPos, {}))
      BY <1>5, Distinct DEF Begin, Special
    <2>2. Answer(FALSE, NoPos, {}) \in Results
      BY DEF Answer, Results
    <2> QED BY <1>4, <2>1, <2>2
  <1>6. CASE s = FullMatchState
    <2> DEFINE ep == IF Forward = f.req.earliest THEN TextBegin(f.req) ELSE TextEnd(f.req)
    <2>1. Finish(t, Answer(TRUE, ep, {}))
      BY <1>6, Distinct DEF Begin, Special
    <2>2. Answer(TRUE, ep, {}) \in Results
      BY <1>1 DEF Answer, Results, TextBegin, TextEnd
    <2> HIDE DEF ep
    <2> QED BY <1>4, <2>1, <2>2
  <1>7. CASE s \in Addr /\ IsMatch(s) /\ f.req.earliest
    <2>1. Answer(TRUE, g.lastmatch, g.matches) \in Results
      BY <1>3 DEF Frames, Answer, Results
    <2> QED
      BY <1>4, <1>7, <2>1, Distinct DEF Begin, Special
  <1>8. CASE s \in Addr /\ ~(IsMatch(s) /\ f.req.earliest)
    <2> DEFINE h == [g EXCEPT !.pc = "loop", !.start = s, !.s = s]
    <2>1. SetFrame(t, h)
      BY <1>8, Distinct DEF Begin, Special
    <2>2. h \in Frames
      <3> HIDE DEF f, g, s
      <3> QED BY <1>3, <1>8, PcsAre DEF Frames
    <2>3. ASSUME frame'[t] = h PROVE ThreadOK(t)'
      <3>1. LocksOK(t)'
        BY <1>1, <1>3, <2>3 DEF ThreadOK, LocksOK, Inside, Frames, OnlyNotes
      <3>2. StatesOK(t)'
        <4>1. /\ h.pc = "loop" /\ h.start = s /\ h.s = s /\ h.req = f.req /\ h.p = f.p
              /\ h.seen = f.seen /\ h.savedS = f.savedS /\ h.savedStart = f.savedStart
          BY <1>1, <1>3 DEF Frames, OnlyNotes
        <4> HIDE DEF h, g
        <4> QED
          BY <1>1, <1>2, <1>8, <2>3, <4>1 DEF ThreadOK, StatesOK, graph, Live, s
      <3>3. RoomOK(t)'
        BY <1>1, <1>3, <2>3 DEF ThreadOK, RoomOK, Frames, OnlyNotes
      <3> QED BY <3>1, <3>2, <3>3 DEF ThreadOK
    <2> HIDE DEF h
    <2> QED
      BY <1>1, <1>2, <2>1, <2>2, <2>3, StepOf DEF IInv, TypeOK, WritersAlone
  <1> QED BY <1>2, <1>5, <1>6, <1>7, <1>8 DEF Ptr, Special

LEMMA NextByteOK == ASSUME IInv, NEW t \in Thread, NextByte(t) PROVE IInv'
  <1> DEFINE f == frame[t]
  <1>1. /\ f \in Frames /\ ThreadOK(t) /\ f.pc = "loop" /\ UNCHANGED <<readers, writer, mutex>>
        /\ UNCHANGED graph /\ f.req.n \in Nat
    BY FrameOf, RequestKind DEF NextByte, At, locks, ThreadOK, IInv
  <1>2. PICK q \in f.p .. f.req.n, x \in Input :
          SetFrame(t, [f EXCEPT !.pc = "load", !.c = x, !.p = q + 1])
    <2>1. f.p \in f.p .. f.req.n
      BY <1>1 DEF ThreadOK, StatesOK, Frames
    <2> QED
      BY <2>1 DEF NextByte, Input
  <1> DEFINE g == [f EXCEPT !.pc = "load", !.c = x, !.p = q + 1]
  <1>3. q + 1 \in Nat /\ q + 1 >= 1 /\ q <= f.req.n /\ f.p <= q
    BY <1>1 DEF Frames
  <1>4. g \in Frames
    BY <1>1, <1>3, PcsAre DEF Frames
  <1>5. ASSUME frame'[t] = g PROVE ThreadOK(t)'
    BY <1>1, <1>3, <1>5 DEF ThreadOK, LocksOK, StatesOK, RoomOK, Inside, graph, Live, Frames
  <1> HIDE DEF f
  <1> QED
    BY <1>1, <1>2, <1>4, <1>5, StepOf, GraphStays DEF IInv, TypeOK, WritersAlone

\* Arrival in ns, by a load or by a computation that has just built it.
LEMMA ArriveOK ==
  ASSUME IInv, NEW t \in Thread, frame[t].pc \in {"load", "run"},
         NEW ns \in Ptr \ {NULL}, NEW k, Arrive(t, ns, k), UNCHANGED <<readers, writer, mutex>>,
         GraphOK', Grows, ns \in Addr => ns \in Live'
  PROVE  IInv'
  <1> DEFINE f == frame[t]
             g == Noted(f, k, f.p - 1)
  <1>1. /\ f \in Frames /\ ThreadOK(t) /\ f.req.n \in Nat /\ f.p - 1 \in Nat /\ mutex # t
    <2>1. frame[t].req.n \in Nat
      BY FrameOf, RequestKind DEF ThreadOK, IInv
    <2> QED
      BY <2>1, FrameOf DEF ThreadOK, StatesOK, LocksOK, Frames
  <1>2. g \in Frames /\ OnlyNotes(f, g)
    BY <1>1, NotedType
  <1>3. ASSUME NEW r \in Results, Finish(t, r) PROVE IInv'
    BY <1>1, <1>3, FinishOK DEF IInv, TypeOK
  <1>4. CASE ns = DeadState
    <2>1. Finish(t, Answer(f.lastmatch # NoPos, f.lastmatch, f.matches))
      BY <1>4, Distinct DEF Arrive, Matched, Special
    <2>2. Answer(f.lastmatch # NoPos, f.lastmatch, f.matches) \in Results
      BY <1>1 DEF Answer, Results, Frames
    <2> QED BY <1>3, <2>1, <2>2
  <1>5. CASE ns = FullMatchState
    <2>1. Finish(t, Answer(TRUE, f.req.n, f.matches))
      BY <1>5, Distinct DEF Arrive, MoveTo, Special
    <2>2. Answer(TRUE, f.req.n, f.matches) \in Results
      BY <1>1 DEF Answer, Results, Frames
    <2> QED BY <1>3, <2>1, <2>2
  <1> DEFINE ends == f.p > f.req.n \/ (k \in MatchKey /\ f.req.earliest)
  <1>6. CASE ns \in Addr /\ ends
    <2>1. Finish(t, Answer(g.lastmatch # NoPos, g.lastmatch, g.matches))
      BY <1>6, Distinct DEF Arrive, MoveTo, Special
    <2>2. Answer(g.lastmatch # NoPos, g.lastmatch, g.matches) \in Results
      <3> HIDE DEF g
      <3> QED BY <1>2 DEF Answer, Results, Frames
    <2> QED BY <1>3, <2>1, <2>2
  <1>7. CASE ns \in Addr /\ ~ends
    <2> DEFINE h == [g EXCEPT !.pc = "loop", !.s = ns, !.c = NULL, !.afterReset = FALSE]
    <2>1. SetFrame(t, h)
      BY <1>7, Distinct DEF Arrive, MoveTo, Special
    <2>2. h \in Frames
      <3> HIDE DEF f, g
      <3> QED BY <1>2, <1>7, PcsAre DEF Frames
    <2>3. /\ h.pc = "loop" /\ h.start = f.start /\ h.s = ns /\ h.req = f.req /\ h.p = f.p
          /\ h.seen = f.seen /\ h.savedS = f.savedS /\ h.savedStart = f.savedStart
          /\ h.afterReset = FALSE /\ h.result = f.result
      BY <1>1, <1>2 DEF Frames, OnlyNotes
    <2>4. ASSUME frame'[t] = h PROVE ThreadOK(t)'
      <3> HIDE DEF h, g
      <3>1. LocksOK(t)'
        BY <1>1, <2>3, <2>4 DEF ThreadOK, LocksOK, Inside
      <3>2. StatesOK(t)'
        <4>1. ns \in Live' /\ f.p <= f.req.n /\ f.start \in Addr /\ f.start \in Live'
          BY <1>1, <1>7, Held, Distinct DEF ThreadOK, StatesOK, Frames, Grows, Live
        <4> QED
          BY <1>1, <2>3, <2>4, <4>1, Distinct DEF ThreadOK, StatesOK, Live
      <3>3. RoomOK(t)'
        BY <1>1, <2>3, <2>4 DEF ThreadOK, RoomOK
      <3> QED BY <3>1, <3>2, <3>3 DEF ThreadOK
    <2> HIDE DEF h
    <2> QED
      BY <1>1, <2>1, <2>2, <2>4, StepOf DEF IInv, TypeOK, WritersAlone, ThreadOK, LocksOK
  <1> QED BY <1>4, <1>5, <1>6, <1>7 DEF Ptr, Special

LEMMA LoadOK == ASSUME IInv, NEW t \in Thread, Load(t) PROVE IInv'
  <1> DEFINE f == frame[t]
             ns == next[f.s][f.c]
  <1>1. /\ f \in Frames /\ ThreadOK(t) /\ f.pc = "load" /\ UNCHANGED <<readers, writer, mutex>>
        /\ UNCHANGED graph /\ GraphOK' /\ Grows
    BY FrameOf, GraphStays DEF Load, At, locks
  <1>2. f.s \in Live /\ content[f.s] \in Key /\ f.c \in Input /\ ns \in Ptr
    BY <1>1, Held DEF ThreadOK, StatesOK, IInv, TypeOK, Live
  <1>3. CASE ns # NULL
    <2>1. ns \in Addr => ns \in Live'
      BY <1>1, <1>2, <1>3, Distinct DEF IInv, GraphSound, Leads, Special, Live, graph
    <2> QED
      BY <1>1, <1>2, <1>3, <2>1, ArriveOK DEF Load
  <1>4. CASE ns = NULL
    <2> DEFINE g == [f EXCEPT !.pc = "run"]
    <2>1. SetFrame(t, g)
      BY <1>4 DEF Load, Goto
    <2>2. g \in Frames
      BY <1>1, PcsAre DEF Frames
    <2>3. ASSUME frame'[t] = g PROVE ThreadOK(t)'
      BY <1>1, <2>3 DEF ThreadOK, LocksOK, StatesOK, RoomOK, Inside, graph, Live, Frames
    <2> HIDE DEF g, f
    <2> QED
      BY <1>1, <2>1, <2>2, <2>3, StepOf DEF IInv, TypeOK, WritersAlone
  <1> QED BY <1>3, <1>4

LEMMA RunOK == ASSUME IInv, NEW t \in Thread, RunStateOnByteUnlocked(t) PROVE IInv'
  <1> DEFINE f == frame[t]
             k == Delta[content[f.s]][f.c]
  <1>1. PICK ns \in Ptr :
          /\ RunStateOnByte(f.s, f.c, ns)
          /\ CASE ns # NULL -> Arrive(t, ns, IF ns \in Addr THEN content'[ns] ELSE NULL)
               [] ns = NULL /\ ~f.afterReset -> Goto(t, "oom")
               [] ns = NULL /\ f.afterReset -> Finish(t, Fatal)
    BY DEF RunStateOnByteUnlocked
  <1>2. /\ f \in Frames /\ ThreadOK(t) /\ f.pc = "run" /\ UNCHANGED <<readers, writer, mutex>>
    BY FrameOf DEF RunStateOnByteUnlocked, At, locks
  <1>3. f.s \in Live /\ content[f.s] \in Key /\ f.c \in Input /\ k \in Contents
    BY <1>2, Held, Sorts DEF ThreadOK, StatesOK
  <1>4. /\ GraphOK' /\ Grows
        /\ ns \in Addr => ns \in Live'
        /\ Built(ns, k) \/ ns # NULL
    BY <1>1, <1>3, RunKeepsGraph, GraphNow
  <1>5. ~(ns = NULL /\ f.afterReset)
    <2>1. f.afterReset => k \in Special \/ (k \in Key /\ budget >= Cost[k])
      <3> HIDE DEF k
      <3> QED BY <1>2, <1>3, Sorts DEF ThreadOK, RoomOK, Contents, IInv, TypeOK
    <2> QED BY <2>1, <1>4 DEF Built
  <1>6. CASE ns # NULL
    <2> DEFINE v == IF ns \in Addr THEN content'[ns] ELSE NULL
    <2>1. Arrive(t, ns, v)
      BY <1>1, <1>6
    <2> HIDE DEF v
    <2> QED BY <1>2, <1>4, <1>6, <2>1, ArriveOK
  <1>7. CASE ns = NULL /\ ~f.afterReset
    <2> DEFINE g == [f EXCEPT !.pc = "oom"]
    <2>1. SetFrame(t, g)
      BY <1>1, <1>7 DEF Goto
    <2>2. g \in Frames
      BY <1>2, PcsAre DEF Frames
    <2>3. ASSUME frame'[t] = g PROVE ThreadOK(t)'
      <3>1. LocksOK(t)' /\ RoomOK(t)'
        BY <1>2, <1>7, <2>3 DEF ThreadOK, LocksOK, RoomOK, Inside, Frames
      <3>2. StatesOK(t)'
        <4>1. {f.start, f.s} \cup f.seen \subseteq Live' \cup {NULL, FullMatchState}
          <5>1. Live \subseteq Live'
            BY <1>4, Distinct DEF Grows, Live
          <5> QED
            BY <1>2, <5>1 DEF ThreadOK, StatesOK
        <4> QED
          BY <1>2, <2>3, <4>1 DEF ThreadOK, StatesOK, Frames
      <3> QED BY <3>1, <3>2 DEF ThreadOK
    <2> HIDE DEF g, k
    <2>4. Inside(t)
      BY <1>2 DEF ThreadOK, LocksOK
    <2> QED
      BY <1>2, <1>4, <2>1, <2>2, <2>3, <2>4, StepOf DEF IInv, TypeOK, WritersAlone
  <1> QED BY <1>5, <1>6, <1>7

LEMMA OutOfMemoryOK == ASSUME IInv, NEW t \in Thread, OutOfMemory(t) PROVE IInv'
  <1> DEFINE f == frame[t]
             inText == f.p <= f.req.n
             g == [f EXCEPT !.pc = "reset",
                            !.resetp = IF inText THEN f.p ELSE @,
                            !.savedStart = IF inText THEN content[f.start] ELSE NULL,
                            !.savedS = content[f.s],
                            !.start = NULL, !.s = NULL]
  <1>1. /\ f \in Frames /\ ThreadOK(t) /\ f.pc = "oom" /\ UNCHANGED <<readers, writer, mutex>>
        /\ UNCHANGED graph /\ GraphOK' /\ Grows
    BY FrameOf, GraphStays DEF OutOfMemory, At, locks
  <1>2. CASE inText /\ TooSlow(f)
    <2>1. GaveUp \in Results
      BY DEF GaveUp, Results
    <2>2. Finish(t, GaveUp)
      BY <1>2 DEF OutOfMemory
    <2> QED
      BY <1>1, <2>1, <2>2, FinishOK DEF ThreadOK, LocksOK, IInv, TypeOK
  <1>3. CASE ~(inText /\ TooSlow(f))
    <2>1. SetFrame(t, g)
      BY <1>3 DEF OutOfMemory
    <2>2. content[f.s] \in Key /\ (inText => content[f.start] \in Key)
      BY <1>1, Held DEF ThreadOK, StatesOK
    <2>3. g \in Frames
      <3> DEFINE resetp == IF inText THEN f.p ELSE f.resetp
                 savedStart == IF inText THEN content[f.start] ELSE NULL
      <3>1. resetp \in Nat \cup {NoPos} /\ savedStart \in Key \cup {NULL}
        BY <1>1, <2>2 DEF Frames
      <3> DEFINE savedS == content[f.s]
      <3>2. g = [f EXCEPT !.pc = "reset", !.resetp = resetp, !.savedStart = savedStart,
                          !.savedS = savedS, !.start = NULL, !.s = NULL]
        BY <1>1 DEF Frames
      <3>3. savedS \in Key \cup {NULL}
        BY <2>2
      <3> HIDE DEF g, resetp, savedStart, savedS, f
      <3> QED BY <1>1, <3>1, <3>2, <3>3, PcsAre DEF Frames
    <2>4. /\ g.pc = "reset" /\ g.start = NULL /\ g.s = NULL /\ g.seen = f.seen /\ g.req = f.req
          /\ g.p = f.p /\ g.c = f.c /\ g.afterReset = f.afterReset /\ g.result = f.result
          /\ g.savedS = content[f.s]
          /\ g.savedStart = IF inText THEN content[f.start] ELSE NULL
      BY <1>1 DEF Frames
    <2>5. ASSUME frame'[t] = g PROVE ThreadOK(t)'
      <3> HIDE DEF g
      <3>1. LocksOK(t)' /\ RoomOK(t)'
        BY <1>1, <2>4, <2>5 DEF ThreadOK, LocksOK, RoomOK, Inside
      <3>2. StatesOK(t)'
        BY <1>1, <2>2, <2>4, <2>5, Distinct DEF ThreadOK, StatesOK
      <3> QED BY <3>1, <3>2 DEF ThreadOK
    <2> HIDE DEF g, f
    <2> QED
      BY <1>1, <2>1, <2>3, <2>5, StepOf DEF IInv, TypeOK, WritersAlone
  <1> QED BY <1>2, <1>3

LEMMA DropReaderLockOK == ASSUME IInv, NEW t \in Thread, DropReaderLock(t) PROVE IInv'
  <1> DEFINE f == frame[t]
             g == [f EXCEPT !.pc = IF writer = t THEN "clear" ELSE "wantWrite"]
  <1>1. /\ f \in Frames /\ ThreadOK(t) /\ f.pc = "reset" /\ UNCHANGED <<writer, mutex>>
        /\ UNCHANGED graph /\ GraphOK' /\ Grows
        /\ readers' = IF writer = t THEN readers ELSE readers \ {t}
    BY FrameOf, GraphStays DEF DropReaderLock, At
  <1>2. SetFrame(t, g)
    BY DEF DropReaderLock, Goto
  <1>3. g \in Frames
    BY <1>1, PcsAre DEF Frames
  <1>4. ASSUME frame'[t] = g PROVE ThreadOK(t)'
    BY <1>1, <1>4 DEF ThreadOK, LocksOK, StatesOK, RoomOK, Inside, graph, Live, Frames
  <1> HIDE DEF g, f
  <1> QED
    BY <1>1, <1>2, <1>3, <1>4, StepOf DEF IInv, TypeOK, WritersAlone

LEMMA WriterLockOK == ASSUME IInv, NEW t \in Thread, WriterLock(t) PROVE IInv'
  <1> DEFINE f == frame[t]
             g == [f EXCEPT !.pc = "clear"]
  <1>1. /\ f \in Frames /\ ThreadOK(t) /\ f.pc = "wantWrite" /\ UNCHANGED <<readers, mutex>>
        /\ UNCHANGED graph /\ GraphOK' /\ Grows
        /\ writer = NoThread /\ readers = {} /\ writer' = t
    BY FrameOf, GraphStays DEF WriterLock, At, CanWrite
  <1>2. SetFrame(t, g)
    BY DEF WriterLock, Goto
  <1>3. g \in Frames
    BY <1>1, PcsAre DEF Frames
  <1>4. ASSUME frame'[t] = g PROVE ThreadOK(t)'
    BY <1>1, <1>4 DEF ThreadOK, LocksOK, StatesOK, RoomOK, Inside, graph, Live, Frames
  <1> HIDE DEF g, f
  <1> QED
    BY <1>1, <1>2, <1>3, <1>4, StepOf, Distinct DEF IInv, TypeOK, WritersAlone

\* The only step that takes states away; it is taken by a thread that is alone.
LEMMA ClearCacheOK == ASSUME IInv, NEW t \in Thread, ClearCache(t) PROVE IInv'
  <1> DEFINE f == frame[t]
             pc == IF f.savedS = NULL THEN "analyze"
                   ELSE IF f.savedStart = NULL THEN "restoreS" ELSE "restoreStart"
             g == [f EXCEPT !.afterReset = TRUE, !.pc = pc]
  <1>1. /\ f \in Frames /\ ThreadOK(t) /\ f.pc = "clear" /\ UNCHANGED <<readers, writer, mutex>>
        /\ writer = t /\ f.req.kind \in StartKind
    BY FrameOf, RequestKind DEF ClearCache, At, locks, ThreadOK, LocksOK, IInv
  <1>2. /\ startInfo' = [k \in StartKind |-> NULL]
        /\ content' = [a \in Addr |-> NULL]
        /\ next' = [a \in Addr |-> NoEdges]
        /\ budget' = StateBudget
        /\ SetFrame(t, g)
    BY DEF ClearCache, ClearStates, AfterClear
  <1>3. g \in Frames
    <2>1. pc \in Pcs
      BY PcsAre
    <2> HIDE DEF pc
    <2> QED BY <1>1, <2>1 DEF Frames
  <1>4. /\ frame'[t] = g /\ \A u \in Thread \ {t} : frame'[u] = frame[u]
        /\ frame' \in [Thread -> Frames]
    BY <1>2, <1>3 DEF SetFrame, IInv, TypeOK
  <1>5. Live' = {}
    BY <1>2 DEF Live
  <1>6. GraphSound' /\ FreeHasNoEdges' /\ NoDuplicateStates'
    BY <1>2, <1>5 DEF GraphSound, FreeHasNoEdges, NoDuplicateStates
  <1>7. TypeOK'
    BY <1>1, <1>2, <1>4, Sorts DEF IInv, TypeOK, NoEdges, Ptr
  <1>8. ThreadOK(t)'
    <2>1. LocksOK(t)'
      BY <1>1, <1>4 DEF ThreadOK, LocksOK, Inside, Frames
    <2>2. StatesOK(t)'
      <3>1. /\ g.pc = pc /\ g.start = f.start /\ g.s = f.s /\ g.req = f.req /\ g.p = f.p
            /\ g.c = f.c /\ g.seen = f.seen /\ g.savedS = f.savedS /\ g.savedStart = f.savedStart
        BY <1>1 DEF Frames
      <3>2. /\ f.start = NULL /\ f.s = NULL /\ f.seen = {} /\ f.req # NULL
            /\ f.savedS = NULL => f.p = 0 /\ f.savedStart = NULL
            /\ f.savedS # NULL => f.c \in Input /\ f.p >= 1
            /\ f.savedS # NULL /\ f.p <= f.req.n => f.savedStart # NULL
        BY <1>1 DEF ThreadOK, StatesOK
      <3> HIDE DEF g, f
      <3> QED
        BY <1>1, <1>4, <1>5, <3>1, <3>2 DEF StatesOK
    <2>3. RoomOK(t)'
      <3>1. \A k \in Key : 3 * Cost[k] <= budget' /\ 2 * Cost[k] <= budget'
        BY <1>2, RoomForThree, Sorts
      <3> QED
        BY <1>1, <1>2, <1>4, <3>1 DEF ThreadOK, RoomOK, StatesOK, Frames
    <2> QED BY <2>1, <2>2, <2>3 DEF ThreadOK
  <1>9. ASSUME NEW u \in Thread \ {t} PROVE ThreadOK(u)'
    <2>1. /\ frame[u].pc \in {"idle", "wantWrite"} /\ ~frame[u].afterReset /\ ThreadOK(u)
          /\ frame'[u] = frame[u]
      BY <1>1, <1>4, Alone, FrameOf DEF IInv
    <2>2. LocksOK(u)'
      BY <1>1, <2>1 DEF ThreadOK, LocksOK, Inside
    <2>3. StatesOK(u)'
      BY <1>5, <2>1 DEF ThreadOK, StatesOK
    <2>4. RoomOK(u)'
      BY <2>1 DEF ThreadOK, RoomOK
    <2> QED BY <2>2, <2>3, <2>4 DEF ThreadOK
  <1>10. WritersAlone'
    BY <1>1 DEF IInv, WritersAlone
  <1> QED BY <1>6, <1>7, <1>8, <1>9, <1>10 DEF IInv, ThreadOK
\* The states saved before a reset fit into the empty cache: neither rebuilding
\* fails, and room for one more state is left.
LEMMA RestoreStartOK == ASSUME IInv, NEW t \in Thread, RestoreStart(t) PROVE IInv'
  <1> DEFINE f == frame[t]
             k == f.savedStart
  <1>1. PICK ptr \in Ptr :
          /\ CachedState(k, ptr)
          /\ IF ptr = NULL THEN Finish(t, Fatal)
             ELSE SetFrame(t, [f EXCEPT !.pc = "restoreS", !.start = ptr, !.savedStart = NULL])
    BY DEF RestoreStart
  <1>2. /\ f \in Frames /\ ThreadOK(t) /\ f.pc = "restoreStart"
        /\ UNCHANGED <<readers, writer, mutex>> /\ UNCHANGED <<next, startInfo>>
    BY FrameOf DEF RestoreStart, At, locks
  <1>3. k \in Key /\ \A j \in Key : Cost[j] \in Nat /\ 3 * Cost[j] <= budget /\ budget \in Int
    BY <1>2, Sorts DEF ThreadOK, StatesOK, RoomOK, Frames, IInv, TypeOK
  <1>4. /\ GraphOK' /\ Grows
        /\ ptr \in Addr /\ ptr \in Live'
        /\ budget' \in Int /\ budget' >= budget - Cost[k]
    <2> HIDE DEF k
    <2>1. GraphOK' /\ Grows
      BY <1>1, <1>2, <1>3, GraphNow, CachedStateKeepsGraph
    <2>2. /\ ptr # NULL => ptr \in Addr /\ content'[ptr] = k
          /\ budget >= Cost[k] => ptr # NULL /\ budget' >= budget - Cost[k]
      BY <1>1, <1>3, GraphNow, CachedStateFinds
    <2>3. budget >= Cost[k]
      BY <1>3
    <2> QED
      BY <1>3, <2>1, <2>2, <2>3, Distinct DEF GraphOK, GraphType, Live
  <1> DEFINE g == [f EXCEPT !.pc = "restoreS", !.start = ptr, !.savedStart = NULL]
  <1>5. SetFrame(t, g)
    BY <1>1, <1>4, Distinct
  <1>6. g \in Frames
    BY <1>2, <1>4, PcsAre DEF Frames
  <1>7. /\ g.pc = "restoreS" /\ g.start = ptr /\ g.savedStart = NULL /\ g.savedS = f.savedS
        /\ g.s = f.s /\ g.seen = f.seen /\ g.req = f.req /\ g.p = f.p /\ g.c = f.c
        /\ g.afterReset = f.afterReset /\ g.result = f.result
    BY <1>2 DEF Frames
  <1>8. \A j \in Key : 2 * Cost[j] <= budget'
    BY <1>3, <1>4
  <1> HIDE DEF g, f, k
  <1>9. ASSUME frame'[t] = g PROVE ThreadOK(t)'
    <2>1. LocksOK(t)'
      BY <1>2, <1>7, <1>9 DEF f, ThreadOK, LocksOK, Inside
    <2>2. RoomOK(t)'
      BY <1>2, <1>7, <1>8, <1>9 DEF f, ThreadOK, RoomOK
    <2>3. StatesOK(t)'
      BY <1>2, <1>4, <1>7, <1>9 DEF f, ThreadOK, StatesOK
    <2> QED BY <2>1, <2>2, <2>3 DEF ThreadOK
  <1>10. Inside(t)
    BY <1>2 DEF f, ThreadOK, LocksOK
  <1> QED
    BY <1>2, <1>4, <1>5, <1>6, <1>9, <1>10, StepOf DEF IInv, TypeOK, WritersAlone

LEMMA RestoreSOK == ASSUME IInv, NEW t \in Thread, RestoreS(t) PROVE IInv'
  <1> DEFINE f == frame[t]
             k == f.savedS
  <1>1. PICK ptr \in Ptr :
          /\ CachedState(k, ptr)
          /\ IF ptr = NULL THEN Finish(t, Fatal)
             ELSE SetFrame(t, [f EXCEPT !.pc = "run", !.s = ptr, !.savedS = NULL])
    BY DEF RestoreS
  <1>2. /\ f \in Frames /\ ThreadOK(t) /\ f.pc = "restoreS"
        /\ UNCHANGED <<readers, writer, mutex>> /\ UNCHANGED <<next, startInfo>>
    BY FrameOf DEF RestoreS, At, locks
  <1>3. k \in Key /\ \A j \in Key : Cost[j] \in Nat /\ 2 * Cost[j] <= budget /\ budget \in Int
    BY <1>2, Sorts DEF ThreadOK, StatesOK, RoomOK, Frames, IInv, TypeOK
  <1>4. /\ GraphOK' /\ Grows
        /\ ptr \in Addr /\ ptr \in Live'
        /\ budget' \in Int /\ budget' >= budget - Cost[k]
    <2> HIDE DEF k
    <2>1. GraphOK' /\ Grows
      BY <1>1, <1>2, <1>3, GraphNow, CachedStateKeepsGraph
    <2>2. /\ ptr # NULL => ptr \in Addr /\ content'[ptr] = k
          /\ budget >= Cost[k] => ptr # NULL /\ budget' >= budget - Cost[k]
      BY <1>1, <1>3, GraphNow, CachedStateFinds
    <2>3. budget >= Cost[k]
      BY <1>3
    <2> QED
      BY <1>3, <2>1, <2>2, <2>3, Distinct DEF GraphOK, GraphType, Live
  <1> DEFINE g == [f EXCEPT !.pc = "run", !.s = ptr, !.savedS = NULL]
  <1>5. SetFrame(t, g)
    BY <1>1, <1>4, Distinct
  <1>6. g \in Frames
    BY <1>2, <1>4, PcsAre DEF Frames
  <1>7. /\ g.pc = "run" /\ g.s = ptr /\ g.savedS = NULL /\ g.savedStart = f.savedStart
        /\ g.start = f.start /\ g.seen = f.seen /\ g.req = f.req /\ g.p = f.p /\ g.c = f.c
        /\ g.afterReset = f.afterReset /\ g.result = f.result
    BY <1>2 DEF Frames
  <1>8. \A j \in Key : 1 * Cost[j] <= budget'
    BY <1>3, <1>4
  <1>11. Live \subseteq Live'
    BY <1>4, Distinct DEF Grows, Live
  <1> HIDE DEF g, f, k
  <1>9. ASSUME frame'[t] = g PROVE ThreadOK(t)'
    <2>1. LocksOK(t)'
      BY <1>2, <1>7, <1>9 DEF f, ThreadOK, LocksOK, Inside
    <2>2. RoomOK(t)'
      BY <1>2, <1>7, <1>8, <1>9 DEF f, ThreadOK, RoomOK
    <2>3. StatesOK(t)'
      <3>1. f.start \in Live' \cup {NULL, FullMatchState} /\ f.seen = {}
            /\ (f.p <= f.req.n => f.start \in Addr) /\ f.c \in Input /\ f.p >= 1
            /\ f.req # NULL /\ f.savedStart = NULL
        BY <1>2, <1>3, <1>11, Distinct DEF f, k, ThreadOK, StatesOK
      <3> QED
        BY <1>4, <1>7, <1>9, <3>1 DEF StatesOK
    <2> QED BY <2>1, <2>2, <2>3 DEF ThreadOK
  <1>10. Inside(t)
    BY <1>2 DEF f, ThreadOK, LocksOK
  <1> QED
    BY <1>2, <1>4, <1>5, <1>6, <1>9, <1>10, StepOf DEF IInv, TypeOK, WritersAlone

LEMMA ReturnOK == ASSUME IInv, NEW t \in Thread, Return(t) PROVE IInv'
  <1>1. /\ ThreadOK(t) /\ frame[t].pc = "done" /\ UNCHANGED mutex /\ UNCHANGED graph
        /\ writer' = IF writer = t THEN NoThread ELSE writer
        /\ readers' = IF writer = t THEN readers ELSE readers \ {t}
    BY FrameOf DEF Return, At
  <1>2. SetFrame(t, IdleFrame) /\ IdleFrame \in Frames
    BY PcsAre DEF Return, Frames, IdleFrame
  <1>3. WritersAlone' /\ ~Inside(t)' /\ mutex # t
    BY <1>1, Distinct DEF IInv, WritersAlone, Inside, ThreadOK, LocksOK
  <1>4. ASSUME frame'[t] = IdleFrame PROVE ThreadOK(t)'
    BY <1>1, <1>3, <1>4, Distinct DEF ThreadOK, LocksOK, StatesOK, RoomOK, IdleFrame
  <1> QED
    BY <1>1, <1>2, <1>3, <1>4, StepOf, GraphStays, Distinct DEF IInv, TypeOK

-----------------------------------------------------------------------------
(***************************************************************************)
(* The range walk.                                                         *)
(***************************************************************************)

\* The end of a walk gives mutex_ back.
LEMMA FinishRangeOK ==
  ASSUME IInv, NEW t \in Thread, frame[t].pc = "walk", NEW ok \in BOOLEAN, FinishRange(t, ok),
         UNCHANGED <<readers, writer>>, GraphOK', Grows
  PROVE  IInv'
  <1>1. mutex' = NoThread /\ mutex = t /\ NoThread \notin Thread
    BY FrameOf, Distinct DEF FinishRange, ThreadOK, LocksOK
  <1>2. Answer(ok, NoPos, {}) \in Results
    BY DEF Answer, Results
  <1> QED
    BY <1>1, <1>2, FinishOK DEF FinishRange

\* A walk goes on, from a state in the cache.
LEMMA WalksOnOK ==
  ASSUME IInv, NEW t \in Thread, frame[t].pc = "walk", NEW g \in Frames, SetFrame(t, g),
         g.pc = "walk", g.start = frame[t].start, g.req = frame[t].req,
         g.savedS = frame[t].savedS, g.savedStart = frame[t].savedStart,
         g.afterReset = frame[t].afterReset, g.result = frame[t].result,
         g.s # NULL, {g.s} \cup g.seen \subseteq Live' \cup {FullMatchState},
         UNCHANGED <<readers, writer, mutex>>, GraphOK', Grows
  PROVE  IInv'
  <1>1. ThreadOK(t) /\ Live \subseteq Live'
    BY FrameOf, Distinct DEF Grows, Live
  <1>2. ASSUME frame'[t] = g PROVE ThreadOK(t)'
    <2>1. LocksOK(t)' /\ RoomOK(t)'
      BY <1>1, <1>2 DEF ThreadOK, LocksOK, RoomOK, Inside
    <2>2. StatesOK(t)'
      BY <1>1, <1>2 DEF ThreadOK, StatesOK
    <2> QED BY <2>1, <2>2 DEF ThreadOK
  <1> QED
    BY <1>1, <1>2, StepOf DEF IInv, TypeOK, WritersAlone, ThreadOK, LocksOK

\* What a pass begins with.
LEMMA PassType ==
  ASSUME NEW f \in Frames, NEW pass \in {"none", "min", "max"}
  PROVE  LET g == StartPass(f, pass) IN
         /\ g \in Frames
         /\ g.pc = "walk" /\ g.start = f.start /\ g.s = f.start /\ g.seen = {} /\ g.req = f.req
         /\ g.savedS = f.savedS /\ g.savedStart = f.savedStart
         /\ g.afterReset = f.afterReset /\ g.result = f.result
  <1> DEFINE g == StartPass(f, pass)
  <1>1. f.start \in Addr \cup {FullMatchState, NULL} /\ {} \subseteq Input
    BY DEF Frames
  <1>2. g \in Frames
    BY ZenonT(30), <1>1, PcsAre DEF Frames, StartPass
  <1>3. /\ g.pc = "walk" /\ g.start = f.start /\ g.s = f.start /\ g.seen = {} /\ g.req = f.req
        /\ g.savedS = f.savedS /\ g.savedStart = f.savedStart
        /\ g.afterReset = f.afterReset /\ g.result = f.result
    BY DEF Frames, StartPass
  <1> QED BY <1>2, <1>3

LEMMA BeginRangeOK == ASSUME IInv, NEW t \in Thread, BeginRange(t) PROVE IInv'
  <1> DEFINE f == frame[t]
             s == startInfo[f.req.kind]
  <1>1. /\ f \in Frames /\ ThreadOK(t) /\ f.pc = "begin" /\ UNCHANGED <<readers, writer>>
        /\ UNCHANGED graph /\ GraphOK' /\ Grows /\ f.req.kind \in StartKind
    BY FrameOf, GraphStays, RequestKind DEF BeginRange, At, ThreadOK, IInv
  <1>2. s \in Ptr \ {NULL} /\ (s \in Addr => s \in Live)
    BY <1>1, Distinct DEF ThreadOK, StatesOK, IInv, TypeOK, GraphSound, Leads, Special
  <1>3. CASE s \in Special
    <2>1. Finish(t, Answer(s = DeadState, NoPos, {})) /\ UNCHANGED mutex
      BY <1>3 DEF BeginRange
    <2>2. Answer(s = DeadState, NoPos, {}) \in Results
      BY DEF Answer, Results
    <2> QED
      BY <1>1, <2>1, <2>2, FinishOK DEF ThreadOK, LocksOK, IInv, TypeOK
  <1>4. CASE s \notin Special
    <2> DEFINE e == [f EXCEPT !.start = s]
               g == StartPass(e, "min")
    <2>1. s \in Addr /\ s \in Live
      BY <1>2, <1>4 DEF Ptr
    <2>2. SetFrame(t, g) /\ mutex' = t /\ mutex = NoThread
      BY <1>4 DEF BeginRange, CanLock
    <2>3. /\ e \in Frames
          /\ e.start = s /\ e.req = f.req /\ e.savedS = f.savedS
          /\ e.savedStart = f.savedStart /\ e.afterReset = f.afterReset /\ e.result = f.result
      BY <1>1, <2>1 DEF Frames
    <2> HIDE DEF e
    <2>4. /\ g \in Frames
          /\ g.pc = "walk" /\ g.start = s /\ g.s = s /\ g.seen = {} /\ g.req = f.req
          /\ g.savedS = f.savedS /\ g.savedStart = f.savedStart
          /\ g.afterReset = f.afterReset /\ g.result = f.result
      BY <2>3, PassType
    <2> HIDE DEF g, s, f
    <2>5. ASSUME frame'[t] = g PROVE ThreadOK(t)'
      <3>1. ~f.afterReset
        BY <1>1 DEF f, ThreadOK, RoomOK
      <3>2. LocksOK(t)' /\ RoomOK(t)'
        BY <1>1, <2>2, <2>4, <2>5, <3>1 DEF f, ThreadOK, LocksOK, RoomOK, Inside
      <3>3. StatesOK(t)'
        <4>1. s \in Live' /\ s # NULL /\ f.req # NULL /\ f.savedS = NULL /\ f.savedStart = NULL
          BY <1>1, <1>2, <2>1 DEF f, ThreadOK, StatesOK, Live, graph
        <4> QED
          BY <2>1, <2>4, <2>5, <4>1 DEF StatesOK
      <3> QED BY <3>2, <3>3 DEF ThreadOK
    <2> QED
      BY <1>1, <2>2, <2>4, <2>5, StepOf, Distinct DEF IInv, TypeOK, WritersAlone
  <1> QED BY <1>3, <1>4

LEMMA EndPassOK ==
  ASSUME IInv, NEW t \in Thread, frame[t].pc = "walk", EndPass(t),
         UNCHANGED <<readers, writer>>, GraphOK', Grows
  PROVE  IInv'
  <1> DEFINE f == frame[t]
             g == StartPass(f, "max")
  <1>1. f \in Frames /\ ThreadOK(t)
    BY FrameOf
  <1>2. CASE f.pass = "min"
    <2>1. SetFrame(t, g) /\ UNCHANGED mutex
      BY <1>2 DEF EndPass
    <2>2. /\ g \in Frames
          /\ g.pc = "walk" /\ g.start = f.start /\ g.s = f.start /\ g.seen = {} /\ g.req = f.req
          /\ g.savedS = f.savedS /\ g.savedStart = f.savedStart
          /\ g.afterReset = f.afterReset /\ g.result = f.result
      BY <1>1, PassType
    <2>3. f.start # NULL /\ f.start \in Live'
      BY <1>1, Distinct DEF ThreadOK, StatesOK, Grows, Live, Special
    <2> HIDE DEF g
    <2> QED
      BY <2>1, <2>2, <2>3, WalksOnOK
  <1>3. CASE f.pass # "min"
    BY <1>3, FinishRangeOK DEF EndPass
  <1> QED BY <1>2, <1>3

LEMMA WalkHeadOK == ASSUME IInv, NEW t \in Thread, WalkHead(t) PROVE IInv'
  <1> DEFINE f == frame[t]
             g == [f EXCEPT !.seen = @ \cup {f.s},
                            !.todo = IF f.pass = "min" THEN Input ELSE Class]
  <1>1. /\ f \in Frames /\ ThreadOK(t) /\ f.pc = "walk" /\ UNCHANGED <<readers, writer>>
        /\ UNCHANGED graph /\ GraphOK' /\ Grows
    BY FrameOf, GraphStays DEF WalkHead, At
  <1>2. CASE f.p = f.req.n \/ f.s \in f.seen
    BY <1>1, <1>2, EndPassOK DEF WalkHead
  <1>3. CASE ~(f.p = f.req.n \/ f.s \in f.seen)
    <2>1. SetFrame(t, g) /\ UNCHANGED mutex
      BY <1>3 DEF WalkHead
    <2>2. f.s # NULL /\ {f.s} \cup f.seen \subseteq Live' \cup {FullMatchState}
      BY <1>1, Distinct DEF ThreadOK, StatesOK, Frames, Grows, Live
    <2>3. g \in Frames
      <3> DEFINE seen == f.seen \cup {f.s}
                 todo == IF f.pass = "min" THEN Input ELSE Class
      <3>1. seen \in SUBSET (Addr \cup {FullMatchState}) /\ todo \in SUBSET Input
        BY <1>1, <2>2 DEF Frames, Input
      <3> HIDE DEF seen, todo
      <3>2. [f EXCEPT !.seen = seen, !.todo = todo] \in Frames
        BY <1>1, <3>1 DEF Frames
      <3> QED
        BY <1>1, <3>2 DEF Frames, seen, todo
    <2>4. /\ g.pc = "walk" /\ g.start = f.start /\ g.s = f.s /\ g.seen = f.seen \cup {f.s}
          /\ g.req = f.req /\ g.savedS = f.savedS /\ g.savedStart = f.savedStart
          /\ g.afterReset = f.afterReset /\ g.result = f.result
      BY <1>1 DEF Frames
    <2> HIDE DEF g
    <2> QED
      BY <1>1, <2>1, <2>2, <2>3, <2>4, WalksOnOK
  <1> QED BY <1>2, <1>3

LEMMA WalkByteOK == ASSUME IInv, NEW t \in Thread, WalkByte(t) PROVE IInv'
  <1> DEFINE f == frame[t]
  <1>1. /\ f \in Frames /\ ThreadOK(t) /\ f.pc = "walk" /\ UNCHANGED <<readers, writer>>
    BY FrameOf DEF WalkByte, At
  <1> DEFINE Goes(x, ns) == [f EXCEPT !.s = ns, !.p = @ + 1, !.todo = {}]
             Skips(x) == [f EXCEPT !.todo = @ \ {x}]
  <1>2. PICK x \in f.todo, ns \in Ptr :
          /\ RunStateOnByte(f.s, x, ns)
          /\ \/ EndPass(t)
             \/ \E ok \in BOOLEAN : FinishRange(t, ok)
             \/ ns \in Addr \cup {FullMatchState} /\ SetFrame(t, Goes(x, ns)) /\ UNCHANGED mutex
             \/ SetFrame(t, Skips(x)) /\ UNCHANGED mutex
    BY DEF WalkByte
  <1>3. /\ GraphOK' /\ Grows
        /\ ns \in Addr => ns \in Live'
    <2>1. CASE f.s = FullMatchState
      <3>1. ns = FullMatchState /\ UNCHANGED graph
        BY <1>2, <2>1 DEF RunStateOnByte
      <3> QED
        BY <3>1, GraphStays, Distinct DEF Special
    <2>2. CASE f.s # FullMatchState
      <3>1. f.s \in Live /\ x \in Input
        BY <1>1, <2>2 DEF ThreadOK, StatesOK, Frames
      <3> QED
        BY <1>2, <3>1, RunKeepsGraph, GraphNow
    <2> QED BY <2>1, <2>2
  <1>4. CASE EndPass(t)
    BY <1>1, <1>3, <1>4, EndPassOK
  <1>5. CASE \E ok \in BOOLEAN : FinishRange(t, ok)
    BY <1>1, <1>3, <1>5, FinishRangeOK
  <1>6. f.s # NULL /\ {f.s} \cup f.seen \subseteq Live' \cup {FullMatchState} /\ f.p \in Nat
    BY <1>1, <1>3, Distinct DEF ThreadOK, StatesOK, Frames, Grows, Live
  <1>7. CASE ns \in Addr \cup {FullMatchState} /\ SetFrame(t, Goes(x, ns)) /\ UNCHANGED mutex
    <2> DEFINE g == Goes(x, ns)
    <2>1. g \in Frames
      <3> DEFINE q == f.p + 1
      <3>1. q \in Nat /\ ns \in Addr \cup {FullMatchState} /\ {} \subseteq Input
        BY <1>6, <1>7
      <3> HIDE DEF q
      <3>2. [f EXCEPT !.s = ns, !.p = q, !.todo = {}] \in Frames
        BY <1>1, <3>1 DEF Frames
      <3> QED
        BY <1>1, <3>2 DEF Frames, q
    <2>2. /\ g.pc = "walk" /\ g.start = f.start /\ g.s = ns /\ g.seen = f.seen
          /\ g.req = f.req /\ g.savedS = f.savedS /\ g.savedStart = f.savedStart
          /\ g.afterReset = f.afterReset /\ g.result = f.result
      BY <1>1 DEF Frames
    <2>3. SetFrame(t, g)
      BY <1>7
    <2>4. ns # NULL /\ ns \in Live' \cup {FullMatchState}
      BY <1>3, <1>7, Distinct DEF Special
    <2> HIDE DEF g
    <2> QED
      BY <1>1, <1>3, <1>6, <1>7, <2>1, <2>2, <2>3, <2>4, WalksOnOK
  <1>8. CASE SetFrame(t, Skips(x)) /\ UNCHANGED mutex
    <2> DEFINE g == Skips(x)
    <2>1. g \in Frames
      BY <1>1 DEF Frames
    <2>2. /\ g.pc = "walk" /\ g.start = f.start /\ g.s = f.s /\ g.seen = f.seen
          /\ g.req = f.req /\ g.savedS = f.savedS /\ g.savedStart = f.savedStart
          /\ g.afterReset = f.afterReset /\ g.result = f.result
      BY <1>1 DEF Frames
    <2>3. SetFrame(t, g)
      BY <1>8
    <2> HIDE DEF g
    <2> QED
      BY <1>1, <1>3, <1>6, <1>8, <2>1, <2>2, <2>3, WalksOnOK
  <1> QED BY <1>2, <1>4, <1>5, <1>7, <1>8

-----------------------------------------------------------------------------
(***************************************************************************)
(* The invariant and what follows from it.                                 *)
(***************************************************************************)
LEMMA InitOK == ASSUME Init PROVE IInv
  <1>1. TypeOK
    BY PcsAre, Sorts DEF Init, TypeOK, Frames, IdleFrame, Ptr, NoEdges
  <1>2. Live = {}
    BY DEF Init, Live
  <1>3. GraphSound /\ FreeHasNoEdges /\ NoDuplicateStates /\ WritersAlone
    BY <1>2 DEF Init, GraphSound, FreeHasNoEdges, NoDuplicateStates, WritersAlone
  <1>4. ASSUME NEW t \in Thread PROVE LocksOK(t) /\ StatesOK(t) /\ RoomOK(t)
    BY Distinct DEF Init, IdleFrame, LocksOK, StatesOK, RoomOK, Inside
  <1> QED BY <1>1, <1>3, <1>4 DEF IInv

LEMMA NextOK == ASSUME IInv, [Next]_vars PROVE IInv'
  <1>1. ASSUME NEW t \in Thread, Local(t) PROVE IInv'
    BY <1>1, QuickCheckOK, BeginOK, NextByteOK, LoadOK, OutOfMemoryOK, DropReaderLockOK,
       ClearCacheOK, ReturnOK, WalkHeadOK, WalkByteOK DEF Local
  <1>2. ASSUME NEW t \in Thread, WithMutex(t) PROVE IInv'
    BY <1>2, FillStartOK, RunOK, RestoreStartOK, RestoreSOK, BeginRangeOK DEF WithMutex
  <1>3. ASSUME NEW t \in Thread, Search(t) \/ PossibleMatchRange(t) PROVE IInv'
    BY <1>3, EnterOK DEF Search, PossibleMatchRange
  <1>4. ASSUME UNCHANGED vars PROVE IInv'
    BY <1>4 DEF vars, locks, graph, IInv, TypeOK, WritersAlone, GraphSound, Leads, FreeHasNoEdges,
       NoDuplicateStates, Live, LocksOK, StatesOK, RoomOK, Inside
  <1> QED
    BY <1>1, <1>2, <1>3, <1>4, WriterLockOK DEF Next

\* Every reachable state satisfies the invariant.
THEOREM Invariant == Spec => []IInv
  <1>1. Init => IInv
    BY InitOK
  <1>2. IInv /\ [Next]_vars => IInv'
    BY NextOK
  <1> QED BY <1>1, <1>2, PTL DEF Spec

\* Type correctness of the cache, the locks and every thread's locals.
THEOREM TypeCorrect == Spec => []TypeOK
  <1>1. IInv => TypeOK
    BY DEF IInv
  <1> QED BY <1>1, Invariant, PTL

\* Whatever the threads, the automaton and the budget, no thread ever holds a
\* pointer to a state that a reset has freed, and none holds a pointer without
\* cache_mutex_ (dfa.cc:335-337).
THEOREM NoStalePointer == Spec => []NoUseAfterFree
  <1>1. IInv => NoUseAfterFree
    BY Distinct DEF IInv, NoUseAfterFree, LocksOK, StatesOK, Inside, TypeOK, Frames
  <1> QED BY <1>1, Invariant, PTL

\* The transition graph in the cache is always a part of the automaton's: no edge
\* and no start pointer ever leads to a freed state or to one of other contents
\* (RunStateOnByte, AnalyzeSearchHelper, ResetCache).
THEOREM CacheIsSound == Spec => []GraphSound
  <1>1. IInv => GraphSound
    BY DEF IInv
  <1> QED BY <1>1, Invariant, PTL

\* Equal contents are never cached twice (CachedState's lookup under mutex_).
THEOREM StatesAreUnique == Spec => []NoDuplicateStates
  <1>1. IInv => NoDuplicateStates
    BY DEF IInv
  <1> QED BY <1>1, Invariant, PTL

\* A thread that resets the cache is alone until it stands on rebuilt states
\* (RWLocker::LockForWriting).
THEOREM ResetterIsAlone == Spec => []ResetIsExclusive
  <1>1. IInv => ResetIsExclusive
    <2> SUFFICES ASSUME IInv, NEW t \in Thread,
                        frame[t].pc \in {"clear", "restoreStart", "restoreS"}
                 PROVE  /\ writer = t /\ readers = {} /\ mutex = NoThread
                        /\ \A u \in Thread \ {t} : frame[u].pc \in {"idle", "wantWrite"}
      BY DEF ResetIsExclusive
    <2>1. writer = t /\ readers = {} /\ mutex # t
      BY Distinct DEF IInv, LocksOK, WritersAlone
    <2>2. ASSUME NEW u \in Thread \ {t}
          PROVE  frame[u].pc \in {"idle", "wantWrite"} /\ mutex # u
      BY <2>1, Alone DEF IInv
    <2> QED
      BY <2>1, <2>2 DEF IInv, TypeOK
  <1> QED BY <1>1, Invariant, PTL

\* As the constructor leaves room for three states, a computation right after a
\* reset never runs out of memory: no LOG(DFATAL) branch is reached (dfa.cc:1227).
THEOREM ResetLeavesRoom == Spec => []NeverFatal
  <1>1. IInv => NeverFatal
    BY DEF IInv, RoomOK, NeverFatal
  <1> QED BY <1>1, Invariant, PTL

-----------------------------------------------------------------------------
(***************************************************************************)
(* Only a reset takes anything away.                                       *)
(***************************************************************************)
OnlyAdds ==
  /\ \A a \in Live : content'[a] = content[a]
  /\ \A a \in Live, x \in Input : next[a][x] # NULL => next'[a][x] = next[a][x]
  /\ \A k \in StartKind : startInfo[k] # NULL => startInfo'[k] = startInfo[k]

LEMMA NothingChanges == ASSUME UNCHANGED graph PROVE OnlyAdds
  BY DEF graph, OnlyAdds

LEMMA FillAdds == ASSUME IInv, NEW t \in Thread, FillStart(t) PROVE OnlyAdds
  <1> DEFINE k == frame[t].req.kind
  <1>1. k \in StartKind
    BY FrameOf, RequestKind DEF FillStart, At, ThreadOK, IInv
  <1>2. PICK ptr \in Ptr :
          IF startInfo[k] # NULL
          THEN UNCHANGED graph
          ELSE /\ WorkqToCachedState(StartOf[k], ptr)
               /\ startInfo' = [startInfo EXCEPT ![k] = ptr]
               /\ UNCHANGED next
    BY DEF FillStart
  <1>3. CASE startInfo[k] # NULL
    BY <1>2, <1>3, NothingChanges
  <1>4. CASE startInfo[k] = NULL
    <2>1. \A a \in Live : content'[a] = content[a]
      BY <1>1, <1>2, <1>4, WorkqBuilds, GraphNow, Sorts
    <2>2. \A j \in StartKind : startInfo[j] # NULL => startInfo'[j] = startInfo[j]
      BY <1>1, <1>2, <1>4 DEF IInv, TypeOK
    <2> QED
      BY <1>2, <1>4, <2>1, <2>2 DEF OnlyAdds
  <1> QED BY <1>3, <1>4

LEMMA RunAdds ==
  ASSUME IInv, NEW s \in Live \cup {FullMatchState}, NEW x \in Input, NEW ns \in Ptr,
         RunStateOnByte(s, x, ns)
  PROVE  OnlyAdds
  <1>1. CASE s = FullMatchState \/ next[s][x] # NULL
    BY <1>1, NothingChanges DEF RunStateOnByte
  <1>2. CASE s # FullMatchState /\ next[s][x] = NULL
    <2>1. /\ next' = [next EXCEPT ![s][x] = ns]
          /\ UNCHANGED startInfo
      BY <1>2 DEF RunStateOnByte
    <2>2. \A a \in Live : content'[a] = content[a]
      BY <1>2, RunKeepsGraph, GraphNow DEF Grows
    <2>3. \A a \in Live, y \in Input : next[a][y] # NULL => next'[a][y] = next[a][y]
      BY <1>2, <2>1 DEF IInv, TypeOK, Live
    <2> QED
      BY <2>1, <2>2, <2>3 DEF OnlyAdds
  <1> QED BY <1>1, <1>2

LEMMA RestoreAdds ==
  ASSUME IInv, NEW k \in Key, NEW ptr \in Ptr, CachedState(k, ptr),
         UNCHANGED <<next, startInfo>>
  PROVE  OnlyAdds
  BY CachedStateFinds, GraphNow DEF OnlyAdds

LEMMA StepAdds ==
  ASSUME IInv, NEW t \in Thread,
         Search(t) \/ PossibleMatchRange(t) \/ Local(t) \/ WithMutex(t) \/ WriterLock(t)
  PROVE  OnlyAdds \/ (At(t, "clear") /\ writer = t /\ readers = {})
  <1>1. CASE Search(t) \/ PossibleMatchRange(t) \/ WriterLock(t)
    BY <1>1, NothingChanges DEF Search, PossibleMatchRange, Enter, WriterLock
  <1>2. CASE \/ QuickCheck(t) \/ Begin(t) \/ NextByte(t) \/ Load(t) \/ OutOfMemory(t)
             \/ DropReaderLock(t) \/ Return(t) \/ WalkHead(t) \/ BeginRange(t)
    BY <1>2, NothingChanges
    DEF QuickCheck, Begin, NextByte, Load, OutOfMemory, DropReaderLock, Return, WalkHead,
        BeginRange
  <1>3. CASE ClearCache(t)
    BY <1>3, FrameOf, Distinct DEF ClearCache, At, ThreadOK, LocksOK, IInv, WritersAlone
  <1>4. CASE FillStart(t)
    BY <1>4, FillAdds
  <1>5. CASE RunStateOnByteUnlocked(t)
    <2>1. frame[t].s \in Live /\ frame[t].c \in Input
      BY <1>5, FrameOf, Held DEF RunStateOnByteUnlocked, At, ThreadOK, StatesOK
    <2> QED
      BY <1>5, <2>1, RunAdds DEF RunStateOnByteUnlocked
  <1>6. CASE WalkByte(t)
    <2>1. frame[t].s \in Live \cup {FullMatchState} /\ frame[t].todo \subseteq Input
      BY <1>6, FrameOf DEF WalkByte, At, ThreadOK, StatesOK, Frames
    <2> QED
      BY <1>6, <2>1, RunAdds DEF WalkByte
  <1>7. CASE RestoreStart(t)
    <2>1. frame[t].savedStart \in Key
      BY <1>7, FrameOf DEF RestoreStart, At, ThreadOK, StatesOK, Frames
    <2> QED
      BY <1>7, <2>1, RestoreAdds DEF RestoreStart
  <1>8. CASE RestoreS(t)
    <2>1. frame[t].savedS \in Key
      BY <1>8, FrameOf DEF RestoreS, At, ThreadOK, StatesOK, Frames
    <2> QED
      BY <1>8, <2>1, RestoreAdds DEF RestoreS
  <1> QED
    BY <1>1, <1>2, <1>3, <1>4, <1>5, <1>6, <1>7, <1>8 DEF Local, WithMutex

\* What one thread has read of the cache without a lock stays true until a thread
\* that is alone clears it.
THEOREM CacheOnlyGrows == Spec => GraphOnlyGrows
  <1> DEFINE Step ==
        \/ \E t \in Thread : At(t, "clear") /\ writer = t /\ readers = {}
        \/ OnlyAdds
  <1>1. IInv /\ [Next]_vars => [Step]_vars
    BY StepAdds DEF Next
  <1>2. [Step]_vars <=>
        [\/ \E t \in Thread : At(t, "clear") /\ writer = t /\ readers = {}
         \/ /\ \A a \in Live : content'[a] = content[a]
            /\ \A a \in Live, x \in Input : next[a][x] # NULL => next'[a][x] = next[a][x]
            /\ \A k \in StartKind : startInfo[k] # NULL => startInfo'[k] = startInfo[k]]_vars
    BY DEF OnlyAdds
  <1> HIDE DEF Step
  <1> QED BY <1>1, <1>2, Invariant, PTL DEF Spec, GraphOnlyGrows
-----------------------------------------------------------------------------
(***************************************************************************)
(* Sums of costs.  A sum over a set is defined by taking its elements away *)
(* in an order that nobody knows; it must not depend on that order, nor on *)
(* the set it is part of.                                                  *)
(***************************************************************************)
First(s) == CHOOSE a \in s : TRUE
CostOf(c, s) == MapThenSumSet(LAMBDA a : Cost[c[a]], s)
IsSum(g, c, S) ==
  g = [s \in SUBSET S |-> IF s = {} THEN 0 ELSE Cost[c[First(s)]] + g[s \ {First(s)}]]

LEMMA FirstIsIn == \A s : s # {} => First(s) \in s
  BY DEF First

LEMMA Smallest ==
  ASSUME NEW S, IsFiniteSet(S), NEW Bad \in SUBSET SUBSET S, Bad # {}
  PROVE  \E s \in Bad : \A r \in Bad : r \subseteq s => r = s
  <1>1. Bad \subseteq FiniteSubsetsOf(S)
    BY FS_Subset DEF FiniteSubsetsOf
  <1>2. IsWellFoundedOn(StrictSubsetOrdering(S), FiniteSubsetsOf(S))
    BY FS_StrictSubsetOrderingWellFounded
  <1>3. PICK s \in Bad : \A r \in Bad : <<r, s>> \notin StrictSubsetOrdering(S)
    BY <1>1, <1>2, WFMin
  <1>4. ASSUME NEW r \in Bad, r \subseteq s, r # s
        PROVE  <<r, s>> \in StrictSubsetOrdering(S)
    BY <1>4 DEF StrictSubsetOrdering
  <1>5. ASSUME NEW r \in Bad, r \subseteq s PROVE r = s
    BY <1>3, <1>4, <1>5
  <1> QED BY <1>5

\* Sums over one set are the same, whatever larger sets they are part of.
LEMMA SameSum ==
  ASSUME NEW S, IsFiniteSet(S), NEW c, NEW d, NEW g, NEW h, NEW T,
         IsSum(g, c, S), IsSum(h, d, T), \A a \in S : c[a] = d[a]
  PROVE  \A s \in SUBSET S : s \subseteq T => g[s] = h[s]
  <1> DEFINE Bad == {s \in SUBSET S : s \subseteq T /\ g[s] # h[s]}
  <1> SUFFICES ASSUME Bad # {} PROVE FALSE
    OBVIOUS
  <1>0. Bad \in SUBSET SUBSET S
    OBVIOUS
  <1>1. PICK s \in Bad : \A r \in Bad : r \subseteq s => r = s
    <2> HIDE DEF Bad
    <2> QED BY <1>0, Smallest
  <1>2. s \subseteq S /\ s \subseteq T /\ g[s] # h[s]
    OBVIOUS
  <1>3. g[s] = IF s = {} THEN 0 ELSE Cost[c[First(s)]] + g[s \ {First(s)}]
    BY <1>2 DEF IsSum
  <1>4. h[s] = IF s = {} THEN 0 ELSE Cost[d[First(s)]] + h[s \ {First(s)}]
    BY <1>2 DEF IsSum
  <1>5. s # {} /\ First(s) \in s
    BY <1>2, <1>3, <1>4, FirstIsIn
  <1>6. g[s \ {First(s)}] = h[s \ {First(s)}]
    BY <1>1, <1>2, <1>5
  <1> QED BY <1>2, <1>3, <1>4, <1>5, <1>6

\* The definition of a sum defines something.
LEMMA SumExists ==
  ASSUME NEW S, IsFiniteSet(S), NEW c
  PROVE  \E g : IsSum(g, c, S)
  <1> DEFINE Bad == {s \in SUBSET S : ~ \E g : IsSum(g, c, s)}
             Of(s) == CHOOSE g : IsSum(g, c, s)
  <1> SUFFICES ASSUME Bad # {} PROVE FALSE
    <2> SUFFICES ASSUME S \notin Bad PROVE \E g : IsSum(g, c, S)
      OBVIOUS
    <2> QED OBVIOUS
  <1>0. Bad \in SUBSET SUBSET S
    OBVIOUS
  <1>1. PICK t \in Bad : \A r \in Bad : r \subseteq t => r = t
    <2> HIDE DEF Bad
    <2> QED BY <1>0, Smallest
  <1>2. t \subseteq S /\ IsFiniteSet(t)
    BY FS_Subset
  <1>3. ASSUME NEW r \in SUBSET t, r # t
        PROVE  IsSum(Of(r), c, r) /\ IsFiniteSet(r)
    <2>1. \E g : IsSum(g, c, r)
      BY <1>1, <1>2, <1>3
    <2> QED BY <1>2, <2>1, FS_Subset
  <1> DEFINE Value(s) == IF s = {} THEN 0
                         ELSE Cost[c[First(s)]] + Of(s \ {First(s)})[s \ {First(s)}]
             g == [s \in SUBSET t |-> Value(s)]
  <1>4. ASSUME NEW r \in SUBSET t, r # t
        PROVE  g[r] = Of(r)[r]
    <2>1. Of(r)[r] = IF r = {} THEN 0 ELSE Cost[c[First(r)]] + Of(r)[r \ {First(r)}]
      <3>1. IsSum(Of(r), c, r) /\ r \in SUBSET r
        BY <1>3, <1>4
      <3> HIDE DEF Of
      <3> QED BY <3>1 DEF IsSum
    <2>2. ASSUME r # {}
          PROVE  Of(r)[r \ {First(r)}] = Of(r \ {First(r)})[r \ {First(r)}]
      <3> DEFINE q == r \ {First(r)}
      <3>1. q \subseteq r /\ q \in SUBSET t /\ q # t /\ r \in SUBSET t
        BY <1>4, <2>2, FirstIsIn
      <3>2. /\ IsSum(Of(r), c, r) /\ IsSum(Of(q), c, q)
            /\ IsFiniteSet(q)
        BY <1>3, <1>4, <3>1
      <3> HIDE DEF Of, q
      <3>3. \A s \in SUBSET q : s \subseteq r => Of(q)[s] = Of(r)[s]
        BY <3>2, SameSum
      <3>4. Of(q)[q] = Of(r)[q]
        BY <3>1, <3>3
      <3> QED BY <3>4 DEF q
    <2>3. g[r] = Value(r)
      BY <1>4
    <2> HIDE DEF g, Of
    <2> QED BY <2>1, <2>2, <2>3
  <1>5. ASSUME NEW s \in SUBSET t
        PROVE  g[s] = IF s = {} THEN 0 ELSE Cost[c[First(s)]] + g[s \ {First(s)}]
    <2>1. g[s] = Value(s)
      BY <1>5
    <2>2. CASE s = {}
      BY <2>1, <2>2
    <2>3. CASE s # {}
      <3>1. s \ {First(s)} \in SUBSET t /\ s \ {First(s)} # t
        BY <1>5, <2>3, FirstIsIn
      <3>2. g[s \ {First(s)}] = Of(s \ {First(s)})[s \ {First(s)}]
        BY <1>4, <3>1
      <3> HIDE DEF g, Of
      <3> QED BY <2>1, <2>3, <3>2
    <2> QED BY <2>2, <2>3
  <1>6. IsSum(g, c, t)
    <2>1. g = [s \in SUBSET t |-> g[s]]
      OBVIOUS
    <2> HIDE DEF g
    <2>2. [s \in SUBSET t |-> g[s]] =
            [s \in SUBSET t |-> IF s = {} THEN 0 ELSE Cost[c[First(s)]] + g[s \ {First(s)}]]
      BY <1>5
    <2> QED BY <2>1, <2>2 DEF IsSum
  <1> HIDE DEF g, Of
  <1> QED BY <1>1, <1>6

LEMMA SumIs ==
  ASSUME NEW S, IsFiniteSet(S), NEW c, NEW A, IsFiniteSet(A), S \subseteq A, NEW g, IsSum(g, c, A)
  PROVE  CostOf(c, S) = g[S]
  <1>1. CostOf(c, S) = (CHOOSE h : IsSum(h, c, S))[S]
    BY Zenon DEF CostOf, IsSum, First, MapThenSumSet, MapThenFoldSet
  <1>2. IsSum(CHOOSE h : IsSum(h, c, S), c, S)
    BY SumExists
  <1>3. \A s \in SUBSET S : s \subseteq A => (CHOOSE h : IsSum(h, c, S))[s] = g[s]
    BY <1>2, SameSum
  <1> QED BY <1>1, <1>3

LEMMA SumIsInt ==
  ASSUME NEW S, IsFiniteSet(S), NEW c, \A a \in S : Cost[c[a]] \in Int, NEW g, IsSum(g, c, S)
  PROVE  \A s \in SUBSET S : g[s] \in Int
  <1> DEFINE Bad == {s \in SUBSET S : g[s] \notin Int}
  <1> SUFFICES ASSUME Bad # {} PROVE FALSE
    OBVIOUS
  <1>0. Bad \in SUBSET SUBSET S
    OBVIOUS
  <1>1. PICK s \in Bad : \A r \in Bad : r \subseteq s => r = s
    <2> HIDE DEF Bad
    <2> QED BY <1>0, Smallest
  <1>2. s \subseteq S /\ g[s] \notin Int
    OBVIOUS
  <1>3. g[s] = IF s = {} THEN 0 ELSE Cost[c[First(s)]] + g[s \ {First(s)}]
    BY <1>2 DEF IsSum
  <1>4. s # {} /\ First(s) \in s
    BY <1>2, <1>3, FirstIsIn
  <1>5. g[s \ {First(s)}] \in Int
    BY <1>1, <1>2, <1>4
  <1> QED BY <1>2, <1>3, <1>4, <1>5

\* Any element can be the last one added.
LEMMA SumWithout ==
  ASSUME NEW S, IsFiniteSet(S), NEW c, \A a \in S : Cost[c[a]] \in Int, NEW g, IsSum(g, c, S)
  PROVE  \A s \in SUBSET S : \A a \in s : g[s] = g[s \ {a}] + Cost[c[a]]
  <1> DEFINE Bad == {s \in SUBSET S : \E a \in s : g[s] # g[s \ {a}] + Cost[c[a]]}
  <1> SUFFICES ASSUME Bad # {} PROVE FALSE
    BY Zenon
  <1>0. Bad \in SUBSET SUBSET S
    OBVIOUS
  <1>1. PICK s \in Bad : \A r \in Bad : r \subseteq s => r = s
    <2> HIDE DEF Bad
    <2> QED BY <1>0, Smallest
  <1>2. PICK a \in s : g[s] # g[s \ {a}] + Cost[c[a]]
    OBVIOUS
  <1> DEFINE b == First(s)
  <1>3. s \subseteq S /\ b \in s
    BY FirstIsIn
  <1>4. g[s] = Cost[c[b]] + g[s \ {b}]
    BY <1>3 DEF IsSum
  <1>5. \A r \in SUBSET s : r # s => \A x \in r : g[r] = g[r \ {x}] + Cost[c[x]]
    BY <1>1, <1>3
  <1>6. \A r \in SUBSET s : g[r] \in Int
    <2>1. \A r \in SUBSET S : g[r] \in Int
      BY SumIsInt
    <2> QED BY <1>3, <2>1
  <1> HIDE DEF b
  <1>7. a # b
    <2>1. ASSUME a = b PROVE g[s] = g[s \ {a}] + Cost[c[a]]
      <3>1. g[s \ {a}] \in Int /\ Cost[c[a]] \in Int
        BY <1>3, <1>6
      <3> QED BY <1>4, <2>1, <3>1
    <2> QED BY <1>2, <2>1
  <1>8. g[s \ {b}] = g[(s \ {b}) \ {a}] + Cost[c[a]]
    BY <1>3, <1>5, <1>7
  <1>9. g[s \ {a}] = g[(s \ {a}) \ {b}] + Cost[c[b]]
    BY <1>3, <1>5, <1>7
  <1>10. (s \ {b}) \ {a} = (s \ {a}) \ {b}
    OBVIOUS
  <1>11. Cost[c[a]] \in Int /\ Cost[c[b]] \in Int /\ g[(s \ {a}) \ {b}] \in Int
    BY <1>3, <1>6
  <1> HIDE DEF Bad
  <1> DEFINE x == Cost[c[a]]  y == Cost[c[b]]  z == g[(s \ {a}) \ {b}]
             u == g[s]  v == g[s \ {a}]  w == g[s \ {b}]
  <1>12. u # v + x /\ u = y + w /\ w = z + x /\ v = z + y /\ x \in Int /\ y \in Int /\ z \in Int
    BY <1>2, <1>4, <1>8, <1>9, <1>10, <1>11
  <1> HIDE DEF x, y, z, u, v, w
  <1> QED BY <1>12

LEMMA CostOfNone == ASSUME NEW c PROVE CostOf(c, {}) = 0
  <1>0. IsFiniteSet({})
    BY FS_EmptySet
  <1>1. PICK g : IsSum(g, c, {})
    BY <1>0, SumExists
  <1>2. CostOf(c, {}) = g[{}]
    BY <1>0, <1>1, SumIs
  <1> QED BY <1>1, <1>2 DEF IsSum

LEMMA CostOfOneMore ==
  ASSUME NEW S, IsFiniteSet(S), NEW a, a \notin S, NEW c, NEW d,
         \A x \in S : d[x] = c[x], \A x \in S \cup {a} : Cost[d[x]] \in Int
  PROVE  /\ CostOf(d, S \cup {a}) = CostOf(c, S) + Cost[d[a]]
         /\ CostOf(c, S) \in Int
  <1> DEFINE T == S \cup {a}
  <1>0. IsFiniteSet(T) /\ S \subseteq T /\ S = T \ {a} /\ a \in T
    BY FS_AddElement
  <1> HIDE DEF T
  <1>1. PICK g : IsSum(g, d, T)
    BY <1>0, SumExists
  <1>2. PICK h : IsSum(h, c, S)
    BY SumExists
  <1>3. CostOf(d, T) = g[T]
    BY <1>0, <1>1, SumIs
  <1>4. CostOf(c, S) = h[S]
    BY <1>2, SumIs
  <1>5. h[S] = g[S]
    BY <1>0, <1>1, <1>2, SameSum
  <1>6. \A x \in T : Cost[d[x]] \in Int
    BY DEF T
  <1>7. g[T] = g[T \ {a}] + Cost[d[a]]
    BY <1>0, <1>1, <1>6, SumWithout
  <1>8. g[S] \in Int
    BY <1>0, <1>1, <1>6, SumIsInt
  <1> QED BY <1>0, <1>3, <1>4, <1>5, <1>7, <1>8 DEF T

-----------------------------------------------------------------------------
(***************************************************************************)
(* The memory budget.                                                      *)
(***************************************************************************)

\* What a step may do to the states and to the budget.
Charged ==
  \/ UNCHANGED <<content, budget>>
  \/ budget' = -1
  \/ content' = [a \in Addr |-> NULL] /\ budget' = StateBudget
  \/ \E a \in Addr \ Live, k \in Key :
       /\ budget >= Cost[k]
       /\ content' = [content EXCEPT ![a] = k]
       /\ budget' = budget - Cost[k]

LEMMA NothingCharged == ASSUME UNCHANGED graph PROVE Charged
  BY DEF graph, Charged

LEMMA ConstructionCharged ==
  ASSUME NEW k \in Key, NEW ptr \in Ptr, CachedState(k, ptr)
  PROVE  Charged
  BY DEF CachedState, Allocate, Charged

LEMMA WorkqCharged ==
  ASSUME NEW k \in Contents, NEW ptr \in Ptr, WorkqToCachedState(k, ptr)
  PROVE  Charged
  <1>1. CASE k \in Special
    BY <1>1 DEF WorkqToCachedState, Charged
  <1>2. CASE k \notin Special
    BY <1>2, ConstructionCharged DEF WorkqToCachedState, Contents
  <1> QED BY <1>1, <1>2

LEMMA RunCharged ==
  ASSUME IInv, NEW s \in Live \cup {FullMatchState}, NEW x \in Input, NEW ns \in Ptr,
         RunStateOnByte(s, x, ns)
  PROVE  Charged
  <1>1. CASE s = FullMatchState \/ next[s][x] # NULL
    BY <1>1 DEF RunStateOnByte, graph, Charged
  <1>2. CASE s # FullMatchState /\ next[s][x] = NULL
    <2>1. s \in Live /\ Delta[content[s]][x] \in Contents
      BY <1>2, Sorts DEF IInv, TypeOK, Live
    <2> QED
      BY <1>2, <2>1, WorkqCharged DEF RunStateOnByte
  <1> QED BY <1>1, <1>2

LEMMA StepCharged ==
  ASSUME IInv, NEW t \in Thread,
         Search(t) \/ PossibleMatchRange(t) \/ Local(t) \/ WithMutex(t) \/ WriterLock(t)
  PROVE  Charged
  <1>1. CASE Search(t) \/ PossibleMatchRange(t) \/ WriterLock(t)
    BY <1>1, NothingCharged DEF Search, PossibleMatchRange, Enter, WriterLock
  <1>2. CASE \/ QuickCheck(t) \/ Begin(t) \/ NextByte(t) \/ Load(t) \/ OutOfMemory(t)
             \/ DropReaderLock(t) \/ Return(t) \/ WalkHead(t) \/ BeginRange(t)
    BY <1>2, NothingCharged
    DEF QuickCheck, Begin, NextByte, Load, OutOfMemory, DropReaderLock, Return, WalkHead,
        BeginRange
  <1>3. CASE ClearCache(t)
    BY <1>3 DEF ClearCache, ClearStates, Charged
  <1>4. CASE FillStart(t)
    <2>1. frame[t].req.kind \in StartKind
      BY <1>4, FrameOf, RequestKind DEF FillStart, At, ThreadOK, IInv
    <2>2. StartOf[frame[t].req.kind] \in Contents
      BY <2>1, Sorts
    <2> QED
      BY <1>4, <2>2, WorkqCharged DEF FillStart, graph, Charged
  <1>5. CASE RunStateOnByteUnlocked(t)
    <2>1. frame[t].s \in Live /\ frame[t].c \in Input
      BY <1>5, FrameOf, Held DEF RunStateOnByteUnlocked, At, ThreadOK, StatesOK
    <2> QED
      BY <1>5, <2>1, RunCharged DEF RunStateOnByteUnlocked
  <1>6. CASE WalkByte(t)
    <2>1. frame[t].s \in Live \cup {FullMatchState} /\ frame[t].todo \subseteq Input
      BY <1>6, FrameOf DEF WalkByte, At, ThreadOK, StatesOK, Frames
    <2> QED
      BY <1>6, <2>1, RunCharged DEF WalkByte
  <1>7. CASE RestoreStart(t)
    <2>1. frame[t].savedStart \in Key
      BY <1>7, FrameOf DEF RestoreStart, At, ThreadOK, StatesOK, Frames
    <2> QED
      BY <1>7, <2>1, ConstructionCharged DEF RestoreStart
  <1>8. CASE RestoreS(t)
    <2>1. frame[t].savedS \in Key
      BY <1>8, FrameOf DEF RestoreS, At, ThreadOK, StatesOK, Frames
    <2> QED
      BY <1>8, <2>1, ConstructionCharged DEF RestoreS
  <1> QED
    BY <1>1, <1>2, <1>3, <1>4, <1>5, <1>6, <1>7, <1>8 DEF Local, WithMutex

LEMMA Accounts ==
  /\ BudgetAccounts <=>
       budget = -1 \/ (budget >= 0 /\ budget + CostOf(content, Live) = StateBudget)
  /\ BudgetAccounts' <=>
       budget' = -1 \/ (budget' >= 0 /\ budget' + CostOf(content', Live') = StateBudget)
  <1>1. BudgetAccounts <=>
          budget = -1 \/ (budget >= 0 /\ budget + CostOf(content, Live) = StateBudget)
    BY Zenon DEF BudgetAccounts, CostOf
  <1>2. BudgetAccounts' <=>
          budget' = -1 \/ (budget' >= 0 /\ budget' + CostOf(content', Live') = StateBudget)
    BY Zenon DEF BudgetAccounts, CostOf, MapThenSumSet, MapThenFoldSet, Live
  <1> QED BY <1>1, <1>2

LEMMA BooksStayBalanced ==
  ASSUME IInv, BudgetAccounts, Charged
  PROVE  BudgetAccounts'
  <1>1. CASE UNCHANGED <<content, budget>>
    <2>1. Live' = Live
      BY <1>1 DEF Live
    <2> QED BY <1>1, <2>1, Accounts
  <1>2. CASE budget' = -1
    BY <1>2, Accounts
  <1>3. CASE content' = [a \in Addr |-> NULL] /\ budget' = StateBudget
    <2>1. Live' = {}
      BY <1>3 DEF Live
    <2>2. CostOf(content', Live') = 0
      BY <2>1, CostOfNone
    <2> QED BY <1>3, <2>2, Accounts, Sorts
  <1>4. ASSUME NEW a \in Addr \ Live, NEW k \in Key,
               budget >= Cost[k], content' = [content EXCEPT ![a] = k], budget' = budget - Cost[k]
        PROVE  BudgetAccounts'
    <2>1. content \in [Addr -> Key \cup {NULL}] /\ budget \in Int /\ Cost[k] \in Nat \ {0}
      BY Sorts DEF IInv, TypeOK
    <2>2. /\ Live' = Live \cup {a} /\ a \notin Live
          /\ \A x \in Live : content'[x] = content[x]
          /\ content'[a] = k
      BY <1>4, <2>1, Distinct DEF Live
    <2>3. IsFiniteSet(Live)
      BY FS_Subset, Sorts DEF Live
    <2>4. \A x \in Live \cup {a} : Cost[content'[x]] \in Int
      BY <2>1, <2>2, Sorts DEF Live
    <2>5. /\ CostOf(content', Live \cup {a}) = CostOf(content, Live) + Cost[content'[a]]
          /\ CostOf(content, Live) \in Int
      BY <2>2, <2>3, <2>4, CostOfOneMore
    <2>6. budget + CostOf(content, Live) = StateBudget
      BY <1>4, <2>1, Accounts
    <2> QED BY <1>4, <2>1, <2>2, <2>5, <2>6, Accounts, Sorts
  <1> QED BY <1>1, <1>2, <1>3, <1>4 DEF Charged

\* mem_budget_ and the cached states never cost more, nor less, than the budget that
\* the DFA was given, until an allocation fails; from then to the reset it is -1
\* (dfa.cc:736-800, 1196-1208).
THEOREM BooksBalance == Spec => []BudgetAccounts
  <1>1. Init => BudgetAccounts
    <2> SUFFICES ASSUME Init PROVE BudgetAccounts
      OBVIOUS
    <2>1. Live = {} /\ budget = StateBudget
      BY DEF Init, Live
    <2>2. CostOf(content, Live) = 0
      BY <2>1, CostOfNone
    <2> QED BY <2>1, <2>2, Accounts, Sorts
  <1>2. IInv /\ BudgetAccounts /\ [Next]_vars => BudgetAccounts'
    <2> SUFFICES ASSUME IInv, BudgetAccounts, [Next]_vars PROVE BudgetAccounts'
      OBVIOUS
    <2>1. Charged
      BY StepCharged DEF Next, vars, graph, Charged
    <2> QED BY <2>1, BooksStayBalanced
  <1> QED BY <1>1, <1>2, Invariant, PTL DEF Spec
=============================================================================
