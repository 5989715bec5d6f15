------------------------------- MODULE DFACache -------------------------------
(***************************************************************************)
(* The state cache of one re2::DFA (re2/dfa.cc) and the threads that       *)
(* search with it.  States are built on demand and shared: a search walks  *)
(* next_ pointers without a lock, takes mutex_ to add a state or an edge,  *)
(* and holds cache_mutex_ for reading all the while.  When the memory      *)
(* budget is spent the search drops cache_mutex_, takes it again for       *)
(* writing, discards every state, rebuilds the ones it stands on and goes  *)
(* on alone.                                                               *)
(*                                                                         *)
(* What a state contains and what an input does to it are parameters (Key, *)
(* Delta): the cache is correct for any of them.  States live at addresses *)
(* that are used again after a reset, as the allocator's are, so a stale   *)
(* pointer may well point to a live state of other contents.               *)
(*                                                                         *)
(* A position counts the inputs consumed in the direction of the scan; the *)
(* input after the text makes it n + 1, so that a match always ends at     *)
(* position p - 1.                                                         *)
(***************************************************************************)
EXTENDS Integers, FiniteSets, FiniteSetsExt

CONSTANTS
  Thread,          \* concurrent callers
  Addr,            \* addresses the allocator gives to States
  Key,             \* contents (inst_, flag_) of the ordinary states
  Class,           \* byte classes of the program's bytemap
  EndText,         \* kByteEndText
  StartKind,       \* indices of start_[]
  RangeKind,       \* kStartBeginText | kStartAnchored
  StartOf,         \* start state of each kind: a key or a special state
  Delta,           \* next state of each key on each input
  MatchKey,        \* contents with kFlagMatch
  InstKey,         \* contents with ninst_ > 0
  MatchIds,        \* match ids stored after MatchSep
  AccelKind,       \* start kinds that allow prefix acceleration
  SkipClass,       \* classes PrefixAccel jumps over
  Cost,            \* memory charged for a state, by contents
  StateBudget,     \* state_budget_
  BailFactor,      \* inputs per state below which a search is too slow
  SizeMod,         \* 2^64, the range of size_t, scaled down
  ManyMatch,       \* kind_ = kManyMatch
  Forward,         \* run_forward, the same for every search of this DFA
  MaxText,         \* bound: length of a text, and maxlen of a range walk
  Requests,        \* the calls made by this DFA's users
  DeadState, FullMatchState, NULL, NoPos, NoThread, Fatal

Input == Class \cup {EndText}
Special == {DeadState, FullMatchState}
Ptr == Addr \cup Special \cup {NULL}
Contents == Key \cup Special

\* What a caller asks for: the index into start_, whether the first match is
\* enough, and the length of the text (or maxlen).
SearchRequest ==
  [op : {"search"}, kind : StartKind, earliest : BOOLEAN, n : 0..MaxText]
RangeRequest ==
  [op : {"range"}, kind : {RangeKind}, earliest : {FALSE}, n : 0..MaxText]

\* What a call returns, if it does not end in LOG(DFATAL).
AllIds == UNION {MatchIds[k] : k \in Key}
Results ==
  [failed : BOOLEAN, ret : BOOLEAN, ep : Nat \cup {NoPos}, ids : SUBSET AllIds]

\* Sorts of the constants.
ASSUME Sorts ==
  /\ Requests \subseteq SearchRequest \cup RangeRequest
  /\ StartOf \in [StartKind -> Contents] /\ RangeKind \in StartKind
  /\ Delta \in [Key -> [Input -> Contents]]
  /\ MatchKey \subseteq Key /\ InstKey \subseteq Key
  /\ AccelKind \subseteq StartKind /\ SkipClass \subseteq Class /\ Class # {}
  /\ Cost \in [Key -> Nat \ {0}] /\ StateBudget \in Nat
  /\ BailFactor \in Nat /\ MaxText \in Nat
  /\ SizeMod \in Nat /\ SizeMod > MaxText + 1 + BailFactor * Cardinality(Addr)
  /\ ManyMatch \in BOOLEAN /\ Forward \in BOOLEAN
  /\ IsFiniteSet(Addr)

ASSUME Distinct ==
  /\ NULL \notin Addr \cup Key \cup Special \cup Input /\ NULL \notin Requests
  /\ Special \cap (Addr \cup Key) = {} /\ DeadState # FullMatchState
  /\ NoPos \notin Nat /\ EndText \notin Class
  /\ NoThread \notin Thread /\ Fatal \notin Results \cup {NULL}

\* Prefix acceleration skips inputs that lead the start state to itself.
ASSUME AccelSound ==
  \A k \in AccelKind : \A x \in SkipClass :
    StartOf[k] \in Key => Delta[StartOf[k]][x] = StartOf[k]

\* The constructor refuses a budget without room for a few states (20 of the
\* largest); a search needs three: start, the current state and the next.
ASSUME RoomForThree == \A k \in Key : 3 * Cost[k] <= StateBudget

VARIABLES
  readers, writer,   \* holders of cache_mutex_
  mutex,             \* holder of mutex_
  content,           \* state_cache_: contents of the state at each address
  next,              \* next_ of the state at each address
  startInfo,         \* start_[].start
  budget,            \* mem_budget_
  frame              \* locals of each thread's call

locks == <<readers, writer, mutex>>
graph == <<content, next, startInfo, budget>>
vars == <<locks, graph, frame>>

Live == {a \in Addr : content[a] # NULL}
NoEdges == [x \in Input |-> NULL]

(***************************************************************************)
(* Results and frames.                                                     *)
(***************************************************************************)
Answer(ret, ep, ids) == [failed |-> FALSE, ret |-> ret, ep |-> ep, ids |-> ids]
GaveUp == [failed |-> TRUE, ret |-> FALSE, ep |-> NoPos, ids |-> {}]

IdleFrame ==
  [pc |-> "idle", req |-> NULL, start |-> NULL, s |-> NULL, c |-> NULL,
   p |-> 0, resetp |-> NoPos, savedStart |-> NULL, savedS |-> NULL,
   afterReset |-> FALSE, lastmatch |-> NoPos, matches |-> {},
   pass |-> "none", todo |-> {}, seen |-> {}, result |-> NULL]

Init ==
  /\ readers = {} /\ writer = NoThread /\ mutex = NoThread
  /\ content = [a \in Addr |-> NULL]
  /\ next = [a \in Addr |-> NoEdges]
  /\ startInfo = [k \in StartKind |-> NULL]
  /\ budget = StateBudget
  /\ frame = [t \in Thread |-> IdleFrame]

At(t, pc) == frame[t].pc = pc
SetFrame(t, f) == frame' = [frame EXCEPT ![t] = f]
Goto(t, pc) == SetFrame(t, [frame[t] EXCEPT !.pc = pc])

\* The call is over: its locals die, RWLocker's destructor remains to be run.
Finish(t, r) ==
  SetFrame(t, [IdleFrame EXCEPT !.pc = "done", !.req = frame[t].req, !.result = r])

(***************************************************************************)
(* The locks.  cache_mutex_ is a reader-writer lock, mutex_ a plain one.   *)
(***************************************************************************)
\* Faulty variants, to see the properties fail: a reader is let in next to a
\* writer, a writer next to readers.
CanReadAlways(t) == TRUE
CanWriteOverReaders(t) == writer = NoThread
CanRead(t) == writer = NoThread
CanWrite(t) == writer = NoThread /\ readers = {}
CanLock(t) == mutex = NoThread

(***************************************************************************)
(* Construction of states.  Each operator holds of the pointer it returns  *)
(* and of the changes it makes.                                            *)
(***************************************************************************)

\* A new state with contents k, if there is memory for it: charge is taken.
Allocate(k, charge, ptr) ==
  \/ /\ budget >= Cost[k]
     /\ ptr \in Addr \ Live
     /\ content' = [content EXCEPT ![ptr] = k]
     /\ budget' = budget - charge
  \/ /\ budget < Cost[k]
     /\ ptr = NULL
     /\ budget' = -1
     /\ UNCHANGED content

\* Faulty variants: no lookup before the allocation; a wrong charge for it.
CachedStateNoLookup(k, ptr) == Allocate(k, Cost[k], ptr)
CachedStateUndercharged(k, ptr) ==
  LET found == {a \in Live : content[a] = k} IN
  \/ ptr \in found /\ UNCHANGED <<content, budget>>
  \/ found = {} /\ Allocate(k, 1, ptr)

\* CachedState: the state with contents k, found or allocated; NULL and an
\* exhausted budget if there is no memory for it.
CachedState(k, ptr) ==
  LET found == {a \in Live : content[a] = k} IN
  \/ ptr \in found /\ UNCHANGED <<content, budget>>
  \/ found = {} /\ Allocate(k, Cost[k], ptr)

\* WorkqToCachedState: dead and full match states need no memory.
WorkqToCachedState(k, ptr) ==
  IF k \in Special THEN ptr = k /\ UNCHANGED <<content, budget>>
                   ELSE CachedState(k, ptr)

\* RunStateOnByte, with mutex_ held: another thread may have stored the edge
\* since the caller found none.
RunStateOnByte(s, x, ns) ==
  IF s = FullMatchState
  THEN ns = FullMatchState /\ UNCHANGED graph
  ELSE IF next[s][x] # NULL
  THEN ns = next[s][x] /\ UNCHANGED graph
  ELSE /\ WorkqToCachedState(Delta[content[s]][x], ns)
       /\ next' = [next EXCEPT ![s][x] = ns]
       /\ UNCHANGED startInfo

IsMatch(s) == content[s] \in MatchKey

(***************************************************************************)
(* Search and PossibleMatchRange, up to the start state (AnalyzeSearch).   *)
(***************************************************************************)

\* RWLocker's constructor: the call begins with cache_mutex_ held for reading.
Enter(t, op) ==
  /\ At(t, "idle")
  /\ CanRead(t)
  /\ readers' = readers \cup {t}
  /\ \E r \in Requests :
       /\ r.op = op
       /\ SetFrame(t, [IdleFrame EXCEPT !.pc = "analyze", !.req = r])
  /\ UNCHANGED <<writer, mutex, graph>>

Search(t) == Enter(t, "search")
PossibleMatchRange(t) == Enter(t, "range")

\* The start state may be known already: no lock is needed to see it.
QuickCheck(t) ==
  /\ At(t, "analyze")
  /\ Goto(t, IF startInfo[frame[t].req.kind] # NULL THEN "begin" ELSE "fillStart")
  /\ UNCHANGED <<locks, graph>>

\* AnalyzeSearchHelper under mutex_.  Out of memory: reset the cache and try
\* once more, but only once.
FillStart(t) ==
  LET f == frame[t]
      k == f.req.kind
  IN
  /\ At(t, "fillStart") /\ CanLock(t)
  /\ \E ptr \in Ptr :
       /\ IF startInfo[k] # NULL
          THEN ptr = startInfo[k] /\ UNCHANGED graph
          ELSE /\ WorkqToCachedState(StartOf[k], ptr)
               /\ startInfo' = [startInfo EXCEPT ![k] = ptr]
               /\ UNCHANGED next
       /\ CASE ptr # NULL -> SetFrame(t, [f EXCEPT !.pc = "begin", !.afterReset = FALSE])
            [] ptr = NULL /\ ~f.afterReset -> Goto(t, "reset")
            [] ptr = NULL /\ f.afterReset -> Finish(t, Fatal)
  /\ UNCHANGED locks

\* Faulty variants: the match is placed one input too late; the ids of a later
\* match replace those of an earlier one.
NotedLate(f, k, pos) ==
  [f EXCEPT !.lastmatch = IF k \in MatchKey THEN pos + 1 ELSE @,
            !.matches = IF k \in MatchKey /\ ~f.req.earliest
                        THEN @ \cup MatchIds[k] ELSE @]
NotedLastOnly(f, k, pos) ==
  [f EXCEPT !.lastmatch = IF k \in MatchKey THEN pos ELSE @,
            !.matches = IF k \in MatchKey /\ ~f.req.earliest THEN MatchIds[k] ELSE @]

\* The matches known after arriving in contents k at position pos.  A search
\* that wants the earliest match passes no set to collect ids in.
Noted(f, k, pos) ==
  [f EXCEPT !.lastmatch = IF k \in MatchKey THEN pos ELSE @,
            !.matches = IF k \in MatchKey /\ ~f.req.earliest
                        THEN @ \cup MatchIds[k] ELSE @]

\* text.data() and text.data() + text.size() as positions of the scan.
TextBegin(r) == IF Forward THEN 0 ELSE r.n
TextEnd(r) == IF Forward THEN r.n ELSE 0

\* The rest of DFA::Search before the loop, and the loop's own check of start.
Begin(t) ==
  LET f == frame[t]
      s == startInfo[f.req.kind]
  IN
  /\ At(t, "begin") /\ f.req.op = "search"
  /\ CASE s = DeadState -> Finish(t, Answer(FALSE, NoPos, {}))
       [] s = FullMatchState ->
            Finish(t, Answer(TRUE, IF Forward = f.req.earliest THEN TextBegin(f.req)
                                                               ELSE TextEnd(f.req), {}))
       [] s \in Addr ->
            LET g == Noted(f, content[s], 0) IN
            IF IsMatch(s) /\ f.req.earliest
            THEN Finish(t, Answer(TRUE, g.lastmatch, g.matches))
            ELSE SetFrame(t, [g EXCEPT !.pc = "loop", !.start = s, !.s = s])
  /\ UNCHANGED <<locks, graph>>

(***************************************************************************)
(* InlinedSearchLoop.                                                      *)
(***************************************************************************)

\* Read the next input, perhaps after a jump.  PrefixAccel stops at the first
\* byte it must not skip, or at the end of the text.
NextByte(t) ==
  LET f == frame[t]
      accel == f.p < f.req.n /\ f.s = f.start /\ f.req.kind \in AccelKind
  IN
  /\ At(t, "loop")
  /\ \E q \in IF accel THEN f.p .. f.req.n ELSE {f.p} :
       \E x \in IF q = f.req.n THEN Input
                ELSE IF accel THEN Class \ SkipClass ELSE Class :
         SetFrame(t, [f EXCEPT !.pc = "load", !.c = x, !.p = q + 1])
  /\ UNCHANGED <<locks, graph>>

\* The search moves to the state at ns, whose contents are k.
MoveTo(t, ns, k) ==
  LET f == frame[t]
      g == Noted(f, k, f.p - 1)
  IN
  IF f.p > f.req.n \/ (k \in MatchKey /\ f.req.earliest)
  THEN Finish(t, Answer(g.lastmatch # NoPos, g.lastmatch, g.matches))
  ELSE SetFrame(t, [g EXCEPT !.pc = "loop", !.s = ns, !.c = NULL, !.afterReset = FALSE])

Matched(f) == Answer(f.lastmatch # NoPos, f.lastmatch, f.matches)

\* Faulty variants: the dead state is walked into like any other; a full match
\* ends where it is seen.
ArriveInDead(t, ns, k) ==
  IF ns = FullMatchState THEN Finish(t, Answer(TRUE, frame[t].req.n, frame[t].matches))
                         ELSE MoveTo(t, ns, k)
ArriveFullHere(t, ns, k) ==
  CASE ns = DeadState -> Finish(t, Matched(frame[t]))
    [] ns = FullMatchState -> Finish(t, Answer(TRUE, frame[t].p - 1, frame[t].matches))
    [] ns \in Addr -> MoveTo(t, ns, k)

\* The next state is ns: the end of the search, or a state of contents k.
Arrive(t, ns, k) ==
  CASE ns = DeadState -> Finish(t, Matched(frame[t]))
    [] ns = FullMatchState -> Finish(t, Answer(TRUE, frame[t].req.n, frame[t].matches))
    [] ns \in Addr -> MoveTo(t, ns, k)

\* The lock-free load of s->next_[c].
Load(t) ==
  LET f == frame[t]
      ns == next[f.s][f.c]
  IN
  /\ At(t, "load")
  /\ IF ns = NULL THEN Goto(t, "run")
     ELSE Arrive(t, ns, IF ns \in Addr THEN content[ns] ELSE NULL)
  /\ UNCHANGED <<locks, graph>>

RunStateOnByteUnlocked(t) ==
  LET f == frame[t] IN
  /\ At(t, "run") /\ CanLock(t)
  /\ \E ns \in Ptr :
       /\ RunStateOnByte(f.s, f.c, ns)
       /\ CASE ns # NULL -> Arrive(t, ns, IF ns \in Addr THEN content'[ns] ELSE NULL)
            [] ns = NULL /\ ~f.afterReset -> Goto(t, "oom")
            [] ns = NULL /\ f.afterReset -> Finish(t, Fatal)
  /\ UNCHANGED locks

\* The distance p - resetp as the size_t it is cast to: a backward scan moves
\* p down, and the difference wraps around.
Distance(f) == (IF Forward THEN f.p - f.resetp ELSE f.resetp - f.p) % SizeMod

\* Faulty variant: the number of states computed is left out of the average.
TooSlowPerState(f) ==
  /\ f.resetp # NoPos
  /\ Distance(f) < BailFactor
  /\ ~ManyMatch

TooSlow(f) ==
  /\ f.resetp # NoPos
  /\ Distance(f) < BailFactor * Cardinality(Live)
  /\ ~ManyMatch

\* No memory for the next state.  Give up if that was so too recently, else
\* save the contents of s, and of start unless this is the last input.
OutOfMemory(t) ==
  LET f == frame[t]
      inText == f.p <= f.req.n
  IN
  /\ At(t, "oom")
  /\ IF inText /\ TooSlow(f)
     THEN Finish(t, GaveUp)
     ELSE SetFrame(t, [f EXCEPT !.pc = "reset",
                                !.resetp = IF inText THEN f.p ELSE @,
                                !.savedStart = IF inText THEN content[f.start] ELSE NULL,
                                !.savedS = content[f.s],
                                !.start = NULL, !.s = NULL])
  /\ UNCHANGED <<locks, graph>>

(***************************************************************************)
(* ResetCache and StateSaver::Restore.                                     *)
(***************************************************************************)

\* Faulty variant: a thread that has the lock for writing queues up for it again.
DropReaderLockAgain(t) ==
  /\ At(t, "reset")
  /\ Goto(t, "wantWrite") /\ readers' = readers \ {t}
  /\ UNCHANGED <<writer, mutex, graph>>

\* LockForWriting, first half: nothing to do if this call has reset before.
DropReaderLock(t) ==
  /\ At(t, "reset")
  /\ IF writer = t THEN Goto(t, "clear") /\ UNCHANGED readers
                   ELSE Goto(t, "wantWrite") /\ readers' = readers \ {t}
  /\ UNCHANGED <<writer, mutex, graph>>

\* Second half.  Others may have searched, and reset the cache, in between.
WriterLock(t) ==
  /\ At(t, "wantWrite") /\ CanWrite(t)
  /\ writer' = t
  /\ Goto(t, "clear")
  /\ UNCHANGED <<readers, mutex, graph>>

ClearStates ==
  /\ content' = [a \in Addr |-> NULL]
  /\ next' = [a \in Addr |-> NoEdges]

\* What a thread does next: it rebuilds what it has saved, or starts over.
AfterClear(f) ==
  [f EXCEPT !.afterReset = TRUE,
            !.pc = IF f.savedS = NULL THEN "analyze"
                   ELSE IF f.savedStart = NULL THEN "restoreS"
                   ELSE "restoreStart"]

\* Faulty variants: start_ is not cleared; mem_budget_ is not restored.
ClearCacheKeepsStart(t) ==
  /\ At(t, "clear")
  /\ ClearStates
  /\ budget' = StateBudget
  /\ SetFrame(t, AfterClear(frame[t]))
  /\ UNCHANGED <<locks, startInfo>>
ClearCacheKeepsBudget(t) ==
  /\ At(t, "clear")
  /\ startInfo' = [k \in StartKind |-> NULL]
  /\ ClearStates
  /\ SetFrame(t, AfterClear(frame[t]))
  /\ UNCHANGED <<locks, budget>>

ClearCache(t) ==
  /\ At(t, "clear")
  /\ startInfo' = [k \in StartKind |-> NULL]
  /\ ClearStates
  /\ budget' = StateBudget
  /\ SetFrame(t, AfterClear(frame[t]))
  /\ UNCHANGED locks

RestoreStart(t) ==
  LET f == frame[t] IN
  /\ At(t, "restoreStart") /\ CanLock(t)
  /\ \E ptr \in Ptr :
       /\ CachedState(f.savedStart, ptr)
       /\ IF ptr = NULL THEN Finish(t, Fatal)
          ELSE SetFrame(t, [f EXCEPT !.pc = "restoreS", !.start = ptr, !.savedStart = NULL])
  /\ UNCHANGED <<locks, next, startInfo>>

RestoreS(t) ==
  LET f == frame[t] IN
  /\ At(t, "restoreS") /\ CanLock(t)
  /\ \E ptr \in Ptr :
       /\ CachedState(f.savedS, ptr)
       /\ IF ptr = NULL THEN Finish(t, Fatal)
          ELSE SetFrame(t, [f EXCEPT !.pc = "run", !.s = ptr, !.savedS = NULL])
  /\ UNCHANGED <<locks, next, startInfo>>

\* Faulty variant: a reader leaves without giving its lock back.
ReturnKeepsLock(t) ==
  /\ At(t, "done")
  /\ IF writer = t THEN writer' = NoThread ELSE UNCHANGED writer
  /\ SetFrame(t, IdleFrame)
  /\ UNCHANGED <<readers, mutex, graph>>

\* RWLocker's destructor.
Return(t) ==
  /\ At(t, "done")
  /\ IF writer = t THEN writer' = NoThread /\ UNCHANGED readers
                   ELSE readers' = readers \ {t} /\ UNCHANGED writer
  /\ SetFrame(t, IdleFrame)
  /\ UNCHANGED <<mutex, graph>>

(***************************************************************************)
(* PossibleMatchRange after AnalyzeSearch.  It walks from the start state  *)
(* to the lowest and then to the highest matching strings, and holds       *)
(* mutex_ all the way.  The order of the bytes is abstracted: any class    *)
(* may be tried next.  Running out of memory fails the walk.               *)
(***************************************************************************)
FinishRange(t, ok) ==
  /\ mutex' = NoThread
  /\ Finish(t, Answer(ok, NoPos, {}))

StartPass(f, pass) ==
  [f EXCEPT !.pc = "walk", !.pass = pass, !.s = f.start, !.p = 0, !.seen = {}, !.todo = {}]

BeginRange(t) ==
  LET f == frame[t]
      s == startInfo[f.req.kind]
  IN
  /\ At(t, "begin") /\ f.req.op = "range"
  /\ IF s \in Special
     THEN Finish(t, Answer(s = DeadState, NoPos, {})) /\ UNCHANGED mutex
     ELSE /\ CanLock(t)
          /\ mutex' = t
          /\ SetFrame(t, StartPass([f EXCEPT !.start = s], "min"))
  /\ UNCHANGED <<readers, writer, graph>>

\* End of a pass.  PrefixSuccessor may find that there is no maximum.
EndPass(t) ==
  IF frame[t].pass = "min"
  THEN SetFrame(t, StartPass(frame[t], "max")) /\ UNCHANGED mutex
  ELSE \E ok \in IF frame[t].req.n = 0 THEN {FALSE} ELSE BOOLEAN : FinishRange(t, ok)

\* Head of the loop over the lengths: stop at maxlen or at a state seen before.
WalkHead(t) ==
  LET f == frame[t] IN
  /\ At(t, "walk") /\ f.todo = {}
  /\ IF f.p = f.req.n \/ f.s \in f.seen
     THEN EndPass(t)
     ELSE /\ SetFrame(t, [f EXCEPT !.seen = @ \cup {f.s},
                                   !.todo = IF f.pass = "min" THEN Input ELSE Class])
          /\ UNCHANGED mutex
  /\ UNCHANGED <<readers, writer, graph>>

\* One RunStateOnByte of the walk; the check for a match comes first.
WalkByte(t) ==
  LET f == frame[t]
      Matching(ns) == ns = FullMatchState \/ (ns \in Addr /\ content'[ns] \in MatchKey)
      Interesting(ns) == ns = FullMatchState \/ (ns \in Addr /\ content'[ns] \in InstKey)
  IN
  /\ At(t, "walk")
  /\ \E x \in f.todo, ns \in Ptr :
       /\ EndText \in f.todo => x = EndText
       /\ RunStateOnByte(f.s, x, ns)
       /\ CASE ns = NULL -> FinishRange(t, FALSE)
            [] ns # NULL /\ x = EndText /\ Matching(ns) -> EndPass(t)
            [] ns # NULL /\ x # EndText /\ Interesting(ns) ->
                 /\ SetFrame(t, [f EXCEPT !.s = ns, !.p = @ + 1, !.todo = {}])
                 /\ UNCHANGED mutex
            [] ns # NULL /\ x # EndText /\ ~Interesting(ns) /\ f.todo = {x} ->
                 IF f.pass = "min" THEN EndPass(t) ELSE FinishRange(t, TRUE)
            [] OTHER ->
                 /\ SetFrame(t, [f EXCEPT !.todo = @ \ {x}])
                 /\ UNCHANGED mutex
  /\ UNCHANGED <<readers, writer>>

(***************************************************************************)
(* The specification.                                                      *)
(***************************************************************************)
Local(t) ==
  QuickCheck(t) \/ Begin(t) \/ NextByte(t) \/ Load(t) \/ OutOfMemory(t)
    \/ DropReaderLock(t) \/ ClearCache(t) \/ Return(t) \/ WalkHead(t) \/ WalkByte(t)
WithMutex(t) ==
  FillStart(t) \/ RunStateOnByteUnlocked(t) \/ RestoreStart(t) \/ RestoreS(t)
    \/ BeginRange(t)

Next ==
  \E t \in Thread :
    \/ Search(t) \/ PossibleMatchRange(t)
    \/ Local(t) \/ WithMutex(t) \/ WriterLock(t)

Spec == Init /\ [][Next]_vars

\* A thread inside a call is scheduled, and a lock that is free again and again
\* is granted in the end.  Nobody has to call.
FairSpec ==
  /\ Spec
  /\ \A t \in Thread :
       WF_vars(Local(t)) /\ SF_vars(WithMutex(t)) /\ SF_vars(WriterLock(t))

(***************************************************************************)
(* Properties.                                                             *)
(***************************************************************************)
Pcs ==
  {"idle", "analyze", "fillStart", "begin", "loop", "load", "run", "oom", "reset",
   "wantWrite", "clear", "restoreStart", "restoreS", "walk", "done"}
Frames ==
  [pc : Pcs,
   req : Requests \cup {NULL},
   start : Addr \cup {NULL}, s : Addr \cup {FullMatchState, NULL},
   c : Input \cup {NULL}, p : Nat, resetp : Nat \cup {NoPos},
   savedStart : Key \cup {NULL}, savedS : Key \cup {NULL}, afterReset : BOOLEAN,
   lastmatch : Nat \cup {NoPos}, matches : SUBSET AllIds,
   pass : {"none", "min", "max"}, todo : SUBSET Input,
   seen : SUBSET (Addr \cup {FullMatchState}),
   result : Results \cup {Fatal, NULL}]

TypeOK ==
  /\ readers \subseteq Thread
  /\ writer \in Thread \cup {NoThread}
  /\ mutex \in Thread \cup {NoThread}
  /\ content \in [Addr -> Key \cup {NULL}]
  /\ next \in [Addr -> [Input -> Ptr]]
  /\ startInfo \in [StartKind -> Ptr]
  /\ budget \in Int
  /\ frame \in [Thread -> Frames]

\* "Any State* pointers are only valid while cache_mutex_ is held" (dfa.cc:336):
\* a thread holds cache_mutex_ whenever it stands on a state, and every pointer
\* it keeps, in the search loop or in a range walk, is to a state in the cache.
NoUseAfterFree ==
  \A t \in Thread :
    LET f == frame[t]
        held == ({f.start, f.s} \cup f.seen) \ {NULL, FullMatchState}
    IN held # {} => held \subseteq Live /\ (t \in readers \/ writer = t)

\* An edge and a start pointer, once set, lead to a live state that has the
\* contents the automaton prescribes: never to one of an earlier cache.
Leads(ptr, k) == IF k \in Special THEN ptr = k ELSE ptr \in Live /\ content[ptr] = k
GraphSound ==
  /\ \A a \in Live, x \in Input :
       next[a][x] # NULL => Leads(next[a][x], Delta[content[a]][x])
  /\ \A k \in StartKind : startInfo[k] # NULL => Leads(startInfo[k], StartOf[k])

\* No two states have equal contents (the search compares s == start).
NoDuplicateStates ==
  \A a, b \in Live : content[a] = content[b] => a = b

\* From the moment a thread may clear the cache until it stands on rebuilt
\* states, no other thread is inside: none holds a state, mutex_ or a lock.
ResetIsExclusive ==
  \A t \in Thread :
    frame[t].pc \in {"clear", "restoreStart", "restoreS"} =>
      /\ writer = t /\ readers = {} /\ mutex = NoThread
      /\ \A u \in Thread \ {t} : frame[u].pc \in {"idle", "wantWrite"}

\* mem_budget_ is what the cached states leave of state_budget_, or -1 from a
\* failed allocation to the next reset.
BudgetAccounts ==
  LET CostAt(a) == Cost[content[a]] IN
  \/ budget = -1
  \/ budget >= 0 /\ budget + MapThenSumSet(CostAt, Live) = StateBudget

\* "should never return NULL if used right after ResetCache" (dfa.cc:1227):
\* none of the LOG(DFATAL) branches behind a reset is ever reached.
NeverFatal == \A t \in Thread : frame[t].result # Fatal

\* While a thread searches, states and edges are only added: what one thread
\* has seen stays true until a thread that is alone clears the cache.
GraphOnlyGrows ==
  [][\/ \E t \in Thread : At(t, "clear") /\ writer = t /\ readers = {}
     \/ /\ \A a \in Live : content'[a] = content[a]
        /\ \A a \in Live, x \in Input : next[a][x] # NULL => next'[a][x] = next[a][x]
        /\ \A k \in StartKind : startInfo[k] # NULL => startInfo'[k] = startInfo[k]]_vars

\* "Unless we're processing an average of 10 bytes per state computation, fail so
\* that RE2 can fall back to the NFA" (dfa.cc:1435): a search that fills the
\* cache alone, too soon after its last reset, does not reset it again.
Scanned(f) == IF f.p >= f.resetp THEN f.p - f.resetp ELSE f.resetp - f.p
SlowSearchGivesUp ==
  [][\A t \in Thread :
       LET f == frame[t] IN
       (At(t, "oom") /\ f.p <= f.req.n /\ f.resetp # NoPos /\ ~ManyMatch) =>
         (frame'[t].pc = "reset" => Scanned(f) >= BailFactor * Cardinality(Live))]_vars

\* Every call returns: no lock is held for ever, no wait is circular, and the
\* loop of resets makes progress.
EveryCallReturns == \A t \in Thread : frame[t].pc # "idle" ~> frame[t].pc = "idle"

(***************************************************************************)
(* The inductive invariant behind the safety properties.                   *)
(***************************************************************************)
Inside(t) == t \in readers \/ writer = t

\* Which locks a thread holds at each step.  A thread is alone from the reset
\* to the state it computes next.
LocksOK(t) ==
  LET f == frame[t] IN
  /\ f.pc \notin {"idle", "wantWrite"} <=> Inside(t)
  /\ f.pc \in {"clear", "restoreStart", "restoreS"} \/ f.afterReset => writer = t
  /\ f.pc = "walk" <=> mutex = t

\* Which states it stands on, or has saved.
StatesOK(t) ==
  LET f == frame[t] IN
  /\ f.req = NULL <=> f.pc = "idle"
  /\ {f.start, f.s} \cup f.seen \subseteq Live \cup {NULL, FullMatchState}
  /\ f.pc \notin {"loop", "load", "run", "oom", "walk"} => f.s = NULL
  /\ f.pc \notin {"loop", "load", "run", "oom", "walk", "restoreS"} => f.start = NULL
  /\ f.pc # "walk" => f.seen = {}
  /\ f.pc \in {"loop", "load", "run", "oom"} =>
       f.s \in Addr /\ (f.p <= f.req.n => f.start \in Addr)
  /\ f.pc = "walk" => f.s # NULL /\ f.start \in Addr
  /\ f.pc = "loop" => f.p <= f.req.n
  /\ f.pc \in {"analyze", "fillStart", "begin"} => f.p = 0
  /\ f.pc \in {"reset", "wantWrite", "clear"} /\ f.savedS = NULL =>
       f.p = 0 /\ f.savedStart = NULL
  /\ f.pc \in {"load", "run", "oom"} \/ f.savedS # NULL => f.c \in Input /\ f.p >= 1
  /\ f.pc \notin {"reset", "wantWrite", "clear", "restoreStart", "restoreS"} => f.savedS = NULL
  /\ f.pc \notin {"reset", "wantWrite", "clear", "restoreStart"} => f.savedStart = NULL
  /\ f.pc \in {"reset", "wantWrite", "clear"} =>
       (f.savedS # NULL /\ f.p <= f.req.n => f.savedStart # NULL)
  /\ f.pc = "restoreStart" => f.savedStart # NULL /\ f.savedS # NULL
  /\ f.pc = "restoreS" => f.savedS # NULL /\ (f.p <= f.req.n => f.start \in Addr)
  /\ f.pc = "begin" => startInfo[f.req.kind] # NULL

\* After a reset there is room for what remains to be built.
RoomOK(t) ==
  LET f == frame[t]
      Room(n) == \A k \in Key : n * Cost[k] <= budget
  IN
  /\ f.afterReset => f.pc \in {"analyze", "fillStart", "restoreStart", "restoreS", "run"}
  /\ f.pc = "analyze" /\ f.afterReset => startInfo[f.req.kind] = NULL
  /\ f.pc \in {"restoreStart", "restoreS"} => f.afterReset
  /\ f.pc \in {"analyze", "fillStart", "restoreStart"} /\ f.afterReset => Room(3)
  /\ f.pc = "restoreS" => Room(2)
  /\ f.pc = "run" /\ f.afterReset => Room(1)
  /\ f.result # Fatal

WritersAlone == writer # NoThread => readers = {}
FreeHasNoEdges == \A a \in Addr \ Live : next[a] = NoEdges

IInv ==
  /\ TypeOK
  /\ WritersAlone
  /\ GraphSound
  /\ FreeHasNoEdges
  /\ NoDuplicateStates
  /\ \A t \in Thread : LocksOK(t) /\ StatesOK(t) /\ RoomOK(t)
=============================================================================
