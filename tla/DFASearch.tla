------------------------------ MODULE DFASearch ------------------------------
(***************************************************************************)
(* What DFA::Search promises to each caller, whatever the other callers    *)
(* do: the answer of a scan that runs alone over a complete DFA.  There    *)
(* is no cache here, no lock, no memory budget.  A search walks Delta one  *)
(* input at a time, remembers the last match, and ends when it is dead,    *)
(* fully matched, satisfied by its first match, or out of input.  Unless   *)
(* the DFA serves an RE2::Set it may also give up, because its callers     *)
(* then run another engine.                                                *)
(*                                                                         *)
(* Positions count the inputs consumed in the direction of the scan, so    *)
(* the same definitions serve forward and backward searches.               *)
(***************************************************************************)
EXTENDS Integers

CONSTANTS
  Thread,          \* concurrent callers of DFA::Search
  Key,             \* contents (inst_, flag_) of the ordinary DFA states
  Class,           \* byte classes of the program's bytemap
  EndText,         \* kByteEndText, the imaginary byte after the context
  StartKind,       \* indices of start_[]
  StartOf,         \* start state of each kind
  Delta,           \* the complete transition function
  MatchKey,        \* contents with kFlagMatch
  MatchIds,        \* match ids stored after MatchSep, per content
  AccelKind,       \* kinds whose searches may use prefix acceleration
  SkipClass,       \* classes prefix acceleration jumps over
  ManyMatch,       \* the DFA belongs to an RE2::Set
  MaxText,         \* bound on the length of a text
  DeadState, FullMatchState, NULL, NoPos

VARIABLES phase, req, cur, p, lastmatch, matches, result

avars == <<phase, req, cur, p, lastmatch, matches, result>>

Input == Class \cup {EndText}
Special == {DeadState, FullMatchState}

(***************************************************************************)
(* The parameters of a search that matter here: where the text begins in   *)
(* its context (with the anchoring, the index into start_), whether the    *)
(* first match is enough, and how long the text is.                        *)
(***************************************************************************)
SearchRequest ==
  [op : {"search"}, kind : StartKind, earliest : BOOLEAN, n : 0..MaxText]

Answer(ret, ep, ids) == [failed |-> FALSE, ret |-> ret, ep |-> ep, ids |-> ids]
GaveUp == [failed |-> TRUE, ret |-> FALSE, ep |-> NoPos, ids |-> {}]

\* The last match and the match ids after arriving in k at position pos.
\* A search that wants the earliest match passes no set to collect ids in.
LastMatch(k, pos, last) == IF k \in MatchKey THEN pos ELSE last
Matches(r, k, ids) ==
  IF k \in MatchKey /\ ~r.earliest THEN ids \cup MatchIds[k] ELSE ids

AInit ==
  /\ phase = [t \in Thread |-> "idle"]
  /\ req = [t \in Thread |-> NULL]
  /\ cur = [t \in Thread |-> NULL]
  /\ p = [t \in Thread |-> 0]
  /\ lastmatch = [t \in Thread |-> NoPos]
  /\ matches = [t \in Thread |-> {}]
  /\ result = [t \in Thread |-> NULL]

\* Leave the scan with answer r; the scan's own variables are forgotten.
Finish(t, r) ==
  /\ phase' = [phase EXCEPT ![t] = "done"]
  /\ result' = [result EXCEPT ![t] = r]
  /\ cur' = [cur EXCEPT ![t] = NULL]
  /\ p' = [p EXCEPT ![t] = 0]
  /\ lastmatch' = [lastmatch EXCEPT ![t] = NoPos]
  /\ matches' = [matches EXCEPT ![t] = {}]
  /\ UNCHANGED req

Call(t) ==
  /\ phase[t] = "idle"
  /\ \E r \in SearchRequest : req' = [req EXCEPT ![t] = r]
  /\ phase' = [phase EXCEPT ![t] = "starting"]
  /\ UNCHANGED <<cur, p, lastmatch, matches, result>>

\* The scan stands in key k after pos inputs; last and ids are its matches.
Continue(t, k, pos, last, ids) ==
  /\ phase' = [phase EXCEPT ![t] = "scanning"]
  /\ cur' = [cur EXCEPT ![t] = k]
  /\ p' = [p EXCEPT ![t] = pos]
  /\ lastmatch' = [lastmatch EXCEPT ![t] = last]
  /\ matches' = [matches EXCEPT ![t] = ids]
  /\ UNCHANGED <<req, result>>

Start(t) ==
  LET k == StartOf[req[t].kind] IN
  /\ phase[t] = "starting"
  /\ CASE k = DeadState -> Finish(t, Answer(FALSE, NoPos, {}))
       [] k = FullMatchState ->
            Finish(t, Answer(TRUE, IF req[t].earliest THEN 0 ELSE req[t].n, {}))
       [] k \in MatchKey /\ req[t].earliest -> Finish(t, Answer(TRUE, 0, {}))
       [] OTHER -> Continue(t, k, 0, LastMatch(k, 0, NoPos), Matches(req[t], k, {}))

(***************************************************************************)
(* One input.  The DFA learns of a match one input late, so the match it   *)
(* reports ends before the input just consumed.  The input after the text  *)
(* is the next byte of the context, or EndText.                            *)
(***************************************************************************)
Step(t) ==
  /\ phase[t] = "scanning"
  /\ p[t] <= req[t].n
  /\ \E x \in IF p[t] < req[t].n THEN Class ELSE Input :
       LET k == Delta[cur[t]][x]
           last == LastMatch(k, p[t], lastmatch[t])
           ids == Matches(req[t], k, matches[t])
       IN CASE k = DeadState ->
                 Finish(t, Answer(lastmatch[t] # NoPos, lastmatch[t], matches[t]))
            [] k = FullMatchState -> Finish(t, Answer(TRUE, req[t].n, matches[t]))
            [] k \in Key /\ (p[t] = req[t].n \/ (k \in MatchKey /\ req[t].earliest)) ->
                 Finish(t, Answer(last # NoPos, last, ids))
            [] OTHER -> Continue(t, k, p[t] + 1, last, ids)

\* Jump over inputs that leave the scan in its start state.
Skip(t) ==
  /\ phase[t] = "scanning"
  /\ req[t].kind \in AccelKind
  /\ cur[t] = StartOf[req[t].kind]
  /\ \E q \in (p[t] + 1)..req[t].n : p' = [p EXCEPT ![t] = q]
  /\ UNCHANGED <<phase, req, cur, lastmatch, matches, result>>

\* A search may give up in mid-scan, but not for an RE2::Set.
GiveUp(t) ==
  /\ phase[t] = "scanning"
  /\ ~ManyMatch
  /\ Finish(t, GaveUp)

Return(t) ==
  /\ phase[t] = "done"
  /\ phase' = [phase EXCEPT ![t] = "idle"]
  /\ req' = [req EXCEPT ![t] = NULL]
  /\ result' = [result EXCEPT ![t] = NULL]
  /\ UNCHANGED <<cur, p, lastmatch, matches>>

ANext ==
  \E t \in Thread :
    Call(t) \/ Start(t) \/ Step(t) \/ Skip(t) \/ GiveUp(t) \/ Return(t)

ASpec == AInit /\ [][ANext]_avars
=============================================================================
