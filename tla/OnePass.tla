------------------------------ MODULE OnePass ------------------------------
(***************************************************************************)
(* The one-pass engine of re2/onepass.cc: it follows the table that        *)
(* IsOnePass has made of a program.                                        *)
(***************************************************************************)
EXTENDS Engine, OnePassTable

VARIABLES
  node,            \* the head of the list whose OneState the search is in
  caps, matchcap   \* the registers on the way, and at the last match

onePassVars == <<node, caps, matchcap>>

Nowhere == -1

\* SearchOnePass may be called; Prog::kMaxOnePassCapture bounds the submatches.
MayRunOnePass(q) ==
  /\ q.anchored
  /\ 2 * q.nmatch <= kMaxCap
  /\ IsOnePass(ProgOf(q))

\* The action for a byte; bytes that have none lead nowhere.
ActionAt(state, byte) ==
  LET acts == {act \in state.actions : byte \in act.bytes /\ ~Impossible(act.cond)}
  IN IF acts = {} THEN [bytes |-> {}, cond |-> Never, next |-> Nowhere, wins |-> FALSE]
     ELSE CHOOSE act \in acts : TRUE

(***************************************************************************)
(* SearchOnePass.                                                          *)
(***************************************************************************)
OnePassInit == node = Nowhere /\ caps = NoCaptures /\ matchcap = NoCaptures

Full == query.kind = "full" \/ prog.anchorEnd
Satisfy(cond) == cond.empty \subseteq EmptyFlags(query.context, p)
ApplyCaptures(cond, regs) ==
  IF query.nmatch > 1 THEN [k \in DOMAIN regs |-> IF k \in cond.caps \ {0, 1} THEN p ELSE regs[k]]
  ELSE regs
MatchWith(cond) == [ApplyCaptures(cond, caps) EXCEPT ![1] = p]

OnePassReject ==
  /\ engine = "OnePass" /\ pc = "start" /\ Hopeless(query)
  /\ Return(FALSE, matchcap)
  /\ UNCHANGED <<engine, query, id, p, matched, onePassVars>>

OnePassStart ==
  /\ engine = "OnePass" /\ pc = "start" /\ ~Hopeless(query)
  /\ node' = prog.start /\ p' = query.beg
  /\ caps' = [caps EXCEPT ![0] = query.beg]
  /\ matchcap' = [matchcap EXCEPT ![0] = query.beg]
  /\ pc' = "scan"
  /\ UNCHANGED <<engine, query, id, matched, result>>

\* The next byte, and the match before it if that is worth to be noted.
OnePassByte ==
  LET \* What the search does in this state with the action of the byte, to the next state.
      Goes(act, next, noted) ==
        /\ matched' = (matched \/ noted)
        /\ IF next = Nowhere \/ (noted /\ query.kind = "first" /\ act.wins)
           THEN Return(matched', matchcap') /\ UNCHANGED <<node, p, caps>>
           ELSE /\ node' = next /\ p' = p + 1
                /\ caps' = ApplyCaptures(act.cond, caps)
                /\ UNCHANGED <<pc, result>>
      NextCond(next) == IF next = Nowhere THEN Never ELSE OneState(prog, next).matchcond
      \* Not if the certain match at the next byte beats it.
      Noted(cond, act, next) == /\ ~Full /\ ~Impossible(cond)
                                /\ act.wins \/ NextCond(next).empty # {}
                                /\ Satisfy(cond)
  IN /\ engine = "OnePass" /\ pc = "scan" /\ p < query.end
     /\ \E state \in {OneState(prog, node)} :
        \E act \in {ActionAt(state, query.context[p + 1])} :
        \E next \in {IF Satisfy(act.cond) THEN act.next ELSE Nowhere} :
        \E noted \in {Noted(state.matchcond, act, next)} :
          /\ matchcap' = IF noted THEN MatchWith(state.matchcond) ELSE matchcap
          /\ Goes(act, next, noted)
     /\ UNCHANGED <<engine, query, id>>

OnePassEnd ==
  /\ engine = "OnePass" /\ pc = "scan" /\ p = query.end
  /\ \E cond \in {OneState(prog, node).matchcond} :
       /\ matched' = (matched \/ Satisfy(cond))
       /\ matchcap' = IF Satisfy(cond) THEN MatchWith(cond) ELSE matchcap
  /\ Return(matched', matchcap')
  /\ UNCHANGED <<engine, query, id, p, node, caps>>

OnePassNext == OnePassReject \/ OnePassStart \/ OnePassByte \/ OnePassEnd
=============================================================================
