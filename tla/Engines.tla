------------------------------ MODULE Engines ------------------------------
(***************************************************************************)
(* All engines against one promise: each of them answers each query with   *)
(* the match that trying everything in order finds.                        *)
(***************************************************************************)
EXTENDS BitState, NFA, OnePass, DFAStates

CONSTANT Queries   \* [engine, query]: what is asked of which engine

\* Programs come from Flatten, and a text is a part of its context.
ASSUME WellFormedPrograms ==
  \A prog_ \in {ProgOf(ask.query) : ask \in Queries} : WellFormedProg(prog_)
ASSUME WellFormedQueries ==
  \A ask \in Queries :
    LET q == ask.query IN
    /\ q.beg \in Nat /\ q.end \in Nat /\ q.beg <= q.end /\ q.end <= Len(q.context)
    /\ q.nmatch \in Nat /\ q.kind \in {"first", "longest", "full"}

vars == <<engineVars, bitStateVars, nfaVars, onePassVars, dfaVars>>

Init ==
  /\ \E ask \in Queries : engine = ask.engine /\ query = ask.query
  /\ pc = "start" /\ id = 0 /\ p = NULL
  /\ matched = FALSE /\ result = <<>>
  /\ BitStateInit /\ NFAInit /\ OnePassInit /\ DFAInit

BitStateStep == BitStateNext /\ UNCHANGED <<nfaVars, onePassVars, dfaVars>>
NFAStep == NFANext /\ UNCHANGED <<bitStateVars, onePassVars, dfaVars>>
OnePassStep == OnePassNext /\ UNCHANGED <<bitStateVars, nfaVars, dfaVars>>
DFAStep == DFANext /\ UNCHANGED <<bitStateVars, nfaVars, onePassVars>>
Next == BitStateStep \/ NFAStep \/ OnePassStep \/ DFAStep

Spec == Init /\ [][Next]_vars
\* A search is one loop of one thread, which goes on while it can.  (The loops
\* of the other two engines take one byte in each turn.)
FairSpec == Spec /\ WF_vars(BitStateStep) /\ WF_vars(NFAStep)

\* What an engine sets aside before a search is enough for all of it: BitState's
\* bitmap, the NFA's stack for AddToThreadq, the DFA's queues.  The code checks
\* none of the three.
RoomForAll == BitmapFits /\ StackBounded /\ QueuesFit

\* The searches that follow several ways through the program end, whatever
\* loops it has.
Ends == engine \in {"BitState", "NFA"} ~> pc = "done"
=============================================================================
