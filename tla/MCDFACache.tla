----------------------------- MODULE MCDFACache -----------------------------
(***************************************************************************)
(* Small instances of the cache: three automata, as WorkqToCachedState     *)
(* builds them.  Bytes fall into classes: a, b, and all others.            *)
(***************************************************************************)
EXTENDS DFACacheRefines, TLC

Row(x, y, e) == "a" :> x @@ "o" :> y @@ EndText :> e
SetRow(x, y, e) == "a" :> x @@ "b" :> y @@ EndText :> e
Dead == SetRow(DeadState, DeadState, DeadState)

Find(kind, earliest, n) == [op |-> "search", kind |-> kind, earliest |-> earliest, n |-> n]
Walk(n) == [op |-> "range", kind |-> "closed", earliest |-> FALSE, n |-> n]

Symmetry == Permutations(Thread) \cup Permutations(Addr)

(***************************************************************************)
(* The forward first-match DFA of (?s)a. with the states                   *)
(*   S0 unanchored start, S1 after a, S2 after a. (only kInstMatch is      *)
(*   left), M empty with kFlagMatch, A0 and A1 as S0 and S1 anchored.      *)
(* SearchDFA asks a first-match DFA for the leftmost match only: it runs   *)
(* searches for any match, and range walks, on the longest-match DFA.      *)
(***************************************************************************)
FirstKey == {"S0", "S1", "S2", "M", "A0", "A1"}
FirstStartOf == "open" :> "S0" @@ "closed" :> "A0"
FirstDelta ==
  "S0" :> Row("S1", "S0", DeadState) @@
  "S1" :> Row("S2", "S2", DeadState) @@
  "S2" :> Row("M", "M", "M") @@
  "M"  :> Row(DeadState, DeadState, DeadState) @@
  "A0" :> Row("A1", DeadState, DeadState) @@
  "A1" :> Row("S2", "S2", DeadState)
FirstInstKey == FirstKey \ {"M"}
FirstMatchIds == [k \in FirstKey |-> {}]
FirstCost == [k \in FirstKey |-> 1]
FirstRequests == {Find("open", FALSE, 3), Find("open", FALSE, 1), Find("closed", FALSE, 2)}

(***************************************************************************)
(* The longest-match DFA of (?s)a{3}.* in Latin-1.  Anchored, its states   *)
(* are a chain C0 .. C2 that ends in L (kInstAltMatch and kInstMatch), one *)
(* too long for a cache of three: the search must reset, and soon again if *)
(* another search left the cache full.  The byte after L makes the full    *)
(* match, the end of the text makes M (empty, kFlagMatch).  Unanchored, Ui *)
(* has seen i times a, and L is reached as well because a match cuts off   *)
(* the threads that began later.                                           *)
(***************************************************************************)
LongestKey == {"U0", "U1", "U2", "C0", "C1", "C2", "L", "M"}
LongestStartOf == "open" :> "U0" @@ "closed" :> "C0"
LongestDelta ==
  "U0" :> Row("U1", "U0", DeadState) @@
  "U1" :> Row("U2", "U0", DeadState) @@
  "U2" :> Row("L", "U0", DeadState) @@
  "C0" :> Row("C1", DeadState, DeadState) @@
  "C1" :> Row("C2", DeadState, DeadState) @@
  "C2" :> Row("L", DeadState, DeadState) @@
  "L"  :> Row(FullMatchState, FullMatchState, "M") @@
  "M"  :> Row(DeadState, DeadState, DeadState)
LongestInstKey == LongestKey \ {"M"}
LongestMatchIds == [k \in LongestKey |-> {}]
LongestCost == [k \in LongestKey |-> IF k = "M" THEN 1 ELSE 2]

LongestRequests == {Find("open", FALSE, 3), Find("closed", TRUE, 4), Walk(3)}
ChainRequests == {Find("closed", FALSE, 4)}
\* For liveness: a search that resets the cache, and a walk that holds mutex_.
LiveRequests == {Find("closed", FALSE, 3), Walk(1)}

(***************************************************************************)
(* The many-match DFA of an unanchored RE2::Set of the regexps a (id 0)    *)
(* and ab (id 1).  V0 start; V1 after a; a W or X state has the match ids  *)
(* of the regexps that ended before its last byte after MatchSep: 0 in W,  *)
(* 1 in X.  E0 and E1 have ids only.                                       *)
(***************************************************************************)
SetKey == {"V0", "V1", "W1", "W2", "X0", "X1", "E0", "E1"}
SetStartOf == "open" :> "V0" @@ "closed" :> "V0"
SetDelta ==
  LET AfterA == SetRow("W1", "W2", "E0")
      AfterStart == SetRow("V1", "V0", DeadState)
  IN "V0" :> AfterStart @@ "X0" :> AfterStart @@
     "V1" :> AfterA @@ "W1" :> AfterA @@ "X1" :> AfterA @@
     "W2" :> SetRow("X1", "X0", "E1") @@
     "E0" :> Dead @@ "E1" :> Dead
SetMatchKey == SetKey \ {"V0", "V1"}
SetInstKey == SetKey \ {"E0", "E1"}
SetMatchIds ==
  [k \in SetKey |-> CASE k \in {"W1", "W2", "E0"} -> {0} [] k \in {"X0", "X1", "E1"} -> {1}
                      [] OTHER -> {}]
SetCost == [k \in SetKey |-> IF k \in SetMatchKey THEN 2 ELSE 1]
SetRequests == {Find("open", e, 3) : e \in BOOLEAN}
=============================================================================
