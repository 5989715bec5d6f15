-------------------------------- MODULE Ways --------------------------------
(***************************************************************************)
(* What a program matches, by trial and error.                             *)
(***************************************************************************)
EXTENDS Program

(***************************************************************************)
(* The ways from instruction id at p of w to a Match, in the order of      *)
(* their priority, as the capture registers at their ends; register 1 is   *)
(* the end.  The text goes on to end, and is to be matched to there if     *)
(* whole is set.  A way that passes an instruction twice without reading a *)
(* byte is left out: seen are the instructions passed since the last byte. *)
(***************************************************************************)
RECURSIVE Ways(_, _, _, _, _, _, _, _)
Ways(prog, w, end, whole, id, p, cap, seen) ==
  LET ip == Inst(prog, id)
      On(out, c) == Ways(prog, w, end, whole, out, p, c, seen \cup {id})
      Through ==
        CASE ip.op \in {"Fail", "AltMatch"} -> <<>>
          [] ip.op = "Match" -> IF whole /\ p # end THEN <<>> ELSE << [k \in DOMAIN cap |-> IF k = 1 THEN p ELSE cap[k]] >>
          [] ip.op = "Nop" -> On(ip.out, cap)
          [] ip.op = "Alt" -> On(ip.out, cap) \o On(ip.out1, cap)
          [] ip.op = "Capture" ->
               On(ip.out, [k \in DOMAIN cap |-> IF k = ip.cap THEN p ELSE cap[k]])
          [] ip.op = "EmptyWidth" ->
               IF ip.empty \subseteq EmptyFlags(w, p) THEN On(ip.out, cap) ELSE <<>>
          [] ip.op = "ByteRange" ->
               IF p < end /\ w[p + 1] \in ip.bytes
               THEN Ways(prog, w, end, whole, ip.out, p + 1, cap, {}) ELSE <<>>
  IN IF id \in seen THEN <<>>
     ELSE Through \o (IF ip.last THEN <<>>
                      ELSE Ways(prog, w, end, whole, id + 1, p, cap, seen))
=============================================================================
