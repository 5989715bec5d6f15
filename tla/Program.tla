------------------------------ MODULE Program ------------------------------
(***************************************************************************)
(* Compiled programs (re2/prog.h) in the form Flatten leaves them in, and  *)
(* what all matching engines ask of them and of the text.                  *)
(*                                                                         *)
(* A program is a record of                                                *)
(*   inst         the sequence of its instructions, in lists that end    *)
(*                where last is set; the first one, number 0, is Fail      *)
(*   start        the first instruction, head of its list                  *)
(*   startUnanchored                                                       *)
(*                the loop over any bytes in front of it, or start again   *)
(*   anchorStart, anchorEnd                                                *)
(*   prefix       for each byte of the required prefix the bytes it        *)
(*                stands for; <<>> if there is no acceleration             *)
(*   foldcase     prefix_foldcase_                                         *)
(* An instruction has all fields; op says which of them mean anything.     *)
(***************************************************************************)
EXTENDS Integers, Sequences

CONSTANTS
  NewLine,         \* the byte \n
  WordChar         \* the bytes of \w

NULL == -1

\* inst(id)
Inst(prog, id) == prog.inst[id + 1]
InstIds(prog) == 0..(Len(prog.inst) - 1)

(***************************************************************************)
(* Prog::Inst.                                                             *)
(***************************************************************************)
Plain == [op |-> "Fail", last |-> FALSE, out |-> 0, out1 |-> 0,
          bytes |-> {}, lo |-> 0, hi |-> 0, fold |-> FALSE, hint |-> 0,
          cap |-> 0, empty |-> {}, id |-> 0]

Fail == Plain
Match == [Plain EXCEPT !.op = "Match"]
Nop(out) == [Plain EXCEPT !.op = "Nop", !.out = out]
Capture(cap, out) == [Plain EXCEPT !.op = "Capture", !.cap = cap, !.out = out]
EmptyWidth(empty, out) == [Plain EXCEPT !.op = "EmptyWidth", !.empty = empty, !.out = out]
AltMatch(out, out1) == [Plain EXCEPT !.op = "AltMatch", !.out = out, !.out1 = out1]
\* bytes are those that lo, hi and the folding of case accept.
ByteRange(bytes, hint, out) ==
  [Plain EXCEPT !.op = "ByteRange", !.bytes = bytes, !.hint = hint, !.out = out]
Accepted(lo, hi, fold) ==
  {c \in 0..255 : LET folded == IF fold /\ c \in 65..90 THEN c + 32 ELSE c
                  IN lo <= folded /\ folded <= hi}

\* Of the two ways of an AltMatch, is the loop over all bytes the first?
Greedy(prog, ip) ==
  LET first == Inst(prog, ip.out) IN
  \/ first.op = "ByteRange"
  \/ first.op = "Nop" /\ Inst(prog, first.out).op = "ByteRange"

\* The first instruction of the list of id; list_heads_ numbers just these.
IsHead(prog, id) == id = 0 \/ Inst(prog, id - 1).last

(***************************************************************************)
(* What the engines take for granted of a program, as Flatten leaves it.   *)
(***************************************************************************)
\* The instructions from which, without reading, nothing leads but straight to a
\* Match, in n steps at most: IsMatch(prog, ip), which an AltMatch relies on.
LeadsTo(prog, known) ==
  {k \in InstIds(prog) :
     LET ip == Inst(prog, k) IN
     ip.op \in {"Capture", "Nop"} /\ ip.out \in known
       /\ IsHead(prog, ip.out) /\ Inst(prog, ip.out).last}
SureWithin(prog) ==
  LET sure[n \in 0..Len(prog.inst)] ==
        IF n = 0 THEN {k \in InstIds(prog) : Inst(prog, k).op = "Match"}
        ELSE LET known == sure[n - 1] IN known \cup LeadsTo(prog, known)
  IN sure
Sure(prog) == SureWithin(prog)[Len(prog.inst)]

\* Where an AltMatch goes on when it skips the text.
Shortcut(prog, ip) == IF Greedy(prog, ip) THEN ip.out1 ELSE ip.out

WellFormedInst(prog, k) ==
  LET ip == Inst(prog, k) IN
  /\ ip.op \in {"Fail", "AltMatch", "ByteRange", "Capture", "EmptyWidth", "Nop", "Match"}
  /\ ip.last \in BOOLEAN /\ (~ip.last => k + 1 \in InstIds(prog))
  /\ ip.op \in {"ByteRange", "Capture", "EmptyWidth", "Nop"} =>
       ip.out \in InstIds(prog) /\ IsHead(prog, ip.out)
  /\ ip.op = "Capture" => ip.cap \in Nat
  \* A hint leads on in the same list.
  /\ ip.op = "ByteRange" =>
       /\ ip.hint \in Nat /\ k + ip.hint \in InstIds(prog)
       /\ \A m \in k..(k + ip.hint - 1) : ~Inst(prog, m).last
  \* The loop and the way to the Match follow an AltMatch, which is where the
  \* loop comes back to.
  /\ ip.op = "AltMatch" =>
       /\ IsHead(prog, k) /\ ~ip.last /\ ~Inst(prog, k + 1).last
       /\ ip.out = k + 1 /\ ip.out1 = k + 2
       /\ Shortcut(prog, ip) \in Sure(prog)

WellFormedProg(prog) ==
  /\ Len(prog.inst) \in Nat /\ Len(prog.inst) > 0 /\ Len(prog.prefix) \in Nat
  /\ Inst(prog, 0).op = "Fail"
  /\ prog.start \in InstIds(prog) /\ IsHead(prog, prog.start)
  \* In the loop in front of an unanchored search, a byte follows the way to the start.
  /\ prog.startUnanchored \in InstIds(prog) /\ IsHead(prog, prog.startUnanchored)
  /\ prog.startUnanchored # prog.start => ~Inst(prog, prog.startUnanchored).last
  /\ \A k \in InstIds(prog) : WellFormedInst(prog, k)

AllEmptyFlags ==
  {"BeginText", "EndText", "BeginLine", "EndLine", "WordBoundary", "NonWordBoundary"}

EmptyFlags(context, p) ==
  LET n == Len(context)
      Word(k) == k \in 1..n /\ context[k] \in WordChar
      Holds(flag) ==
        CASE flag = "BeginText" -> p = 0
          [] flag = "EndText" -> p = n
          [] flag = "BeginLine" -> p = 0 \/ context[p] = NewLine
          [] flag = "EndLine" -> p = n \/ context[p + 1] = NewLine
          [] flag = "WordBoundary" -> Word(p) # Word(p + 1)
          [] flag = "NonWordBoundary" -> Word(p) = Word(p + 1)
  IN {flag \in AllEmptyFlags : Holds(flag)}
=============================================================================
