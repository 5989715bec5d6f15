------------------------------- MODULE RE2Set -------------------------------
(***************************************************************************)
(* RE2::Set (re2/set.cc): many patterns in one program, each of which ends *)
(* in a Match with the number of its own.                                  *)
(***************************************************************************)
EXTENDS Factoring, Compiler, Flatten

CONSTANTS
  SetPatterns,     \* [text, tree]: a pattern's bytes, and {what the parser makes of them}
  SetTexts,
  SetFlags,        \* the flags that patterns of a set are parsed with
  SetRoom,         \* the instructions there is room for
  kMaxSet          \* bound: the patterns that are added

VARIABLES
  set,             \* [anchor, elem, compiled, prog]: prog_ is {} or {the program}
  added,           \* the trees of the patterns in the order of their numbers
  query,           \* the text that Match was last asked about, <<>> or <<it>>
  reply            \* what it answered
setVars == <<set, added, query, reply>>

NoReply == [ok |-> FALSE, ids |-> {}, error |-> "none"]
EmptySet(anchor) == [anchor |-> anchor, elem |-> <<>>, compiled |-> FALSE, prog |-> {}]
SetInit ==
  /\ \E anchor \in {"unanchored", "start", "both"} : set = EmptySet(anchor)
  /\ added = <<>> /\ query = <<>> /\ reply = NoReply

(***************************************************************************)
(* Add: a HaveMatch at the end of a pattern tells which one it is.         *)
(***************************************************************************)
\* Mutant: patterns of several pieces get the number of their last piece.
NumberedByPiece(re, n) ==
  LET m == HaveMatch(IF re.op = "Concat" THEN Len(re.subs) - 1 ELSE n, SetFlags)
  IN Concat(IF re.op = "Concat" THEN Append(re.subs, m) ELSE <<re, m>>, SetFlags)
Numbered(re, n) ==
  LET m == HaveMatch(n, SetFlags)
  IN Concat(IF re.op = "Concat" THEN Append(re.subs, m) ELSE <<re, m>>, SetFlags)

SetAdd ==
  /\ ~set.compiled /\ Len(added) < kMaxSet
  /\ \E pattern \in SetPatterns : \E re \in pattern.tree :
       /\ set' = [set EXCEPT !.elem = Append(@, <<pattern.text, Numbered(re, Len(@))>>)]
       /\ added' = Append(added, re)
  /\ UNCHANGED <<query, reply>>

\* Nothing is added of a pattern that is in error.
SetAddFails ==
  /\ ~set.compiled /\ \E pattern \in SetPatterns : pattern.tree = {}
  /\ UNCHANGED setVars

(***************************************************************************)
(* Compile: patterns are sorted, equal ones in any order; the DFA may find *)
(* that there is no room for it to work in.                                *)
(***************************************************************************)
Precedes(s, t) ==
  \/ \E n \in 1..Min({Len(s), Len(t)}) : s[n] < t[n] /\ SubSeq(s, 1, n - 1) = SubSeq(t, 1, n - 1)
  \/ Len(s) < Len(t) /\ s = SubSeq(t, 1, Len(s))
SortedBy(elem, order) == \A k \in 1..(Len(elem) - 1) : ~Precedes(elem[order[k + 1]][1], elem[order[k]][1])
Compiles(re) == {Finish(prog, re, FALSE) : prog \in CompileSet(re, SetFlags, set.anchor, SetRoom)}

SetCompile ==
  /\ ~set.compiled
  /\ \E order \in Permutations(DOMAIN set.elem) :
       /\ SortedBy(set.elem, order)
       /\ LET re == Alternate([k \in DOMAIN set.elem |-> set.elem[order[k]][2]], SetFlags)
          IN \E fits \in BOOLEAN :
               set' = [set EXCEPT !.elem = <<>>, !.compiled = TRUE, !.prog = IF fits THEN Compiles(re) ELSE {}]
  /\ UNCHANGED <<added, query, reply>>

(***************************************************************************)
(* Match: the DFA goes through the whole text, all of its states at once,  *)
(* and collects the numbers of all Matches it comes by.                    *)
(***************************************************************************)
\* All that is reached from the lists at ids without reading.
Reached(prog, w, p, ids) ==
  LET Onto(i) == CASE i.op \in {"Nop", "Capture"} -> {i.out}
                   [] i.op = "EmptyWidth" /\ i.empty \subseteq EmptyFlags(w, p) -> {i.out}
                   [] OTHER -> {}
      Next(id) == Onto(Inst(prog, id)) \cup (IF Inst(prog, id).last THEN {} ELSE {id + 1})
  IN Closure(ids, {}, [id \in InstIds(prog) |-> Next(id)])
Matched(prog, w) ==
  LET After(ids, c) == {Inst(prog, id).out : id \in {x \in ids : Inst(prog, x).op = "ByteRange" /\ c \in Inst(prog, x).bytes}}
      at[p \in 0..Len(w)] ==
        Reached(prog, w, p, IF p = 0 THEN {prog.start} ELSE After(at[p - 1], w[p]))
  IN {Inst(prog, id).id : id \in {x \in UNION {at[p] : p \in 0..Len(w)} : Inst(prog, x).op = "Match"}}

\* Bound: one text for a set, for Match changes nothing in it.
SetMatch ==
  /\ set.compiled /\ query = <<>>
  /\ \E w \in SetTexts, prog \in set.prog :
       LET ids == Matched(prog, w)
       IN /\ query' = <<w>>
          /\ \/ reply' = [ok |-> FALSE, ids |-> {}, error |-> "kOutOfMemory"]
             \/ reply' = [ok |-> ids # {}, ids |-> ids, error |-> "kNoError"]
  /\ UNCHANGED <<set, added>>

\* A set that was moved from is as new.
SetMovedFrom ==
  /\ set' = EmptySet(set.anchor)
  /\ added' = <<>> /\ query' = <<>> /\ reply' = NoReply

SetNext == SetAdd \/ SetAddFails \/ SetCompile \/ SetMatch \/ SetMovedFrom

(***************************************************************************)
(* A set finds the patterns that would match alone under its anchor, by    *)
(* the numbers Add gave them, in whatever order they were added, whatever  *)
(* their trees were merged into.                                           *)
(***************************************************************************)
SetRight ==
  query # <<>> /\ reply.error # "kOutOfMemory" =>
    LET meant == {n - 1 : n \in {k \in DOMAIN added : MatchesAlone(added[k], query[1], set.anchor)}}
    IN reply.ids = meant /\ reply.ok = (meant # {})
=============================================================================
