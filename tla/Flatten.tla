------------------------------ MODULE Flatten ------------------------------
(***************************************************************************)
(* What Prog does to a program once it is compiled (re2/prog.cc): the      *)
(* peep-hole optimizer, the rewriting of its graph of instructions into    *)
(* lists, and the tables that engines look things up in.                   *)
(***************************************************************************)
EXTENDS Regexp

IsAlt(i) == i.op \in {"Alt", "AltMatch"}
Outs(i) == IF IsAlt(i) THEN {i.out, i.out1} ELSE {i.out}

\* All that is reached from the instructions ids, if id leads to next[id].
RECURSIVE Closure(_, _, _)
Closure(ids, seen, next) ==
  IF ids = {} THEN seen
  ELSE Closure(UNION {next[id] : id \in ids} \ (seen \cup ids), seen \cup ids, next)

(***************************************************************************)
(* Optimize: what start leads to bypasses Nops, and an Alt between a loop  *)
(* over any bytes and a Match becomes an AltMatch.                         *)
(***************************************************************************)
RECURSIVE PastNops(_, _), IsMatch(_, _)
PastNops(prog, j) ==
  IF j # 0 /\ Inst(prog, j).op = "Nop" THEN PastNops(prog, Inst(prog, j).out) ELSE j
IsMatch(prog, i) ==
  CASE i.op \in {"Capture", "Nop"} -> IsMatch(prog, Inst(prog, i.out))
    [] i.op = "Match" -> TRUE
    [] OTHER -> FALSE

NopsBypassed(prog) ==
  LET Past(i) == {PastNops(prog, j) : j \in Outs(i)}
      queue == Closure({prog.start} \ {0}, {},
                       [id \in InstIds(prog) |-> Past(Inst(prog, id)) \ {0}])
      Rewritten(i) == [i EXCEPT !.out = PastNops(prog, @),
                                !.out1 = IF i.op = "Alt" THEN PastNops(prog, @) ELSE @]
  IN [prog EXCEPT !.inst = [k \in DOMAIN @ |-> IF k - 1 \in queue THEN Rewritten(@[k]) ELSE @[k]]]

AltMatchesPut(prog) ==
  LET queue == Closure({prog.start} \ {0}, {},
                       [id \in InstIds(prog) |-> Outs(Inst(prog, id)) \ {0}])
      AnyLoop(j, id) == j.op = "ByteRange" /\ j.out = id /\ j.lo = 0 /\ j.hi = 255
      Fits(id) ==
        LET i == Inst(prog, id)
            j == Inst(prog, i.out)
            k == Inst(prog, i.out1)
        IN /\ i.op = "Alt"
           /\ \/ AnyLoop(j, id) /\ IsMatch(prog, k)
              \/ IsMatch(prog, j) /\ AnyLoop(k, id)
  IN [prog EXCEPT !.inst = [k \in DOMAIN @ |-> IF k - 1 \in queue /\ Fits(k - 1)
                                               THEN [@[k] EXCEPT !.op = "AltMatch"] ELSE @[k]]]
Optimize(prog) == AltMatchesPut(NopsBypassed(prog))

(***************************************************************************)
(* Flatten.  Roots are the instructions that lists will begin with, in the *)
(* order they are marked in.                                               *)
(***************************************************************************)
Leaves == {"ByteRange", "Capture", "EmptyWidth"}
With(roots, id) == IF id \in ToSet(roots) THEN roots ELSE Append(roots, id)

\* First pass: the successors of leaves.
RECURSIVE Marked(_, _, _, _)
Marked(prog, stk, seen, roots) ==
  LET id == Last(stk)
      i == Inst(prog, id)
      On(ids, r) == Marked(prog, Front(stk) \o ids, seen \cup {id}, r)
  IN CASE stk = <<>> -> roots
       [] stk # <<>> /\ id \in seen -> Marked(prog, Front(stk), seen, roots)
       [] stk # <<>> /\ id \notin seen /\ IsAlt(i) -> On(<<i.out1, i.out>>, roots)
       [] stk # <<>> /\ id \notin seen /\ i.op \in Leaves -> On(<<i.out>>, With(roots, i.out))
       [] OTHER -> On(IF i.op = "Nop" THEN <<i.out>> ELSE <<>>, roots)
\* Mutant: the start is not marked for a root.
MarkSuccessorsOnly(prog) ==
  Marked(prog, <<prog.startUnanchored>>, {}, With(<<0>>, prog.startUnanchored))
MarkSuccessors(prog) ==
  Marked(prog, <<prog.startUnanchored>>, {},
         With(With(<<0>>, prog.startUnanchored), prog.start))
\* For each instruction that can be reached, the Alts it is an out of.
Predecessors(prog) ==
  LET Onward(id) == IF Inst(prog, id).op \in {"Match", "Fail"} THEN {} ELSE Outs(Inst(prog, id))
      reachable == Closure({prog.startUnanchored}, {}, [id \in InstIds(prog) |-> Onward(id)])
      alts == {id \in reachable : IsAlt(Inst(prog, id))}
  IN [id \in InstIds(prog) |-> {pred \in alts : id \in Outs(Inst(prog, pred))}]

\* The tree of a root, in the order of the walk: no further than leaves and
\* other roots.
RECURSIVE TreeFrom(_, _, _, _, _)
TreeFrom(prog, roots, root, stk, seen) ==
  LET id == Last(stk)
      i == Inst(prog, id)
      Stops == id # root /\ id \in ToSet(roots)
      On(ids) == TreeFrom(prog, roots, root, Front(stk) \o ids, Append(seen, id))
  IN CASE stk = <<>> -> seen
       [] stk # <<>> /\ id \in ToSet(seen) -> TreeFrom(prog, roots, root, Front(stk), seen)
       [] stk # <<>> /\ id \notin ToSet(seen) /\ ~Stops /\ IsAlt(i) -> On(<<i.out1, i.out>>)
       [] stk # <<>> /\ id \notin ToSet(seen) /\ ~Stops /\ i.op = "Nop" -> On(<<i.out>>)
       [] OTHER -> On(<<>>)
Tree(prog, roots, root) == TreeFrom(prog, roots, root, <<root>>, <<>>)

\* Second pass: what can also be reached from outside of a tree.
MarkDominator(prog, pred, roots, root) ==
  LET tree == Tree(prog, roots, root)
      in == ToSet(tree)
  IN FoldLeft(LAMBDA r, id : IF pred[id] \subseteq in THEN r ELSE With(r, id), roots, tree)
MarkDominators(prog, roots) ==
  LET pred == Predecessors(prog)
      Starts == {prog.startUnanchored, prog.start}
      todo == SortSeq(SelectSeq(Tail(roots), LAMBDA id : id \notin Starts), LAMBDA a, b : a > b)
  IN FoldLeft(LAMBDA r, root : MarkDominator(prog, pred, r, root), roots, todo)

\* Third pass: the list of a root, which will begin at number first.  Outs are
\* still numbers of roots.
EmitList(prog, roots, root, first) ==
  LET RootOf(id) == (CHOOSE k \in DOMAIN roots : roots[k] = id) - 1
      Emit(list, id) ==
        LET i == Inst(prog, id)
            next == first + Len(list) + 1
        IN CASE id # root /\ id \in ToSet(roots) -> Append(list, Nop(RootOf(id)))
             [] (id = root \/ id \notin ToSet(roots)) /\ i.op = "AltMatch" ->
                  Append(list, AltMatch(next, next + 1))
             [] (id = root \/ id \notin ToSet(roots)) /\ i.op \in Leaves ->
                  Append(list, [i EXCEPT !.out = RootOf(@)])
             [] OTHER -> IF i.op \in {"Match", "Fail"} THEN Append(list, i) ELSE list
      Closed(list) == [list EXCEPT ![Len(list)].last = TRUE]
  IN Closed(FoldLeft(Emit, <<>>, Tree(prog, roots, root)))

(***************************************************************************)
(* Colorings of the bytes.  The keys of colors are the splits, the last    *)
(* bytes of the ranges that are told apart.                                *)
(***************************************************************************)
FindNextSetBit(colors, c) == Min({s \in DOMAIN colors : c <= s})
SplitAt(colors, at) ==
  IF at < 0 \/ at \in DOMAIN colors THEN colors
  ELSE at :> colors[FindNextSetBit(colors, at + 1)] @@ colors
\* Mutant: what comes before lo is recolored with it.
SplitAtHi(colors, lo, hi) == SplitAt(colors, hi)
SplitAround(colors, lo, hi) == SplitAt(SplitAt(colors, lo - 1), hi)

\* The ranges that an instruction ByteRange is taken to cover.
ByteRanges(i) ==
  <<<<i.lo, i.hi>>>> \o
  (IF i.fold /\ i.lo <= 122 /\ i.hi >= 97 THEN <<<<Max({i.lo, 97}) - 32, Min({i.hi, 122}) - 32>>>> ELSE <<>>)

(***************************************************************************)
(* ComputeHints: how far it is to the next instruction worth a try if this *)
(* one matched.  The colors are instructions, from the end of the list to  *)
(* its beginning: first ratchets backwards to the nearest conflict.        *)
(***************************************************************************)
\* Mutant: no ratchet, the last of the ranges counts.
RecolorLast(h, range, id) ==
  LET colors == SplitAround(h.colors, range[1], range[2])
      met == {s \in DOMAIN colors : range[1] <= s /\ s <= range[2]}
  IN [h EXCEPT !.first = colors[range[2]], !.colors = [s \in met |-> id] @@ colors]
Recolor(h, range, id) ==
  LET colors == SplitAround(h.colors, range[1], range[2])
      met == {s \in DOMAIN colors : range[1] <= s /\ s <= range[2]}
  IN [h EXCEPT !.first = Min({@} \cup {colors[s] : s \in met}),
               !.colors = [s \in met |-> id] @@ colors]

ComputeHints(list) ==
  LET end == Len(list) + 1
      Hint(first, id) == IF first = end THEN 0 ELSE Min({first - id, 32767})
      Colored(h, id) == FoldLeft(LAMBDA g, range : Recolor(g, range, id), [h EXCEPT !.first = end], ByteRanges(list[id]))
      Hinted(h, id) == [h EXCEPT !.list[id].hint = Hint(h.first, id)]
      Back(h, id) == IF id = end \/ list[id].op # "ByteRange" THEN [h EXCEPT !.colors = 255 :> id]
                     ELSE Hinted(Colored(h, id), id)
  IN FoldLeft(Back, [list |-> list, colors |-> <<>>, first |-> end], [k \in 1..end |-> end + 1 - k]).list

\* Fourth pass: outs become numbers of instructions.
FlattenProg(prog) ==
  LET Laid(all) ==
        LET flatmap(k) == all.map[k + 1]
            Remapped(i) == IF i.op = "AltMatch" THEN i ELSE [i EXCEPT !.out = flatmap(@)]
            Starts == IF prog.startUnanchored = 0 THEN <<0, 0>>
                      ELSE <<flatmap(1), flatmap(IF prog.startUnanchored = prog.start THEN 1 ELSE 2)>>
        IN [prog EXCEPT !.inst = [k \in DOMAIN all.flat |-> Remapped(all.flat[k])],
                        !.startUnanchored = Starts[1], !.start = Starts[2]]
      Emitted(roots) ==
        FoldLeft(LAMBDA f, root : [flat |-> f.flat \o ComputeHints(EmitList(prog, roots, root, Len(f.flat))),
                                   map |-> Append(f.map, Len(f.flat))],
                 [flat |-> <<>>, map |-> <<>>], roots)
  IN Laid(Emitted(MarkDominators(prog, MarkSuccessors(prog))))

(***************************************************************************)
(* ByteMapBuilder: ranges are merged in batches.  In a batch a color is    *)
(* changed into the same new one wherever it is met (colormap), so bytes   *)
(* keep one color as long as no batch tells them apart.                    *)
(***************************************************************************)
NewBuilder == [colors |-> 255 :> 256, nextcolor |-> 257, colormap |-> <<>>, ranges |-> <<>>]
Mark(b, range) == IF range = <<0, 255>> THEN b ELSE [b EXCEPT !.ranges = Append(@, range)]

\* Recolor the ranges from c on, up to the one that ends at hi.
RECURSIVE RecolorFrom(_, _, _)
RecolorFrom(b, c, hi) ==
  LET next == FindNextSetBit(b.colors, c)
      old == b.colors[next]
      known == SelectSeq(b.colormap, LAMBDA kv : old \in {kv[1], kv[2]})
      Onward(d) == IF next \in {hi, 255} THEN d ELSE RecolorFrom(d, next + 1, hi)
  IN Onward(IF known # <<>> THEN [b EXCEPT !.colors[next] = known[1][2]]
            ELSE [b EXCEPT !.colors[next] = b.nextcolor, !.nextcolor = @ + 1,
                           !.colormap = Append(@, <<old, b.nextcolor>>)])
Merge(b) ==
  LET MergeRange(d, range) ==
        RecolorFrom([d EXCEPT !.colors = SplitAround(@, range[1], range[2])], range[1], range[2])
  IN [FoldLeft(MergeRange, b, b.ranges) EXCEPT !.colormap = <<>>, !.ranges = <<>>]

\* The last colors are the classes, numbered from 0.
Build(b) ==
  LET colors == RecolorFrom([b EXCEPT !.nextcolor = 0], 0, 255).colors
  IN [c \in 0..255 |-> colors[FindNextSetBit(colors, c)]]

\* The longest ranges from byte i on of nothing but word characters, or of none.
RECURSIVE WordRanges(_, _)
WordRanges(i, isword) ==
  LET j == Min({k \in (i + 1)..256 : k = 256 \/ (k \in WordChar) # (i \in WordChar)})
  IN IF i = 256 THEN <<>>
     ELSE (IF (i \in WordChar) = isword THEN <<<<i, j - 1>>>> ELSE <<>>) \o WordRanges(j, isword)

\* Done says which of the assertions about lines and words have been seen to.
ByteMap(prog) ==
  LET MarkAll(b, ranges) == FoldLeft(Mark, b, ranges)
      Defers(id) == LET next == Inst(prog, id + 1) IN
        ~Inst(prog, id).last /\ next.op = "ByteRange" /\ next.out = Inst(prog, id).out
      MarkInst(b, id) == MarkAll(b, ByteRanges(Inst(prog, id)))
      Asks(id, done, which, flags) == which \notin done /\ Inst(prog, id).empty \cap flags # {}
      Lines(x, id) ==
        IF Asks(id, x.done, "lines", {"BeginLine", "EndLine"})
        THEN [b |-> Merge(Mark(x.b, <<NewLine, NewLine>>)), done |-> x.done \cup {"lines"}] ELSE x
      Words(x, id) ==
        IF Asks(id, x.done, "words", {"WordBoundary", "NonWordBoundary"})
        THEN [b |-> FoldLeft(LAMBDA b, isword : Merge(MarkAll(b, WordRanges(0, isword))), x.b, <<TRUE, FALSE>>),
              done |-> x.done \cup {"words"}] ELSE x
      Visit(x, k) ==
        LET id == k - 1 IN
        CASE Inst(prog, id).op = "ByteRange" ->
               [x EXCEPT !.b = IF Defers(id) THEN MarkInst(@, id) ELSE Merge(MarkInst(@, id))]
          [] Inst(prog, id).op = "EmptyWidth" -> Words(Lines(x, id), id)
          [] OTHER -> x
  IN Build(FoldLeft(Visit, [b |-> NewBuilder, done |-> {}], [k \in DOMAIN prog.inst |-> k]).b)

(***************************************************************************)
(* Prefix acceleration: RequiredPrefixForAccel (re2/regexp.cc) and         *)
(* ConfigurePrefixAccel.                                                   *)
(***************************************************************************)
FirstOf(re) == IF re.op = "Concat" THEN re.subs[1] ELSE re
RECURSIVE PastCaptures(_)
PastCaptures(re) == IF re.op = "Capture" THEN PastCaptures(FirstOf(Sub(re))) ELSE re
RequiredPrefixForAccel(re) ==
  LET first == PastCaptures(FirstOf(re))
  IN IF first.op \notin {"Literal", "LiteralString"} THEN {}
     ELSE {[bytes |-> EncodeAll(first.runes, Has(first, "Latin1")), fold |-> Has(first, "FoldCase")]}

\* The final state of the shift DFA, and so the most bytes it can look at.
kShiftDFAFinal == 9
\* Mutant: capital letters are forgotten.
CasesAsWritten(b, fold) == {b}
Cases(b, fold) == IF fold /\ b \in 97..122 THEN {b, b - 32} ELSE {b}
ConfigurePrefixAccel(prog, prefix) ==
  LET size == IF prefix.fold THEN Min({Len(prefix.bytes), kShiftDFAFinal}) ELSE Len(prefix.bytes)
  IN [prog EXCEPT !.prefix = [k \in 1..size |-> Cases(prefix.bytes[k], prefix.fold)],
                  !.foldcase = prefix.fold]

\* What is left to do for a program compiled from re.
Finish(prog, re, reversed) ==
  LET Accelerated(flat, prefixes) ==
        IF prefixes = {} THEN flat ELSE ConfigurePrefixAccel(flat, CHOOSE x \in prefixes : TRUE)
  IN Accelerated(FlattenProg(Optimize(prog)), IF reversed THEN {} ELSE RequiredPrefixForAccel(re))

(***************************************************************************)
(* BuildShiftDFA: the states are sets of the lengths of prefixes that end  *)
(* here; state[d] is reached after d bytes of the prefix, the last one is  *)
(* the final state, which saturates.                                       *)
(***************************************************************************)
BuildShiftDFA(bytes) ==
  LET size == Len(bytes)
      nfa(b) == {0} \cup {k \in 1..size : bytes[k] = b}
      Step(ncurr, b) == nfa(b) \cap ({0} \cup {k + 1 : k \in ncurr})
      states[d \in 0..size] == IF d = 0 THEN {0} ELSE Step(states[d - 1], bytes[d])
      number(d) == IF d = size THEN kShiftDFAFinal ELSE d
      dnext(d, b) == number(Min({e \in 0..size : states[e] = Step(states[d], b)}))
      Prefix(c) == {b \in ToSet(bytes) : c \in Cases(b, TRUE)}
  IN [c \in 0..255 |-> [d \in (0..(size - 1)) \cup {kShiftDFAFinal} |->
        CASE d = kShiftDFAFinal -> kShiftDFAFinal
          [] d # kShiftDFAFinal /\ Prefix(c) # {} -> dnext(d, CHOOSE b \in Prefix(c) : TRUE)
          [] OTHER -> 0]]

\* The first place where the DFA of a prefix of size bytes is in its final
\* state, or NULL; eight bytes at a time, the state is looked at after them.
PrefixAccel_ShiftDFA(dfa, size, data) ==
  LET curr[k \in 0..Len(data)] == IF k = 0 THEN 0 ELSE dfa[data[k]][curr[k - 1]]
      Final(k) == curr[k] = kShiftDFAFinal
      Blocks == {b \in 1..(Len(data) \div 8) : Final(8 * b)}
      Rest == {k \in (8 * (Len(data) \div 8) + 1)..Len(data) : Final(k)}
      InBlock(b) == Min({k \in (8 * b - 7)..(8 * b) : Final(k)})
  IN CASE Len(data) < size -> NULL
       [] Len(data) >= size /\ Blocks # {} -> InBlock(Min(Blocks)) - size
       [] OTHER -> IF Rest = {} THEN NULL ELSE Min(Rest) - size
=============================================================================
