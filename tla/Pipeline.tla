------------------------------ MODULE Pipeline ------------------------------
(***************************************************************************)
(* What becomes of a pattern: it is parsed; its tree is printed and parsed *)
(* again, or simplified, or compiled in either direction.  Whatever is     *)
(* done to it, it is to match what the expression that was written down    *)
(* matches.                                                                *)
(***************************************************************************)
EXTENDS Parser, Printing, Compiler, Flatten, Ways

CONSTANT
  Sources     \* [chars, flags, means, max, texts]: a pattern, the set of the
              \* tree that its author means by it, {} if it is in error; the
              \* instructions there is room for; texts to try it on

VARIABLES
  source,     \* where it begins
  meant,      \* the ways to match, from each place of its texts on, that are meant
  stage,      \* what was done last
  tree,       \* the tree that work goes on with, as a set of at most one
  prog,       \* the program, likewise
  reversed,   \* does the program run backward?
  bytemap     \* its bytemap_, {} before it is computed

workVars == <<source, meant, stage, tree, prog, reversed, bytemap>>
vars == <<parserVars, workVars>>

Meant == CHOOSE re \in source.means : TRUE
Regs == NumCaptures(Meant)
Places(w) == 0..Len(w)

Init ==
  /\ source \in Sources
  /\ Parse([chars |-> source.chars, flags |-> source.flags])
  /\ meant = [w \in source.texts |-> [p \in Places(w) |-> Whole(Meant, w, p, Regs)]]
  /\ stage = "parse" /\ tree = {} /\ prog = {} /\ reversed = FALSE /\ bytemap = {}

Parsed ==
  /\ stage = "parse" /\ status # "parsing"
  /\ stage' = (IF status = "ok" THEN "parsed" ELSE "error")
  /\ tree' = root
  /\ UNCHANGED <<parserVars, source, meant, prog, reversed, bytemap>>

\* What is printed does not show the flags that the pattern was parsed with: just
\* these, or these and Latin1, are those it can be parsed again with.
PrintFlags == {"ClassNL", "DotNL", "PerlX", "PerlB", "PerlClasses", "UnicodeGroups"}
PrintAndParse ==
  /\ stage = "parsed" /\ source.flags \ {"Latin1"} = PrintFlags
  /\ stage' = "reparse"
  /\ \E re \in tree : pattern' = [chars |-> AsText(re), flags |-> source.flags]
  /\ at' = 1 /\ stack' = <<>> /\ flags' = source.flags
  /\ ncap' = 0 /\ lastunary' = FALSE /\ status' = "parsing" /\ root' = {}
  /\ UNCHANGED <<source, meant, tree, prog, reversed, bytemap>>
Reparsed ==
  /\ stage = "reparse" /\ status # "parsing"
  /\ stage' = "reparsed"
  /\ tree' = root
  /\ UNCHANGED <<parserVars, source, meant, prog, reversed, bytemap>>

Simplifies ==
  /\ stage = "parsed"
  /\ stage' = "simplified"
  /\ tree' = {Simplified(re) : re \in tree}
  /\ UNCHANGED <<parserVars, source, meant, prog, reversed, bytemap>>

Compiles ==
  /\ stage = "parsed"
  /\ reversed' \in BOOLEAN
  /\ prog' = UNION {Compile(re, re.flags, reversed', source.max) : re \in tree}
  /\ stage' = (IF prog' = {} THEN "no room" ELSE "compiled")
  /\ UNCHANGED <<parserVars, source, meant, tree, bytemap>>

\* Optimize, Flatten, ComputeByteMap and ConfigurePrefixAccel.
Finishes ==
  /\ stage = "compiled"
  /\ stage' = "done"
  /\ \E finished \in {Finish(p, re, reversed) : p \in prog, re \in tree} :
       prog' = {finished} /\ bytemap' = ByteMap(finished)
  /\ UNCHANGED <<parserVars, source, meant, tree, reversed>>

Next ==
  \/ ParserNext /\ UNCHANGED workVars
  \/ Parsed \/ PrintAndParse \/ Reparsed \/ Simplifies \/ Compiles \/ Finishes
Spec == Init /\ [][Next]_vars

(***************************************************************************)
(* What a source means.                                                    *)
(***************************************************************************)
Ends(ways) == {ways[k].p : k \in DOMAIN ways}
\* In a loop over what can be empty only where ways end is of interest.
Same(ways, others) == IF NullableLoop(Meant) THEN Ends(ways) = Ends(others) ELSE ways = others
Agrees(re) == \A w \in source.texts : \A p \in Places(w) : Same(meant[w][p], Whole(re, w, p, Regs))

(***************************************************************************)
(* Every class in sight says of its letters and of its ranges the same.    *)
(***************************************************************************)
RECURSIVE Classes(_)
Classes(re) == {re.cc} \cup UNION {Classes(re.subs[k]) : k \in DOMAIN re.subs}
TypeOK ==
  /\ stage \in {"parse", "parsed", "error", "reparse", "reparsed", "simplified", "compiled", "no room", "done"}
  /\ \A k \in DOMAIN stack : \A cc \in Classes(stack[k]) : WellFormedClass(cc)
  /\ \A re \in tree : \A cc \in Classes(re) : WellFormedClass(cc)

\* The parser takes what is meant to be taken, and makes of it a tree that matches,
\* with its captures and priorities, what was meant: whatever it strings together,
\* factors out, collapses and squashes on the way.
ParseRight ==
  /\ stage = "parsed" => source.means # {} /\ \A re \in tree : Agrees(re)
  /\ stage = "error" => source.means = {}

\* "Similarly, [Aa] can be rewritten as a literal A with ASCII case folding"
\* (re2/parse.cc:242): no letter that the pattern does not match is matched for that.
LettersStayASCII ==
  stage = "parsed" => \A re \in tree, w \in source.texts :
    \A p \in Places(w) : meant[w][p] = <<>> => Whole(re, w, p, Regs) = <<>>

\* A tree that is printed and parsed again matches the same (EquivalentParse in
\* re2/testing/parse_test.cc).
PrintedSame == stage = "reparsed" => tree # {} /\ \A re \in tree : Agrees(re)

\* Simplify leaves nothing but what is simple, matching and capturing the same.
RECURSIVE IsSimple(_)
IsSimple(re) ==
  /\ re.op # "Repeat"
  /\ re.op = "CharClass" => re.cc.ranges # {} /\ ~FullClass(re.cc)
  /\ \A k \in DOMAIN re.subs : IsSimple(re.subs[k])
SimplifySame ==
  stage = "simplified" => \A re \in tree :
    IsSimple(re) /\ Agrees(re)

(***************************************************************************)
(* What a program matches.                                                 *)
(***************************************************************************)
RawWays(p, w, start, from) ==
  Ways(p, w, Len(w), FALSE, start, from, Beginning(from, Regs), {})
\* The engines hold the program to its anchors.
WaysOfProg(p, w, from) ==
  LET Kept(raw) == SelectSeq(raw, LAMBDA cap : p.anchorEnd => cap[1] = Len(w))
      Found(caps) == Firsts([k \in DOMAIN caps |-> Way(caps[k][1], 1 :> NULL @@ caps[k])])
  IN IF p.anchorStart /\ from # 0 THEN <<>> ELSE Found(Kept(RawWays(p, w, p.start, from)))

Forward(p) ==
  \A w \in source.texts : \A from \in Places(w) : Same(meant[w][from], WaysOfProg(p, w, from))
Backward(p) ==
  \A w \in source.texts :
    LET n == Len(w) IN
    {<<from, to>> \in Places(w) \X Places(w) : to \in Ends(meant[w][from])}
      = UNION {{<<n - e, n - from>> : e \in Ends(WaysOfProg(p, Reverse(w), from))} : from \in Places(w)}
ProgSame(p) == IF reversed THEN Backward(p) ELSE Forward(p)

\* The program that is compiled from a tree matches what the tree does, in the
\* order of its priorities; the reversed one matches the same backward.
\* (There each instruction is a list by itself.)
Singly(p) == [p EXCEPT !.inst = [k \in DOMAIN p.inst |-> [p.inst[k] EXCEPT !.last = TRUE]]]
CompileSame == stage = "compiled" => \A p \in prog : ProgSame(Singly(p))

\* So does the program rewritten into lists, and its loop over any bytes in front
\* makes of it a search from any place on; and it has the form that the engines
\* take for granted.
RawEnds(p, w, start, from) == {cap[1] : cap \in ToSet(RawWays(p, w, start, from))}
Unanchored(p, w) ==
  RawEnds(p, w, p.startUnanchored, 0)
    = UNION {RawEnds(p, w, p.start, from) : from \in IF p.anchorStart THEN {0} ELSE Places(w)}
FlattenSame ==
  stage = "done" => \A p \in prog :
    WellFormedProg(p) /\ ProgSame(p) /\ \A w \in source.texts : Unanchored(p, w)

\* A hint leads on to the next instruction of the list worth a try when this one
\* matched: none that is skipped could match too, and it is no ByteRange, or one with
\* bytes in common.  (A range that folds also covers capitals between lo and hi that
\* it does not accept.)
RECURSIVE RestOf(_, _)
RestOf(p, id) == IF Inst(p, id).last THEN {} ELSE {id + 1} \cup RestOf(p, id + 1)
CoveredBy(i) == (i.lo..i.hi) \cup i.bytes
HintsRight ==
  stage = "done" => \A p \in prog : \A id \in InstIds(p) :
    LET i == Inst(p, id)
        to == id + i.hint
        Meets(j) == Inst(p, j).op # "ByteRange" \/ CoveredBy(Inst(p, j)) \cap CoveredBy(i) # {}
    IN i.op = "ByteRange" =>
         /\ \A j \in RestOf(p, id) : i.hint = 0 \/ j < to =>
              Inst(p, j).op = "ByteRange" /\ Inst(p, j).bytes \cap i.bytes = {}
         /\ i.hint # 0 => to \in RestOf(p, id) /\ Meets(to)

\* Bytes of one class lead from every list to the same instructions, in the same
\* order, and are the same to the empty-width assertions that are made.
Hits(p, list, c) == {id \in ToSet(list) : c \in Inst(p, id).bytes}
Steps(p, list, c) ==
  FoldLeft(LAMBDA outs, id : IF c \in Inst(p, id).bytes THEN With(outs, Inst(p, id).out) ELSE outs,
           <<>>, list)
ByteMapSame ==
  stage = "done" => \A p \in prog :
    LET Asked(some) == \E id \in InstIds(p) : Inst(p, id).empty \cap some # {}
        first == [class \in {bytemap[c] : c \in 0..255} |-> Min({c \in 0..255 : bytemap[c] = class})]
        lists == {<<id>> \o [k \in 1..Cardinality(RestOf(p, id)) |-> id + k] :
                    id \in {x \in InstIds(p) : IsHead(p, x)}}
    IN \A c \in 0..255 :
         LET d == first[bytemap[c]] IN
         /\ \A list \in lists :
              Hits(p, list, c) = Hits(p, list, d) \/ Steps(p, list, c) = Steps(p, list, d)
         /\ Asked({"BeginLine", "EndLine"}) => (c = NewLine) = (d = NewLine)
         /\ Asked({"WordBoundary", "NonWordBoundary"}) => (c \in WordChar) = (d \in WordChar)

\* Every match begins with the prefix that is looked for, and the shift DFA, where
\* the case of letters does not matter, finds its first occurrence.
Prefixed(w, from, prefix) ==
  \A k \in DOMAIN prefix : from + k <= Len(w) /\ w[from + k] \in prefix[k]
PrefixRight ==
  stage = "done" => \A p \in prog : \A w \in source.texts :
    LET found == {from \in Places(w) : Prefixed(w, from, p.prefix)}
        dfa == BuildShiftDFA([k \in DOMAIN p.prefix |-> Max(p.prefix[k])])
    IN /\ \A from \in Places(w) : meant[w][from] # <<>> => from \in found
       /\ p.foldcase => PrefixAccel_ShiftDFA(dfa, Len(p.prefix), w)
                          = IF found = {} THEN NULL ELSE Min(found)
=============================================================================
