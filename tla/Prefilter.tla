------------------------------ MODULE Prefilter ------------------------------
(***************************************************************************)
(* Prefilters (re2/prefilter.cc): what a text must contain, in lower case, *)
(* for an expression to match in it, as a tree of ANDs and ORs over atoms; *)
(* and the graph that the prefilters of many expressions share             *)
(* (re2/prefilter_tree.cc).                                                *)
(***************************************************************************)
EXTENDS Simplify

CONSTANTS
  ToLower,          \* unicode_tolower: <<lo, hi, delta>>, in order
  kMaxInfoVisits    \* the nodes that BuildInfo visits (100000)

OpCode == [ALL |-> 0, NONE |-> 1, ATOM |-> 2, AND |-> 3, OR |-> 4]
Node(op, subs) == [op |-> op, atom |-> <<>>, subs |-> subs]
AllNode == Node("ALL", <<>>)
NoneNode == Node("NONE", <<>>)
FromString(str) == [Node("ATOM", <<>>) EXCEPT !.atom = str]

(***************************************************************************)
(* AndOr.  (Simplify changes nothing: whatever AndOr is given has been     *)
(* made by it or is no AND or OR.)                                         *)
(***************************************************************************)
AndOr(op, left, right) ==
  LET swap == OpCode[left.op] > OpCode[right.op]
      a == IF swap THEN right ELSE left
      b == IF swap THEN left ELSE right
  IN CASE a.op \in {"ALL", "NONE"} -> IF (a.op = "ALL") = (op = "AND") THEN b ELSE a
       [] a.op = op /\ b.op = op -> [a EXCEPT !.subs = @ \o b.subs]
       [] a.op = op /\ b.op \notin {op, "ALL", "NONE"} -> [a EXCEPT !.subs = Append(@, b)]
       [] b.op = op /\ a.op \notin {op, "ALL", "NONE"} -> [b EXCEPT !.subs = Append(@, a)]
       [] OTHER -> Node(op, <<a, b>>)
And(a, b) == AndOr("AND", a, b)
Or(a, b) == AndOr("OR", a, b)

IsIn(s, t) == \E p \in 0..(Len(t) - Len(s)) : SubSeq(t, p + 1, p + Len(s)) = s
\* A string goes if it has a shorter one of the set in it, the empty one aside.
SimplifyStringSet(ss) ==
  {j \in ss : \A i \in ss : i # <<>> /\ Len(i) < Len(j) => ~IsIn(i, j)}
\* By length, then by bytes.
LengthThenLex(s, t) ==
  \/ Len(s) < Len(t)
  \/ Len(s) = Len(t) /\ \E n \in DOMAIN s : s[n] < t[n] /\ \A k \in 1..(n - 1) : s[k] = t[k]
RECURSIVE InOrder(_)
InOrder(ss) ==
  LET least == CHOOSE s \in ss : \A t \in ss \ {s} : LengthThenLex(s, t)
  IN IF ss = {} THEN <<>> ELSE <<least>> \o InOrder(ss \ {least})
OrStrings(exact) ==
  FoldLeft(LAMBDA or, s : Or(or, FromString(s)), NoneNode, InOrder(SimplifyStringSet(exact)))

(***************************************************************************)
(* Info: the strings that match if these are known, else a prefilter.      *)
(***************************************************************************)
Exact(strings) == [is_exact |-> TRUE, exact |-> strings, match |-> NoneNode]
Inexact(node) == [is_exact |-> FALSE, exact |-> {}, match |-> node]
TakeMatch(info) == IF info.is_exact THEN OrStrings(info.exact) ELSE info.match
AnyMatch == Inexact(AllNode)

ToLowerRune(r, latin1) ==
  LET entries == {k \in DOMAIN ToLower : ToLower[k][1] <= r /\ r <= ToLower[k][2]}
  IN CASE IsUpper(r) -> r + 32
       [] ~IsUpper(r) /\ r >= Runeself /\ ~latin1 /\ entries # {} -> ApplyFold(ToLower[Min(entries)], r)
       [] OTHER -> r
LowerString(r, latin1) == Encode(ToLowerRune(r, latin1), latin1)

CrossProduct(s, t) == {x \o y : x \in s, y \in t}
InfoOr(a, b) ==
  IF a.is_exact /\ b.is_exact THEN Exact(a.exact \cup b.exact)
  ELSE Inexact(Or(TakeMatch(a), TakeMatch(b)))
InfoOfClass(cc, latin1) ==
  IF Size(cc) > 10 THEN AnyMatch
  ELSE Exact({LowerString(r, latin1) : r \in UNION {range[1]..range[2] : range \in cc.ranges}})

\* A run of exact pieces, until it gets too big or there is one that is not exact.
kMaxExact == 16
NoInfo == {}
InfoAnd(info, more) ==
  IF info = NoInfo THEN more ELSE IF more = NoInfo THEN info
  ELSE {Inexact(And(TakeMatch(CHOOSE x \in info : TRUE), TakeMatch(CHOOSE x \in more : TRUE)))}
InfoOfConcat(infos) ==
  LET Run(exact) == CHOOSE x \in exact : TRUE
      Over(at, ci) ==
        \/ ~ci.is_exact
        \/ at.exact # NoInfo /\ Cardinality(ci.exact) * Cardinality(Run(at.exact).exact) > kMaxExact
      Add(at, ci) ==
        IF Over(at, ci) THEN [info |-> InfoAnd(InfoAnd(at.info, at.exact), {ci}), exact |-> NoInfo]
        ELSE [at EXCEPT !.exact = IF @ = NoInfo THEN {ci} ELSE {Exact(CrossProduct(Run(@).exact, ci.exact))}]
      all == FoldLeft(Add, [info |-> NoInfo, exact |-> NoInfo], infos)
  IN CHOOSE x \in InfoAnd(all.info, all.exact) : TRUE

RECURSIVE InfoOf(_, _)
InfoOf(re, latin1) ==
  LET infos == [k \in DOMAIN re.subs |-> InfoOf(re.subs[k], latin1)]
  IN CASE re.op = "NoMatch" -> Inexact(NoneNode)
       [] re.op \in DOMAIN EmptyWidthOps \cup {"EmptyMatch"} -> Exact({<<>>})
       [] re.op \in {"Literal", "LiteralString"} ->
            Exact({FlattenSeq([k \in DOMAIN re.runes |-> LowerString(re.runes[k], latin1)])})
       [] re.op = "Concat" -> InfoOfConcat(infos)
       [] re.op = "Alternate" -> FoldLeft(InfoOr, infos[1], Tail(infos))
       [] re.op = "Plus" -> Inexact(TakeMatch(infos[1]))
       [] re.op = "CharClass" -> InfoOfClass(re.cc, latin1)
       [] re.op = "Capture" -> infos[1]
       [] re.op \in {"Star", "Quest", "AnyChar", "AnyByte"} -> AnyMatch

\* {} if the walk is cut off.
FromRegexp(re) ==
  LET simple == Simplified(re)
  IN IF Visits(simple) > kMaxInfoVisits THEN {} ELSE {TakeMatch(InfoOf(simple, Has(simple, "Latin1")))}

(***************************************************************************)
(* The prefilters of many expressions in one graph                         *)
(* (re2/prefilter_tree.cc): atoms that are found trigger what they are     *)
(* parts of, up to the expressions that may match.                         *)
(***************************************************************************)
CONSTANT kMaxParents    \* the parents that a node keeps whatever it triggers (9)

\* What is left of a node: {} or {it}.
RECURSIVE KeepNode(_, _), KeepNodeOfAny(_, _)
\* Mutant: alternatives are left out as pieces are.
KeepNodeOfAny(node, min_atom_len) ==
  LET Left(n) == KeepNode(n, min_atom_len)
      kept == [node EXCEPT !.subs = SelectSeq(@, LAMBDA sub : Left(sub) # {})]
  IN CASE node.op \in {"ALL", "NONE"} -> {}
       [] node.op = "ATOM" -> {n \in {node} : Len(n.atom) >= min_atom_len}
       [] node.op \in {"AND", "OR"} ->
            {[n EXCEPT !.subs = [k \in DOMAIN @ |-> CHOOSE x \in Left(@[k]) : TRUE]] :
               n \in {x \in {kept} : x.subs # <<>>}}
KeepNode(node, min_atom_len) ==
  LET Left(n) == KeepNode(n, min_atom_len)
      kept == [node EXCEPT !.subs = SelectSeq(@, LAMBDA sub : Left(sub) # {})]
      Below(n) == {[n EXCEPT !.subs = [k \in DOMAIN @ |-> CHOOSE x \in Left(@[k]) : TRUE]]}
  IN CASE node.op \in {"ALL", "NONE"} -> {}
       [] node.op = "ATOM" -> IF Len(node.atom) >= min_atom_len THEN {node} ELSE {}
       [] node.op = "AND" -> IF kept.subs = <<>> THEN {} ELSE Below(kept)
       [] node.op = "OR" -> IF kept # node THEN {} ELSE Below(node)

(***************************************************************************)
(* AssignUniqueIds.  Equal nodes are one, whose number is its place in the *)
(* nodes from below; of the edges to its parents, a node that triggers too *)
(* many expressions loses those that an AND can do without.                *)
(***************************************************************************)
RECURSIVE LevelsFrom(_)
LevelsFrom(nodes) ==
  IF nodes = <<>> THEN <<>>
  ELSE nodes \o LevelsFrom(FlattenSeq([k \in DOMAIN nodes |-> nodes[k].subs]))
FirstOnes(seq) ==
  FoldLeft(LAMBDA kept, x : IF x \in ToSet(kept) THEN kept ELSE Append(kept, x), <<>>, seq)

\* Does a node trigger more than one expression of n, as far as the children with
\* these numbers of parents that it keeps can tell?  (In logarithms in the code.)
TriggersMany(n, parents) == FoldLeft(LAMBDA x, k : x * k, n, parents) > n ^ Len(parents)

\* The node's edges are pruned: its children by the number of their parents.
PruneNode(graph, id, n) ==
  LET subs == graph.subs[id]
      parents == graph.parents
      Before(j, k) ==
        LET x == Cardinality(parents[subs[j]])
            y == Cardinality(parents[subs[k]])
        IN \/ x < y
           \/ x = y /\ subs[j] < subs[k]
           \/ x = y /\ subs[j] = subs[k] /\ j < k
      order == [k \in DOMAIN subs |->
                  subs[CHOOSE j \in DOMAIN subs : Cardinality({i \in DOMAIN subs : Before(i, j)}) = k - 1]]
      Prune(at, child) ==
        LET count == Cardinality(at.parents[child]) IN
        CASE TriggersMany(n, at.kept) -> [at EXCEPT !.kept = Append(@, count)]
          [] ~TriggersMany(n, at.kept) /\ count > kMaxParents -> [at EXCEPT !.parents[child] = @ \ {id}]
          [] OTHER -> at
      pruned == FoldLeft(Prune, [parents |-> parents, kept |-> <<>>], order).parents
  IN [graph EXCEPT !.parents = pruned]

CompileTree(prefilters) ==
  LET filtered == {k \in DOMAIN prefilters : prefilters[k] # {}}
      Root(k) == CHOOSE node \in prefilters[k] : TRUE
      roots == [k \in 1..Cardinality(filtered) |->
                  Root(CHOOSE j \in filtered : Cardinality({i \in filtered : i < j}) = k - 1)]
      nodes == FirstOnes(Reverse(LevelsFrom(roots)))
      Id(node) == CHOOSE id \in DOMAIN nodes : nodes[id] = node
      subs == [id \in DOMAIN nodes |-> [k \in DOMAIN nodes[id].subs |-> Id(nodes[id].subs[k])]]
      graph == [nodes |-> nodes, subs |-> subs,
                parents |-> [id \in DOMAIN nodes |-> {up \in DOMAIN nodes : id \in ToSet(subs[up])}],
                regexps |-> [id \in DOMAIN nodes |-> {k \in filtered : Root(k) = nodes[id]}],
                unfiltered |-> DOMAIN prefilters \ filtered]
      PruneIfAnd(g, id) == IF nodes[id].op = "AND" THEN PruneNode(g, id, Cardinality(filtered)) ELSE g
  IN FoldLeft(PruneIfAnd, graph, [id \in DOMAIN nodes |-> id])

Atoms(graph) == {node.atom : node \in {x \in ToSet(graph.nodes) : x.op = "ATOM"}}

(***************************************************************************)
(* PropagateMatch: an AND waits for all the children whose edges it has    *)
(* left, of which there may be none.                                       *)
(***************************************************************************)
RECURSIVE PropagateMatch(_, _)
PropagateMatch(graph, work) ==
  LET Edges(id) == {child \in DOMAIN graph.nodes : id \in graph.parents[child]}
      Count(id) == IF graph.nodes[id].op = "AND" THEN Cardinality(Edges(id)) ELSE 1
      Triggered(id) == LET hits == Edges(id) \cap work
                       IN hits # {} /\ Cardinality(hits) >= Count(id)
      more == work \cup {id \in DOMAIN graph.nodes : Triggered(id)}
  IN IF more = work THEN work ELSE PropagateMatch(graph, more)

RegexpsGivenStrings(graph, atoms) ==
  LET found == {id \in DOMAIN graph.nodes : graph.nodes[id].op = "ATOM" /\ graph.nodes[id].atom \in atoms}
  IN graph.unfiltered \cup UNION {graph.regexps[id] : id \in PropagateMatch(graph, found)}
=============================================================================
