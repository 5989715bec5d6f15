---------------------------- MODULE FilteredRE2 ----------------------------
(***************************************************************************)
(* FilteredRE2 (re2/filtered_re2.cc): many patterns, of which only those   *)
(* are tried that the atoms found in a text let pass.  The caller looks    *)
(* for the atoms in the text in lower case.                                *)
(***************************************************************************)
EXTENDS Prefilter

CONSTANTS
  FilterPatterns,     \* patterns, as {what the parser makes of them}
  FilterTexts,
  MinAtomLens,
  kMaxFiltered        \* bound: the patterns that are added

VARIABLES
  min_atom_len,
  re2_vec,
  prefilter_tree,     \* {} until Compile has made it
  search,             \* what was asked last, <<>> or <<[kind, text]>>
  hits                \* the answer
filterVars == <<min_atom_len, re2_vec, prefilter_tree, search, hits>>

FilterIdle == re2_vec = <<>> /\ prefilter_tree = {} /\ search = <<>> /\ hits = {}
FilterInit == min_atom_len \in MinAtomLens /\ FilterIdle

\* A pattern that is in error is skipped.
FilterAdd ==
  /\ search = <<>> /\ prefilter_tree = {} /\ Len(re2_vec) < kMaxFiltered
  /\ \E pattern \in FilterPatterns :
       re2_vec' = IF pattern = {} THEN re2_vec ELSE Append(re2_vec, CHOOSE re \in pattern : TRUE)
  /\ UNCHANGED <<min_atom_len, prefilter_tree, search, hits>>

\* Without patterns there is nothing to do, and more can be added.
FilterCompile ==
  /\ search = <<>> /\ prefilter_tree = {}
  /\ LET Kept(node) == KeepNode(node, min_atom_len)
         Filter(re) == UNION {Kept(node) : node \in FromRegexp(re)}
     IN prefilter_tree' = IF re2_vec = <<>> THEN {}
                          ELSE {CompileTree([k \in DOMAIN re2_vec |-> Filter(re2_vec[k])])}
  /\ UNCHANGED <<min_atom_len, re2_vec, search, hits>>

\* What the caller does: the atoms in the text, where there is a tree.
RECURSIVE LowerText(_, _)
LowerText(w, latin1) ==
  LET head == RuneAt(w, 0, latin1)
      rune == CHOOSE x \in head : TRUE
  IN CASE w = <<>> -> <<>>
       [] w # <<>> /\ head = {} -> <<w[1]>> \o LowerText(Tail(w), latin1)
       [] OTHER -> LowerString(rune[1], latin1) \o LowerText(SubSeq(w, rune[2] + 1, Len(w)), latin1)
AtomsIn(graph, w) ==
  LET lower == LowerText(w, FALSE) IN {atom \in Atoms(graph) : IsIn(atom, lower)}

\* What passes, the least first; without a tree nothing does.
Passing(w) == UNION {RegexpsGivenStrings(graph, AtomsIn(graph, w)) : graph \in prefilter_tree}
Hits(regexps, w) == {k \in regexps : MatchesAlone(re2_vec[k], w, "unanchored")}
LeastOf(ids) == IF ids = {} THEN {} ELSE {Min(ids)}
\* Bound: a question is the last thing asked of a filter, for it changes nothing in it.
FilterAsk ==
  /\ search = <<>>
  /\ \E kind \in {"FirstMatch", "AllMatches", "SlowFirstMatch"}, w \in FilterTexts :
       /\ search' = <<[kind |-> kind, text |-> w]>>
       /\ hits' = CASE kind = "FirstMatch" -> LeastOf(Hits(Passing(w), w))
                    [] kind = "AllMatches" -> Hits(Passing(w), w)
                    [] kind = "SlowFirstMatch" -> LeastOf(Hits(DOMAIN re2_vec, w))
  /\ UNCHANGED <<min_atom_len, re2_vec, prefilter_tree>>

FilterMovedFrom ==
  /\ re2_vec' = <<>> /\ prefilter_tree' = {} /\ search' = <<>> /\ hits' = {}
  /\ min_atom_len' = 3

FilterNext == FilterAdd \/ FilterCompile \/ FilterAsk \/ FilterMovedFrom

(***************************************************************************)
(* "A regexp that does not pass the filter is guaranteed to not match"     *)
(* (filtered_re2.h): with a filter or without, the same patterns match,    *)
(* whatever atoms they have in common and whatever was pruned.             *)
(***************************************************************************)
FilterRight ==
  \A asked \in ToSet(search) : prefilter_tree # {} =>
    LET all == Hits(DOMAIN re2_vec, asked.text)
    IN hits = IF asked.kind = "AllMatches" THEN all ELSE LeastOf(all)
=============================================================================
