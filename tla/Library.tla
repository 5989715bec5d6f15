------------------------------ MODULE Library ------------------------------
(***************************************************************************)
(* What a program holds of the library: an RE2 object, a set, or a filter; *)
(* and what Init (re2/re2.cc) makes of a parsed pattern, for RE2Match.     *)
(***************************************************************************)
EXTENDS RE2Match, RE2Set, FilteredRE2, Answers

CONSTANTS
  Patterns,     \* [tree, latin1, longest, room, rroom, texts]: room for instructions
                \* forward and backward, texts to call it on
  NoPattern     \* the pattern of an object that nothing is asked of

(***************************************************************************)
(* RE2::Init.  The prefix is taken off the front of the tree: what is      *)
(* compiled is the suffix.                                                 *)
(***************************************************************************)
RequiredPrefix(re) ==
  LET Anchor(k) == re.subs[k].op = "BeginText"
      i == Max({k \in 0..Len(re.subs) : \A j \in 1..k : Anchor(j)}) + 1
      rest == SubSeq(re.subs, i + 1, Len(re.subs))
      first == re.subs[i]
  IN IF \/ re.op # "Concat" \/ i = 1 \/ i > Len(re.subs)
        \/ first.op \notin {"Literal", "LiteralString"} THEN {}
     ELSE {[bytes |-> EncodeAll(first.runes, Has(first, "Latin1")), foldcase |-> Has(first, "FoldCase"),
            suffix |-> IF rest = <<>> THEN Re("EmptyMatch", re.flags) ELSE Concat(rest, re.flags)]}

Compiled(re, reversed, room) ==
  {Finish(prog, re, reversed) : prog \in Compile(re, re.flags, reversed, room)}

\* What is compiled, and the prefix it goes without.
PrefixTaken(re) ==
  LET required == RequiredPrefix(re)
  IN IF required = {} THEN [bytes |-> <<>>, foldcase |-> FALSE, suffix |-> re] ELSE CHOOSE x \in required : TRUE
ObjectOf(pattern, required) ==
  LET Made(progs, rprogs) ==
        pattern @@
        [prefix |-> required.bytes, foldcase |-> required.foldcase, progs |-> progs, rprogs |-> rprogs,
         caps |-> IF progs = {} THEN -1 ELSE NumCaptures(required.suffix),
         onepass |-> \E prog \in progs : IsOnePass(prog)]
  IN Made(Compiled(required.suffix, FALSE, pattern.room), Compiled(required.suffix, TRUE, pattern.rroom))
Construct(pattern) == ObjectOf(pattern, PrefixTaken(pattern.tree))
Constructed == {Construct(pattern) : pattern \in Patterns}

\* What an object stands for.
MeaningOfTree(o, w, p) == Whole(o.tree, w, p, o.caps)

VARIABLE part
libraryVars == <<part, matchVars, setVars, filterVars>>

Unused == Construct(NoPattern)
NoObject ==
  /\ object = Unused /\ isOnePass = FALSE /\ rprog = "unbuilt" /\ MatchIdle
NoSet == set = EmptySet("unanchored") /\ added = <<>> /\ query = <<>> /\ reply = NoReply
NoFilter == min_atom_len = 3 /\ FilterIdle

Init ==
  \/ part = "object" /\ MatchInit /\ NoSet /\ NoFilter
  \/ part = "set" /\ SetInit /\ NoObject /\ NoFilter
  \/ part = "filter" /\ FilterInit /\ NoObject /\ NoSet

Next ==
  \/ part = "object" /\ MatchNext /\ UNCHANGED <<part, setVars, filterVars>>
  \/ part = "set" /\ SetNext /\ UNCHANGED <<part, matchVars, filterVars>>
  \/ part = "filter" /\ FilterNext /\ UNCHANGED <<part, matchVars, setVars>>

Spec == Init /\ [][Next]_libraryVars
=============================================================================
