------------------------------ MODULE RE2Match ------------------------------
(***************************************************************************)
(* An RE2 object (re2/re2.cc) at work: how Match leads a search through    *)
(* prefix, DFAs and engines, and what the calls around Match do with its   *)
(* answers.  Engines are there by what they promise; a DFA may run out of  *)
(* memory instead.  What Init makes of a pattern is in module Library.     *)
(*                                                                         *)
(* A position is the number of bytes of the text before it.                *)
(***************************************************************************)
EXTENDS Runes, OnePassTable

CONSTANTS
  Objects,         \* what Init has made of patterns: [progs, rprogs, prefix, foldcase, caps,
                   \* onepass, latin1, longest, texts]: the programs are {} where there was
                   \* no room for them, texts those that it is called on
  AnswerTo(_),     \* what engines answer to a query
  Meaning(_, _, _),\* the ways to match that the pattern of an object has in a text from a
                   \* place on, best first, as [p, cap]: its end and what it captures
  Calls(_, _),     \* the calls to make of an object on a text, see below
  kSmallText, kTinyText,      \* texts that are not worth a DFA (4096, 16)
  kBitStateInsts,             \* programs that BitState takes (512),
  kBitStateBitmapMaxSize,     \* and its visits (256K)
  kVecSize

None == <<NULL, NULL>>

(***************************************************************************)
(* What a pattern matches.  A search takes ways that end where it may end. *)
(***************************************************************************)
Fitting(ways, end, exactly) ==
  {k \in DOMAIN ways : IF exactly THEN ways[k].p = end ELSE ways[k].p <= end}
BestOf(ways, fits, longest) ==
  LET end == IF longest THEN Max({ways[k].p : k \in fits}) ELSE ways[Min(fits)].p
  IN ways[Min({k \in fits : ways[k].p = end})]
\* Where a way has the group i, if the pattern has it.
SpanOf(way, i, caps) ==
  CASE i = 0 -> <<way.cap[0], way.p>>
    [] i \in 1..caps -> <<way.cap[2 * i], way.cap[2 * i + 1]>>
    [] OTHER -> None

Ask(prog, context, span, kind, anchored, nmatch) ==
  [prog |-> prog, context |-> context, beg |-> span[1], end |-> span[2], kind |-> kind,
   anchored |-> anchored, nmatch |-> nmatch, endOnly |-> FALSE]
\* The answers: no match, and a match that the engine has begun at s.
Missed == [matched |-> FALSE]
Hit(s, way, nmatch, caps) ==
  [matched |-> TRUE, submatch |-> [i \in 0..(nmatch - 1) |-> IF i = 0 THEN <<s, way.p>> ELSE SpanOf(way, i, caps)]]

(***************************************************************************)
(* What Match relies on: the soundness of the objects it is called on, of  *)
(* the engines and of the calls.                                           *)
(***************************************************************************)
Lowered(c) == IF c \in 65..90 THEN c + 32 ELSE c
Prefixed(o, w) ==
  \A k \in 1..Len(o.prefix) : o.prefix[k] = (IF o.foldcase THEN Lowered(w[k]) ELSE w[k])
Spans(w) == {span \in (0..Len(w)) \X (0..Len(w)) : span[1] <= span[2]}

DoMatches == {"FullMatch", "PartialMatch", "Consume", "FindAndConsume"}
Rewritings == {"Replace", "Extract", "GlobalReplace"}
Anchors == {"unanchored", "start", "both"}
CallFine(c) ==
  \/ /\ c.kind = "Match"
     /\ c.args \in [startpos : Nat, endpos : Nat, anchor : Anchors, nsubmatch : Nat]
  \/ c.kind \in DoMatches /\ c.n \in Nat /\ c.failing \in 0..c.n
  \/ c.kind \in Rewritings /\ c.rewrite \in Seq(0..255)
ShapeFine(o) ==
  /\ o.texts \subseteq Seq(0..255) /\ o.longest \in BOOLEAN /\ o.latin1 \in BOOLEAN
  /\ Len(o.prefix) \in Nat
  /\ IF o.progs = {} THEN o.caps = -1 ELSE o.caps \in Nat
  /\ \A w \in o.texts : \A c \in Calls(o, w) : CallFine(c)

\* Ways and what they capture end in the text; what the prefix and the anchors rule out has none.
WaysFine(o) ==
  \A prog \in o.progs, w \in o.texts : \A p \in 0..Len(w) :
    /\ Meaning(o, w, p) \in Seq(Range(Meaning(o, w, p)))
    /\ \A way \in Range(Meaning(o, w, p)) :
         /\ way.p \in p..Len(w) /\ way.cap[0] = p
         /\ \A i \in 1..o.caps : SpanOf(way, i, o.caps) \in Spans(w) \cup {None}
         /\ prog.anchorStart \/ o.prefix # <<>> => p = 0
         /\ prog.anchorEnd => way.p = Len(w)
         /\ way.p >= Len(o.prefix) /\ Prefixed(o, w)

\* The program, which the prefix is not part of, matches what the pattern does, and
\* engines find the leftmost match in the part of the text they are asked about: the
\* first way, or the first of the longest ones.
FindsForward(o, prog, w, span, kind, anchored, nmatch) ==
  LET n == Len(o.prefix)
      Fits(s) == Fitting(Meaning(o, w, s - n), span[2], kind = "full")
      starts == {s \in span[1]..span[2] : (anchored \/ kind = "full" => s = span[1]) /\ Fits(s) # {}}
      s0 == Min(starts)
  IN (o.prefix # <<>> => span[1] = n /\ anchored /\ Prefixed(o, w)) =>
       AnswerTo(Ask(prog, w, span, kind, anchored, nmatch))
         = IF starts = {} THEN Missed
           ELSE Hit(s0, BestOf(Meaning(o, w, s0 - n), Fits(s0), o.longest), nmatch, o.caps)
ForwardFine(o) ==
  \A prog \in o.progs, w \in o.texts : \A span \in Spans(w),
     kind \in {IF o.longest THEN "longest" ELSE "first", "full"}, anchored \in BOOLEAN, nmatch \in 0..(1 + o.caps) :
    FindsForward(o, prog, w, span, kind, anchored, nmatch)

\* The program for the other direction is asked for as much as it can get from the end
\* of the part on.  No pattern with a prefix has a use for it.
AskBackward(prog, w, span) ==
  AnswerTo(Ask(prog, Reverse(w), <<Len(w) - span[2], Len(w) - span[1]>>, "longest", TRUE, 1))
FindsBackward(o, prog, w, span) ==
  LET starts == {s \in span[1]..span[2] : Fitting(Meaning(o, w, s), span[2], TRUE) # {}}
  IN AskBackward(prog, w, span)
       = IF starts = {} THEN Missed
         ELSE [matched |-> TRUE, submatch |-> [i \in 0..0 |-> <<Len(w) - span[2], Len(w) - Min(starts)>>]]
BackwardFine(o) ==
  o.prefix = <<>> /\ o.progs # {} =>
    \A prog \in o.rprogs, w \in o.texts : \A span \in Spans(w) : FindsBackward(o, prog, w, span)

ASSUME ObjectsFine ==
  \A o \in Objects : ShapeFine(o) /\ WaysFine(o) /\ ForwardFine(o) /\ BackwardFine(o)

VARIABLES
  object,     \* what Init has made
  isOnePass,  \* is_one_pass_
  rprog,      \* unbuilt until ReverseProg is called, then built or failed
  text,
  call,       \* what is asked: [kind, ...]
  pc,         \* where Match is
  args,       \* its arguments [startpos, endpos, anchor, nsubmatch]
  anchoring,  \* its re_anchor
  skipped,    \* its skipped_test
  match,      \* its match, <<begin, end>>
  found,      \* what it returned
  submatch,   \* and stored
  global,     \* the loop of GlobalReplace
  answer      \* of the call

matchVars == <<object, isOnePass, rprog, text, call, pc, args, anchoring, skipped, match, found,
               submatch, global, answer>>

ForwardProg == CHOOSE p \in object.progs : TRUE
BackwardProg == CHOOSE p \in object.rprogs : TRUE
ok == object.progs # {}
NumberOfCapturingGroups == object.caps

NoArgs == [startpos |-> 0, endpos |-> 0, anchor |-> "unanchored", nsubmatch |-> 0]
NoLoop == [p |-> 0, lastend |-> NULL, out |-> <<>>, pieces |-> <<>>]
No == [ok |-> FALSE]
MatchIdle ==
  /\ text = <<>> /\ call = [kind |-> "none"] /\ pc = "idle" /\ args = NoArgs /\ anchoring = "unanchored"
  /\ skipped = FALSE /\ match = None /\ found = FALSE /\ submatch = <<>> /\ global = NoLoop
  /\ answer = No
MatchInit ==
  /\ object \in Objects
  \* IsOnePass may find no room for its table.
  /\ isOnePass \in {FALSE, object.onepass}
  /\ rprog = "unbuilt"
  /\ MatchIdle

(***************************************************************************)
(* Match.                                                                  *)
(***************************************************************************)
MatchWith(a) == pc' = "match" /\ args' = a

Returns(yes, stored) == pc' = "matched" /\ found' = yes /\ submatch' = stored
ncap == Min({1 + NumberOfCapturingGroups, args.nsubmatch})

PrefixFits == args.startpos = 0 /\ Len(object.prefix) <= args.endpos /\ Prefixed(object, text)

subtext == <<args.startpos + Len(object.prefix), args.endpos>>
Explicit ==
  CASE ForwardProg.anchorStart /\ ForwardProg.anchorEnd -> "both"
    [] ForwardProg.anchorStart /\ ~ForwardProg.anchorEnd /\ args.anchor # "both" -> "start"
    [] OTHER -> args.anchor
MatchBegin ==
  /\ pc = "match"
  /\ LET Rejected ==
           \/ ~ok
           \/ args.startpos > args.endpos \/ args.endpos > Len(text)
           \/ ForwardProg.anchorStart /\ args.startpos # 0
           \/ ForwardProg.anchorEnd /\ args.endpos # Len(text)
           \/ object.prefix # <<>> /\ ~PrefixFits
     IN IF Rejected
        THEN Returns(FALSE, submatch) /\ UNCHANGED <<anchoring, match>>
        ELSE /\ anchoring' = IF object.prefix # <<>> /\ Explicit # "both" THEN "start" ELSE Explicit
             /\ match' = subtext
             /\ pc' = "dfa"
             /\ UNCHANGED <<found, submatch>>
  /\ skipped' = FALSE
  /\ UNCHANGED <<object, isOnePass, rprog, text, call, args, global, answer>>

MatchKind == CASE anchoring = "both" -> "full"
               [] anchoring # "both" /\ object.longest -> "longest"
               [] OTHER -> "first"

\* SearchDFA forward and, on the text read backward, for where a match begins.
SearchDFA(span) ==
  AnswerTo(Ask(ForwardProg, text, span, MatchKind, anchoring # "unanchored", 1))
SearchBackward(span) ==
  LET Turned(back) ==
        IF back.matched THEN [back EXCEPT !.submatch[0] = <<Len(text) - @[2], span[2]>>] ELSE back
  IN Turned(AskBackward(BackwardProg, text, span))

Skip == pc' = "engine" /\ skipped' = TRUE /\ UNCHANGED <<match, found, submatch>>
\* DFAs may fail; else their answer sends Match on.
AfterDFA(result, span, next) ==
  \/ Skip
  \/ /\ result.matched
     /\ IF args.nsubmatch = 0 /\ anchoring = "unanchored"
        THEN Returns(TRUE, submatch) /\ UNCHANGED match
        ELSE match' = span /\ pc' = next /\ UNCHANGED <<found, submatch>>
     /\ UNCHANGED skipped
  \/ ~result.matched /\ Returns(FALSE, submatch) /\ UNCHANGED <<match, skipped>>

ReverseProg ==
  rprog' = IF rprog # "unbuilt" THEN rprog ELSE IF object.rprogs = {} THEN "failed" ELSE "built"

\* The end is known: one search backward says all.
SearchFromEnd ==
  /\ pc = "dfa" /\ anchoring = "unanchored" /\ ForwardProg.anchorEnd
  /\ ReverseProg
  /\ IF rprog' = "failed" THEN Skip
     ELSE \E back \in {SearchBackward(subtext)} :
            AfterDFA(back, IF back.matched THEN back.submatch[0] ELSE match, "engine")
  /\ UNCHANGED <<object, isOnePass, text, call, args, anchoring, global, answer>>

\* Forward to where the match ends, then backward to where it begins.
SearchForward ==
  /\ pc = "dfa" /\ anchoring = "unanchored" /\ ~ForwardProg.anchorEnd
  /\ \E forward \in {SearchDFA(subtext)} :
       AfterDFA(forward, <<match[1], IF forward.matched THEN forward.submatch[0][2] ELSE NULL>>,
                "backward")
  /\ UNCHANGED <<object, isOnePass, rprog, text, call, args, anchoring, global, answer>>
SearchForBegin ==
  /\ pc = "backward"
  /\ ReverseProg
  /\ IF rprog' = "failed" THEN Skip
     ELSE \E back \in {SearchBackward(match)} :
            AfterDFA(back, IF back.matched THEN back.submatch[0] ELSE match, "engine")
  /\ UNCHANGED <<object, isOnePass, text, call, args, anchoring, global, answer>>

list_count == Cardinality({id \in InstIds(ForwardProg) : IsHead(ForwardProg, id)})
bit_state_text_max_size == kBitStateBitmapMaxSize \div list_count - 1
can_one_pass == isOnePass /\ ncap <= kMaxCap \div 2
can_bit_state == Len(ForwardProg.inst) <= kBitStateInsts

\* Small texts are left to OnePass or BitState.
NotWorthIt ==
  \/ can_one_pass /\ Len(text) <= kSmallText /\ (ncap > 1 \/ Len(text) <= kTinyText)
  \/ can_bit_state /\ Len(text) <= bit_state_text_max_size /\ ncap > 1
SearchAnchored ==
  /\ pc = "dfa" /\ anchoring # "unanchored"
  /\ IF NotWorthIt THEN Skip
     ELSE \E forward \in {SearchDFA(subtext)} :
            AfterDFA(forward, IF forward.matched THEN <<match[1], forward.submatch[0][2]>> ELSE match,
                     "engine")
  /\ UNCHANGED <<object, isOnePass, rprog, text, call, args, anchoring, global, answer>>

(***************************************************************************)
(* Where the DFAs have found a match, or have not been asked, an engine    *)
(* finds the submatches.                                                   *)
(***************************************************************************)
\* Mutant: the prefix is not put back.
StoredSuffix(sub) == [i \in 0..(args.nsubmatch - 1) |-> IF i >= ncap THEN None ELSE sub[i]]
\* The prefix belongs to the match; groups that the pattern does not have are empty.
Stored(sub) ==
  [i \in 0..(args.nsubmatch - 1) |->
     CASE i >= ncap -> None
       [] i < ncap /\ i = 0 -> <<sub[0][1] - Len(object.prefix), sub[0][2]>>
       [] OTHER -> sub[i]]

MatchEnd(yes, sub) == IF yes THEN Returns(TRUE, Stored(sub)) ELSE Returns(FALSE, submatch)

\* The place is known, and enough.
WhereOnly ==
  /\ pc = "engine" /\ ~skipped /\ ncap <= 1
  /\ MatchEnd(TRUE, [i \in {0} |-> match])
  /\ UNCHANGED <<object, isOnePass, rprog, text, call, args, anchoring, skipped, match, global, answer>>

span == IF skipped THEN subtext ELSE match
anchored == ~skipped \/ anchoring # "unanchored"
Search ==
  \E result \in {AnswerTo(Ask(ForwardProg, text, span, IF skipped THEN MatchKind ELSE "full", anchored, ncap))} :
    MatchEnd(result.matched, IF result.matched THEN result.submatch ELSE <<>>)
Engine(name) ==
  CASE name = "OnePass" -> can_one_pass /\ anchored
    [] name = "BitState" -> can_bit_state /\ span[2] - span[1] <= bit_state_text_max_size
    [] name = "NFA" -> TRUE
Before(name) == CASE name = "OnePass" -> {} [] name = "BitState" -> {"OnePass"} [] name = "NFA" -> {"OnePass", "BitState"}
SearchWith(name) ==
  /\ pc = "engine" /\ (skipped \/ ncap > 1)
  /\ Engine(name) /\ \A other \in Before(name) : ~Engine(other)
  /\ Search
  /\ UNCHANGED <<object, isOnePass, rprog, text, call, args, anchoring, skipped, match, global, answer>>

(***************************************************************************)
(* The calls: Match itself; FullMatch, PartialMatch, Consume and           *)
(* FindAndConsume by way of DoMatch, with n arguments to store in, of      *)
(* which number failing does not take its text (0: all do); and Replace,   *)
(* Extract and GlobalReplace with a rewrite string.                        *)
(***************************************************************************)
Backslash == 92

\* What a rewrite string asks for, piece by piece: a byte, a group, or nonsense.
Byte(c) == [kind |-> "byte", n |-> c]
Group(n) == [kind |-> "group", n |-> n]
Nonsense == [kind |-> "bad", n |-> 0]
Escaped(c) ==
  CASE c \in 48..57 -> Group(c - 48)
    [] c = Backslash -> Byte(c)
    [] OTHER -> Nonsense
Tokens(rewrite) ==
  LET read[k \in 0..Len(rewrite)] ==
        IF k = 0 THEN [tokens |-> <<>>, open |-> FALSE]
        ELSE LET c == rewrite[k]
                 before == read[k - 1]
                 Put(token) == [tokens |-> Append(before.tokens, token), open |-> FALSE]
             IN CASE before.open -> Put(Escaped(c))
                  [] ~before.open /\ c = Backslash -> [before EXCEPT !.open = TRUE]
                  [] OTHER -> Put(Byte(c))
      all == read[Len(rewrite)]
  IN IF all.open THEN Append(all.tokens, Nonsense) ELSE all.tokens
Groups(rewrite) == {n \in 0..9 : Group(n) \in ToSet(Tokens(rewrite))}
IsGood(rewrite) == \A token \in ToSet(Tokens(rewrite)) : token.kind # "bad"
MaxSubmatch(rewrite) == Max(Groups(rewrite) \cup {0})
CheckRewriteString(o, rewrite) == IsGood(rewrite) /\ MaxSubmatch(rewrite) <= o.caps

Bytes(w, range) == IF range = None THEN <<>> ELSE SubSeq(w, range[1] + 1, range[2])
\* What is appended before the first nonsense, if any.
Rewrite(w, rewrite, vec) ==
  LET tokens == Tokens(rewrite)
      good == {k \in 0..Len(tokens) : \A j \in 1..k : tokens[j].kind # "bad"}
      Put(k) == IF tokens[k].kind = "byte" THEN <<tokens[k].n>> ELSE Bytes(w, vec[tokens[k].n])
  IN FlattenSeq([k \in 1..Max(good) |-> Put(k)])

Consumes(c) == c.kind \in {"Consume", "FindAndConsume"}
nvec(c) == IF c.kind \in Rewritings THEN 1 + MaxSubmatch(c.rewrite)
           ELSE IF c.n = 0 /\ ~Consumes(c) THEN 0 ELSE c.n + 1
AnchorOf(c) == CASE c.kind = "FullMatch" -> "both" [] c.kind = "Consume" -> "start" [] OTHER -> "unanchored"
Refused(c) ==
  CASE c.kind = "Match" -> FALSE
    [] c.kind \in DoMatches -> ~ok \/ NumberOfCapturingGroups < c.n
    [] c.kind \in Rewritings -> nvec(c) > 1 + NumberOfCapturingGroups \/ nvec(c) > kVecSize
ArgsOf(c, w) ==
  IF c.kind = "Match" THEN c.args
  ELSE [startpos |-> 0, endpos |-> Len(w), anchor |-> AnchorOf(c), nsubmatch |-> nvec(c)]

Answered(a) == pc' = "answered" /\ answer' = a

CallMade ==
  /\ pc = "idle"
  /\ \E w \in object.texts : \E c \in Calls(object, w) :
       /\ text' = w /\ call' = c
       /\ IF Refused(c) THEN Answered(No) /\ UNCHANGED args
          ELSE MatchWith(ArgsOf(c, w)) /\ UNCHANGED answer
  /\ UNCHANGED <<object, isOnePass, rprog, anchoring, skipped, match, found, submatch, global>>

Still == UNCHANGED <<object, isOnePass, rprog, text, call, anchoring, skipped, match, found, submatch>>
MatchReturns ==
  /\ pc = "matched" /\ call.kind = "Match"
  /\ Answered(IF found THEN [ok |-> TRUE, submatch |-> submatch] ELSE No)
  /\ Still /\ UNCHANGED <<args, global>>

\* Arguments before the one that fails have been stored by then.
DoMatchReturns ==
  /\ pc = "matched" /\ call.kind \in DoMatches
  /\ LET taken == IF call.failing = 0 THEN call.n ELSE call.failing - 1
         yes == call.failing = 0
     IN Answered(IF ~found THEN No
                 ELSE [ok |-> yes, taken |-> [i \in 1..taken |-> submatch[i]],
                       consumed |-> IF yes /\ Consumes(call) THEN submatch[0][2] ELSE 0])
  /\ Still /\ UNCHANGED <<args, global>>

ReplaceReturns ==
  /\ pc = "matched" /\ call.kind \in {"Replace", "Extract"}
  /\ LET new == Rewrite(text, call.rewrite, submatch)
         around == SubSeq(text, 1, submatch[0][1]) \o new \o SubSeq(text, submatch[0][2] + 1, Len(text))
     IN Answered(CASE ~found -> No
                   [] found /\ call.kind = "Extract" -> [ok |-> IsGood(call.rewrite), out |-> new]
                   [] OTHER -> IF IsGood(call.rewrite) THEN [ok |-> TRUE, out |-> around] ELSE No)
  /\ Still /\ UNCHANGED <<args, global>>

(***************************************************************************)
(* GlobalReplace: pieces are the matches replaced so far.                  *)
(***************************************************************************)
\* How far to go on where an empty match is not taken: past a rune, if there is
\* one, or a byte.
\* Mutant: past a byte.
AheadByByte(w, p, latin1) == 1
Ahead(w, p, latin1) ==
  LET runes == RuneAt(w, p, latin1) IN IF latin1 \/ runes = {} THEN 1 ELSE (CHOOSE x \in runes : TRUE)[2]

GlobalDone(loop) ==
  Answered(IF loop.pieces = <<>> THEN [ok |-> FALSE, count |-> 0, out |-> text]
           ELSE [ok |-> TRUE, count |-> Len(loop.pieces), out |-> loop.out \o SubSeq(text, loop.p + 1, Len(text))])
GlobalNext(loop) ==
  /\ global' = loop
  /\ IF loop.p <= Len(text) THEN MatchWith([args EXCEPT !.startpos = loop.p]) /\ UNCHANGED answer
     ELSE GlobalDone(loop) /\ UNCHANGED args

GlobalStops ==
  /\ pc = "matched" /\ call.kind = "GlobalReplace" /\ ~found
  /\ GlobalDone(global)
  /\ Still /\ UNCHANGED <<args, global>>

\* No empty match at the end of the last one.
GlobalSkips ==
  /\ pc = "matched" /\ call.kind = "GlobalReplace" /\ found
  /\ submatch[0] = <<global.lastend, global.lastend>>
  /\ LET next == global.p + Ahead(text, global.p, object.latin1)
     IN GlobalNext([global EXCEPT !.p = next, !.out = @ \o Bytes(text, <<global.p, Min({next, Len(text)})>>)])
  /\ Still

GlobalTakes ==
  /\ pc = "matched" /\ call.kind = "GlobalReplace" /\ found
  /\ submatch[0] # <<global.lastend, global.lastend>>
  /\ GlobalNext([p |-> submatch[0][2], lastend |-> submatch[0][2],
                 out |-> global.out \o Bytes(text, <<global.p, submatch[0][1]>>)
                           \o Rewrite(text, call.rewrite, submatch),
                 pieces |-> Append(global.pieces, submatch)])
  /\ Still

\* The object serves another call.
NextCall ==
  /\ pc = "answered"
  /\ text' = <<>> /\ call' = [kind |-> "none"] /\ pc' = "idle" /\ args' = NoArgs
  /\ anchoring' = "unanchored" /\ skipped' = FALSE /\ match' = None /\ found' = FALSE
  /\ submatch' = <<>> /\ global' = NoLoop /\ answer' = No
  /\ UNCHANGED <<object, isOnePass, rprog>>

MatchNext ==
  \/ CallMade \/ MatchBegin
  \/ SearchFromEnd \/ SearchForward \/ SearchForBegin \/ SearchAnchored
  \/ WhereOnly \/ \E name \in {"OnePass", "BitState", "NFA"} : SearchWith(name)
  \/ MatchReturns \/ DoMatchReturns \/ ReplaceReturns
  \/ GlobalStops \/ GlobalSkips \/ GlobalTakes \/ NextCall
MatchSpec == MatchInit /\ [][MatchNext]_matchVars

(***************************************************************************)
(* What a call is to answer, told by the pattern alone.                    *)
(***************************************************************************)
FitsAt(o, w, p, a) == Fitting(Meaning(o, w, p), a.endpos, a.anchor = "both")
BestAt(o, w, p, a) == BestOf(Meaning(o, w, p), FitsAt(o, w, p, a), o.longest)
Span(way, i) == SpanOf(way, i, object.caps)

\* The leftmost match, {} if there is none.
Wanted(o, w, a) ==
  LET hits == {p \in a.startpos..a.endpos : /\ a.anchor # "unanchored" => p = a.startpos
                                          /\ FitsAt(o, w, p, a) # {}}
  IN IF o.progs = {} \/ a.endpos > Len(w) \/ hits = {} THEN {} ELSE {BestAt(o, w, Min(hits), a)}
Asked == pc = "answered" /\ ~Refused(call)

\* Whatever way a search takes, through DFAs that may fail, in either direction, or
\* past them, Match reports the match that the pattern means, in any part of a text
\* and with any anchor; DoMatch what it has stored and consumed.
AnswersRight ==
  Asked /\ call.kind \notin Rewritings =>
    \A wanted \in {Wanted(object, text, ArgsOf(call, text))} :
      /\ answer.ok = (wanted # {} /\ (call.kind \in DoMatches => call.failing = 0))
      /\ \A way \in wanted :
           IF call.kind = "Match"
           THEN \A i \in DOMAIN answer.submatch : answer.submatch[i] = Span(way, i)
           ELSE /\ \A i \in DOMAIN answer.taken : answer.taken[i] = Span(way, i)
                /\ Consumes(call) /\ answer.ok => answer.consumed = way.p

\* Places where a search that goes on from p does not look for a match: if a match
\* has just ended there and there is nothing but an empty one, not before the next
\* rune.
Passed(o, w, p, a) ==
  LET Rune == {p + x[2] - 1 : x \in RuneAt(w, p, o.latin1)}
      Empty == FitsAt(o, w, p, a) # {} /\ BestAt(o, w, p, a).p = p
  IN IF Empty THEN p..Max({p} \cup Rune) ELSE {}

\* Between pieces: from the end of the one before to where the k-th begins.
From(pieces, k) == IF k = 1 THEN 0 ELSE pieces[k - 1][0][2]
To(w, pieces, k) == IF k > Len(pieces) THEN Len(w) + 1 ELSE pieces[k][0][1]
Vec(o, way, n) == [i \in 0..(n - 1) |-> SpanOf(way, i, o.caps)]
PieceRight(o, w, a, pieces, k) ==
  LET from == From(pieces, k)
      to == To(w, pieces, k)
  IN /\ from <= to
     /\ k > 1 => to \notin Passed(o, w, from, a)
     /\ pieces[k] = Vec(o, BestAt(o, w, to, a), a.nsubmatch)
NoneMissed(o, w, a, pieces, k) ==
  \A p \in From(pieces, k)..(To(w, pieces, k) - 1) :
    FitsAt(o, w, p, a) = {} \/ (k > 1 /\ p \in Passed(o, w, From(pieces, k), a))
Replaced(w, rewrite, pieces) ==
  FlattenSeq([k \in 1..Len(pieces) |-> Bytes(w, <<From(pieces, k), To(w, pieces, k)>>)
                                         \o Rewrite(w, rewrite, pieces[k])])

\* The matches that GlobalReplace replaces do not overlap, no empty one touches the
\* one before, each is the match that is meant where it begins, and none is left out
\* between them; what is not of a match stays.
GlobalRight(o, w, c, pieces, a) ==
  LET n == Len(pieces)
      args0 == ArgsOf(c, w)
  IN /\ a.ok = (Wanted(o, w, args0) # {})
     /\ \A k \in 1..(n + 1) : NoneMissed(o, w, args0, pieces, k)
     /\ \A k \in 1..n : PieceRight(o, w, args0, pieces, k)
     /\ a.out = Replaced(w, c.rewrite, pieces) \o SubSeq(w, From(pieces, n + 1) + 1, Len(w))
\* Replace and Extract are of the first match.
ReplaceRight(o, w, c, a) ==
  \A wanted \in {Wanted(o, w, ArgsOf(c, w))} :
    /\ a.ok = (wanted # {} /\ CheckRewriteString(o, c.rewrite))
    /\ \A way \in wanted :
         LET new == Rewrite(w, c.rewrite, Vec(o, way, nvec(c)))
         IN IF c.kind = "Extract" THEN a.out = new
            ELSE a.ok => a.out = SubSeq(w, 1, way.cap[0]) \o new \o SubSeq(w, way.p + 1, Len(w))

\* What is replaced are the matches that are meant, and all of them.
ReplacedRight ==
  Asked /\ call.kind \in Rewritings =>
    IF call.kind = "GlobalReplace" THEN GlobalRight(object, text, call, global.pieces, answer)
    ELSE ReplaceRight(object, text, call, answer)
=============================================================================
