# RE2 in TLA+

TLA+ models of RE2 (`re2/*.cc`), from the parser to the calls of an `RE2` object, with TLC runs
on small instances and TLAPS proofs about the parts that hold state for long. RE2 is a library
without threads of its own. What is hard in it comes from callers that share an `RE2` object (its
DFAs above all), from memory budgets that make engines discard and rebuild their state or give up,
from four engines that must agree on one answer, and from a pipeline (parse, simplify, compile,
flatten) each stage of which rewrites what a pattern says and must not change what it means.

Lines such as `dfa.cc:1429` are lines of `re2/dfa.cc` in the repository.

## 1. Inventory

| Component | State | Operations | Interaction |
|---|---|---|---|
| **DFA search and cache** `re2/dfa.cc` | per `DFA`: `state_cache_`, `next_` of each state, `start_[]`, `mem_budget_`; locks `mutex_`, `cache_mutex_`; per call: `start`, `s`, `p`, `resetp`, `lastmatch`, saved states | `Search`, `PossibleMatchRange`, `RunStateOnByte`, `CachedState`, `ResetCache`, save and restore | every thread that matches with the same `RE2` shares the two DFAs of its `Prog`; `RE2`, `RE2::Set`, `FilteredRE2` call it and fall back when it fails |
| **DFA state construction** `re2/dfa.cc` | work queues `q0_`, `q1_` with marks, `stack_` | `AddToQueue`, `RunWorkqOnByte`, `RunWorkqOnEmptyString`, `WorkqToCachedState` | called by the cache under `mutex_`; reads the `Prog` |
| **DFA test interface** | none | `BuildAllDFAStates`, hooks | tests |
| **Memory budgets** `re2/re2.cc`, `compile.cc`, `prog.cc`, `dfa.cc`, `onepass.cc` | `max_mem` cut into parts for programs, DFAs, the one-pass table | constructors | a number passed down through every layer; too little makes a compilation or a DFA fail |
| **RE2 object and matching** `re2/re2.cc` | the parsed regexp, the forward and reverse program, error, `num_captures_`; lazily built with `once` flags | `Match`, `Replace`, `GlobalReplace`, `Extract`, `Rewrite`, argument parsing | chooses an engine, and another one when the first gives up |
| **RE2::Set** `re2/set.cc` | pairs of regexp strings, `compiled_`, `prog_`, `size_` | `Add`, `Compile`, `Match`, move | a many-match DFA that must not give up |
| **FilteredRE2 and prefilters** `re2/filtered_re2.cc`, `prefilter.cc`, `prefilter_tree.cc` | the regexps, the and/or tree of atoms with its nodes made unique, parents, thresholds | `Add`, `Compile`, `FirstMatch`, `AllMatches` | atoms found by the caller become candidate regexps |
| **NFA** `re2/nfa.cc` | run queues (sparse arrays of threads), reference-counted capture arrays, a free list | `AddToThreadq`, `Step`, `Search` | the engine of last resort |
| **OnePass** `re2/onepass.cc` | a table of nodes and actions | `IsOnePass`, `SearchOnePass` | used when the program is one-pass and anchored |
| **BitState** `re2/bitstate.cc` | `visited_` bitmap, `job_` stack | `Push`, `TrySearch`, `Search` | used for small texts |
| **Compiler** `re2/compile.cc` | instruction array, patch lists, the cache of UTF-8 suffixes | `PostVisit`, `Cat`, `Alt`, `Star`, ... | walks the `Regexp`, yields a `Prog` |
| **Prog** `re2/prog.cc` | instructions, flattened list, byte map, lazily built DFAs (`once`) | `Optimize`, `Flatten`, `ComputeByteMap`, `PrefixAccel` | input of all engines |
| **Regexp references** `re2/regexp.cc` | 16-bit `ref_`, the global overflow map `ref_map` with its mutex, `down_` stack | `Incref`, `Decref`, `Ref`, `Destroy` | shared sub-expressions of parse, simplification and prefilters |
| **Character classes** `re2/regexp.cc` | a set of disjoint ranges, `upper_`, `lower_`, `nrunes_` | `AddRange`, `RemoveAbove`, `Negate`, ... | parser, compiler |
| **Parser** `re2/parse.cc` | a stack of operands and markers linked by `down_` | `PushRegexp`, `DoLeftParen`, `DoAlternation`, `DoCollapse`, factoring, ... | yields a `Regexp` |
| **Simplify and Walker** `re2/simplify.cc`, `walker-inl.h` | an explicit stack of frames | `Walk`, `CoalesceWalker`, `SimplifyWalker` | between parser and compiler |
| **Sparse sets and arrays** `re2/sparse_array.h`, `sparse_set.h`, `pod_array.h` | `size_`, `sparse_`, `dense_`, never initialised | `set`, `has_index`, `clear`, `resize`, copy, move | every work queue above |
| **ToString and MimicsPCRE**, **tables**, **utilities**, **wrappers and tests** | none or generated | | |

What makes each of them correct:

* *DFA search and cache*: the states and edges seen through the cache are those of
  the automaton, whoever builds, finds or discards them; a pointer is never used
  after the reset that frees its state; each search returns what a search alone
  would, or gives up; locks are released; memory stays within the budget.
* *State construction*: a DFA state stands for exactly the ordered set of program
  threads alive after the input, cut off at the first match for leftmost-first.
* *Budgets*: every part is non-negative and the parts stay within the whole.
* *Matching*: the answer does not depend on the engine chosen or on which one gave up.
* *RE2::Set, FilteredRE2*: the ids returned are those of the regexps that match.
* *NFA, BitState, OnePass*: the same leftmost-first (or longest) match and
  submatches; reference counts and stacks balance; each (instruction, position)
  is visited once.
* *Compiler, Prog, Simplify, Parser*: the language and priorities are preserved.
* *Regexp references*: `Ref()` is the number of owners, also above 16 bits; a node is
  freed once, with its last owner.
* *Sparse sets*: behave as sets although `sparse_` is read uninitialised.

The hard behaviours are the shared cache (threads, two locks, resets, allocation
failure), lazily built parts behind `once` flags, global maps behind a mutex, and
queues in uninitialised memory. There is no I/O, no persistence and no message:
crashes, lost messages and timeouts do not exist here.

## 2. Plan

Done, the most important behaviour first:

1. **DFACache**: the shared cache, with **DFASearch** as the abstract specification,
   **DFACacheRefines** for the refinement mapping, **DFACacheProofs** and **DFASearchProofs** for the proofs.
2. **SparseArray** against **InsertionMap**, **RegexpRefs**: small state machines, both proved
   (**SparseArrayProofs**, **RegexpRefsProofs**).
3. **Engines**: **BitState**, **NFA**, **OnePass** and **DFAStates** over **Program**, all of them
   against **Matching**; **BitStateProofs**, **NFAProofs** and **DFAStatesProofs**.
4. **Pipeline**: **Parser** with **Lexer** and **Factoring**, **Printing**, **Simplify**,
   **Compiler**, **Flatten**, over **Regexp** and **CharClass**, against what a tree means.
5. **Library**: **RE2Match** with **RE2MatchProofs**, **RE2Set**, **FilteredRE2** with **Prefilter**,
   over the modules of 4.

Left:

6. The division of `max_mem` in bytes.

How the modules hang together (an arrow is EXTENDS, `=>` is refinement):

```
Program <- Query <- Engine <- BitState, NFA, OnePass (<- OnePassTable), DFAStates <- Engines
Program <- Ways <- Answers <- Matching;  Engines <- MCEngines => Matching;  Engines <- BitStateProofs <- NFAProofs <- DFAStatesProofs
Runes <- CharClass <- Regexp (<- Program) <- Lexer, Factoring <- Parser
                      Regexp <- Printing, Simplify <- Compiler;  Regexp <- Flatten
Parser, Printing, Compiler, Flatten, Ways <- Pipeline <- MCPipeline
Runes, OnePassTable <- RE2Match <- RE2MatchProofs;  Factoring, Compiler, Flatten <- RE2Set
Simplify <- Prefilter <- FilteredRE2
RE2Match, RE2Set, FilteredRE2, Answers <- Library <- MCLibrary
DFACache <- DFACacheRefines => DFASearch;  DFACacheRefines <- MCDFACache
DFACache <- DFACacheProofs;  DFACacheRefines, DFACacheProofs <- DFASearchProofs
SparseArray => InsertionMap;  SparseArray, RegexpRefs <- their proofs
```

## 3. The DFA cache

### What the code does

A `DFA` is built while it is used. `Search` takes `cache_mutex_` for reading and runs
`InlinedSearchLoop`, which follows `next_` pointers without any other lock. Where
an edge is missing it takes `mutex_`, computes the edge and perhaps a new state
(`RunStateOnByte`, `CachedState`), charged to `mem_budget_`. If the budget is spent the
thread either gives up (it has reset the cache already and has read less than ten
bytes per state since), or saves the contents of its `start` and `s`, gives
`cache_mutex_` up, takes it for writing, deletes every state, rebuilds its own two
and continues, alone until it returns. `PossibleMatchRange` walks the same
graph with `mutex_` held.

### Modules

| Module | Contents |
|---|---|
| `DFASearch` | what a caller is promised: a scan over the complete automaton that nobody disturbs |
| `DFACache` | the cache, the locks and the threads; properties and the inductive invariant |
| `DFACacheRefines` | the refinement mapping; `RefinesSearch` is `DFASearch`'s specification, `ScanInv` the invariant its proof needs |
| `DFACacheProofs` | theorems about the cache |
| `DFASearchProofs` | theorems about the searches over it: they refine `DFASearch`, slow ones give up |
| `MCDFACache` | three automata: first match of `(?s)a.`, longest match of `(?s)a{3}.*`, an `RE2::Set` of `a` and `ab` |

What a state contains and where an input takes it are the constants `Key` and
`Delta`: the cache must be right for any automaton, and the instances are tables worked
out by hand from `WorkqToCachedState` and `RunWorkqOnByte`. Byte classes stand for
bytes.

| Variable | Code |
|---|---|
| `readers`, `writer` | `cache_mutex_` and `RWLocker` |
| `mutex` | `mutex_` while a range walk holds it |
| `content` | `state_cache_`: contents of the `State` at each address, `NULL` if free |
| `next` | `State::next_` |
| `startInfo` | `start_[].start` |
| `budget` | `mem_budget_` |
| `frame` | locals of each thread's `Search` or `PossibleMatchRange` |

| Action | Code |
|---|---|
| `Search`, `PossibleMatchRange` | the call, `RWLocker`'s constructor |
| `QuickCheck`, `FillStart` | `AnalyzeSearch`, `AnalyzeSearchHelper`, with the one retry after a reset |
| `Begin` | `Search` from the start state to the loop, with the loop's check of the start state |
| `NextByte`, `Load` | one turn of the lock-free loop: prefix acceleration, the byte, the load of `next_` |
| `RunStateOnByteUnlocked` | the slow path under `mutex_` |
| `OutOfMemory` | the test for slowness, `StateSaver`'s constructors |
| `DropReaderLock`, `WriterLock`, `ClearCache` | `ResetCache`, `LockForWriting`, `ClearCache` |
| `RestoreStart`, `RestoreS` | `StateSaver::Restore` |
| `BeginRange`, `WalkHead`, `WalkByte` | `PossibleMatchRange`, its two passes, one `RunStateOnByte` at a time |
| `Return` | `RWLocker`'s destructor |

Conventions:

* A critical section of `mutex_` is one action: nothing it reads is written without
  `mutex_`, except `next_` and `start_`, which are written once between resets. The
  walk of `PossibleMatchRange` takes many steps, so it holds `mutex` across them.
* The lock-free load and the store of an edge are atomic and the state's contents are
  visible with the edge (release and acquire in the code); memory is otherwise
  sequentially consistent.
* Addresses are used again after a reset, so a stale pointer can meet a live state.
* A position counts the inputs consumed in the direction of the scan; the byte after
  the text (or `kByteEndText`) makes it `n + 1`. `size_t` is scaled down to `SizeMod`, which
  matters where a negative difference is cast (dfa.cc:1440).
* The order of bytes in a range walk is abstracted: any class may be tried next. The
  strings `min` and `max` are not modelled, `PrefixSuccessor`'s emptiness is a choice.
* Prefix acceleration is modelled as a jump to the first byte that is not skipped, or
  to the end, as `memchr` does. With a longer prefix the same jump may stop earlier
  than necessary, which the model does not distinguish.
* After a failed allocation the code still sees the dead values of `start` and `s` until
  they are overwritten; the model sets them to `NULL` at once.
* Not modelled: `DFA::BuildAllStates` and the test hooks; the check that the text lies in
  its context; `CachedState`'s layout of a `State`; logging.
* `absl::Mutex` and the allocator are external.

### Runs

| Run | What it shows |
|---|---|
| `cache_shared` | Two threads, prefix acceleration, three of six states fit: the graph is a part of the automaton, grows only, has no duplicates; each search refines `DFASearch`. |
| `cache_longest` | Two threads with searches for any match and for the longest one, range walks, states of different cost: the inductive invariant of the proofs (`ScanInv`, which contains `IInv`), the accounting of memory, no pointer that survives a reset, no company for the thread that resets, no fatal branch, slow searches give up, refinement. |
| `cache_set` | The many-match DFA of a set: no give-up, the ids of all states passed through, across resets. |
| `cache_live` | Under fairness every call returns. |
| `backward_slow` | Expected violation: the test for slowness never succeeds in a backward scan. |

Bounds. `Addr` has one address more or as many as the budget allows, so the budget is what
stops allocation. A budget for three states of the largest cost is the least the
model allows (the constructor insists on twenty): resets happen as early and as often as
they can. The chain of `(?s)a{3}.*` needs four states in a row, so a search resets
in its middle, and a second time soon after if it found the cache full: it must decide whether
it is too slow. Texts of three and four bytes are long enough for two resets in one search, for
a match at the end and for a full match before the end. `BailFactor` is 1 where the code has 10. Two threads are the least for a
reset between another thread's two lock operations; a third would be a bystander, and is left to
the proofs, which hold for any number. Symmetry in threads and
addresses is used for safety only.

Fairness. `FairSpec` has weak fairness of a thread's own steps (a thread in a call is
scheduled), and strong fairness of taking `mutex_` and of taking `cache_mutex_` for writing: a
lock that is free again and again is granted, as `absl::Mutex` grants it to its longest
waiter. Nothing makes a caller call. Weak fairness of the writer's lock would not do:
readers come and go. That a scan reads its input to the end is not assumed but follows.

### Proofs

`DFACacheProofs` proves, for any number of threads, any automaton, any budget of at least three
of the largest states and any size of text:

| Theorem | Statement |
|---|---|
| `Invariant` | `Spec => []IInv` |
| `TypeCorrect` | `[]TypeOK` |
| `NoStalePointer` | `[]NoUseAfterFree` |
| `CacheIsSound` | `[]GraphSound` |
| `StatesAreUnique` | `[]NoDuplicateStates` |
| `ResetterIsAlone` | `[]ResetIsExclusive` |
| `ResetLeavesRoom` | `[]NeverFatal` |
| `CacheOnlyGrows` | `GraphOnlyGrows` |
| `BooksBalance` | `[]BudgetAccounts` |

They rest on the named assumptions `Sorts`, `Distinct`, `AccelSound` and `RoomForThree`, which TLC
evaluates in each run.

The properties are not inductive. That no pointer is stale needs to know which locks are held at
each step (`LocksOK`) and at which steps a thread stands on a state at all (`StatesOK`):
while it waits for the writer's lock it has only the saved copies. That a rebuilt state finds
memory needs the room that remains after each stage of a reset (`RoomOK`: three states, then two,
then one), and that a thread which has reset is alone until its next state is
computed. That a new state has no edges needs `FreeHasNoEdges`. `IInv` is their conjunction; the proof
shows each action preserves each conjunct, with lemmas for the three ways an action
treats the graph: it leaves it alone, it adds a state or an edge (`CachedState`), it clears it.

`BudgetAccounts` speaks of the sum of the costs of the cached states. `MapThenSumSet` adds up in an order
that `CHOOSE` picks, and nothing can be proved by an induction whose hypothesis is a predicate of one's
own. `SumWithout` (a sum is the cost of any one member plus the sum of the others) is proved by well-founded
descent instead: a smallest set for which it fails cannot exist. From then on a step charges exactly one new
state, or clears all.

`DFASearchProofs` adds, under the same assumptions:

| Theorem | Statement |
|---|---|
| `ScanInvariant` | `Spec => []ScanInv` |
| `SearchIsRefined` | `Spec => RefinesSearch` |
| `ForwardSearchGivesUp` | `Spec => SlowSearchGivesUp`, if no search is backward |

`RefinesSearch` maps each thread to the undisturbed scan of `DFASearch`: the position in the complete
automaton is the contents of `s`, or of its saved copy while a reset is under way. A byte read on the
fast path, a byte read by the slow path, and a byte whose state is only there after a reset are all one step of
the scan; locks, fills of the start state and resets are stutters, and a failure is the scan's permission to
give up. That needs `ScanInv`: what a scan in flight has read is where the automaton is after those bytes,
the saved contents are those of the states the pointers had, a match seen so far is the scan's, and
a failure is only returned by searches that may fail. `ForwardSearchGivesUp` needs that `resetp` is not
ahead of `p`, which is false in backward scans: there the property itself is false (section 9).

Only model-checked: `EveryCallReturns` (liveness).

## 4. Sparse arrays

### What the code does

`SparseArray` (`re2/sparse_array.h`) is a map from small integers in memory that is never
initialised. `dense_` holds the `size_` entries in the order they were added; `sparse_[i]` says
where the entry of `i` is, if there is one, and is whatever was in memory if there is not. A
lookup believes `sparse_[i]` only if the entry there says `i` too. `PODArray`
(`re2/pod_array.h`) holds the memory and keeps its length in the deleter, even after the memory
has been moved away.

### Modules

| Module | Contents |
|---|---|
| `InsertionMap` | what the description promises: maps with insertion order |
| `SparseArray` | the arrays, every operation, properties, the refinement mapping (`RefinesMap`) |
| `SparseArrayProofs` | the theorems |

`array[o]` is one object: `data` (there is memory), `len` (the length in the deleter), `size`,
and the cells `sparse`, `index`, `value`. `sorted` and `call` are history: whether `std::sort`
reordered the entries, and what the last call returned. Each public member function is an action
(`Construct`, `Has`, `GetExisting`, `Set`, `SetNew`, `SetExisting`, `Clear`, `Resize`, `Copy`,
`Move`, and `Sort` for a caller that uses `less`). Conventions:

* Fresh memory holds any numbers of `Garbage`; casts to `uint32_t` are modelled with `Half` for
  2^31.
* An index out of range is ignored by `set`, as in builds without assertions; the other
  operations have their documented preconditions.
* A sorted array is not looked up until it is cleared: that is how `Prog::Flatten` uses one.
* Left out: copying or moving an array onto itself; `SparseSet`, which is the same without
  values; `MaybeInitializeMemory`, which only pleases memory checkers.

### Run

`sparse` has two arrays of up to two cells and two values, and checks the inductive invariant
(entries are different legal indices inside the memory), that lookups are exact, and that each
array is a map with insertion order.

Two cells are the least for an uninitialised cell to point at a live entry of another index, and
two objects for copies, moves and moved-from objects. The fresh number 1 is a valid position of
a full array; numbers out of range, negative ones as well, are covered by the proofs.

### Proofs

For any objects, values, sizes and contents of fresh memory, from the assumption `SparseSorts`:
`Invariant` (`SparseInv`: types, bounds, entries with different legal indices, and `sparse_`
linked to each unless sorted), `NeverOutOfBounds`, `LookupIsExact`, `AlwaysRoom` (a pigeonhole
argument over the entries' indices) and `Refinement`: the array implements `InsertionMap`.
Everything the run checks is proved, and
two consequences of `SparseInv` that it does not check by themselves.

## 5. Reference counts of regexps

### What the code does

A `Regexp` counts its owners in 16 bits. The count that would be `kMaxRef` and all above live in
a global map under a mutex (`Incref`, `Decref`, `Ref`). A node that loses its last owner is
destroyed with its subexpressions without recursion: nodes that die wait on a stack threaded
through `down_`.

### Modules

`RegexpRefs` is the state machine and what `RegexpRefs.cfg` runs, `RegexpRefsProofs` the theorems.

| Variable | Code |
|---|---|
| `alive` | the nodes allocated and not deleted; an address may be used again |
| `ref`, `nsub`, `down` | `ref_`, `nsub_`, `down_` |
| `refMap` | `ref_map`, 0 for no entry |
| `own` | the node that each owner, a handle or a slot of a subexpression array, refers to |
| `stack`, `re`, `i` | locals of `Destroy` |

`NewLeaf` and `NewParent` construct nodes, `Incref` copies a reference, `Decref` gives one up,
`TakeSub` takes a subexpression out of its parent as `RemoveLeadingRegexp` does, `DestroyPop`,
`DestroySub` and `DestroyDelete` are the steps of `Destroy`. `Destroy` runs to its end on one
thread before that thread does anything else; nodes that another thread may reach are not in it,
so other steps wait for `Idle`. Every access to `ref_map` holds its mutex and is part of one
action. `MaxRef` scales `kMaxRef` down. Left out: `Swap` and the in-place removal of a leading
subexpression, which work on nodes with one owner.

### Run

`refs`: four nodes, two handles, two subexpressions each, a count that is full at two. Four
nodes are the least for two dying nodes to wait on the stack while they share a subexpression.
It checks the inductive invariant (counts are exact), that nothing that is owned is deleted, that what is left when no
destruction runs is just what can be reached (`NothingLeaks`), and that every destruction ends.
Fairness is weak fairness of `Destroy`: it is a loop that nothing interrupts.

### Proofs

For any number of nodes, handles and subexpressions, and any `MaxRef` above 1 (assumption
`RefSorts`): `Invariant` (`RefInv`), `CountsAreExact`, `NothingDangles`, `HeapInvariant` (`HeapInv`),
`NothingIsLost` (`NothingLeaks`). The counts are exact
only because each slot of a dying node still owns its reference until `DestroySub` drops it, and
an entry of the map exists just for full counts (`MapExact`: a deleted address leaves none
behind); these and the shape of the stack (`StackOK`) make `RefInv` inductive.

`NothingLeaks` follows from none of it: a cycle of live nodes, or a dying node that dropped off the
stack, would have exact counts too. `HeapInv` adds that among any live nodes one is not a subexpression of
another of them (`Acyclic`: a node is built over nodes that exist) and that a set that has the top of the stack and
goes along with `down_` has every dying node (`StackWhole`). Both are stated with sets, as
reachability would be recursion. Then, when no destruction runs, the live nodes out of reach of
a handle would have one among them that nobody owns, with a count above zero.

Only model-checked: `DestroyEnds` (liveness).

## 6. The engines

### What the code does

`BitState` backtracks with an explicit stack and a bitmap of what it has tried; the NFA simulates
all threads at once, in run queues, with counted capture arrays; the one-pass engine follows a table
in which each byte leaves one way to go; the DFA builds states out of ordered lists of
instructions and notices a match one byte late. All are asked the same question, and `RE2::Match`
uses whichever applies.

### Modules

| Module | Contents |
|---|---|
| `Program` | flattened programs, what every engine asks of an instruction and of the text |
| `Query` | a search: program, context, text, kind of match; what each `Search` derives from it; `PrefixAccel` |
| `Engine` | the variables that all engines have |
| `Ways`, `Answers` | every way through a program in the order of its priority; the best of them |
| `Matching` | the promise: one answer, the best way |
| `BitState`, `NFA` | `bitstate.cc` and `nfa.cc`, instruction by instruction |
| `OnePassTable`, `OnePass` | `IsOnePass` with its table; the search, byte by byte |
| `DFAStates` | the states of `dfa.cc` and a search over them, byte by byte |
| `Engines` | all four, one at a time |
| `BitStateProofs`, `NFAProofs`, `DFAStatesProofs` | the theorems |
| `MCEngines` | programs and queries, with `RefinesMatching` |

`Matching` plays the part of the repository's own reference matcher (`re2/testing/backtrack.cc`),
without its bitmap.

| Engine | Variables | Code |
|---|---|---|
| all | `query`, `pc`, `id`, `p`, `matched`, `result` | arguments, place in the code, the locals of those names, what is returned |
| `BitState` | `visited`, `cap`, `job`, `submatch`, `p0` | `visited_` as a set of pairs, `cap_`, `job_[0..njob_)`, the caller's submatches, `p` of `Search` |
| `NFA` | `runq`, `nextq`, `i` | `q0_` and `q1_`, exchanged after each byte; `Step`'s iterator |
| | `stk`, `t0`, `t` | `AddToThreadq`'s stack and locals |
| | `pool` | `arena_` with `ref`, `capture`, and `freelist_` |
| | `match` | `match_` |
| `OnePass` | `node`, `caps`, `matchcap` | `state`, `cap_`, `matchcap` |
| `DFAStates` | `state`, `lastmatch` | the `State` as `inst_`, flags and needed flags; `lastmatch` |

There is one action for each `case` of the two switches over instructions (`VisitCapture`,
`AddCapture`, ...), for the beginning and the end of `Step`, for each start of a thread, and one for
each byte of the other two engines. Conventions:

* Positions are offsets into the context, `NULL` is -1. A list is named by its head instead of its
  number. Bytes are a few letters; a range is the set of those it matches, folding included.
* The program of a query is a constant operator, so that an engine's state does not carry it.
* `DFAStates` makes states by computing them; finding and keeping them is `DFACache`'s. A DFA's
  answer is the end of a match only, and it is asked for that.
* Memory: `GrowStack` succeeds; the one-pass table fits its budget; its actions are kept for bytes,
  not for classes of bytes (which section 7 checks in `ByteMapSame`).
* Not modelled: a text that is a null pointer, `Fanout`, the scan for several prefix bytes at a time.

### Run

`engines` asks every engine every query over 14 programs that it may be asked: ambiguous
alternatives, nested and lazy stars, word and line boundaries, both kinds of `kInstAltMatch`, hints,
anchors at both ends, literal and case-folded prefixes, captures left by an earlier turn of a loop,
and a program that fails. Contexts are all strings of up to three bytes (four for runs and
prefixes) over two letters, the text is every part of the context; all match kinds, anchored or not,
with no submatches or all. Three bytes let a loop take two turns with an alternative after each;
four let a run of jobs have three positions. The run takes about two and a half minutes.

| Property | What it says |
|---|---|
| `NeverTwice` | no job of the backtracker waits twice at one position: the stack stays linear in the text |
| `CapturesUndone` | the jobs on its stack lead every register back to its first value |
| `RefsExact` | a thread's count is the number of places that hold it, a thread that nobody holds is on the free list, once: no capture array is overwritten while it is in use |
| `RoomForAll` | bitmap, the NFA's fixed stack, the DFA's fixed queues and their stack are large enough, and the iterator over a queue stays in it; the code checks none of this |
| `RefinesMatching` | each engine answers what trial and error finds |
| `Ends` | searches that follow several ways at once end, whatever loops the program has |

Fairness is weak fairness of the next step of `BitState` and of the NFA: a call goes on. The other
two take one byte in each step, there is nothing to show. Deadlock is not checked because a search
stops when it has answered.

### Proofs

For any set of queries, of programs, contexts and kinds of match, under two assumptions: a program is
`WellFormedProg`, which says what `Flatten` leaves behind (lists end, what an instruction leads to is the
head of a list, a hint stays in its list, an `AltMatch` has its loop and its way to the match behind it, in the
loop in front of an unanchored search a byte follows the way to the start), and
a query's text is a part of its context. TLC evaluates both for `MCEngines`, and `FlattenSame`
checks `WellFormedProg` of every program that the pipeline compiles.

| Theorem | Statement |
|---|---|
| `OneVisit` | `Spec => []NeverTwice` |
| `CapturesGivenBack` | `Spec => []CapturesUndone` |
| `BitmapIsEnough` | `Spec => []BitmapFits` |
| `ThreadsCounted` | `Spec => []RefsExact` |
| `StackIsEnough` | `Spec => []StackBounded` |
| `QueuesAreEnough` | `Spec => []QueuesFit` |
| `RoomIsEnough` | `Spec => []RoomForAll` |

*BitState.* A job is pushed, and a list entered, only when its bit was not set; so two places stand for different
visits, the job on the stack counted with all the positions its run covers, and the instructions of one list
as one visit (`Once`). The exception is the early exit at an `AltMatch`: it goes on at the end of the text with an
instruction that no bit stands for. That is harmless because this way leads straight to a match (`Sure`): nothing
on it can fail, so that the search ends before any other job is popped (`SureFirst`, `SkipsFirst`).
The registers need `UndoneIn`: the lowest job that restores a register has `NULL` for it, and a register
that no job restores is `NULL`.

*NFA.* `Held` counts for each thread the entries of both queues (from the iterator on in the queue that
`Step` goes through), the entries of `AddToThreadq`'s stack and the thread it works with; `Exact` says that this
is `ref`, and that the free list has the threads with none, each once. `Restores` says that the lowest entry
that brings a thread back brings back the caller's. What is on the stack never exceeds `Room`: one, and for each
instruction that is in the queue what entering it has pushed; the queue has each instruction once.

*DFA.* A queue has room for as many Marks as the program has instructions, and `Workq::mark` does not look. The
loop in front of the program adds a Mark each time it is entered, which is once for each queue, as a queue has an
instruction once; so making the queue of a state, running it again for new flags and running it on a
byte leave at most three more Marks than the state has (`Bound`). A state that is kept has at most one less than
heads: `Record` keeps a Mark only between two heads, and each has a head of its own behind it
(`MarksSpared`). With that loop two instructions are not among the heads of a queue, number 0 and the byte of the
loop, so that three more fit (`BoundIs`). A first match or anchored search has no Marks at all. For `AddToQueue`'s stack,
what is on it and the pushing instructions not yet in the queue never become more (`Depth`); that the loop
ends within `Turns` follows from the same kind of count (`LoopEnds`). `RunWorkqOnByte` moves its iterator by a hint
or to the end of a list without looking for the end of the queue: it stays in it, as an instruction in a queue has
all of its list behind it, each at a place of its own (`Whole`, `SkipStays`). The loops are functions over the number of turns;
`Iterates`, proved by a smallest counterexample, says that they are what their definitions say, and
`TurnsKeep`, `AllAdded` and `ByteFits` carry an invariant along them.

Model-checked only: `RefinesMatching`, whose promise is a search through all ways, recursion over the program and the text;
`Ends` (liveness).

## 7. The pipeline

### What the code does

A pattern is parsed with a stack of operands and pseudo-operators, and edited while it is: literals
are strung together, repetitions squashed, single runes collected into classes, alternations
factored in three rounds. The tree is simplified (neighbouring repetitions merged, counted ones
written out), compiled into fragments joined by patch lists (UTF-8 ranges as tries that share
suffixes through a cache), forward or backward, then optimized, flattened into lists, given hints, a
map of bytes to classes, and an automaton that looks for a required prefix.

### Modules

| Module | Contents |
|---|---|
| `Runes` | UTF-8, case folding |
| `CharClass` | classes and what is added to them, with the letter masks |
| `Regexp` | trees, their smart constructors, and `Whole`: what a tree matches, in order of priority |
| `Lexer` | groups, escapes, classes, repetition bounds, runes: what is read, and the errors |
| `Factoring` | the three rounds |
| `Parser` | `ParseState` with one action for each kind of piece of a pattern |
| `Printing` | `ToString`, `QuoteMeta` |
| `Simplify` | `CoalesceWalker` and `SimplifyWalker` |
| `Compiler` | `Compiler`: fragments, ranges, anchors, sets, the limit of instructions |
| `Flatten` | `Optimize`, `Flatten`, `EmitList`, `ComputeHints`, `ComputeByteMap`, the prefix |
| `Pipeline` | a pattern on its way: parse, then print and parse again, or simplify, or compile and finish |
| `MCPipeline` | patterns, each with the tree its author means and the texts to try it on |

`Whole` is written from what an operator means, without any of the rewriting, and the instances
build each pattern together with the tree that is meant by it (`Cat`, `Alt`, `Rep`, `Group`, ...). So a
pattern has a meaning that does not go through the code it is a test for.

| Property | What it says |
|---|---|
| `TypeOK` | stages, and classes that are disjoint, sorted and agree with their masks |
| `ParseRight` | what is taken is what is meant to be, and the tree matches, captures and prefers what the author means |
| `PrintedSame` | a tree that is printed and parsed again matches the same |
| `SimplifySame` | a simplified tree is simple and matches the same |
| `CompileSame` | so does the program, shared suffixes of bytes included; the backward one matches the same backward |
| `FlattenSame` | and the program in lists; its unanchored loop makes a search of it |
| `HintsRight` | what a hint skips could not have matched, and what it leads to is worth a try |
| `ByteMapSame` | bytes of one class are the same to every list |
| `PrefixRight` | every match begins with the required prefix, and the shift automaton finds the first |

`Flatten` has both colorings of the bytes as the code runs them. A coloring is a function whose keys are
the splits, so a color that is no longer at a split, which nothing reads, is not kept. `ComputeHints` goes
from the end of a list to its beginning: `Recolor` splits at `lo - 1` and at `hi`, `first` ratchets to the
least color met, and what is no `ByteRange` starts the coloring again. `Mark`, `Merge`, `RecolorFrom` and
`Build` are `ByteMapBuilder`, with `nextcolor` and the color map of a batch. `HintsRight` and
`ByteMapSame` speak of the finished program only, not of colors.

Where a loop goes round over something that can be empty, only the ends of matches are compared;
which captures a last, empty turn leaves is not.

### Runs

`pipeline` takes several hundred patterns: every repetition of every kind of operand, repetitions
next to each other, all pairs of sixteen and triples of seven alternatives, nesting, flags, escapes,
classes, groups of runes by name, Latin-1, options that change the syntax, texts in UTF-8 with runes
of two, three and four bytes and with bytes that are none, ranges that overlap in part or in the other
case (`Overlapping`), a class whose backward program must clone a shared suffix (`SharedSuffix`), patterns in error, programs with too little
room. Constants are scaled: `kMaxNsub` is 4 (65535), so that nodes are split; `MaximumRepeatCount` is 10
(1000). The tables of case folding and of groups are cut to the runes in use. Texts have up
to three letters, those for the shift automaton up to twenty: it looks at nine bytes. Deadlock is not
checked because a pattern's way ends.

`fold_merge` is an expected violation, see section 9.

Not modelled: the texts and arguments of errors; the conversion of a Latin-1 pattern to UTF-8;
walks on an explicit stack, which are recursive operators here; the height of stacks; `MimicsPCRE`.

## 8. The library

### Modules

| Module | Contents |
|---|---|
| `RE2Match` | `RE2`: `Match` with its choice of engines, `ReverseProg`, `DoMatch` and what is above it, `Replace`, `GlobalReplace`, `Extract`, `Rewrite` |
| `RE2MatchProofs` | proofs |
| `RE2Set` | `RE2::Set`: `Add`, `Compile`, `Match`, moving |
| `Prefilter` | what a text must contain for an expression to match; the nodes of many prefilters made unique, edges, pruning, propagation of atoms |
| `FilteredRE2` | `Add`, `Compile`, `FirstMatch`, `AllMatches`, `SlowFirstMatch`, moving |
| `Library` | an object, or a set, or a filter; `Init` of an object, with the required prefix |
| `MCLibrary` | instances |

The variables of `RE2Match` are those of an object (`object`, `isOnePass`, `rprog`) and the locals of
`Match` (`args`, `anchoring`, `skipped`, `match`), of `GlobalReplace` (`global`) and of a call
(`call`, `found`, `submatch`, `answer`). `SearchFromEnd`, `SearchForward`, `SearchForBegin` and
`SearchAnchored` are the branches of the search for where a match is, `SearchWith` runs an engine for
the submatches.

`RE2Match` is about any `Objects`, whatever their patterns mean (`Meaning`: the ways to match from a place
on, best first), and any engines (`AnswerTo`), if they are sound (`ObjectsFine`, see below). Engines are there by
what they promise, which is what section 6 shows of them, and a DFA may fail at any call (section 3): a failure is
a choice, as is the lack of room for the one-pass table. `Library` makes the objects from patterns: programs,
forward and backward, come from `Compiler` and `Flatten`, with room for a given number of instructions; `Meaning`
is that of the tree, and `AnswerTo` is `Best` of the compiled program. A set's DFA collects what section 3
shows it to collect, or fails. The caller of a filter, who looks for the atoms in the text in lower case, is external.

### Runs

`library`: 23 patterns with texts of up to three letters, in UTF-8 and Latin-1, for first and longest
matches, with anchors the parser left in odd places, with programs that fit, that fit forward only
and that do not fit; all calls, ranges, anchors, numbers of submatches and rewrites. Sets of up to
three patterns in every order, equal ones included; filters of up to three.

| Property | What it says |
|---|---|
| `AnswersRight` | whichever way the search takes, in whichever direction, through DFAs that fail, `Match` reports the match that is meant, in any part of a text; the calls above it what they store and consume |
| `ReplacedRight` | `GlobalReplace` replaces matches that do not overlap, none left out, no empty one next to the last; all else stays; `Replace` and `Extract` deal with the first |
| `SetRight` | a set finds what would match alone, by the numbers of `Add` |
| `FilterRight` | with a filter or without, the same patterns match |

The meaning of a pattern is again its tree's `Whole`. Bounds: `kMaxSet` and `kMaxFiltered` are three: any
three of the patterns of `MCLibrary`, so that two can share an atom that the third lacks; one text
for a set or filter, as asking changes nothing in it. Constants are scaled so that texts of three bytes reach every branch: `kSmallText` 2 (4096),
`kTinyText` 1 (16), `kBitStateInsts` 12 (512), `kBitStateBitmapMaxSize` 20 (256K), `kMaxParents` 1 (9),
`kMaxInfoVisits` 12 (100000). The run has about 735,000 states and takes about two and a half minutes.

`filter_pruned` has the real constants and one pattern of eleven alternatives; an expected violation,
see section 9.

### Proofs

`RE2MatchProofs` proves for any objects, texts of any length, calls and rewrite strings:

| Theorem | Statement |
|---|---|
| `MatchInvariant` | `MatchSpec => []MatchInv` |
| `AnswersAreRight` | `MatchSpec => []AnswersRight` |
| `ReplacementsAreRight` | `MatchSpec => []ReplacedRight` |

They rest on one assumption, `ObjectsFine`, which TLC evaluates in both runs for every object, text, range, kind and
number of submatches. It is what `Match` relies on and does not check:

* the ways that a pattern has end in the text, and so do their groups; there are none where the required prefix or the
  anchors of the program rule them out (`WaysFine`);
* engines, asked about a range of the text, find the leftmost match of the program in it, with the prefix
  put in front the match of the pattern (`ForwardFine`). This is `RefinesMatching` of section 6, and that the
  program does what the tree means, `CompileSame` and `PrefixRight` of section 7;
* the reverse program, asked from an end on for as much as it can get, finds the first place where a match
  with this end begins (`BackwardFine`);
* calls have sane arguments; no relation between positions and the text is assumed (`ShapeFine`).

It says nothing of how these answers are put together, and that is what the theorems add. The difficulties:

*Whatever Match turns down has no match* (`Rejected`): texts that do not begin with the prefix, ranges that do not
begin where an anchored program must.

*A search in steps finds what one search finds.* `SearchNow` says what is known at each place of `Match`: behind
the forward DFA, `match` ends where the best match ends (and not only some match); behind the backward one it is
the match without its prefix. That the leftmost start of any match with this end is the start of the leftmost
match, and that the engine, confined to exactly this range and made to match all of it, finds the same way, with
the same groups, as the search of the whole text, are `BackwardFinds`, `FromEndFinds` and `FullFinds`; the
last one needs that the best way is the first of those that end where it ends, for first and for longest matches.
When a DFA fails nothing may be left of what was known: `skipped` makes the engine search the whole range.

*GlobalReplace.* `LoopIs`: the pieces so far are the matches that are meant, in order and none left out between
them; places from the end of the last piece up to `p` have no match, or only the empty match that is passed over;
`out` is the rewritten text up to `p`. The loop skips exactly what `Passed` allows because an empty match is passed
over only at the end of a piece, where `lastend` is; a search that starts further on has the same ways
(`GlobalArgs`), so that the last failing search says that nothing was missed (`LoopEnds`). Texts are pieced
together by lemmas about `FlattenSeq` (`FlattenAppend`), whose recursive function is shown to be what its definition
says by a smallest counterexample (`FlatExists`), as `Tokens` is (`ReadExists`).

Only model-checked: `SetRight` and `FilterRight`, which compare trees, programs and atoms by recursion. `FilterRight` is
false for some constants (section 9).

Not modelled: conversion of arguments to numbers, of which a call sees only that one fails; names of
groups; histograms; `PossibleMatchRange` above the DFA's walk; logging; calls that the code rejects.

## 9. Disagreements between the code and its documentation

Each of the first three has a run that is expected to violate a property.

* `backward_slow`. `dfa.cc:1440` subtracts `resetp` from `p` and casts to `size_t`. In a backward scan
  `p` is below `resetp`, the difference wraps to a huge number and is never less than ten bytes per state:
  a backward search resets the cache as often as it likes, although the comment before it says that it
  fails so that RE2 can fall back to the NFA.
* `fold_merge`. `parse.cc:242` says that `[Aa]` can be rewritten as a literal with ASCII case folding.
  When such a literal meets others in an alternation, Round 3 of the factoring (`parse.cc:1210`) adds
  it to a class by the Unicode tables: `[Kk]|x` also matches the Kelvin sign, which `[Kk]` does not.
* `filter_pruned`. `filtered_re2.h:85` guarantees that a regexp which does not pass the filter does not
  match. `PruneNode` (`prefilter_tree.cc:256`) cuts the edges of children with many parents; with few
  regexps it can cut all edges of an AND, which is then never triggered, and a match is lost.

Met on the way, without a run:

* `prog.h:319` says that a set's ids are those of the final matching state. The loop inserts those of every
  matching state it passes, which is what `RE2::Set` wants.
* `sparse_array.h:67` describes a representation that sorting with the class's own comparison breaks
  (`:177`, `:387`). `Prog::Flatten` sorts only what it then iterates.
* The comments of `mem_budget_` and `state_budget_` (dfa.cc:339-340) are exchanged. `Workq::mark` never
  sets `last_was_mark_` again after `clear`. Both without consequence.
* `never_capture` keeps `(a)` from capturing but not `(?P<n>a)`.
* `ParseUnicodeGroup` does not notice that `StringViewToRune` failed.
* With flags that lack `ClassNL`, Round 3 drops a literal newline; `RE2` always sets the flag.
* `x{0}` drops the groups in `x` from the program, though they are still counted.
* `RE2::Set::Match` after a `Compile` that failed uses a program that is not there.
* `FilteredRE2::Add` does not check that `Compile` has not been called yet; before `Compile`,
  `AllMatches` finds nothing.

## 10. What is proved and what is checked

Proved for all values of the constants that the named assumptions admit (ends of sections 3 to 6, and of 8):

* `DFACacheProofs`, `DFASearchProofs`: every safety property of the cache, the accounting of memory, and that
  searches over the shared cache implement undisturbed ones;
* `SparseArrayProofs`: everything its run checks, the refinement included;
* `RegexpRefsProofs`: every safety property, nothing leaks included;
* `BitStateProofs`, `NFAProofs`, `DFAStatesProofs`: the visits, captures and bitmap of the backtracker, the counts
  and the stack of the NFA, the queues of the DFA and their stack: every invariant of the engines that its run
  checks;
* `RE2MatchProofs`: that `Match` and all calls above it answer what the pattern means, given engines that do.

TLC alone checks:

* liveness: `EveryCallReturns`, `DestroyEnds`, `Ends`; the prover has no fairness;
* what rests on recursion over data: `RefinesMatching`, all of `pipeline`, `SetRight` and `FilterRight` of
  `library`. What these say compares two functions that walk a tree, a program or a text, and the induction theorems of the library cannot be
  instantiated by the provers at hand. Where one descent was enough (sums, ways that are sure
  to match, loops that take their turns) it is done with a smallest counterexample; here every lemma would be one.

## 11. Not modelled

The DFA's test interface, the Unicode and Perl tables (generated; runs have the parts they need as
constants), `MimicsPCRE`, number parsing, `strutil.cc`, the PCRE wrapper used in benchmarks, language
bindings, demos, fuzzers and tests have no state or no logic of the library. `SparseSet` is `SparseArray`
without values; `Bitmap256` (a set of bytes in `Flatten`) and `once` flags are taken to be what they
promise. How `max_mem` is divided in bytes is not modelled; that any part of it may be too small is.
