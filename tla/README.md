# lr-experiments: an LALR(1) parser generator, specified and verified

The program reads a grammar file, builds LALR(1) tables and writes a C parser.
It is sequential C, about 2900 lines; what makes it hard is not concurrency but
worklists threaded through the data they work on, hash tables keyed by
addresses, relations solved by a one-pass SCC algorithm, ordered merges, and a
generated stack machine whose correctness depends on all of these at once.

## 1. Inventory

| component | source | state it keeps | operations |
|---|---|---|---|
| lexer | `yy.rl` | scanner, level of braces, position | `parse_file` feeds tokens to the grammar-file parser |
| grammar-file parser | `bnf.ly`, `bnf.lt` (lemon template) | lemon's stack of references to strings and arrays | `Parse` for each token; calls the `grammar_*` operations |
| grammar store | `grammar.c`, `grammar_i.h`, `strhash.c` | symbol table, symbol list, rules, start symbol, strings for the code generator | `grammar_symbol`, `grammar_nonterminal`, `grammar_start_symbol`, `grammar_assign_*`, `grammar_deduce_type`, `grammar_complete` |
| nullable search | `nullable.c` | `nullable` flags, `nnl` of rules, queue, relation lists | `nullable_find` |
| LR(0) automaton | `lr0.c`, `lr0_i.h` | list of states, hash buckets, gototabs | `lr0_build`, `lr0_closure`, `lr0_goto_find` |
| LALR(1) lookaheads | `lalr.c` | nonterminal transitions, relations reads / includes / lookback, reducetabs | `lalr_reduce_search` |
| digraph traversal | `lalr.c` (`traverse`, `digraph`) | ranks, node stack, sets | solves set equations over a relation |
| bit sets | `bitset.c` | words of bits | `set_add`, `set_has`, `set_union`, `set_size` |
| conflicts | `conflict.c` | none | merges the two tables of every state |
| code generator | `codgen.c`, `template_c.c` (embedded as `blob_c.c`) | none | writes the tables, a function for each rule, the cases of `__reduce` and the template |
| generated parser | `template_c.c` | parser state, stack of states and items | `parser_parse` for each token |
| support | `rc.c`, `array.c`, `strarr.c`, `common.c`, `print.c` | reference counts, growable arrays, print options | `rcalloc`/`rcref`/`rcunref`, `array_push`, `strarr_push`, `lsort`, `print_options` |
| build and demo | `Makefile`, `genblob.c`, `demo/`, `bnf.vim`, `test/` | none | embedding the template, an example caller, test grammars |

The components run one after the other (`main.c:45-57`): the lexer drives the
grammar-file parser, which calls the grammar store; `grammar_complete` ends with
`nullable_find`; `lr0_build` reads the completed grammar; `lalr_reduce_search`
reads grammar, nullable flags, `nnl` and the automaton and adds reduce tables;
`conflicts` and the code generator read everything. They share one heap of
symbols, rules and states that later passes annotate through `tmp` fields.

What is hard, and what makes each component correct:

* *nullable search*: the intrusive lists must never hold a node twice; the flags
  must be exactly the nonterminals that derive the empty string; `nnl` is read
  later as the non-nullable length of a rule.
* *LR(0) automaton*: the hash uses rule addresses, so order and collisions vary,
  and the automaton must not; gototabs must be sorted and exact because a binary
  search result is dereferenced unchecked; states 0 and 1 have fixed meanings;
  the closure buffer has no bound check.
* *lookaheads*: the traversal must solve the set equations, strongly connected
  components included; the merge in `lalr_state` expects two orders to agree.
* *grammar store*: each symbol listed once, `%eof` 0, terminals before
  nonterminals, `%start` last: ids index every later table.
* *conflicts and code generator*: tables are merged side by side in the order of
  symbol ids; a row of C is written by counting columns.
* *generated parser*: the stack is an array above whose top old records stay
  readable; no pop below its base, every value in its place, sentences accepted.
* *symbol table*: one item for a name, reachable in the chain it is searched in.
* *lexer, grammar-file parser and its reference counts*: every string and array
  that a lemon action takes is released once; host code ends at the brace that
  closes it; the store is told what the file says; what is accepted is a sequence of rules.
* *code of the rules*: every value is given to the label of its place, or destroyed.
* *list sort*: an order that changes its sign from level to level ends ascending.
* *build tool and demo*: the exit code tells the truth; every line is done with.

Nothing runs concurrently and nothing is persisted: there are no crashes,
messages or timeouts to model.

`PROJECT.json` lists the hazards with their lines.

## 2. Modules

| module | models | of |
|---|---|---|
| `GrammarData` | a completed grammar as data, and the shape every pass relies on (`IsGrammar`) | `grammar_i.h` |
| `Completion` | `grammar_complete` as a function of the productions | `grammar.c` |
| `GrammarStore` | symbols and rules while a file is read, then `resolve_symbols`, `determine_start`, `add_sentinel_rule`, `count_symbols` step by step | `grammar.c`, one action of `bnf.ly` |
| `GrammarText` | the strings of the store, their copies and their release | `grammar.c` |
| `Blocks` | reference-counted strings and growing arrays, as operators on a heap | `rc.c`, `array.c`, `strarr.c` |
| `BnfParser` | every action of the grammar-file parser under lemon's driver, and who owns what | `bnf.ly`, `bnf.lt` |
| `BnfGrammar` | what lemon's tables do: which stacks can begin a file (recursive) | - |
| `Reader` | the two scanners, feeding `BnfParser` | `yy.rl` |
| `StrMapAbs`, `StrHash` | the map that `strhash.h` promises, and the chained table | `strhash.c` |
| `NullableAbs`, `Nullable` | the promise of `nullable_find`, and its worklist step by step | `nullable.c` |
| `Items` | LR(0) items and `lr0_closure`, shared by `lr0.c` and `lalr.c`; the shape of a finished automaton (`IsAutomaton`) | `lr0.c` |
| `LR0Abs`, `LR0` | the canonical collection, and `lr0_build` step by step | `lr0.c` |
| `Digraph` | `traverse` and `digraph` with explicit call frames, on any relation | `lalr.c` |
| `LALR` | `lalr_reduce_search`: relations, `Digraph` twice, reduce tables | `lalr.c` |
| `LalrReference` | LALR(1) lookaheads and sentences by their definitions, as least sets (for comparison) | - |
| `ListSort` | `lsort`, whose result `LALR` uses | `common.c` |
| `Bitset` | words, int-wide masks and field-wise counting | `bitset.c` |
| `Output` | conflict messages and the two tables | `conflict.c`, `codgen.c` |
| `ReduceCode` | the functions and cases made of rules, run on a stack of values | `codgen.c`, `template_c.c` |
| `Generator` | `Nullable`, `LR0`, `LALR`, `Output` composed | `main.c` |
| `Parser` | the generated parser | `template_c.c` |
| `System` | `Generator`, then `Parser` on its tables | `main.c`, `demo.c` |
| `GenBlob` | the build tool, each of its library calls failing or not | `genblob.c` |
| `Demo` | the loop of the example caller over a line | `demo/demo.c` |
| `TestGrammars` | grammars of `test/`, odd ones, and all small ones | `test/` |
| `ListLemmas` | lemmas on lists, numbers of symbols, induction and recursion | - |
| `NullableProofs`, `LR0Proofs`, `DigraphProofs`, `GrammarStoreProofs`, `StrHashProofs` | theorems about the module of the name | - |
| `GeneratorProofs`, `SystemProofs` | theorems about the passes composed (with `LALR` and `Output`), and about generator and parser (with `Parser`) | - |
| `MC*` | instances for TLC | |

One action stands for one turn of a loop or one call; `pc` holds the place
between the loops.  Pointers are ids, linked lists are sequences with the head
first, `tmp` unions are variables of their own.  A right side is a sequence of
symbols; `rulesOf` is the list of a symbol's rules in the order of the list.
Every module carries, next to the action they alter, mutated forms of some
actions (`Reduce_Above`); they are not part of any specification.

`Generator` extends `Output` and has an instance of each earlier pass; they share
`gram`, `nullable`, `nnl`, `states` and `rtab`: each pass reads the variables that
the pass before has written, exactly as the C passes share the heap.  `System`
extends `Parser` and has an instance of `Generator`; the parser's tables are the
arrays that `Output` has written.  Two ghost variables, `sentences` and `clean`, are
computed once when the output is compiled.  Extending keeps the properties of
`Output` and `Parser` the very formulas that the theorems are about.

`Reader` extends `BnfParser`, which extends `Blocks`: a piece of the file becomes a
token with a new string, and the parser reduces until it has shifted the token.
lemon's tables are not in the repository; `BnfParser` takes a predicate on the
symbols of the stack instead (`Viable`), which `BnfGrammar` defines from the rules
of `bnf.ly`.  The heap hands out the lowest free address, so that an address that
was released too early is soon somebody else's.  What the actions tell the store
is kept in `calls`; `GrammarStore` and `GrammarText` have these operations.

Parts that do not interact share a run: `MCTexts` and `MCUtilities` have a variable
`part` that picks one of their components, and the others rest.

## 3. Runs

| run | instance | what it shows |
|---|---|---|
| `nullable` | 17 test grammars, 6 odd ones, all 2048 grammars of three productions over two nonterminals and a terminal | flags exact, `nnl` exact for rules that need it, intrusive lists sound, refinement of `NullableAbs`, termination |
| `nullable_nnl` | the same | *violated*: `nnl` is not the non-nullable length for every rule |
| `lr0` | test and odd grammars, two buckets; for four small ones every map from rules to buckets, for the others two | kernels unique and the result canonical, whatever collides; tables exact and sorted, closure within its buffer, states 0 and 1 reserved, termination |
| `digraph` | every relation over three nodes with lists in every order, every loop-free one over four | sound; each pop takes a component off, its root solved; stack discipline; termination |
| `texts` | files of up to seven pieces (two names, a run of text, five pragmas, braces); up to three calls of the store over two names and two texts; every rule of up to two symbols with every choice of labels, four values | strings and arrays released once; calls mean what the file says; accepted exactly if what was read is a sequence of rules; strings kept and freed once; values used once |
| `utilities` | 64-bit words, 32-bit int, numbers around bits 0, 30, 64, 94 and the capacity; lists of up to seven nodes; inputs of up to five bytes, read two at a time; lines of up to four characters | bit sets are sets; lists sorted; genblob ends and reports truly; every line ends |
| `bitset_symbols` | 33 symbols | *violated*: size differs from the number of members found |
| `grammar_store` | three names, up to two rules, every order of declarations | list sound; completion ends in the grammar as defined or in the only possible crash |
| `strhash` | four names, two buckets, every hash function | one item per name, chains exact, refinement of `StrMapAbs` |
| `generator` | the grammars of `nullable` | lookaheads sound, tables sorted and in step with the items (`Tables`); lookaheads complete outside three weaknesses; messages and arrays exact, and the arrays follow the automaton (`GuidedBy`) |
| `system` | seven clean and four other grammars, every sequence of up to five tokens | acceptance; only sentences accepted unless there are empty rules, conflicts or not; values, no underflow, calls return |
| `system_empty` | `test/ll1-lalr1-0.grammar` | *violated*: the sentence `id` is rejected |

*Bounds.*  Three productions with right sides of up to two symbols are enough for
direct and indirect recursion, empty rules, cycles of `reads` and `includes`,
both kinds of conflict, undefined and unused nonterminals; the odd grammars add
what they cannot show (a completed item behind one of greater id, nested
nullable right sides, a component of two transitions).  Three nodes give every
shape of nested and crossing components to `Digraph`, the fourth cycles that
share a node.  Five tokens include the end of input: every shape of a sentence
of the grammars chosen occurs, and a sentence behind a token that does not fit.
Eight reductions in a call are more than any clean grammar of the run makes.
Both hash tables have 256 buckets in the code; two, four and eight make
collisions likely.
The word sizes of `Bitset` are the real ones.  Seven pieces are a rule with a
label on either side, a rule with an array that grows twice (an array has room for one element at
first, for 32 in the code), a `%fallback` of four words, host code with braces
nested three deep, or two short rules; each can be cut after every piece.  Seven
nodes take the sort three levels down, with equal keys.  Of the two reads of
`genblob` that matter, a full and a short one, five bytes need three.

*Fairness.*  The code is sequential and no loop waits for anything, so each
component has weak fairness of its own step: a call once made goes on until it
returns.  `System` assumes it only for a call of the parser in progress; the
caller need not call.  `Generator` has no fairness and checks deadlock instead: no
pass is stuck before the end, and what `Finished` adds is only that the end is
no deadlock.  Of the other runs that turn deadlock off, `nullable`, `digraph`, `lr0` and
`grammar_store` end in `pc = "done"` (or `"crash"`), `texts` ends with its file or at
its bounds, and `utilities` when its part has run to its end.  `GenBlob` and `Demo`
are sequential too and wait for nobody: weak fairness of their steps.  Nothing
says that a failing read is ever repaired, so `EndsAsReported` allows for it.

## 4. What the runs found

* `nullable.c:34`: a rule whose left side is already known to be nullable is
  dropped before its `nnl` is brought up to date.  `lalr.c:196` then misses
  includes edges and lookaheads (`nullable_nnl`).
* `lalr.c:220`: the other members of a component are popped without the set of
  its root.  On `G_twofold` - no conflict, no empty rule - a completed item has
  no lookahead at all and sentences are rejected.
* `lalr.c:258`: completed items are visited in closure order, lookback entries in
  order of rule ids, in one pass; an item whose rule id is smaller than that of
  one before it gets nothing.
* `bitset.c:46,57`: the masks are int shifts; grammars of 33 symbols run into the
  assertions at `lalr.c:272,279` (`bitset_symbols`).
* `template_c.c:58`: after an empty rule the state is read from a record above the
  stack (`system_empty`).
* `template_c.c:70`: a token that does not fit is not an error: the parser stacks
  it and goes on in state 0.  `AcceptsOnlySentences` says what is left of the
  promise.
* `grammar.c:372`: a grammar whose nonterminals are all used and that names no start
  symbol dereferences NULL (`CompletesAsDefined`: nothing else does).
* `codgen.c:235`: a row is shifted right behind a reduce-reduce conflict, and
  `main.c:51` goes on in spite of it.
* `yy.rl:70`: a character that begins no token ends the file, and so do the end of
  the 1 MB buffer and a read error.  The rules in front of it make a grammar and no
  message is given.  `AcceptsRulesOnly` says what is left of a guarantee: the text in front
  is a sequence of rules, told by a definition of its own (`AreRules`), or it is refused.  A
  cut inside a rule is therefore noticed, save one: right in front of the brace of its
  host code (`bnf.ly:122,184`; `%syntax_error` likewise), where the code is lost in silence.
* `codgen.c:161`: a rule without host code, or without a label on its left side,
  makes no value.  What an earlier step left above the stack becomes the value of
  its left side and may be used or destroyed a second time; the values of a rule
  without code are never destroyed.  `ValuesUsedOnce` states what holds otherwise.
* `genblob.c:106`: `fread` is never negative, so a read error is taken for a short
  read; if it persists the loop does not end.  `genblob.c:139`: errors that only
  `fclose` sees do not change the exit code.
* `demo/demo.c:94`: a point without digits is handed to the parser for ever.

`LookaheadsComplete` states completeness with the first three as provisos; each
of them is needed, dropping any one is refuted by a grammar of the instance.

## 5. Proofs

All theorems hold for every value of the constants.  What they assume is named
here; a hypothesis that is a result of another pass is a conjunct of the module's
`Spec`, or stands in front of the theorem.

**Nullable** (`NullableProofs`; assumes that `Grammars` are grammars).
`TypeCorrect`, `ListsSound`, `Exact`, `NnlExact` are the safety properties of the run;
`Implements`: every step is a step of `NullableAbs` or a stutter.
The flags being exact is not inductive: that no more symbols are nullable follows
only because every rule that could still make its left side nullable waits for
a symbol at its `nnl` (`Waiting`), and a nullable symbol for which rules wait is
still queued or being drained (`Pending`).  `IInv` adds that only scanned rules are
filed, that what `nnl` leaves out is nullable (`Shortened`), and that the flags are
in every closed set (`Justified`).

**LR0** (`LR0Proofs`; assumes that `Grammars` are grammars with finitely many rules
and `%eof` only at the end of rule 0, and that there is a bucket).
`KernelsCommittedOnce`, `GototabsAreExact`, `ClosureFitsBuffer`, `StatesReserved` are
the safety properties of the run, for every map from rules to addresses;
`CollectsCanonically`: every step is a step of `LR0Abs` or a stutter.
Kernels are unique because every state but 0 is filed in the bucket of its kernel
(`Filed`): a search that finds nothing means there is nothing.  The gototabs are
exact because the buffer, while `lr0_closure` fills it, is always between kernel and
closure and closed under the points already passed (`BufferOf`), so that it ends
as the least closed set; and because the symbols still to be committed all have
greater ids than those committed (`Committed`).

**Digraph** (`DigraphProofs`; assumes that the lists hold nodes).
`StackDisciplined`, `OnlyReachable` (no set holds anything that no reachable node
brought) and `PopsComponents` (every pop takes one component off and its root has
the solution) are the safety properties of the run, for every relation.
Where the program is known to fail, for the *other* members of a component, the
theorem says nothing, as the property does.  The invariant: the nodes with a rank
are the stack's and the finished ones (`Stacked`); frames lie on the stack in the
order of the calls (`Called`); every place on the stack reaches that of its rank
and is reached from the frame below it (`Linked`); a frame's set has all that is
above it on the stack up to the next frame, except what waits for the return of
its last call (`Gathered`, `ReadsKept`); and what was popped is closed under the
relation (`Popped`).  That a node not yet popped reaches the root when the root is
popped is shown by the least place that does not (`NatLeast`).

**GrammarStore** (`GrammarStoreProofs`; assumes only that the three distinguished
symbols are not among the names).
`ListsSymbolsOnce` is the property of the run.  `CompletesToGrammar`: what
`grammar_complete` leaves satisfies `IsGrammar`, the shape that the theorems about
the later passes assume.  `CrashesOnlyWithoutStart`: the only NULL dereferenced is
that of a start symbol neither named nor found.  `resolve_symbols` walks a list while
it puts symbols in front of it, so the invariant (`Resolving`) counts places
from the end; after it every right side is known (`Resolved`).  That the start
symbol found is one no rule uses needs that what has been counted is used
(`Counted`, `NoCandidate`).

**StrHash** (`StrHashProofs`; assumes only that `Nil` is none of the data).
`TypeCorrect`, `Unique`, `Chained`: types, one item for a name, chains exact;
`Implements`: the table is the map of `StrMapAbs`.
That a name has one item is not inductive: a search that finds nothing must mean
that there is nothing (`NoPlaceNoItem`), which holds because every item hangs in
its bucket's chain.  The refinement needs that the item returned is that of the
name asked for (`Answered`), and that the payload of a name, which the map picks with
CHOOSE, is the payload of its only item (`MapAt`).

**Generator** (`GeneratorProofs`; assumes of `Grammars` and the number of buckets what
`LR0Proofs` assumes, and nothing of any table).
`FindsOnlyLookaheads`, `ConflictsReported` and `ArraysAreFaithful` are three of the four
properties of the run `generator`, for every grammar and every map from rules to
addresses.  The passes run one after the other, and the invariant (`GenInv`) is
that chain: the invariants of `NullableProofs` and `LR0Proofs`, whose modules are
instances here, hold and go on holding while a later pass leaves their variables
alone; from them follow, once a pass is done, exact flags (`EmptinessIs`) and an
automaton with the closures of its kernels and exact gototabs (`AutomatonBuilt`, which
`LR0Proofs` proves with the invariant `LedTo`: every state but the first two is the
target of an earlier one); with these begins the search of `lalr.c` (`SearchInv`), and
with its tables the output (`OutputInv`).

*The search for lookaheads.*  `SearchInv` says that nothing wrong is ever in a relation
or set: an element of a transition's set is readable behind it while `reads` is
joined (`Readable`), and one that can follow it afterwards (`Followed`); an edge of
`reads` leads over a nullable nonterminal (`ReadsSound`), one of `includes` to a transition
whose followers follow this one too (`IncludesSound`), and what a state looks back to
is where the rule's walk began (`LookbackSound`).  What follows a transition is
stated of the reference: `<<q, item, a>>` is in `Follows` for an item of `q` with the
nonterminal behind its dot.  Walking the rule from `q` carries the item and its
lookahead along the path (`PathFollows`); behind `nnl` all that remains is empty, which
is where `Shortened` of `NullableProofs` is needed.  That digraph is in the middle of a
component at any time does not matter for this half: it only ever joins along
edges.  The tables are sorted because their rows come in the order of the symbol
list (`RowsJoined`, `RowFacts`).  Completeness is another matter: digraph and the ordered
merge lose lookaheads (section 4), and the run says under which provisos they do not.

*The output.*  The walk of `ishift` misses nothing because the place found
for one entry is before or at the place of the next (`PlacesFound`); two reductions
on a symbol are neighbours because the ids between two equal ids are equal
(`NeighboursMeet`); a row's columns are the ids while these grow (`RowFaithful`), and
whatever they do, it holds nothing but its entries (`RowHolds`).  `HandsOver` sums up what the
generator leaves to the parser: arrays of the right size that follow the automaton.

*A finding.*  The first form of `LalrReference` let a terminal follow an item only
through symbols that derive something.  In a grammar with a nonterminal that derives
nothing (`G_unproductive`: `S ::= A B`, `A ::= C d`, and `B` has only `B ::= B b`), `lalr.c` still
gives `C`'s rule the lookahead `d`, and the property was false: the proof of `PathFollows` did not go
through.  A state that expects a symbol expects it whether or not anything can come
behind, so every item a state has is in `Follows` now with the mark `Nil`, and the grammar
is one of the odd ones of the runs.

**Parser and System** (`SystemProofs`).
First `Parser` alone, from any grammar and any two arrays of the right size (`AreTables`).
`KeepsValues`: the items on the stack, joined, are the tokens handed over, with empty
rules and with any tables.  For grammars without empty rules (`EpsilonFree`) and
tables that follow some automaton (`Guided`):
`StackSuffices` (no pop below the base) and `AcceptsOnlyDerived` (true is returned only
when the tokens end in a word that the goal derives, and `%eof`).
Conflicts and lost lookaheads are allowed: a token without an action is stacked with state
0, where everything begins anew.  The invariant (`SentencesInv`): each state on the stack is 0 or was
reached by a transition from the state below on the symbol that derives the item
between them, so that a completed item has all of its right side below the top
(`PathBack`).  Empty rules break it (`template_c.c:58`).

Then `System`, on the assumptions of `Generator` and one of the model's bound, that it
leaves room for two tokens (`TokensAssumption`): `SystemKeepsValues`,
`SystemStackSuffices`, `AcceptsSentencesOnly` and `SystemAcceptsSentences` state all four
invariants of the run `system`, `ValuesInOrder`, `NeverUnderflows`, `AcceptsOnlySentences`
and `AcceptsSentences`.  The invariant (`SystemInv`) is `GenInv` of an instance of `GeneratorProofs`, and once the output is
compiled the two invariants of the parser, which begin to hold by `HandsOver`.
Derivability is a closed-set notion (`Derives`), the property is stated with the
sentences `LalrReference` lists up to a length; `SentencesFacts` shows that a derived
word of that length is among them: the pairs of symbol and word listed are a least
set, closed under joining what the symbols of a rule derive (`JoinedGrows`).

*Sentences are accepted.*  That a parser does not go wrong is shown of the stack; that it
gets through is shown of the tokens to come.  `Accepts(z, u)`: with states `z` on the stack the
tokens `u` are accepted, the least set of such pairs that is closed backwards under the
parser's moves (`Leads`).  If the tables have no conflict and lack no lookahead (`Directed`,
which `Directs` of `GeneratorProofs` gives), then, where a symbol is expected, any word it
derives is read as that symbol: whatever is accepted behind the goto on the symbol is
accepted behind the word (`Reads`).  This goes by induction over derivations:
`ReadsRule` reads the words of a right side one after the other, each state on the way
expecting the next symbol, and then reduces by the rule, because the token ahead
follows its item; `ReadsDerived` draws the conclusion for all that is derived, and
`AcceptsGoal` for what the goal derives and `%eof`.  The invariant (`ReadyInv`) says that what
is missing from the tokens so far to a sentence is accepted from the states on the
stack: a move keeps it because the moves are determined (`ReadyNext`).  That the listed
sentences are derived is `SentencesOnly`.

**Recursion.**  The library's induction theorems have a predicate as parameter, which
no backend can instantiate.  `ListLemmas` states induction with a set (`SetInduction`,
from well-foundedness of finite sets) and proves that a first value and a step from
value to value define a sequence (`StepsExist`).  With these, what the recursive
functions of the model compute is proved: the places of `ishift`, the columns of a
row, the flattening of sequences, the sorted list of a set, the walk along a right
side, the one pass over lookback lists.  The least sets of `LalrReference` are
recursive functions over the subsets of a finite set, which add consequences until
there are no more; `GrownExists` and `GrownFacts` of `ListLemmas` prove, by induction over
what is missing, that such a function exists and that its value is closed and least.

**Only model-checked.**  Liveness (`Terminates`, `CallsReturn`, `EndsAsReported`,
`LineEnds`, and the fairness part of `Refines`), which needs ENABLED.  What reaches a
RECURSIVE operator (`BnfGrammar`, `Reader`): `BlocksSound`, `CallsMeanSource`,
`AcceptsRulesOnly`.  `StringsKept` and `ValuesUsedOnce`, for which no proof has been attempted.
`LookaheadsComplete`, whose provisos speak of components of the relation and of where empty
rules are; `SystemAcceptsSentences` is therefore a theorem about the grammars for which the
lookaheads are complete, which is a part of `clean`.
That completion gives exactly the grammar of `Completion` (`CompletesAsDefined`), which
filters and flattens whole lists.  `Bitset`, whose arithmetic is powers of two and remainders,
and `ListSort`, whose recursion on halves of a list needs induction over data.

## 6. Not modelled

* allocation failure, which aborts nearly everywhere.  `array_push` raises the size
  before the reallocation that may fail, and its destructor then reads behind the
  array: the behaviour is undefined at once and nothing is left to state.
* characters: the scanner's lexemes are pieces, and a run of other text is one piece.
  lemon's own stack of 100 places (all lists of `bnf.ly` are left-recursive, so that
  few are used) and its tables, which are generated.
* in `codgen.c` and `grammar.c` what is only text: names, types, the destructors' `$$`, the
  lines of the template, the dumps.  `System` runs rules as having host code with all
  labels; what other rules do to values is `ReduceCode`'s.
* `strhash_free`, `strhash_iterate` and the other functions that only free or print.
* `print.c`: its flags are set once, by `print_options("all")`, and only decide what is
  printed.
* `main.c`: the command line; `fopen` of the outputs, which is not checked (line 53).
* `Makefile`, `bnf.vim`, `demo.yy`, `democ.yy`; `blob_c.c` is `template_c.c` in bytes.

## 7. Plan

The order of work, the most important behaviour first; 1 to 11 are done.

1. `GrammarData`, `Completion`, `TestGrammars`, `NullableAbs`, `Nullable`; proofs of `Nullable`.
2. `Items`, `LR0Abs`, `LR0`.
3. `Digraph`, `Bitset`, `GrammarStore`.
4. `LALR`, `LalrReference`, `Output`, composed in `Generator`.
5. `Parser`, composed with `Generator` in `System`.
6. `StrMapAbs`, `StrHash`; proofs of `StrHash`.
7. `Blocks`, `BnfParser`, `BnfGrammar`, composed in `Reader`; `GrammarText`.
8. `ReduceCode`, `ListSort`.
9. `GenBlob`, `Demo`.
10. Proofs of `LR0`, `Digraph`, `GrammarStore`, `Parser`.
11. Proofs of `Generator` (with `LALR` and `Output`) and of `System`: the chain from
    `GrammarStore` to the parser has no link that is only checked, save that
    `grammar_complete` and the passes behind it are two state machines:
    `CompletesToGrammar` gives what `GrammarsAreGrammars` assumes.

What is left:

12. Proofs that lookaheads are complete (`LookaheadsComplete`), of `GrammarText`
    (`StringsKept`: one owner for each block) and of `Bitset` (`BehavesAsSet`).
