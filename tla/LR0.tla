-------------------------------- MODULE LR0 --------------------------------
(***************************************************************************)
(* lr0.c: lr0_build, which constructs the LR(0) automaton.  States are put *)
(* on a list as they are found and the list is walked to its end; a kernel *)
(* found again is recognised through a hash table, whose hash is made from *)
(* the addresses of the rules.  An item ("point") is <<rule id, position>>.*)
(*                                                                         *)
(* A kernel is kept as the set of its points: the array is sorted before   *)
(* it is compared or walked, so the set determines it.  states[i] is the   *)
(* state with id i - 1.  A bucket without states is not in DOMAIN buckets. *)
(***************************************************************************)
EXTENDS Items, FiniteSetsExt

CONSTANTS
  Grammars,       \* the completed grammars the program may be run on
  MaxBuckets,     \* size of the hash table: 256 in the code
  AddrMaps(_)     \* for a grammar, the addresses its rules may get, mod MaxBuckets

ASSUME MaxBucketsAssumption == MaxBuckets \in Nat \ {0}

(***************************************************************************)
(* grammar_complete gives %start its one rule, whose second symbol is the  *)
(* only place where %eof occurs: it asserts that no rule mentions %eof.    *)
(***************************************************************************)
ASSUME GrammarsAreGrammars ==
  \A g \in Grammars :
    /\ IsGrammar(g) /\ IsFiniteSet(RuleIds(g))
    /\ Length(g, 0) = 2
    /\ \A r \in RuleIds(g) : \A i \in 1..Length(g, r) : Rhs(g, r)[i] = Eof <=> r = 0 /\ i = 2

VARIABLES
  gram,           \* the grammar; no action changes it
  addr,           \* rule id |-> address of the rule
  pc,             \* "build", "closure", "commit" or "done"
  states,         \* the list of states
  buckets,        \* hash |-> ids of states, latest first
  cur,            \* id of the state being closed
  closure, ir,    \* lr0_closure's buffer and read position; Len(closure) is iw
  todo,           \* lr0_goto's scratch: the symbols whose state is yet to be committed
  go              \* the gototab being filled

vars == <<gram, addr, pc, states, buckets, cur, closure, ir, todo, go>>

-----------------------------------------------------------------------------
(* Kernels and their hash table.                                           *)

\* lr0_hash_state when a is addr: 177 is 2654435761 modulo 256.
HashOf(a, k) == (177 * MapThenSumSet(LAMBDA p : a[p[1]] + p[2], k)) % MaxBuckets
Hash(k) == HashOf(addr, k)

Bucket(h) == IF h \in DOMAIN buckets THEN buckets[h] ELSE << >>

NewState(sym, k) == [sym |-> sym, kernel |-> k, nclosure |-> 0, go |-> << >>]

\* Mutant: only the head of the bucket is looked at.
Matches_Head(k) ==
  {n \in 1..Len(Bucket(Hash(k))) : n = 1 /\ states[Bucket(Hash(k))[n] + 1].kernel = k}

\* The places of k's bucket where a state with kernel k is.
Matches(k) == {n \in 1..Len(Bucket(Hash(k))) : states[Bucket(Hash(k))[n] + 1].kernel = k}

SymId(x) == CHOOSE n \in 1..Len(gram.syms) : gram.syms[n] = x

\* Mutant: the comparison is the wrong way round.
First_Reversed(S) == CHOOSE x \in S : \A y \in S : SymId(y) <= SymId(x)

\* The symbol of S that qsort with cmp_goto puts first: the one with the least id.
First(S) == CHOOSE x \in S : \A y \in S : SymId(x) <= SymId(y)

-----------------------------------------------------------------------------
(* Building.                                                               *)

Begin ==
  /\ addr \in AddrMaps(gram)
  /\ pc = "build"
  /\ states = << >> /\ buckets = << >>
  /\ cur = 0 /\ closure = << >> /\ ir = 0
  /\ todo = {} /\ go = << >>

Init == gram \in Grammars /\ Begin

\* Mutant: state_end is not put into the hash table.
Build_NotHashed ==
  /\ pc = "build"
  /\ states' = <<NewState(Nil, {<<0, 0>>}), NewState(Eof, {<<0, 2>>})>>
  /\ closure' = <<<<0, 0>>>> /\ ir' = 1
  /\ pc' = "closure"
  /\ UNCHANGED <<gram, addr, buckets, cur, todo, go>>

\* state0, which is not hashed, and state_end, which is committed as state 1.
Build ==
  /\ pc = "build"
  /\ gram.syms[1] = Eof
  /\ states' = <<NewState(Nil, {<<0, 0>>}), NewState(Eof, {<<0, 2>>})>>
  /\ buckets' = [h \in {Hash({<<0, 2>>})} |-> <<1>>]
  /\ closure' = <<<<0, 0>>>> /\ ir' = 1
  /\ pc' = "closure"
  /\ UNCHANGED <<gram, addr, cur, todo, go>>

\* Mutant: the read position stops at a completed item.
CloseItem_Stuck ==
  /\ pc = "closure" /\ ir <= Len(closure) /\ ~ AtEnd(gram, closure[ir])
  /\ closure' = AddRules(gram, closure, ir)
  /\ ir' = ir + 1
  /\ UNCHANGED <<gram, addr, pc, states, buckets, cur, todo, go>>

\* One turn of lr0_closure's second loop.
CloseItem ==
  /\ pc = "closure" /\ ir <= Len(closure)
  /\ closure' = AddRules(gram, closure, ir)
  /\ ir' = ir + 1
  /\ UNCHANGED <<gram, addr, pc, states, buckets, cur, todo, go>>

\* lr0_goto's two passes: the symbols after the dots, which are then sorted.
ListSymbols ==
  /\ pc = "closure" /\ ir > Len(closure)
  /\ states' = [states EXCEPT ![cur + 1].nclosure = Len(closure)]
  /\ todo' = {s \in Symbols(gram) : Seen(gram, closure, Len(closure), s)} /\ go' = << >>
  /\ pc' = "commit"
  /\ UNCHANGED <<gram, addr, buckets, cur, closure, ir>>

\* Mutant: the second pass covers the kernel items only.
Moved_Kernel(x) ==
  {<<closure[i][1], closure[i][2] + 1>> :
     i \in {j \in 1..Cardinality(states[cur + 1].kernel) :
              ~ AtEnd(gram, closure[j]) /\ AfterDot(gram, closure[j]) = x}}

\* The kernel that lr0_goto collects for symbol x.
Moved(x) ==
  {<<closure[i][1], closure[i][2] + 1>> :
     i \in {j \in 1..Len(closure) : ~ AtEnd(gram, closure[j]) /\ AfterDot(gram, closure[j]) = x}}

\* commit_state: the first state of the bucket that has the kernel, or a new one.
Commit ==
  /\ pc = "commit" /\ todo # {}
  /\ LET x == First(todo)
         k == Moved(x)
     IN /\ IF Matches(k) # {}
           THEN /\ go' = Append(go, Bucket(Hash(k))[Min(Matches(k))])
                /\ UNCHANGED <<states, buckets>>
           ELSE /\ go' = Append(go, Len(states))
                /\ states' = Append(states, NewState(x, k))
                /\ buckets' = [h \in DOMAIN buckets \cup {Hash(k)} |->
                                 IF h = Hash(k) THEN <<Len(states)>> \o Bucket(h) ELSE buckets[h]]
        /\ todo' = todo \ {x}
  /\ UNCHANGED <<gram, addr, pc, cur, closure, ir>>

\* The gototab is stored and the next state of the list taken up.
NextState ==
  /\ pc = "commit" /\ todo = {} /\ cur + 1 < Len(states)
  /\ states' = [states EXCEPT ![cur + 1].go = go]
  /\ cur' = cur + 1
  /\ closure' = Sorted(states[cur + 2].kernel) /\ ir' = 1
  /\ pc' = "closure"
  /\ UNCHANGED <<gram, addr, buckets, todo, go>>

\* The list is at its end; the hash links are cleared.
Finish ==
  /\ pc = "commit" /\ todo = {} /\ cur + 1 = Len(states)
  /\ states' = [states EXCEPT ![cur + 1].go = go]
  /\ buckets' = << >>
  /\ pc' = "done"
  /\ UNCHANGED <<gram, addr, cur, closure, ir, todo, go>>

Next == Build \/ CloseItem \/ ListSymbols \/ Commit \/ NextState \/ Finish

\* The function runs to its end once called: nothing can stop its loops.
Spec == Init /\ [][Next]_vars /\ WF_vars(Next)

-----------------------------------------------------------------------------
(* The automaton as its readers see it.                                    *)

StateIds == 0..(Len(states) - 1)
State(q) == states[q + 1]

-----------------------------------------------------------------------------
(* Properties.                                                             *)

A == INSTANCE LR0Abs WITH known <- {states[i].kernel : i \in 1..Len(states)},
                          finished <- (pc = "done")

(***************************************************************************)
(* The states are the canonical collection: nothing is added that no state *)
(* leads to, and the construction ends only when every successor is there. *)
(***************************************************************************)
Refines == A!AbsSpec

(***************************************************************************)
(* A kernel is never committed twice, whatever the addresses of the rules: *)
(* the hash of a kernel found again is the hash it was filed under, even   *)
(* though state 0 is in no bucket and distinct kernels share buckets.      *)
(***************************************************************************)
KernelsUnique == \A i, j \in 1..Len(states) : states[i].kernel = states[j].kernel => i = j

(***************************************************************************)
(* The gototab of a finished state leads, for exactly the symbols behind a *)
(* dot of its closure, to the state of the items moved over that symbol,   *)
(* and is sorted by symbol id.  lr0_goto_find relies on both: it searches  *)
(* the table by bisection and uses the result without a test; conflict.c   *)
(* and codgen.c merge it with others.                                      *)
(***************************************************************************)
GototabsExact ==
  pc = "done" =>
    \A q \in StateIds :
      LET c   == A!Closure(gram, State(q).kernel)
          tab == State(q).go
      IN /\ \A n \in 1..Len(tab) :
              /\ State(tab[n]).kernel = A!Advance(gram, c, State(tab[n]).sym)
              /\ State(tab[n]).kernel # {}
         /\ \A x \in Symbols(gram) :
              A!Advance(gram, c, x) # {} => \E n \in 1..Len(tab) : State(tab[n]).sym = x
         /\ \A m, n \in 1..Len(tab) :
              m < n => SymId(State(tab[m]).sym) < SymId(State(tab[n]).sym)

(***************************************************************************)
(* The closure never runs over the buffer of npoints + n_rules points that *)
(* lr0_build reserves, and holds no point twice.                           *)
(***************************************************************************)
ClosureFits ==
  pc \in {"closure", "commit"} =>
    /\ Len(closure) <= Cardinality(State(cur).kernel) + Cardinality(RuleIds(gram))
    /\ NoRepeats(closure)

(***************************************************************************)
(* State 1 is the accepting state of the generated parser: it is entered   *)
(* on %eof, from the state that has seen the start symbol, and only so;    *)
(* state 0, the error entry of the goto table, is entered by nothing.      *)
(***************************************************************************)
ReservedStates ==
  \A q \in StateIds :
    \A i \in 1..Len(State(q).go) :
      LET t == State(q).go[i] IN
      /\ t # 0
      /\ t = 1 <=> State(t).sym = Eof
      /\ t = 1 => <<0, 1>> \in State(q).kernel

\* lr0_build returns on every grammar.
Terminates == <>(pc = "done")
=============================================================================
