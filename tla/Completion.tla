----------------------------- MODULE Completion -----------------------------
(***************************************************************************)
(* What grammar_complete makes of a grammar file, as one function of the   *)
(* productions: the reference that module GrammarStore's step-by-step           *)
(* construction is compared with, and the way the later passes' instances  *)
(* are given their grammars.  A production is the sequence of its left     *)
(* side and the symbols of its right side; production r has rule id r.     *)
(***************************************************************************)
EXTENDS GrammarData, SequencesExt

Indices(seq) == [i \in 1..Len(seq) |-> i]

\* seq without the repetitions of what occurs earlier in it.
FirstOccurrences(seq) ==
  LET new(i) == \A j \in 1..(i - 1) : seq[j] # seq[i]
      is == SelectSeq(Indices(seq), new)
  IN [k \in 1..Len(is) |-> seq[is[k]]]

\* The rules of nonterminal s: each is put in front of the earlier ones.
RulesOf(prods, s) ==
  LET of[r \in 0..Len(prods)] ==
        IF r = 0 THEN << >>
        ELSE IF Head(prods[r]) = s THEN <<r>> \o of[r - 1] ELSE of[r - 1]
  IN of[Len(prods)]

(***************************************************************************)
(* Every symbol of a right side that is no nonterminal becomes a terminal, *)
(* in the order in which resolve_symbols meets it; each is put in front.   *)
(***************************************************************************)
Terminals(nts, prods) ==
  LET ids  == FlattenSeq([i \in 1..Len(nts) |-> RulesOf(prods, nts[i])])
      seen == FlattenSeq([i \in 1..Len(ids) |-> Tail(prods[ids[i]])])
  IN Reverse(FirstOccurrences(SelectSeq(seen, LAMBDA s : ~ Contains(nts, s))))

Used(prods, s) == \E r \in 1..Len(prods) : Contains(Tail(prods[r]), s)

\* determine_start: the declared start symbol, or the first nonterminal no rule uses.
StartOf(nts, start, prods) ==
  IF start # Nil THEN start
  ELSE LET unused == SelectSeq(nts, LAMBDA s : ~ Used(prods, s))
       IN IF unused = << >> THEN Nil ELSE Head(unused)

\* The completed grammar; nts are the nonterminals in the order they were committed.
Complete(nts, start, prods) ==
  [syms     |-> <<Eof>> \o Terminals(nts, prods) \o nts \o <<Start>>,
   terms    |-> {Eof} \cup ToSet(Terminals(nts, prods)),
   nonterms |-> ToSet(nts),
   start    |-> Start,
   rules    |-> [r \in 0..Len(prods) |->
                   IF r = 0
                   THEN [lhs |-> Start, rhs |-> <<StartOf(nts, start, prods), Eof>>]
                   ELSE [lhs |-> Head(prods[r]), rhs |-> Tail(prods[r])]],
   rulesOf  |-> [s \in ToSet(nts) |-> RulesOf(prods, s)]]

\* The nonterminals in commit order when %start_symbol, if any, comes first.
Committed(start, prods) ==
  FirstOccurrences((IF start = Nil THEN << >> ELSE <<start>>)
                     \o [r \in 1..Len(prods) |-> Head(prods[r])])

Grammar(start, prods) == Complete(Committed(start, prods), start, prods)
=============================================================================
