-------------------------------- MODULE LALR --------------------------------
(***************************************************************************)
(* lalr.c: lalr_reduce_search, which finds the LALR(1) lookaheads of the   *)
(* reductions by DeRemer and Pennello's method: relations reads, includes  *)
(* and lookback between nonterminal transitions, solved with digraph.      *)
(*                                                                         *)
(* A transition is <<q, t>>, from state q to the state t behind a          *)
(* nonterminal; relations are between indices into trans.  The lists keep  *)
(* the order of the linked lists, head first.  Sets of terminals are sets: *)
(* Bitset says how far bitset.c justifies that.                            *)
(***************************************************************************)
EXTENDS Items, SequencesExt

VARIABLES
  gram, nullable, nnl, states,  \* what the earlier passes left; not changed
  pc,           \* "begin", "reads", "joinreads", "relate", "joinincludes", "reduce", "done"
  trans,        \* the array of transitions
  itr,          \* loop counter: a transition, or in "reduce" the next state
  reads, includes,        \* index |-> list of indices
  lookback,     \* state id |-> list of <<rule, index>>
  rtab,         \* state id |-> reducetab, a list of <<symbol, rule>>
  set, rank, stack, frames, i   \* digraph

inputs    == <<gram, nullable, nnl, states>>
relations == <<trans, reads, includes, lookback>>
dgvars    == <<set, rank, stack, frames, i>>
lalrvars  == <<pc, itr, rtab, relations, dgvars>>
vars      == <<inputs, lalrvars>>

StateIds == 0..(Len(states) - 1)
State(q) == states[q + 1]

\* The relation that digraph is run on: the offset of one of the two lists.
D == INSTANCE Digraph WITH
       succ <- IF pc = "joinreads" THEN reads ELSE includes,
       Graphs <- {}, Base <- LAMBDA x : {}

Begin ==
  /\ pc = "begin" /\ trans = << >> /\ itr = 1
  /\ reads = << >> /\ includes = << >> /\ lookback = << >> /\ rtab = << >>
  /\ set = << >> /\ rank = << >> /\ stack = << >> /\ frames = << >> /\ i = 1

-----------------------------------------------------------------------------
(* The relations.                                                          *)

NonterminalGotos(q) == {t \in ToSet(State(q).go) : State(t).sym \in gram.nonterms}

\* create_dr: the terminals that state t has a transition on.
DirectReads(t) == {State(u).sym : u \in ToSet(State(t).go)} \cap gram.terms

\* Mutant: the direct reads are those of the state the transition starts from.
FindTransitions_From ==
  /\ pc = "begin"
  /\ trans' = Sorted(UNION {{<<q, t>> : t \in NonterminalGotos(q)} : q \in StateIds})
  /\ set' = [k \in 1..Len(trans') |-> DirectReads(trans'[k][1])]
  /\ reads' = [k \in 1..Len(trans') |-> << >>]
  /\ includes' = [k \in 1..Len(trans') |-> << >>]
  /\ lookback' = [q \in StateIds |-> << >>]
  /\ rtab' = [q \in StateIds |-> << >>]
  /\ itr' = 1 /\ pc' = "reads"
  /\ UNCHANGED <<inputs, rank, stack, frames, i>>

\* find_transitions, both times, and the sort by cmp_trans.
FindTransitions ==
  /\ pc = "begin"
  /\ trans' = Sorted(UNION {{<<q, t>> : t \in NonterminalGotos(q)} : q \in StateIds})
  /\ set' = [k \in 1..Len(trans') |-> DirectReads(trans'[k][2])]
  /\ reads' = [k \in 1..Len(trans') |-> << >>]
  /\ includes' = [k \in 1..Len(trans') |-> << >>]
  /\ lookback' = [q \in StateIds |-> << >>]
  /\ rtab' = [q \in StateIds |-> << >>]
  /\ itr' = 1 /\ pc' = "reads"
  /\ UNCHANGED <<inputs, rank, stack, frames, i>>

\* lookup_transition.
Lookup(q, t) == CHOOSE k \in 1..Len(trans) : trans[k] = <<q, t>>

\* One turn of find_reads: the nullable nonterminals expected after the transition.
FindReads ==
  /\ pc = "reads" /\ itr <= Len(trans)
  /\ LET t  == trans[itr][2]
         go == State(t).go
         us == Chosen(go, {k \in 1..Len(go) : State(go[k]).sym \in nullable})
     IN reads' = [reads EXCEPT ![itr] = Reverse([k \in 1..Len(us) |-> Lookup(t, us[k])]) \o @]
  /\ itr' = itr + 1
  /\ UNCHANGED <<inputs, pc, trans, includes, lookback, rtab, dgvars>>

\* digraph is called on reads once all are found.
StartReads ==
  /\ pc = "reads" /\ itr > Len(trans)
  /\ pc' = "joinreads"
  /\ rank' = [k \in 1..Len(trans) |-> 0] /\ stack' = << >> /\ frames' = << >> /\ i' = 1
  /\ UNCHANGED <<inputs, itr, relations, rtab, set>>

\* A step of digraph, for either relation.
Join ==
  /\ pc \in {"joinreads", "joinincludes"}
  /\ UNCHANGED <<inputs, pc, itr, relations, rtab>>
  /\ D!Next

EndReads ==
  /\ pc = "joinreads" /\ D!Done
  /\ pc' = "relate" /\ itr' = 1
  /\ UNCHANGED <<inputs, relations, rtab, dgvars>>

\* The states that a walk from q along the right side of rule r goes through.
Path(q, r) ==
  LET path[n \in 0..Length(gram, r)] ==
        IF n = 0 THEN q ELSE Goto(states, path[n - 1], Rhs(gram, r)[n])
  IN path

\* Mutant: the position just behind nnl is the first to be related.
Includes_Behind(r, n) == n > nnl[r] /\ Rhs(gram, r)[n] \in gram.nonterms

\* Position n of rule r is related: what follows it is held to be nullable.
Includes(r, n) == n >= nnl[r] /\ Rhs(gram, r)[n] \in gram.nonterms

(***************************************************************************)
(* One turn of find_lookback_includes: each rule of the nonterminal is     *)
(* walked from the transition's state.  The transitions met at or behind   *)
(* nnl include this one; the state at the end of the walk looks back to it.*)
(***************************************************************************)
FindLookbackIncludes ==
  /\ pc = "relate" /\ itr <= Len(trans)
  /\ LET q  == trans[itr][1]
         rs == gram.rulesOf[State(trans[itr][2]).sym]
         Met(k) == {p \in UNION {{r} \X (1..Length(gram, r)) : r \in ToSet(rs)} :
                      /\ Includes(p[1], p[2])
                      /\ Lookup(Path(q, p[1])[p[2] - 1], Path(q, p[1])[p[2]]) = k}
         EndingIn(s) ==
           Chosen(rs, {k \in 1..Len(rs) : Path(q, rs[k])[Length(gram, rs[k])] = s})
     IN /\ includes' = [k \in 1..Len(trans) |->
                          [j \in 1..Cardinality(Met(k)) |-> itr] \o includes[k]]
        /\ lookback' = [s \in StateIds |->
                          [j \in 1..Len(EndingIn(s)) |->
                             <<Reverse(EndingIn(s))[j], itr>>] \o lookback[s]]
  /\ itr' = itr + 1
  /\ UNCHANGED <<inputs, pc, trans, reads, rtab, dgvars>>

\* Mutant: the lookback lists are left unsorted.
StartIncludes_Unsorted ==
  /\ pc = "relate" /\ itr > Len(trans)
  /\ pc' = "joinincludes"
  /\ rank' = [k \in 1..Len(trans) |-> 0] /\ stack' = << >> /\ frames' = << >> /\ i' = 1
  /\ UNCHANGED <<inputs, itr, relations, rtab, set>>

\* The lookback lists are sorted by cmp_lookback and digraph is called on includes.
StartIncludes ==
  /\ pc = "relate" /\ itr > Len(trans)
  /\ lookback' = [q \in StateIds |-> Sorted(ToSet(lookback[q]))]
  /\ pc' = "joinincludes"
  /\ rank' = [k \in 1..Len(trans) |-> 0] /\ stack' = << >> /\ frames' = << >> /\ i' = 1
  /\ UNCHANGED <<inputs, itr, trans, reads, includes, rtab, set>>

EndIncludes ==
  /\ pc = "joinincludes" /\ D!Done
  /\ pc' = "reduce" /\ itr' = 0
  /\ UNCHANGED <<inputs, relations, rtab, dgvars>>

-----------------------------------------------------------------------------
(* The reductions of a state.                                              *)

\* The first position of list lb from p on that passes the test, or the one behind it.
FirstFrom(lb, p, Test(_)) == Min({k \in p..Len(lb) : Test(lb[k])} \cup {Len(lb) + 1})

(***************************************************************************)
(* The sets of the completed items of closure c of state q.  lalr_state    *)
(* walks the items and the lookback list once, side by side: entries of    *)
(* smaller rule ids are skipped, those of the item's rule are taken.       *)
(***************************************************************************)
ItemSets(q, c) ==
  LET lb == lookback[q]
      Skipped(p, r) == FirstFrom(lb, p, LAMBDA e : e[1] >= r)
      Taken(p, r)   == FirstFrom(lb, p, LAMBDA e : e[1] # r)
      \* Where each item begins and ends to take entries.
      walk[n \in 0..Len(c)] ==
        IF n = 0 THEN <<1, 1>>
        ELSE LET last == walk[n - 1][2]
                 from == IF AtEnd(gram, c[n]) THEN Skipped(last, c[n][1]) ELSE last
             IN <<from, IF AtEnd(gram, c[n]) THEN Taken(from, c[n][1]) ELSE last>>
  IN [n \in 1..Len(c) |->
        LET w == walk[n] IN UNION {set[lb[k][2]] : k \in w[1] .. w[2] - 1}]

\* The reducetab of state q: in the order of the symbol list, then of the closure.
ReduceTab(q) ==
  LET c    == ClosureOf(gram, State(q).kernel)
      sets == ItemSets(q, c)
      row(x) == LET ns == Ascending({n \in 1..Len(c) : x \in sets[n]})
                IN [k \in DOMAIN ns |-> <<x, c[ns[k]][1]>>]
  IN FlattenSeq([k \in 1..Len(gram.syms) |-> row(gram.syms[k])])

\* lalr_state.
FindReductions ==
  /\ pc = "reduce" /\ itr \in StateIds
  /\ rtab' = [rtab EXCEPT ![itr] = ReduceTab(itr)]
  /\ itr' = itr + 1
  /\ UNCHANGED <<inputs, pc, relations, dgvars>>

\* The relations are freed.
Finish ==
  /\ pc = "reduce" /\ itr \notin StateIds
  /\ pc' = "done"
  /\ UNCHANGED <<inputs, itr, relations, rtab, dgvars>>

Next ==
  \/ FindTransitions \/ FindReads \/ StartReads \/ Join \/ EndReads
  \/ FindLookbackIncludes \/ StartIncludes \/ EndIncludes
  \/ FindReductions \/ Finish
=============================================================================
