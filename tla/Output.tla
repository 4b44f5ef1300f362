------------------------------- MODULE Output -------------------------------
(***************************************************************************)
(* What main.c does with the finished automaton: conflict.c reports the    *)
(* conflicts of its tables, and codgen.c writes the tables as two arrays   *)
(* of C, a row for each state and a column for each symbol.  main ignores  *)
(* the result of conflicts, so the code is generated in any case.          *)
(***************************************************************************)
EXTENDS Items, SequencesExt

VARIABLES
  gram, states, rtab,   \* what the earlier passes left; not changed
  pc,         \* "conflicts", "actions", "gotos", "written"
  q,          \* the next state of the loop of pc
  reports,    \* messages of conflicts: <<kind, state, symbol>>
  actions,    \* state id |-> column |-> rule id, or 0
  gotos       \* state id |-> column |-> state id, or 0

inputs     == <<gram, states, rtab>>
outputvars == <<pc, q, reports, actions, gotos>>
vars       == <<inputs, outputvars>>

StateIds == 0..(Len(states) - 1)

Begin ==
  /\ pc = "conflicts" /\ q = 0
  /\ reports = {} /\ actions = << >> /\ gotos = << >>

\* sym->id.
SymId(x) == SymbolId(gram, x)

ShiftSym(s, k) == states[states[s + 1].go[k] + 1].sym

-----------------------------------------------------------------------------

\* Mutant: the walk over the gototab goes on behind the symbol.
ShiftPlaces_Past(s) ==
  LET ids == [k \in 1..Len(states[s + 1].go) |-> SymId(ShiftSym(s, k))]
      place[n \in 0..Len(rtab[s])] ==
        IF n = 0 THEN 1
        ELSE LET p == place[n - 1]
             IN Min({k \in p..Len(ids) : ids[k] > SymId(rtab[s][n][1])} \cup {Len(ids) + 1})
  IN place

\* ishift, which only moves forward, after n entries of the reducetab of state s.
ShiftPlaces(s) ==
  LET ids == [k \in 1..Len(states[s + 1].go) |-> SymId(ShiftSym(s, k))]
      place[n \in 0..Len(rtab[s])] ==
        IF n = 0 THEN 1
        ELSE LET p == place[n - 1]
             IN Min({k \in p..Len(ids) : ids[k] >= SymId(rtab[s][n][1])} \cup {Len(ids) + 1})
  IN place

\* The messages for state s: an entry is compared with the one before it and
\* with the entry of the gototab that ishift has come to.
Reports(s) ==
  LET tab   == rtab[s]
      place == ShiftPlaces(s)
  IN {<<"reduce-reduce", s, tab[n][1]>> :
        n \in {m \in 2..Len(tab) : tab[m][1] = tab[m - 1][1]}}
     \cup
     {<<"shift-reduce", s, tab[n][1]>> :
        n \in {m \in 1..Len(tab) :
                 /\ place[m] <= Len(states[s + 1].go)
                 /\ ShiftSym(s, place[m]) = tab[m][1]}}

\* One turn of the loop of conflicts.
Conflicts ==
  /\ pc = "conflicts" /\ q \in StateIds
  /\ reports' = reports \cup Reports(q)
  /\ q' = q + 1
  /\ UNCHANGED <<inputs, pc, actions, gotos>>

-----------------------------------------------------------------------------

\* Mutant: the zeros in front of an entry are counted from the entry before it.
Row_Relative(entries) ==
  LET column[n \in 0..Len(entries)] ==
        IF n = 0 THEN -1 ELSE column[n - 1] + entries[n][1] + 1
  IN [c \in Columns(gram) |->
        IF \E n \in 1..Len(entries) : column[n] = c
        THEN entries[CHOOSE n \in 1..Len(entries) : column[n] = c][2] ELSE 0]

(***************************************************************************)
(* A row written from <<symbol id, value>> entries in their order: zeros   *)
(* up to the symbol's column, then the value, which is one column too far  *)
(* if the column is already written.  C drops what is behind the last      *)
(* column.                                                                 *)
(***************************************************************************)
Row(entries) ==
  LET column[n \in 0..Len(entries)] ==
        IF n = 0 THEN -1 ELSE Max({column[n - 1] + 1, entries[n][1]})
  IN [c \in Columns(gram) |->
        IF \E n \in 1..Len(entries) : column[n] = c
        THEN entries[CHOOSE n \in 1..Len(entries) : column[n] = c][2] ELSE 0]

\* codgen_c comes to the tables when the conflicts have been reported.
StartActions ==
  /\ pc = "conflicts" /\ q \notin StateIds
  /\ pc' = "actions" /\ q' = 0
  /\ UNCHANGED <<inputs, reports, actions, gotos>>

\* One turn of emit_actions_c.
EmitActions ==
  /\ pc = "actions" /\ q \in StateIds
  /\ actions' = Append(actions, Row([n \in 1..Len(rtab[q]) |->
                                       <<SymId(rtab[q][n][1]), rtab[q][n][2]>>]))
  /\ q' = q + 1
  /\ UNCHANGED <<inputs, pc, reports, gotos>>

StartGotos ==
  /\ pc = "actions" /\ q \notin StateIds
  /\ pc' = "gotos" /\ q' = 0
  /\ UNCHANGED <<inputs, reports, actions, gotos>>

\* One turn of emit_gotos_c.
EmitGotos ==
  /\ pc = "gotos" /\ q \in StateIds
  /\ gotos' = Append(gotos, Row([n \in 1..Len(states[q + 1].go) |->
                                   <<SymId(ShiftSym(q, n)), states[q + 1].go[n]>>]))
  /\ q' = q + 1
  /\ UNCHANGED <<inputs, pc, reports, actions>>

Finish ==
  /\ pc = "gotos" /\ q \notin StateIds
  /\ pc' = "written"
  /\ UNCHANGED <<inputs, q, reports, actions, gotos>>

Next ==
  \/ Conflicts \/ StartActions \/ EmitActions \/ StartGotos \/ EmitGotos \/ Finish

-----------------------------------------------------------------------------
(* What lr0.c and lalr.c leave, and this pass relies on without a test.    *)

Go(s)   == states[s + 1].go
ItemsOf == [s \in StateIds |-> ClosureSet(gram, states[s + 1].kernel)]

\* A gototab has a symbol once, in the order of the ids.
GototabSorted(s) ==
  /\ Go(s) \in Seq(StateIds)
  /\ \A k \in 1..Len(Go(s)) : ShiftSym(s, k) \in Symbols(gram)
  /\ \A k, l \in 1..Len(Go(s)) : k < l => SymId(ShiftSym(s, k)) < SymId(ShiftSym(s, l))

\* A reducetab has an entry once, and is filled symbol by symbol.
ReducetabSorted(s) ==
  /\ rtab[s] \in Seq(Symbols(gram) \X RuleIds(gram))
  /\ NoRepeats(rtab[s])
  /\ \A k, l \in 1..Len(rtab[s]) : k < l => SymId(rtab[s][k][1]) <= SymId(rtab[s][l][1])

\* Reductions are of completed items, and transitions move the items of a state.
Reduced(s) ==
  \A n \in 1..Len(rtab[s]) : <<rtab[s][n][2], Length(gram, rtab[s][n][2])>> \in ItemsOf[s]
Moved(s) ==
  \A k \in 1..Len(Go(s)) : \A p \in ItemsOf[Go(s)[k]] :
    p[2] # 0 => Rhs(gram, p[1])[p[2]] = ShiftSym(s, k) /\ <<p[1], p[2] - 1>> \in ItemsOf[s]

TablesFollow ==
  /\ \A p \in ItemsOf[0] : p[2] = 0
  /\ <<0, 2>> \in ItemsOf[1]
  /\ \A s \in StateIds : Reduced(s) /\ Moved(s)

Tables ==
  /\ IsGrammar(gram)
  /\ Len(states) \in Nat \ {0}
  /\ \A s \in StateIds : GototabSorted(s) /\ ReducetabSorted(s)
  /\ TablesFollow

-----------------------------------------------------------------------------
(* Properties.                                                             *)

Reduces(s, x) == {r \in RuleIds(gram) : Occurs(<<x, r>>, rtab[s])}
Shifts(s, x)  == Targets(states, s, x) # {}

(***************************************************************************)
(* The messages name exactly the states and symbols at which two actions   *)
(* compete, although the tables are walked side by side and only           *)
(* neighbours are compared: one not in the order of symbol ids would hide  *)
(* conflicts.                                                              *)
(***************************************************************************)
ConflictsExact ==
  pc = "written" =>
    reports =
      UNION {UNION {
        (IF Cardinality(Reduces(s, x)) > 1 THEN {<<"reduce-reduce", s, x>>} ELSE {}) \cup
        (IF Reduces(s, x) # {} /\ Shifts(s, x) THEN {<<"shift-reduce", s, x>>} ELSE {}) :
          x \in Symbols(gram)} : s \in StateIds}

(***************************************************************************)
(* The arrays say what the tables say: every transition is in its column   *)
(* of gotos, and so is every reduction in actions if its state has no      *)
(* reduce-reduce conflict.  (After such a conflict the rest of the row is  *)
(* one column too far to the right.)  Even so they follow the automaton,   *)
(* which keeps the generated parser's stack in order.                      *)
(***************************************************************************)
ArraysFaithful ==
  pc = "written" =>
    /\ AreTables(gram, actions, gotos)
    /\ GuidedBy(gram, actions, gotos, ItemsOf)
    /\ \A s \in StateIds : \A x \in gram.terms \cup gram.nonterms :
         /\ gotos[s + 1][SymId(x)] = IF Shifts(s, x) THEN Goto(states, s, x) ELSE 0
         /\ (~ \E y \in Symbols(gram) : <<"reduce-reduce", s, y>> \in reports)
            => actions[s + 1][SymId(x)] = IF Reduces(s, x) = {} THEN 0
                                          ELSE CHOOSE r \in Reduces(s, x) : TRUE
=============================================================================
