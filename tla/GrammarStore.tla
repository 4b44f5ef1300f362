---------------------------- MODULE GrammarStore ----------------------------
(***************************************************************************)
(* grammar.c: the store that the grammar-file parser fills with symbols    *)
(* and rules, and grammar_complete, which makes it the grammar the later   *)
(* passes read.                                                            *)
(*                                                                         *)
(* A name that is not in the symbol table is not told from one with type   *)
(* UNKNOWN, because grammar_symbol treats them alike.  A symbol is added   *)
(* to the list (commit_symbol) when its type is known: terminals in front, *)
(* nonterminals at the end.  Rules are kept in the order of their ids; the *)
(* linked list of a nonterminal's rules is Completion's RulesOf.           *)
(***************************************************************************)
EXTENDS Completion

CONSTANTS
  Names,        \* the names a grammar file uses
  Typed,        \* those it has a %type for
  RightSides,   \* the right sides it has, sequences of names
  Types,        \* host types
  MaxRules      \* bound on the number of rules

ASSUME NamesAssumption ==
  /\ {Eof, Start, Nil} \cap Names = {} /\ Eof # Start
  /\ Nil \notin Types \cup {Eof, Start} \cup Nat
  /\ Typed \subseteq Names /\ RightSides \subseteq Seq(Names) /\ MaxRules \in Nat

VARIABLES
  pc,           \* "read", "resolve", "sentinel", "count", "done" or "crash"
  type,         \* name |-> "unknown", "terminal", "nonterminal" or "start"
  uses,         \* name |-> use_count
  htype,        \* name |-> host type or Nil
  symlist,      \* the symbol list
  prods,        \* the productions read, as in Completion
  start,        \* grammar->start
  declared,     \* what %start_symbol said last, which start is overwritten with
  left, cr,     \* resolve_symbols: symbols left on the list, rule of the first of them
  sentinel,     \* right side of rule 0, empty before there is one
  gram          \* the completed grammar, or Nil

vars == <<pc, type, uses, htype, symlist, prods, start, declared, left, cr, sentinel, gram>>

AllNames == Names \cup {Eof, Start}

Init ==
  /\ pc = "read"
  /\ type = [n \in AllNames |-> "unknown"]
  /\ uses = [n \in AllNames |-> 0]
  /\ htype = [n \in AllNames |-> Nil]
  /\ symlist = << >> /\ prods = << >>
  /\ start = Nil /\ declared = Nil
  /\ left = 0 /\ cr = 1
  /\ sentinel = << >> /\ gram = Nil

-----------------------------------------------------------------------------
(* Reading the grammar file.                                               *)

\* grammar_symbol with SYMBOL_NONTERMINAL; nothing is a terminal yet.
MakeNonterminal(n) ==
  /\ type' = [type EXCEPT ![n] = "nonterminal"]
  /\ symlist' = IF type[n] = "unknown" THEN Append(symlist, n) ELSE symlist

\* grammar_start_symbol: the last declaration wins.
StartSymbol(n) ==
  /\ pc = "read"
  /\ MakeNonterminal(n)
  /\ start' = n /\ declared' = n
  /\ UNCHANGED <<pc, uses, htype, prods, left, cr, sentinel, gram>>

\* grammar_nonterminal.
AddRule(ls, rs) ==
  /\ pc = "read" /\ Len(prods) < MaxRules
  /\ MakeNonterminal(ls)
  /\ prods' = Append(prods, <<ls>> \o rs)
  /\ UNCHANGED <<pc, uses, htype, start, declared, left, cr, sentinel, gram>>

\* grammar_assign_type: the first one stays.
AssignType(n, t) ==
  /\ pc = "read"
  /\ MakeNonterminal(n)
  /\ htype' = IF htype[n] = Nil THEN [htype EXCEPT ![n] = t] ELSE htype
  /\ UNCHANGED <<pc, uses, prods, start, declared, left, cr, sentinel, gram>>

(***************************************************************************)
(* One turn of %fallback's loop in bnf.ly: grammar_deduce_type, which gives*)
(* ls the type of rs unless it has one, and grammar_nonterminal.           *)
(***************************************************************************)
Fallback(ls, rs) ==
  /\ pc = "read" /\ Len(prods) < MaxRules
  /\ htype' = IF htype[ls] = Nil THEN [htype EXCEPT ![ls] = htype[rs]] ELSE htype
  /\ MakeNonterminal(ls)
  /\ prods' = Append(prods, <<ls, rs>>)
  /\ UNCHANGED <<pc, uses, start, declared, left, cr, sentinel, gram>>

EndOfFile ==
  /\ pc = "read"
  /\ pc' = "resolve"
  /\ left' = Len(symlist) /\ cr' = 1
  /\ UNCHANGED <<type, uses, htype, symlist, prods, start, declared, sentinel, gram>>

-----------------------------------------------------------------------------
(* grammar_complete.                                                       *)

\* The symbol resolve_symbols is at; symbols added in front do not move it.
Current == symlist[Len(symlist) - left + 1]
Unresolved == IF left = 0 THEN FALSE ELSE cr <= Len(RulesOf(prods, Current))
RightSide == Tail(prods[RulesOf(prods, Current)[cr]])
Count(n, seq) == Cardinality({i \in 1..Len(seq) : seq[i] = n})

\* The symbols of type UNKNOWN that a walk over seq meets: each becomes a
\* terminal there, and is put in front of the earlier ones.
NewTerminals(tp, seq) ==
  LET new[n \in 0..Len(seq)] ==
        IF n = 0 THEN << >>
        ELSE IF tp[seq[n]] = "unknown" /\ ~ Occurs(seq[n], new[n - 1])
             THEN <<seq[n]>> \o new[n - 1] ELSE new[n - 1]
  IN new[Len(seq)]

\* Mutant: terminals are appended to the list.
ResolveRule_Appends ==
  /\ pc = "resolve" /\ Unresolved
  /\ LET new == NewTerminals(type, RightSide)
     IN /\ type' = [n \in AllNames |-> IF Occurs(n, new) THEN "terminal" ELSE type[n]]
        /\ symlist' = symlist \o new
        /\ left' = left + Len(new)
  /\ uses' = [n \in AllNames |-> uses[n] + Count(n, RightSide)]
  /\ cr' = cr + 1
  /\ UNCHANGED <<pc, htype, prods, start, declared, sentinel, gram>>

\* resolve_symbols on one rule.
ResolveRule ==
  /\ pc = "resolve" /\ Unresolved
  /\ LET new == NewTerminals(type, RightSide)
     IN /\ type' = [n \in AllNames |-> IF Occurs(n, new) THEN "terminal" ELSE type[n]]
        /\ symlist' = new \o symlist
  /\ uses' = [n \in AllNames |-> uses[n] + Count(n, RightSide)]
  /\ cr' = cr + 1
  /\ UNCHANGED <<pc, htype, prods, start, declared, left, sentinel, gram>>

NextSymbol ==
  /\ pc = "resolve" /\ ~ Unresolved /\ left # 0
  /\ left' = left - 1 /\ cr' = 1
  /\ UNCHANGED <<pc, type, uses, htype, symlist, prods, start, declared, sentinel, gram>>

\* The places on the list of the nonterminals that nothing uses.
UnusedPlaces == {k \in 1..Len(symlist) : uses[symlist[k]] = 0 /\ type[symlist[k]] = "nonterminal"}

\* Mutant: the last unused nonterminal is taken.
DetermineStart_Last ==
  /\ pc = "resolve" /\ left = 0
  /\ start' = IF start = Nil /\ UnusedPlaces # {} THEN symlist[Max(UnusedPlaces)] ELSE start
  /\ pc' = "sentinel"
  /\ UNCHANGED <<type, uses, htype, symlist, prods, declared, left, cr, sentinel, gram>>

\* determine_start; with no candidate grammar->start stays NULL.
DetermineStart ==
  /\ pc = "resolve" /\ left = 0
  /\ start' = IF start = Nil /\ UnusedPlaces # {} THEN symlist[Min(UnusedPlaces)] ELSE start
  /\ pc' = "sentinel"
  /\ UNCHANGED <<type, uses, htype, symlist, prods, declared, left, cr, sentinel, gram>>

\* add_sentinel_rule dereferences a start symbol that nobody determined.
Crash ==
  /\ pc = "sentinel" /\ start = Nil
  /\ pc' = "crash"
  /\ UNCHANGED <<type, uses, htype, symlist, prods, start, declared, left, cr, sentinel, gram>>

\* add_sentinel_rule: rule 0 is %start ::= start %eof.
AddSentinel ==
  /\ pc = "sentinel" /\ start # Nil
  /\ type' = [type EXCEPT ![Eof] = "terminal", ![Start] = "start"]
  /\ symlist' = <<Eof>> \o symlist \o <<Start>>
  /\ uses' = [uses EXCEPT ![start] = @ + 1, ![Eof] = @ + 1]
  /\ sentinel' = <<start, Eof>>
  /\ start' = Start
  /\ pc' = "count"
  /\ UNCHANGED <<htype, prods, declared, left, cr, gram>>

\* count_symbols: ids are positions on the list from now on.
CountSymbols ==
  /\ pc = "count"
  /\ gram' =
       [syms     |-> symlist,
        terms    |-> {n \in AllNames : type[n] = "terminal"},
        nonterms |-> {n \in AllNames : type[n] = "nonterminal"},
        start    |-> start,
        rules    |-> [r \in 0..Len(prods) |->
                        IF r = 0 THEN [lhs |-> start, rhs |-> sentinel]
                        ELSE [lhs |-> Head(prods[r]), rhs |-> Tail(prods[r])]],
        rulesOf  |-> [n \in {x \in AllNames : type[x] = "nonterminal"} |-> RulesOf(prods, n)]]
  /\ pc' = "done"
  /\ UNCHANGED <<type, uses, htype, symlist, prods, start, declared, left, cr, sentinel>>

Read ==
  \/ \E n \in Names : StartSymbol(n)
  \/ \E n \in Names, rs \in RightSides : AddRule(n, rs)
  \/ \E n \in Typed, t \in Types : AssignType(n, t)
  \/ \E n, m \in Names : Fallback(n, m)

CompleteGrammar ==
  \/ EndOfFile \/ ResolveRule \/ NextSymbol
  \/ DetermineStart \/ Crash \/ AddSentinel \/ CountSymbols

Next == Read \/ CompleteGrammar

\* Once the file is read nothing can stop grammar_complete; the file need not end.
Spec == Init /\ [][Next]_vars /\ WF_vars(pc # "read" /\ CompleteGrammar)

-----------------------------------------------------------------------------
(* Properties.                                                             *)

(***************************************************************************)
(* A symbol is on the list exactly if its type is known, and once: what    *)
(* count_symbols calls impossible is impossible.  Terminals stand before   *)
(* nonterminals, so that id - n_terminals numbers the nonterminals.        *)
(***************************************************************************)
ListSound ==
  /\ NoRepeats(symlist)
  /\ \A n \in AllNames : Occurs(n, symlist) <=> type[n] # "unknown"
  /\ \A i, j \in 1..Len(symlist) :
       type[symlist[i]] # "terminal" /\ type[symlist[j]] = "terminal" => j < i

(***************************************************************************)
(* Once the file is read, grammar_complete ends, whatever the order of the *)
(* declarations: in the grammar that the productions and the declared      *)
(* start symbol determine, with the shape that every later pass relies on, *)
(* or, if all nonterminals are used and no start symbol is declared, in a  *)
(* crash.                                                                  *)
(***************************************************************************)
Defined ==
  /\ pc = "done"
  /\ gram = Complete(SelectSeq(symlist, LAMBDA n : type[n] = "nonterminal"), declared, prods)
  /\ IsGrammar(gram)

WithoutStart ==
  /\ pc = "crash"
  /\ declared = Nil /\ \A n \in Names : type[n] = "nonterminal" => Used(prods, n)

CompletesAsDefined == pc # "read" ~> Defined \/ WithoutStart
=============================================================================
