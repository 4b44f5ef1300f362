---------------------------- MODULE GrammarData ----------------------------
(***************************************************************************)
(* A grammar as the passes that follow grammar_complete see it: the values *)
(* of struct grammar, struct symbol and struct rule (grammar_i.h) that no  *)
(* later pass changes.  A completed grammar is a record with the fields    *)
(*                                                                         *)
(*   syms      the symbol list; the id of syms[i] is i - 1                 *)
(*   terms     the symbols of type TERMINAL, %eof among them               *)
(*   nonterms  the symbols of type NONTERMINAL                             *)
(*   start     the one START_NONTERMINAL, %start                           *)
(*   rules     rule id |-> left side and right side; 0 is %start's rule    *)
(*   rulesOf   symbol |-> ids of its rules in linked-list order, which is  *)
(*             latest first because grammar_nonterminal prepends           *)
(***************************************************************************)
EXTENDS Naturals, Sequences

CONSTANTS Eof, Start    \* the symbols named %eof and %start
CONSTANT  Nil           \* the null pointer

NoRepeats(seq) == \A i, j \in 1..Len(seq) : i # j => seq[i] # seq[j]
Occurs(x, seq) == \E i \in 1..Len(seq) : seq[i] = x

RuleIds(g) == DOMAIN g.rules
Lhs(g, r)  == g.rules[r].lhs
Rhs(g, r)  == g.rules[r].rhs
Length(g, r) == Len(Rhs(g, r))

Symbols(g) == g.terms \cup g.nonterms \cup {g.start}

(***************************************************************************)
(* What every completed grammar satisfies: the shape the later passes rely *)
(* on without testing it.                                                  *)
(***************************************************************************)
IsGrammar(g) ==
  /\ g = [syms |-> g.syms, terms |-> g.terms, nonterms |-> g.nonterms,
          start |-> g.start, rules |-> g.rules, rulesOf |-> g.rulesOf]
  /\ g.start = Start /\ Eof \in g.terms
  /\ g.terms \cap g.nonterms = {} /\ g.start \notin g.terms \cup g.nonterms
  /\ Nil \notin Symbols(g)
  /\ g.syms \in Seq(Symbols(g))
  /\ NoRepeats(g.syms) /\ \A s \in Symbols(g) : Occurs(s, g.syms)
  /\ RuleIds(g) \subseteq Nat /\ 0 \in RuleIds(g)
  /\ Nil \notin RuleIds(g)
  /\ \A r \in RuleIds(g) :
       /\ Lhs(g, r) \in g.nonterms \cup {g.start}
       /\ Rhs(g, r) \in Seq(g.terms \cup g.nonterms)
       /\ Lhs(g, r) = g.start <=> r = 0
  /\ \E s \in g.nonterms : Rhs(g, 0) = <<s, Eof>>
  /\ g.rulesOf \in [g.nonterms -> Seq(RuleIds(g))]
  /\ \A s \in g.nonterms :
       /\ NoRepeats(g.rulesOf[s])
       /\ \A r \in RuleIds(g) : Lhs(g, r) = s <=> Occurs(r, g.rulesOf[s])

-----------------------------------------------------------------------------
(* The two arrays that are all the generated parser knows of its grammar:  *)
(* acts[s + 1] and gts[s + 1] are the rows of state s.                     *)

\* sym->id, and the columns of both arrays: one for each symbol, %start included.
SymbolId(g, x) == (CHOOSE k \in 1..Len(g.syms) : g.syms[k] = x) - 1
Columns(g)     == 0..(Len(g.syms) - 1)

AreTables(g, acts, gts) ==
  /\ acts # << >> /\ acts \in Seq([Columns(g) -> RuleIds(g)])
  /\ gts \in [DOMAIN acts -> [Columns(g) -> 0..(Len(acts) - 1)]]

(***************************************************************************)
(* The arrays follow the automaton whose state s has the items its[s]:     *)
(* reductions are of completed items, in whatever column they stand, every *)
(* item of a transition's target was there before the symbol, nothing      *)
(* leads back to state 0, and state 1 has all of %start's rule behind it.  *)
(***************************************************************************)
GuidedBy(g, acts, gts, its) ==
  /\ \A p \in its[0] : p[2] = 0
  /\ <<0, 2>> \in its[1]
  /\ \A s \in 0..(Len(acts) - 1) :
       /\ \A c \in Columns(g) :
            acts[s + 1][c] # 0 => <<acts[s + 1][c], Length(g, acts[s + 1][c])>> \in its[s]
       /\ \A x \in g.terms \cup g.nonterms :
            LET t == gts[s + 1][SymbolId(g, x)]
            IN t # 0 => \A p \in its[t] :
                 p[2] # 0 => Rhs(g, p[1])[p[2]] = x /\ <<p[1], p[2] - 1>> \in its[s]
=============================================================================
