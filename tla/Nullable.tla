------------------------------ MODULE Nullable ------------------------------
(***************************************************************************)
(* nullable.c: which nonterminals derive the empty string, and for every   *)
(* rule its "non-nullable length" nnl.  A first pass over all rules queues *)
(* the left sides of empty rules and files every other rule under the last *)
(* symbol of its right side; a second pass takes nullable symbols from the *)
(* queue and shortens the rules filed under them.                          *)
(*                                                                         *)
(* The two lists are intrusive: a symbol is linked through its tmp.que_next*)
(* and a rule through its own, so a symbol queued twice or a rule filed    *)
(* twice would corrupt them.  Both are stacks: the head is the last added. *)
(***************************************************************************)
EXTENDS GrammarData

CONSTANT Grammars       \* the completed grammars the program may be run on

ASSUME GrammarsAreGrammars == \A g \in Grammars : IsGrammar(g)

VARIABLES
  gram,         \* the grammar; no action changes it
  pc,           \* "scan", "drain", "trim" (the do-while loop) or "done"
  si, ri,       \* scan position: rule number ri of symbol number si
  cur,          \* the symbol whose relation list is drained, or Nil
  rule,         \* the rule taken from that list, or Nil
  nullable,     \* the symbols whose nullable flag is set
  nnl,          \* the nnl field of each rule
  queue,        \* symbols to drain
  relations     \* nonterminal |-> rules filed under it

vars == <<gram, pc, si, ri, cur, rule, nullable, nnl, queue, relations>>

Init ==
  /\ gram \in Grammars
  /\ pc = "scan" /\ si = 1 /\ ri = 1
  /\ cur = Nil /\ rule = Nil
  /\ nullable = {} /\ queue = << >>
  /\ nnl = [r \in RuleIds(gram) |-> 0]
  /\ relations = [s \in gram.nonterms |-> << >>]

\* Mutant: a left side that is nullable already is queued again.
EnqueueIfNeeded_NoCheck(r, n) ==
  LET lhs == Lhs(gram, r) IN
  /\ nnl' = [nnl EXCEPT ![r] = n]
  /\ nullable' = IF n = 0 THEN nullable \cup {lhs} ELSE nullable
  /\ queue' = IF n = 0 THEN <<lhs>> \o queue ELSE queue
  /\ relations' = IF n = 0 \/ Rhs(gram, r)[n] \notin gram.nonterms THEN relations
                  ELSE [relations EXCEPT ![Rhs(gram, r)[n]] = <<r>> \o @]

(***************************************************************************)
(* enqueue_rule_if_needed on rule r once its nnl is n.  A rule of a symbol *)
(* already nullable is left as it is; so is one whose last relevant symbol *)
(* is a terminal.                                                          *)
(***************************************************************************)
EnqueueIfNeeded(r, n) ==
  LET lhs == Lhs(gram, r) IN
  /\ nnl' = [nnl EXCEPT ![r] = n]
  /\ \/ /\ lhs \in nullable
        /\ UNCHANGED <<nullable, queue, relations>>
     \/ /\ lhs \notin nullable /\ n = 0
        /\ nullable' = nullable \cup {lhs}
        /\ queue' = <<lhs>> \o queue
        /\ UNCHANGED relations
     \/ /\ lhs \notin nullable /\ n # 0 /\ Rhs(gram, r)[n] \in gram.nonterms
        /\ relations' = [relations EXCEPT ![Rhs(gram, r)[n]] = <<r>> \o @]
        /\ UNCHANGED <<nullable, queue>>
     \/ /\ lhs \notin nullable /\ n # 0 /\ Rhs(gram, r)[n] \notin gram.nonterms
        /\ UNCHANGED <<nullable, queue, relations>>

-----------------------------------------------------------------------------
(* First pass: every rule of every NONTERMINAL, in symbol-list order.      *)

HasRuleAt(i, j) ==
  i <= Len(gram.syms) /\ gram.syms[i] \in gram.nonterms /\ j <= Len(gram.rulesOf[gram.syms[i]])

ScanRule ==
  /\ pc = "scan" /\ HasRuleAt(si, ri)
  /\ LET r == gram.rulesOf[gram.syms[si]][ri] IN EnqueueIfNeeded(r, Length(gram, r))
  /\ ri' = ri + 1
  /\ UNCHANGED <<gram, pc, si, cur, rule>>

NextSymbol ==
  /\ pc = "scan" /\ si <= Len(gram.syms) /\ ~ HasRuleAt(si, ri)
  /\ si' = si + 1 /\ ri' = 1
  /\ UNCHANGED <<gram, pc, cur, rule, nullable, nnl, queue, relations>>

EndScan ==
  /\ pc = "scan" /\ si > Len(gram.syms)
  /\ pc' = "drain"
  /\ UNCHANGED <<gram, si, ri, cur, rule, nullable, nnl, queue, relations>>

-----------------------------------------------------------------------------
(* Second pass: drain the relation list of each queued symbol.             *)

Drained == IF cur = Nil THEN TRUE ELSE relations[cur] = << >>

PopSymbol ==
  /\ pc = "drain" /\ Drained /\ queue # << >>
  /\ cur' = Head(queue) /\ queue' = Tail(queue)
  /\ UNCHANGED <<gram, pc, si, ri, rule, nullable, nnl, relations>>

\* Mutant: nnl is decremented once more.
TakeRule_Twice ==
  /\ pc = "drain" /\ ~ Drained
  /\ rule' = Head(relations[cur])
  /\ relations' = [relations EXCEPT ![cur] = Tail(@)]
  /\ nnl' = [nnl EXCEPT ![Head(relations[cur])] = @ - 2]
  /\ pc' = "trim"
  /\ UNCHANGED <<gram, si, ri, cur, nullable, queue>>

\* Unlinks the rule and makes the first turn of the do-while loop.
TakeRule ==
  /\ pc = "drain" /\ ~ Drained
  /\ rule' = Head(relations[cur])
  /\ relations' = [relations EXCEPT ![cur] = Tail(@)]
  /\ nnl' = [nnl EXCEPT ![Head(relations[cur])] = @ - 1]
  /\ pc' = "trim"
  /\ UNCHANGED <<gram, si, ri, cur, nullable, queue>>

\* Mutants: the do-while loop makes one turn; it does not look at the flag.
MayTrim_Once == FALSE
MayTrim_Any  == nnl[rule] # 0

MayTrim == IF nnl[rule] = 0 THEN FALSE ELSE Rhs(gram, rule)[nnl[rule]] \in nullable

\* Mutant: the loop forgets to count down.
Trim_NoStep == pc = "trim" /\ MayTrim /\ UNCHANGED vars

Trim ==
  /\ pc = "trim" /\ MayTrim
  /\ nnl' = [nnl EXCEPT ![rule] = @ - 1]
  /\ UNCHANGED <<gram, pc, si, ri, cur, rule, nullable, queue, relations>>

Refile ==
  /\ pc = "trim" /\ ~ MayTrim
  /\ EnqueueIfNeeded(rule, nnl[rule])
  /\ rule' = Nil /\ pc' = "drain"
  /\ UNCHANGED <<gram, si, ri, cur>>

Finish ==
  /\ pc = "drain" /\ Drained /\ queue = << >>
  /\ pc' = "done"
  /\ UNCHANGED <<gram, si, ri, cur, rule, nullable, nnl, queue, relations>>

Next ==
  \/ ScanRule \/ NextSymbol \/ EndScan
  \/ PopSymbol \/ TakeRule \/ Trim \/ Refile \/ Finish

\* The function runs to its end once called: nothing can stop its loop.
Spec == Init /\ [][Next]_vars /\ WF_vars(Next)

-----------------------------------------------------------------------------
(* Properties.                                                             *)

TypeOK ==
  /\ gram \in Grammars
  /\ pc \in {"scan", "drain", "trim", "done"}
  /\ si \in Nat \ {0} /\ ri \in Nat \ {0}
  /\ cur \in gram.nonterms \cup {Nil}
  /\ rule \in (RuleIds(gram) \ {0}) \cup {Nil}
  /\ pc = "trim" => rule # Nil
  /\ nullable \in SUBSET gram.nonterms
  /\ nnl \in [RuleIds(gram) -> Nat]
  /\ \A r \in RuleIds(gram) : nnl[r] <= Length(gram, r)
  /\ queue \in Seq(gram.nonterms)
  /\ relations \in [gram.nonterms -> Seq(RuleIds(gram) \ {0})]

A == INSTANCE NullableAbs WITH known <- nullable, finished <- (pc = "done")

(***************************************************************************)
(* The search refines its promise: each step of it learns at most one      *)
(* justified nonterminal, and it ends exactly when there is no more.       *)
(***************************************************************************)
Refines == A!AbsSpec

(***************************************************************************)
(* When the function returns, a symbol's flag is set if and only if it     *)
(* derives the empty string (lalr.c's find_reads trusts the flag).         *)
(***************************************************************************)
ExactAtEnd == pc = "done" => nullable = A!DerivesEmpty(gram)

\* The symbols of rule r behind its nnl are nullable.
NnlSound(r) == \A i \in nnl[r] + 1 .. Length(gram, r) : Rhs(gram, r)[i] \in nullable

(***************************************************************************)
(* nnl of a rule whose left side turned out not nullable is exact at the   *)
(* end: its last symbol counted is the last that derives no empty string.  *)
(* (For the other rules nnl may be too large; see NnlIsNonNullableLength.) *)
(***************************************************************************)
NnlExactForNonNullable ==
  pc = "done" =>
    \A r \in RuleIds(gram) \ {0} :
      Lhs(gram, r) \notin nullable =>
        /\ NnlSound(r)
        /\ nnl[r] # 0
        /\ Rhs(gram, r)[nnl[r]] \notin nullable

(***************************************************************************)
(* grammar_i.h calls nnl the "non-nullable length" of a rule, and          *)
(* find_lookback_includes uses it so: every symbol after it is nullable    *)
(* and the symbol at it, if any, is not.                                   *)
(***************************************************************************)
NnlIsNonNullableLength ==
  pc = "done" =>
    \A r \in RuleIds(gram) \ {0} :
      NnlSound(r) /\ (nnl[r] # 0 => Rhs(gram, r)[nnl[r]] \notin nullable)

FiledUnder(r, s) == Occurs(r, relations[s])

(***************************************************************************)
(* The intrusive links are never shared: a symbol is in the queue at most  *)
(* once, a rule in at most one relation list, once, and never while it is  *)
(* being shortened; and a rule is filed under the symbol its nnl points at.*)
(***************************************************************************)
IntrusiveListsSound ==
  /\ NoRepeats(queue)
  /\ \A s \in gram.nonterms :
       /\ NoRepeats(relations[s])
       /\ \A r \in RuleIds(gram) :
            FiledUnder(r, s) => /\ rule # r
                                /\ nnl[r] # 0
                                /\ Rhs(gram, r)[nnl[r]] = s

\* nullable_find returns on every grammar.
Terminates == <>(pc = "done")

-----------------------------------------------------------------------------
(***************************************************************************)
(* The inductive invariant behind the safety properties.                   *)
(***************************************************************************)

\* The first pass has been at rule r.
Scanned(r) ==
  \E i \in 1..Len(gram.syms), j \in 1..Len(gram.rulesOf[Lhs(gram, r)]) :
    /\ gram.syms[i] = Lhs(gram, r) /\ gram.rulesOf[Lhs(gram, r)][j] = r
    /\ i < si \/ (i = si /\ j < ri)

Passes ==
  /\ pc = "scan" => cur = Nil /\ \A s \in nullable : Occurs(s, queue)
  /\ pc # "scan" => si > Len(gram.syms)
  /\ pc = "done" => queue = << >> /\ Drained
  /\ rule # Nil => pc = "trim"
  /\ cur # Nil => cur \in nullable
  /\ \A i \in 1..Len(queue) : queue[i] \in nullable

Filed ==
  \A r \in RuleIds(gram) \ {0}, s \in gram.nonterms : FiledUnder(r, s) => Scanned(r)

Shortened == \A r \in RuleIds(gram) \ {0} : Scanned(r) => NnlSound(r)

\* A rule that may still make its left side nullable waits for a symbol.
Waiting ==
  \A r \in RuleIds(gram) \ {0} :
    Scanned(r) /\ Lhs(gram, r) \notin nullable /\ r # rule =>
      /\ nnl[r] # 0
      /\ Rhs(gram, r)[nnl[r]] \in gram.nonterms => FiledUnder(r, Rhs(gram, r)[nnl[r]])

\* A nullable symbol that rules wait for has yet to be drained.
Pending == \A s \in nullable : relations[s] # << >> => s = cur \/ Occurs(s, queue)

Justified == \A S \in SUBSET gram.nonterms : A!Closed(gram, S) => nullable \subseteq S

IInv ==
  /\ TypeOK /\ IntrusiveListsSound /\ Passes /\ Filed
  /\ Shortened /\ Waiting /\ Pending /\ Justified
=============================================================================
