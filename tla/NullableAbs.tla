---------------------------- MODULE NullableAbs ----------------------------
(***************************************************************************)
(* What nullable_find promises, without its queue and relation lists: the  *)
(* set of nonterminals known to derive the empty string only grows, one    *)
(* justified nonterminal at a time, and the search is over only when       *)
(* nothing more can be learnt.                                             *)
(***************************************************************************)
EXTENDS GrammarData

CONSTANT Grammars
VARIABLES gram, known, finished

absvars == <<gram, known, finished>>

\* Every symbol of the right side of rule r is in S.
AllIn(g, r, S) == \A i \in 1..Length(g, r) : Rhs(g, r)[i] \in S

\* No rule of a nonterminal can add its left side to S.
Closed(g, S) ==
  \A r \in RuleIds(g) : Lhs(g, r) \in g.nonterms /\ AllIn(g, r, S) => Lhs(g, r) \in S

(***************************************************************************)
(* The nonterminals that derive the empty string: the least closed set,    *)
(* stated without recursion.                                               *)
(***************************************************************************)
DerivesEmpty(g) ==
  {s \in g.nonterms : \A S \in SUBSET g.nonterms : Closed(g, S) => s \in S}

AbsInit == gram \in Grammars /\ known = {} /\ finished = FALSE

Learn ==
  /\ ~ finished
  /\ \E r \in RuleIds(gram) :
       /\ Lhs(gram, r) \in gram.nonterms \ known
       /\ AllIn(gram, r, known)
       /\ known' = known \cup {Lhs(gram, r)}
  /\ UNCHANGED <<gram, finished>>

Finish ==
  /\ ~ finished
  /\ Closed(gram, known)
  /\ finished' = TRUE
  /\ UNCHANGED <<gram, known>>

AbsNext == Learn \/ Finish
AbsSpec == AbsInit /\ [][AbsNext]_absvars /\ WF_absvars(AbsNext)
=============================================================================
