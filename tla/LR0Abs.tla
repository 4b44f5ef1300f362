------------------------------- MODULE LR0Abs -------------------------------
(***************************************************************************)
(* What lr0_build promises, without its hash table, closure buffers and    *)
(* order of work: the canonical collection of sets of LR(0) items.  A      *)
(* kernel is the set of items <<rule id, position>> a state starts from.   *)
(***************************************************************************)
EXTENDS Items

CONSTANT Grammars
VARIABLES gram, known, finished

absvars == <<gram, known, finished>>

\* The items of kernel k and the rules of every nonterminal in N, not begun.
WithRulesOf(g, k, N) == k \cup {<<r, 0>> : r \in {x \in RuleIds(g) : Lhs(g, x) \in N}}

\* The nonterminals that these items expect next.
Expected(g, items) == {AfterDot(g, p) : p \in {q \in items : ~ AtEnd(g, q)}} \cap g.nonterms

(***************************************************************************)
(* The closure of a kernel: with the rules of the nonterminals that are    *)
(* expected next by it, by those rules, and so on, which each turn adds    *)
(* one of, if it adds any.                                                 *)
(***************************************************************************)
Closure(g, k) ==
  LET turns == Cardinality(g.nonterms)
      expected[n \in 0..turns] ==
        IF n = 0 THEN {}
        ELSE UNION {Expected(g, WithRulesOf(g, k, N)) : N \in {expected[n - 1]}}
  IN WithRulesOf(g, k, expected[turns])

\* The kernels that the states with kernels K lead to.
Successors(g, k) ==
  LET c == Closure(g, k) IN {Advance(g, c, x) : x \in Symbols(g)} \ {{}}

FirstKernel == {<<0, 0>>}
LastKernel  == {<<0, 2>>}

AbsInit == gram \in Grammars /\ known = {} /\ finished = FALSE

Begin ==
  /\ known = {} /\ known' = {FirstKernel, LastKernel}
  /\ UNCHANGED <<gram, finished>>

Discover ==
  /\ ~ finished
  /\ \E k \in known : \E j \in Successors(gram, k) : known' = known \cup {j}
  /\ UNCHANGED <<gram, finished>>

Finish ==
  /\ ~ finished /\ known # {}
  /\ \A k \in known : Successors(gram, k) \subseteq known
  /\ finished' = TRUE
  /\ UNCHANGED <<gram, known>>

AbsNext == Begin \/ Discover \/ Finish
AbsSpec == AbsInit /\ [][AbsNext]_absvars /\ WF_absvars(Begin) /\ WF_absvars(Finish)
=============================================================================
