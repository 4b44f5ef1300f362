------------------------------- MODULE Items -------------------------------
(***************************************************************************)
(* LR(0) items, the "points" of lr0_i.h: <<rule id, position>>, and the    *)
(* operations on them that lr0.c and lalr.c share.                         *)
(***************************************************************************)
EXTENDS GrammarData, FiniteSets

AtEnd(g, p) == p[2] >= Length(g, p[1])

\* The symbol after the dot of an item that is not complete.
AfterDot(g, p) == Rhs(g, p[1])[p[2] + 1]

\* cmp_point: by rule id, then by position.
PointBefore(p, q) == p[1] < q[1] \/ (p[1] = q[1] /\ p[2] <= q[2])

\* The points of kernel k as qsort with cmp_point orders them.
Sorted(k) ==
  [i \in 1..Cardinality(k) |->
     CHOOSE p \in k : Cardinality({q \in k : PointBefore(q, p)}) = i]

\* The numbers of S in ascending order.
Ascending(S) ==
  [i \in 1..Cardinality(S) |-> CHOOSE n \in S : Cardinality({m \in S : m <= n}) = i]

\* The elements of list s at the places in S, in their order.
Chosen(s, S) == [k \in 1..Cardinality(S) |-> s[Ascending(S)[k]]]

\* Symbol s is behind the dot of one of the first n points of c.
Seen(g, c, n, s) == \E i \in 1..n : ~ AtEnd(g, c[i]) /\ AfterDot(g, c[i]) = s

\* Mutant: seen is never set.
AddRules_Again(g, c, n) ==
  IF ~ AtEnd(g, c[n]) /\ AfterDot(g, c[n]) \in g.nonterms
  THEN LET rs == g.rulesOf[AfterDot(g, c[n])]
       IN c \o [i \in 1..Len(rs) |-> <<rs[i], 0>>]
  ELSE c

(***************************************************************************)
(* One turn of lr0_closure's second loop: at point n of the buffer c, the  *)
(* rules of the nonterminal behind the dot are added once.                 *)
(***************************************************************************)
AddRules(g, c, n) ==
  IF ~ AtEnd(g, c[n]) /\ AfterDot(g, c[n]) \in g.nonterms
     /\ ~ Seen(g, c, n - 1, AfterDot(g, c[n]))
  THEN LET rs == g.rulesOf[AfterDot(g, c[n])]
       IN c \o [i \in 1..Len(rs) |-> <<rs[i], 0>>]
  ELSE c

\* What lr0_closure leaves in the buffer for kernel k.
ClosureOf(g, k) ==
  LET turns == Cardinality(k) + Cardinality(RuleIds(g))
      after[n \in 0..turns] ==
        IF n = 0 THEN Sorted(k)
        ELSE LET c == after[n - 1] IN IF n > Len(c) THEN c ELSE AddRules(g, c, n)
  IN after[turns]

\* The items of closure c that expect x, moved over it.
Advance(g, c, x) ==
  {<<p[1], p[2] + 1>> : p \in {q \in c : ~ AtEnd(g, q) /\ AfterDot(g, q) = x}}

-----------------------------------------------------------------------------
(* The automaton as its readers see it: sts[q + 1] is the state with id q. *)

\* The entries of q's gototab for symbol x, found by the target's access symbol.
Targets(sts, q, x) ==
  LET go == sts[q + 1].go IN {go[n] : n \in {k \in 1..Len(go) : sts[go[k] + 1].sym = x}}

\* lr0_goto_find, which needs the symbol to be in the table: any entry for it.
Goto(sts, q, x) == CHOOSE t \in Targets(sts, q, x) : TRUE

ClosureSet(g, k) == {ClosureOf(g, k)[n] : n \in 1..Len(ClosureOf(g, k))}

(***************************************************************************)
(* What lr0_build leaves, and the later passes rely on without a test.     *)
(***************************************************************************)
GototabExact(g, sts, q) ==
  LET c      == ClosureSet(g, sts[q + 1].kernel)
      tab    == sts[q + 1].go
      sym(n) == sts[tab[n] + 1].sym
  IN /\ tab \in Seq(0..(Len(sts) - 1))
     /\ \A n \in 1..Len(tab) :
          /\ sym(n) \in Symbols(g)
          /\ sts[tab[n] + 1].kernel = Advance(g, c, sym(n)) /\ Advance(g, c, sym(n)) # {}
     /\ \A x \in Symbols(g) : Advance(g, c, x) # {} => \E n \in 1..Len(tab) : sym(n) = x
     /\ \A m, n \in 1..Len(tab) : m < n => SymbolId(g, sym(m)) < SymbolId(g, sym(n))

IsAutomaton(g, sts) ==
  /\ Len(sts) \in Nat /\ Len(sts) >= 2
  /\ sts[1].kernel = {<<0, 0>>} /\ sts[2].kernel = {<<0, 2>>}
  /\ \A i, j \in 1..Len(sts) : sts[i].kernel = sts[j].kernel => i = j
  /\ \A i \in 1..Len(sts) :
       /\ IsFiniteSet(sts[i].kernel)
       /\ \A p \in sts[i].kernel :
            p \in RuleIds(g) \X Nat /\ p[2] <= Length(g, p[1]) /\ (i # 1 => p[2] >= 1)
  /\ \A q \in 0..(Len(sts) - 1) : GototabExact(g, sts, q)
  \* Every state but the two first is the target of an earlier one.
  /\ \A t \in 2..(Len(sts) - 1) : \E q \in 0..(t - 1) : Occurs(t, sts[q + 1].go)
=============================================================================
