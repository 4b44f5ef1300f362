----------------------------- MODULE LR0Proofs -----------------------------
(***************************************************************************)
(* Proofs about LR0.  The inductive invariant IInv says which kernels the  *)
(* list of states and the hash table hold, how far the closure in the      *)
(* buffer is, and which entries the gototab being filled has.              *)
(***************************************************************************)
EXTENDS LR0, ListLemmas

Points(g) == {p \in RuleIds(g) \X Nat : p[2] <= Length(g, p[1])}

-----------------------------------------------------------------------------
(* The grammar.                                                            *)

\* What the assumption says of a grammar's rules and symbols.
LEMMA GramFacts ==
  ASSUME NEW g \in Grammars
  PROVE  /\ 0 \in RuleIds(g) /\ RuleIds(g) \subseteq Nat /\ IsFiniteSet(RuleIds(g))
         /\ \A r \in RuleIds(g) :
              /\ Rhs(g, r) \in Seq(g.terms \cup g.nonterms) /\ Length(g, r) \in Nat
              /\ \A n \in 1..Length(g, r) : Rhs(g, r)[n] \in g.terms \cup g.nonterms
              /\ Lhs(g, r) \in g.nonterms <=> r # 0
              /\ \A n \in 1..Length(g, r) : Rhs(g, r)[n] = Eof <=> r = 0 /\ n = 2
         /\ Length(g, 0) = 2
         /\ g.terms \subseteq Symbols(g) /\ g.nonterms \subseteq Symbols(g)
         /\ Eof \in g.terms /\ Eof \notin g.nonterms
         /\ IsFiniteSet(Symbols(g)) /\ IsFiniteSet(g.nonterms)
<1>1. /\ IsGrammar(g) /\ IsFiniteSet(RuleIds(g)) /\ Length(g, 0) = 2
      /\ \A r \in RuleIds(g) : \A n \in 1..Length(g, r) : Rhs(g, r)[n] = Eof <=> r = 0 /\ n = 2
  BY GrammarsAreGrammars
<1>2. /\ 0 \in RuleIds(g) /\ RuleIds(g) \subseteq Nat
      /\ g.terms \subseteq Symbols(g) /\ g.nonterms \subseteq Symbols(g)
      /\ Eof \in g.terms /\ Eof \notin g.nonterms
  BY <1>1 DEF IsGrammar, Symbols
<1>3. ASSUME NEW r \in RuleIds(g)
      PROVE  /\ Rhs(g, r) \in Seq(g.terms \cup g.nonterms) /\ Length(g, r) \in Nat
             /\ \A n \in 1..Length(g, r) : Rhs(g, r)[n] \in g.terms \cup g.nonterms
             /\ Lhs(g, r) \in g.nonterms <=> r # 0
  <2>1. Rhs(g, r) \in Seq(g.terms \cup g.nonterms)
    BY <1>1 DEF IsGrammar
  <2>2. Lhs(g, r) \in g.nonterms <=> r # 0
    BY <1>1 DEF IsGrammar
  <2> QED BY <2>1, <2>2, LenProperties, ElementOfSeq DEF Length
<1>4. IsFiniteSet(Symbols(g))
  <2>1. g.syms \in Seq(Symbols(g)) /\ \A s \in Symbols(g) : Occurs(s, g.syms)
    BY <1>1 DEF IsGrammar
  <2>2. Len(g.syms) \in Nat /\ g.syms \in [1..Len(g.syms) -> Symbols(g)]
    BY <2>1, LenProperties
  <2>3. g.syms \in Surjection(1..Len(g.syms), Symbols(g))
    BY <2>1, <2>2 DEF Surjection, Occurs
  <2>4. IsFiniteSet(1..Len(g.syms))
    BY <2>2, FS_Interval
  <2> QED BY <2>3, <2>4, FS_Surjection
<1>5. IsFiniteSet(g.nonterms)
  BY <1>2, <1>4, FS_Subset
<1> QED BY <1>1, <1>2, <1>3, <1>4, <1>5

\* LR0Abs speaks of items in the same words.
LEMMA AbsOperators ==
  /\ \A S : A!Cardinality(S) = Cardinality(S)
  /\ \A g : A!RuleIds(g) = RuleIds(g) /\ A!Symbols(g) = Symbols(g)
  /\ \A g, k, N : A!WithRulesOf(g, k, N) =
       k \cup {<<r, 0>> : r \in {x \in RuleIds(g) : Lhs(g, x) \in N}}
  /\ \A g, items : A!Expected(g, items) =
       {AfterDot(g, p) : p \in {q \in items : ~ AtEnd(g, q)}} \cap g.nonterms
  /\ \A g, c, x : A!Advance(g, c, x) =
       {<<p[1], p[2] + 1>> : p \in {q \in c : ~ AtEnd(g, q) /\ AfterDot(g, q) = x}}
<1>1. \A S : A!Cardinality(S) = Cardinality(S)
  BY DEF A!Cardinality, Cardinality, A!IsFiniteSet, IsFiniteSet
<1>2. \A g : A!RuleIds(g) = RuleIds(g) /\ A!Symbols(g) = Symbols(g)
  BY DEF A!RuleIds, RuleIds, A!Symbols, Symbols
<1>3. \A g, r : A!Lhs(g, r) = Lhs(g, r)
  BY DEF A!Lhs, Lhs
<1>4. \A g, p : (A!AtEnd(g, p) <=> AtEnd(g, p)) /\ A!AfterDot(g, p) = AfterDot(g, p)
  BY DEF A!AtEnd, AtEnd, A!AfterDot, AfterDot, A!Length, Length, A!Rhs, Rhs
<1>5. \A g, k, N : A!WithRulesOf(g, k, N) =
        k \cup {<<r, 0>> : r \in {x \in RuleIds(g) : Lhs(g, x) \in N}}
  BY <1>2, <1>3 DEF A!WithRulesOf
<1>6. \A g, items : A!Expected(g, items) =
        {AfterDot(g, p) : p \in {q \in items : ~ AtEnd(g, q)}} \cap g.nonterms
  BY <1>4 DEF A!Expected
<1>7. \A g, c, x : A!Advance(g, c, x) =
        {<<p[1], p[2] + 1>> : p \in {q \in c : ~ AtEnd(g, q) /\ AfterDot(g, q) = x}}
  BY <1>4 DEF A!Advance
<1> QED BY <1>1, <1>2, <1>5, <1>6, <1>7

\* What it says of the list of a nonterminal's rules.
LEMMA RulesOfFacts ==
  ASSUME NEW g \in Grammars, NEW s \in g.nonterms
  PROVE  /\ g.rulesOf[s] \in Seq(RuleIds(g)) /\ NoRepeats(g.rulesOf[s])
         /\ \A r \in RuleIds(g) : Lhs(g, r) = s <=> Occurs(r, g.rulesOf[s])
<1>1. IsGrammar(g)
  BY GrammarsAreGrammars
<1>2. g.rulesOf \in [g.nonterms -> Seq(RuleIds(g))]
  BY <1>1 DEF IsGrammar
<1>3. NoRepeats(g.rulesOf[s]) /\ \A r \in RuleIds(g) : Lhs(g, r) = s <=> Occurs(r, g.rulesOf[s])
  BY <1>1 DEF IsGrammar
<1> QED BY <1>2, <1>3

-----------------------------------------------------------------------------
(* The closure that LR0Abs defines turn by turn is a least fixed point.    *)

\* One turn of it, and the function of all turns, given that one exists.
Turn(g, k, N) == A!Expected(g, A!WithRulesOf(g, k, N))
Turns(g, k, t) ==
  CHOOSE e : e = [n \in 0..t |-> IF n = 0 THEN {} ELSE UNION {Turn(g, k, N) : N \in {e[n - 1]}}]

\* The function of all turns exists: it is built up from turn to turn.
LEMMA TurnsDefined ==
  ASSUME NEW g, NEW k, NEW t \in Nat
  PROVE  /\ Turns(g, k, t)[0] = {}
         /\ \A n \in 1..t : Turns(g, k, t)[n] = Turn(g, k, Turns(g, k, t)[n - 1])
         /\ \A n \in 0..t : Turns(g, k, t)[n] \subseteq g.nonterms
<1> DEFINE T == SUBSET g.nonterms
           Runs(m, h) == h[0] = {} /\ \A n \in 1..m : h[n] = Turn(g, k, h[n - 1])
           S == {m \in Nat : \E h \in [0..m -> T] : Runs(m, h)}
           f == Turns(g, k, t)
<1>1. \A N : Turn(g, k, N) \in T
  BY DEF Turn, A!Expected
<1> HIDE DEF T
<1>2. 0 \in S
  <2>1. [n \in 0..0 |-> {}] \in [0..0 -> T]
    BY DEF T
  <2>2. Runs(0, [n \in 0..0 |-> {}])
    OBVIOUS
  <2> QED BY <2>1, <2>2
<1>3. ASSUME NEW m \in Nat, m \in S PROVE m + 1 \in S
  <2>1. PICK h \in [0..m -> T] : Runs(m, h)
    BY <1>3
  <2> DEFINE j == [n \in 0..(m + 1) |-> IF n = m + 1 THEN Turn(g, k, h[m]) ELSE h[n]]
  <2>2. j \in [0..(m + 1) -> T]
    BY <1>1
  <2>3. \A n \in 0..m : j[n] = h[n]
    OBVIOUS
  <2>4. j[m + 1] = Turn(g, k, j[m])
    OBVIOUS
  <2> HIDE DEF j
  <2>5. ASSUME NEW n \in 1..(m + 1) PROVE j[n] = Turn(g, k, j[n - 1])
    <3>1. CASE n = m + 1
      BY <2>4, <3>1
    <3>2. CASE n # m + 1
      <4>1. n \in 1..m /\ n \in 0..m /\ n - 1 \in 0..m
        BY <3>2
      <4> QED BY <4>1, <2>1, <2>3
    <3> QED BY <3>1, <3>2
  <2>6. Runs(m + 1, j)
    BY <2>5, <2>3, <2>1
  <2> QED BY <2>2, <2>6
<1>4. t \in S
  <2> HIDE DEF S
  <2> QED BY <1>2, <1>3, SetInduction
<1>5. PICK h \in [0..t -> T] : Runs(t, h)
  BY <1>4
<1>6. ASSUME NEW n \in 0..t
      PROVE  h[n] = IF n = 0 THEN {} ELSE UNION {Turn(g, k, N) : N \in {h[n - 1]}}
  <2>1. CASE n = 0
    BY <2>1, <1>5
  <2>2. CASE n # 0
    <3>1. n \in 1..t /\ h[n] = Turn(g, k, h[n - 1])
      BY <2>2, <1>5
    <3>2. UNION {Turn(g, k, N) : N \in {h[n - 1]}} = Turn(g, k, h[n - 1])
      OBVIOUS
    <3> QED BY <3>1, <3>2, <2>2
  <2> QED BY <2>1, <2>2
<1>7. h = [n \in 0..t |-> IF n = 0 THEN {} ELSE UNION {Turn(g, k, N) : N \in {h[n - 1]}}]
  BY <1>6
<1>8. f = [n \in 0..t |-> IF n = 0 THEN {} ELSE UNION {Turn(g, k, N) : N \in {f[n - 1]}}]
  BY <1>7 DEF Turns
<1>9. \A N : UNION {Turn(g, k, M) : M \in {N}} = Turn(g, k, N)
  OBVIOUS
<1> HIDE DEF f
<1>10. f[0] = {}
  BY <1>8
<1>11. ASSUME NEW n \in 1..t PROVE f[n] = Turn(g, k, f[n - 1])
  <2>1. n \in 0..t /\ n # 0
    OBVIOUS
  <2>2. f[n] = IF n = 0 THEN {} ELSE UNION {Turn(g, k, N) : N \in {f[n - 1]}}
    BY <1>8, <2>1, Zenon
  <2> QED BY <2>1, <2>2, <1>9
<1>12. ASSUME NEW n \in 0..t PROVE f[n] \subseteq g.nonterms
  BY <1>10, <1>11, <1>1 DEF T
<1> QED BY <1>10, <1>11, <1>12 DEF f
\* More nonterminals expected give no fewer after the next turn.
LEMMA TurnMonotone ==
  ASSUME NEW g, NEW k, NEW M, NEW N, M \subseteq N
  PROVE  Turn(g, k, M) \subseteq Turn(g, k, N)
BY AbsOperators DEF Turn

\* The turns only add, and each adds something until one adds nothing.
LEMMA TurnsGrow ==
  ASSUME NEW g, NEW k, NEW t \in Nat, IsFiniteSet(g.nonterms), t >= Cardinality(g.nonterms)
  PROVE  Turn(g, k, Turns(g, k, t)[t]) = Turns(g, k, t)[t]
<1> DEFINE f == Turns(g, k, t)
           S == {n \in Nat : n <= t => f[n] \subseteq Turn(g, k, f[n])}
           R == {n \in Nat : n <= t => Turn(g, k, f[n]) = f[n] \/ Cardinality(f[n]) >= n}
<1>1. /\ f[0] = {}
      /\ \A n \in 1..t : f[n] = Turn(g, k, f[n - 1])
      /\ \A n \in 0..t : f[n] \subseteq g.nonterms
  BY TurnsDefined
<1> HIDE DEF f
<1>2. Nat \subseteq S
  <2>1. 0 \in S
    BY <1>1
  <2>2. ASSUME NEW n \in Nat, n \in S PROVE n + 1 \in S
    <3> SUFFICES ASSUME n + 1 <= t PROVE f[n + 1] \subseteq Turn(g, k, f[n + 1])
      OBVIOUS
    <3>1. n + 1 \in 1..t /\ (n + 1) - 1 = n
      OBVIOUS
    <3>2. f[n + 1] = Turn(g, k, f[n])
      BY <3>1, <1>1
    <3>3. f[n] \subseteq f[n + 1]
      BY <3>2, <2>2
    <3> QED BY <3>2, <3>3, TurnMonotone
  <2> HIDE DEF S
  <2> QED BY <2>1, <2>2, SetInduction
<1>3. \A n \in 0..t : IsFiniteSet(f[n]) /\ Cardinality(f[n]) \in Nat
  BY <1>1, FS_Subset, FS_CardinalityType
<1>4. Nat \subseteq R
  <2>1. 0 \in R
    BY <1>3
  <2>2. ASSUME NEW n \in Nat, n \in R PROVE n + 1 \in R
    <3> SUFFICES ASSUME n + 1 <= t, Turn(g, k, f[n + 1]) # f[n + 1]
                 PROVE  Cardinality(f[n + 1]) >= n + 1
      OBVIOUS
    <3>1. n + 1 \in 1..t /\ (n + 1) - 1 = n /\ n \in 0..t /\ n + 1 \in 0..t /\ n <= t
      OBVIOUS
    <3>2. f[n + 1] = Turn(g, k, f[n])
      BY <3>1, <1>1
    <3>3. f[n] \subseteq f[n + 1] /\ f[n] # f[n + 1]
      BY <3>1, <3>2, <1>2
    <3>4. Cardinality(f[n]) <= Cardinality(f[n + 1]) /\ Cardinality(f[n]) # Cardinality(f[n + 1])
      BY <3>1, <3>3, <1>3, FS_Subset
    <3>5. Cardinality(f[n]) >= n
      BY <3>1, <3>2, <3>3, <2>2
    <3> QED BY <3>1, <3>4, <3>5, <1>3
  <2> HIDE DEF R
  <2> QED BY <2>1, <2>2, SetInduction
<1>5. Turn(g, k, f[t]) = f[t] \/ Cardinality(f[t]) >= t
  BY <1>4
<1>6. f[t] \subseteq Turn(g, k, f[t])
  BY <1>2
<1>7. ASSUME Cardinality(f[t]) >= t PROVE Turn(g, k, f[t]) = f[t]
  <2>1. f[t] \subseteq g.nonterms /\ Cardinality(f[t]) \in Nat /\ Cardinality(g.nonterms) \in Nat
    BY <1>1, <1>3, FS_CardinalityType
  <2>2. f[t] = g.nonterms
    BY <2>1, <1>7, FS_Subset
  <2>3. Turn(g, k, f[t]) \subseteq g.nonterms
    BY DEF Turn, A!Expected
  <2> QED BY <2>2, <2>3, <1>6
<1> QED BY <1>5, <1>7 DEF f

\* D has the rules of every nonterminal that its items expect.
Closed(g, D) == \A r \in RuleIds(g) : Lhs(g, r) \in A!Expected(g, D) => <<r, 0>> \in D

(***************************************************************************)
(* The closure of kernel k is the least set of items that has k and the    *)
(* rules of all nonterminals it expects.                                   *)
(***************************************************************************)
LEMMA ClosureFacts ==
  ASSUME NEW g, IsFiniteSet(g.nonterms), NEW k
  PROVE  /\ k \subseteq A!Closure(g, k)
         /\ \A p \in A!Closure(g, k) :
              p \in k \/ \E r \in RuleIds(g) : p = <<r, 0>> /\ Lhs(g, r) \in g.nonterms
         /\ Closed(g, A!Closure(g, k))
         /\ \A D : k \subseteq D /\ Closed(g, D) => A!Closure(g, k) \subseteq D
<1> DEFINE t == Cardinality(g.nonterms)
           f == Turns(g, k, t)
           c == A!WithRulesOf(g, k, f[t])
<1>1. A!Closure(g, k) = c
  BY AbsOperators DEF A!Closure, Turns, Turn
<1>2. t \in Nat
  BY FS_CardinalityType
<1>3. /\ f[0] = {}
      /\ \A n \in 1..t : f[n] = Turn(g, k, f[n - 1])
      /\ \A n \in 0..t : f[n] \subseteq g.nonterms
  BY <1>2, TurnsDefined
<1>4. A!Expected(g, c) = f[t]
  BY <1>2, TurnsGrow DEF Turn
<1> HIDE DEF f, t
<1>5. /\ k \subseteq c /\ Closed(g, c)
      /\ \A p \in c : p \in k \/ \E r \in RuleIds(g) : p = <<r, 0>> /\ Lhs(g, r) \in g.nonterms
  BY <1>2, <1>3, <1>4, AbsOperators DEF Closed
<1>6. ASSUME NEW D, k \subseteq D, Closed(g, D) PROVE c \subseteq D
  <2> DEFINE S == {n \in Nat : n <= t => f[n] \subseteq A!Expected(g, D)}
  <2>1. ASSUME NEW N, N \subseteq A!Expected(g, D) PROVE A!WithRulesOf(g, k, N) \subseteq D
    BY <1>6, <2>1, AbsOperators DEF Closed
  <2>2. 0 \in S
    BY <1>3
  <2>3. ASSUME NEW n \in Nat, n \in S PROVE n + 1 \in S
    <3> SUFFICES ASSUME n + 1 <= t PROVE f[n + 1] \subseteq A!Expected(g, D)
      OBVIOUS
    <3>1. f[n + 1] = A!Expected(g, A!WithRulesOf(g, k, f[n]))
      <4>1. n + 1 \in 1..t /\ (n + 1) - 1 = n
        BY <1>2
      <4> QED BY <4>1, <1>3 DEF Turn
    <3>2. A!WithRulesOf(g, k, f[n]) \subseteq D
      BY <2>1, <2>3, <1>2
    <3> QED BY <3>1, <3>2, AbsOperators
  <2>4. Nat \subseteq S
    <3> HIDE DEF S
    <3> QED BY <2>2, <2>3, SetInduction
  <2> QED BY <2>4, <2>1, <1>2
<1> QED BY <1>1, <1>5, <1>6
-----------------------------------------------------------------------------
(* The inductive invariant.                                                *)

StateRecords(g) ==
  [sym : Symbols(g) \cup {Nil}, kernel : SUBSET Points(g), nclosure : Nat, go : Seq(Nat)]

TypeOK ==
  /\ gram \in Grammars
  /\ pc \in {"build", "closure", "commit", "done"}
  /\ states \in Seq(StateRecords(gram))
  /\ IF pc = "build" THEN states = << >> /\ cur = 0 ELSE cur < Len(states)
  /\ \A h \in DOMAIN buckets : buckets[h] \in Seq(Nat)
  /\ cur \in Nat
  /\ closure \in Seq(Points(gram)) /\ ir \in Nat
  /\ todo \subseteq Symbols(gram)
  /\ go \in Seq(Nat)

(***************************************************************************)
(* States 0 and 1 are the reserved ones, and every later kernel, like that *)
(* of state 1, has only points whose dot is behind the access symbol.      *)
(***************************************************************************)
KernelsIn(g, sts) ==
  /\ Len(sts) >= 2 /\ sts[1].kernel = {<<0, 0>>}
  /\ sts[2].kernel = {<<0, 2>>} /\ sts[2].sym = Eof
  /\ \A i \in 1..Len(sts) : IsFiniteSet(sts[i].kernel)
  /\ \A i \in 2..Len(sts) :
       /\ sts[i].kernel # {} /\ sts[i].sym \in Symbols(g)
       /\ \A p \in sts[i].kernel : p[2] >= 1 /\ Rhs(g, p[1])[p[2]] = sts[i].sym

KernelsMoved == pc # "build" => KernelsIn(gram, states)

\* Every state but state 0 is in the bucket of its hash, and only such states are in buckets.
Filed(a, sts, bks) ==
  /\ \A h \in DOMAIN bks : \A n \in 1..Len(bks[h]) : bks[h][n] + 1 \in 2..Len(sts)
  /\ \A i \in 2..Len(sts) :
       LET h == HashOf(a, sts[i].kernel) IN h \in DOMAIN bks /\ Occurs(i - 1, bks[h])

Hashed == pc \in {"closure", "commit"} => Filed(addr, states, buckets)

\* Nonterminal s is behind the dot of one of the points of c before point n.
ReadBefore(g, c, n, s) == s \in g.nonterms /\ Seen(g, c, n - 1, s)

(***************************************************************************)
(* When lr0_closure is to read point n of its buffer c, that holds the     *)
(* kernel K and behind it the rules of the nonterminals read so far, each  *)
(* once, and nothing that is not in the closure.                           *)
(***************************************************************************)
BufferOf(g, c, n, K) ==
  LET m == Cardinality(K) IN
  /\ m <= Len(c) /\ n \in 1..(Len(c) + 1)
  /\ K = {c[i] : i \in 1..m}
  /\ NoRepeats(c)
  /\ \A i \in (m + 1)..Len(c) : c[i][2] = 0 /\ ReadBefore(g, c, n, Lhs(g, c[i][1]))
  /\ \A r \in RuleIds(g) : ReadBefore(g, c, n, Lhs(g, r)) => Occurs(<<r, 0>>, c)
  /\ \A i \in 1..Len(c) : c[i] \in A!Closure(g, K)

Closing == pc \in {"closure", "commit"} => BufferOf(gram, closure, ir, states[cur + 1].kernel)

\* The symbols behind the dots of closure c.
Leads(g, c) == {x \in Symbols(g) : A!Advance(g, c, x) # {}}

IdIn(g, x) == CHOOSE n \in 1..Len(g.syms) : g.syms[n] = x

\* tab leads from closure c, by symbol id, to the states for the symbols in S.
TabOver(g, sts, c, S, tab) ==
  /\ \A n \in 1..Len(tab) :
       /\ tab[n] + 1 \in 1..Len(sts)
       /\ sts[tab[n] + 1].sym \in S
       /\ sts[tab[n] + 1].kernel = A!Advance(g, c, sts[tab[n] + 1].sym)
  /\ \A x \in S : \E n \in 1..Len(tab) : sts[tab[n] + 1].sym = x
  /\ \A m, n \in 1..Len(tab) :
       m < n => IdIn(g, sts[tab[m] + 1].sym) < IdIn(g, sts[tab[n] + 1].sym)

\* The gototab has the states for the symbols that are not to do, which have smaller ids.
Committed(g, sts, c, S, tab) ==
  /\ S \subseteq Leads(g, c)
  /\ TabOver(g, sts, c, Leads(g, c) \ S, tab)
  /\ \A n \in 1..Len(tab) : \A x \in S : IdIn(g, sts[tab[n] + 1].sym) < IdIn(g, x)

Committing ==
  pc = "commit" =>
    /\ ir = Len(closure) + 1
    /\ Committed(gram, states, A!Closure(gram, states[cur + 1].kernel), todo, go)

\* The gototab of the i-th state is complete.
TabExact(g, sts, i) ==
  LET c == A!Closure(g, sts[i].kernel) IN TabOver(g, sts, c, Leads(g, c), sts[i].go)

\* The states before the one at hand have their gototabs, the others none.
TabsFilled ==
  \A i \in 1..Len(states) :
    IF i <= cur \/ pc = "done" THEN TabExact(gram, states, i) ELSE states[i].go = << >>

IInv ==
  /\ TypeOK /\ KernelsMoved /\ Hashed /\ KernelsUnique
  /\ Closing /\ Committing /\ TabsFilled
-----------------------------------------------------------------------------
(* Points and symbols in order.                                            *)

\* The rank of a point of k among the points of k.
Below(k, p) == {q \in k : PointBefore(q, p)}

\* Sorting a finite set of points lists each point once.
LEMMA SortedFacts ==
  ASSUME NEW T \in SUBSET (Nat \X Nat), NEW k \in SUBSET T, IsFiniteSet(k)
  PROVE  /\ Cardinality(k) \in Nat
         /\ Sorted(k) \in Seq(T) /\ Len(Sorted(k)) = Cardinality(k)
         /\ k = {Sorted(k)[n] : n \in 1..Cardinality(k)}
         /\ NoRepeats(Sorted(k))
<1> DEFINE m == Cardinality(k)
           rank == [p \in k |-> Cardinality(Below(k, p))]
<1>1. m \in Nat
  BY FS_CardinalityType
<1>2. ASSUME NEW p \in k
      PROVE  IsFiniteSet(Below(k, p)) /\ Cardinality(Below(k, p)) \in 1..m
  <2>1. Below(k, p) \in SUBSET k /\ p \in Below(k, p)
    BY DEF Below, PointBefore
  <2>2. IsFiniteSet(Below(k, p)) /\ Cardinality(Below(k, p)) <= m
    BY <2>1, FS_Subset
  <2>3. Cardinality(Below(k, p)) \in Nat /\ Cardinality(Below(k, p)) # 0
    BY <2>1, <2>2, FS_CardinalityType, FS_EmptySet
  <2> QED BY <2>2, <2>3, <1>1
<1>3. ASSUME NEW p \in k, NEW q \in k, PointBefore(p, q), p # q
      PROVE  Cardinality(Below(k, p)) # Cardinality(Below(k, q))
  <2>1. Below(k, p) \in SUBSET Below(k, q) /\ q \in Below(k, q) /\ q \notin Below(k, p)
    <3>1. p \in Nat \X Nat /\ q \in Nat \X Nat
      OBVIOUS
    <3>2. ~ PointBefore(q, p) /\ PointBefore(q, q)
      BY <1>3, <3>1 DEF PointBefore
    <3>3. \A x \in k : PointBefore(x, p) => PointBefore(x, q)
      BY <1>3, <3>1 DEF PointBefore
    <3> QED BY <3>2, <3>3 DEF Below
  <2> QED BY <2>1, <1>2, FS_Subset
<1>4. \A p, q \in k : PointBefore(p, q) \/ PointBefore(q, p)
  BY DEF PointBefore
<1>5. rank \in Injection(k, 1..m)
  <2>1. rank \in [k -> 1..m]
    BY <1>2
  <2>2. \A p, q \in k : rank[p] = rank[q] => p = q
    BY <1>3, <1>4
  <2> QED BY <2>1, <2>2 DEF Injection, IsInjective
<1>6. \A n \in 1..m : \E p \in k : rank[p] = n
  <2>1. IsFiniteSet(1..m) /\ Cardinality(1..m) = m
    BY <1>1, FS_Interval
  <2>2. rank \in Surjection(k, 1..m)
    BY <2>1, <1>5, FS_Injection
  <2> QED BY <2>2 DEF Surjection
<1> DEFINE Pick(n) == CHOOSE p \in k : Cardinality(Below(k, p)) = n
<1>7. ASSUME NEW n \in 1..m PROVE Pick(n) \in k /\ Cardinality(Below(k, Pick(n))) = n
  BY <1>6
<1>8. Sorted(k) \in Seq(T) /\ Len(Sorted(k)) = m /\ \A n \in 1..m : Sorted(k)[n] = Pick(n)
  <2>1. Sorted(k) = [n \in 1..m |-> Pick(n)]
    BY DEF Sorted, Below
  <2> HIDE DEF Pick
  <2>2. Sorted(k) \in [1..m -> T] /\ \A n \in 1..m : Sorted(k)[n] = Pick(n)
    BY <2>1, <1>7
  <2> QED BY <2>2, <1>1
<1> HIDE DEF Pick
<1>9. \A p \in k : \E n \in 1..m : Sorted(k)[n] = p
  <2> SUFFICES ASSUME NEW p \in k PROVE Sorted(k)[Cardinality(Below(k, p))] = p
    BY <1>2
  <2>1. Cardinality(Below(k, p)) \in 1..m
    BY <1>2
  <2> QED BY <2>1, <1>7, <1>8, <1>3, <1>4
<1>10. NoRepeats(Sorted(k))
  BY <1>7, <1>8 DEF NoRepeats
<1> QED BY <1>1, <1>7, <1>8, <1>9, <1>10

\* An id belongs to one symbol.
LEMMA SymIdFacts ==
  ASSUME gram \in Grammars
  PROVE  /\ \A x \in Symbols(gram) : SymId(x) \in Nat
         /\ \A x, y \in Symbols(gram) : SymId(x) = SymId(y) => x = y
<1>1. /\ gram.syms \in Seq(Symbols(gram)) /\ \A s \in Symbols(gram) : Occurs(s, gram.syms)
  BY GrammarsAreGrammars DEF IsGrammar
<1>2. ASSUME NEW x \in Symbols(gram)
      PROVE  SymId(x) \in 1..Len(gram.syms) /\ gram.syms[SymId(x)] = x
  BY <1>1 DEF SymId, Occurs
<1>3. Len(gram.syms) \in Nat
  BY <1>1, LenProperties
<1> QED BY <1>2, <1>3

\* The first of a set of symbols exists and has the least id.
LEMMA FirstFacts ==
  ASSUME gram \in Grammars, NEW S \in SUBSET Symbols(gram), S # {}
  PROVE  First(S) \in S /\ \A y \in S \ {First(S)} : SymId(First(S)) < SymId(y)
<1> DEFINE T == {SymId(x) : x \in S}
<1>1. PICK n \in T : \A m \in T : n <= m
  <2>1. T \in SUBSET Nat /\ T # {}
    BY SymIdFacts
  <2> HIDE DEF T
  <2> QED BY <2>1, NatLeast
<1>2. \E x \in S : \A y \in S : SymId(x) <= SymId(y)
  BY <1>1
<1>3. First(S) \in S /\ \A y \in S : SymId(First(S)) <= SymId(y)
  BY <1>2 DEF First
<1> QED BY <1>3, SymIdFacts

\* The dot of a point that is not at the end can be moved over a symbol of the grammar.
LEMMA PointFacts ==
  ASSUME NEW g \in Grammars, NEW p \in Points(g)
  PROVE  /\ p \in Nat \X Nat /\ p[1] \in RuleIds(g) /\ p = <<p[1], p[2]>>
         /\ ~ AtEnd(g, p) =>
              /\ AfterDot(g, p) \in g.terms \cup g.nonterms /\ AfterDot(g, p) \in Symbols(g)
              /\ <<p[1], p[2] + 1>> \in Points(g)
              /\ AfterDot(g, p) = Eof <=> p = <<0, 1>>
         /\ \A r \in RuleIds(g) : <<r, 0>> \in Points(g)
<1>1. /\ p \in Nat \X Nat /\ p[1] \in RuleIds(g) /\ p[2] \in Nat /\ p = <<p[1], p[2]>>
      /\ p[2] <= Length(g, p[1])
  <2>1. p \in RuleIds(g) \X Nat /\ p[2] <= Length(g, p[1])
    BY DEF Points
  <2>2. RuleIds(g) \subseteq Nat
    BY GramFacts
  <2> HIDE DEF Points
  <2> QED BY <2>1, <2>2
<1>2. \A r \in RuleIds(g) : Length(g, r) \in Nat
  BY GramFacts
<1>3. ASSUME ~ AtEnd(g, p)
      PROVE  /\ AfterDot(g, p) \in g.terms \cup g.nonterms /\ AfterDot(g, p) \in Symbols(g)
             /\ <<p[1], p[2] + 1>> \in Points(g)
             /\ AfterDot(g, p) = Eof <=> p = <<0, 1>>
  <2>1. p[2] + 1 \in 1..Length(g, p[1])
    BY <1>1, <1>2, <1>3 DEF AtEnd
  <2>2. AfterDot(g, p) \in g.terms \cup g.nonterms
    BY <2>1, <1>1, GramFacts DEF AfterDot
  <2>3. AfterDot(g, p) \in Symbols(g)
    BY <2>2, GramFacts
  <2>4. AfterDot(g, p) = Eof <=> p[1] = 0 /\ p[2] + 1 = 2
    BY <2>1, <1>1, GramFacts DEF AfterDot
  <2>5. <<p[1], p[2] + 1>> \in Points(g)
    BY <2>1, <1>1 DEF Points
  <2> QED BY <2>2, <2>3, <2>4, <2>5, <1>1
<1>4. \A r \in RuleIds(g) : <<r, 0>> \in Points(g)
  BY <1>2 DEF Points
<1> QED BY <1>1, <1>3, <1>4
-----------------------------------------------------------------------------
(* lr0_closure.                                                            *)

\* Reading one more point adds the symbol behind its dot, if it has one.
LEMMA SeenStep ==
  ASSUME NEW g, NEW c, NEW n \in Nat, n >= 1, NEW s
  PROVE  Seen(g, c, n, s) <=> Seen(g, c, n - 1, s) \/ (~ AtEnd(g, c[n]) /\ AfterDot(g, c[n]) = s)
<1>1. \A i : i \in 1..n <=> i \in 1..(n - 1) \/ i = n
  OBVIOUS
<1> QED BY <1>1 DEF Seen

\* What was read of a buffer does not depend on what is behind it.
LEMMA SeenPrefix ==
  ASSUME NEW g, NEW c, NEW d, NEW n, \A i \in 1..n : c[i] = d[i], NEW s
  PROVE  Seen(g, c, n, s) <=> Seen(g, d, n, s)
BY DEF Seen

\* AddRules keeps the buffer and puts the rules of one nonterminal behind it, or nothing.
Adds(g, c, n) ==
  /\ ~ AtEnd(g, c[n]) /\ AfterDot(g, c[n]) \in g.nonterms
  /\ ~ Seen(g, c, n - 1, AfterDot(g, c[n]))

LEMMA AddRulesFacts ==
  ASSUME NEW g \in Grammars, NEW c \in Seq(Points(g)), NEW n \in 1..Len(c)
  PROVE  LET d  == AddRules(g, c, n)
             rs == g.rulesOf[AfterDot(g, c[n])]
         IN /\ d \in Seq(Points(g)) /\ Len(d) >= Len(c)
            /\ \A i \in 1..Len(c) : d[i] = c[i]
            /\ ~ Adds(g, c, n) => d = c
            /\ Adds(g, c, n) =>
                 /\ rs \in Seq(RuleIds(g)) /\ NoRepeats(rs)
                 /\ Len(d) = Len(c) + Len(rs)
                 /\ \A i \in 1..Len(rs) : d[Len(c) + i] = <<rs[i], 0>>
                 /\ \A r \in RuleIds(g) : Lhs(g, r) = AfterDot(g, c[n]) <=> Occurs(r, rs)
<1> DEFINE d == AddRules(g, c, n)
           s == AfterDot(g, c[n])
           rs == g.rulesOf[s]
           P == Points(g)
<1>1. Len(c) \in Nat
  BY LenProperties
<1>2. ~ Adds(g, c, n) => d = c
  BY DEF AddRules, Adds
<1>3. ASSUME Adds(g, c, n)
      PROVE  /\ d \in Seq(P) /\ Len(d) >= Len(c)
             /\ \A i \in 1..Len(c) : d[i] = c[i]
             /\ rs \in Seq(RuleIds(g)) /\ NoRepeats(rs)
             /\ Len(d) = Len(c) + Len(rs)
             /\ \A i \in 1..Len(rs) : d[Len(c) + i] = <<rs[i], 0>>
             /\ \A r \in RuleIds(g) : Lhs(g, r) = s <=> Occurs(r, rs)
  <2> DEFINE new == [i \in 1..Len(rs) |-> <<rs[i], 0>>]
  <2>1. /\ rs \in Seq(RuleIds(g)) /\ NoRepeats(rs)
        /\ \A r \in RuleIds(g) : Lhs(g, r) = s <=> Occurs(r, rs)
    BY <1>3, RulesOfFacts DEF Adds
  <2>2. d = c \o new
    BY <1>3 DEF AddRules, Adds
  <2> HIDE DEF s, rs, P, d
  <2>3. Len(rs) \in Nat /\ \A i \in 1..Len(rs) : rs[i] \in RuleIds(g)
    BY <2>1, LenProperties, ElementOfSeq
  <2>4. \A r \in RuleIds(g) : <<r, 0>> \in P
    <3>1. \A r \in RuleIds(g) : Length(g, r) \in Nat
      BY GramFacts
    <3> QED BY <3>1 DEF P, Points
  <2>5. new \in Seq(P) /\ Len(new) = Len(rs) /\ \A i \in 1..Len(rs) : new[i] = <<rs[i], 0>>
    <3>1. new \in [1..Len(rs) -> P] /\ \A i \in 1..Len(rs) : new[i] = <<rs[i], 0>>
      BY <2>3, <2>4
    <3> HIDE DEF new
    <3> QED BY <3>1, <2>3
  <2> HIDE DEF new
  <2>6. c \in Seq(P)
    BY DEF P
  <2>7. /\ d \in Seq(P) /\ Len(d) = Len(c) + Len(rs)
        /\ \A i \in 1..(Len(c) + Len(rs)) : d[i] = IF i <= Len(c) THEN c[i] ELSE new[i - Len(c)]
    <3>1. new \in Seq(P)
      BY <2>5
    <3>2. /\ c \o new \in Seq(P) /\ Len(c \o new) = Len(c) + Len(new)
          /\ \A i \in 1..(Len(c) + Len(new)) :
               (c \o new)[i] = IF i <= Len(c) THEN c[i] ELSE new[i - Len(c)]
      BY <2>6, <3>1, ConcatProperties
    <3> QED BY <2>2, <2>5, <3>2
  <2>8. \A i \in 1..Len(c) : d[i] = c[i]
    BY <2>7, <2>3, <1>1
  <2>9. ASSUME NEW i \in 1..Len(rs) PROVE d[Len(c) + i] = <<rs[i], 0>>
    <3>1. Len(c) + i \in 1..(Len(c) + Len(rs)) /\ ~ (Len(c) + i <= Len(c)) /\ (Len(c) + i) - Len(c) = i
      BY <2>3, <1>1
    <3> QED BY <3>1, <2>5, <2>7
  <2> QED BY <2>1, <2>3, <2>7, <2>8, <2>9, <1>1
<1> QED BY <1>1, <1>2, <1>3

\* One turn of the loop keeps what the invariant says of the buffer.
LEMMA AddRulesKeeps ==
  ASSUME NEW g \in Grammars, NEW c \in Seq(Points(g)), NEW n \in 1..Len(c), NEW K, IsFiniteSet(K),
         K = {<<0, 0>>} \/ \A p \in K : p[2] >= 1,
         BufferOf(g, c, n, K)
  PROVE  BufferOf(g, AddRules(g, c, n), n + 1, K)
<1> DEFINE d == AddRules(g, c, n)
           m == Cardinality(K)
           s == AfterDot(g, c[n])
           rs == g.rulesOf[s]
           len == Len(c)
<1>1. len \in Nat /\ m \in Nat /\ IsFiniteSet(g.nonterms)
  BY LenProperties, FS_CardinalityType, GramFacts
<1>2. /\ m <= len /\ K = {c[i] : i \in 1..m} /\ NoRepeats(c)
      /\ \A i \in (m + 1)..len : c[i][2] = 0 /\ ReadBefore(g, c, n, Lhs(g, c[i][1]))
      /\ \A r \in RuleIds(g) : ReadBefore(g, c, n, Lhs(g, r)) => Occurs(<<r, 0>>, c)
      /\ \A i \in 1..len : c[i] \in A!Closure(g, K)
  BY DEF BufferOf
<1>3. d \in Seq(Points(g)) /\ Len(d) >= len /\ \A i \in 1..len : d[i] = c[i]
  BY AddRulesFacts
<1>4. ~ Adds(g, c, n) => d = c
  BY AddRulesFacts
<1>5. ASSUME Adds(g, c, n)
      PROVE  /\ rs \in Seq(RuleIds(g)) /\ NoRepeats(rs) /\ Len(d) = len + Len(rs)
             /\ \A i \in 1..Len(rs) : d[len + i] = <<rs[i], 0>>
             /\ \A r \in RuleIds(g) : Lhs(g, r) = s <=> Occurs(r, rs)
  BY <1>5, AddRulesFacts
<1>6. Len(d) \in Nat
  BY <1>3, LenProperties
<1>7. n \in 1..len
  OBVIOUS
<1> HIDE DEF d, m, rs, len
<1>8. \A x : ReadBefore(g, d, n + 1, x) <=>
               ReadBefore(g, c, n, x) \/ (x \in g.nonterms /\ ~ AtEnd(g, c[n]) /\ s = x)
  <2>1. \A i \in 1..n : d[i] = c[i]
    BY <1>1, <1>3, <1>7
  <2>2. \A x : Seen(g, d, n, x) <=> Seen(g, c, n, x)
    BY <2>1, SeenPrefix
  <2>3. \A x : Seen(g, c, n, x) <=> Seen(g, c, n - 1, x) \/ (~ AtEnd(g, c[n]) /\ s = x)
    BY <1>1, <1>7, SeenStep
  <2>4. (n + 1) - 1 = n
    BY <1>1, <1>7
  <2> QED BY <2>2, <2>3, <2>4 DEF ReadBefore
<1>9. Adds(g, c, n) => s \in g.nonterms /\ ~ AtEnd(g, c[n]) /\ ~ ReadBefore(g, c, n, s)
  BY DEF Adds, ReadBefore
<1> HIDE DEF s
<1>10. K = {d[i] : i \in 1..m}
  <2>1. \A i \in 1..m : d[i] = c[i]
    BY <1>1, <1>2, <1>3
  <2> QED BY <2>1, <1>2
<1>11. ASSUME Adds(g, c, n), NEW i \in 1..Len(rs)
       PROVE  rs[i] \in RuleIds(g) /\ Lhs(g, rs[i]) = s /\ <<rs[i], 0>> \in A!Closure(g, K)
  <2>1. rs[i] \in RuleIds(g)
    BY <1>5, <1>11, ElementOfSeq
  <2>2. Lhs(g, rs[i]) = s
    BY <1>5, <1>11, <2>1 DEF Occurs
  <2>3. c[n] \in A!Closure(g, K) /\ ~ AtEnd(g, c[n]) /\ s \in g.nonterms
    BY <1>2, <1>7, <1>9, <1>11
  <2>4. s \in A!Expected(g, A!Closure(g, K))
    BY <2>3, AbsOperators DEF s
  <2>5. Closed(g, A!Closure(g, K))
    BY <1>1, ClosureFacts
  <2> QED BY <2>1, <2>2, <2>4, <2>5 DEF Closed
<1>12. ASSUME NEW i \in (len + 1)..Len(d)
       PROVE  Adds(g, c, n) /\ i - len \in 1..Len(rs) /\ d[i] = <<rs[i - len], 0>>
  <2>1. Adds(g, c, n)
    BY <1>4, <1>1, <1>12 DEF len
  <2>2. Len(rs) \in Nat
    BY <1>5, <2>1, LenProperties
  <2>3. i - len \in 1..Len(rs) /\ len + (i - len) = i
    BY <1>1, <1>5, <2>1, <2>2
  <2> QED BY <1>5, <2>1, <2>3
<1>13. ASSUME NEW i \in 1..Len(d), NEW j \in 1..Len(d), i < j PROVE d[i] # d[j]
  <2>1. CASE j <= len
    <3>1. i \in 1..len /\ j \in 1..len /\ i # j
      BY <2>1, <1>1, <1>13
    <3> QED BY <3>1, <1>2, <1>3 DEF NoRepeats, len
  <2>2. CASE j > len /\ i <= len
    <3>1. j \in (len + 1)..Len(d) /\ i \in 1..len
      BY <2>2, <1>1, <1>6
    <3> DEFINE r == rs[j - len]
    <3>2. d[j] = <<r, 0>> /\ r \in RuleIds(g) /\ Lhs(g, r) = s /\ Adds(g, c, n)
      BY <3>1, <1>11, <1>12
    <3>3. s \in g.nonterms /\ ~ ReadBefore(g, c, n, s)
      BY <3>2, <1>9
    <3>4. r # 0
      BY <3>2, <3>3, GramFacts
    <3> HIDE DEF r
    <3>5. CASE i <= m
      <4>1. c[i] \in K
        BY <3>1, <3>5, <1>1, <1>2
      <4>2. c[i] # <<r, 0>>
        BY <4>1, <3>4
      <4> QED BY <4>2, <3>1, <3>2, <1>3
    <3>6. CASE i > m
      <4>1. i \in (m + 1)..len
        BY <3>1, <3>6, <1>1
      <4>2. ReadBefore(g, c, n, Lhs(g, c[i][1]))
        BY <4>1, <1>2
      <4>3. c[i] # <<r, 0>>
        BY <4>2, <3>2, <3>3
      <4> QED BY <4>3, <3>1, <3>2, <1>3
    <3> QED BY <3>5, <3>6, <3>1, <1>1
  <2>3. CASE i > len
    <3>1. j \in (len + 1)..Len(d) /\ i \in (len + 1)..Len(d) /\ i - len # j - len
      BY <2>3, <1>1, <1>6, <1>13
    <3>2. /\ Adds(g, c, n) /\ i - len \in 1..Len(rs) /\ j - len \in 1..Len(rs)
          /\ d[i] = <<rs[i - len], 0>> /\ d[j] = <<rs[j - len], 0>>
      BY <3>1, <1>12
    <3>3. rs[i - len] # rs[j - len]
      BY <3>1, <3>2, <1>5 DEF NoRepeats
    <3> QED BY <3>2, <3>3
  <2> QED BY <2>1, <2>2, <2>3, <1>1, <1>6
<1>14. NoRepeats(d)
  <2> SUFFICES ASSUME NEW i \in 1..Len(d), NEW j \in 1..Len(d), i # j PROVE d[i] # d[j]
    BY DEF NoRepeats
  <2>1. i < j \/ j < i
    BY <1>6
  <2> QED BY <2>1, <1>13
<1>15. ASSUME NEW i \in (m + 1)..Len(d)
       PROVE  d[i][2] = 0 /\ ReadBefore(g, d, n + 1, Lhs(g, d[i][1]))
  <2>1. CASE i <= len
    <3>1. i \in (m + 1)..len /\ i \in 1..len
      BY <2>1, <1>1, <1>6
    <3> QED BY <3>1, <1>2, <1>3, <1>8
  <2>2. CASE i > len
    <3>1. i \in (len + 1)..Len(d)
      BY <2>2, <1>1, <1>6
    <3>2. Adds(g, c, n) /\ i - len \in 1..Len(rs) /\ d[i] = <<rs[i - len], 0>>
      BY <3>1, <1>12
    <3> DEFINE r == rs[i - len]
    <3>3. Lhs(g, r) = s
      BY <3>2, <1>11
    <3> HIDE DEF r
    <3>4. d[i] = <<r, 0>>
      BY <3>2 DEF r
    <3>5. d[i][1] = r /\ d[i][2] = 0
      BY <3>4
    <3>6. ReadBefore(g, d, n + 1, s)
      BY <3>2, <1>8, <1>9
    <3> QED BY <3>3, <3>5, <3>6
  <2> QED BY <2>1, <2>2, <1>1, <1>6
<1>16. ASSUME NEW r \in RuleIds(g), ReadBefore(g, d, n + 1, Lhs(g, r)) PROVE Occurs(<<r, 0>>, d)
  <2>1. CASE ReadBefore(g, c, n, Lhs(g, r))
    <3>1. PICK i \in 1..len : c[i] = <<r, 0>>
      BY <2>1, <1>2 DEF Occurs, len
    <3>2. i \in 1..Len(d) /\ d[i] = <<r, 0>>
      BY <3>1, <1>1, <1>3, <1>6
    <3> QED BY <3>2 DEF Occurs
  <2>2. CASE ~ ReadBefore(g, c, n, Lhs(g, r))
    <3>1. Adds(g, c, n) /\ Lhs(g, r) = s
      BY <2>2, <1>8, <1>16 DEF Adds, ReadBefore, s
    <3>2. PICK i \in 1..Len(rs) : rs[i] = r
      BY <3>1, <1>5 DEF Occurs
    <3>3. Len(rs) \in Nat
      BY <3>1, <1>5, LenProperties
    <3>4. len + i \in 1..Len(d) /\ d[len + i] = <<r, 0>>
      BY <3>1, <3>2, <3>3, <1>1, <1>5
    <3> QED BY <3>4 DEF Occurs
  <2> QED BY <2>1, <2>2
<1>17. ASSUME NEW i \in 1..Len(d) PROVE d[i] \in A!Closure(g, K)
  <2>1. CASE i <= len
    BY <2>1, <1>1, <1>2, <1>3
  <2>2. CASE i > len
    <3>1. i \in (len + 1)..Len(d)
      BY <2>2, <1>1, <1>6
    <3> QED BY <3>1, <1>11, <1>12
  <2> QED BY <2>1, <2>2, <1>1
<1>18. m <= Len(d) /\ n + 1 \in 1..(Len(d) + 1)
  BY <1>1, <1>2, <1>3, <1>6, <1>7
<1> QED BY <1>10, <1>14, <1>15, <1>16, <1>17, <1>18 DEF BufferOf, d, m
-----------------------------------------------------------------------------
(* What is committed from a closure.                                       *)

\* When the buffer is read to its end it holds the closure of the kernel.
LEMMA ClosureReached ==
  ASSUME NEW g \in Grammars, NEW c \in Seq(Points(g)), NEW K, IsFiniteSet(K),
         BufferOf(g, c, Len(c) + 1, K)
  PROVE  A!Closure(g, K) = {c[i] : i \in 1..Len(c)}
<1> DEFINE D == {c[i] : i \in 1..Len(c)}
           C == A!Closure(g, K)
<1>1. Len(c) \in Nat /\ Cardinality(K) \in Nat /\ IsFiniteSet(g.nonterms)
  BY LenProperties, FS_CardinalityType, GramFacts
<1>2. D \subseteq C
  BY DEF BufferOf
<1>3. K \subseteq D
  <2>1. Cardinality(K) <= Len(c) /\ K = {c[i] : i \in 1..Cardinality(K)}
    BY DEF BufferOf
  <2> QED BY <2>1, <1>1
<1>4. Closed(g, D)
  <2> SUFFICES ASSUME NEW r \in RuleIds(g), Lhs(g, r) \in A!Expected(g, D) PROVE <<r, 0>> \in D
    BY DEF Closed
  <2>1. PICK p \in D : ~ AtEnd(g, p) /\ AfterDot(g, p) = Lhs(g, r) /\ Lhs(g, r) \in g.nonterms
    BY AbsOperators
  <2>2. Seen(g, c, Len(c), Lhs(g, r))
    BY <2>1 DEF Seen
  <2>3. ReadBefore(g, c, Len(c) + 1, Lhs(g, r))
    BY <2>1, <2>2, <1>1 DEF ReadBefore
  <2>4. Occurs(<<r, 0>>, c)
    BY <2>3 DEF BufferOf
  <2> QED BY <2>4 DEF Occurs
<1>5. C \subseteq D
  BY <1>1, <1>3, <1>4, ClosureFacts
<1> QED BY <1>2, <1>5

\* The set of points that a point of the closure is moved to, in terms of the buffer.
LEMMA MovedFacts ==
  ASSUME NEW C, C = {closure[i] : i \in 1..Len(closure)}
  PROVE  /\ \A x : Moved(x) = A!Advance(gram, C, x)
         /\ {s \in Symbols(gram) : Seen(gram, closure, Len(closure), s)} = Leads(gram, C)
<1>1. \A x : A!Advance(gram, C, x) =
               {<<p[1], p[2] + 1>> : p \in {q \in C : ~ AtEnd(gram, q) /\ AfterDot(gram, q) = x}}
  BY AbsOperators
<1>2. \A x : Moved(x) = A!Advance(gram, C, x)
  BY <1>1 DEF Moved
<1>3. ASSUME NEW s \in Symbols(gram)
      PROVE  Seen(gram, closure, Len(closure), s) <=> A!Advance(gram, C, s) # {}
  <2>1. Seen(gram, closure, Len(closure), s)
          <=> \E p \in C : ~ AtEnd(gram, p) /\ AfterDot(gram, p) = s
    BY DEF Seen
  <2>2. A!Advance(gram, C, s) # {} <=> \E p \in C : ~ AtEnd(gram, p) /\ AfterDot(gram, p) = s
    <3> DEFINE E == {q \in C : ~ AtEnd(gram, q) /\ AfterDot(gram, q) = s}
               Move(p) == <<p[1], p[2] + 1>>
    <3>1. A!Advance(gram, C, s) = {Move(p) : p \in E}
      BY <1>1
    <3>2. E # {} <=> \E p \in C : ~ AtEnd(gram, p) /\ AfterDot(gram, p) = s
      OBVIOUS
    <3> HIDE DEF E, Move
    <3> QED BY <3>1, <3>2
  <2> QED BY <2>1, <2>2
<1> QED BY <1>2, <1>3 DEF Leads

\* Moving points over x yields points of the grammar with the dot behind x.
LEMMA AdvanceFacts ==
  ASSUME NEW g \in Grammars, NEW C \in SUBSET Points(g), NEW x
  PROVE  /\ A!Advance(g, C, x) \in SUBSET Points(g)
         /\ IsFiniteSet(C) => IsFiniteSet(A!Advance(g, C, x))
         /\ \A p \in A!Advance(g, C, x) : p[2] >= 1 /\ Rhs(g, p[1])[p[2]] = x
<1> DEFINE E == {q \in C : ~ AtEnd(g, q) /\ AfterDot(g, q) = x}
           Move(p) == <<p[1], p[2] + 1>>
<1>1. A!Advance(g, C, x) = {Move(p) : p \in E}
  BY AbsOperators
<1>2. ASSUME IsFiniteSet(C) PROVE IsFiniteSet({Move(p) : p \in E})
  <2>1. IsFiniteSet(E)
    BY <1>2, FS_Subset
  <2> DEFINE f == [p \in E |-> Move(p)]
  <2>2. f \in Surjection(E, {Move(p) : p \in E})
    BY DEF Surjection
  <2> QED BY <2>1, <2>2, FS_Surjection
<1>3. ASSUME NEW p \in E
      PROVE  /\ Move(p) \in Points(g)
             /\ Move(p)[2] >= 1 /\ Rhs(g, Move(p)[1])[Move(p)[2]] = x
  <2>1. p \in Points(g) /\ ~ AtEnd(g, p) /\ AfterDot(g, p) = x
    OBVIOUS
  <2>2. p \in Nat \X Nat /\ Move(p) \in Points(g)
    BY <2>1, PointFacts
  <2>3. Move(p)[1] = p[1] /\ Move(p)[2] = p[2] + 1 /\ p[2] + 1 >= 1
    BY <2>2
  <2> QED BY <2>1, <2>2, <2>3 DEF AfterDot
<1> HIDE DEF E, Move
<1> QED BY <1>1, <1>2, <1>3

\* A gototab stays right while states are added and their other fields filled.
Extends(sts, new) ==
  \A i \in 1..Len(sts) :
    i \in 1..Len(new) /\ new[i].sym = sts[i].sym /\ new[i].kernel = sts[i].kernel

LEMMA TabOverExtends ==
  ASSUME NEW g, NEW sts, NEW new, Extends(sts, new), NEW c, NEW S, NEW tab, TabOver(g, sts, c, S, tab)
  PROVE  TabOver(g, new, c, S, tab)
<1>1. \A n \in 1..Len(tab) :
        /\ tab[n] + 1 \in 1..Len(sts) /\ tab[n] + 1 \in 1..Len(new)
        /\ new[tab[n] + 1].sym = sts[tab[n] + 1].sym
        /\ new[tab[n] + 1].kernel = sts[tab[n] + 1].kernel
  BY DEF TabOver, Extends
<1> QED BY <1>1 DEF TabOver

\* The first symbol to do gets its state: one entry is put behind the others.
LEMMA TabGrows ==
  ASSUME NEW g, NEW sts, NEW new, Extends(sts, new), NEW c, NEW S, NEW tab \in Seq(Nat),
         Committed(g, sts, c, S, tab),
         NEW x \in S, \A y \in S \ {x} : IdIn(g, x) < IdIn(g, y),
         NEW t \in Nat, t + 1 \in 1..Len(new),
         new[t + 1].sym = x, new[t + 1].kernel = A!Advance(g, c, x)
  PROVE  Committed(g, new, c, S \ {x}, Append(tab, t))
<1> DEFINE u == Append(tab, t)
           L == Leads(g, c)
           sym(n) == new[u[n] + 1].sym
<1>1. /\ u \in Seq(Nat) /\ Len(tab) \in Nat /\ Len(u) = Len(tab) + 1
      /\ \A n \in 1..Len(tab) : u[n] = tab[n]
      /\ u[Len(tab) + 1] = t
  BY AppendProperties, LenProperties
<1>2. S \subseteq L /\ TabOver(g, sts, c, L \ S, tab)
  BY DEF Committed
<1>3. TabOver(g, new, c, L \ S, tab)
  BY <1>2, TabOverExtends
<1>4. \A n \in 1..Len(tab) : \A y \in S : IdIn(g, new[tab[n] + 1].sym) < IdIn(g, y)
  <2>1. \A n \in 1..Len(tab) : new[tab[n] + 1].sym = sts[tab[n] + 1].sym
    BY <1>2 DEF TabOver, Extends
  <2> QED BY <2>1 DEF Committed
<1> HIDE DEF u, L
<1>5. \A n \in 1..Len(u) : n \in 1..Len(tab) \/ n = Len(tab) + 1
  BY <1>1
<1>6. ASSUME NEW n \in 1..Len(u)
      PROVE  /\ u[n] + 1 \in 1..Len(new)
             /\ sym(n) \in L \ (S \ {x})
             /\ new[u[n] + 1].kernel = A!Advance(g, c, sym(n))
             /\ \A y \in S \ {x} : IdIn(g, sym(n)) < IdIn(g, y)
  <2>1. CASE n \in 1..Len(tab)
    BY <2>1, <1>1, <1>3, <1>4 DEF TabOver
  <2>2. CASE n = Len(tab) + 1
    BY <2>2, <1>1, <1>2
  <2> QED BY <2>1, <2>2, <1>5
<1>7. ASSUME NEW y \in L \ (S \ {x}) PROVE \E n \in 1..Len(u) : sym(n) = y
  <2>1. CASE y = x
    <3>1. Len(tab) + 1 \in 1..Len(u) /\ sym(Len(tab) + 1) = x
      BY <1>1
    <3> QED BY <3>1, <2>1
  <2>2. CASE y # x
    <3>1. PICK n \in 1..Len(tab) : new[tab[n] + 1].sym = y
      BY <2>2, <1>3 DEF TabOver
    <3>2. n \in 1..Len(u) /\ u[n] = tab[n]
      BY <1>1
    <3>3. sym(n) = y
      BY <3>1, <3>2
    <3> QED BY <3>2, <3>3
  <2> QED BY <2>1, <2>2
<1>8. ASSUME NEW m \in 1..Len(u), NEW n \in 1..Len(u), m < n PROVE IdIn(g, sym(m)) < IdIn(g, sym(n))
  <2>1. m \in 1..Len(tab)
    BY <1>1, <1>8
  <2>2. CASE n \in 1..Len(tab)
    BY <2>1, <2>2, <1>8, <1>1, <1>3 DEF TabOver
  <2>3. CASE n = Len(tab) + 1
    BY <2>1, <2>3, <1>1, <1>4
  <2> QED BY <2>2, <2>3, <1>5
<1>9. S \ {x} \subseteq L
  BY <1>2
<1> HIDE DEF sym
<1>10. TabOver(g, new, c, L \ (S \ {x}), u)
  BY <1>6, <1>7, <1>8 DEF TabOver, sym
<1> QED BY <1>6, <1>9, <1>10 DEF Committed, u, L, sym
-----------------------------------------------------------------------------
(* The invariant is kept.                                                  *)

\* A buffer with the kernel only, each point once, is as it should be before it is read.
LEMMA FreshBuffer ==
  ASSUME NEW g \in Grammars, NEW c \in Seq(Points(g)), NEW K, IsFiniteSet(K),
         Len(c) = Cardinality(K), K = {c[i] : i \in 1..Cardinality(K)}, NoRepeats(c)
  PROVE  BufferOf(g, c, 1, K)
<1>1. Cardinality(K) \in Nat /\ IsFiniteSet(g.nonterms)
  BY FS_CardinalityType, GramFacts
<1>2. \A s : ~ ReadBefore(g, c, 1, s)
  BY DEF ReadBefore, Seen
<1>3. \A i \in 1..Len(c) : c[i] \in A!Closure(g, K)
  <2>1. K \subseteq A!Closure(g, K)
    BY <1>1, ClosureFacts
  <2> QED BY <2>1
<1> QED BY <1>1, <1>2, <1>3 DEF BufferOf

\* Filling other fields of a state leaves what is said of kernels and buckets.
LEMMA FieldsOnly ==
  ASSUME NEW g, NEW a, NEW bks, NEW sts, NEW new, Extends(sts, new), Len(new) = Len(sts)
  PROVE  /\ KernelsIn(g, sts) => KernelsIn(g, new)
         /\ Filed(a, sts, bks) => Filed(a, new, bks)
<1>1. \A i \in 1..Len(sts) : new[i].sym = sts[i].sym /\ new[i].kernel = sts[i].kernel
  BY DEF Extends
<1>2. ASSUME KernelsIn(g, sts) PROVE KernelsIn(g, new)
  <2>1. /\ Len(new) >= 2 /\ sts[1].kernel = {<<0, 0>>}
        /\ sts[2].kernel = {<<0, 2>>} /\ sts[2].sym = Eof
        /\ \A i \in 1..Len(sts) : IsFiniteSet(sts[i].kernel)
        /\ \A i \in 2..Len(sts) :
             /\ sts[i].kernel # {} /\ sts[i].sym \in Symbols(g)
             /\ \A p \in sts[i].kernel : p[2] >= 1 /\ Rhs(g, p[1])[p[2]] = sts[i].sym
    BY <1>2 DEF KernelsIn
  <2>2. 1 \in 1..Len(sts) /\ 2 \in 1..Len(sts) /\ \A i \in 2..Len(sts) : i \in 1..Len(sts)
    BY <2>1
  <2> QED BY <2>1, <2>2, <1>1 DEF KernelsIn
<1>3. ASSUME Filed(a, sts, bks) PROVE Filed(a, new, bks)
  BY <1>1, <1>3 DEF Filed
<1> QED BY <1>2, <1>3

WithCount(sts, i, n) == [sts EXCEPT ![i].nclosure = n]

\* Storing the length of the closure changes neither symbol, kernel nor gototab.
LEMMA CountStored ==
  ASSUME NEW g, NEW sts \in Seq(StateRecords(g)), NEW i \in 1..Len(sts), NEW n \in Nat
  PROVE  LET new == WithCount(sts, i, n) IN
         /\ new \in Seq(StateRecords(g)) /\ Len(new) = Len(sts) /\ Extends(sts, new)
         /\ \A j \in 1..Len(sts) : new[j].go = sts[j].go
<1> DEFINE new == WithCount(sts, i, n)
           R == StateRecords(g)
           x == [sts[i] EXCEPT !.nclosure = n]
<1>1. sts[i] \in R
  BY ElementOfSeq
<1>2. x \in R /\ x.sym = sts[i].sym /\ x.kernel = sts[i].kernel /\ x.go = sts[i].go
  BY <1>1 DEF StateRecords
<1>3. new = [sts EXCEPT ![i] = x]
  BY DEF WithCount
<1> HIDE DEF R, x, new
<1>4. /\ new \in Seq(R) /\ Len(new) = Len(sts)
      /\ \A j \in 1..Len(sts) : new[j] = IF j = i THEN x ELSE sts[j]
  BY <1>2, <1>3, ExceptSeq DEF R
<1>5. \A j \in 1..Len(sts) :
        new[j].sym = sts[j].sym /\ new[j].kernel = sts[j].kernel /\ new[j].go = sts[j].go
  BY <1>2, <1>4
<1> QED BY <1>4, <1>5 DEF Extends, R, new

WithGo(sts, i, tab) == [sts EXCEPT ![i].go = tab]

\* Storing the gototab changes neither symbol nor kernel.
LEMMA GotoStored ==
  ASSUME NEW g, NEW sts \in Seq(StateRecords(g)), NEW i \in 1..Len(sts), NEW tab \in Seq(Nat)
  PROVE  LET new == WithGo(sts, i, tab) IN
         /\ new \in Seq(StateRecords(g)) /\ Len(new) = Len(sts) /\ Extends(sts, new)
         /\ \A j \in 1..Len(sts) : new[j].go = IF j = i THEN tab ELSE sts[j].go
<1> DEFINE new == WithGo(sts, i, tab)
           R == StateRecords(g)
           x == [sts[i] EXCEPT !.go = tab]
<1>1. sts[i] \in R
  BY ElementOfSeq
<1>2. x \in R /\ x.sym = sts[i].sym /\ x.kernel = sts[i].kernel /\ x.go = tab
  BY <1>1 DEF StateRecords
<1>3. new = [sts EXCEPT ![i] = x]
  BY DEF WithGo
<1> HIDE DEF R, x, new
<1>4. /\ new \in Seq(R) /\ Len(new) = Len(sts)
      /\ \A j \in 1..Len(sts) : new[j] = IF j = i THEN x ELSE sts[j]
  BY <1>2, <1>3, ExceptSeq DEF R
<1>5. \A j \in 1..Len(sts) :
        new[j].sym = sts[j].sym /\ new[j].kernel = sts[j].kernel /\ new[j].go = IF j = i THEN tab ELSE sts[j].go
  BY <1>2, <1>4
<1> QED BY <1>4, <1>5 DEF Extends, R, new

\* Building the two reserved states makes the invariant true of the first kernel.
LEMMA BuildKeeps ==
  ASSUME IInv, Build
  PROVE  IInv'
<1> DEFINE K == {<<0, 0>>}
           E == {<<0, 2>>}
           P == Points(gram)
<1>1. gram \in Grammars /\ pc = "build" /\ cur = 0 /\ todo \subseteq Symbols(gram) /\ go \in Seq(Nat)
  BY DEF IInv, TypeOK, Build
<1>2. /\ gram' = gram /\ addr' = addr /\ pc' = "closure" /\ cur' = cur /\ todo' = todo /\ go' = go
      /\ states' = <<NewState(Nil, K), NewState(Eof, E)>>
      /\ buckets' = [h \in {Hash(E)} |-> <<1>>]
      /\ closure' = <<<<0, 0>>>> /\ ir' = 1
  BY DEF Build
<1>3. <<0, 0>> \in P /\ <<0, 2>> \in P /\ Rhs(gram, 0)[2] = Eof /\ Eof \in Symbols(gram)
  <2>1. 0 \in RuleIds(gram) /\ Length(gram, 0) = 2 /\ Eof \in gram.terms /\ gram.terms \subseteq Symbols(gram)
    BY <1>1, GramFacts
  <2>2. \A n \in 1..Length(gram, 0) : Rhs(gram, 0)[n] = Eof <=> n = 2
    BY <1>1, <2>1, GramFacts
  <2> QED BY <2>1, <2>2 DEF Points
<1>4. /\ IsFiniteSet(K) /\ Cardinality(K) = 1 /\ IsFiniteSet(E)
  BY FS_Singleton
<1>5. /\ Len(states') = 2 /\ Len(states') \in Nat
      /\ states'[1] = NewState(Nil, K) /\ states'[2] = NewState(Eof, E)
      /\ states' \in Seq(StateRecords(gram))
  <2>1. NewState(Nil, K) \in StateRecords(gram) /\ NewState(Eof, E) \in StateRecords(gram)
    BY <1>3 DEF NewState, StateRecords
  <2> HIDE DEF K, E
  <2> QED BY <2>1, <1>2
<1>6. /\ states'[1].kernel = K /\ states'[1].go = << >>
      /\ states'[2].kernel = E /\ states'[2].sym = Eof /\ states'[2].go = << >>
  BY <1>5 DEF NewState
<1>7. TypeOK'
  <2>1. closure' \in Seq(P) /\ ir' \in Nat
    BY <1>2, <1>3
  <2>2. \A h \in DOMAIN buckets' : buckets'[h] \in Seq(Nat)
    BY <1>2
  <2> QED BY <1>1, <1>2, <1>5, <2>1, <2>2 DEF TypeOK
<1>8. KernelsMoved'
  <2>1. /\ \A p \in E : p[2] >= 1 /\ Rhs(gram, p[1])[p[2]] = Eof
        /\ E # {}
    <3>1. \A p \in E : p[1] = 0 /\ p[2] = 2
      OBVIOUS
    <3> QED BY <3>1, <1>3
  <2>2. (\A i \in 1..2 : i = 1 \/ i = 2) /\ \A i \in 2..2 : i = 2
    OBVIOUS
  <2>3. states'[1].kernel = {<<0, 0>>} /\ states'[2].kernel = {<<0, 2>>}
    BY <1>6
  <2> HIDE DEF K, E
  <2>4. \A i \in 1..Len(states') : IsFiniteSet(states'[i].kernel)
    BY <1>4, <1>5, <1>6, <2>2
  <2>5. \A i \in 2..Len(states') :
          /\ states'[i].kernel # {} /\ states'[i].sym \in Symbols(gram)
          /\ \A p \in states'[i].kernel : p[2] >= 1 /\ Rhs(gram, p[1])[p[2]] = states'[i].sym
    BY <1>3, <1>5, <1>6, <2>1, <2>2
  <2>6. KernelsIn(gram, states')
    BY <1>5, <1>6, <2>3, <2>4, <2>5 DEF KernelsIn
  <2> QED BY <2>6, <1>2 DEF KernelsMoved
<1>9. Hashed'
  <2>1. HashOf(addr, states'[2].kernel) = Hash(E)
    BY <1>6 DEF Hash
  <2>2. Hash(E) \in DOMAIN buckets' /\ \A h \in DOMAIN buckets' : buckets'[h] = <<1>>
    BY <1>2
  <2>3. Len(<<1>>) = 1 /\ <<1>>[1] = 1 /\ 2 - 1 = 1 /\ 1 + 1 = 2 /\ 2..2 = {2} /\ 1..1 = {1}
    OBVIOUS
  <2> HIDE DEF E
  <2>4. Filed(addr, states', buckets')
    BY <1>5, <2>1, <2>2, <2>3 DEF Filed, Occurs
  <2> QED BY <2>4, <1>2 DEF Hashed
<1>10. KernelsUnique'
  <2>1. \A i \in 1..2 : i = 1 \/ i = 2
    OBVIOUS
  <2>2. <<0, 0>> \in K /\ <<0, 0>> \notin E
    OBVIOUS
  <2> HIDE DEF K, E
  <2> QED BY <2>1, <2>2, <1>5, <1>6 DEF KernelsUnique
<1>11. Closing'
  <2>1. BufferOf(gram, <<<<0, 0>>>>, 1, K)
    <3> DEFINE c == <<<<0, 0>>>>
    <3>1. c \in Seq(P) /\ Len(c) = 1 /\ c[1] = <<0, 0>> /\ 1..1 = {1}
      BY <1>3
    <3> HIDE DEF c
    <3>2. NoRepeats(c)
      BY <3>1 DEF NoRepeats
    <3>3. K = {c[i] : i \in 1..1}
      <4>1. K = {c[1]}
        BY <3>1
      <4>2. {c[i] : i \in {1}} = {c[1]}
        OBVIOUS
      <4> QED BY <4>1, <4>2, <3>1
    <3> QED BY <3>1, <3>2, <3>3, <1>1, <1>4, FreshBuffer DEF c
  <2>2. cur' + 1 = 1 /\ states'[cur' + 1].kernel = K
    BY <1>1, <1>2, <1>6
  <2> HIDE DEF K
  <2> QED BY <2>1, <2>2, <1>2 DEF Closing
<1>12. Committing'
  BY <1>2 DEF Committing
<1>13. TabsFilled'
  BY <1>1, <1>2, <1>5, <1>6 DEF TabsFilled
<1> QED BY <1>7, <1>8, <1>9, <1>10, <1>11, <1>12, <1>13 DEF IInv

\* One turn of lr0_closure only touches the buffer.
LEMMA CloseItemKeeps ==
  ASSUME IInv, CloseItem
  PROVE  IInv'
<1> DEFINE K == states[cur + 1].kernel
           d == AddRules(gram, closure, ir)
<1>1. /\ pc = "closure" /\ ir <= Len(closure)
      /\ gram' = gram /\ addr' = addr /\ pc' = pc /\ states' = states /\ buckets' = buckets
      /\ cur' = cur /\ todo' = todo /\ go' = go /\ closure' = d /\ ir' = ir + 1
  BY DEF CloseItem
<1>2. /\ TypeOK /\ KernelsMoved /\ Hashed /\ KernelsUnique /\ TabsFilled
      /\ BufferOf(gram, closure, ir, K)
  BY <1>1 DEF IInv, Closing
<1>3. /\ gram \in Grammars /\ closure \in Seq(Points(gram))
      /\ ir \in 1..Len(closure) /\ cur + 1 \in 1..Len(states) /\ KernelsIn(gram, states)
  <2>1. Len(states) \in Nat /\ Len(closure) \in Nat
    BY <1>2, LenProperties DEF TypeOK
  <2> QED BY <2>1, <1>1, <1>2 DEF TypeOK, BufferOf, KernelsMoved
<1>4. IsFiniteSet(K) /\ (K = {<<0, 0>>} \/ \A p \in K : p[2] >= 1)
  <2>1. cur + 1 = 1 \/ cur + 1 \in 2..Len(states)
    BY <1>3
  <2> QED BY <2>1, <1>3 DEF KernelsIn
<1> HIDE DEF K
<1>5. BufferOf(gram, d, ir + 1, K)
  BY <1>2, <1>3, <1>4, AddRulesKeeps
<1>6. d \in Seq(Points(gram))
  BY <1>3, AddRulesFacts
<1> HIDE DEF d
<1>7. TypeOK'
  BY <1>1, <1>2, <1>3, <1>6 DEF TypeOK
<1>8. KernelsMoved' /\ Hashed' /\ KernelsUnique'
  BY <1>1, <1>2 DEF KernelsMoved, Hashed, KernelsUnique
<1>9. Closing'
  BY <1>1, <1>5 DEF Closing, K
<1>10. Committing'
  BY <1>1 DEF Committing
<1>11. TabsFilled'
  BY <1>1, <1>2 DEF TabsFilled
<1> QED BY <1>7, <1>8, <1>9, <1>10, <1>11 DEF IInv
\* lr0_goto's listing: nothing is committed yet and all symbols are to do.
LEMMA ListSymbolsKeeps ==
  ASSUME IInv, ListSymbols
  PROVE  IInv'
<1> DEFINE K == states[cur + 1].kernel
           C == A!Closure(gram, K)
           n == Len(closure)
<1>1. /\ pc = "closure" /\ ir > n /\ gram' = gram /\ addr' = addr /\ pc' = "commit"
      /\ buckets' = buckets /\ cur' = cur /\ closure' = closure /\ ir' = ir
      /\ states' = [states EXCEPT ![cur + 1].nclosure = n]
      /\ todo' = {s \in Symbols(gram) : Seen(gram, closure, n, s)} /\ go' = << >>
  BY DEF ListSymbols
<1>2. /\ TypeOK /\ KernelsIn(gram, states) /\ Filed(addr, states, buckets) /\ KernelsUnique
      /\ TabsFilled /\ BufferOf(gram, closure, ir, K)
  BY <1>1 DEF IInv, Closing, KernelsMoved, Hashed
<1>3. /\ gram \in Grammars /\ closure \in Seq(Points(gram)) /\ n \in Nat /\ ir = n + 1
      /\ cur \in Nat /\ cur + 1 \in 1..Len(states) /\ states \in Seq(StateRecords(gram))
  <2>1. Len(states) \in Nat /\ n \in Nat
    BY <1>2, LenProperties DEF TypeOK
  <2> QED BY <2>1, <1>1, <1>2 DEF TypeOK, BufferOf
<1>4. /\ states' \in Seq(StateRecords(gram)) /\ Len(states') = Len(states) /\ Extends(states, states')
      /\ \A j \in 1..Len(states) : states'[j].go = states[j].go
  <2>1. states' = WithCount(states, cur + 1, n)
    BY <1>1 DEF WithCount
  <2> HIDE DEF n
  <2> QED BY <2>1, <1>3, CountStored
<1>5. IsFiniteSet(K) /\ K = states'[cur' + 1].kernel
  BY <1>1, <1>2, <1>3, <1>4 DEF KernelsIn, Extends
<1>6. todo' = Leads(gram, C)
  <2>1. C = {closure[i] : i \in 1..n}
    BY <1>2, <1>3, <1>5, ClosureReached
  <2> HIDE DEF C
  <2> QED BY <2>1, <1>1, MovedFacts
<1> HIDE DEF K, C, n
<1>7. TypeOK'
  BY <1>1, <1>2, <1>3, <1>4 DEF TypeOK
<1>8. KernelsMoved' /\ Hashed'
  BY <1>1, <1>2, <1>4, FieldsOnly DEF KernelsMoved, Hashed
<1>9. KernelsUnique'
  BY <1>2, <1>4 DEF KernelsUnique, Extends
<1>10. Closing'
  BY <1>1, <1>2, <1>5 DEF Closing
<1>11. Committing'
  <2>1. Committed(gram, states', C, Leads(gram, C), << >>)
    BY DEF Committed, TabOver
  <2> QED BY <2>1, <1>1, <1>3, <1>5, <1>6 DEF Committing, C, n
<1>12. TabsFilled'
  <2> SUFFICES ASSUME NEW i \in 1..Len(states')
               PROVE  IF i <= cur THEN TabExact(gram, states', i) ELSE states'[i].go = << >>
    BY <1>1 DEF TabsFilled
  <2>1. IF i <= cur THEN TabExact(gram, states, i) ELSE states[i].go = << >>
    BY <1>1, <1>2, <1>4 DEF TabsFilled
  <2>2. states'[i].go = states[i].go /\ states'[i].kernel = states[i].kernel
    BY <1>4 DEF Extends
  <2> QED BY <2>1, <2>2, <1>4, TabOverExtends DEF TabExact
<1> QED BY <1>7, <1>8, <1>9, <1>10, <1>11, <1>12 DEF IInv

(***************************************************************************)
(* The gototab being filled is exact when nothing is to do, so storing it  *)
(* in the state at hand completes one state more.                          *)
(***************************************************************************)
LEMMA TabStored ==
  ASSUME IInv, pc = "commit", todo = {},
         gram' = gram, states' = WithGo(states, cur + 1, go)
  PROVE  /\ gram \in Grammars /\ cur \in Nat /\ cur + 1 \in 1..Len(states)
         /\ states' \in Seq(StateRecords(gram)) /\ Len(states') = Len(states)
         /\ Extends(states, states') /\ Len(states) \in Nat
         /\ KernelsIn(gram, states') /\ Filed(addr, states', buckets)
         /\ KernelsUnique'
         /\ \A i \in 1..Len(states) :
              IF i <= cur + 1 THEN TabExact(gram, states', i) ELSE states'[i].go = << >>
<1>1. /\ TypeOK /\ KernelsIn(gram, states) /\ Filed(addr, states, buckets) /\ KernelsUnique
      /\ TabsFilled /\ Committed(gram, states, A!Closure(gram, states[cur + 1].kernel), {}, go)
  BY DEF IInv, Committing, KernelsMoved, Hashed
<1>2. /\ gram \in Grammars /\ go \in Seq(Nat) /\ Len(states) \in Nat
      /\ cur \in Nat /\ cur + 1 \in 1..Len(states) /\ states \in Seq(StateRecords(gram))
  <2>1. Len(states) \in Nat
    BY <1>1, LenProperties DEF TypeOK
  <2> QED BY <2>1, <1>1 DEF TypeOK
<1>3. /\ states' \in Seq(StateRecords(gram)) /\ Len(states') = Len(states) /\ Extends(states, states')
      /\ \A j \in 1..Len(states) : states'[j].go = IF j = cur + 1 THEN go ELSE states[j].go
  BY <1>2, GotoStored
<1>4. KernelsIn(gram, states') /\ Filed(addr, states', buckets)
  BY <1>1, <1>3, FieldsOnly
<1>5. KernelsUnique'
  BY <1>1, <1>3 DEF KernelsUnique, Extends
<1>6. ASSUME NEW i \in 1..Len(states)
      PROVE  IF i <= cur + 1 THEN TabExact(gram, states', i) ELSE states'[i].go = << >>
  <2>1. states'[i].kernel = states[i].kernel
    BY <1>3 DEF Extends
  <2>2. CASE i = cur + 1
    <3>1. TabOver(gram, states, A!Closure(gram, states[i].kernel), Leads(gram, A!Closure(gram, states[i].kernel)), go)
      BY <2>2, <1>1 DEF Committed
    <3>2. states'[i].go = go
      BY <2>2, <1>3
    <3> QED BY <3>1, <3>2, <2>1, <2>2, <1>2, <1>3, TabOverExtends DEF TabExact
  <2>3. CASE i # cur + 1
    <3>1. states'[i].go = states[i].go
      BY <2>3, <1>3
    <3>2. IF i <= cur THEN TabExact(gram, states, i) ELSE states[i].go = << >>
      BY <1>1 DEF TabsFilled
    <3>3. i <= cur <=> i <= cur + 1
      BY <2>3, <1>2
    <3> QED BY <3>1, <3>2, <3>3, <2>1, <1>3, TabOverExtends DEF TabExact
  <2> QED BY <2>2, <2>3
<1> QED BY <1>2, <1>3, <1>4, <1>5, <1>6

\* Going to the next state of the list.
LEMMA NextStateKeeps ==
  ASSUME IInv, NextState
  PROVE  IInv'
<1> DEFINE K == states[cur + 2].kernel
           c == Sorted(K)
<1>1. /\ pc = "commit" /\ todo = {} /\ cur + 1 < Len(states)
      /\ gram' = gram /\ addr' = addr /\ pc' = "closure" /\ buckets' = buckets /\ go' = go
      /\ states' = WithGo(states, cur + 1, go)
      /\ cur' = cur + 1 /\ closure' = c /\ ir' = 1 /\ todo' = todo
  BY DEF NextState, WithGo
<1>2. /\ gram \in Grammars /\ cur \in Nat /\ cur + 1 \in 1..Len(states)
      /\ states' \in Seq(StateRecords(gram)) /\ Len(states') = Len(states)
      /\ Extends(states, states') /\ Len(states) \in Nat
      /\ KernelsIn(gram, states') /\ Filed(addr, states', buckets)
      /\ KernelsUnique'
      /\ \A i \in 1..Len(states) :
           IF i <= cur + 1 THEN TabExact(gram, states', i) ELSE states'[i].go = << >>
  BY <1>1, TabStored
<1>3. TypeOK
  BY DEF IInv
<1>4. /\ cur + 2 \in 1..Len(states) /\ cur' + 1 = cur + 2 /\ cur' \in Nat /\ cur' < Len(states')
      /\ states'[cur + 2].kernel = K
  BY <1>1, <1>2 DEF Extends
<1>5. IsFiniteSet(K) /\ K \in SUBSET Points(gram)
  <2>1. states[cur + 2] \in StateRecords(gram)
    BY <1>3, <1>4, ElementOfSeq DEF TypeOK
  <2>2. IsFiniteSet(states'[cur + 2].kernel)
    BY <1>2, <1>4 DEF KernelsIn
  <2> QED BY <2>1, <2>2, <1>4 DEF StateRecords
<1>6. Points(gram) \in SUBSET (Nat \X Nat)
  <2>1. \A p \in Points(gram) : p \in Nat \X Nat
    BY <1>2, PointFacts
  <2> QED BY <2>1
<1> HIDE DEF K
<1>7. /\ c \in Seq(Points(gram)) /\ Len(c) = Cardinality(K)
      /\ K = {c[n] : n \in 1..Cardinality(K)} /\ NoRepeats(c)
  <2> HIDE DEF c
  <2>1. c = Sorted(K)
    BY DEF c
  <2>2. /\ Sorted(K) \in Seq(Points(gram)) /\ Len(Sorted(K)) = Cardinality(K)
        /\ K = {Sorted(K)[n] : n \in 1..Cardinality(K)} /\ NoRepeats(Sorted(K))
    BY ONLY <1>5, <1>6, SortedFacts
  <2> QED BY <2>1, <2>2, Zenon
<1>8. BufferOf(gram, c, 1, K)
  BY <1>2, <1>5, <1>7, FreshBuffer
<1> HIDE DEF c
<1>9. TypeOK'
  BY <1>1, <1>2, <1>3, <1>4, <1>7 DEF TypeOK
<1>10. KernelsMoved' /\ Hashed' /\ KernelsUnique'
  BY <1>1, <1>2 DEF KernelsMoved, Hashed
<1>11. Closing'
  BY <1>1, <1>4, <1>8 DEF Closing
<1>12. Committing'
  BY <1>1 DEF Committing
<1>13. TabsFilled'
  BY <1>1, <1>2 DEF TabsFilled
<1> QED BY <1>9, <1>10, <1>11, <1>12, <1>13 DEF IInv

\* The last state of the list is done.
LEMMA FinishKeeps ==
  ASSUME IInv, Finish
  PROVE  IInv'
<1>1. /\ pc = "commit" /\ todo = {} /\ cur + 1 = Len(states)
      /\ gram' = gram /\ addr' = addr /\ pc' = "done" /\ buckets' = << >> /\ go' = go
      /\ states' = WithGo(states, cur + 1, go)
      /\ cur' = cur /\ closure' = closure /\ ir' = ir /\ todo' = todo
  BY DEF Finish, WithGo
<1>2. /\ gram \in Grammars /\ cur \in Nat /\ cur + 1 \in 1..Len(states)
      /\ states' \in Seq(StateRecords(gram)) /\ Len(states') = Len(states)
      /\ Extends(states, states') /\ Len(states) \in Nat
      /\ KernelsIn(gram, states') /\ Filed(addr, states', buckets)
      /\ KernelsUnique'
      /\ \A i \in 1..Len(states) :
           IF i <= cur + 1 THEN TabExact(gram, states', i) ELSE states'[i].go = << >>
  BY <1>1, TabStored
<1>3. TypeOK
  BY DEF IInv
<1>4. TypeOK'
  <2>1. \A h \in DOMAIN buckets' : buckets'[h] \in Seq(Nat)
    BY <1>1
  <2> QED BY <2>1, <1>1, <1>2, <1>3 DEF TypeOK
<1>5. KernelsMoved' /\ Hashed' /\ KernelsUnique'
  BY <1>1, <1>2 DEF KernelsMoved, Hashed
<1>6. Closing' /\ Committing'
  BY <1>1 DEF Closing, Committing
<1>7. TabsFilled'
  <2>1. \A i \in 1..Len(states) : i <= cur + 1
    BY <1>1
  <2> QED BY <2>1, <1>1, <1>2 DEF TabsFilled
<1> QED BY <1>4, <1>5, <1>6, <1>7 DEF IInv
\* A new state at the end of the list leaves the others where they are.
LEMMA StateAppended ==
  ASSUME NEW g, NEW sts \in Seq(StateRecords(g)), NEW s \in StateRecords(g)
  PROVE  /\ Append(sts, s) \in Seq(StateRecords(g))
         /\ Len(sts) \in Nat /\ Len(Append(sts, s)) = Len(sts) + 1
         /\ \A i \in 1..Len(sts) : i \in 1..(Len(sts) + 1) /\ Append(sts, s)[i] = sts[i]
         /\ Append(sts, s)[Len(sts) + 1] = s
         /\ Extends(sts, Append(sts, s))
<1> DEFINE R == StateRecords(g)
<1> HIDE DEF R
<1>1. sts \in Seq(R) /\ s \in R
  BY DEF R
<1>2. /\ Append(sts, s) \in Seq(R) /\ Len(sts) \in Nat
      /\ Len(Append(sts, s)) = Len(sts) + 1
      /\ \A i \in 1..Len(sts) : Append(sts, s)[i] = sts[i]
      /\ Append(sts, s)[Len(sts) + 1] = s
  BY <1>1, AppendProperties, LenProperties
<1>3. \A i \in 1..Len(sts) : i \in 1..(Len(sts) + 1)
  BY <1>2
<1> HIDE DEF R
<1> QED BY <1>2, <1>3 DEF Extends, R

\* It is put into the bucket of its hash, in front of the states that are there.
BucketIn(bks, h) == IF h \in DOMAIN bks THEN bks[h] ELSE << >>
Pushed(bks, new, n, h) ==
  /\ \A j \in DOMAIN bks : bks[j] \in Seq(Nat)
  /\ DOMAIN new = DOMAIN bks \cup {h}
  /\ new[h] = <<n>> \o BucketIn(bks, h) /\ \A j \in DOMAIN bks \ {h} : new[j] = bks[j]

\* lst is sts with one state behind it.
Longer(sts, lst) ==
  /\ Len(sts) \in Nat /\ Len(sts) >= 1 /\ Len(lst) = Len(sts) + 1
  /\ \A i \in 1..Len(sts) : lst[i] = sts[i]

LEMMA FiledGrows ==
  ASSUME NEW a, NEW bks, NEW new, NEW sts, NEW lst, Longer(sts, lst), Filed(a, sts, bks),
         Pushed(bks, new, Len(sts), HashOf(a, lst[Len(sts) + 1].kernel))
  PROVE  Filed(a, lst, new) /\ \A j \in DOMAIN new : new[j] \in Seq(Nat)
<1> DEFINE n == Len(sts)
           h == HashOf(a, lst[n + 1].kernel)
           b == BucketIn(bks, h)
           c == <<n>> \o b
<1>1. n \in Nat /\ n >= 1 /\ Len(lst) = n + 1 /\ \A i \in 1..n : lst[i] = sts[i]
  BY DEF Longer
<1>2. /\ DOMAIN new = DOMAIN bks \cup {h} /\ new[h] = c
      /\ \A j \in DOMAIN bks \ {h} : new[j] = bks[j]
      /\ \A j \in DOMAIN bks : bks[j] \in Seq(Nat)
  BY DEF Pushed
<1>3. (\A j \in DOMAIN bks : \A i \in 1..Len(bks[j]) : bks[j][i] + 1 \in 2..n)
      /\ \A i \in 2..n : LET j == HashOf(a, sts[i].kernel) IN j \in DOMAIN bks /\ Occurs(i - 1, bks[j])
  BY DEF Filed
<1> HIDE DEF n, h, c
<1>4. b \in Seq(Nat)
  BY <1>2 DEF BucketIn
<1>5. ASSUME NEW y, Occurs(y, b) PROVE y + 1 \in 2..n
  BY <1>3, <1>5 DEF BucketIn, Occurs
<1> HIDE DEF b
<1>6. c \in Seq(Nat) /\ \A y : Occurs(y, c) <=> y = n \/ Occurs(y, b)
  BY <1>1, <1>4, PushOccurs DEF c
<1>7. ASSUME NEW j \in DOMAIN new
      PROVE  new[j] \in Seq(Nat) /\ \A i \in 1..Len(new[j]) : new[j][i] + 1 \in 2..(n + 1)
  <2>1. CASE j = h
    <3>1. ASSUME NEW i \in 1..Len(c) PROVE c[i] + 1 \in 2..(n + 1)
      <4>1. Occurs(c[i], c) /\ c[i] \in Nat
        BY <1>6, ElementOfSeq DEF Occurs
      <4>2. c[i] = n \/ c[i] + 1 \in 2..n
        BY <4>1, <1>5, <1>6
      <4> QED BY <4>1, <4>2, <1>1
    <3> QED BY <2>1, <3>1, <1>2, <1>6
  <2>2. CASE j # h
    <3>1. j \in DOMAIN bks /\ new[j] = bks[j]
      BY <2>2, <1>2
    <3> QED BY <3>1, <1>1, <1>2, <1>3
  <2> QED BY <2>1, <2>2
<1>8. ASSUME NEW i \in 2..(n + 1)
      PROVE  LET j == HashOf(a, lst[i].kernel) IN j \in DOMAIN new /\ Occurs(i - 1, new[j])
  <2>1. CASE i = n + 1
    <3>1. HashOf(a, lst[i].kernel) = h /\ i - 1 = n
      BY <2>1, <1>1 DEF h
    <3> QED BY <3>1, <1>2, <1>6
  <2>2. CASE i # n + 1
    <3> DEFINE j == HashOf(a, sts[i].kernel)
    <3>1. i \in 1..n /\ i \in 2..n
      BY <2>2, <1>1
    <3>2. lst[i] = sts[i] /\ j \in DOMAIN bks /\ Occurs(i - 1, bks[j])
      BY <3>1, <1>1, <1>3
    <3> HIDE DEF j
    <3>3. CASE j = h
      <4>1. Occurs(i - 1, b)
        BY <3>2, <3>3 DEF b, BucketIn
      <4> QED BY <4>1, <3>2, <3>3, <1>2, <1>6 DEF j
    <3>4. CASE j # h
      BY <3>2, <3>4, <1>2 DEF j
    <3> QED BY <3>3, <3>4
  <2> QED BY <2>1, <2>2
<1>9. /\ \A j \in DOMAIN new : \A i \in 1..Len(new[j]) : new[j][i] + 1 \in 2..Len(lst)
      /\ \A i \in 2..Len(lst) :
           LET j == HashOf(a, lst[i].kernel) IN j \in DOMAIN new /\ Occurs(i - 1, new[j])
  BY <1>1, <1>7, <1>8
<1> QED BY <1>7, <1>9 DEF Filed

\* The points that lr0_goto moves over x are a kernel that a state for x may have.
LEMMA MovedKernel ==
  ASSUME IInv, pc = "commit", NEW x \in todo
  PROVE  /\ Moved(x) = A!Advance(gram, A!Closure(gram, states[cur + 1].kernel), x)
         /\ Moved(x) # {} /\ Moved(x) \in SUBSET Points(gram) /\ IsFiniteSet(Moved(x))
         /\ \A p \in Moved(x) : p[2] >= 1 /\ Rhs(gram, p[1])[p[2]] = x
         /\ x \in Symbols(gram)
<1> DEFINE K == states[cur + 1].kernel
           C == A!Closure(gram, K)
<1>1. /\ TypeOK /\ KernelsIn(gram, states) /\ Committed(gram, states, C, todo, go)
      /\ BufferOf(gram, closure, Len(closure) + 1, K)
  BY DEF IInv, Closing, Committing, KernelsMoved
<1>2. /\ gram \in Grammars /\ closure \in Seq(Points(gram)) /\ x \in Symbols(gram)
      /\ cur + 1 \in 1..Len(states)
  <2>1. Len(states) \in Nat
    BY <1>1, LenProperties DEF TypeOK
  <2> QED BY <2>1, <1>1 DEF TypeOK
<1>3. IsFiniteSet(K)
  BY <1>1, <1>2 DEF KernelsIn
<1>4. C = {closure[i] : i \in 1..Len(closure)}
  BY <1>1, <1>2, <1>3, ClosureReached
<1>5. C \in SUBSET Points(gram) /\ IsFiniteSet(C)
  <2> DEFINE P == Points(gram)
             n == Len(closure)
  <2>1. n \in Nat /\ \A i \in 1..n : closure[i] \in P
    BY <1>2, LenProperties, ElementOfSeq
  <2> HIDE DEF P, n
  <2>2. [i \in 1..n |-> closure[i]] \in Surjection(1..n, {closure[i] : i \in 1..n})
    BY DEF Surjection
  <2>3. IsFiniteSet(1..n)
    BY <2>1, FS_Interval
  <2>4. IsFiniteSet({closure[i] : i \in 1..n})
    BY <2>2, <2>3, FS_Surjection
  <2>5. C = {closure[i] : i \in 1..n}
    BY <1>4 DEF n
  <2> HIDE DEF C
  <2> QED BY <2>1, <2>4, <2>5 DEF P
<1> HIDE DEF C
<1>6. Moved(x) = A!Advance(gram, C, x)
  BY <1>4, MovedFacts
<1>7. A!Advance(gram, C, x) # {}
  BY <1>1 DEF Committed, Leads
<1>8. /\ A!Advance(gram, C, x) \in SUBSET Points(gram) /\ IsFiniteSet(A!Advance(gram, C, x))
      /\ \A p \in A!Advance(gram, C, x) : p[2] >= 1 /\ Rhs(gram, p[1])[p[2]] = x
  BY <1>2, <1>5, AdvanceFacts
<1> QED BY <1>2, <1>6, <1>7, <1>8 DEF C

\* Looking a kernel up in its bucket finds the state that has it, if one has it.
LEMMA LookUp ==
  ASSUME IInv, pc = "commit", NEW k, \A p \in k : p[2] >= 1
  PROVE  /\ Matches(k) # {} =>
              LET t == Bucket(Hash(k))[Min(Matches(k))]
              IN t \in Nat /\ t + 1 \in 2..Len(states) /\ states[t + 1].kernel = k
         /\ Matches(k) = {} => \A i \in 1..Len(states) : states[i].kernel # k
<1> DEFINE b == Bucket(Hash(k))
<1>1. /\ KernelsIn(gram, states) /\ Filed(addr, states, buckets)
      /\ \A h \in DOMAIN buckets : buckets[h] \in Seq(Nat)
  BY DEF IInv, KernelsMoved, Hashed, TypeOK
<1>2. ASSUME NEW n \in 1..Len(b) PROVE b[n] \in Nat /\ b[n] + 1 \in 2..Len(states)
  <2>1. Hash(k) \in DOMAIN buckets /\ b = buckets[Hash(k)]
    BY DEF Bucket
  <2> QED BY <2>1, <1>1, ElementOfSeq DEF Filed
<1>3. ASSUME Matches(k) # {} PROVE Min(Matches(k)) \in Matches(k)
  <2>1. Matches(k) \in SUBSET Nat
    BY DEF Matches
  <2>2. \E n \in Matches(k) : \A m \in Matches(k) : n <= m
    BY <2>1, <1>3, NatLeast
  <2> QED BY <2>2 DEF Min
<1>4. ASSUME NEW i \in 1..Len(states), states[i].kernel = k PROVE Matches(k) # {}
  <2>1. i # 1
    <3>1. <<0, 0>>[2] = 0 /\ ~ (0 >= 1)
      OBVIOUS
    <3> QED BY <3>1, <1>1, <1>4 DEF KernelsIn
  <2>2. i \in 2..Len(states)
    BY <2>1
  <2>3. Hash(k) \in DOMAIN buckets /\ Occurs(i - 1, buckets[Hash(k)])
    BY <2>2, <1>1, <1>4 DEF Filed, Hash
  <2>4. PICK n \in 1..Len(b) : b[n] = i - 1
    BY <2>3 DEF Occurs, Bucket
  <2>5. b[n] + 1 = i
    BY <2>4
  <2> QED BY <2>5, <1>4 DEF Matches
<1>5. ASSUME NEW n \in Matches(k) PROVE n \in 1..Len(b) /\ states[b[n] + 1].kernel = k
  BY DEF Matches
<1> HIDE DEF b
<1> QED BY <1>2, <1>3, <1>4, <1>5 DEF b
\* Committing a symbol finds its state or appends one, and enters it into the gototab.
LEMMA CommitKeeps ==
  ASSUME IInv, Commit
  PROVE  IInv'
<1> DEFINE x == First(todo)
           k == Moved(x)
           h == Hash(k)
           K == states[cur + 1].kernel
           C == A!Closure(gram, K)
           s == NewState(x, k)
           t == Bucket(h)[Min(Matches(k))]
           new == [j \in DOMAIN buckets \cup {h} |->
                     IF j = h THEN <<Len(states)>> \o Bucket(j) ELSE buckets[j]]
           R == StateRecords(gram)
<1>1. /\ pc = "commit" /\ todo # {} /\ gram' = gram /\ addr' = addr /\ pc' = pc /\ cur' = cur
      /\ closure' = closure /\ ir' = ir /\ todo' = todo \ {x}
  BY DEF Commit
<1>2. /\ TypeOK /\ KernelsIn(gram, states) /\ Filed(addr, states, buckets) /\ KernelsUnique
      /\ TabsFilled /\ BufferOf(gram, closure, ir, K) /\ ir = Len(closure) + 1
      /\ Committed(gram, states, C, todo, go)
  BY <1>1 DEF IInv, Closing, Committing, KernelsMoved, Hashed
<1>3. /\ gram \in Grammars /\ todo \in SUBSET Symbols(gram) /\ go \in Seq(Nat)
      /\ states \in Seq(R) /\ Len(states) \in Nat /\ Len(states) >= 2
      /\ cur \in Nat /\ cur < Len(states) /\ cur + 1 \in 1..Len(states)
      /\ \A j \in DOMAIN buckets : buckets[j] \in Seq(Nat)
  <2>1. Len(states) \in Nat /\ Len(states) >= 2
    BY <1>2, LenProperties DEF TypeOK, KernelsIn
  <2> QED BY <2>1, <1>1, <1>2 DEF TypeOK
<1>4. x \in todo /\ \A y \in todo \ {x} : IdIn(gram, x) < IdIn(gram, y)
  <2>1. First(todo) \in todo /\ \A y \in todo \ {First(todo)} : SymId(First(todo)) < SymId(y)
    BY <1>1, <1>3, FirstFacts
  <2> QED BY <2>1 DEF SymId, IdIn
<1> HIDE DEF x
<1>5. /\ k = A!Advance(gram, C, x) /\ k # {} /\ k \in SUBSET Points(gram) /\ IsFiniteSet(k)
      /\ \A p \in k : p[2] >= 1 /\ Rhs(gram, p[1])[p[2]] = x
      /\ x \in Symbols(gram)
  BY <1>1, <1>4, MovedKernel
<1> HIDE DEF k, C, K
<1>6. /\ Matches(k) # {} => t \in Nat /\ t + 1 \in 2..Len(states) /\ states[t + 1].kernel = k
      /\ Matches(k) = {} => \A i \in 1..Len(states) : states[i].kernel # k
  BY <1>1, <1>5, LookUp
<1>7. \/ /\ Matches(k) # {} /\ go' = Append(go, t) /\ states' = states /\ buckets' = buckets
      \/ /\ Matches(k) = {} /\ go' = Append(go, Len(states))
         /\ states' = Append(states, s)
         /\ Pushed(buckets, buckets', Len(states), h)
  <2>1. \/ /\ Matches(k) # {} /\ go' = Append(go, t) /\ states' = states /\ buckets' = buckets
        \/ /\ Matches(k) = {} /\ go' = Append(go, Len(states))
           /\ states' = Append(states, s) /\ buckets' = new
    BY DEF Commit, k, x
  <2>2. Pushed(buckets, new, Len(states), h)
    BY <1>3 DEF Pushed, Bucket, BucketIn
  <2> HIDE DEF new, h, s, t
  <2> QED BY <2>1, <2>2
<1> HIDE DEF h, t
<1>8. CASE /\ Matches(k) # {} /\ go' = Append(go, t) /\ states' = states /\ buckets' = buckets
  <2>1. t \in Nat /\ t + 1 \in 1..Len(states) /\ states[t + 1].kernel = k /\ states[t + 1].sym = x
    <3>1. t \in Nat /\ t + 1 \in 2..Len(states) /\ states[t + 1].kernel = k
      BY <1>6, <1>8
    <3>2. PICK p \in k : TRUE
      BY <1>5
    <3>3. Rhs(gram, p[1])[p[2]] = x /\ Rhs(gram, p[1])[p[2]] = states[t + 1].sym
      BY <3>1, <1>2, <1>5 DEF KernelsIn
    <3> QED BY <3>1, <3>3, <1>3
  <2>2. Extends(states, states)
    BY DEF Extends
  <2>3. Committed(gram, states, C, todo', go')
    BY <2>1, <2>2, <1>1, <1>2, <1>3, <1>4, <1>5, <1>8, TabGrows
  <2>4. go' \in Seq(Nat)
    BY <2>1, <1>3, <1>8, AppendProperties
  <2>5. TypeOK'
    BY <2>4, <1>1, <1>2, <1>3, <1>8 DEF TypeOK
  <2>6. KernelsMoved' /\ Hashed' /\ KernelsUnique'
    BY <1>1, <1>2, <1>8 DEF KernelsMoved, Hashed, KernelsUnique
  <2>7. Closing' /\ Committing'
    BY <2>3, <1>1, <1>2, <1>8 DEF Closing, Committing, C, K
  <2>8. TabsFilled'
    BY <1>1, <1>2, <1>8 DEF TabsFilled
  <2> QED BY <2>5, <2>6, <2>7, <2>8 DEF IInv
<1>9. CASE /\ Matches(k) = {} /\ go' = Append(go, Len(states))
           /\ states' = Append(states, s)
           /\ Pushed(buckets, buckets', Len(states), h)
  <2> DEFINE n == Len(states)
  <2>1. s \in R /\ s.sym = x /\ s.kernel = k /\ s.go = << >>
    BY <1>5 DEF NewState, StateRecords
  <2> HIDE DEF s, R
  <2>2. /\ states' \in Seq(R) /\ Len(states') = n + 1 /\ n \in Nat
        /\ \A i \in 1..n : i \in 1..(n + 1) /\ states'[i] = states[i]
        /\ states'[n + 1] = s
        /\ Extends(states, states')
    BY <2>1, <1>3, <1>9, StateAppended DEF R
  <2>3. Filed(addr, states', buckets') /\ \A j \in DOMAIN buckets' : buckets'[j] \in Seq(Nat)
    <3>1. h = HashOf(addr, states'[Len(states) + 1].kernel)
      BY <2>1, <2>2 DEF h, Hash
    <3>2. Longer(states, states')
      BY <2>2, <1>3 DEF Longer
    <3> QED BY <3>1, <3>2, <1>2, <1>9, FiledGrows
  <2> HIDE DEF n
  <2>4. \A i \in 1..(n + 1) : i \in 1..n \/ i = n + 1
    BY <2>2
  <2>5. n >= 2 /\ n + 1 \in 1..(n + 1) /\ n # 0
    BY <1>3 DEF n
  <2>6. Committed(gram, states', C, todo', go')
    <3>1. Len(states) + 1 \in 1..Len(states')
      BY <2>2, <2>5 DEF n
    <3> QED BY <3>1, <2>1, <2>2, <1>1, <1>2, <1>3, <1>4, <1>5, <1>9, TabGrows DEF n
  <2>7. go' \in Seq(Nat)
    BY <1>3, <1>9, AppendProperties
  <2>8. TypeOK'
    <3>1. cur' < Len(states')
      BY <2>2, <1>1, <1>3 DEF n
    <3> QED BY <3>1, <2>2, <2>3, <2>7, <1>1, <1>2, <1>3 DEF TypeOK, R
  <2>9. KernelsIn(gram, states')
    <3>1. /\ states'[1].kernel = {<<0, 0>>}
          /\ states'[2].kernel = {<<0, 2>>} /\ states'[2].sym = Eof
      <4>1. 1 \in 1..n /\ 2 \in 1..n
        BY <2>2, <2>5
      <4> QED BY <4>1, <2>2, <1>2 DEF KernelsIn
    <3>2. ASSUME NEW i \in 1..Len(states') PROVE IsFiniteSet(states'[i].kernel)
      <4>1. i \in 1..n \/ i = n + 1
        BY <2>2, <2>4
      <4> QED BY <4>1, <2>1, <2>2, <1>2, <1>5 DEF KernelsIn, n
    <3>3. ASSUME NEW i \in 2..Len(states')
          PROVE  /\ states'[i].kernel # {} /\ states'[i].sym \in Symbols(gram)
                 /\ \A p \in states'[i].kernel : p[2] >= 1 /\ Rhs(gram, p[1])[p[2]] = states'[i].sym
      <4>1. (i \in 1..n /\ i \in 2..n) \/ i = n + 1
        BY <2>2, <2>5
      <4> QED BY <4>1, <2>1, <2>2, <1>2, <1>5 DEF KernelsIn, n
    <3>4. Len(states') >= 2
      BY <2>2, <2>5
    <3> QED BY <3>1, <3>2, <3>3, <3>4 DEF KernelsIn
  <2>10. KernelsUnique'
    <3> SUFFICES ASSUME NEW i \in 1..Len(states'), NEW j \in 1..Len(states'),
                        states'[i].kernel = states'[j].kernel
                 PROVE  i = j
      BY DEF KernelsUnique
    <3>1. (i \in 1..n \/ i = n + 1) /\ (j \in 1..n \/ j = n + 1)
      BY <2>2, <2>4
    <3>2. \A m \in 1..n : states'[m] = states[m] /\ states[m].kernel # k
      BY <2>2, <1>6, <1>9 DEF n
    <3>3. states'[n + 1].kernel = k
      BY <2>1, <2>2
    <3> QED BY <3>1, <3>2, <3>3, <1>2 DEF KernelsUnique, n
  <2>11. KernelsMoved' /\ Hashed'
    BY <2>3, <2>9, <1>1 DEF KernelsMoved, Hashed
  <2>12. states'[cur' + 1].kernel = K
    BY <2>2, <1>1, <1>3 DEF K, n
  <2>13. Closing' /\ Committing'
    BY <2>6, <2>12, <1>1, <1>2 DEF Closing, Committing, C
  <2>14. TabsFilled'
    <3> SUFFICES ASSUME NEW i \in 1..Len(states')
                 PROVE  IF i <= cur THEN TabExact(gram, states', i) ELSE states'[i].go = << >>
      BY <1>1 DEF TabsFilled
    <3>1. CASE i \in 1..n
      <4>1. IF i <= cur THEN TabExact(gram, states, i) ELSE states[i].go = << >>
        BY <3>1, <1>1, <1>2 DEF TabsFilled, n
      <4> QED BY <4>1, <3>1, <2>2, TabOverExtends DEF TabExact
    <3>2. CASE i = n + 1
      <4>1. ~ (i <= cur) /\ states'[i].go = << >>
        BY <3>2, <2>1, <2>2, <1>3 DEF n
      <4> QED BY <4>1
    <3> QED BY <3>1, <3>2, <2>2, <2>4
  <2> QED BY <2>8, <2>10, <2>11, <2>13, <2>14 DEF IInv
<1> QED BY <1>7, <1>8, <1>9

-----------------------------------------------------------------------------
(* The closure as the later passes compute it again.                       *)

\* The buffer never holds more points than are reserved for it.
LEMMA BufferFits ==
  ASSUME NEW g \in Grammars, NEW c \in Seq(Points(g)), NEW r, NEW K, IsFiniteSet(K), BufferOf(g, c, r, K)
  PROVE  Len(c) <= Cardinality(K) + Cardinality(RuleIds(g)) /\ NoRepeats(c)
<1> DEFINE m == Cardinality(K)
           n == Len(c)
           f == [i \in (m + 1)..n |-> c[i][1]]
<1>1. n \in Nat
  BY LenProperties
<1>2. m \in Nat /\ IsFiniteSet(RuleIds(g)) /\ Cardinality(RuleIds(g)) \in Nat
  BY GramFacts, FS_CardinalityType
<1>3. m <= n /\ NoRepeats(c) /\ \A i \in (m + 1)..n : c[i][2] = 0
  BY DEF BufferOf
<1> HIDE DEF m, n
<1>4. f \in Injection((m + 1)..n, RuleIds(g))
  <2>1. ASSUME NEW i \in (m + 1)..n
        PROVE  i \in 1..n /\ c[i][1] \in RuleIds(g) /\ c[i] = <<c[i][1], 0>>
    <3>1. i \in 1..Len(c)
      BY <1>1, <1>2 DEF n
    <3>2. c[i] \in Points(g)
      BY <3>1, ElementOfSeq
    <3>3. c[i][1] \in RuleIds(g) /\ c[i] = <<c[i][1], c[i][2]>>
      BY <3>2, PointFacts
    <3>4. c[i][2] = 0
      BY <1>3
    <3> HIDE DEF f
    <3> QED BY <3>1, <3>3, <3>4 DEF n
  <2>2. ASSUME NEW i \in (m + 1)..n, NEW j \in (m + 1)..n, c[i][1] = c[j][1] PROVE i = j
    BY <2>1, <2>2, <1>3 DEF NoRepeats, n
  <2> QED BY <2>1, <2>2 DEF Injection, IsInjective
<1>5. IsFiniteSet((m + 1)..n) /\ Cardinality((m + 1)..n) = n - m
  <2>1. m + 1 \in Int /\ n \in Int
    BY <1>1, <1>2
  <2>2. IsFiniteSet((m + 1)..n) /\ Cardinality((m + 1)..n) = IF m + 1 > n THEN 0 ELSE n - (m + 1) + 1
    BY <2>1, FS_Interval
  <2>3. (IF m + 1 > n THEN 0 ELSE n - (m + 1) + 1) = n - m
    BY <1>1, <1>2, <1>3
  <2> QED BY <2>2, <2>3
<1>6. n - m <= Cardinality(RuleIds(g))
  BY <1>2, <1>4, <1>5, FS_Injection
<1> QED BY <1>1, <1>2, <1>3, <1>6 DEF m, n

Turn2(g, n, c) == IF n > Len(c) THEN c ELSE AddRules(g, c, n)
After(g, k) ==
  CHOOSE a : a = [n \in 0..(Cardinality(k) + Cardinality(RuleIds(g))) |->
                    IF n = 0 THEN Sorted(k)
                    ELSE LET c == a[n - 1] IN IF n > Len(c) THEN c ELSE AddRules(g, c, n)]

\* The buffers of ClosureOf are defined, each by the one before it.
LEMMA AfterDefined ==
  ASSUME NEW g \in Grammars, NEW k \in SUBSET Points(g), IsFiniteSet(k)
  PROVE  LET N == Cardinality(k) + Cardinality(RuleIds(g)) IN
         /\ N \in Nat /\ ClosureOf(g, k) = After(g, k)[N]
         /\ After(g, k)[0] = Sorted(k)
         /\ \A n \in 1..N : After(g, k)[n] = Turn2(g, n, After(g, k)[n - 1])
<1> DEFINE N == Cardinality(k) + Cardinality(RuleIds(g))
           S == Seq(Points(g))
           F == [n \in 1..N |-> [c \in S |-> Turn2(g, n, c)]]
           Def(a) == a = [n \in 0..N |-> IF n = 0 THEN Sorted(k)
                                         ELSE LET c == a[n - 1] IN IF n > Len(c) THEN c ELSE AddRules(g, c, n)]
<1>1. N \in Nat
  <2>1. IsFiniteSet(RuleIds(g))
    BY GramFacts
  <2>2. Cardinality(k) \in Nat /\ Cardinality(RuleIds(g)) \in Nat
    BY <2>1, FS_CardinalityType
  <2> QED BY <2>2
<1>2. Sorted(k) \in S
  <2>1. Points(g) \in SUBSET (Nat \X Nat)
    BY GramFacts DEF Points
  <2> QED BY <2>1, SortedFacts
<1>3. ASSUME NEW n \in 1..N, NEW c \in S PROVE Turn2(g, n, c) \in S
  <2>1. CASE n > Len(c)
    BY <2>1 DEF Turn2
  <2>2. CASE ~ (n > Len(c))
    <3>1. n \in 1..Len(c)
      BY <2>2, <1>1, LenProperties
    <3>2. AddRules(g, c, n) \in Seq(Points(g))
      BY <3>1, AddRulesFacts
    <3> QED BY <3>2, <2>2 DEF Turn2
  <2> QED BY <2>1, <2>2
<1>4. F \in [1..N -> [S -> S]]
  BY <1>3
<1> HIDE DEF N, S, F
<1>5. PICK h : IsRun(h, S, Sorted(k), N, F)
  BY <1>1, <1>2, <1>4, StepsExist
<1>6. Def(h)
  <2>1. h \in [0..N -> S] /\ h[0] = Sorted(k) /\ \A n \in 1..N : h[n] = F[n][h[n - 1]]
    BY <1>5 DEF IsRun
  <2>2. ASSUME NEW n \in 0..N, n # 0 PROVE h[n] = Turn2(g, n, h[n - 1])
    <3>1. n \in 1..N /\ n - 1 \in 0..N
      BY <2>2, <1>1
    <3>2. h[n - 1] \in S
      BY <2>1, <3>1
    <3> QED BY <3>1, <3>2, <2>1 DEF F
  <2> QED BY <2>1, <2>2 DEF Turn2
<1>7. Def(After(g, k))
  <2>1. After(g, k) = CHOOSE a : Def(a)
    BY DEF After, N
  <2> HIDE DEF Def
  <2> QED BY <1>6, <2>1
<1>8. ClosureOf(g, k) = After(g, k)[N]
  BY DEF ClosureOf, After, N
<1>9. After(g, k)[0] = Sorted(k)
  BY <1>1, <1>7
<1>10. ASSUME NEW n \in 1..N PROVE After(g, k)[n] = Turn2(g, n, After(g, k)[n - 1])
  BY <1>1, <1>7 DEF Turn2
<1> QED BY <1>1, <1>8, <1>9, <1>10 DEF N

\* What ClosureOf computes is the closure, each item once.
LEMMA ClosureComputed ==
  ASSUME NEW g \in Grammars, NEW k \in SUBSET Points(g), IsFiniteSet(k),
         k = {<<0, 0>>} \/ \A p \in k : p[2] >= 1
  PROVE  /\ ClosureOf(g, k) \in Seq(Points(g)) /\ NoRepeats(ClosureOf(g, k))
         /\ ClosureSet(g, k) = A!Closure(g, k)
<1> DEFINE N == Cardinality(k) + Cardinality(RuleIds(g))
           a == After(g, k)
           Filling(n, c) ==
             /\ c \in Seq(Points(g))
             /\ BufferOf(g, c, IF n <= Len(c) THEN n + 1 ELSE Len(c) + 1, k)
           I == {n \in Nat : n <= N => Filling(n, a[n])}
<1>1. /\ N \in Nat /\ ClosureOf(g, k) = a[N] /\ a[0] = Sorted(k)
      /\ \A n \in 1..N : a[n] = Turn2(g, n, a[n - 1])
  BY AfterDefined
<1> HIDE DEF N, a
<1>2. 0 \in I
  <2>1. Points(g) \in SUBSET (Nat \X Nat)
    BY GramFacts DEF Points
  <2>2. /\ Sorted(k) \in Seq(Points(g)) /\ Len(Sorted(k)) = Cardinality(k) /\ Cardinality(k) \in Nat
        /\ k = {Sorted(k)[n] : n \in 1..Cardinality(k)} /\ NoRepeats(Sorted(k))
    BY <2>1, SortedFacts
  <2>3. BufferOf(g, Sorted(k), 1, k)
    BY <2>2, FreshBuffer
  <2>4. (IF 0 <= Len(Sorted(k)) THEN 0 + 1 ELSE Len(Sorted(k)) + 1) = 1
    BY <2>2
  <2> QED BY <2>2, <2>3, <2>4, <1>1
<1>3. ASSUME NEW n \in Nat, n \in I PROVE n + 1 \in I
  <2> SUFFICES ASSUME n + 1 <= N PROVE Filling(n + 1, a[n + 1])
    OBVIOUS
  <2> DEFINE c == a[n]
             d == a[n + 1]
  <2>1. n + 1 \in 1..N /\ n <= N /\ (n + 1) - 1 = n
    BY <1>1
  <2>2. Filling(n, c) /\ d = Turn2(g, n + 1, c)
    BY <1>1, <1>3, <2>1
  <2> HIDE DEF c, d
  <2>3. c \in Seq(Points(g)) /\ Len(c) \in Nat
    BY <2>2, LenProperties
  <2>4. CASE n + 1 > Len(c)
    <3>1. d = c
      BY <2>2, <2>4 DEF Turn2
    <3>2. (IF n <= Len(c) THEN n + 1 ELSE Len(c) + 1) = Len(c) + 1
      BY <2>3, <2>4
    <3>3. (IF n + 1 <= Len(c) THEN (n + 1) + 1 ELSE Len(c) + 1) = Len(c) + 1
      BY <2>3, <2>4
    <3> QED BY <3>1, <3>2, <3>3, <2>2 DEF d
  <2>5. CASE ~ (n + 1 > Len(c))
    <3>1. n + 1 \in 1..Len(c) /\ (IF n <= Len(c) THEN n + 1 ELSE Len(c) + 1) = n + 1
      BY <2>3, <2>5
    <3>2. d = AddRules(g, c, n + 1)
      BY <2>2, <2>5 DEF Turn2
    <3>3. BufferOf(g, d, (n + 1) + 1, k)
      BY <3>1, <3>2, <2>2, <2>3, AddRulesKeeps
    <3>4. d \in Seq(Points(g)) /\ Len(d) >= Len(c) /\ Len(d) \in Nat
      <4>1. d \in Seq(Points(g)) /\ Len(d) >= Len(c)
        BY <3>1, <3>2, <2>3, AddRulesFacts
      <4> QED BY <4>1, LenProperties
    <3>5. (IF n + 1 <= Len(d) THEN (n + 1) + 1 ELSE Len(d) + 1) = (n + 1) + 1
      BY <3>1, <3>4, <2>3
    <3> QED BY <3>3, <3>4, <3>5 DEF d
  <2> QED BY <2>4, <2>5
<1>4. N \in I
  <2> HIDE DEF I
  <2> QED BY <1>1, <1>2, <1>3, SetInduction
<1>5. Filling(N, a[N])
  BY <1>1, <1>4
<1> DEFINE c == a[N]
<1>6. c \in Seq(Points(g)) /\ Len(c) \in Nat
  BY <1>5, LenProperties
<1> HIDE DEF c
<1>7. Len(c) <= N /\ NoRepeats(c)
  BY <1>5, <1>6, BufferFits DEF N, c
<1>8. (IF N <= Len(c) THEN N + 1 ELSE Len(c) + 1) = Len(c) + 1
  BY <1>1, <1>6, <1>7
<1>9. A!Closure(g, k) = {c[i] : i \in 1..Len(c)}
  <2>1. BufferOf(g, c, Len(c) + 1, k)
    BY <1>5, <1>8 DEF c
  <2> QED BY <2>1, <1>6, ClosureReached
<1> QED BY <1>1, <1>6, <1>7, <1>9 DEF ClosureSet, c

\* The closure they compute is the least set of items with the rules that it expects.
LEMMA ClosureSetFacts ==
  ASSUME NEW g \in Grammars, NEW k \in SUBSET Points(g), IsFiniteSet(k),
         k = {<<0, 0>>} \/ \A p \in k : p[2] >= 1
  PROVE  /\ ClosureOf(g, k) \in Seq(Points(g)) /\ NoRepeats(ClosureOf(g, k))
         /\ ClosureSet(g, k) \in SUBSET Points(g) /\ k \subseteq ClosureSet(g, k)
         /\ \A p \in ClosureSet(g, k) : p \in k \/ \E r \in RuleIds(g) : p = <<r, 0>>
         /\ \A p \in ClosureSet(g, k) : \A r \in RuleIds(g) :
              ~ AtEnd(g, p) /\ Lhs(g, r) = AfterDot(g, p) => <<r, 0>> \in ClosureSet(g, k)
         /\ \A D : /\ k \subseteq D
                   /\ \A p \in D : \A r \in RuleIds(g) :
                        ~ AtEnd(g, p) /\ Lhs(g, r) = AfterDot(g, p) => <<r, 0>> \in D
                   => ClosureSet(g, k) \subseteq D
<1> DEFINE C == ClosureSet(g, k)
           Full(D) == \A p \in D : \A r \in RuleIds(g) :
                        ~ AtEnd(g, p) /\ Lhs(g, r) = AfterDot(g, p) => <<r, 0>> \in D
<1>1. /\ ClosureOf(g, k) \in Seq(Points(g)) /\ NoRepeats(ClosureOf(g, k))
      /\ C = A!Closure(g, k)
  BY ClosureComputed
<1>2. C \in SUBSET Points(g)
  <2> DEFINE b == ClosureOf(g, k)
  <2>1. \A n \in 1..Len(b) : b[n] \in Points(g)
    BY <1>1, ElementOfSeq
  <2> HIDE DEF b
  <2> QED BY <2>1 DEF ClosureSet, b
<1>3. IsFiniteSet(g.nonterms)
  BY GramFacts
<1>4. /\ k \subseteq C /\ Closed(g, C)
      /\ \A p \in C : p \in k \/ \E r \in RuleIds(g) : p = <<r, 0>>
      /\ \A D : k \subseteq D /\ Closed(g, D) => C \subseteq D
  BY <1>1, <1>3, ClosureFacts
<1> HIDE DEF C
<1>5. Full(C)
  <2> SUFFICES ASSUME NEW p \in C, NEW r \in RuleIds(g), ~ AtEnd(g, p), Lhs(g, r) = AfterDot(g, p)
               PROVE  <<r, 0>> \in C
    OBVIOUS
  <2>1. AfterDot(g, p) \in g.terms \cup g.nonterms
    BY <1>2, PointFacts
  <2>2. r # 0
    <3>1. IsGrammar(g)
      BY GrammarsAreGrammars
    <3>2. g.start \notin g.terms \cup g.nonterms /\ (Lhs(g, r) = g.start <=> r = 0)
      BY <3>1 DEF IsGrammar
    <3> QED BY <3>2, <2>1
  <2>3. AfterDot(g, p) \in g.nonterms
    BY <2>2, GramFacts
  <2>4. AfterDot(g, p) \in A!Expected(g, C)
    BY <2>3, AbsOperators
  <2> QED BY <2>4, <1>4 DEF Closed
<1>6. ASSUME NEW D, k \subseteq D, Full(D) PROVE C \subseteq D
  <2>1. Closed(g, D)
    <3> SUFFICES ASSUME NEW r \in RuleIds(g), Lhs(g, r) \in A!Expected(g, D) PROVE <<r, 0>> \in D
      BY DEF Closed
    <3>1. PICK p \in D : ~ AtEnd(g, p) /\ Lhs(g, r) = AfterDot(g, p)
      BY AbsOperators
    <3> QED BY <3>1, <1>6
  <2> QED BY <2>1, <1>4, <1>6
<1> QED BY <1>1, <1>2, <1>4, <1>5, <1>6 DEF C

-----------------------------------------------------------------------------
(* What the later passes find.                                             *)

(***************************************************************************)
(* Every kernel behind the reserved two is what an earlier state leads to. *)
(***************************************************************************)
LedTo ==
  \A i \in 3..Len(states) : \E j \in 1..(i - 1) : \E x \in Symbols(gram) :
    states[i].kernel = A!Advance(gram, A!Closure(gram, states[j].kernel), x)

\* Kernels are only appended, and only the successors of the state at hand.
LEMMA LedToKept ==
  ASSUME IInv, LedTo, [Next]_vars
  PROVE  LedTo'
<1>1. ASSUME Build PROVE LedTo'
  <2>1. Len(states') = 2 /\ 3..2 = {}
    BY <1>1 DEF Build
  <2> QED BY <2>1 DEF LedTo
<1>2. ASSUME gram' = gram, Len(states') = Len(states), Extends(states, states') PROVE LedTo'
  <2>1. Len(states) \in Nat
    BY LenProperties DEF IInv, TypeOK
  <2>2. \A i \in 1..Len(states) : states'[i].kernel = states[i].kernel
    BY <1>2 DEF Extends
  <2> SUFFICES ASSUME NEW i \in 3..Len(states)
               PROVE  \E j \in 1..(i - 1) : \E x \in Symbols(gram) :
                        states'[i].kernel = A!Advance(gram, A!Closure(gram, states'[j].kernel), x)
    BY <1>2 DEF LedTo
  <2>3. PICK j \in 1..(i - 1), x \in Symbols(gram) :
          states[i].kernel = A!Advance(gram, A!Closure(gram, states[j].kernel), x)
    BY DEF LedTo
  <2>4. i \in 1..Len(states) /\ j \in 1..Len(states)
    BY <2>1
  <2>5. states'[i].kernel = states[i].kernel /\ states'[j].kernel = states[j].kernel
    BY <2>2, <2>4
  <2> QED BY <2>3, <2>5
<1>3. ASSUME UNCHANGED <<gram, states>> PROVE LedTo'
  BY <1>3 DEF LedTo
<1>4. ASSUME ListSymbols PROVE LedTo'
  <2>1. gram' = gram /\ states' = WithCount(states, cur + 1, Len(closure)) /\ pc = "closure"
    BY <1>4 DEF ListSymbols, WithCount
  <2>2. /\ states \in Seq(StateRecords(gram)) /\ cur + 1 \in 1..Len(states) /\ Len(closure) \in Nat
    <3>1. Len(states) \in Nat /\ TypeOK /\ Len(closure) \in Nat
      BY LenProperties DEF IInv, TypeOK
    <3> QED BY <3>1, <2>1 DEF TypeOK
  <2>3. Len(states') = Len(states) /\ Extends(states, states')
    BY <2>1, <2>2, CountStored
  <2> QED BY <2>1, <2>3, <1>2
<1>5. ASSUME NextState \/ Finish PROVE LedTo'
  <2>1. pc = "commit" /\ todo = {} /\ gram' = gram /\ states' = WithGo(states, cur + 1, go)
    BY <1>5 DEF NextState, Finish, WithGo
  <2>2. Len(states') = Len(states) /\ Extends(states, states')
    BY <2>1, TabStored
  <2> QED BY <2>1, <2>2, <1>2
<1>6. ASSUME Commit PROVE LedTo'
  <2> DEFINE x == First(todo)
             k == Moved(x)
             n == Len(states)
             K == states[cur + 1].kernel
  <2>1. /\ pc = "commit" /\ gram' = gram /\ todo # {}
        /\ \/ states' = states
           \/ states' = Append(states, NewState(x, k))
    BY <1>6 DEF Commit
  <2>2. /\ gram \in Grammars /\ todo \in SUBSET Symbols(gram) /\ n \in Nat
        /\ states \in Seq(StateRecords(gram)) /\ cur + 1 \in 1..n
    <3>1. n \in Nat /\ TypeOK
      BY LenProperties DEF IInv, TypeOK
    <3> QED BY <3>1, <2>1 DEF TypeOK
  <2>3. x \in todo
    BY <2>1, <2>2, FirstFacts
  <2> HIDE DEF x
  <2>4. /\ k = A!Advance(gram, A!Closure(gram, K), x) /\ k \in SUBSET Points(gram)
        /\ x \in Symbols(gram)
    BY <2>1, <2>3, MovedKernel
  <2> HIDE DEF k
  <2>5. CASE states' = Append(states, NewState(x, k))
    <3>1. NewState(x, k) \in StateRecords(gram) /\ NewState(x, k).kernel = k
      BY <2>4 DEF NewState, StateRecords
    <3>2. /\ Len(states') = n + 1 /\ states'[n + 1].kernel = k
          /\ \A i \in 1..n : states'[i] = states[i]
      BY <2>2, <2>5, <3>1, StateAppended DEF n
    <3> SUFFICES ASSUME NEW i \in 3..(n + 1)
                 PROVE  \E j \in 1..(i - 1) : \E y \in Symbols(gram) :
                          states'[i].kernel = A!Advance(gram, A!Closure(gram, states'[j].kernel), y)
      BY <2>1, <3>2 DEF LedTo
    <3>3. CASE i = n + 1
      <4>1. cur + 1 \in 1..(i - 1) /\ states'[cur + 1] = states[cur + 1]
        BY <3>2, <3>3, <2>2
      <4> QED BY <4>1, <3>2, <3>3, <2>4 DEF K
    <3>4. CASE i # n + 1
      <4>1. i \in 3..Len(states) /\ i \in 1..n
        BY <3>4, <2>2 DEF n
      <4>2. PICK j \in 1..(i - 1), y \in Symbols(gram) :
              states[i].kernel = A!Advance(gram, A!Closure(gram, states[j].kernel), y)
        BY <4>1 DEF LedTo
      <4>3. j \in 1..n
        BY <4>1, <2>2
      <4>4. states'[i] = states[i] /\ states'[j] = states[j]
        BY <3>2, <4>1, <4>3
      <4> QED BY <4>2, <4>4
    <3> QED BY <3>3, <3>4
  <2> QED BY <2>1, <2>5, <1>3
<1>7. CloseItem => UNCHANGED <<gram, states>>
  BY DEF CloseItem
<1>8. UNCHANGED vars => UNCHANGED <<gram, states>>
  BY DEF vars
<1> QED BY <1>1, <1>3, <1>4, <1>5, <1>6, <1>7, <1>8 DEF Next

\* Moving the dot is the same operation there.
LEMMA AdvanceIs == \A g, c, x : A!Advance(g, c, x) = Advance(g, c, x)
BY AbsOperators DEF Advance

\* lr0_build leaves what the later passes take for granted.
LEMMA AutomatonBuilt ==
  ASSUME IInv, LedTo, pc = "done"
  PROVE  IsAutomaton(gram, states)
<1>1. /\ TypeOK /\ KernelsIn(gram, states) /\ KernelsUnique /\ TabsFilled /\ gram \in Grammars
      /\ states \in Seq(StateRecords(gram)) /\ Len(states) \in Nat /\ Len(states) >= 2
  <2>1. TypeOK /\ KernelsIn(gram, states)
    BY DEF IInv, KernelsMoved
  <2> QED BY <2>1, LenProperties DEF IInv, TypeOK, KernelsIn
<1>2. ASSUME NEW n \in 1..Len(states)
      PROVE  /\ states[n].kernel \in SUBSET Points(gram) /\ IsFiniteSet(states[n].kernel)
             /\ states[n].go \in Seq(Nat)
             /\ n # 1 => \A p \in states[n].kernel : p[2] >= 1
             /\ ClosureSet(gram, states[n].kernel) = A!Closure(gram, states[n].kernel)
  <2>1. states[n] \in StateRecords(gram)
    BY <1>1, ElementOfSeq
  <2>2. states[n].kernel \in SUBSET Points(gram) /\ states[n].go \in Seq(Nat)
    BY <2>1 DEF StateRecords
  <2>3. IsFiniteSet(states[n].kernel) /\ (n # 1 => \A p \in states[n].kernel : p[2] >= 1)
    BY <1>1 DEF KernelsIn
  <2>4. states[n].kernel = {<<0, 0>>} \/ \A p \in states[n].kernel : p[2] >= 1
    BY <2>3, <1>1 DEF KernelsIn
  <2> QED BY <2>2, <2>3, <2>4, <1>1, ClosureComputed
<1>3. ASSUME NEW q \in 0..(Len(states) - 1) PROVE GototabExact(gram, states, q)
  <2> DEFINE K == states[q + 1].kernel
             c == ClosureSet(gram, K)
             tab == states[q + 1].go
  <2>1. q + 1 \in 1..Len(states)
    BY <1>1
  <2>2. c = A!Closure(gram, K) /\ tab \in Seq(Nat)
    BY <2>1, <1>2
  <2>3. TabOver(gram, states, c, Leads(gram, c), tab)
    BY <2>1, <2>2, <1>1 DEF TabsFilled, TabExact
  <2> HIDE DEF c, tab
  <2>4. \A n \in 1..Len(tab) : tab[n] \in Nat
    BY <2>2, ElementOfSeq
  <2>5. tab \in Seq(0..(Len(states) - 1))
    <3>1. \A n \in 1..Len(tab) : tab[n] \in 0..(Len(states) - 1)
      BY <2>3, <2>4, <1>1 DEF TabOver
    <3>2. Len(tab) \in Nat /\ tab \in [1..Len(tab) -> Nat]
      BY <2>2, LenProperties
    <3> QED BY <3>1, <3>2
  <2>6. \A n \in 1..Len(tab) :
          /\ states[tab[n] + 1].sym \in Symbols(gram)
          /\ states[tab[n] + 1].kernel = Advance(gram, c, states[tab[n] + 1].sym)
          /\ Advance(gram, c, states[tab[n] + 1].sym) # {}
    BY <2>3, AdvanceIs DEF TabOver, Leads
  <2>7. \A x \in Symbols(gram) :
          Advance(gram, c, x) # {} => \E n \in 1..Len(tab) : states[tab[n] + 1].sym = x
    BY <2>3, AdvanceIs DEF TabOver, Leads
  <2>8. \A m, n \in 1..Len(tab) :
          m < n => SymbolId(gram, states[tab[m] + 1].sym) < SymbolId(gram, states[tab[n] + 1].sym)
    <3>1. ASSUME NEW m \in 1..Len(tab), NEW n \in 1..Len(tab), m < n
          PROVE  SymbolId(gram, states[tab[m] + 1].sym) < SymbolId(gram, states[tab[n] + 1].sym)
      <4> DEFINE x == states[tab[m] + 1].sym
                 y == states[tab[n] + 1].sym
      <4>1. IdIn(gram, x) < IdIn(gram, y)
        BY <3>1, <2>3 DEF TabOver
      <4>2. SymId(x) = IdIn(gram, x) /\ SymId(y) = IdIn(gram, y)
        BY DEF SymId, IdIn
      <4>3. SymId(x) \in Nat /\ SymId(y) \in Nat
        BY <2>6, <1>1, SymIdFacts
      <4>4. SymbolId(gram, x) = SymId(x) - 1 /\ SymbolId(gram, y) = SymId(y) - 1
        BY DEF SymbolId, SymId
      <4> HIDE DEF x, y
      <4>5. SymbolId(gram, x) < SymbolId(gram, y)
        BY <4>1, <4>2, <4>3, <4>4
      <4> QED BY <4>5 DEF x, y
    <3> QED BY <3>1
  <2> QED BY <2>5, <2>6, <2>7, <2>8 DEF GototabExact, c, tab
<1>4. ASSUME NEW t \in 2..(Len(states) - 1) PROVE \E q \in 0..(t - 1) : Occurs(t, states[q + 1].go)
  <2>1. t + 1 \in 3..Len(states) /\ (t + 1) - 1 = t /\ t + 1 \in 2..Len(states) /\ t + 1 \in 1..Len(states)
    BY <1>1
  <2>2. PICK j \in 1..t, x \in Symbols(gram) :
          states[t + 1].kernel = A!Advance(gram, A!Closure(gram, states[j].kernel), x)
    BY <2>1 DEF LedTo
  <2> DEFINE c == A!Closure(gram, states[j].kernel)
             tab == states[j].go
  <2>3. j \in 1..Len(states) /\ j - 1 \in 0..(t - 1) /\ (j - 1) + 1 = j
    BY <2>1, <1>1
  <2>4. TabOver(gram, states, c, Leads(gram, c), tab)
    BY <2>3, <1>1 DEF TabsFilled, TabExact
  <2>5. states[t + 1].kernel # {}
    BY <2>1, <1>1 DEF KernelsIn
  <2> HIDE DEF c, tab
  <2>6. PICK n \in 1..Len(tab) : states[tab[n] + 1].sym = x
    BY <2>2, <2>4, <2>5 DEF TabOver, Leads, c
  <2>7. tab[n] + 1 \in 1..Len(states) /\ states[tab[n] + 1].kernel = states[t + 1].kernel
    BY <2>2, <2>4, <2>6 DEF TabOver, c
  <2>8. tab \in Seq(Nat)
    BY <2>3, <1>2 DEF tab
  <2>9. tab[n] \in Nat
    BY <2>8, ElementOfSeq
  <2>10. tab[n] + 1 = t + 1
    BY <2>1, <2>7, <1>1 DEF KernelsUnique
  <2>11. tab[n] = t
    BY <2>9, <2>10
  <2> QED BY <2>3, <2>11 DEF Occurs, tab
<1>5. \A n \in 1..Len(states) :
        /\ IsFiniteSet(states[n].kernel)
        /\ \A p \in states[n].kernel :
             p \in RuleIds(gram) \X Nat /\ p[2] <= Length(gram, p[1]) /\ (n # 1 => p[2] >= 1)
  BY <1>2 DEF Points
<1>6. states[1].kernel = {<<0, 0>>} /\ states[2].kernel = {<<0, 2>>}
  BY <1>1 DEF KernelsIn
<1>7. \A m, n \in 1..Len(states) : states[m].kernel = states[n].kernel => m = n
  BY <1>1 DEF KernelsUnique
<1> QED BY <1>1, <1>3, <1>4, <1>5, <1>6, <1>7 DEF IsAutomaton

-----------------------------------------------------------------------------
(* The theorems.                                                           *)

\* The invariant holds before lr0_build.
LEMMA InvariantStarts ==
  ASSUME Init
  PROVE  IInv /\ LedTo
<1>1. /\ gram \in Grammars /\ pc = "build" /\ states = << >> /\ buckets = << >> /\ cur = 0
      /\ closure = << >> /\ ir = 0 /\ todo = {} /\ go = << >>
  BY DEF Init, Begin
<1>2. Len(states) = 0 /\ 1..0 = {} /\ DOMAIN buckets = {}
  BY <1>1
<1>3. TypeOK
  BY <1>1, <1>2 DEF TypeOK
<1>4. KernelsMoved /\ Hashed /\ Closing /\ Committing
  BY <1>1 DEF KernelsMoved, Hashed, Closing, Committing
<1>5. KernelsUnique /\ TabsFilled
  BY <1>2 DEF KernelsUnique, TabsFilled
<1>6. LedTo
  <2>1. 3..Len(states) = {}
    BY <1>2
  <2> QED BY <2>1 DEF LedTo
<1> QED BY <1>3, <1>4, <1>5, <1>6 DEF IInv

\* Every step of it keeps the invariant.
LEMMA InvariantKept ==
  ASSUME IInv, [Next]_vars
  PROVE  IInv'
<1>1. CASE Build
  BY <1>1, BuildKeeps
<1>2. CASE CloseItem
  BY <1>2, CloseItemKeeps
<1>3. CASE ListSymbols
  BY <1>3, ListSymbolsKeeps
<1>4. CASE Commit
  BY <1>4, CommitKeeps
<1>5. CASE NextState
  BY <1>5, NextStateKeeps
<1>6. CASE Finish
  BY <1>6, FinishKeeps
<1>7. CASE UNCHANGED vars
  BY <1>7 DEF vars, IInv, TypeOK, KernelsMoved, Hashed, KernelsUnique, Closing, Committing, TabsFilled
<1> QED BY <1>1, <1>2, <1>3, <1>4, <1>5, <1>6, <1>7 DEF Next

\* The invariant holds before lr0_build and in every state it goes through.
THEOREM InductiveInvariant == Spec => []IInv
<1>1. Init => IInv
  BY InvariantStarts
<1>2. IInv /\ [Next]_vars => IInv'
  BY InvariantKept
<1> QED BY <1>1, <1>2, PTL DEF Spec

\* Every variable keeps its type, and the state at hand is one of the list.
THEOREM TypeCorrect == Spec => []TypeOK
<1>1. IInv => TypeOK
  BY DEF IInv
<1> QED BY <1>1, InductiveInvariant, PTL

\* No kernel is committed twice, whatever the addresses of the rules.
THEOREM KernelsCommittedOnce == Spec => []KernelsUnique
<1>1. IInv => KernelsUnique
  BY DEF IInv
<1> QED BY <1>1, InductiveInvariant, PTL

\* lr0_closure stays in the buffer that lr0_build allocates for it.
THEOREM ClosureFitsBuffer == Spec => []ClosureFits
<1>1. ASSUME IInv PROVE ClosureFits
  <2> SUFFICES ASSUME pc \in {"closure", "commit"}
               PROVE  /\ Len(closure) <= Cardinality(State(cur).kernel) + Cardinality(RuleIds(gram))
                      /\ NoRepeats(closure)
    BY DEF ClosureFits
  <2> DEFINE K == states[cur + 1].kernel
  <2>1. TypeOK /\ BufferOf(gram, closure, ir, K) /\ KernelsIn(gram, states)
    BY <1>1 DEF IInv, Closing, KernelsMoved
  <2>2. gram \in Grammars /\ closure \in Seq(Points(gram)) /\ cur + 1 \in 1..Len(states)
    <3>1. Len(states) \in Nat
      BY <2>1, LenProperties DEF TypeOK
    <3> QED BY <2>1, <3>1 DEF TypeOK
  <2>3. IsFiniteSet(K)
    BY <2>1, <2>2 DEF KernelsIn
  <2> HIDE DEF K
  <2>4. Len(closure) <= Cardinality(K) + Cardinality(RuleIds(gram)) /\ NoRepeats(closure)
    BY <2>1, <2>2, <2>3, BufferFits
  <2> QED BY <2>4 DEF K, State
<1> QED BY <1>1, InductiveInvariant, PTL

\* The gototabs that lr0_goto_find and the later passes read are exact and sorted.
THEOREM GototabsAreExact == Spec => []GototabsExact
<1>1. ASSUME IInv PROVE GototabsExact
  <2> SUFFICES ASSUME pc = "done", NEW q \in StateIds
               PROVE  LET c   == A!Closure(gram, State(q).kernel)
                          tab == State(q).go
                      IN /\ \A n \in 1..Len(tab) :
                              /\ State(tab[n]).kernel = A!Advance(gram, c, State(tab[n]).sym)
                              /\ State(tab[n]).kernel # {}
                         /\ \A x \in Symbols(gram) :
                              A!Advance(gram, c, x) # {} => \E n \in 1..Len(tab) : State(tab[n]).sym = x
                         /\ \A m, n \in 1..Len(tab) :
                              m < n => SymId(State(tab[m]).sym) < SymId(State(tab[n]).sym)
    BY DEF GototabsExact
  <2> DEFINE c == A!Closure(gram, states[q + 1].kernel)
             tab == states[q + 1].go
  <2>1. TabOver(gram, states, c, Leads(gram, c), tab)
    <3>1. Len(states) \in Nat /\ TabsFilled
      BY <1>1, LenProperties DEF IInv, TypeOK
    <3>2. q + 1 \in 1..Len(states)
      BY <3>1 DEF StateIds
    <3> QED BY <3>1, <3>2 DEF TabsFilled, TabExact
  <2> HIDE DEF c, tab
  <2>2. \A x : SymId(x) = IdIn(gram, x)
    BY DEF SymId, IdIn
  <2> QED BY <2>1, <2>2 DEF TabOver, Leads, State, c, tab
<1> QED BY <1>1, InductiveInvariant, PTL
\* %eof, which is only behind the dot of <<0, 1>>, leads to the kernel of state 1.
LEMMA EofKernel ==
  ASSUME NEW g \in Grammars, NEW C \in SUBSET Points(g)
  PROVE  /\ A!Advance(g, C, Eof) \subseteq {<<0, 2>>}
         /\ <<0, 2>> \in A!Advance(g, C, Eof) => <<0, 1>> \in C
<1> DEFINE E == {q \in C : ~ AtEnd(g, q) /\ AfterDot(g, q) = Eof}
           Move(p) == <<p[1], p[2] + 1>>
<1>1. A!Advance(g, C, Eof) = {Move(p) : p \in E}
  BY AbsOperators
<1>2. ASSUME NEW p \in E PROVE p = <<0, 1>>
  <2>1. p \in Points(g) /\ ~ AtEnd(g, p) /\ AfterDot(g, p) = Eof
    OBVIOUS
  <2> QED BY <2>1, PointFacts
<1>3. Move(<<0, 1>>) = <<0, 2>>
  OBVIOUS
<1>4. E \subseteq C
  OBVIOUS
<1> HIDE DEF E, Move
<1> QED BY <1>1, <1>2, <1>3, <1>4

\* States 0 and 1 are entered as the generated parser's tables assume.
THEOREM StatesReserved == Spec => []ReservedStates
<1>1. ASSUME IInv PROVE ReservedStates
  <2> SUFFICES ASSUME NEW q \in StateIds, NEW n \in 1..Len(State(q).go)
               PROVE  LET t == State(q).go[n] IN
                      /\ t # 0
                      /\ t = 1 <=> State(t).sym = Eof
                      /\ t = 1 => <<0, 1>> \in State(q).kernel
    BY DEF ReservedStates
  <2> DEFINE K == states[q + 1].kernel
             C == A!Closure(gram, K)
             tab == states[q + 1].go
             t == tab[n]
             s == states[t + 1]
  <2>1. /\ TypeOK /\ TabsFilled /\ KernelsUnique /\ gram \in Grammars
        /\ Len(states) \in Nat /\ q + 1 \in 1..Len(states) /\ n \in 1..Len(tab)
    <3>1. TypeOK /\ TabsFilled /\ KernelsUnique /\ Len(states) \in Nat
      BY <1>1, LenProperties DEF IInv, TypeOK
    <3> QED BY <3>1 DEF StateIds, State, TypeOK
  <2>2. states[q + 1] \in StateRecords(gram)
    BY <2>1, ElementOfSeq DEF TypeOK
  <2>3. K \in SUBSET Points(gram) /\ tab \in Seq(Nat) /\ t \in Nat
    <3>1. K \in SUBSET Points(gram) /\ tab \in Seq(Nat)
      BY <2>2 DEF StateRecords
    <3> QED BY <3>1, <2>1, ElementOfSeq
  <2>4. KernelsIn(gram, states)
    <3>1. states # << >>
      BY <2>1
    <3> QED BY <3>1, <1>1, <2>1 DEF IInv, KernelsMoved, TypeOK
  <2>5. TabExact(gram, states, q + 1)
    <3>1. tab # << >>
      BY <2>1
    <3> QED BY <3>1, <2>1 DEF TabsFilled
  <2>6. t + 1 \in 1..Len(states) /\ s.sym \in Symbols(gram) /\ s.kernel = A!Advance(gram, C, s.sym) /\ s.kernel # {}
    BY <2>1, <2>5 DEF TabExact, TabOver, Leads
  <2>7. C \in SUBSET Points(gram) /\ \A p \in C : p \in K \/ p[2] = 0
    <3>1. IsFiniteSet(gram.nonterms)
      BY <2>1, GramFacts
    <3>2. \A p \in C : p \in K \/ \E r \in RuleIds(gram) : p = <<r, 0>>
      BY <3>1, ClosureFacts
    <3>3. \A r \in RuleIds(gram) : <<r, 0>> \in Points(gram) /\ <<r, 0>>[2] = 0
      <4>1. \A r \in RuleIds(gram) : Length(gram, r) \in Nat
        BY <2>1, GramFacts
      <4> QED BY <4>1 DEF Points
    <3> HIDE DEF C, K
    <3> QED BY <3>2, <3>3, <2>3
  <2> HIDE DEF K, C, tab, s
  <2>8. s.sym = Eof => s.kernel = {<<0, 2>>} /\ <<0, 1>> \in C
    BY <2>1, <2>6, <2>7, EofKernel
  <2> HIDE DEF t
  <2>9. t # 0
    <3>1. PICK p \in s.kernel : TRUE
      BY <2>6
    <3>2. p[2] >= 1
      <4>1. gram \in Grammars /\ C \in SUBSET Points(gram)
        BY <2>1, <2>7
      <4>2. \A e \in A!Advance(gram, C, s.sym) : e[2] >= 1
        BY <4>1, AdvanceFacts
      <4> QED BY <4>2, <3>1, <2>6
    <3>3. states[1].kernel = {<<0, 0>>}
      BY <2>4 DEF KernelsIn
    <3>4. p # <<0, 0>>
      BY <3>2
    <3> QED BY <3>1, <3>3, <3>4 DEF s
  <2>10. t = 1 <=> s.sym = Eof
    <3>1. states[2].kernel = {<<0, 2>>} /\ states[2].sym = Eof /\ 2 \in 1..Len(states)
      BY <2>1, <2>4 DEF KernelsIn
    <3>2. ASSUME s.sym = Eof PROVE t = 1
      <4>1. states[t + 1].kernel = states[2].kernel
        BY <3>1, <3>2, <2>8 DEF s
      <4>2. t + 1 = 2
        BY <4>1, <3>1, <2>1, <2>6 DEF KernelsUnique
      <4> QED BY <4>2, <2>3
    <3>3. ASSUME t = 1 PROVE s.sym = Eof
      BY <3>1, <3>3 DEF s
    <3> QED BY <3>2, <3>3
  <2>11. t = 1 => <<0, 1>> \in K
    <3>1. <<0, 1>>[2] # 0
      OBVIOUS
    <3> QED BY <3>1, <2>7, <2>8, <2>10
  <2>12. State(q).go[n] = t /\ State(t) = s /\ State(q).kernel = K
    BY DEF State, t, tab, s, K
  <2> QED BY <2>9, <2>10, <2>11, <2>12
<1> QED BY <1>1, InductiveInvariant, PTL

(***************************************************************************)
(* Without its fairness, what the abstract specification allows: a kernel  *)
(* is added only as the successor of one that is known, and lr0_build ends *)
(* only when every successor is known.                                     *)
(***************************************************************************)
Canonical == A!AbsInit /\ [][A!AbsNext]_A!absvars

\* lr0_build computes the canonical collection, step by step.
THEOREM CollectsCanonically == Spec => Canonical
<1> DEFINE known == {states[i].kernel : i \in 1..Len(states)}
<1>1. Init => A!AbsInit
  <2> SUFFICES ASSUME Init PROVE A!AbsInit
    OBVIOUS
  <2>1. gram \in Grammars /\ pc = "build" /\ states = << >>
    BY DEF Init, Begin
  <2>2. 1..Len(states) = {}
    BY <2>1
  <2> QED BY <2>1, <2>2 DEF A!AbsInit
<1>2. ASSUME IInv, Build PROVE A!Begin
  <2>1. pc = "build" /\ pc' = "closure" /\ gram' = gram /\ states = << >>
        /\ states' = <<NewState(Nil, {<<0, 0>>}), NewState(Eof, {<<0, 2>>})>>
    BY <1>2 DEF IInv, TypeOK, Build
  <2>2. known = {}
    BY <2>1
  <2>3. known' = {{<<0, 0>>}, {<<0, 2>>}}
    <3>1. Len(states') = 2 /\ 1..2 = {1, 2}
      BY <2>1
    <3>2. states'[1].kernel = {<<0, 0>>} /\ states'[2].kernel = {<<0, 2>>}
      BY <2>1 DEF NewState
    <3>3. known' = {states'[i].kernel : i \in {1, 2}}
      BY <3>1
    <3>4. {states'[i].kernel : i \in {1, 2}} = {states'[1].kernel, states'[2].kernel}
      OBVIOUS
    <3> QED BY <3>2, <3>3, <3>4
  <2> HIDE DEF known
  <2> QED BY <2>1, <2>2, <2>3 DEF A!Begin, A!FirstKernel, A!LastKernel, known
<1>3. ASSUME CloseItem PROVE UNCHANGED A!absvars
  BY <1>3 DEF CloseItem, A!absvars
<1>4. ASSUME IInv, ListSymbols PROVE UNCHANGED A!absvars
  <2>1. /\ pc = "closure" /\ pc' = "commit" /\ gram' = gram
        /\ states' = WithCount(states, cur + 1, Len(closure))
    BY <1>4 DEF ListSymbols, WithCount
  <2>2. /\ states \in Seq(StateRecords(gram)) /\ cur + 1 \in 1..Len(states) /\ Len(closure) \in Nat
    <3>1. Len(states) \in Nat /\ TypeOK /\ Len(closure) \in Nat
      BY <1>4, LenProperties DEF IInv, TypeOK
    <3> QED BY <3>1, <2>1 DEF TypeOK
  <2>3. Len(states') = Len(states) /\ Extends(states, states')
    BY <2>1, <2>2, CountStored
  <2>4. known' = known
    BY <2>3 DEF Extends
  <2> QED BY <2>1, <2>4 DEF A!absvars
<1>5. ASSUME IInv, pc = "commit", todo = {}, gram' = gram, states' = WithGo(states, cur + 1, go)
      PROVE  known' = known
  <2>1. Len(states') = Len(states) /\ Extends(states, states')
    BY <1>5, TabStored
  <2> QED BY <2>1 DEF Extends
<1>6. ASSUME IInv, NextState PROVE UNCHANGED A!absvars
  <2>1. /\ pc = "commit" /\ todo = {} /\ gram' = gram /\ pc' = "closure"
        /\ states' = WithGo(states, cur + 1, go)
    BY <1>6 DEF NextState, WithGo
  <2>2. known' = known
    BY <2>1, <1>5, <1>6
  <2> QED BY <2>1, <2>2 DEF A!absvars
<1>7. ASSUME IInv, Commit PROVE A!Discover \/ UNCHANGED A!absvars
  <2> DEFINE x == First(todo)
             k == Moved(x)
             n == Len(states)
             K == states[cur + 1].kernel
  <2>1. /\ pc = "commit" /\ pc' = pc /\ gram' = gram /\ todo # {}
        /\ \/ states' = states
           \/ states' = Append(states, NewState(x, k))
    BY <1>7 DEF Commit
  <2>2. /\ gram \in Grammars /\ todo \in SUBSET Symbols(gram) /\ n \in Nat
        /\ states \in Seq(StateRecords(gram)) /\ cur + 1 \in 1..n
    <3>1. n \in Nat /\ TypeOK
      BY <1>7, LenProperties DEF IInv, TypeOK
    <3> QED BY <3>1, <2>1 DEF TypeOK
  <2>3. x \in todo
    BY <2>1, <2>2, FirstFacts
  <2> HIDE DEF x
  <2>4. /\ k = A!Advance(gram, A!Closure(gram, K), x) /\ k # {} /\ k \in SUBSET Points(gram)
        /\ x \in Symbols(gram)
    BY <1>7, <2>1, <2>3, MovedKernel
  <2>5. k \in A!Successors(gram, K) /\ K \in known
    BY <2>2, <2>4, AbsOperators DEF A!Successors
  <2> HIDE DEF k, K, n
  <2>6. CASE states' = states
    BY <2>1, <2>6 DEF A!absvars
  <2>7. CASE states' = Append(states, NewState(x, k))
    <3>1. NewState(x, k) \in StateRecords(gram) /\ NewState(x, k).kernel = k
      BY <2>4 DEF NewState, StateRecords
    <3>2. /\ Len(states') = n + 1 /\ states'[n + 1].kernel = k
          /\ \A i \in 1..n : states'[i] = states[i]
      BY <2>2, <2>7, <3>1, StateAppended DEF n
    <3>3. known' = known \cup {k}
      <4>1. \A i : i \in 1..(n + 1) <=> i \in 1..n \/ i = n + 1
        BY <2>2
      <4> QED BY <3>2, <4>1 DEF n
    <3> HIDE DEF known
    <3>4. ~ (pc = "done") /\ (pc = "done")' = (pc = "done")
      BY <2>1
    <3> QED BY <3>3, <3>4, <2>1, <2>5 DEF A!Discover, known
  <2> QED BY <2>1, <2>6, <2>7
<1>8. ASSUME IInv, Finish PROVE A!Finish
  <2>1. /\ pc = "commit" /\ todo = {} /\ gram' = gram /\ pc' = "done" /\ cur + 1 = Len(states)
        /\ states' = WithGo(states, cur + 1, go)
    BY <1>8 DEF Finish, WithGo
  <2>2. known' = known
    BY <2>1, <1>5, <1>8
  <2>3. /\ cur + 1 \in 1..Len(states) /\ Len(states') = Len(states) /\ Extends(states, states')
        /\ Len(states) \in Nat /\ cur \in Nat
        /\ \A i \in 1..Len(states) : i <= cur + 1 => TabExact(gram, states', i)
    BY <2>1, <1>8, TabStored
  <2>4. ASSUME NEW k \in known PROVE A!Successors(gram, k) \subseteq known
    <3>1. PICK i \in 1..Len(states) : k = states[i].kernel
      OBVIOUS
    <3> DEFINE c == A!Closure(gram, k)
               tab == states'[i].go
    <3>2. TabOver(gram, states', c, Leads(gram, c), tab)
      BY <3>1, <2>1, <2>3 DEF TabExact, Extends
    <3> HIDE DEF c, tab
    <3>3. ASSUME NEW x \in Symbols(gram), A!Advance(gram, c, x) # {} PROVE A!Advance(gram, c, x) \in known'
      <4>1. PICK n \in 1..Len(tab) : states'[tab[n] + 1].sym = x
        BY <3>2, <3>3 DEF TabOver, Leads
      <4>2. tab[n] + 1 \in 1..Len(states') /\ states'[tab[n] + 1].kernel = A!Advance(gram, c, x)
        BY <3>2, <4>1 DEF TabOver
      <4> QED BY <4>2
    <3> HIDE DEF known
    <3> QED BY <3>3, <2>2, AbsOperators DEF A!Successors, c
  <2>5. known # {}
    BY <2>3
  <2> HIDE DEF known
  <2> QED BY <2>1, <2>2, <2>4, <2>5 DEF A!Finish, known
<1>9. IInv /\ [Next]_vars => [A!AbsNext]_A!absvars
  <2> SUFFICES ASSUME IInv, [Next]_vars PROVE A!AbsNext \/ UNCHANGED A!absvars
    OBVIOUS
  <2>1. CASE UNCHANGED vars
    BY <2>1 DEF vars, A!absvars
  <2> QED BY <2>1, <1>2, <1>3, <1>4, <1>6, <1>7, <1>8 DEF Next, A!AbsNext
<1> QED BY <1>1, <1>9, InductiveInvariant, PTL DEF Spec, Canonical
=============================================================================
