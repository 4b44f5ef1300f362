-------------------------- MODULE GeneratorProofs --------------------------
(***************************************************************************)
(* Proofs about Generator, for every completed grammar: the lookaheads     *)
(* found are LALR(1) lookaheads, the conflict messages are exact, the      *)
(* arrays of C say what the tables say, and a parser that runs them        *)
(* follows the automaton.                                                  *)
(*                                                                         *)
(* First what conflict.c and codgen.c make of sorted tables; then the      *)
(* closures by which LALR(1) lookaheads are defined, and the search for    *)
(* them in lalr.c, which relies on the automaton and on the nullable       *)
(* flags; at last the passes one after the other, each on what the passes  *)
(* before it have been proved to leave.                                    *)
(***************************************************************************)
EXTENDS Generator, ListLemmas

IdsOf(s) == [k \in 1..Len(Go(s)) |-> SymId(ShiftSym(s, k))]

-----------------------------------------------------------------------------
(* Least and greatest numbers.                                             *)

\* The least of a set of numbers.
LEMMA MinLeast ==
  ASSUME NEW S \in SUBSET Nat, S # {}
  PROVE  Min(S) \in S /\ \A y \in S : Min(S) <= y
<1>1. \E x \in S : \A y \in S : x <= y
  BY NatLeast
<1> QED BY <1>1 DEF Min

\* The greater of two numbers.
LEMMA MaxOfTwo ==
  ASSUME NEW a \in Int, NEW b \in Int
  PROVE  Max({a, b}) = IF a >= b THEN a ELSE b
<1> DEFINE m == IF a >= b THEN a ELSE b
<1>1. m \in {a, b} /\ \A y \in {a, b} : m >= y
  OBVIOUS
<1>2. Max({a, b}) \in {a, b} /\ \A y \in {a, b} : Max({a, b}) >= y
  <2> HIDE DEF m
  <2> QED BY <1>1 DEF Max
<1> QED BY <1>2

-----------------------------------------------------------------------------
(* A row of an array.                                                      *)

\* The function that Row defines by recursion.
ColumnsOf(entries) ==
  CHOOSE f : f = [n \in 0..Len(entries) |->
                    IF n = 0 THEN -1 ELSE Max({f[n - 1] + 1, entries[n][1]})]

\* The function of the columns exists, and they only grow.
LEMMA ColumnsDefined ==
  ASSUME NEW entries, Len(entries) \in Nat, \A n \in 1..Len(entries) : entries[n][1] \in Int
  PROVE  /\ ColumnsOf(entries)[0] = -1
         /\ \A n \in 0..Len(entries) : ColumnsOf(entries)[n] \in Int
         /\ \A n \in 1..Len(entries) :
              ColumnsOf(entries)[n] = IF ColumnsOf(entries)[n - 1] + 1 >= entries[n][1]
                                      THEN ColumnsOf(entries)[n - 1] + 1 ELSE entries[n][1]
<1> DEFINE M == Len(entries)
           e(n) == entries[n][1]
           F == [n \in 1..M |-> [l \in Int |-> Max({l + 1, e(n)})]]
           f == ColumnsOf(entries)
           b == -1
<1>1. ASSUME NEW n \in 1..M, NEW l \in Int
      PROVE  Max({l + 1, e(n)}) = (IF l + 1 >= e(n) THEN l + 1 ELSE e(n)) /\ Max({l + 1, e(n)}) \in Int
  BY MaxOfTwo
<1>2. F \in [1..M -> [Int -> Int]] /\ \A n \in 1..M : \A l \in Int : F[n][l] = Max({l + 1, e(n)})
  <2> HIDE DEF e
  <2> QED BY <1>1
<1>3. PICK h : IsRun(h, Int, b, M, F)
  <2>1. F \in [1..M -> [Int -> Int]] /\ b \in Int /\ M \in Nat
    BY <1>2
  <2> HIDE DEF F, M, b
  <2> QED BY <2>1, StepsExist
<1>4. h \in [0..M -> Int] /\ h[0] = b /\ \A n \in 1..M : h[n] = F[n][h[n - 1]]
  <2> HIDE DEF F, b
  <2> QED BY <1>3 DEF IsRun
<1>5. ASSUME NEW n \in 1..M PROVE h[n] = Max({h[n - 1] + 1, e(n)})
  <2>1. n - 1 \in 0..M
    OBVIOUS
  <2>2. h[n - 1] \in Int
    BY <2>1, <1>4
  <2> HIDE DEF F, e
  <2> QED BY <2>2, <1>2, <1>4
<1>6. h = [n \in 0..M |-> IF n = 0 THEN b ELSE Max({h[n - 1] + 1, e(n)})]
  <2>1. ASSUME NEW n \in 0..M PROVE h[n] = IF n = 0 THEN b ELSE Max({h[n - 1] + 1, e(n)})
    <3>1. n = 0 \/ n \in 1..M
      OBVIOUS
    <3> HIDE DEF e, b
    <3> QED BY <3>1, <1>4, <1>5
  <2> HIDE DEF e, b
  <2> QED BY <2>1, <1>4
<1>7. f = [n \in 0..M |-> IF n = 0 THEN b ELSE Max({f[n - 1] + 1, e(n)})]
  <2>1. \E g : g = [n \in 0..M |-> IF n = 0 THEN b ELSE Max({g[n - 1] + 1, e(n)})]
    BY <1>6
  <2> QED BY <2>1, Zenon DEF ColumnsOf
<1> HIDE DEF f
<1>8. f[0] = -1 /\ \A n \in 1..M : f[n] = Max({f[n - 1] + 1, e(n)})
  <2>1. 0 \in 0..M /\ \A n \in 1..M : n \in 0..M /\ n # 0
    OBVIOUS
  <2> HIDE DEF e
  <2> QED BY <2>1, <1>7
<1>9. ASSUME NEW n \in 0..M PROVE f[n] \in Int
  <2> DEFINE I == {m \in Nat : m <= M => f[m] \in Int}
  <2>1. 0 \in I
    BY <1>8
  <2>2. ASSUME NEW m \in Nat, m \in I PROVE m + 1 \in I
    <3> SUFFICES ASSUME m + 1 <= M PROVE f[m + 1] \in Int
      OBVIOUS
    <3>1. m + 1 \in 1..M /\ (m + 1) - 1 = m /\ f[m] \in Int
      BY <2>2
    <3>2. f[m + 1] = Max({f[m] + 1, e(m + 1)})
      BY <3>1, <1>8
    <3> QED BY <3>1, <3>2, <1>1
  <2>3. Nat \subseteq I
    <3> HIDE DEF I
    <3> QED BY <2>1, <2>2, SetInduction
  <2> QED BY <2>3
<1>10. ASSUME NEW n \in 1..M
       PROVE  f[n] = IF f[n - 1] + 1 >= e(n) THEN f[n - 1] + 1 ELSE e(n)
  <2>1. n - 1 \in 0..M
    OBVIOUS
  <2>2. f[n - 1] \in Int
    BY <2>1, <1>9
  <2> QED BY <2>2, <1>1, <1>8
<1> QED BY <1>8, <1>9, <1>10 DEF f

\* Whatever the ids, a row holds values of its entries, and zeros.
LEMMA RowHolds ==
  ASSUME NEW entries, NEW c \in Columns(gram)
  PROVE  Row(entries)[c] = 0 \/ \E n \in 1..Len(entries) : Row(entries)[c] = entries[n][2]
<1> DEFINE f == ColumnsOf(entries)
<1>1. Row(entries)[c] = IF \E n \in 1..Len(entries) : f[n] = c
                        THEN entries[CHOOSE n \in 1..Len(entries) : f[n] = c][2] ELSE 0
  BY DEF Row, ColumnsOf
<1> HIDE DEF f
<1> QED BY <1>1

\* A row has no other columns.
LEMMA RowDomain ==
  ASSUME NEW entries
  PROVE  Row(entries) = [c \in Columns(gram) |-> Row(entries)[c]]
BY DEF Row

\* If the ids grow, each value is in the column of its id, and the rest is zero.
LEMMA RowFaithful ==
  ASSUME NEW entries, Len(entries) \in Nat,
         \A n \in 1..Len(entries) : entries[n][1] \in Nat,
         \A m, n \in 1..Len(entries) : m < n => entries[m][1] < entries[n][1],
         NEW c \in Columns(gram)
  PROVE  /\ \A n \in 1..Len(entries) : entries[n][1] = c => Row(entries)[c] = entries[n][2]
         /\ (\A n \in 1..Len(entries) : entries[n][1] # c) => Row(entries)[c] = 0
<1> DEFINE f == ColumnsOf(entries)
           M == Len(entries)
<1>1. Row(entries)[c] = IF \E n \in 1..M : f[n] = c
                        THEN entries[CHOOSE n \in 1..M : f[n] = c][2] ELSE 0
  BY DEF Row, ColumnsOf
<1>2. /\ f[0] = -1
      /\ \A n \in 1..M : f[n] = IF f[n - 1] + 1 >= entries[n][1] THEN f[n - 1] + 1 ELSE entries[n][1]
  BY ColumnsDefined
<1> HIDE DEF f
<1>3. ASSUME NEW n \in 1..M PROVE f[n] = entries[n][1]
  <2> DEFINE I == {m \in Nat : m + 1 <= M => f[m + 1] = entries[m + 1][1]}
  <2>1. 0 \in I
    <3> SUFFICES ASSUME 0 + 1 <= M PROVE f[0 + 1] = entries[0 + 1][1]
      OBVIOUS
    <3>1. 1 \in 1..M /\ 1 - 1 = 0
      OBVIOUS
    <3>2. f[1] = IF f[0] + 1 >= entries[1][1] THEN f[0] + 1 ELSE entries[1][1]
      BY <3>1, <1>2
    <3>3. entries[1][1] \in Nat
      BY <3>1
    <3> QED BY <3>2, <3>3, <1>2
  <2>2. ASSUME NEW m \in Nat, m \in I PROVE m + 1 \in I
    <3> SUFFICES ASSUME (m + 1) + 1 <= M PROVE f[(m + 1) + 1] = entries[(m + 1) + 1][1]
      OBVIOUS
    <3> DEFINE k == (m + 1) + 1
    <3>1. k \in 1..M /\ k - 1 = m + 1 /\ m + 1 \in 1..M /\ m + 1 < k
      OBVIOUS
    <3>2. f[m + 1] = entries[m + 1][1]
      BY <3>1, <2>2
    <3> HIDE DEF k
    <3>3. entries[m + 1][1] < entries[k][1] /\ entries[m + 1][1] \in Nat /\ entries[k][1] \in Nat
      BY <3>1
    <3>4. f[k] = IF f[m + 1] + 1 >= entries[k][1] THEN f[m + 1] + 1 ELSE entries[k][1]
      BY <3>1, <1>2
    <3>5. f[k] = entries[k][1]
      BY <3>2, <3>3, <3>4
    <3> QED BY <3>5 DEF k
  <2>3. Nat \subseteq I
    <3> HIDE DEF I
    <3> QED BY <2>1, <2>2, SetInduction
  <2>4. n - 1 \in Nat /\ (n - 1) + 1 = n /\ n <= M
    OBVIOUS
  <2>5. n - 1 \in I
    <3> HIDE DEF I
    <3> QED BY <2>3, <2>4
  <2> QED BY <2>4, <2>5
<1>4. ASSUME NEW n \in 1..M, entries[n][1] = c PROVE Row(entries)[c] = entries[n][2]
  <2> DEFINE m == CHOOSE m \in 1..M : f[m] = c
  <2>1. \E k \in 1..M : f[k] = c
    BY <1>3, <1>4
  <2>2. m \in 1..M /\ f[m] = c
    BY <2>1
  <2>3. Row(entries)[c] = entries[m][2]
    BY <1>1, <2>1
  <2> HIDE DEF m
  <2>4. m = n
    <3>1. entries[m][1] = entries[n][1] /\ entries[m][1] \in Nat
      BY <1>3, <1>4, <2>2
    <3>2. ~ (m < n) /\ ~ (n < m)
      BY <3>1, <2>2
    <3> QED BY <3>2, <2>2
  <2> QED BY <2>3, <2>4
<1>5. ASSUME \A n \in 1..M : entries[n][1] # c PROVE Row(entries)[c] = 0
  BY <1>1, <1>3, <1>5
<1> QED BY <1>4, <1>5

-----------------------------------------------------------------------------
(* The messages.                                                           *)

\* The ids of a gototab, and of a reducetab.
LEMMA TablesKnown ==
  ASSUME Tables, NEW s \in StateIds
  PROVE  /\ Len(Go(s)) \in Nat /\ Len(rtab[s]) \in Nat
         /\ \A k \in 1..Len(Go(s)) : ShiftSym(s, k) \in Symbols(gram) /\ SymId(ShiftSym(s, k)) \in Nat
         /\ \A n \in 1..Len(rtab[s]) :
              /\ rtab[s][n] = <<rtab[s][n][1], rtab[s][n][2]>>
              /\ rtab[s][n][1] \in Symbols(gram) /\ rtab[s][n][2] \in RuleIds(gram)
              /\ SymId(rtab[s][n][1]) \in Nat
<1>1. Go(s) \in Seq(StateIds) /\ rtab[s] \in Seq(Symbols(gram) \X RuleIds(gram))
  BY DEF Tables, GototabSorted, ReducetabSorted
<1>2. \A k \in 1..Len(Go(s)) : ShiftSym(s, k) \in Symbols(gram)
  BY DEF Tables, GototabSorted
<1>3. \A n \in 1..Len(rtab[s]) : rtab[s][n] \in Symbols(gram) \X RuleIds(gram)
  BY <1>1, ElementOfSeq
<1>4. \A x \in Symbols(gram) : SymId(x) \in Nat
  BY ColumnExists DEF SymId, Tables
<1> QED BY <1>1, <1>2, <1>3, <1>4, LenProperties

\* The function that ShiftPlaces defines by recursion.
PlacesOf(s) ==
  CHOOSE place : place = [n \in 0..Len(rtab[s]) |->
    IF n = 0 THEN 1
    ELSE LET p == place[n - 1]
         IN Min({k \in p..Len(IdsOf(s)) : IdsOf(s)[k] >= SymId(rtab[s][n][1])} \cup {Len(IdsOf(s)) + 1})]

(***************************************************************************)
(* At the n-th entry of the reducetab ishift stands at the first entry of  *)
(* the gototab whose id is not smaller: walking on from the last place     *)
(* misses none, because the reducetab is in the order of the ids.          *)
(***************************************************************************)
LEMMA PlacesFound ==
  ASSUME Tables, NEW s \in StateIds, NEW n \in 1..Len(rtab[s])
  PROVE  LET p == ShiftPlaces(s)[n] IN
         /\ p \in 1..(Len(Go(s)) + 1)
         /\ \A k \in 1..(p - 1) : SymId(ShiftSym(s, k)) < SymId(rtab[s][n][1])
         /\ p <= Len(Go(s)) => SymId(ShiftSym(s, p)) >= SymId(rtab[s][n][1])
<1> DEFINE M == Len(rtab[s])
           W == Len(Go(s))
           ids == IdsOf(s)
           d(m) == SymId(rtab[s][m][1])
           C(p, m) == {k \in p..W : ids[k] >= d(m)} \cup {W + 1}
           F == [m \in 1..M |-> [p \in Nat |-> Min(C(p, m))]]
           f == PlacesOf(s)
<1>1. /\ W \in Nat /\ M \in Nat
      /\ \A k \in 1..W : SymId(ShiftSym(s, k)) \in Nat
      /\ \A m \in 1..M : d(m) \in Nat
  BY TablesKnown
<1>2. \A l, m \in 1..M : l < m => d(l) <= d(m)
  BY DEF Tables, ReducetabSorted
<1>3. Len(ids) = W /\ \A k \in 1..W : ids[k] = SymId(ShiftSym(s, k))
  BY <1>1 DEF IdsOf
<1>4. ShiftPlaces(s) = f
  BY Zenon DEF ShiftPlaces, PlacesOf, IdsOf, Go
<1>5. ASSUME NEW m \in 1..M, NEW p \in Nat
      PROVE  Min(C(p, m)) \in C(p, m) /\ Min(C(p, m)) \in Nat /\ \A y \in C(p, m) : Min(C(p, m)) <= y
  <2>1. C(p, m) \in SUBSET Nat /\ C(p, m) # {}
    BY <1>1
  <2> HIDE DEF C
  <2> QED BY <2>1, MinLeast
<1> HIDE DEF d, ids, M, W, f
<1>6. PICK h : IsRun(h, Nat, 1, M, F)
  <2>1. F \in [1..M -> [Nat -> Nat]] /\ 1 \in Nat
    <3> HIDE DEF C
    <3> QED BY <1>5
  <2> HIDE DEF F
  <2> QED BY <1>1, <2>1, StepsExist
<1>7. /\ h \in [0..M -> Nat] /\ h[0] = 1
      /\ \A m \in 1..M : m - 1 \in 0..M /\ h[m - 1] \in Nat /\ h[m] = Min(C(h[m - 1], m))
  <2>1. h \in [0..M -> Nat] /\ h[0] = 1 /\ \A m \in 1..M : h[m] = F[m][h[m - 1]]
    <3> HIDE DEF F
    <3> QED BY <1>6 DEF IsRun
  <2>2. ASSUME NEW m \in 1..M PROVE m - 1 \in 0..M /\ h[m - 1] \in Nat /\ h[m] = Min(C(h[m - 1], m))
    <3>1. m - 1 \in 0..M
      BY <1>1
    <3>2. h[m - 1] \in Nat
      BY <3>1, <2>1
    <3> HIDE DEF C
    <3> QED BY <3>1, <3>2, <2>1
  <2> QED BY <2>1, <2>2
<1> HIDE DEF F
<1>8. h = [m \in 0..M |-> IF m = 0 THEN 1 ELSE LET p == h[m - 1] IN Min(C(p, m))]
  <2>1. ASSUME NEW m \in 0..M PROVE h[m] = IF m = 0 THEN 1 ELSE Min(C(h[m - 1], m))
    <3>1. m = 0 \/ m \in 1..M
      BY <1>1
    <3> HIDE DEF C
    <3> QED BY <3>1, <1>7
  <2> HIDE DEF C
  <2> QED BY <2>1, <1>7
<1>9. f = [m \in 0..M |-> IF m = 0 THEN 1 ELSE LET p == f[m - 1] IN Min(C(p, m))]
  <2>1. \E g : g = [m \in 0..M |-> IF m = 0 THEN 1 ELSE LET p == g[m - 1] IN Min(C(p, m))]
    BY <1>8
  <2>2. f = CHOOSE g : g = [m \in 0..M |-> IF m = 0 THEN 1 ELSE LET p == g[m - 1] IN Min(C(p, m))]
    BY <1>3, Zenon DEF f, PlacesOf, d, ids, M, W
  <2> QED BY <2>1, <2>2, Zenon
<1>10. f[0] = 1 /\ \A m \in 1..M : f[m] = Min(C(f[m - 1], m))
  <2>1. 0 \in 0..M /\ \A m \in 1..M : m \in 0..M /\ m # 0
    BY <1>1
  <2> HIDE DEF C
  <2> QED BY <2>1, <1>9
<1> DEFINE Placed(m) == /\ f[m] \in 1..(W + 1)
                        /\ m # 0 => /\ \A k \in 1..(f[m] - 1) : ids[k] < d(m)
                                    /\ f[m] <= W => ids[f[m]] >= d(m)
                        /\ m = 0 => f[m] = 1
           I == {m \in Nat : m <= M => Placed(m)}
<1>11. 0 \in I
  BY <1>10, <1>1
<1>12. ASSUME NEW m \in Nat, m \in I PROVE m + 1 \in I
  <2> SUFFICES ASSUME m + 1 <= M PROVE Placed(m + 1)
    OBVIOUS
  <2>1. m + 1 \in 1..M /\ (m + 1) - 1 = m /\ Placed(m)
    BY <1>12, <1>1
  <2> DEFINE p == f[m]
             r == f[m + 1]
  <2>2. p \in Nat /\ p >= 1 /\ p <= W + 1
    BY <2>1, <1>1
  <2>3. r = Min(C(p, m + 1))
    BY <2>1, <1>10
  <2> HIDE DEF p, r
  <2>4. r \in C(p, m + 1) /\ r \in Nat /\ \A y \in C(p, m + 1) : r <= y
    BY <2>1, <2>2, <2>3, <1>5
  <2>5. r \in 1..(W + 1) /\ (r <= W => ids[r] >= d(m + 1))
    BY <2>2, <2>4, <1>1
  <2>6. ASSUME NEW k \in 1..(r - 1) PROVE ids[k] < d(m + 1)
    <3>1. k \in 1..W /\ ids[k] \in Nat /\ d(m + 1) \in Nat
      BY <2>5, <2>1, <1>1, <1>3
    <3>2. CASE k < p
      <4>1. m # 0
        BY <2>1, <3>2, <2>2 DEF p
      <4>2. ids[k] < d(m)
        BY <2>1, <2>2, <3>2, <4>1 DEF p
      <4>3. m \in 1..M /\ m < m + 1
        BY <4>1, <2>1, <1>1
      <4>4. d(m) <= d(m + 1) /\ d(m) \in Nat
        BY <4>3, <2>1, <1>1, <1>2
      <4> QED BY <4>2, <4>4, <3>1
    <3>3. CASE k >= p
      <4>1. SUFFICES ASSUME ids[k] >= d(m + 1) PROVE FALSE
        BY <3>1
      <4>2. k \in C(p, m + 1)
        BY <4>1, <3>1, <3>3, <2>2
      <4> QED BY <4>2, <2>4, <2>5
    <3> QED BY <3>2, <3>3, <2>2
  <2> QED BY <2>5, <2>6, <2>1 DEF r
<1>13. Nat \subseteq I
  <2> HIDE DEF I
  <2> QED BY <1>11, <1>12, SetInduction
<1>14. n \in Nat /\ n <= M /\ n # 0
  BY <1>1 DEF M
<1>15. Placed(n)
  <2>1. n \in I
    <3> HIDE DEF I
    <3> QED BY <1>13, <1>14
  <2> HIDE DEF Placed
  <2> QED BY <2>1, <1>14
<1>16. f[n] \in 1..(W + 1) /\ \A k \in 1..(f[n] - 1) : k \in 1..W
  BY <1>15, <1>1
<1>17. /\ f[n] \in 1..(W + 1)
       /\ \A k \in 1..(f[n] - 1) : SymId(ShiftSym(s, k)) < d(n)
       /\ f[n] <= W => SymId(ShiftSym(s, f[n])) >= d(n)
  <2>1. f[n] <= W => f[n] \in 1..W
    BY <1>16, <1>1
  <2> QED BY <2>1, <1>3, <1>14, <1>15, <1>16
<1> QED BY <1>4, <1>17 DEF W, d

\* The competing actions of state s on symbol x.
Competing(s, x) ==
  (IF Cardinality(Reduces(s, x)) > 1 THEN {<<"reduce-reduce", s, x>>} ELSE {}) \cup
  (IF Reduces(s, x) # {} /\ Shifts(s, x) THEN {<<"shift-reduce", s, x>>} ELSE {})

\* The reductions on x are finitely many, and each has its entry.
LEMMA ReducesFinite ==
  ASSUME Tables, NEW s \in StateIds, NEW x
  PROVE  /\ IsFiniteSet(Reduces(s, x)) /\ Cardinality(Reduces(s, x)) \in Nat
         /\ \A r \in Reduces(s, x) : \E n \in 1..Len(rtab[s]) : rtab[s][n][1] = x /\ rtab[s][n][2] = r
         /\ \A n \in 1..Len(rtab[s]) : rtab[s][n][1] = x => rtab[s][n][2] \in Reduces(s, x)
<1> DEFINE M == Len(rtab[s])
           All == {rtab[s][n][2] : n \in 1..M}
<1>1. M \in Nat /\ \A n \in 1..M : rtab[s][n] = <<rtab[s][n][1], rtab[s][n][2]>> /\ rtab[s][n][2] \in RuleIds(gram)
  BY TablesKnown
<1>2. \A r \in Reduces(s, x) : \E n \in 1..M : rtab[s][n][1] = x /\ rtab[s][n][2] = r
  BY DEF Reduces, Occurs
<1>3. \A n \in 1..M : rtab[s][n][1] = x => rtab[s][n][2] \in Reduces(s, x)
  BY <1>1 DEF Reduces, Occurs
<1>4. IsFiniteSet(All)
  <2> DEFINE f == [n \in 1..M |-> rtab[s][n][2]]
  <2>1. IsFiniteSet(1..M)
    <3> HIDE DEF M
    <3>1. 1 \in Int /\ M \in Int
      BY <1>1
    <3> QED BY <3>1, FS_Interval
  <2>2. f \in Surjection(1..M, All)
    <3>1. f \in [1..M -> All] /\ \A t \in All : \E n \in 1..M : f[n] = t
      OBVIOUS
    <3> HIDE DEF f, All
    <3> QED BY <3>1 DEF Surjection
  <2> QED BY <2>1, <2>2, FS_Surjection
<1>5. Reduces(s, x) \subseteq All
  BY <1>2
<1>6. IsFiniteSet(Reduces(s, x))
  <2> HIDE DEF All
  <2> QED BY <1>4, <1>5, FS_Subset
<1> QED BY <1>2, <1>3, <1>6, FS_CardinalityType

\* A set with two elements has more than one, and the other way round.
LEMMA TwoElements ==
  ASSUME NEW S, IsFiniteSet(S)
  PROVE  Cardinality(S) > 1 <=> \E a, b \in S : a # b
<1>1. ASSUME NEW a \in S, NEW b \in S, a # b PROVE Cardinality(S) > 1
  <2>1. IsFiniteSet(S \ {a}) /\ Cardinality(S \ {a}) = Cardinality(S) - 1
    BY FS_RemoveElement
  <2>2. Cardinality(S \ {a}) # 0
    BY <1>1, <2>1, FS_EmptySet
  <2>3. Cardinality(S) \in Nat /\ Cardinality(S \ {a}) \in Nat
    BY <2>1, FS_CardinalityType
  <2> QED BY <2>1, <2>2, <2>3
<1>2. ASSUME Cardinality(S) > 1 PROVE \E a, b \in S : a # b
  <2>1. S # {}
    BY <1>2, FS_EmptySet
  <2>2. PICK a \in S : TRUE
    BY <2>1
  <2>3. ASSUME S = {a} PROVE FALSE
    <3>1. Cardinality({a}) = 1
      BY FS_Singleton
    <3>2. Cardinality(S) = 1
      BY <3>1, <2>3
    <3> QED BY <3>2, <1>2
  <2> QED BY <2>2, <2>3
<1> QED BY <1>1, <1>2

\* Two entries for one symbol are two reductions.
LEMMA TwoReductions ==
  ASSUME Tables, NEW s \in StateIds, NEW m \in 1..Len(rtab[s]), NEW n \in 1..Len(rtab[s]),
         m # n, rtab[s][m][1] = rtab[s][n][1]
  PROVE  Cardinality(Reduces(s, rtab[s][n][1])) > 1
<1>1. rtab[s][m] # rtab[s][n]
  BY DEF Tables, ReducetabSorted, NoRepeats
<1>2. rtab[s][m][2] # rtab[s][n][2]
  BY <1>1, TablesKnown
<1>3. /\ rtab[s][m][2] \in Reduces(s, rtab[s][n][1]) /\ rtab[s][n][2] \in Reduces(s, rtab[s][n][1])
      /\ IsFiniteSet(Reduces(s, rtab[s][n][1]))
  BY ReducesFinite
<1> QED BY <1>2, <1>3, TwoElements

\* Two reductions on one symbol are neighbours in the reducetab, as it is sorted.
LEMMA NeighboursMeet ==
  ASSUME Tables, NEW s \in StateIds, NEW x
  PROVE  Cardinality(Reduces(s, x)) > 1 <=>
           \E n \in 2..Len(rtab[s]) : rtab[s][n][1] = rtab[s][n - 1][1] /\ rtab[s][n][1] = x
<1> DEFINE M == Len(rtab[s])
<1>1. M \in Nat
  BY TablesKnown
<1>2. ASSUME NEW n \in 2..M, rtab[s][n][1] = rtab[s][n - 1][1], rtab[s][n][1] = x
      PROVE  Cardinality(Reduces(s, x)) > 1
  <2>1. n \in 1..M /\ n - 1 \in 1..M /\ n - 1 # n
    BY <1>1
  <2> QED BY <2>1, <1>2, TwoReductions
<1>3. ASSUME Cardinality(Reduces(s, x)) > 1
      PROVE  \E n \in 2..M : rtab[s][n][1] = rtab[s][n - 1][1] /\ rtab[s][n][1] = x
  <2>1. PICK a \in Reduces(s, x), b \in Reduces(s, x) : a # b
    BY <1>3, ReducesFinite, TwoElements
  <2>2. PICK h \in 1..M : rtab[s][h][1] = x /\ rtab[s][h][2] = a
    BY ReducesFinite
  <2>3. PICK j \in 1..M : rtab[s][j][1] = x /\ rtab[s][j][2] = b
    BY ReducesFinite
  <2>4. ASSUME NEW k \in 1..M, NEW l \in 1..M, k < l, rtab[s][k][1] = x, rtab[s][l][1] = x
        PROVE  \E n \in 2..M : rtab[s][n][1] = rtab[s][n - 1][1] /\ rtab[s][n][1] = x
    <3>1. l \in 2..M /\ l - 1 \in 1..M /\ l - 1 < l /\ (k = l - 1 \/ k < l - 1)
      BY <2>4, <1>1
    <3> DEFINE y == rtab[s][l - 1][1]
    <3>2. y \in Symbols(gram) /\ x \in Symbols(gram)
      BY <3>1, <2>4, TablesKnown
    <3>3. SymId(y) <= SymId(x) /\ SymId(x) <= SymId(y) /\ SymId(x) \in Nat /\ SymId(y) \in Nat
      <4>1. SymId(x) \in Nat /\ SymId(y) \in Nat
        BY <3>1, <2>4, TablesKnown
      <4>2. SymId(y) <= SymId(x)
        BY <3>1, <2>4 DEF Tables, ReducetabSorted
      <4>3. SymId(x) <= SymId(y)
        BY <3>1, <2>4, <4>1 DEF Tables, ReducetabSorted
      <4> QED BY <4>1, <4>2, <4>3
    <3>4. y = x
      <4>1. SymId(x) = SymId(y)
        BY <3>3
      <4> HIDE DEF y
      <4> QED BY <4>1, <3>2, ColumnExists DEF SymId, Tables
    <3> QED BY <3>1, <3>4, <2>4
  <2>5. h < j \/ j < h
    BY <2>1, <2>2, <2>3, <1>1
  <2> QED BY <2>2, <2>3, <2>4, <2>5
<1> QED BY <1>2, <1>3

\* A transition on x is an entry of the gototab.
LEMMA ShiftsByEntry ==
  ASSUME NEW s \in StateIds, NEW x
  PROVE  /\ Shifts(s, x) <=> \E k \in 1..Len(Go(s)) : ShiftSym(s, k) = x
         /\ \A t : t \in Targets(states, s, x) <=> \E k \in 1..Len(Go(s)) : ShiftSym(s, k) = x /\ Go(s)[k] = t
<1>1. \A t : t \in Targets(states, s, x) <=> \E k \in 1..Len(Go(s)) : ShiftSym(s, k) = x /\ Go(s)[k] = t
  BY DEF Targets, Go, ShiftSym
<1> QED BY <1>1 DEF Shifts

(***************************************************************************)
(* One turn of conflicts finds exactly the competing actions of its state. *)
(***************************************************************************)
LEMMA ReportsExact ==
  ASSUME Tables, NEW s \in StateIds
  PROVE  Reports(s) = UNION {Competing(s, x) : x \in Symbols(gram)}
<1> DEFINE tab == rtab[s]
           place == ShiftPlaces(s)
           RR == {<<"reduce-reduce", s, tab[n][1]>> :
                    n \in {m \in 2..Len(tab) : tab[m][1] = tab[m - 1][1]}}
           SR == {<<"shift-reduce", s, tab[n][1]>> :
                    n \in {m \in 1..Len(tab) :
                             place[m] <= Len(Go(s)) /\ ShiftSym(s, place[m]) = tab[m][1]}}
<1>1. Reports(s) = RR \cup SR
  BY DEF Reports, Go
<1>2. \A e : e \in RR <=> \E x \in Symbols(gram) : e = <<"reduce-reduce", s, x>> /\ Cardinality(Reduces(s, x)) > 1
  <2>1. \A n \in 2..Len(tab) : tab[n][1] \in Symbols(gram)
    BY TablesKnown
  <2> QED BY <2>1, NeighboursMeet
<1>3. ASSUME NEW n \in 1..Len(tab)
      PROVE  (place[n] <= Len(Go(s)) /\ ShiftSym(s, place[n]) = tab[n][1]) <=> Shifts(s, tab[n][1])
  <2> DEFINE p == place[n]
             x == tab[n][1]
  <2>1. /\ p \in 1..(Len(Go(s)) + 1)
        /\ \A k \in 1..(p - 1) : SymId(ShiftSym(s, k)) < SymId(x)
        /\ p <= Len(Go(s)) => SymId(ShiftSym(s, p)) >= SymId(x)
    BY PlacesFound
  <2>2. /\ Len(Go(s)) \in Nat /\ SymId(x) \in Nat /\ x \in Symbols(gram)
        /\ \A k \in 1..Len(Go(s)) : ShiftSym(s, k) \in Symbols(gram) /\ SymId(ShiftSym(s, k)) \in Nat
    BY TablesKnown
  <2> HIDE DEF p, x
  <2>3. ASSUME p <= Len(Go(s)), ShiftSym(s, p) = x PROVE Shifts(s, x)
    <3>1. p \in 1..Len(Go(s))
      BY <2>1, <2>2, <2>3
    <3> QED BY <3>1, <2>3, ShiftsByEntry
  <2>4. ASSUME Shifts(s, x) PROVE p <= Len(Go(s)) /\ ShiftSym(s, p) = x
    <3>1. PICK k \in 1..Len(Go(s)) : ShiftSym(s, k) = x
      BY <2>4, ShiftsByEntry
    <3>2. k \notin 1..(p - 1)
      BY <3>1, <2>1, <2>2
    <3>3. p <= k /\ p \in 1..Len(Go(s)) /\ p <= Len(Go(s))
      BY <3>2, <2>1, <2>2
    <3>4. p = k
      <4> SUFFICES ASSUME p < k PROVE FALSE
        BY <3>3
      <4>1. SymId(ShiftSym(s, p)) < SymId(ShiftSym(s, k))
        BY <3>3 DEF Tables, GototabSorted
      <4>2. SymId(ShiftSym(s, p)) \in Nat /\ SymId(ShiftSym(s, p)) >= SymId(x)
        BY <3>3, <2>1, <2>2
      <4> QED BY <4>1, <4>2, <3>1, <2>2
    <3> QED BY <3>1, <3>3, <3>4
  <2> QED BY <2>3, <2>4 DEF p, x
<1>4. \A e : e \in SR <=> \E x \in Symbols(gram) : e = <<"shift-reduce", s, x>> /\ Reduces(s, x) # {} /\ Shifts(s, x)
  <2>1. \A e : e \in SR <=> \E n \in 1..Len(tab) : e = <<"shift-reduce", s, tab[n][1]>> /\ Shifts(s, tab[n][1])
    <3> HIDE DEF place
    <3> QED BY <1>3
  <2>2. \A n \in 1..Len(tab) : tab[n][1] \in Symbols(gram)
    BY TablesKnown
  <2>3. \A x : Reduces(s, x) # {} <=> \E n \in 1..Len(tab) : tab[n][1] = x
    BY ReducesFinite
  <2> HIDE DEF SR
  <2> QED BY <2>1, <2>2, <2>3
<1>5. ASSUME NEW e PROVE e \in RR \cup SR <=> \E x \in Symbols(gram) : e \in Competing(s, x)
  <2> HIDE DEF RR, SR
  <2> QED BY <1>2, <1>4 DEF Competing
<1>6. \A e : e \in Reports(s) <=> \E x \in Symbols(gram) : e \in Competing(s, x)
  BY <1>1, <1>5
<1>7. \A e : e \in UNION {Competing(s, x) : x \in Symbols(gram)} <=> \E x \in Symbols(gram) : e \in Competing(s, x)
  OBVIOUS
<1> QED BY <1>6, <1>7

-----------------------------------------------------------------------------
(* The arrays.                                                             *)

\* The rows that emit_actions_c and emit_gotos_c write for state s.
ActionRow(s) == Row([n \in 1..Len(rtab[s]) |-> <<SymId(rtab[s][n][1]), rtab[s][n][2]>>])
GotoRow(s)   == Row([n \in 1..Len(Go(s)) |-> <<SymId(ShiftSym(s, n)), Go(s)[n]>>])

\* A row of actions holds reductions of the state, in whatever column they stand.
LEMMA ActionRowHolds ==
  ASSUME Tables, NEW s \in StateIds
  PROVE  /\ ActionRow(s) \in [Columns(gram) -> RuleIds(gram)]
         /\ \A c \in Columns(gram) : ActionRow(s)[c] # 0 =>
              <<ActionRow(s)[c], Length(gram, ActionRow(s)[c])>> \in ItemsOf[s]
<1> DEFINE entries == [n \in 1..Len(rtab[s]) |-> <<SymId(rtab[s][n][1]), rtab[s][n][2]>>]
<1>1. Len(rtab[s]) \in Nat /\ \A n \in 1..Len(rtab[s]) : rtab[s][n][2] \in RuleIds(gram)
  BY TablesKnown
<1>2. Len(entries) = Len(rtab[s]) /\ \A n \in 1..Len(entries) : entries[n][2] = rtab[s][n][2]
  BY <1>1
<1>3. ActionRow(s) = Row(entries)
  BY DEF ActionRow
<1>4. \A n \in 1..Len(rtab[s]) : <<rtab[s][n][2], Length(gram, rtab[s][n][2])>> \in ItemsOf[s]
  BY DEF Tables, TablesFollow, Reduced
<1> HIDE DEF entries
<1>5. \A c \in Columns(gram) : ActionRow(s)[c] = 0 \/ \E n \in 1..Len(rtab[s]) : ActionRow(s)[c] = rtab[s][n][2]
  BY <1>2, <1>3, RowHolds
<1>6. 0 \in RuleIds(gram)
  BY DEF Tables, IsGrammar
<1>7. ActionRow(s) = [c \in Columns(gram) |-> ActionRow(s)[c]]
  BY <1>3, RowDomain
<1>8. \A c \in Columns(gram) : ActionRow(s)[c] \in RuleIds(gram)
  BY <1>1, <1>5, <1>6
<1>9. ActionRow(s) \in [Columns(gram) -> RuleIds(gram)]
  BY <1>7, <1>8
<1> QED BY <1>4, <1>5, <1>9

\* Without a reduce-reduce conflict each reduction is in the column of its symbol.
LEMMA ActionRowFaithful ==
  ASSUME Tables, NEW s \in StateIds, \A y \in Symbols(gram) : ~ (Cardinality(Reduces(s, y)) > 1),
         NEW x \in Symbols(gram)
  PROVE  ActionRow(s)[SymId(x)] = IF Reduces(s, x) = {} THEN 0 ELSE CHOOSE r \in Reduces(s, x) : TRUE
<1> DEFINE M == Len(rtab[s])
           entries == [n \in 1..M |-> <<SymId(rtab[s][n][1]), rtab[s][n][2]>>]
           c == SymId(x)
<1>1. M \in Nat /\ \A n \in 1..M : SymId(rtab[s][n][1]) \in Nat /\ rtab[s][n][1] \in Symbols(gram)
  BY TablesKnown
<1>2. Len(entries) = M /\ \A n \in 1..M : entries[n][1] = SymId(rtab[s][n][1]) /\ entries[n][2] = rtab[s][n][2]
  BY <1>1
<1>3. ActionRow(s) = Row(entries)
  BY DEF ActionRow
<1> HIDE DEF entries
<1>4. c \in Columns(gram) /\ \A y \in Symbols(gram) : SymId(y) = c => y = x
  BY ColumnExists DEF Tables, SymId
<1>5. ASSUME NEW m \in 1..M, NEW n \in 1..M, m < n PROVE entries[m][1] < entries[n][1]
  <2>1. SymId(rtab[s][m][1]) <= SymId(rtab[s][n][1])
    BY <1>5 DEF Tables, ReducetabSorted
  <2>2. ASSUME SymId(rtab[s][m][1]) = SymId(rtab[s][n][1]) PROVE FALSE
    <3>1. rtab[s][m][1] = rtab[s][n][1]
      BY <2>2, <1>1, ColumnExists DEF Tables, SymId
    <3>2. Cardinality(Reduces(s, rtab[s][n][1])) > 1
      BY <3>1, <1>5, TwoReductions
    <3> QED BY <3>2, <1>1
  <2>3. SymId(rtab[s][m][1]) \in Nat /\ SymId(rtab[s][n][1]) \in Nat
    BY <1>1
  <2> QED BY <2>1, <2>2, <2>3, <1>2
<1>6. /\ \A n \in 1..M : entries[n][1] = c => ActionRow(s)[c] = entries[n][2]
      /\ (\A n \in 1..M : entries[n][1] # c) => ActionRow(s)[c] = 0
  <2>1. Len(entries) \in Nat /\ \A n \in 1..Len(entries) : entries[n][1] \in Nat
    BY <1>1, <1>2
  <2>2. \A m, n \in 1..Len(entries) : m < n => entries[m][1] < entries[n][1]
    BY <1>2, <1>5
  <2> QED BY <2>1, <2>2, <1>2, <1>3, <1>4, RowFaithful
<1> HIDE DEF c
<1>7. CASE Reduces(s, x) = {}
  <2>1. \A n \in 1..M : rtab[s][n][1] # x
    BY <1>7, ReducesFinite
  <2>2. \A n \in 1..M : entries[n][1] # c
    BY <2>1, <1>1, <1>2, <1>4
  <2> QED BY <2>2, <1>6, <1>7 DEF c
<1>8. CASE Reduces(s, x) # {}
  <2> DEFINE r == CHOOSE r \in Reduces(s, x) : TRUE
  <2>1. r \in Reduces(s, x)
    BY <1>8
  <2> HIDE DEF r
  <2>2. PICK n \in 1..M : rtab[s][n][1] = x /\ rtab[s][n][2] = r
    BY <2>1, ReducesFinite
  <2>3. ActionRow(s)[c] = r
    BY <2>2, <1>2, <1>6 DEF c
  <2> QED BY <2>3, <1>8 DEF r, c
<1> QED BY <1>7, <1>8

\* A row of gotos has each transition in the column of its symbol.
LEMMA GotoRowFaithful ==
  ASSUME Tables, NEW s \in StateIds
  PROVE  /\ GotoRow(s) \in [Columns(gram) -> StateIds]
         /\ \A x \in Symbols(gram) :
              /\ GotoRow(s)[SymId(x)] = IF Shifts(s, x) THEN Goto(states, s, x) ELSE 0
              /\ GotoRow(s)[SymId(x)] # 0 =>
                   \E k \in 1..Len(Go(s)) : ShiftSym(s, k) = x /\ Go(s)[k] = GotoRow(s)[SymId(x)]
<1> DEFINE M == Len(Go(s))
           entries == [n \in 1..M |-> <<SymId(ShiftSym(s, n)), Go(s)[n]>>]
<1>1. M \in Nat /\ \A n \in 1..M : SymId(ShiftSym(s, n)) \in Nat /\ ShiftSym(s, n) \in Symbols(gram)
  BY TablesKnown
<1>2. Len(entries) = M /\ \A n \in 1..M : entries[n][1] = SymId(ShiftSym(s, n)) /\ entries[n][2] = Go(s)[n]
  BY <1>1
<1>3. GotoRow(s) = Row(entries)
  BY DEF GotoRow
<1> HIDE DEF entries
<1>4. \A n \in 1..M : Go(s)[n] \in StateIds
  BY DEF Tables, GototabSorted
<1>5. 0 \in StateIds
  BY DEF StateIds, Tables
<1>6. \A m, n \in 1..M : m < n => SymId(ShiftSym(s, m)) < SymId(ShiftSym(s, n))
  BY DEF Tables, GototabSorted
<1>7. GotoRow(s) \in [Columns(gram) -> StateIds]
  <2>1. \A c \in Columns(gram) : GotoRow(s)[c] = 0 \/ \E n \in 1..M : GotoRow(s)[c] = Go(s)[n]
    BY <1>2, <1>3, RowHolds
  <2>2. GotoRow(s) = [c \in Columns(gram) |-> GotoRow(s)[c]]
    BY <1>3, RowDomain
  <2>3. \A c \in Columns(gram) : GotoRow(s)[c] \in StateIds
    BY <2>1, <1>4, <1>5
  <2> QED BY <2>2, <2>3
<1>8. ASSUME NEW c \in Columns(gram)
      PROVE  /\ \A n \in 1..M : entries[n][1] = c => GotoRow(s)[c] = entries[n][2]
             /\ (\A n \in 1..M : entries[n][1] # c) => GotoRow(s)[c] = 0
  <2>1. Len(entries) \in Nat /\ \A n \in 1..Len(entries) : entries[n][1] \in Nat
    BY <1>1, <1>2
  <2>2. \A m, n \in 1..Len(entries) : m < n => entries[m][1] < entries[n][1]
    BY <1>2, <1>6
  <2> QED BY <2>1, <2>2, <1>2, <1>3, RowFaithful
<1>9. ASSUME NEW x \in Symbols(gram)
      PROVE  /\ GotoRow(s)[SymId(x)] = IF Shifts(s, x) THEN Goto(states, s, x) ELSE 0
             /\ GotoRow(s)[SymId(x)] # 0 =>
                  \E k \in 1..M : ShiftSym(s, k) = x /\ Go(s)[k] = GotoRow(s)[SymId(x)]
  <2>1. SymId(x) \in Columns(gram) /\ \A y \in Symbols(gram) : SymId(y) = SymId(x) => y = x
    BY ColumnExists DEF Tables, SymId
  <2>2. CASE ~ Shifts(s, x)
    <3>1. \A n \in 1..M : ShiftSym(s, n) # x
      BY <2>2, ShiftsByEntry
    <3>2. \A n \in 1..M : entries[n][1] # SymId(x)
      BY <3>1, <2>1, <1>1, <1>2
    <3>3. GotoRow(s)[SymId(x)] = 0
      BY <3>2, <2>1, <1>8
    <3> QED BY <3>3, <2>2
  <2>3. CASE Shifts(s, x)
    <3> DEFINE t == Goto(states, s, x)
    <3>1. t \in Targets(states, s, x)
      BY <2>3 DEF Shifts, Goto
    <3> HIDE DEF t
    <3>2. PICK k \in 1..M : ShiftSym(s, k) = x /\ Go(s)[k] = t
      BY <3>1, ShiftsByEntry
    <3>3. GotoRow(s)[SymId(x)] = t
      BY <3>2, <2>1, <1>2, <1>8
    <3> QED BY <3>2, <3>3, <2>3 DEF t
  <2> QED BY <2>2, <2>3
<1> QED BY <1>7, <1>9

-----------------------------------------------------------------------------
(* The loops.                                                              *)

OutputTypeOK ==
  /\ pc \in {"conflicts", "actions", "gotos", "written"}
  /\ q \in 0..Len(states)
  /\ actions \in Seq([Columns(gram) -> RuleIds(gram)])
  /\ gotos \in Seq([Columns(gram) -> StateIds])

\* What a row of actions may be, and a row of gotos.
ActionsRight(s, row) ==
  /\ \A c \in Columns(gram) : row[c] # 0 => <<row[c], Length(gram, row[c])>> \in ItemsOf[s]
  /\ (\A y \in Symbols(gram) : ~ (Cardinality(Reduces(s, y)) > 1)) =>
       \A x \in Symbols(gram) :
         row[SymId(x)] = IF Reduces(s, x) = {} THEN 0 ELSE CHOOSE r \in Reduces(s, x) : TRUE

GotosRight(s, row) ==
  \A x \in Symbols(gram) :
    /\ row[SymId(x)] = IF Shifts(s, x) THEN Goto(states, s, x) ELSE 0
    /\ row[SymId(x)] # 0 => \E k \in 1..Len(Go(s)) : ShiftSym(s, k) = x /\ Go(s)[k] = row[SymId(x)]

\* What the loop of pc has done for the states before n.
Reported(n) ==
  \A e : e \in reports <=> \E s \in StateIds : s < n /\ \E x \in Symbols(gram) : e \in Competing(s, x)
Acted(n)    == Len(actions) = n /\ \A s \in StateIds : s < n => ActionsRight(s, actions[s + 1])
Gone(n)     == Len(gotos) = n /\ \A s \in StateIds : s < n => GotosRight(s, gotos[s + 1])

OutputInv ==
  /\ Tables /\ OutputTypeOK
  /\ Reported(IF pc = "conflicts" THEN q ELSE Len(states))
  /\ Acted(IF pc = "conflicts" THEN 0 ELSE IF pc = "actions" THEN q ELSE Len(states))
  /\ Gone(IF pc \in {"conflicts", "actions"} THEN 0 ELSE IF pc = "gotos" THEN q ELSE Len(states))

\* The passes before leave their results alone from here on.
LEMMA InputsKept ==
  ASSUME inputs' = inputs
  PROVE  /\ Tables' = Tables /\ StateIds' = StateIds
         /\ Len(states)' = Len(states) /\ Columns(gram)' = Columns(gram) /\ RuleIds(gram)' = RuleIds(gram)
         /\ Symbols(gram)' = Symbols(gram)
         /\ \A s, x : Competing(s, x)' = Competing(s, x)
         /\ \A s, row : ActionsRight(s, row)' = ActionsRight(s, row) /\ GotosRight(s, row)' = GotosRight(s, row)
<1>1. gram' = gram /\ states' = states /\ rtab' = rtab
  BY DEF inputs
<1>2. StateIds' = StateIds /\ Len(states)' = Len(states) /\ Columns(gram)' = Columns(gram) /\ RuleIds(gram)' = RuleIds(gram)
  BY <1>1 DEF StateIds
<1>3. ItemsOf' = ItemsOf
  BY <1>1, <1>2 DEF ItemsOf
<1>4. TablesFollow' = TablesFollow
  <2>1. ASSUME NEW s PROVE Reduced(s)' = Reduced(s)
    BY <1>1, <1>3, Zenon DEF Reduced
  <2>2. ASSUME NEW s PROVE Moved(s)' = Moved(s)
    BY <1>1, <1>3, Zenon DEF Moved, Go, ShiftSym
  <2> QED BY <1>2, <1>3, <2>1, <2>2, Zenon DEF TablesFollow
<1>5. \A s : GototabSorted(s)' = GototabSorted(s) /\ ReducetabSorted(s)' = ReducetabSorted(s)
  BY <1>1, <1>2, Zenon DEF GototabSorted, ReducetabSorted, Go, ShiftSym, SymId
<1>6. Tables' = Tables
  BY <1>1, <1>2, <1>4, <1>5, Zenon DEF Tables
<1>7. Symbols(gram)' = Symbols(gram)
  BY <1>1
<1>8. ASSUME NEW s, NEW x PROVE Reduces(s, x)' = Reduces(s, x)
  BY <1>1 DEF Reduces
<1>9. ASSUME NEW s, NEW x PROVE Shifts(s, x)' = Shifts(s, x) /\ Goto(states, s, x)' = Goto(states, s, x)
  BY <1>1, Zenon DEF Shifts
<1>10. ASSUME NEW s, NEW x PROVE Competing(s, x)' = Competing(s, x)
  BY <1>8, <1>9, Zenon DEF Competing
<1>11. ASSUME NEW s, NEW row PROVE ActionsRight(s, row)' = ActionsRight(s, row)
  BY <1>1, <1>2, <1>3, <1>7, <1>8, Zenon DEF ActionsRight, SymId
<1>12. ASSUME NEW s, NEW row PROVE GotosRight(s, row)' = GotosRight(s, row)
  <2>1. \A k : ShiftSym(s, k)' = ShiftSym(s, k) /\ Go(s)' = Go(s)
    BY <1>1 DEF ShiftSym, Go
  <2>2. \A x : SymId(x)' = SymId(x)
    BY <1>1 DEF SymId
  <2> QED BY <2>1, <2>2, <1>7, <1>9 DEF GotosRight
<1> QED BY <1>2, <1>6, <1>7, <1>10, <1>11, <1>12

\* Appending a row.
LEMMA RowAppended ==
  ASSUME NEW A, NEW rows \in Seq(A), NEW row \in A, NEW n \in Nat, Len(rows) = n
  PROVE  /\ Append(rows, row) \in Seq(A) /\ Len(Append(rows, row)) = n + 1
         /\ Append(rows, row)[n + 1] = row
         /\ \A k \in 1..n : Append(rows, row)[k] = rows[k]
BY AppendProperties

\* The arrays are not begun when conflicts is called with such tables.
LEMMA OutputStarts == Begin /\ Tables => OutputInv
<1> SUFFICES ASSUME Begin, Tables PROVE OutputInv
  OBVIOUS
<1>1. pc = "conflicts" /\ q = 0 /\ reports = {} /\ actions = << >> /\ gotos = << >> /\ Len(states) \in Nat
  BY DEF Begin, Tables
<1>2. OutputTypeOK
  BY <1>1 DEF OutputTypeOK
<1>3. \A t \in StateIds : ~ (t < 0)
  BY DEF StateIds
<1>4. Reported(0) /\ Acted(0) /\ Gone(0)
  BY <1>1, <1>3 DEF Reported, Acted, Gone
<1> QED BY <1>1, <1>2, <1>4 DEF OutputInv

\* Each turn of the loops does what they say for the next state.
LEMMA OutputKept == OutputInv /\ [Next]_vars => OutputInv'
<1> SUFFICES ASSUME OutputInv, [Next]_vars PROVE OutputInv'
  OBVIOUS
<1>1. inputs' = inputs
  BY DEF Next, vars, Conflicts, StartActions, EmitActions, StartGotos, EmitGotos, Finish
<1>2. /\ Tables' = Tables /\ StateIds' = StateIds /\ Len(states)' = Len(states)
      /\ Columns(gram)' = Columns(gram) /\ RuleIds(gram)' = RuleIds(gram)
      /\ Symbols(gram)' = Symbols(gram)
      /\ \A s, x : Competing(s, x)' = Competing(s, x)
      /\ \A s, row : ActionsRight(s, row)' = ActionsRight(s, row) /\ GotosRight(s, row)' = GotosRight(s, row)
  BY <1>1, InputsKept
<1>3. Tables /\ OutputTypeOK /\ Tables' /\ Len(states) \in Nat
  BY <1>2 DEF OutputInv, Tables
<1>4. \A s : s \in StateIds <=> s \in Nat /\ s < Len(states)
  BY <1>3 DEF StateIds
<1>5. CASE UNCHANGED vars
  <2>1. pc' = pc /\ q' = q /\ reports' = reports /\ actions' = actions /\ gotos' = gotos
    BY <1>5 DEF vars, outputvars
  <2> QED BY <2>1, <1>2, Zenon DEF OutputInv, OutputTypeOK, Reported, Acted, Gone
<1>6. CASE Conflicts
  <2>1. /\ pc = "conflicts" /\ q \in StateIds /\ pc' = pc /\ q' = q + 1
        /\ reports' = reports \cup Reports(q) /\ actions' = actions /\ gotos' = gotos
    BY <1>6 DEF Conflicts
  <2>2. Reported(q) /\ Acted(0) /\ Gone(0)
    BY <2>1 DEF OutputInv
  <2>3. q + 1 \in 0..Len(states) /\ q \in Nat
    BY <2>1, <1>3, <1>4
  <2>4. OutputTypeOK'
    BY <2>1, <2>3, <1>2, <1>3 DEF OutputTypeOK
  <2>5. \A e : e \in Reports(q) <=> \E x \in Symbols(gram) : e \in Competing(q, x)
    BY <2>1, <1>3, ReportsExact
  <2>6. \A t \in StateIds : t < q + 1 <=> t < q \/ t = q
    BY <2>3, <1>4
  <2>7. Reported(q)'
    <3>1. \A e : e \in reports' <=>
            \E s \in StateIds : s < q + 1 /\ \E x \in Symbols(gram) : e \in Competing(s, x)
      <4>1. \A e : e \in reports' <=> e \in reports \/ e \in Reports(q)
        BY <2>1
      <4> QED BY <4>1, <2>1, <2>2, <2>5, <2>6, Zenon DEF Reported
    <3> QED BY <3>1, <2>1, <1>2, Zenon DEF Reported
  <2>8. Acted(0)' /\ Gone(0)'
    BY <2>2, <2>1, <1>2, Zenon DEF Acted, Gone
  <2> QED BY <2>1, <2>4, <2>7, <2>8, <1>3 DEF OutputInv
<1>7. CASE StartActions
  <2>1. /\ pc = "conflicts" /\ q \notin StateIds /\ pc' = "actions" /\ q' = 0
        /\ reports' = reports /\ actions' = actions /\ gotos' = gotos
    BY <1>7 DEF StartActions
  <2>2. q = Len(states)
    BY <2>1, <1>3, <1>4 DEF OutputTypeOK
  <2>3. Reported(Len(states)) /\ Acted(0) /\ Gone(0)
    BY <2>1, <2>2 DEF OutputInv
  <2>4. OutputTypeOK'
    BY <2>1, <1>2, <1>3 DEF OutputTypeOK
  <2>5. Reported(Len(states))' /\ Acted(q)' /\ Gone(0)'
    BY <2>1, <2>3, <1>2, Zenon DEF Reported, Acted, Gone
  <2> QED BY <2>1, <2>4, <2>5, <1>3 DEF OutputInv
<1>8. CASE EmitActions
  <2>1. /\ pc = "actions" /\ q \in StateIds /\ pc' = pc /\ q' = q + 1
        /\ reports' = reports /\ actions' = Append(actions, ActionRow(q)) /\ gotos' = gotos
    BY <1>8, Zenon DEF EmitActions, ActionRow
  <2>2. Reported(Len(states)) /\ Acted(q) /\ Gone(0)
    BY <2>1 DEF OutputInv
  <2>3. q + 1 \in 0..Len(states) /\ q \in Nat
    BY <2>1, <1>3, <1>4
  <2>4. /\ actions' \in Seq([Columns(gram) -> RuleIds(gram)]) /\ Len(actions') = q + 1
        /\ actions'[q + 1] = ActionRow(q) /\ \A k \in 1..q : actions'[k] = actions[k]
    <3>1. ActionRow(q) \in [Columns(gram) -> RuleIds(gram)]
      BY <1>3, <2>1, ActionRowHolds
    <3>2. actions \in Seq([Columns(gram) -> RuleIds(gram)]) /\ Len(actions) = q
      BY <1>3, <2>2 DEF OutputTypeOK, Acted
    <3> QED BY <3>1, <3>2, <2>1, <2>3, RowAppended
  <2>5. OutputTypeOK'
    BY <2>1, <2>3, <2>4, <1>2, <1>3 DEF OutputTypeOK
  <2>6. ASSUME NEW s \in StateIds, s < q + 1 PROVE ActionsRight(s, actions'[s + 1])
    <3>1. CASE s = q
      <4>1. ActionsRight(q, ActionRow(q))
        BY <2>1, <1>3, ActionRowHolds, ActionRowFaithful DEF ActionsRight
      <4> QED BY <4>1, <3>1, <2>4
    <3>2. CASE s < q
      BY <3>2, <2>2, <2>3, <2>4, <1>4 DEF Acted
    <3> QED BY <3>1, <3>2, <2>3, <2>6, <1>4
  <2>7. Acted(q)'
    BY <2>1, <2>4, <2>6, <1>2, Zenon DEF Acted
  <2>8. Reported(Len(states))' /\ Gone(0)'
    BY <2>1, <2>2, <1>2, Zenon DEF Reported, Gone
  <2> QED BY <2>1, <2>5, <2>7, <2>8, <1>3 DEF OutputInv
<1>9. CASE StartGotos
  <2>1. /\ pc = "actions" /\ q \notin StateIds /\ pc' = "gotos" /\ q' = 0
        /\ reports' = reports /\ actions' = actions /\ gotos' = gotos
    BY <1>9 DEF StartGotos
  <2>2. q = Len(states)
    BY <2>1, <1>3, <1>4 DEF OutputTypeOK
  <2>3. Reported(Len(states)) /\ Acted(Len(states)) /\ Gone(0)
    BY <2>1, <2>2 DEF OutputInv
  <2>4. OutputTypeOK'
    BY <2>1, <1>2, <1>3 DEF OutputTypeOK
  <2>5. Reported(Len(states))' /\ Acted(Len(states))' /\ Gone(q)'
    BY <2>1, <2>3, <1>2, Zenon DEF Reported, Acted, Gone
  <2> QED BY <2>1, <2>4, <2>5, <1>3 DEF OutputInv
<1>10. CASE EmitGotos
  <2>1. /\ pc = "gotos" /\ q \in StateIds /\ pc' = pc /\ q' = q + 1
        /\ reports' = reports /\ actions' = actions /\ gotos' = Append(gotos, GotoRow(q))
    BY <1>10, Zenon DEF EmitGotos, GotoRow, Go
  <2>2. Reported(Len(states)) /\ Acted(Len(states)) /\ Gone(q)
    BY <2>1 DEF OutputInv
  <2>3. q + 1 \in 0..Len(states) /\ q \in Nat
    BY <2>1, <1>3, <1>4
  <2>4. /\ gotos' \in Seq([Columns(gram) -> StateIds]) /\ Len(gotos') = q + 1
        /\ gotos'[q + 1] = GotoRow(q) /\ \A k \in 1..q : gotos'[k] = gotos[k]
    <3>1. GotoRow(q) \in [Columns(gram) -> StateIds]
      BY <1>3, <2>1, GotoRowFaithful
    <3>2. gotos \in Seq([Columns(gram) -> StateIds]) /\ Len(gotos) = q
      BY <1>3, <2>2 DEF OutputTypeOK, Gone
    <3> QED BY <3>1, <3>2, <2>1, <2>3, RowAppended
  <2>5. OutputTypeOK'
    BY <2>1, <2>3, <2>4, <1>2, <1>3 DEF OutputTypeOK
  <2>6. ASSUME NEW s \in StateIds, s < q + 1 PROVE GotosRight(s, gotos'[s + 1])
    <3>1. CASE s = q
      <4>1. GotosRight(q, GotoRow(q))
        BY <2>1, <1>3, GotoRowFaithful DEF GotosRight
      <4> QED BY <4>1, <3>1, <2>4
    <3>2. CASE s < q
      BY <3>2, <2>2, <2>3, <2>4, <1>4 DEF Gone
    <3> QED BY <3>1, <3>2, <2>3, <2>6, <1>4
  <2>7. Gone(q)'
    BY <2>1, <2>4, <2>6, <1>2, Zenon DEF Gone
  <2>8. Reported(Len(states))' /\ Acted(Len(states))'
    BY <2>1, <2>2, <1>2, Zenon DEF Reported, Acted
  <2> QED BY <2>1, <2>5, <2>7, <2>8, <1>3 DEF OutputInv
<1>11. CASE Finish
  <2>1. /\ pc = "gotos" /\ q \notin StateIds /\ pc' = "written" /\ q' = q
        /\ reports' = reports /\ actions' = actions /\ gotos' = gotos
    BY <1>11 DEF Finish
  <2>2. q = Len(states)
    BY <2>1, <1>3, <1>4 DEF OutputTypeOK
  <2>3. Reported(Len(states)) /\ Acted(Len(states)) /\ Gone(Len(states))
    BY <2>1, <2>2 DEF OutputInv
  <2>4. OutputTypeOK'
    BY <2>1, <1>2, <1>3 DEF OutputTypeOK
  <2>5. Reported(Len(states))' /\ Acted(Len(states))' /\ Gone(Len(states))'
    BY <2>1, <2>3, <1>2, Zenon DEF Reported, Acted, Gone
  <2> QED BY <2>1, <2>4, <2>5, <1>3 DEF OutputInv
<1> QED BY <1>5, <1>6, <1>7, <1>8, <1>9, <1>10, <1>11 DEF Next

\* The messages name the states and symbols at which two actions compete, and no others.
LEMMA MessagesRight == OutputInv => ConflictsExact
<1>1. ASSUME OutputInv PROVE ConflictsExact
  <2> SUFFICES ASSUME pc = "written" PROVE reports = UNION {UNION {Competing(s, x) : x \in Symbols(gram)} : s \in StateIds}
    BY Zenon DEF ConflictsExact, Competing
  <2>1. /\ Tables
        /\ \A e : e \in reports <=>
             \E s \in StateIds : s < Len(states) /\ \E x \in Symbols(gram) : e \in Competing(s, x)
    BY <1>1 DEF OutputInv, Reported
  <2>2. \A s \in StateIds : s < Len(states)
    BY <2>1 DEF StateIds, Tables
  <2> QED BY <2>1, <2>2
<1> QED BY <1>1

\* The arrays say what the tables say, and follow the automaton whatever the conflicts.
LEMMA ArraysRight == OutputInv => ArraysFaithful
<1>1. ASSUME OutputInv PROVE ArraysFaithful
  <2> SUFFICES ASSUME pc = "written"
               PROVE  /\ AreTables(gram, actions, gotos)
                      /\ GuidedBy(gram, actions, gotos, ItemsOf)
                      /\ \A s \in StateIds : \A x \in gram.terms \cup gram.nonterms :
                           /\ gotos[s + 1][SymId(x)] = IF Shifts(s, x) THEN Goto(states, s, x) ELSE 0
                           /\ (~ \E y \in Symbols(gram) : <<"reduce-reduce", s, y>> \in reports)
                              => actions[s + 1][SymId(x)] = IF Reduces(s, x) = {} THEN 0
                                                            ELSE CHOOSE r \in Reduces(s, x) : TRUE
    BY Zenon DEF ArraysFaithful, ItemsOf
  <2>1. /\ Tables /\ OutputTypeOK /\ Len(actions) = Len(states) /\ Len(gotos) = Len(states)
        /\ Len(states) \in Nat \ {0}
    BY <1>1 DEF OutputInv, Acted, Gone, Tables
  <2>2. \A s \in StateIds : s < Len(states)
    BY <2>1 DEF StateIds
  <2>3. \A s \in StateIds : ActionsRight(s, actions[s + 1]) /\ GotosRight(s, gotos[s + 1])
    BY <1>1, <2>2 DEF OutputInv, Acted, Gone
  <2>4. gram.terms \cup gram.nonterms \subseteq Symbols(gram)
    BY DEF Symbols
  <2>5. AreTables(gram, actions, gotos)
    <3>1. actions \in Seq([Columns(gram) -> RuleIds(gram)]) /\ gotos \in Seq([Columns(gram) -> StateIds])
      BY <2>1 DEF OutputTypeOK
    <3>2. actions # << >> /\ StateIds = 0..(Len(actions) - 1)
      BY <2>1, <3>1 DEF StateIds
    <3>3. DOMAIN actions = 1..Len(actions) /\ gotos \in [1..Len(gotos) -> [Columns(gram) -> StateIds]]
      BY <3>1
    <3> QED BY <3>1, <3>2, <3>3, <2>1 DEF AreTables
  <2>6. GuidedBy(gram, actions, gotos, ItemsOf)
    <3>1. TablesFollow
      BY <2>1 DEF Tables
    <3>2. 0..(Len(actions) - 1) = StateIds
      BY <2>1 DEF StateIds
    <3>3. ASSUME NEW s \in StateIds, NEW c \in Columns(gram), actions[s + 1][c] # 0
          PROVE  <<actions[s + 1][c], Length(gram, actions[s + 1][c])>> \in ItemsOf[s]
      BY <3>3, <2>3 DEF ActionsRight
    <3>4. ASSUME NEW s \in StateIds, NEW x \in gram.terms \cup gram.nonterms,
                 gotos[s + 1][SymbolId(gram, x)] # 0,
                 NEW p \in ItemsOf[gotos[s + 1][SymbolId(gram, x)]], p[2] # 0
          PROVE  Rhs(gram, p[1])[p[2]] = x /\ <<p[1], p[2] - 1>> \in ItemsOf[s]
      <4> DEFINE t == gotos[s + 1][SymId(x)]
      <4>1. t = gotos[s + 1][SymbolId(gram, x)] /\ x \in Symbols(gram)
        BY <3>4, <2>4 DEF SymId
      <4>2. PICK k \in 1..Len(Go(s)) : ShiftSym(s, k) = x /\ Go(s)[k] = t
        BY <4>1, <3>4, <2>3 DEF GotosRight
      <4>3. p \in ItemsOf[Go(s)[k]]
        BY <4>1, <4>2
      <4> QED BY <4>2, <4>3, <3>1, <3>4 DEF TablesFollow, Moved
    <3>5. \A p \in ItemsOf[0] : p[2] = 0
      BY <3>1 DEF TablesFollow
    <3>6. <<0, 2>> \in ItemsOf[1]
      BY <3>1 DEF TablesFollow
    <3> HIDE DEF ItemsOf
    <3> QED BY <3>2, <3>3, <3>4, <3>5, <3>6, Zenon DEF GuidedBy
  <2>7. ASSUME NEW s \in StateIds, NEW x \in gram.terms \cup gram.nonterms
        PROVE  gotos[s + 1][SymId(x)] = IF Shifts(s, x) THEN Goto(states, s, x) ELSE 0
    BY <2>3, <2>4 DEF GotosRight
  <2>8. ASSUME NEW s \in StateIds, NEW x \in gram.terms \cup gram.nonterms,
               ~ \E y \in Symbols(gram) : <<"reduce-reduce", s, y>> \in reports
        PROVE  actions[s + 1][SymId(x)] = IF Reduces(s, x) = {} THEN 0 ELSE CHOOSE r \in Reduces(s, x) : TRUE
    <3>1. \A y \in Symbols(gram) : Competing(s, y) \subseteq reports
      BY <1>1, <2>2 DEF OutputInv, Reported
    <3>2. ASSUME NEW y \in Symbols(gram), Cardinality(Reduces(s, y)) > 1 PROVE FALSE
      <4>1. <<"reduce-reduce", s, y>> \in Competing(s, y)
        BY <3>2 DEF Competing
      <4> QED BY <4>1, <3>1, <2>8
    <3> QED BY <3>2, <2>3, <2>4 DEF ActionsRight
  <2> QED BY <2>5, <2>6, <2>7, <2>8
<1> QED BY <1>1

\* The points of LR0Proofs.
Points(g) == {p \in RuleIds(g) \X Nat : p[2] <= Length(g, p[1])}

\* What the assumption says of a grammar's rules and symbols.
LEMMA GramFacts ==
  ASSUME NEW g \in Grammars
  PROVE  /\ 0 \in RuleIds(g) /\ RuleIds(g) \subseteq Nat /\ IsFiniteSet(RuleIds(g))
         /\ \A r \in RuleIds(g) :
              /\ Rhs(g, r) \in Seq(g.terms \cup g.nonterms) /\ Length(g, r) \in Nat
              /\ \A n \in 1..Length(g, r) : Rhs(g, r)[n] \in g.terms \cup g.nonterms
              /\ Lhs(g, r) \in g.nonterms <=> r # 0
              /\ \A n \in 1..Length(g, r) : Rhs(g, r)[n] = Eof <=> r = 0 /\ n = 2
              /\ Lhs(g, r) \in Symbols(g)
         /\ Length(g, 0) = 2
         /\ g.terms \subseteq Symbols(g) /\ g.nonterms \subseteq Symbols(g)
         /\ g.terms \cap g.nonterms = {} /\ Nil \notin Symbols(g)
         /\ Eof \in g.terms /\ Eof \notin g.nonterms
         /\ IsFiniteSet(Symbols(g)) /\ IsFiniteSet(g.terms)
         /\ g.syms \in Seq(Symbols(g)) /\ NoRepeats(g.syms) /\ \A s \in Symbols(g) : Occurs(s, g.syms)
<1>1. /\ IsGrammar(g) /\ IsFiniteSet(RuleIds(g)) /\ Length(g, 0) = 2
      /\ \A r \in RuleIds(g) : \A n \in 1..Length(g, r) : Rhs(g, r)[n] = Eof <=> r = 0 /\ n = 2
  BY GrammarsAreGrammars
<1>2. /\ 0 \in RuleIds(g) /\ RuleIds(g) \subseteq Nat
      /\ g.terms \subseteq Symbols(g) /\ g.nonterms \subseteq Symbols(g)
      /\ Eof \in g.terms /\ Eof \notin g.nonterms
  BY <1>1 DEF IsGrammar, Symbols
<1>3. ASSUME NEW r \in RuleIds(g)
      PROVE  /\ Rhs(g, r) \in Seq(g.terms \cup g.nonterms) /\ Length(g, r) \in Nat
             /\ \A n \in 1..Length(g, r) : Rhs(g, r)[n] \in g.terms \cup g.nonterms
             /\ Lhs(g, r) \in g.nonterms <=> r # 0
  <2>1. Rhs(g, r) \in Seq(g.terms \cup g.nonterms)
    BY <1>1 DEF IsGrammar
  <2>2. Lhs(g, r) \in g.nonterms <=> r # 0
    BY <1>1 DEF IsGrammar
  <2> QED BY <2>1, <2>2, LenProperties, ElementOfSeq DEF Length
<1>4. IsFiniteSet(Symbols(g))
  <2>1. g.syms \in Seq(Symbols(g)) /\ \A s \in Symbols(g) : Occurs(s, g.syms)
    BY <1>1 DEF IsGrammar
  <2>2. Len(g.syms) \in Nat /\ g.syms \in [1..Len(g.syms) -> Symbols(g)]
    BY <2>1, LenProperties
  <2>3. g.syms \in Surjection(1..Len(g.syms), Symbols(g))
    BY <2>1, <2>2 DEF Surjection, Occurs
  <2>4. IsFiniteSet(1..Len(g.syms))
    BY <2>2, FS_Interval
  <2> QED BY <2>3, <2>4, FS_Surjection
<1>5. /\ g.terms \cap g.nonterms = {} /\ Nil \notin Symbols(g)
      /\ \A r \in RuleIds(g) : Lhs(g, r) \in Symbols(g)
      /\ g.syms \in Seq(Symbols(g)) /\ NoRepeats(g.syms) /\ \A s \in Symbols(g) : Occurs(s, g.syms)
  <2>1. \A r \in RuleIds(g) : Lhs(g, r) \in g.nonterms \cup {g.start}
    BY <1>1 DEF IsGrammar
  <2> QED BY <1>1, <2>1 DEF IsGrammar, Symbols
<1>6. IsFiniteSet(g.terms)
  BY <1>2, <1>4, FS_Subset
<1> QED BY <1>1, <1>2, <1>3, <1>4, <1>5, <1>6

\* A grammar has finitely many points.
LEMMA PointsFinite ==
  ASSUME NEW g \in Grammars
  PROVE  IsFiniteSet(Points(g))
<1> DEFINE P(r) == {r} \X (0..Length(g, r))
           T == {P(r) : r \in RuleIds(g)}
<1>1. IsFiniteSet(RuleIds(g)) /\ \A r \in RuleIds(g) : Length(g, r) \in Nat
  BY GramFacts
<1>2. [r \in RuleIds(g) |-> P(r)] \in Surjection(RuleIds(g), T)
  BY DEF Surjection
<1>3. IsFiniteSet(T)
  BY <1>1, <1>2, FS_Surjection
<1>4. ASSUME NEW r \in RuleIds(g) PROVE IsFiniteSet(P(r))
  <2>1. IsFiniteSet(0..Length(g, r))
    BY <1>1, FS_Interval
  <2>2. IsFiniteSet({r})
    BY FS_Singleton
  <2> QED BY <2>1, <2>2, FS_Product
<1>5. UNION T = Points(g)
  BY <1>1 DEF Points
<1> HIDE DEF P
<1>6. \A x \in T : IsFiniteSet(x)
  BY <1>4
<1>7. IsFiniteSet(UNION T)
  BY <1>3, <1>6, FS_UNION
<1> QED BY <1>5, <1>7

-----------------------------------------------------------------------------
(* What the reference definition finds.                                    *)

\* LalrReference speaks of items in the same words.
LEMMA RefOperators ==
  /\ \A g : Ref!RuleIds(g) = RuleIds(g) /\ Ref!Symbols(g) = Symbols(g)
  /\ \A g, r : /\ Ref!Lhs(g, r) = Lhs(g, r) /\ Ref!Rhs(g, r) = Rhs(g, r)
               /\ Ref!Length(g, r) = Length(g, r)
  /\ \A g, p : (Ref!AtEnd(g, p) <=> AtEnd(g, p)) /\ Ref!AfterDot(g, p) = AfterDot(g, p)
  /\ \A sts, s, x : Ref!Goto(sts, s, x) = Goto(sts, s, x)
BY DEF Ref!RuleIds, RuleIds, Ref!Symbols, Symbols, Ref!Lhs, Lhs, Ref!Rhs, Rhs, Ref!Length, Length,
       Ref!AtEnd, AtEnd, Ref!AfterDot, AfterDot, Ref!Goto, Goto, Ref!Targets, Targets

\* A nonterminal is in Empty if all of the right side of one of its rules is, and no other is.
LEMMA EmptyFacts ==
  ASSUME NEW g \in Grammars
  PROVE  /\ Ref!Empty(g) \in SUBSET Symbols(g)
         /\ \A r \in RuleIds(g) :
              (\A n \in 1..Length(g, r) : Rhs(g, r)[n] \in Ref!Empty(g)) => Lhs(g, r) \in Ref!Empty(g)
         /\ \A D \in SUBSET Symbols(g) :
              (\A r \in RuleIds(g) :
                 (\A n \in 1..Length(g, r) : Rhs(g, r)[n] \in D) => Lhs(g, r) \in D)
              => Ref!Empty(g) \subseteq D
<1> DEFINE U == Symbols(g)
           New(S) == {x \in {Lhs(g, r) : r \in {x \in RuleIds(g) :
                               \A n \in 1..Length(g, x) : Rhs(g, x)[n] \in S}} : x \in U}
           C == [S \in SUBSET U |-> New(S)]
           Def(f) == f = [T \in SUBSET U |-> LET V == T \cup New(T) IN IF V = T THEN T ELSE f[V]]
<1>1. IsFiniteSet(U) /\ \A r \in RuleIds(g) : Lhs(g, r) \in U
  BY GramFacts
<1>2. Grows(U, C)
  BY DEF Grows
<1>3. \A f : Def(f) <=> IsGrown(f, U, C)
  <2>1. ASSUME NEW f
        PROVE  [T \in SUBSET U |-> LET V == T \cup New(T) IN IF V = T THEN T ELSE f[V]]
                 = [T \in SUBSET U |-> LET V == T \cup C[T] IN IF V = T THEN T ELSE f[V]]
    <3>1. \A T \in SUBSET U : C[T] = New(T)
      OBVIOUS
    <3> HIDE DEF U, New, C
    <3> QED BY <3>1
  <2> HIDE DEF U, New, C
  <2> QED BY <2>1 DEF IsGrown
<1> DEFINE f == CHOOSE f : Def(f)
<1>4. Ref!Empty(g) = f[{}]
  BY DEF Ref!Empty, Ref!Least, Ref!Symbols, Symbols, Ref!RuleIds, RuleIds, Ref!Lhs, Lhs,
         Ref!Length, Length, Ref!Rhs, Rhs
<1>5. Def(f)
  <2> HIDE DEF Def, U, C
  <2>1. \E h : Def(h)
    BY <1>2, <1>3, GrownExists
  <2> QED BY <2>1
<1> HIDE DEF Def, f
<1>6. /\ f[{}] \in SUBSET U /\ C[f[{}]] \subseteq f[{}]
      /\ \A D \in SUBSET U : {} \subseteq D /\ C[D] \subseteq D => f[{}] \subseteq D
  <2> HIDE DEF U, C
  <2>1. IsGrown(f, U, C) /\ {} \in SUBSET U
    BY <1>3, <1>5
  <2>2. ASSUME NEW S \in SUBSET U
        PROVE  /\ f[S] \in SUBSET U /\ C[f[S]] \subseteq f[S]
               /\ \A D \in SUBSET U : S \subseteq D /\ C[D] \subseteq D => f[S] \subseteq D
    BY <2>1, <1>1, <1>2, GrownFacts
  <2> QED BY <2>1, <2>2
<1>7. \A D \in SUBSET U :
        C[D] \subseteq D <=> \A r \in RuleIds(g) :
                               (\A n \in 1..Length(g, r) : Rhs(g, r)[n] \in D) => Lhs(g, r) \in D
  BY <1>1
<1> HIDE DEF C, U
<1> QED BY <1>4, <1>6, <1>7 DEF U

\* Terminal a may begin what is derived from the symbols behind the dot of item p.
Starts(g, p, a) ==
  \E n \in (p[2] + 1)..Length(g, p[1]) :
    /\ \A k \in (p[2] + 1)..(n - 1) : Rhs(g, p[1])[k] \in Ref!Empty(g)
    /\ <<Rhs(g, p[1])[n], a>> \in Ref!FirstPairs(g)

\* A terminal begins with itself, a nonterminal with what a right side of it begins with.
LEMMA FirstFacts ==
  ASSUME NEW g \in Grammars
  PROVE  /\ Ref!FirstPairs(g) \in SUBSET (Symbols(g) \X g.terms)
         /\ \A t \in g.terms : <<t, t>> \in Ref!FirstPairs(g)
         /\ \A r \in RuleIds(g) : \A a : Starts(g, <<r, 0>>, a) => <<Lhs(g, r), a>> \in Ref!FirstPairs(g)
         /\ \A D \in SUBSET (Symbols(g) \X g.terms) :
              /\ \A t \in g.terms : <<t, t>> \in D
              /\ \A r \in RuleIds(g) : \A n \in 1..Length(g, r) : \A a \in g.terms :
                   (\A k \in 1..(n - 1) : Rhs(g, r)[k] \in Ref!Empty(g)) /\ <<Rhs(g, r)[n], a>> \in D
                   => <<Lhs(g, r), a>> \in D
              => Ref!FirstPairs(g) \subseteq D
<1> DEFINE U == Symbols(g) \X g.terms
           E == Ref!Empty(g)
           S == {<<t, t>> : t \in g.terms}
           New(P) == {x \in UNION {{<<Lhs(g, r), p[2]>> :
                                p \in {x \in P : \E n \in 1..Length(g, r) :
                                         Ref!Leading(g, E, r, 0, n) /\ x[1] = Rhs(g, r)[n]}} :
                             r \in RuleIds(g)} : x \in U}
           C == [P \in SUBSET U |-> New(P)]
           Def(f) == f = [T \in SUBSET U |-> LET V == T \cup New(T) IN IF V = T THEN T ELSE f[V]]
<1>1. /\ \A r \in RuleIds(g) : Lhs(g, r) \in Symbols(g)
      /\ \A r \in RuleIds(g) : Length(g, r) \in Nat
      /\ \A t \in g.terms : t \in Symbols(g)
      /\ IsFiniteSet(Symbols(g)) /\ IsFiniteSet(g.terms)
  BY GramFacts
<1>2. IsFiniteSet(U) /\ S \in SUBSET U
  BY <1>1, FS_Product
<1>3. Grows(U, C)
  <2> HIDE DEF U
  <2>1. \A P \in SUBSET U : New(P) \in SUBSET U
    OBVIOUS
  <2>2. ASSUME NEW P \in SUBSET U, NEW Q \in SUBSET U, P \subseteq Q PROVE New(P) \subseteq New(Q)
    BY <2>2
  <2> HIDE DEF New
  <2> QED BY <2>1, <2>2 DEF Grows
<1>4. \A f : Def(f) <=> IsGrown(f, U, C)
  <2>1. ASSUME NEW f
        PROVE  [T \in SUBSET U |-> LET V == T \cup New(T) IN IF V = T THEN T ELSE f[V]]
                 = [T \in SUBSET U |-> LET V == T \cup C[T] IN IF V = T THEN T ELSE f[V]]
    <3>1. \A T \in SUBSET U : C[T] = New(T)
      OBVIOUS
    <3> HIDE DEF U, New, C
    <3> QED BY <3>1
  <2> HIDE DEF U, New, C
  <2> QED BY <2>1 DEF IsGrown
<1> DEFINE f == CHOOSE f : Def(f)
<1>5. Ref!FirstPairs(g) = f[S]
  BY DEF Ref!FirstPairs, Ref!Least, Ref!Symbols, Symbols, Ref!RuleIds, RuleIds, Ref!Lhs, Lhs,
         Ref!Length, Length, Ref!Rhs, Rhs
<1>6. Def(f)
  <2> HIDE DEF Def, U, C
  <2>1. \E h : Def(h)
    BY <1>3, <1>4, GrownExists
  <2> QED BY <2>1
<1> HIDE DEF Def, f
<1>7. /\ S \subseteq f[S] /\ f[S] \in SUBSET U /\ C[f[S]] \subseteq f[S]
      /\ \A D \in SUBSET U : S \subseteq D /\ C[D] \subseteq D => f[S] \subseteq D
  <2> HIDE DEF U, C, S
  <2>1. IsGrown(f, U, C)
    BY <1>4, <1>6
  <2> QED BY <2>1, <1>2, <1>3, GrownFacts
<1>8. ASSUME NEW D \in SUBSET U
      PROVE  C[D] \subseteq D <=>
               \A r \in RuleIds(g) : \A n \in 1..Length(g, r) : \A a \in g.terms :
                 (\A k \in 1..(n - 1) : Rhs(g, r)[k] \in E) /\ <<Rhs(g, r)[n], a>> \in D
                 => <<Lhs(g, r), a>> \in D
  <2>1. \A r \in RuleIds(g) : \A n \in 1..Length(g, r) :
          Ref!Leading(g, E, r, 0, n) <=> \A k \in 1..(n - 1) : Rhs(g, r)[k] \in E
    <3>1. 0 + 1 = 1
      OBVIOUS
    <3> HIDE DEF E
    <3> QED BY <3>1, RefOperators DEF Ref!Leading
  <2> HIDE DEF E
  <2>2. ASSUME C[D] \subseteq D, NEW r \in RuleIds(g), NEW n \in 1..Length(g, r), NEW a \in g.terms,
               \A k \in 1..(n - 1) : Rhs(g, r)[k] \in E, <<Rhs(g, r)[n], a>> \in D
        PROVE  <<Lhs(g, r), a>> \in D
    <3>1. <<Lhs(g, r), a>> \in U
      BY <1>1
    <3>2. <<Rhs(g, r)[n], a>>[1] = Rhs(g, r)[n] /\ <<Rhs(g, r)[n], a>>[2] = a
      OBVIOUS
    <3>3. <<Lhs(g, r), a>> \in C[D]
      BY <3>1, <3>2, <2>1, <2>2
    <3> QED BY <3>3, <2>2
  <2>3. ASSUME \A r \in RuleIds(g) : \A n \in 1..Length(g, r) : \A a \in g.terms :
                 (\A k \in 1..(n - 1) : Rhs(g, r)[k] \in E) /\ <<Rhs(g, r)[n], a>> \in D
                 => <<Lhs(g, r), a>> \in D,
               NEW x \in C[D]
        PROVE  x \in D
    <3>1. PICK r \in RuleIds(g), p \in D : \E n \in 1..Length(g, r) :
            Ref!Leading(g, E, r, 0, n) /\ p[1] = Rhs(g, r)[n] /\ x = <<Lhs(g, r), p[2]>>
      OBVIOUS
    <3>2. PICK n \in 1..Length(g, r) :
            Ref!Leading(g, E, r, 0, n) /\ p[1] = Rhs(g, r)[n] /\ x = <<Lhs(g, r), p[2]>>
      BY <3>1
    <3>3. p[2] \in g.terms /\ p = <<Rhs(g, r)[n], p[2]>>
      BY <3>2
    <3> HIDE DEF C, U
    <3> QED BY <3>2, <3>3, <2>1, <2>3
  <2> HIDE DEF C, U
  <2> QED BY <2>2, <2>3
<1>9. ASSUME NEW r \in RuleIds(g), NEW a, Starts(g, <<r, 0>>, a) PROVE <<Lhs(g, r), a>> \in f[S]
  <2>1. <<r, 0>>[1] = r /\ <<r, 0>>[2] = 0 /\ 0 + 1 = 1
    OBVIOUS
  <2>2. PICK n \in 1..Length(g, r) :
          (\A k \in 1..(n - 1) : Rhs(g, r)[k] \in E) /\ <<Rhs(g, r)[n], a>> \in f[S]
    BY <2>1, <1>5, <1>9 DEF Starts
  <2>3. a \in g.terms
    BY <2>2, <1>7
  <2> HIDE DEF C, U, E
  <2> QED BY <2>2, <2>3, <1>7, <1>8
<1>10. \A D : S \subseteq D <=> \A t \in g.terms : <<t, t>> \in D
  OBVIOUS
<1> HIDE DEF C, U, S, E
<1>11. f[S] \in SUBSET (Symbols(g) \X g.terms)
  BY <1>7 DEF U
<1>12. \A t \in g.terms : <<t, t>> \in f[S]
  BY <1>7, <1>10
<1>13. ASSUME NEW D \in SUBSET U, \A t \in g.terms : <<t, t>> \in D,
              \A r \in RuleIds(g) : \A n \in 1..Length(g, r) : \A a \in g.terms :
                (\A k \in 1..(n - 1) : Rhs(g, r)[k] \in E) /\ <<Rhs(g, r)[n], a>> \in D
                => <<Lhs(g, r), a>> \in D
       PROVE  f[S] \subseteq D
  <2>1. C[D] \subseteq D
    BY <1>8, <1>13
  <2>2. S \subseteq D
    BY <1>10, <1>13
  <2> QED BY <2>1, <2>2, <1>7
<1>14. \A D \in SUBSET (Symbols(g) \X g.terms) :
         /\ \A t \in g.terms : <<t, t>> \in D
         /\ \A r \in RuleIds(g) : \A n \in 1..Length(g, r) : \A a \in g.terms :
              (\A k \in 1..(n - 1) : Rhs(g, r)[k] \in Ref!Empty(g)) /\ <<Rhs(g, r)[n], a>> \in D
              => <<Lhs(g, r), a>> \in D
         => f[S] \subseteq D
  <2> SUFFICES ASSUME NEW D \in SUBSET U, \A t \in g.terms : <<t, t>> \in D,
                      \A r \in RuleIds(g) : \A n \in 1..Length(g, r) : \A a \in g.terms :
                        (\A k \in 1..(n - 1) : Rhs(g, r)[k] \in E) /\ <<Rhs(g, r)[n], a>> \in D
                        => <<Lhs(g, r), a>> \in D
               PROVE  f[S] \subseteq D
    BY Zenon DEF U, E
  <2> QED BY <1>13
<1>15. \A r \in RuleIds(g) : \A a : Starts(g, <<r, 0>>, a) => <<Lhs(g, r), a>> \in f[S]
  BY <1>9
<1> QED BY <1>5, <1>11, <1>12, <1>14, <1>15

\* The items of a grammar with something a terminal may follow, or nothing.
Marked(g, sts) == (0..(Len(sts) - 1)) \X Points(g) \X (g.terms \cup {Nil})

\* What LalrReference adds because of f.
HandedOn(g, sts, f, e) ==
  LET p == f[2] IN
  /\ ~ AtEnd(g, p)
  /\ \/ e = <<Goto(sts, f[1], AfterDot(g, p)), <<p[1], p[2] + 1>>, f[3]>>
     \/ \E r \in RuleIds(g) : \E b :
          /\ Lhs(g, r) = AfterDot(g, p) /\ e = <<f[1], <<r, 0>>, b>>
          /\ \/ b = Nil \/ Starts(g, <<p[1], p[2] + 1>>, b)
             \/ b = f[3] /\ \A n \in (p[2] + 2)..Length(g, p[1]) : Rhs(g, p[1])[n] \in Ref!Empty(g)

\* Follows is the least set with the start item that has all that is handed on.
LEMMA FollowsFacts ==
  ASSUME NEW g \in Grammars, NEW sts, Len(sts) \in Nat, Len(sts) >= 1
  PROVE  /\ Ref!Follows(g, sts) \in SUBSET Marked(g, sts)
         /\ <<0, <<0, 0>>, Nil>> \in Ref!Follows(g, sts)
         /\ \A f \in Ref!Follows(g, sts) : \A e \in Marked(g, sts) :
              HandedOn(g, sts, f, e) => e \in Ref!Follows(g, sts)
         /\ \A D \in SUBSET Marked(g, sts) :
              /\ <<0, <<0, 0>>, Nil>> \in D
              /\ \A f \in D : \A e \in Marked(g, sts) : HandedOn(g, sts, f, e) => e \in D
              => Ref!Follows(g, sts) \subseteq D
<1> DEFINE empty == Ref!Empty(g)
           first == Ref!FirstPairs(g)
           items == UNION {{r} \X (0..Length(g, r)) : r \in RuleIds(g)}
           open  == {p \in items : ~ AtEnd(g, p)}
           next == [p \in open |->
                 {x[2] : x \in {y \in first : \E n \in 1..Length(g, p[1]) :
                    Ref!Leading(g, empty, p[1], p[2] + 1, n) /\ y[1] = Rhs(g, p[1])[n]}}]
           rest == [p \in open |->
                 \A n \in (p[2] + 2)..Length(g, p[1]) : Rhs(g, p[1])[n] \in empty]
           Of(f) ==
             LET q0 == f[1]
                 p == f[2]
             IN IF AtEnd(g, p) THEN {}
                ELSE {<<Goto(sts, q0, AfterDot(g, p)), <<p[1], p[2] + 1>>, f[3]>>}
                     \cup {<<q0, <<r, 0>>, a>> :
                             r \in {x \in RuleIds(g) : Lhs(g, x) = AfterDot(g, p)},
                             a \in {Nil} \cup next[p] \cup (IF rest[p] THEN {f[3]} ELSE {})}
           U == (0..(Len(sts) - 1)) \X items \X (g.terms \cup {Nil})
           S == {<<0, <<0, 0>>, Nil>>}
           New(F) == {x \in UNION {Of(f) : f \in F} : x \in U}
           C == [F \in SUBSET U |-> New(F)]
           Def(f) == f = [T \in SUBSET U |-> LET V == T \cup New(T) IN IF V = T THEN T ELSE f[V]]
           f == CHOOSE h : Def(h)
<1>1. Ref!Follows(g, sts) = f[S]
  BY DEF Ref!Follows, Ref!Least, Ref!Symbols, Symbols, Ref!RuleIds, RuleIds, Ref!Lhs, Lhs,
         Ref!Length, Length, Ref!Rhs, Rhs, Ref!AtEnd, AtEnd, Ref!AfterDot, AfterDot,
         Ref!Goto, Goto, Ref!Targets, Targets
<1>2. U = Marked(g, sts) /\ IsFiniteSet(U) /\ S \in SUBSET U
  <2>1. RuleIds(g) \subseteq Nat /\ IsFiniteSet(RuleIds(g)) /\ 0 \in RuleIds(g)
        /\ IsFiniteSet(g.terms) /\ \A r \in RuleIds(g) : Length(g, r) \in Nat
    BY GramFacts
  <2>2. items = Points(g)
    BY <2>1 DEF Points
  <2>3. IsFiniteSet(items)
    BY <2>2, PointsFinite
  <2>4. IsFiniteSet(U)
    <3> DEFINE X == 0..(Len(sts) - 1)
               Y == g.terms \cup {Nil}
    <3>1. IsFiniteSet(X)
      BY FS_Interval
    <3>2. IsFiniteSet(Y)
      BY <2>1, FS_AddElement
    <3> HIDE DEF X, Y, items
    <3>3. IsFiniteSet(items \X Y) /\ IsFiniteSet(X \X (items \X Y))
      BY <2>3, <3>1, <3>2, FS_Product
    <3> DEFINE h == [x \in X \X (items \X Y) |-> <<x[1], x[2][1], x[2][2]>>]
    <3>4. h \in Surjection(X \X (items \X Y), X \X items \X Y)
      <4>1. h \in [X \X (items \X Y) -> X \X items \X Y]
        OBVIOUS
      <4>2. ASSUME NEW t \in X \X items \X Y PROVE \E x \in X \X (items \X Y) : h[x] = t
        <5>1. <<t[1], <<t[2], t[3]>>>> \in X \X (items \X Y) /\ h[<<t[1], <<t[2], t[3]>>>>] = t
          OBVIOUS
        <5> HIDE DEF h
        <5> QED BY <5>1
      <4> HIDE DEF h
      <4> QED BY <4>1, <4>2 DEF Surjection
    <3>5. IsFiniteSet(X \X items \X Y)
      BY <3>3, <3>4, FS_Surjection
    <3> QED BY <3>5 DEF X, Y
  <2>5. S \in SUBSET U
    <3>1. 0 \in 0..(Len(sts) - 1) /\ <<0, 0>> \in items
      BY <2>1, <2>2 DEF Points
    <3> HIDE DEF items
    <3> QED BY <3>1
  <2> HIDE DEF items
  <2> QED BY <2>2, <2>4, <2>5 DEF Marked
<1>3. Grows(U, C)
  <2> HIDE DEF U, Of
  <2>1. \A P \in SUBSET U : New(P) \in SUBSET U
    OBVIOUS
  <2>2. ASSUME NEW P \in SUBSET U, NEW Q \in SUBSET U, P \subseteq Q PROVE New(P) \subseteq New(Q)
    BY <2>2
  <2> HIDE DEF New
  <2> QED BY <2>1, <2>2 DEF Grows
<1>4. \A h : Def(h) <=> IsGrown(h, U, C)
  <2> HIDE DEF U, New
  <2>1. ASSUME NEW h
        PROVE  [T \in SUBSET U |-> LET V == T \cup New(T) IN IF V = T THEN T ELSE h[V]]
                 = [T \in SUBSET U |-> LET V == T \cup C[T] IN IF V = T THEN T ELSE h[V]]
    <3>1. \A T \in SUBSET U : C[T] = New(T)
      OBVIOUS
    <3> HIDE DEF C
    <3> QED BY <3>1
  <2> HIDE DEF C
  <2> QED BY <2>1 DEF IsGrown
<1>5. Def(f)
  <2> HIDE DEF Def, U, C
  <2>1. \E h : Def(h)
    BY <1>3, <1>4, GrownExists
  <2> QED BY <2>1
<1> HIDE DEF Def, f
<1>6. /\ S \subseteq f[S] /\ f[S] \in SUBSET U /\ C[f[S]] \subseteq f[S]
      /\ \A D \in SUBSET U : S \subseteq D /\ C[D] \subseteq D => f[S] \subseteq D
  <2> HIDE DEF U, C, S
  <2>1. IsGrown(f, U, C)
    BY <1>4, <1>5
  <2> QED BY <2>1, <1>2, <1>3, GrownFacts
<1>7. ASSUME NEW F \in U, NEW e PROVE e \in Of(F) <=> HandedOn(g, sts, F, e)
  <2> DEFINE p == F[2]
  <2>1. p \in items /\ p = <<p[1], p[2]>> /\ p[2] \in Nat /\ p[1] \in RuleIds(g)
    <3> HIDE DEF items
    <3>1. U = Marked(g, sts)
      BY <1>2
    <3>2. p \in Points(g)
      BY <3>1 DEF Marked
    <3>3. p \in items
      OBVIOUS
    <3> QED BY <3>2, <3>3 DEF Points
  <2>2. CASE AtEnd(g, p)
    BY <2>2 DEF HandedOn
  <2>3. CASE ~ AtEnd(g, p)
    <3>1. p \in open
      BY <2>1, <2>3
    <3>2. \A b : b \in next[p] <=> Starts(g, <<p[1], p[2] + 1>>, b)
      <4> HIDE DEF items
      <4>1. next[p] = {x[2] : x \in {y \in first : \E n \in 1..Length(g, p[1]) :
                      Ref!Leading(g, empty, p[1], p[2] + 1, n) /\ y[1] = Rhs(g, p[1])[n]}}
        BY <3>1
      <4>2. first \in SUBSET (Symbols(g) \X g.terms)
        BY FirstFacts
      <4>3. \A n : n \in (p[2] + 2)..Length(g, p[1]) => n \in 1..Length(g, p[1])
        BY <2>1
      <4>4. (p[2] + 1) + 1 = p[2] + 2
        BY <2>1
      <4>5. \A n : Ref!Leading(g, empty, p[1], p[2] + 1, n) <=>
              n \in (p[2] + 2)..Length(g, p[1]) /\ \A k \in (p[2] + 2)..(n - 1) : Rhs(g, p[1])[k] \in empty
        <5> HIDE DEF empty, p
        <5> QED BY <4>4, RefOperators DEF Ref!Leading
      <4>6. \A b : Starts(g, <<p[1], p[2] + 1>>, b) <=>
              \E n \in (p[2] + 2)..Length(g, p[1]) :
                /\ \A k \in (p[2] + 2)..(n - 1) : Rhs(g, p[1])[k] \in empty
                /\ <<Rhs(g, p[1])[n], b>> \in first
        BY <4>4 DEF Starts
      <4> HIDE DEF next, first, empty, p
      <4>7. ASSUME NEW b, b \in next[p] PROVE Starts(g, <<p[1], p[2] + 1>>, b)
        <5>1. PICK y \in first, n \in 1..Length(g, p[1]) :
                Ref!Leading(g, empty, p[1], p[2] + 1, n) /\ y[1] = Rhs(g, p[1])[n] /\ b = y[2]
          BY <4>1, <4>7
        <5>2. y = <<Rhs(g, p[1])[n], b>>
          BY <5>1, <4>2
        <5> QED BY <5>1, <5>2, <4>5, <4>6
      <4>8. ASSUME NEW b, Starts(g, <<p[1], p[2] + 1>>, b) PROVE b \in next[p]
        <5>1. PICK n \in (p[2] + 2)..Length(g, p[1]) :
                /\ \A k \in (p[2] + 2)..(n - 1) : Rhs(g, p[1])[k] \in empty
                /\ <<Rhs(g, p[1])[n], b>> \in first
          BY <4>6, <4>8
        <5>2. n \in 1..Length(g, p[1]) /\ Ref!Leading(g, empty, p[1], p[2] + 1, n)
          BY <5>1, <4>3, <4>5
        <5> DEFINE y == <<Rhs(g, p[1])[n], b>>
        <5>3. y \in first /\ y[1] = Rhs(g, p[1])[n] /\ y[2] = b
          BY <5>1
        <5> HIDE DEF y
        <5> QED BY <5>2, <5>3, <4>1
      <4> QED BY <4>7, <4>8
    <3>3. rest[p] <=> \A n \in (p[2] + 2)..Length(g, p[1]) : Rhs(g, p[1])[n] \in empty
      <4> HIDE DEF items
      <4> QED BY <3>1
    <3>4. e \in Of(F) <=>
            \/ e = <<Goto(sts, F[1], AfterDot(g, p)), <<p[1], p[2] + 1>>, F[3]>>
            \/ \E r \in {x \in RuleIds(g) : Lhs(g, x) = AfterDot(g, p)} :
                 \E b \in {Nil} \cup next[p] \cup (IF rest[p] THEN {F[3]} ELSE {}) : e = <<F[1], <<r, 0>>, b>>
      <4> HIDE DEF next, rest, items
      <4> QED BY <2>3
    <3> HIDE DEF Of, next, rest, p
    <3> QED BY <3>2, <3>3, <3>4, <2>3 DEF HandedOn, p
  <2> HIDE DEF Of, U, p
  <2> QED BY <2>2, <2>3
<1>8. ASSUME NEW D \in SUBSET U
      PROVE  C[D] \subseteq D <=>
               \A F \in D : \A e \in Marked(g, sts) : HandedOn(g, sts, F, e) => e \in D
  <2> HIDE DEF Of, U
  <2>1. \A e : e \in C[D] <=> e \in U /\ \E F \in D : e \in Of(F)
    OBVIOUS
  <2> HIDE DEF C
  <2> QED BY <2>1, <1>2, <1>7
<1>9. \A D : S \subseteq D <=> <<0, <<0, 0>>, Nil>> \in D
  OBVIOUS
<1> HIDE DEF C, U, Of, S
<1>10. \A F \in f[S] : \A e \in Marked(g, sts) : HandedOn(g, sts, F, e) => e \in f[S]
  BY <1>6, <1>8
<1>11. ASSUME NEW D \in SUBSET U, <<0, <<0, 0>>, Nil>> \in D,
              \A F \in D : \A e \in Marked(g, sts) : HandedOn(g, sts, F, e) => e \in D
       PROVE  f[S] \subseteq D
  <2>1. C[D] \subseteq D /\ S \subseteq D
    BY <1>8, <1>9, <1>11
  <2> QED BY <2>1, <1>6
<1> QED BY <1>1, <1>2, <1>6, <1>9, <1>10, <1>11

-----------------------------------------------------------------------------
(* What lr0_build leaves.                                                  *)

LP == INSTANCE LR0Proofs WITH pc <- lpc, cur <- scur

\* What LR0Proofs assumes, assumed here.
LEMMA BucketsAssumed == LP!MaxBucketsAssumption
BY MaxBucketsAssumption DEF LP!MaxBucketsAssumption

LEMMA AutomatonAssumes == LP!GrammarsAreGrammars
BY GrammarsAreGrammars
DEF LP!GrammarsAreGrammars, LP!IsGrammar, IsGrammar, LP!Symbols, Symbols, LP!NoRepeats, NoRepeats,
    LP!Occurs, Occurs, LP!RuleIds, RuleIds, LP!Lhs, Lhs, LP!Rhs, Rhs, LP!Length, Length,
    LP!IsFiniteSet, IsFiniteSet

\* LR0Proofs speaks of items in the same words.
LEMMA AutomatonOperators ==
  /\ \A g, k : LP!ClosureOf(g, k) = ClosureOf(g, k) /\ LP!ClosureSet(g, k) = ClosureSet(g, k)
  /\ \A g : LP!Points(g) = Points(g) /\ LP!RuleIds(g) = RuleIds(g) /\ LP!Symbols(g) = Symbols(g)
  /\ \A g, r : LP!Lhs(g, r) = Lhs(g, r) /\ LP!Rhs(g, r) = Rhs(g, r) /\ LP!Length(g, r) = Length(g, r)
  /\ \A g, p : (LP!AtEnd(g, p) <=> AtEnd(g, p)) /\ LP!AfterDot(g, p) = AfterDot(g, p)
  /\ \A g, c, x : LP!Advance(g, c, x) = Advance(g, c, x)
  /\ \A g, x : LP!SymbolId(g, x) = SymbolId(g, x)
  /\ \A s : (LP!NoRepeats(s) <=> NoRepeats(s)) /\ \A x : LP!Occurs(x, s) <=> Occurs(x, s)
  /\ \A S : LP!IsFiniteSet(S) <=> IsFiniteSet(S)
<1>1. \A g : LP!RuleIds(g) = RuleIds(g) /\ LP!Symbols(g) = Symbols(g)
  BY DEF LP!RuleIds, RuleIds, LP!Symbols, Symbols
<1>2. \A g, r : LP!Lhs(g, r) = Lhs(g, r) /\ LP!Rhs(g, r) = Rhs(g, r) /\ LP!Length(g, r) = Length(g, r)
  BY DEF LP!Lhs, Lhs, LP!Rhs, Rhs, LP!Length, Length
<1>3. \A g, p : (LP!AtEnd(g, p) <=> AtEnd(g, p)) /\ LP!AfterDot(g, p) = AfterDot(g, p)
  BY <1>2 DEF LP!AtEnd, AtEnd, LP!AfterDot, AfterDot
<1>4. \A g : LP!Points(g) = Points(g)
  BY <1>1, <1>2 DEF LP!Points, Points
<1>5. \A g, c, x : LP!Advance(g, c, x) = Advance(g, c, x)
  BY <1>3 DEF LP!Advance, Advance
<1>6. \A g, x : LP!SymbolId(g, x) = SymbolId(g, x)
  BY DEF LP!SymbolId, SymbolId
<1>7. /\ \A s : (LP!NoRepeats(s) <=> NoRepeats(s)) /\ \A x : LP!Occurs(x, s) <=> Occurs(x, s)
      /\ \A S : LP!IsFiniteSet(S) <=> IsFiniteSet(S)
  BY DEF LP!NoRepeats, NoRepeats, LP!Occurs, Occurs, LP!IsFiniteSet, IsFiniteSet
<1>8. \A g, k : LP!ClosureOf(g, k) = ClosureOf(g, k)
  BY DEF LP!ClosureOf, ClosureOf, LP!Sorted, Sorted, LP!Cardinality, Cardinality, LP!IsFiniteSet, IsFiniteSet,
         LP!RuleIds, RuleIds, LP!AddRules, AddRules, LP!AtEnd, AtEnd, LP!AfterDot, AfterDot,
         LP!Length, Length, LP!Rhs, Rhs, LP!Seen, Seen, LP!PointBefore, PointBefore
<1>9. \A g, k : LP!ClosureSet(g, k) = ClosureSet(g, k)
  BY <1>8 DEF LP!ClosureSet, ClosureSet
<1> QED BY <1>1, <1>2, <1>3, <1>4, <1>5, <1>6, <1>7, <1>8, <1>9

\* ... and LALR.
LEMMA LookaheadOperators ==
  /\ \A g, k : R!ClosureOf(g, k) = ClosureOf(g, k)
  /\ \A g, r : R!Rhs(g, r) = Rhs(g, r) /\ R!Length(g, r) = Length(g, r)
  /\ \A g, p : R!AtEnd(g, p) <=> AtEnd(g, p)
  /\ \A sts, s, x : R!Goto(sts, s, x) = Goto(sts, s, x)
  /\ \A S : R!Sorted(S) = Sorted(S)
  /\ \A S : R!Ascending(S) = Ascending(S) /\ \A s : R!Chosen(s, S) = Chosen(s, S)
  /\ \A S : R!Min(S) = Min(S)
  /\ \A s : R!ToSet(s) = ToSet(s) /\ R!Reverse(s) = Reverse(s)
<1>1. \A g, k : R!ClosureOf(g, k) = ClosureOf(g, k)
  BY DEF R!ClosureOf, ClosureOf, R!Sorted, Sorted, R!Cardinality, Cardinality, R!IsFiniteSet, IsFiniteSet,
         R!RuleIds, RuleIds, R!AddRules, AddRules, R!AtEnd, AtEnd, R!AfterDot, AfterDot,
         R!Length, Length, R!Rhs, Rhs, R!Seen, Seen, R!PointBefore, PointBefore
<1>2. \A g, r : R!Rhs(g, r) = Rhs(g, r) /\ R!Length(g, r) = Length(g, r)
  BY DEF R!Rhs, Rhs, R!Length, Length
<1>3. \A g, p : R!AtEnd(g, p) <=> AtEnd(g, p)
  BY <1>2 DEF R!AtEnd, AtEnd
<1>4. \A sts, s, x : R!Goto(sts, s, x) = Goto(sts, s, x)
  BY DEF R!Goto, Goto, R!Targets, Targets
<1>5. \A S : R!Sorted(S) = Sorted(S)
  BY DEF R!Sorted, Sorted, R!Cardinality, Cardinality, R!IsFiniteSet, IsFiniteSet, R!PointBefore, PointBefore
<1>6. \A S : R!Ascending(S) = Ascending(S)
  BY DEF R!Ascending, Ascending, R!Cardinality, Cardinality, R!IsFiniteSet, IsFiniteSet
<1>7. \A S, s : R!Chosen(s, S) = Chosen(s, S)
  BY DEF R!Chosen, Chosen, R!Ascending, Ascending, R!Cardinality, Cardinality, R!IsFiniteSet, IsFiniteSet
<1>8. \A S : R!Min(S) = Min(S)
  BY DEF R!Min, Min
<1>9. \A s : R!ToSet(s) = ToSet(s) /\ R!Reverse(s) = Reverse(s)
  BY DEF R!ToSet, ToSet, R!Reverse, Reverse
<1> QED BY <1>1, <1>2, <1>3, <1>4, <1>5, <1>6, <1>7, <1>8, <1>9

\* The closure of a kernel is the least set of items with the rules that it expects.
LEMMA ClosureFacts ==
  ASSUME NEW g \in Grammars, NEW k \in SUBSET Points(g), IsFiniteSet(k),
         k = {<<0, 0>>} \/ \A p \in k : p[2] >= 1
  PROVE  /\ ClosureOf(g, k) \in Seq(Points(g)) /\ NoRepeats(ClosureOf(g, k))
         /\ ClosureSet(g, k) \in SUBSET Points(g) /\ k \subseteq ClosureSet(g, k)
         /\ \A p \in ClosureSet(g, k) : p \in k \/ \E r \in RuleIds(g) : p = <<r, 0>>
         /\ \A p \in ClosureSet(g, k) : \A r \in RuleIds(g) :
              ~ AtEnd(g, p) /\ Lhs(g, r) = AfterDot(g, p) => <<r, 0>> \in ClosureSet(g, k)
         /\ \A D : /\ k \subseteq D
                   /\ \A p \in D : \A r \in RuleIds(g) :
                        ~ AtEnd(g, p) /\ Lhs(g, r) = AfterDot(g, p) => <<r, 0>> \in D
                   => ClosureSet(g, k) \subseteq D
<1>1. k \in SUBSET LP!Points(g) /\ LP!IsFiniteSet(k)
  BY AutomatonOperators
<1>2. /\ LP!ClosureOf(g, k) \in Seq(LP!Points(g)) /\ LP!NoRepeats(LP!ClosureOf(g, k))
      /\ LP!ClosureSet(g, k) \in SUBSET LP!Points(g) /\ k \subseteq LP!ClosureSet(g, k)
      /\ \A p \in LP!ClosureSet(g, k) : p \in k \/ \E r \in LP!RuleIds(g) : p = <<r, 0>>
      /\ \A p \in LP!ClosureSet(g, k) : \A r \in LP!RuleIds(g) :
           ~ LP!AtEnd(g, p) /\ LP!Lhs(g, r) = LP!AfterDot(g, p) => <<r, 0>> \in LP!ClosureSet(g, k)
      /\ \A D : /\ k \subseteq D
                /\ \A p \in D : \A r \in LP!RuleIds(g) :
                     ~ LP!AtEnd(g, p) /\ LP!Lhs(g, r) = LP!AfterDot(g, p) => <<r, 0>> \in D
                => LP!ClosureSet(g, k) \subseteq D
  BY <1>1, BucketsAssumed, AutomatonAssumes, LP!ClosureSetFacts
<1> QED BY <1>2, AutomatonOperators

\* What LR0Proofs proves of the finished automaton.
LEMMA AutomatonIs ==
  ASSUME LP!IsAutomaton(gram, states)
  PROVE  IsAutomaton(gram, states)
<1>1. \A s : LP!GototabExact(gram, states, s) <=> GototabExact(gram, states, s)
  BY AutomatonOperators DEF LP!GototabExact, GototabExact
<1> QED BY <1>1, AutomatonOperators DEF LP!IsAutomaton, IsAutomaton

Kernel(s) == states[s + 1].kernel
Has(s)    == ClosureSet(gram, Kernel(s))
Sym(t)    == states[t + 1].sym

\* The passes behind lr0_build find a finished automaton.
Built == gram \in Grammars /\ IsAutomaton(gram, states)

\* Item p with the dot moved.
Over(p) == <<p[1], p[2] + 1>>
Back(p) == <<p[1], p[2] - 1>>

\* The items of a state.
LEMMA StateFacts ==
  ASSUME Built, NEW s \in StateIds
  PROVE  /\ Len(states) \in Nat /\ Len(states) >= 2 /\ 0 \in StateIds /\ 1 \in StateIds
         /\ Kernel(s) \in SUBSET Points(gram) /\ Has(s) \in SUBSET Points(gram) /\ Kernel(s) \subseteq Has(s)
         /\ ClosureOf(gram, Kernel(s)) \in Seq(Points(gram)) /\ NoRepeats(ClosureOf(gram, Kernel(s)))
         /\ \A p \in Has(s) : p \in Kernel(s) \/ \E r \in RuleIds(gram) : p = <<r, 0>>
         /\ s # 0 => \A p \in Kernel(s) : p[2] >= 1
         /\ Kernel(0) = {<<0, 0>>} /\ Kernel(1) = {<<0, 2>>} /\ (\A p \in Has(0) : p[2] = 0) /\ Has(1) = {<<0, 2>>}
         /\ \A p \in Has(s) : \A r \in RuleIds(gram) :
              ~ AtEnd(gram, p) /\ Lhs(gram, r) = AfterDot(gram, p) => <<r, 0>> \in Has(s)
         /\ \A D : /\ Kernel(s) \subseteq D
                   /\ \A p \in D : \A r \in RuleIds(gram) :
                        ~ AtEnd(gram, p) /\ Lhs(gram, r) = AfterDot(gram, p) => <<r, 0>> \in D
                   => Has(s) \subseteq D
<1>1. /\ Len(states) \in Nat /\ Len(states) >= 2
      /\ states[1].kernel = {<<0, 0>>} /\ states[2].kernel = {<<0, 2>>}
      /\ \A n \in 1..Len(states) :
           /\ IsFiniteSet(states[n].kernel)
           /\ \A p \in states[n].kernel :
                p \in RuleIds(gram) \X Nat /\ p[2] <= Length(gram, p[1]) /\ (n # 1 => p[2] >= 1)
  BY DEF Built, IsAutomaton
<1>2. 0 \in StateIds /\ 1 \in StateIds /\ Kernel(0) = {<<0, 0>>} /\ Kernel(1) = {<<0, 2>>}
  <2>1. 0 + 1 = 1 /\ 1 + 1 = 2
    OBVIOUS
  <2> QED BY <2>1, <1>1 DEF StateIds, Kernel
<1>3. ASSUME NEW z \in StateIds
      PROVE  /\ Kernel(z) \in SUBSET Points(gram) /\ IsFiniteSet(Kernel(z))
             /\ (z # 0 => \A p \in Kernel(z) : p[2] >= 1)
             /\ (Kernel(z) = {<<0, 0>>} \/ \A p \in Kernel(z) : p[2] >= 1)
  <2>1. z + 1 \in 1..Len(states) /\ (z + 1 = 1 <=> z = 0)
    BY <1>1 DEF StateIds
  <2>2. Kernel(z) \in SUBSET Points(gram) /\ IsFiniteSet(Kernel(z))
        /\ (z # 0 => \A p \in Kernel(z) : p[2] >= 1)
    BY <1>1, <2>1 DEF Kernel, Points
  <2>3. z = 0 => Kernel(z) = {<<0, 0>>}
    BY <1>2
  <2> QED BY <2>2, <2>3
<1>4. gram \in Grammars
  BY DEF Built
<1>5. ASSUME NEW z \in StateIds
      PROVE  /\ Has(z) \in SUBSET Points(gram) /\ Kernel(z) \subseteq Has(z)
             /\ ClosureOf(gram, Kernel(z)) \in Seq(Points(gram)) /\ NoRepeats(ClosureOf(gram, Kernel(z)))
             /\ \A p \in Has(z) : p \in Kernel(z) \/ \E r \in RuleIds(gram) : p = <<r, 0>>
             /\ \A p \in Has(z) : \A r \in RuleIds(gram) :
                  ~ AtEnd(gram, p) /\ Lhs(gram, r) = AfterDot(gram, p) => <<r, 0>> \in Has(z)
             /\ \A D : /\ Kernel(z) \subseteq D
                       /\ \A p \in D : \A r \in RuleIds(gram) :
                            ~ AtEnd(gram, p) /\ Lhs(gram, r) = AfterDot(gram, p) => <<r, 0>> \in D
                       => Has(z) \subseteq D
  BY <1>3, <1>4, ClosureFacts DEF Has
<1>6. \A p \in Has(0) : p[2] = 0
  <2>1. <<0, 0>>[2] = 0 /\ \A r : <<r, 0>>[2] = 0
    OBVIOUS
  <2> QED BY <1>2, <1>5, <2>1
<1>7. Has(1) = {<<0, 2>>}
  <2>1. AtEnd(gram, <<0, 2>>)
    <3>1. Length(gram, 0) = 2 /\ <<0, 2>>[1] = 0 /\ <<0, 2>>[2] = 2
      BY <1>4, GramFacts
    <3> QED BY <3>1 DEF AtEnd
  <2>2. \A p \in {<<0, 2>>} : \A r \in RuleIds(gram) :
           ~ AtEnd(gram, p) /\ Lhs(gram, r) = AfterDot(gram, p) => <<r, 0>> \in {<<0, 2>>}
    BY <2>1
  <2>3. Has(1) \subseteq {<<0, 2>>}
    BY <2>2, <1>2, <1>5
  <2> QED BY <2>3, <1>2, <1>5
<1> QED BY <1>1, <1>2, <1>3, <1>5, <1>6, <1>7

\* The transitions of a state.
LEMMA GoFacts ==
  ASSUME Built, NEW s \in StateIds
  PROVE  /\ Go(s) \in Seq(StateIds) /\ Len(Go(s)) \in Nat
         /\ \A k \in 1..Len(Go(s)) :
              /\ Go(s)[k] \in StateIds /\ Sym(Go(s)[k]) \in Symbols(gram)
              /\ Kernel(Go(s)[k]) = Advance(gram, Has(s), Sym(Go(s)[k])) /\ Kernel(Go(s)[k]) # {}
              /\ Goto(states, s, Sym(Go(s)[k])) = Go(s)[k]
              /\ Targets(states, s, Sym(Go(s)[k])) = {Go(s)[k]}
         /\ \A x \in Symbols(gram) :
              Advance(gram, Has(s), x) # {} => \E k \in 1..Len(Go(s)) : Sym(Go(s)[k]) = x
         /\ \A k, l \in 1..Len(Go(s)) :
              k < l => SymbolId(gram, Sym(Go(s)[k])) < SymbolId(gram, Sym(Go(s)[l]))
         /\ \A k, l \in 1..Len(Go(s)) : Sym(Go(s)[k]) = Sym(Go(s)[l]) => k = l
<1>1. /\ Go(s) \in Seq(0..(Len(states) - 1))
      /\ \A n \in 1..Len(Go(s)) :
           /\ Sym(Go(s)[n]) \in Symbols(gram)
           /\ Kernel(Go(s)[n]) = Advance(gram, Has(s), Sym(Go(s)[n]))
           /\ Advance(gram, Has(s), Sym(Go(s)[n])) # {}
      /\ \A x \in Symbols(gram) :
           Advance(gram, Has(s), x) # {} => \E n \in 1..Len(Go(s)) : Sym(Go(s)[n]) = x
      /\ \A m, n \in 1..Len(Go(s)) :
           m < n => SymbolId(gram, Sym(Go(s)[m])) < SymbolId(gram, Sym(Go(s)[n]))
  <2>1. GototabExact(gram, states, s)
    BY DEF Built, IsAutomaton, StateIds
  <2> QED BY <2>1 DEF GototabExact, Go, Sym, Kernel, Has
<1>2. Len(Go(s)) \in Nat /\ \A k \in 1..Len(Go(s)) : Go(s)[k] \in StateIds
  BY <1>1, LenProperties, ElementOfSeq DEF StateIds
<1>3. \A x \in Symbols(gram) : SymbolId(gram, x) \in Int
  <2> SUFFICES ASSUME NEW x \in Symbols(gram) PROVE SymbolId(gram, x) \in Int
    OBVIOUS
  <2>1. \E k \in 1..Len(gram.syms) : gram.syms[k] = x
    BY GramFacts DEF Built, Occurs
  <2>2. (CHOOSE k \in 1..Len(gram.syms) : gram.syms[k] = x) \in 1..Len(gram.syms)
    BY <2>1
  <2> QED BY <2>2 DEF SymbolId
<1>4. ASSUME NEW k \in 1..Len(Go(s)), NEW l \in 1..Len(Go(s)), Sym(Go(s)[k]) = Sym(Go(s)[l]) PROVE k = l
  <2>1. ~ (k < l) /\ ~ (l < k)
    BY <1>1, <1>3, <1>4
  <2> QED BY <2>1, <1>2
<1>5. ASSUME NEW k \in 1..Len(Go(s))
      PROVE  /\ Targets(states, s, Sym(Go(s)[k])) = {Go(s)[k]}
             /\ Goto(states, s, Sym(Go(s)[k])) = Go(s)[k]
  <2>1. Targets(states, s, Sym(Go(s)[k])) = {Go(s)[k]}
    BY <1>4 DEF Targets, Go, Sym
  <2> QED BY <2>1 DEF Goto
<1> QED BY <1>1, <1>2, <1>4, <1>5 DEF StateIds

\* A state is left with every item that expects a symbol ...
LEMMA GotoFacts ==
  ASSUME Built, NEW s \in StateIds, NEW p \in Has(s), ~ AtEnd(gram, p)
  PROVE  LET x == AfterDot(gram, p)
             t == Goto(states, s, x)
         IN /\ t \in StateIds /\ Sym(t) = x /\ x \in gram.terms \cup gram.nonterms
            /\ Over(p) \in Kernel(t) /\ Over(p) \in Has(t)
            /\ \E k \in 1..Len(Go(s)) : t = Go(s)[k]
<1> DEFINE x == AfterDot(gram, p)
<1>1. p \in Points(gram) /\ gram \in Grammars
  BY StateFacts DEF Built
<1>2. x \in gram.terms \cup gram.nonterms
  <2>1. /\ p \in RuleIds(gram) \X Nat /\ p[2] <= Length(gram, p[1]) /\ Length(gram, p[1]) \in Nat
    BY <1>1, GramFacts DEF Points
  <2>2. p[2] + 1 \in 1..Length(gram, p[1])
    BY <2>1 DEF AtEnd
  <2> QED BY <2>1, <2>2, <1>1, GramFacts DEF AfterDot
<1>3. x \in Symbols(gram)
  BY <1>1, <1>2, GramFacts
<1>4. Over(p) \in Advance(gram, Has(s), x)
  BY DEF Advance, Over
<1>5. PICK k \in 1..Len(Go(s)) : Sym(Go(s)[k]) = x
  BY <1>3, <1>4, GoFacts
<1>6. /\ Go(s)[k] \in StateIds /\ Kernel(Go(s)[k]) = Advance(gram, Has(s), x)
      /\ Goto(states, s, x) = Go(s)[k]
  BY <1>5, GoFacts
<1>7. Over(p) \in Has(Go(s)[k])
  BY <1>4, <1>6, StateFacts
<1> QED BY <1>2, <1>4, <1>5, <1>6, <1>7

\* ... and entered with items that have it behind the dot's place.
LEMMA EnteredFacts ==
  ASSUME Built, NEW s \in StateIds, NEW k \in 1..Len(Go(s)), NEW p \in Kernel(Go(s)[k])
  PROVE  /\ p \in Points(gram) /\ p[2] >= 1 /\ Back(p) \in Has(s) /\ ~ AtEnd(gram, Back(p))
         /\ AfterDot(gram, Back(p)) = Sym(Go(s)[k]) /\ Over(Back(p)) = p
         /\ Rhs(gram, p[1])[p[2]] = Sym(Go(s)[k])
<1>1. PICK b \in Has(s) : ~ AtEnd(gram, b) /\ AfterDot(gram, b) = Sym(Go(s)[k]) /\ p = <<b[1], b[2] + 1>>
  <2>1. p \in Advance(gram, Has(s), Sym(Go(s)[k]))
    BY GoFacts
  <2> QED BY ONLY <2>1 DEF Advance
<1>2. b \in RuleIds(gram) \X Nat
  BY StateFacts DEF Points
<1>3. p[1] = b[1] /\ p[2] = b[2] + 1 /\ p[2] - 1 = b[2] /\ p[2] >= 1 /\ Back(p) = b /\ Over(b) = p
  BY <1>1, <1>2 DEF Back, Over
<1>4. p \in Points(gram)
  <2>1. Go(s)[k] \in StateIds
    BY GoFacts
  <2> QED BY <2>1, StateFacts
<1> QED BY <1>1, <1>3, <1>4 DEF AfterDot

\* By definition every item of a state, the accepting one left out, may be followed by something.
LEMMA ItemsFollow ==
  ASSUME Built, NEW s \in StateIds, s # 1, NEW p \in Has(s)
  PROVE  <<s, p, Nil>> \in Ref!Follows(gram, states)
<1> DEFINE F == Ref!Follows(gram, states)
           M == Marked(gram, states)
           Whole(z) == \A e \in Has(z) : <<z, e, Nil>> \in F
           I == {n \in Nat : \A z \in StateIds : z # 1 /\ z <= n => Whole(z)}
<1>1. gram \in Grammars /\ Len(states) \in Nat /\ Len(states) >= 2
  BY StateFacts DEF Built
<1>2. /\ <<0, <<0, 0>>, Nil>> \in F
      /\ \A f \in F : \A e \in M : HandedOn(gram, states, f, e) => e \in F
  BY <1>1, FollowsFacts
<1>3. ASSUME NEW z \in StateIds, NEW e \in Points(gram) PROVE <<z, e, Nil>> \in M
  BY DEF Marked, StateIds
<1> HIDE DEF F, M
<1>4. ASSUME NEW z \in StateIds, \A e \in Kernel(z) : <<z, e, Nil>> \in F PROVE Whole(z)
  <2> DEFINE D == {e \in Has(z) : <<z, e, Nil>> \in F}
  <2>1. Kernel(z) \subseteq D
    BY <1>4, StateFacts
  <2>2. ASSUME NEW e \in D, NEW r \in RuleIds(gram), ~ AtEnd(gram, e), Lhs(gram, r) = AfterDot(gram, e)
        PROVE  <<r, 0>> \in D
    <3>1. <<r, 0>> \in Has(z) /\ <<r, 0>> \in Points(gram)
      BY <2>2, StateFacts
    <3>2. HandedOn(gram, states, <<z, e, Nil>>, <<z, <<r, 0>>, Nil>>)
      <4>1. <<z, e, Nil>>[1] = z /\ <<z, e, Nil>>[2] = e
        OBVIOUS
      <4> QED BY <4>1, <2>2 DEF HandedOn
    <3>3. <<z, <<r, 0>>, Nil>> \in M
      BY <3>1, <1>3
    <3> QED BY <3>1, <3>2, <3>3, <1>2
  <2> HIDE DEF D
  <2>3. Has(z) \subseteq D
    BY <2>1, <2>2, StateFacts
  <2> QED BY <2>3 DEF D
<1>5. Whole(0)
  <2>1. 0 \in StateIds /\ Kernel(0) = {<<0, 0>>}
    BY StateFacts
  <2> QED BY <2>1, <1>2, <1>4
<1>6. 0 \in I
  <2>1. \A z \in StateIds : z <= 0 => z = 0
    BY DEF StateIds
  <2> HIDE DEF Whole
  <2> QED BY <2>1, <1>5
<1>7. ASSUME NEW n \in Nat, n \in I PROVE n + 1 \in I
  <2> SUFFICES ASSUME NEW z \in StateIds, z # 1, z <= n + 1, z # 0 PROVE Whole(z)
    BY <1>5
  <2>1. z \in 2..(Len(states) - 1) /\ z \in Nat
    BY <1>1 DEF StateIds
  <2>2. PICK y \in 0..(z - 1) : Occurs(z, Go(y))
    BY <2>1 DEF Built, IsAutomaton, Go
  <2>3. y \in StateIds /\ y <= n
    BY <2>1, <1>1 DEF StateIds
  <2>4. PICK k \in 1..Len(Go(y)) : Go(y)[k] = z
    BY <2>2 DEF Occurs
  <2>5. y # 1
    <3>1. Kernel(z) # {}
      BY <2>3, <2>4, GoFacts
    <3>2. PICK e \in Kernel(z) : TRUE
      BY <3>1
    <3>3. Back(e) \in Has(y) /\ ~ AtEnd(gram, Back(e))
      BY <2>3, <2>4, <3>2, EnteredFacts
    <3>4. AtEnd(gram, <<0, 2>>)
      <4>1. Length(gram, 0) = 2 /\ <<0, 2>>[1] = 0 /\ <<0, 2>>[2] = 2
        BY <1>1, GramFacts
      <4> QED BY <4>1 DEF AtEnd
    <3>5. Has(1) = {<<0, 2>>}
      BY <2>3, StateFacts
    <3> QED BY <3>3, <3>4, <3>5
  <2>6. Whole(y)
    <3> HIDE DEF Whole
    <3> QED BY <2>3, <2>5, <1>7
  <2>7. ASSUME NEW e \in Kernel(z) PROVE <<z, e, Nil>> \in F
    <3> DEFINE b == Back(e)
    <3>1. /\ e \in Points(gram) /\ b \in Has(y) /\ ~ AtEnd(gram, b) /\ AfterDot(gram, b) = Sym(z)
          /\ Over(b) = e
      BY <2>3, <2>4, EnteredFacts
    <3>2. Goto(states, y, Sym(z)) = z
      BY <2>3, <2>4, GoFacts
    <3>3. <<y, b, Nil>> \in F
      BY <3>1, <2>6
    <3> HIDE DEF b
    <3>4. HandedOn(gram, states, <<y, b, Nil>>, <<z, e, Nil>>)
      <4>1. <<y, b, Nil>>[1] = y /\ <<y, b, Nil>>[2] = b /\ <<y, b, Nil>>[3] = Nil
        OBVIOUS
      <4> QED BY <4>1, <3>1, <3>2 DEF HandedOn, Over
    <3> QED BY <3>1, <3>3, <3>4, <1>2, <1>3
  <2> HIDE DEF Whole
  <2> QED BY <2>7, <1>4
<1>8. Nat \subseteq I
  <2> HIDE DEF I
  <2> QED BY <1>6, <1>7, SetInduction
<1>9. s \in Nat /\ s <= s
  BY <1>1 DEF StateIds
<1>10. Whole(s)
  <2> HIDE DEF Whole
  <2> QED BY <1>8, <1>9
<1> QED BY <1>10 DEF F

\* A transition over a nonterminal: the states it is from and to.
Transition(z) ==
  /\ z[1] \in StateIds /\ z[2] \in StateIds /\ z = <<z[1], z[2]>>
  /\ \E k \in 1..Len(Go(z[1])) : Go(z[1])[k] = z[2]
  /\ Sym(z[2]) \in gram.nonterms

\* It starts from a state that has its symbol's rules, and is found again by its symbol.
LEMMA TransitionFacts ==
  ASSUME Built, NEW z, Transition(z)
  PROVE  /\ z[1] # 1 /\ z[2] # 0 /\ z[2] # 1
         /\ \E p \in Kernel(z[2]) : TRUE
         /\ Goto(states, z[1], Sym(z[2])) = z[2]
         /\ \A p \in Kernel(z[2]) :
              /\ p \in Points(gram) /\ p[2] >= 1 /\ Back(p) \in Has(z[1]) /\ ~ AtEnd(gram, Back(p))
              /\ AfterDot(gram, Back(p)) = Sym(z[2]) /\ Over(Back(p)) = p
         /\ \A r \in RuleIds(gram) : Lhs(gram, r) = Sym(z[2]) => r # 0 /\ <<r, 0>> \in Has(z[1])
<1>1. PICK k \in 1..Len(Go(z[1])) : Go(z[1])[k] = z[2]
  BY DEF Transition
<1>2. z[1] \in StateIds /\ z[2] \in StateIds /\ Sym(z[2]) \in gram.nonterms /\ gram \in Grammars
  BY DEF Transition, Built
<1>3. Kernel(z[2]) # {} /\ Goto(states, z[1], Sym(z[2])) = z[2]
  BY <1>1, <1>2, GoFacts
<1>4. ASSUME NEW p \in Kernel(z[2])
      PROVE  /\ p \in Points(gram) /\ p[2] >= 1 /\ Back(p) \in Has(z[1]) /\ ~ AtEnd(gram, Back(p))
             /\ AfterDot(gram, Back(p)) = Sym(z[2]) /\ Over(Back(p)) = p
             /\ Rhs(gram, p[1])[p[2]] = Sym(z[2])
  BY <1>1, <1>2, EnteredFacts
<1>5. PICK p \in Kernel(z[2]) : TRUE
  BY <1>3
<1>6. ASSUME NEW r \in RuleIds(gram), Lhs(gram, r) = Sym(z[2]) PROVE r # 0 /\ <<r, 0>> \in Has(z[1])
  <2>1. r # 0
    <3>1. \A x \in RuleIds(gram) : Lhs(gram, x) \in gram.nonterms <=> x # 0
      BY <1>2, GramFacts
    <3> QED BY <3>1, <1>2, <1>6
  <2>2. Back(p) \in Has(z[1]) /\ ~ AtEnd(gram, Back(p)) /\ AfterDot(gram, Back(p)) = Sym(z[2])
    BY <1>4, <1>5
  <2> QED BY <2>1, <2>2, <1>2, <1>6, StateFacts
<1>7. /\ Length(gram, 0) = 2 /\ <<0, 2>>[1] = 0 /\ <<0, 2>>[2] = 2 /\ <<0, 0>>[2] = 0
      /\ Rhs(gram, 0)[2] = Eof /\ Eof \notin gram.nonterms
  <2>1. /\ Length(gram, 0) = 2 /\ 0 \in RuleIds(gram) /\ Eof \notin gram.nonterms
        /\ \A x \in RuleIds(gram) : \A n \in 1..Length(gram, x) :
             Rhs(gram, x)[n] = Eof <=> x = 0 /\ n = 2
    BY <1>2, GramFacts
  <2>2. 2 \in 1..Length(gram, 0)
    BY <2>1
  <2> QED BY <2>1, <2>2
<1>8. z[1] # 1
  <2>1. AtEnd(gram, <<0, 2>>)
    BY <1>7 DEF AtEnd
  <2>2. Has(1) = {<<0, 2>>}
    BY <1>2, StateFacts
  <2> QED BY <2>1, <2>2, <1>4, <1>5
<1>9. z[2] # 0
  <2>1. Kernel(0) = {<<0, 0>>} /\ ~ (0 >= 1)
    BY <1>2, StateFacts
  <2> QED BY <2>1, <1>4, <1>5, <1>7
<1>10. z[2] # 1
  <2>1. Kernel(1) = {<<0, 2>>}
    BY <1>2, StateFacts
  <2> QED BY <2>1, <1>2, <1>4, <1>5, <1>7
<1> QED BY <1>3, <1>4, <1>5, <1>6, <1>8, <1>9, <1>10

(***************************************************************************)
(* The walk along the right side of a rule that a state has leads through  *)
(* states that have the rule with the dot moved on.                        *)
(***************************************************************************)
LEMMA PathFacts ==
  ASSUME Built, NEW s \in StateIds, NEW r \in RuleIds(gram), r # 0, <<r, 0>> \in Has(s)
  PROVE  LET P == R!Path(s, r) IN
         /\ P[0] = s
         /\ \A n \in 0..Length(gram, r) : P[n] \in StateIds /\ <<r, n>> \in Has(P[n])
         /\ \A n \in 1..Length(gram, r) :
              /\ P[n] = Goto(states, P[n - 1], Rhs(gram, r)[n]) /\ Sym(P[n]) = Rhs(gram, r)[n]
              /\ \E k \in 1..Len(Go(P[n - 1])) : P[n] = Go(P[n - 1])[k]
              /\ P[n] # 1
<1> DEFINE m == Length(gram, r)
           T == StateIds
           To(n, x) == Goto(states, x, Rhs(gram, r)[n])
           F == [n \in 1..m |-> [x \in T |-> IF To(n, x) \in T THEN To(n, x) ELSE x]]
           Def(h) == h = [n \in 0..m |-> IF n = 0 THEN s ELSE To(n, h[n - 1])]
           P == CHOOSE h : Def(h)
<1>1. m \in Nat
  BY GramFacts DEF Built
<1>2. R!Path(s, r) = P
  BY DEF R!Path, R!Length, R!Rhs, R!Goto, R!Targets, Length, Rhs, Goto, Targets
<1>3. ASSUME NEW n \in 0..(m - 1), NEW x \in T, <<r, n>> \in Has(x)
      PROVE  /\ To(n + 1, x) \in T /\ <<r, n + 1>> \in Has(To(n + 1, x))
             /\ Sym(To(n + 1, x)) = Rhs(gram, r)[n + 1] /\ To(n + 1, x) # 1
             /\ \E k \in 1..Len(Go(x)) : To(n + 1, x) = Go(x)[k]
  <2>1. <<r, n>>[1] = r /\ <<r, n>>[2] = n
    OBVIOUS
  <2>2. ~ AtEnd(gram, <<r, n>>) /\ AfterDot(gram, <<r, n>>) = Rhs(gram, r)[n + 1] /\ Over(<<r, n>>) = <<r, n + 1>>
    BY <1>1, <2>1 DEF AtEnd, AfterDot, Over
  <2> DEFINE t == To(n + 1, x)
  <2>3. /\ t \in T /\ Sym(t) = Rhs(gram, r)[n + 1] /\ <<r, n + 1>> \in Has(t)
        /\ \E k \in 1..Len(Go(x)) : t = Go(x)[k]
    BY <1>3, <2>2, GotoFacts
  <2>4. t # 1
    <3>1. Has(1) = {<<0, 2>>}
      BY StateFacts
    <3> QED BY <3>1, <2>3
  <2> QED BY <2>3, <2>4
<1> HIDE DEF m, To
<1>4. PICK h : IsRun(h, T, s, m, F)
  <2>1. F \in [1..m -> [T -> T]]
    OBVIOUS
  <2> HIDE DEF F, T
  <2> QED BY <1>1, <2>1, StepsExist DEF T
<1>5. h \in [0..m -> T] /\ h[0] = s /\ \A n \in 1..m : h[n] = F[n][h[n - 1]]
  <2> HIDE DEF F, T
  <2> QED BY <1>4 DEF IsRun
<1> DEFINE Good(g) == /\ \A n \in 0..m : g[n] \in T /\ <<r, n>> \in Has(g[n])
                      /\ \A n \in 1..m : g[n] = To(n, g[n - 1])
           I == {n \in Nat : n <= m => <<r, n>> \in Has(h[n])}
<1>6. ASSUME NEW n \in 1..m, <<r, n - 1>> \in Has(h[n - 1])
      PROVE  h[n] = To(n, h[n - 1]) /\ <<r, n>> \in Has(h[n])
  <2>1. n - 1 \in 0..(m - 1) /\ n - 1 \in 0..m /\ (n - 1) + 1 = n
    BY <1>1
  <2>2. h[n - 1] \in T
    BY <2>1, <1>5
  <2>3. To(n, h[n - 1]) \in T /\ <<r, n>> \in Has(To(n, h[n - 1]))
    BY <2>1, <2>2, <1>3, <1>6
  <2>4. F[n][h[n - 1]] = To(n, h[n - 1])
    BY <2>2, <2>3
  <2> HIDE DEF F
  <2> QED BY <2>3, <2>4, <1>5
<1>7. 0 \in I
  BY <1>5
<1>8. ASSUME NEW n \in Nat, n \in I PROVE n + 1 \in I
  <2> SUFFICES ASSUME n + 1 <= m PROVE <<r, n + 1>> \in Has(h[n + 1])
    OBVIOUS
  <2>1. n + 1 \in 1..m /\ (n + 1) - 1 = n /\ <<r, n>> \in Has(h[n])
    BY <1>1, <1>8
  <2> QED BY <2>1, <1>6
<1>9. Nat \subseteq I
  <2> HIDE DEF I
  <2> QED BY <1>7, <1>8, SetInduction
<1>10. \A n \in 0..m : h[n] \in T /\ <<r, n>> \in Has(h[n])
  BY <1>5, <1>9
<1>11. \A n \in 1..m : h[n] = To(n, h[n - 1])
  <2> SUFFICES ASSUME NEW n \in 1..m PROVE h[n] = To(n, h[n - 1])
    OBVIOUS
  <2>1. n - 1 \in 0..m
    BY <1>1
  <2> QED BY <2>1, <1>6, <1>10
<1> HIDE DEF F, T
<1>12. Def(h)
  <2>1. ASSUME NEW n \in 0..m PROVE h[n] = IF n = 0 THEN s ELSE To(n, h[n - 1])
    <3>1. n = 0 \/ n \in 1..m
      BY <1>1
    <3> QED BY <3>1, <1>5, <1>11
  <2> QED BY <2>1, <1>5
<1>13. Def(P)
  <2> HIDE DEF Def
  <2> QED BY <1>12
<1> HIDE DEF P
<1>14. P[0] = s /\ \A n \in 1..m : P[n] = To(n, P[n - 1])
  <2>1. 0 \in 0..m /\ \A n \in 1..m : n \in 0..m /\ n # 0
    BY <1>1
  <2> QED BY <2>1, <1>13
<1> HIDE DEF Def
<1> DEFINE J == {n \in Nat : n <= m => P[n] = h[n]}
<1>15. \A n \in 0..m : P[n] = h[n]
  <2>1. 0 \in J
    BY <1>5, <1>14
  <2>2. ASSUME NEW n \in Nat, n \in J PROVE n + 1 \in J
    <3> SUFFICES ASSUME n + 1 <= m PROVE P[n + 1] = h[n + 1]
      OBVIOUS
    <3>1. n + 1 \in 1..m /\ (n + 1) - 1 = n /\ P[n] = h[n]
      BY <1>1, <2>2
    <3> QED BY <3>1, <1>11, <1>14
  <2>3. Nat \subseteq J
    <3> HIDE DEF J
    <3> QED BY <2>1, <2>2, SetInduction
  <2> QED BY <2>3
<1>16. ASSUME NEW n \in 1..m
       PROVE  /\ Sym(P[n]) = Rhs(gram, r)[n] /\ P[n] # 1
              /\ \E k \in 1..Len(Go(P[n - 1])) : P[n] = Go(P[n - 1])[k]
  <2>1. n - 1 \in 0..(m - 1) /\ n - 1 \in 0..m /\ (n - 1) + 1 = n
    BY <1>1
  <2>2. P[n - 1] \in T /\ <<r, n - 1>> \in Has(P[n - 1]) /\ P[n] = To(n, P[n - 1])
    BY <2>1, <1>10, <1>14, <1>15
  <2>3. /\ Sym(To((n - 1) + 1, P[n - 1])) = Rhs(gram, r)[(n - 1) + 1]
        /\ To((n - 1) + 1, P[n - 1]) # 1
        /\ \E k \in 1..Len(Go(P[n - 1])) : To((n - 1) + 1, P[n - 1]) = Go(P[n - 1])[k]
    BY <2>1, <2>2, <1>3
  <2> QED BY <2>1, <2>2, <2>3
<1> QED BY <1>2, <1>10, <1>14, <1>15, <1>16 DEF T, To, m

\* And what may follow the rule is handed on along it.
LEMMA PathFollows ==
  ASSUME Built, NEW s \in StateIds, NEW r \in RuleIds(gram), r # 0, <<r, 0>> \in Has(s),
         NEW a \in gram.terms, <<s, <<r, 0>>, a>> \in Ref!Follows(gram, states)
  PROVE  \A n \in 0..Length(gram, r) : <<R!Path(s, r)[n], <<r, n>>, a>> \in Ref!Follows(gram, states)
<1> DEFINE m == Length(gram, r)
           P == R!Path(s, r)
           F == Ref!Follows(gram, states)
           M == Marked(gram, states)
           I == {n \in Nat : n <= m => <<P[n], <<r, n>>, a>> \in F}
<1>1. m \in Nat /\ gram \in Grammars
  BY GramFacts DEF Built
<1>2. /\ P[0] = s
      /\ \A n \in 0..m : P[n] \in StateIds /\ <<r, n>> \in Has(P[n])
      /\ \A n \in 1..m : P[n] = Goto(states, P[n - 1], Rhs(gram, r)[n])
  BY PathFacts
<1> HIDE DEF P
<1>3. \A f \in F : \A e \in M : HandedOn(gram, states, f, e) => e \in F
  <2>1. Len(states) \in Nat /\ Len(states) >= 1
    BY StateFacts
  <2> QED BY <2>1, <1>1, FollowsFacts
<1> HIDE DEF F
<1>4. 0 \in I
  BY <1>2 DEF F
<1>5. ASSUME NEW n \in Nat, n \in I PROVE n + 1 \in I
  <2> SUFFICES ASSUME n + 1 <= m PROVE <<P[n + 1], <<r, n + 1>>, a>> \in F
    OBVIOUS
  <2>1. /\ n + 1 \in 1..m /\ (n + 1) - 1 = n /\ n \in 0..m /\ n + 1 \in 0..m
        /\ <<P[n], <<r, n>>, a>> \in F
    BY <1>1, <1>5
  <2>2. P[n + 1] = Goto(states, P[n], Rhs(gram, r)[n + 1]) /\ P[n + 1] \in StateIds
    BY <2>1, <1>2
  <2>3. <<P[n + 1], <<r, n + 1>>, a>> \in M
    <3>1. <<r, n + 1>> \in Points(gram)
      <4>1. <<r, n + 1>>[1] = r /\ <<r, n + 1>>[2] = n + 1
        OBVIOUS
      <4> QED BY <4>1, <2>1 DEF Points
    <3> QED BY <3>1, <2>2 DEF Marked, StateIds
  <2>4. HandedOn(gram, states, <<P[n], <<r, n>>, a>>, <<P[n + 1], <<r, n + 1>>, a>>)
    <3> DEFINE f == <<P[n], <<r, n>>, a>>
    <3>1. f[1] = P[n] /\ f[2] = <<r, n>> /\ f[3] = a /\ <<r, n>>[1] = r /\ <<r, n>>[2] = n
      OBVIOUS
    <3> HIDE DEF f
    <3>2. ~ AtEnd(gram, <<r, n>>) /\ AfterDot(gram, <<r, n>>) = Rhs(gram, r)[n + 1]
      BY <3>1, <2>1, <1>1 DEF AtEnd, AfterDot
    <3> QED BY <3>1, <3>2, <2>2 DEF HandedOn, f
  <2> QED BY <2>1, <2>3, <2>4, <1>3
<1>6. Nat \subseteq I
  <2> HIDE DEF I
  <2> QED BY <1>4, <1>5, SetInduction
<1> QED BY <1>6 DEF P, F

-----------------------------------------------------------------------------
(* What the lookaheads are made of.                                        *)

\* What nullable_find leaves: every flag, and every nnl, is justified.
EmptinessFound ==
  /\ nullable \subseteq Ref!Empty(gram) /\ nullable \subseteq gram.nonterms
  /\ \A r \in RuleIds(gram) \ {0} :
       /\ nnl[r] \in Nat
       /\ \A n \in (nnl[r] + 1)..Length(gram, r) : Rhs(gram, r)[n] \in Ref!Empty(gram)

\* What the search for lookaheads starts from.
Given == Built /\ EmptinessFound

\* What an item begins with, the kernel of its state begins with as well.
LEMMA KernelStarts ==
  ASSUME Built, NEW t \in StateIds, NEW p \in Has(t), NEW a, Starts(gram, p, a)
  PROVE  \E k \in Kernel(t) : Starts(gram, k, a)
<1> DEFINE D == {e \in Has(t) : Starts(gram, e, a) => \E k \in Kernel(t) : Starts(gram, k, a)}
<1>1. Kernel(t) \subseteq D
  BY StateFacts
<1>2. ASSUME NEW e \in D, NEW r \in RuleIds(gram), ~ AtEnd(gram, e), Lhs(gram, r) = AfterDot(gram, e)
      PROVE  <<r, 0>> \in D
  <2>1. <<r, 0>> \in Has(t)
    BY <1>2, StateFacts
  <2> SUFFICES ASSUME Starts(gram, <<r, 0>>, a) PROVE Starts(gram, e, a)
    BY <2>1
  <2>2. <<Lhs(gram, r), a>> \in Ref!FirstPairs(gram)
    BY FirstFacts DEF Built
  <2>3. e \in Points(gram) /\ gram \in Grammars
    BY StateFacts DEF Built
  <2>4. e[1] \in RuleIds(gram) /\ e[2] \in Nat /\ Length(gram, e[1]) \in Nat
    BY <2>3, GramFacts DEF Points
  <2> DEFINE n == e[2] + 1
  <2>5. /\ n \in (e[2] + 1)..Length(gram, e[1]) /\ Rhs(gram, e[1])[n] = Lhs(gram, r)
        /\ \A k \in (e[2] + 1)..(n - 1) : FALSE
    BY <1>2, <2>4 DEF AtEnd, AfterDot
  <2> HIDE DEF n, D
  <2> QED BY <2>2, <2>5 DEF Starts
<1>3. Has(t) \subseteq D
  <2> HIDE DEF D
  <2> QED BY <1>1, <1>2, StateFacts
<1> QED BY <1>3

\* Terminal a can be read from state t on.
Readable(t, a) == a \in gram.terms /\ \E k \in Kernel(t) : Starts(gram, k, a)

\* A state reads the terminals that it has transitions over ...
LEMMA DirectlyReadable ==
  ASSUME Built, NEW t \in StateIds, NEW k \in 1..Len(Go(t)), Sym(Go(t)[k]) \in gram.terms
  PROVE  Readable(t, Sym(Go(t)[k]))
<1> DEFINE a == Sym(Go(t)[k])
<1>1. Kernel(Go(t)[k]) # {}
  BY GoFacts
<1>2. PICK p \in Kernel(Go(t)[k]) : TRUE
  BY <1>1
<1> DEFINE b == Back(p)
<1>3. b \in Has(t) /\ ~ AtEnd(gram, b) /\ AfterDot(gram, b) = a
  BY EnteredFacts
<1>4. <<a, a>> \in Ref!FirstPairs(gram)
  BY FirstFacts DEF Built
<1> HIDE DEF a, b
<1>5. Starts(gram, b, a)
  <2>1. b \in Points(gram) /\ gram \in Grammars
    BY <1>3, StateFacts DEF Built
  <2>2. b[1] \in RuleIds(gram) /\ b[2] \in Nat /\ Length(gram, b[1]) \in Nat
    BY <2>1, GramFacts DEF Points
  <2> DEFINE n == b[2] + 1
  <2>3. /\ n \in (b[2] + 1)..Length(gram, b[1]) /\ Rhs(gram, b[1])[n] = a
        /\ \A l \in (b[2] + 1)..(n - 1) : FALSE
    BY <1>3, <2>2 DEF AtEnd, AfterDot
  <2> HIDE DEF n
  <2> QED BY <1>4, <2>3 DEF Starts
<1>6. \E e \in Kernel(t) : Starts(gram, e, a)
  BY <1>3, <1>5, KernelStarts
<1> QED BY <1>6 DEF Readable, a

\* ... and whatever is read behind a transition over a nonterminal that may be empty.
LEMMA ReadableBehind ==
  ASSUME Given, NEW t \in StateIds, NEW k \in 1..Len(Go(t)), Sym(Go(t)[k]) \in nullable,
         NEW a, Readable(Go(t)[k], a)
  PROVE  Readable(t, a)
<1> DEFINE u == Go(t)[k]
<1>1. PICK p \in Kernel(u) : Starts(gram, p, a)
  BY DEF Readable
<1> DEFINE b == Back(p)
<1>2. /\ p \in Points(gram) /\ p[2] >= 1 /\ b \in Has(t) /\ AfterDot(gram, b) = Sym(u)
      /\ Rhs(gram, p[1])[p[2]] = Sym(u)
  BY EnteredFacts DEF Given
<1>3. b[1] = p[1] /\ b[2] = p[2] - 1 /\ p[2] \in Nat
  BY <1>2 DEF Back, Points
<1>4. Sym(u) \in Ref!Empty(gram)
  BY DEF Given, EmptinessFound
<1> HIDE DEF u, b
<1>5. PICK n \in (p[2] + 1)..Length(gram, p[1]) :
        /\ \A l \in (p[2] + 1)..(n - 1) : Rhs(gram, p[1])[l] \in Ref!Empty(gram)
        /\ <<Rhs(gram, p[1])[n], a>> \in Ref!FirstPairs(gram)
  BY <1>1 DEF Starts
<1>6. n \in (b[2] + 1)..Length(gram, b[1])
  BY <1>2, <1>3, <1>5
<1>7. \A l \in (b[2] + 1)..(n - 1) : Rhs(gram, b[1])[l] \in Ref!Empty(gram)
  <2> SUFFICES ASSUME NEW l \in (b[2] + 1)..(n - 1) PROVE Rhs(gram, b[1])[l] \in Ref!Empty(gram)
    OBVIOUS
  <2>1. l = p[2] \/ l \in (p[2] + 1)..(n - 1)
    BY <1>2, <1>3
  <2> QED BY <2>1, <1>2, <1>3, <1>4, <1>5
<1>8. Starts(gram, b, a)
  BY <1>3, <1>5, <1>6, <1>7 DEF Starts
<1>9. \E e \in Kernel(t) : Starts(gram, e, a)
  BY <1>2, <1>8, KernelStarts DEF Given
<1> QED BY <1>9 DEF Readable

\* Terminal a may follow the nonterminal of transition z where the transition is made.
Followed(z, a) ==
  /\ a \in gram.terms
  /\ \A r \in RuleIds(gram) :
       Lhs(gram, r) = Sym(z[2]) => <<z[1], <<r, 0>>, a>> \in Ref!Follows(gram, states)

\* What is read behind a transition follows it ...
LEMMA ReadableFollows ==
  ASSUME Built, NEW z, Transition(z), NEW a, Readable(z[2], a)
  PROVE  Followed(z, a)
<1> DEFINE M == Marked(gram, states)
           F == Ref!Follows(gram, states)
<1>1. PICK p \in Kernel(z[2]) : Starts(gram, p, a)
  BY DEF Readable
<1> DEFINE b == Back(p)
<1>2. /\ z[1] \in StateIds /\ z[1] # 1 /\ b \in Has(z[1]) /\ ~ AtEnd(gram, b)
      /\ AfterDot(gram, b) = Sym(z[2]) /\ Over(b) = p
  BY TransitionFacts DEF Transition
<1>3. <<z[1], b, Nil>> \in F
  BY <1>2, ItemsFollow
<1>4. \A f \in F : \A e \in M : HandedOn(gram, states, f, e) => e \in F
  <2>1. Len(states) \in Nat /\ Len(states) >= 1 /\ gram \in Grammars
    BY <1>2, StateFacts DEF Built
  <2> QED BY <2>1, FollowsFacts
<1> HIDE DEF b, M, F
<1>5. ASSUME NEW r \in RuleIds(gram), Lhs(gram, r) = Sym(z[2])
      PROVE  <<z[1], <<r, 0>>, a>> \in F
  <2>1. <<r, 0>> \in Points(gram)
    <3>1. Length(gram, r) \in Nat /\ <<r, 0>>[1] = r /\ <<r, 0>>[2] = 0
      BY GramFacts DEF Built
    <3> QED BY <3>1 DEF Points
  <2>2. <<z[1], <<r, 0>>, a>> \in M
    BY <2>1, <1>2 DEF M, Marked, StateIds, Readable
  <2>3. HandedOn(gram, states, <<z[1], b, Nil>>, <<z[1], <<r, 0>>, a>>)
    <3> DEFINE f == <<z[1], b, Nil>>
    <3>1. f[1] = z[1] /\ f[2] = b /\ f[3] = Nil
      OBVIOUS
    <3>2. <<b[1], b[2] + 1>> = p
      BY <1>2 DEF Over
    <3> HIDE DEF f
    <3> QED BY <3>1, <3>2, <1>1, <1>2, <1>5 DEF HandedOn, f
  <2> QED BY <2>2, <2>3, <1>3, <1>4
<1> QED BY <1>5 DEF Followed, Readable, F

\* ... and so does what follows a transition whose rule's rest, behind it, may be empty.
LEMMA FollowedInside ==
  ASSUME Given, NEW z, Transition(z), NEW r \in RuleIds(gram), Lhs(gram, r) = Sym(z[2]),
         NEW n \in 1..Length(gram, r), n >= nnl[r], Rhs(gram, r)[n] \in gram.nonterms,
         NEW a, Followed(z, a)
  PROVE  Followed(<<R!Path(z[1], r)[n - 1], R!Path(z[1], r)[n]>>, a)
<1> DEFINE P == R!Path(z[1], r)
           M == Marked(gram, states)
           F == Ref!Follows(gram, states)
           w == <<P[n - 1], P[n]>>
<1>1. z[1] \in StateIds /\ r # 0 /\ <<r, 0>> \in Has(z[1]) /\ Built
  BY TransitionFacts DEF Given, Transition
<1>2. a \in gram.terms /\ <<z[1], <<r, 0>>, a>> \in F
  BY DEF Followed
<1>3. /\ \A l \in 0..Length(gram, r) : P[l] \in StateIds /\ <<P[l], <<r, l>>, a>> \in F
      /\ Sym(P[n]) = Rhs(gram, r)[n]
  <2>1. \A l \in 0..Length(gram, r) : P[l] \in StateIds
    BY <1>1, PathFacts
  <2>2. \A l \in 0..Length(gram, r) : <<P[l], <<r, l>>, a>> \in F
    BY <1>1, <1>2, PathFollows
  <2>3. Sym(P[n]) = Rhs(gram, r)[n]
    BY <1>1, PathFacts
  <2> QED BY <2>1, <2>2, <2>3
<1>4. \A f \in F : \A e \in M : HandedOn(gram, states, f, e) => e \in F
  <2>1. Len(states) \in Nat /\ Len(states) >= 1 /\ gram \in Grammars
    BY <1>1, StateFacts DEF Built
  <2> QED BY <2>1, FollowsFacts
<1>5. Length(gram, r) \in Nat /\ n - 1 \in 0..Length(gram, r)
  <2>1. Length(gram, r) \in Nat
    BY <1>1, GramFacts DEF Built
  <2> QED BY <2>1
<1> HIDE DEF P, M, F
<1>6. ASSUME NEW x \in RuleIds(gram), Lhs(gram, x) = Rhs(gram, r)[n]
      PROVE  <<P[n - 1], <<x, 0>>, a>> \in F
  <2>1. <<x, 0>> \in Points(gram)
    <3>1. Length(gram, x) \in Nat /\ <<x, 0>>[1] = x /\ <<x, 0>>[2] = 0
      BY <1>1, GramFacts DEF Built
    <3> QED BY <3>1 DEF Points
  <2>2. <<P[n - 1], <<x, 0>>, a>> \in M
    BY <2>1, <1>2, <1>3, <1>5 DEF M, Marked, StateIds
  <2>3. HandedOn(gram, states, <<P[n - 1], <<r, n - 1>>, a>>, <<P[n - 1], <<x, 0>>, a>>)
    <3> DEFINE p == <<r, n - 1>>
               f == <<P[n - 1], p, a>>
    <3>1. f[1] = P[n - 1] /\ f[2] = p /\ f[3] = a
      OBVIOUS
    <3>2. p[1] = r /\ p[2] = n - 1 /\ (n - 1) + 1 = n /\ p[2] + 2 = n + 1
      BY <1>5
    <3>3. ~ AtEnd(gram, p) /\ AfterDot(gram, p) = Rhs(gram, r)[n]
      BY <3>2, <1>5 DEF AtEnd, AfterDot
    <3>4. \A l \in (p[2] + 2)..Length(gram, p[1]) : Rhs(gram, p[1])[l] \in Ref!Empty(gram)
      <4>1. /\ nnl[r] \in Nat
            /\ \A l \in (nnl[r] + 1)..Length(gram, r) : Rhs(gram, r)[l] \in Ref!Empty(gram)
        BY <1>1 DEF Given, EmptinessFound
      <4>2. \A l \in (n + 1)..Length(gram, r) : l \in (nnl[r] + 1)..Length(gram, r)
        BY <4>1, <1>5
      <4> HIDE DEF p
      <4> QED BY <4>1, <4>2, <3>2
    <3> HIDE DEF f, p
    <3>5. HandedOn(gram, states, f, <<P[n - 1], <<x, 0>>, a>>)
      BY <3>1, <3>3, <3>4, <1>6 DEF HandedOn
    <3> QED BY <3>5 DEF f, p
  <2>4. <<P[n - 1], <<r, n - 1>>, a>> \in F
    BY <1>3, <1>5
  <2> QED BY <2>2, <2>3, <2>4, <1>4
<1>7. w[1] = P[n - 1] /\ w[2] = P[n]
  OBVIOUS
<1> HIDE DEF w
<1>8. Followed(w, a)
  BY <1>2, <1>3, <1>6, <1>7 DEF Followed, F
<1> QED BY <1>8 DEF w, P

\* Where the walk along a rule ends, the rule is reduced on what follows its nonterminal.
LEMMA FollowedAtEnd ==
  ASSUME Built, NEW z, Transition(z), NEW r \in RuleIds(gram), Lhs(gram, r) = Sym(z[2])
  PROVE  LET t == R!Path(z[1], r)[Length(gram, r)]
             e == <<r, Length(gram, r)>>
         IN /\ r # 0 /\ t \in StateIds /\ e \in Has(t)
            /\ \A a : Followed(z, a) => <<t, e, a>> \in Ref!Follows(gram, states)
<1>1. z[1] \in StateIds /\ r # 0 /\ <<r, 0>> \in Has(z[1])
  BY TransitionFacts DEF Transition
<1>2. Length(gram, r) \in 0..Length(gram, r)
  <2>1. Length(gram, r) \in Nat
    BY GramFacts DEF Built
  <2> QED BY <2>1
<1>3. /\ R!Path(z[1], r)[Length(gram, r)] \in StateIds
      /\ <<r, Length(gram, r)>> \in Has(R!Path(z[1], r)[Length(gram, r)])
  BY <1>1, <1>2, PathFacts
<1>4. ASSUME NEW a, Followed(z, a)
      PROVE  <<R!Path(z[1], r)[Length(gram, r)], <<r, Length(gram, r)>>, a>> \in Ref!Follows(gram, states)
  <2>1. a \in gram.terms /\ <<z[1], <<r, 0>>, a>> \in Ref!Follows(gram, states)
    BY <1>4 DEF Followed
  <2> QED BY <2>1, <1>1, <1>2, PathFollows
<1> QED BY <1>1, <1>3, <1>4

-----------------------------------------------------------------------------
(* The lists that the search is made of.                                   *)

\* The elements of a set of numbers in their order: each once.
LEMMA AscendingFacts ==
  ASSUME NEW S \in SUBSET Nat, IsFiniteSet(S)
  PROVE  /\ Cardinality(S) \in Nat
         /\ Ascending(S) \in [1..Cardinality(S) -> S]
         /\ \A k, l \in 1..Cardinality(S) : Ascending(S)[k] = Ascending(S)[l] => k = l
         /\ \A n \in S : \E k \in 1..Cardinality(S) : Ascending(S)[k] = n
<1> DEFINE m == Cardinality(S)
           UpTo(n) == {x \in S : x <= n}
           place == [n \in S |-> Cardinality(UpTo(n))]
<1>1. m \in Nat
  BY FS_CardinalityType
<1>2. ASSUME NEW n \in S PROVE IsFiniteSet(UpTo(n)) /\ Cardinality(UpTo(n)) \in 1..m
  <2>1. UpTo(n) \in SUBSET S /\ n \in UpTo(n)
    OBVIOUS
  <2> HIDE DEF UpTo
  <2>2. IsFiniteSet(UpTo(n)) /\ Cardinality(UpTo(n)) <= m
    BY <2>1, FS_Subset
  <2>3. Cardinality(UpTo(n)) \in Nat /\ Cardinality(UpTo(n)) # 0
    BY <2>1, <2>2, FS_CardinalityType, FS_EmptySet
  <2> QED BY <2>2, <2>3, <1>1
<1>3. ASSUME NEW n \in S, NEW l \in S, n < l PROVE Cardinality(UpTo(n)) # Cardinality(UpTo(l))
  <2>1. UpTo(n) \in SUBSET UpTo(l) /\ l \in UpTo(l) /\ l \notin UpTo(n)
    <3>1. n \in Nat /\ l \in Nat /\ ~ (l <= n) /\ \A x \in S : x <= n => x <= l
      BY <1>3
    <3>2. ASSUME NEW x \in UpTo(n) PROVE x \in UpTo(l)
      BY <3>1
    <3>3. l \in UpTo(l) /\ l \notin UpTo(n)
      BY <3>1
    <3> QED BY <3>2, <3>3
  <2> HIDE DEF UpTo
  <2> QED BY <2>1, <1>2, FS_Subset
<1> HIDE DEF UpTo
<1>4. \A n, l \in S : n < l \/ l < n \/ n = l
  OBVIOUS
<1>5. place \in Injection(S, 1..m)
  <2>1. place \in [S -> 1..m]
    BY <1>2
  <2>2. \A n, l \in S : place[n] = place[l] => n = l
    BY <1>3, <1>4
  <2> QED BY <2>1, <2>2 DEF Injection, IsInjective
<1>6. \A k \in 1..m : \E n \in S : place[n] = k
  <2>1. IsFiniteSet(1..m) /\ Cardinality(1..m) = m
    BY <1>1, FS_Interval
  <2>2. place \in Surjection(S, 1..m)
    BY <2>1, <1>5, FS_Injection
  <2> QED BY <2>2 DEF Surjection
<1> DEFINE Pick(k) == CHOOSE n \in S : Cardinality(UpTo(n)) = k
<1>7. ASSUME NEW k \in 1..m PROVE Pick(k) \in S /\ Cardinality(UpTo(Pick(k))) = k
  BY <1>6
<1>8. Ascending(S) = [k \in 1..m |-> Pick(k)]
  BY DEF Ascending, UpTo
<1> HIDE DEF Pick
<1>9. Ascending(S) \in [1..m -> S]
  BY <1>7, <1>8
<1>10. \A k, l \in 1..m : Ascending(S)[k] = Ascending(S)[l] => k = l
  BY <1>7, <1>8
<1>11. ASSUME NEW n \in S PROVE \E k \in 1..m : Ascending(S)[k] = n
  <2>1. Cardinality(UpTo(n)) \in 1..m
    BY <1>2
  <2>2. Pick(Cardinality(UpTo(n))) = n
    BY <2>1, <1>3, <1>4, <1>7
  <2> QED BY <2>1, <2>2, <1>8
<1> QED BY <1>1, <1>9, <1>10, <1>11

\* The chosen places of a list.
LEMMA ChosenFacts ==
  ASSUME NEW s, NEW n \in Nat, NEW S \in SUBSET (1..n)
  PROVE  /\ Cardinality(S) \in Nat /\ Len(Chosen(s, S)) = Cardinality(S)
         /\ DOMAIN Chosen(s, S) = 1..Cardinality(S)
         /\ \A k \in 1..Cardinality(S) : \E j \in S : Chosen(s, S)[k] = s[j]
         /\ \A j \in S : \E k \in 1..Cardinality(S) : Chosen(s, S)[k] = s[j]
<1>1. IsFiniteSet(S)
  <2>1. IsFiniteSet(1..n)
    BY CountUpTo
  <2> QED BY <2>1, FS_Subset
<1>2. S \in SUBSET Nat
  OBVIOUS
<1>3. /\ Cardinality(S) \in Nat
      /\ Ascending(S) \in [1..Cardinality(S) -> S]
      /\ \A j \in S : \E k \in 1..Cardinality(S) : Ascending(S)[k] = j
  BY <1>1, <1>2, AscendingFacts
<1>4. Chosen(s, S) = [k \in 1..Cardinality(S) |-> s[Ascending(S)[k]]]
  BY DEF Chosen
<1>5. Len(Chosen(s, S)) = Cardinality(S) /\ DOMAIN Chosen(s, S) = 1..Cardinality(S)
  BY <1>3, <1>4
<1>6. \A k \in 1..Cardinality(S) : Chosen(s, S)[k] = s[Ascending(S)[k]] /\ Ascending(S)[k] \in S
  BY <1>3, <1>4
<1>7. \A j \in S : \E k \in 1..Cardinality(S) : Chosen(s, S)[k] = s[j]
  BY <1>3, <1>6
<1> QED BY <1>3, <1>5, <1>6, <1>7

\* Each element of list l is one of the first n of f, or one of list s.
FromEither(l, f, n, s) ==
  \A k \in 1..Len(l) : (\E j \in 1..n : l[k] = f[j]) \/ \E j \in 1..Len(s) : l[k] = s[j]

\* Putting a list of new entries in front of a list.
LEMMA InFront ==
  ASSUME NEW T, NEW s \in Seq(T), NEW n \in Nat, NEW f \in [1..n -> T]
  PROVE  f \o s \in Seq(T) /\ FromEither(f \o s, f, n, s)
<1>1. f \in Seq(T) /\ Len(f) = n /\ Len(s) \in Nat
  BY LenProperties
<1>2. /\ f \o s \in Seq(T) /\ Len(f \o s) = n + Len(s)
      /\ \A k \in 1..(n + Len(s)) : (f \o s)[k] = IF k <= n THEN f[k] ELSE s[k - n]
  BY <1>1, ConcatProperties
<1> DEFINE c == f \o s
<1> HIDE DEF c
<1>3. ASSUME NEW k \in 1..(n + Len(s)), c[k] = IF k <= n THEN f[k] ELSE s[k - n]
      PROVE  (\E l \in 1..n : c[k] = f[l]) \/ \E l \in 1..Len(s) : c[k] = s[l]
  <2>1. CASE k <= n
    BY <1>3, <2>1
  <2>2. CASE ~ (k <= n)
    <3>1. k - n \in 1..Len(s) /\ c[k] = s[k - n]
      BY <1>1, <1>3, <2>2
    <3> QED BY <3>1
  <2> QED BY <2>1, <2>2
<1> QED BY <1>2, <1>3 DEF c, FromEither

\* A list turned round has the same elements.
LEMMA ReverseFacts ==
  ASSUME NEW s, NEW n \in Nat, Len(s) = n
  PROVE  /\ Len(Reverse(s)) = n /\ DOMAIN Reverse(s) = 1..n
         /\ \A k \in 1..n : \E l \in 1..n : Reverse(s)[k] = s[l]
<1>1. Reverse(s) = [k \in 1..n |-> s[(n - k) + 1]]
  BY DEF Reverse
<1>2. \A k \in 1..n : (n - k) + 1 \in 1..n
  OBVIOUS
<1>3. Len(Reverse(s)) = n
  BY <1>1
<1> QED BY <1>1, <1>2, <1>3

\* Sorting a finite set of pairs of numbers lists each pair once.
LEMMA SortedLists ==
  ASSUME NEW T \in SUBSET (Nat \X Nat), NEW k \in SUBSET T, IsFiniteSet(k)
  PROVE  /\ Sorted(k) \in Seq(T) /\ Len(Sorted(k)) \in Nat
         /\ \A p \in k : \E n \in 1..Len(Sorted(k)) : Sorted(k)[n] = p
         /\ \A n \in 1..Len(Sorted(k)) : Sorted(k)[n] \in k
<1>1. LP!Sorted(k) = Sorted(k) /\ LP!Cardinality(k) = Cardinality(k)
  BY DEF LP!Sorted, Sorted, LP!Cardinality, Cardinality, LP!IsFiniteSet, IsFiniteSet, LP!PointBefore, PointBefore
<1>2. LP!IsFiniteSet(k)
  BY AutomatonOperators
<1>3. /\ LP!Cardinality(k) \in Nat
      /\ LP!Sorted(k) \in Seq(T) /\ Len(LP!Sorted(k)) = LP!Cardinality(k)
      /\ k = {LP!Sorted(k)[n] : n \in 1..LP!Cardinality(k)}
      /\ LP!NoRepeats(LP!Sorted(k))
  BY <1>2, BucketsAssumed, AutomatonAssumes, LP!SortedFacts, Zenon
<1> QED BY <1>1, <1>3

\* The elements of a list are finitely many.
LEMMA ElementsFinite ==
  ASSUME NEW T, NEW s \in Seq(T)
  PROVE  IsFiniteSet(ToSet(s)) /\ ToSet(s) \in SUBSET T /\ ToSet(s) = {s[k] : k \in 1..Len(s)}
<1>1. Len(s) \in Nat /\ DOMAIN s = 1..Len(s) /\ \A k \in 1..Len(s) : s[k] \in T
  BY LenProperties, ElementOfSeq
<1>2. ToSet(s) = {s[k] : k \in 1..Len(s)}
  BY <1>1 DEF ToSet
<1>3. IsFiniteSet(1..Len(s))
  BY <1>1, CountUpTo
<1>4. [k \in 1..Len(s) |-> s[k]] \in Surjection(1..Len(s), ToSet(s))
  BY <1>2 DEF Surjection
<1>5. IsFiniteSet(ToSet(s))
  BY <1>3, <1>4, FS_Surjection
<1> QED BY <1>1, <1>2, <1>5

-----------------------------------------------------------------------------
(* The inductive invariant of the search for lookaheads.                   *)

\* The array has all transitions over nonterminals.
AllListed ==
  /\ trans \in Seq(StateIds \X StateIds)
  /\ \A k \in 1..Len(trans) : Transition(trans[k])
  /\ \A z \in StateIds \X StateIds : Transition(z) => \E k \in 1..Len(trans) : trans[k] = z

\* A transition is related to those from which it may take what it reads, or what follows it.
ReadsSound ==
  /\ reads \in Seq(Seq(1..Len(trans))) /\ Len(reads) = Len(trans)
  /\ \A k \in 1..Len(trans) : \A l \in 1..Len(reads[k]) : \A a \in gram.terms :
       Readable(trans[reads[k][l]][2], a) => Readable(trans[k][2], a)

IncludesSound ==
  /\ includes \in Seq(Seq(1..Len(trans))) /\ Len(includes) = Len(trans)
  /\ \A k \in 1..Len(trans) : \A l \in 1..Len(includes[k]) : \A a \in gram.terms :
       Followed(trans[includes[k][l]], a) => Followed(trans[k], a)

\* State s may reduce by rule e[1] on what follows the transition with index e[2].
LooksBack(s, e) ==
  /\ e[1] # 0 /\ <<e[1], Length(gram, e[1])>> \in Has(s)
  /\ \A a \in gram.terms : Followed(trans[e[2]], a) =>
       <<s, <<e[1], Length(gram, e[1])>>, a>> \in Ref!Follows(gram, states)

LookbackSound ==
  /\ lookback \in [StateIds -> Seq(RuleIds(gram) \X (1..Len(trans)))]
  /\ \A s \in StateIds : \A l \in 1..Len(lookback[s]) : LooksBack(s, lookback[s][l])

\* A set has terminals that can be read behind its transition, and at last such that may follow it.
Belongs(z, a) == IF apc \in {"reads", "joinreads"} THEN Readable(z[2], a) ELSE Followed(z, a)

SetsSound ==
  /\ set \in [1..Len(trans) -> SUBSET gram.terms]
  /\ \A k \in 1..Len(trans) : \A a \in set[k] : Belongs(trans[k], a)

\* The calls of traverse are at transitions.
CallsSound == \E T : frames \in Seq([node : 1..Len(trans), d : T, next : Nat \ {0}])

\* A reducetab as the passes behind need it.
TabSound(s, tab) ==
  /\ tab \in Seq(Symbols(gram) \X RuleIds(gram)) /\ NoRepeats(tab)
  /\ \A k, l \in 1..Len(tab) : k < l => SymId(tab[k][1]) <= SymId(tab[l][1])
  /\ \A n \in 1..Len(tab) :
       LET e == <<tab[n][2], Length(gram, tab[n][2])>>
       IN tab[n][2] # 0 /\ e \in Has(s) /\ <<s, e, tab[n][1]>> \in Ref!Follows(gram, states)

TabsSound == DOMAIN rtab = StateIds /\ \A s \in StateIds : TabSound(s, rtab[s])

SearchInv ==
  /\ apc \in {"begin", "reads", "joinreads", "relate", "joinincludes", "reduce", "done"}
  /\ apc = "begin" => R!Begin
  /\ apc # "begin" =>
       /\ itr \in Nat /\ (apc \in {"reads", "relate"} => itr >= 1)
       /\ AllListed /\ ReadsSound /\ IncludesSound /\ LookbackSound
       /\ SetsSound /\ CallsSound /\ TabsSound

\* What the search does not change keeps its meaning.
LEMMA SameMeaning ==
  ASSUME gram' = gram, states' = states
  PROVE  /\ StateIds' = StateIds /\ (Built' <=> Built)
         /\ \A s : Has(s)' = Has(s)
         /\ \A z : Transition(z)' <=> Transition(z)
         /\ \A t, a : Readable(t, a)' <=> Readable(t, a)
         /\ \A z, a : Followed(z, a)' <=> Followed(z, a)
         /\ \A s, tab : TabSound(s, tab)' <=> TabSound(s, tab)
<1>1. StateIds' = StateIds /\ \A s : Has(s)' = Has(s)
  BY DEF StateIds, Has, Kernel
<1>2. Built' <=> Built
  BY DEF Built
<1>3. \A z : Transition(z)' <=> Transition(z)
  BY <1>1 DEF Transition, Sym, Go
<1>4. \A t, a : Readable(t, a)' <=> Readable(t, a)
  BY DEF Readable, Kernel
<1>5. \A z, a : Followed(z, a)' <=> Followed(z, a)
  BY DEF Followed, Sym
<1>6. \A s, tab : TabSound(s, tab)' <=> TabSound(s, tab)
  BY <1>1 DEF TabSound, SymId
<1> QED BY <1>1, <1>2, <1>3, <1>4, <1>5, <1>6

\* The parts of the invariant that a step leaves alone.
LEMMA SameParts ==
  ASSUME gram' = gram, states' = states, trans' = trans
  PROVE  /\ AllListed => AllListed'
         /\ reads' = reads /\ ReadsSound => ReadsSound'
         /\ includes' = includes /\ IncludesSound => IncludesSound'
         /\ \A s, e : LooksBack(s, e)' <=> LooksBack(s, e)
         /\ lookback' = lookback /\ LookbackSound => LookbackSound'
         /\ frames' = frames /\ CallsSound => CallsSound'
         /\ rtab' = rtab /\ TabsSound => TabsSound'
<1>1. AllListed => AllListed'
  BY SameMeaning DEF AllListed
<1>2. reads' = reads /\ ReadsSound => ReadsSound'
  BY SameMeaning DEF ReadsSound
<1>3. includes' = includes /\ IncludesSound => IncludesSound'
  BY SameMeaning DEF IncludesSound
<1>4. \A s, e : LooksBack(s, e)' <=> LooksBack(s, e)
  BY SameMeaning DEF LooksBack
<1>5. lookback' = lookback /\ LookbackSound => LookbackSound'
  BY <1>4, SameMeaning DEF LookbackSound
<1>6. frames' = frames /\ CallsSound => CallsSound'
  BY DEF CallsSound
<1>7. rtab' = rtab /\ TabsSound => TabsSound'
  BY SameMeaning DEF TabsSound
<1> QED BY <1>1, <1>2, <1>3, <1>4, <1>5, <1>6, <1>7

-----------------------------------------------------------------------------
(* The steps of the search.                                                *)

\* What every step starts from.
LEMMA GivenFacts ==
  ASSUME Given
  PROVE  /\ Built /\ gram \in Grammars /\ Len(states) \in Nat /\ Len(states) >= 2
         /\ StateIds \subseteq Nat /\ R!StateIds = StateIds /\ 0 \in StateIds
         /\ \A s \in StateIds : Go(s) \in Seq(StateIds) /\ Len(Go(s)) \in Nat /\ R!State(s).go = Go(s)
         /\ \A s : R!State(s).sym = Sym(s)
<1>1. Built /\ gram \in Grammars
  BY DEF Given, Built
<1>2. Len(states) \in Nat /\ Len(states) >= 2
  BY <1>1 DEF Built, IsAutomaton
<1>3. StateIds \subseteq Nat /\ R!StateIds = StateIds /\ 0 \in StateIds
  BY <1>2 DEF StateIds, R!StateIds
<1>4. \A s \in StateIds : Go(s) \in Seq(StateIds) /\ Len(Go(s)) \in Nat
  BY <1>1, GoFacts
<1> QED BY <1>1, <1>2, <1>3, <1>4 DEF R!State, Go, Sym

\* Every transition is found, and can be looked up.
LEMMA LookedUp ==
  ASSUME AllListed, NEW s \in StateIds, NEW t \in StateIds, Transition(<<s, t>>)
  PROVE  R!Lookup(s, t) \in 1..Len(trans) /\ trans[R!Lookup(s, t)] = <<s, t>>
<1>1. \E k \in 1..Len(trans) : trans[k] = <<s, t>>
  BY DEF AllListed
<1> QED BY <1>1 DEF R!Lookup

LEMMA FindTransitionsKeeps == Given /\ SearchInv /\ R!FindTransitions => SearchInv'
<1> SUFFICES ASSUME Given, SearchInv, R!FindTransitions PROVE SearchInv'
  OBVIOUS
<1> DEFINE S == UNION {{<<s, t>> : t \in R!NonterminalGotos(s)} : s \in R!StateIds}
           n == Len(trans')
<1>1. /\ apc' = "reads" /\ itr' = 1
      /\ gram' = gram /\ states' = states /\ UNCHANGED <<rank, stack, frames, i>>
      /\ trans' = R!Sorted(S)
      /\ set' = [k \in 1..n |-> R!DirectReads(trans'[k][2])]
      /\ reads' = [k \in 1..n |-> << >>] /\ includes' = [k \in 1..n |-> << >>]
      /\ lookback' = [s \in R!StateIds |-> << >>] /\ rtab' = [s \in R!StateIds |-> << >>]
  BY DEF R!FindTransitions, R!inputs
<1>2. frames = << >>
  BY DEF SearchInv, R!Begin, R!FindTransitions
<1>3. \A z : z \in S <=> Transition(z)
  <2>1. \A s \in StateIds : \A t : t \in R!NonterminalGotos(s) <=>
          (\E k \in 1..Len(Go(s)) : Go(s)[k] = t) /\ Sym(t) \in gram.nonterms
    <3> SUFFICES ASSUME NEW s \in StateIds
                 PROVE  R!NonterminalGotos(s) = {t \in {Go(s)[k] : k \in 1..Len(Go(s))} : Sym(t) \in gram.nonterms}
      OBVIOUS
    <3>1. R!ToSet(Go(s)) = {Go(s)[k] : k \in 1..Len(Go(s))}
      BY GivenFacts, LookaheadOperators, ElementsFinite
    <3>2. R!State(s).go = Go(s) /\ \A t : R!State(t).sym = Sym(t)
      BY GivenFacts
    <3> QED BY ONLY <3>1, <3>2 DEF R!NonterminalGotos
  <2>2. \A s \in StateIds : \A k \in 1..Len(Go(s)) : Go(s)[k] \in StateIds
    BY GivenFacts, GoFacts
  <2>3. ASSUME NEW z, z \in S PROVE Transition(z)
    <3>1. PICK s \in StateIds : \E t \in R!NonterminalGotos(s) : z = <<s, t>>
      BY <2>3, GivenFacts
    <3>2. PICK t \in R!NonterminalGotos(s) : z = <<s, t>>
      BY <3>1
    <3>3. z[1] = s /\ z[2] = t
      BY <3>2
    <3> QED BY <2>1, <2>2, <3>2, <3>3 DEF Transition
  <2>4. ASSUME NEW z, Transition(z) PROVE z \in S
    <3>1. z[1] \in R!StateIds /\ z[2] \in R!NonterminalGotos(z[1]) /\ z = <<z[1], z[2]>>
      BY <2>1, <2>4, GivenFacts DEF Transition
    <3> QED BY <3>1
  <2> QED BY <2>3, <2>4
<1>4. S \in SUBSET (StateIds \X StateIds)
  BY <1>3 DEF Transition
<1>5. /\ trans' \in Seq(StateIds \X StateIds) /\ n \in Nat
      /\ \A z \in S : \E k \in 1..n : trans'[k] = z
      /\ \A k \in 1..n : trans'[k] \in S
  <2>1. IsFiniteSet(StateIds)
    BY GivenFacts, FS_Interval DEF StateIds
  <2>2. IsFiniteSet(StateIds \X StateIds)
    BY <2>1, FS_Product
  <2>3. IsFiniteSet(S)
    BY <1>4, <2>2, FS_Subset
  <2>4. StateIds \X StateIds \in SUBSET (Nat \X Nat)
    BY GivenFacts
  <2>5. trans' = Sorted(S)
    BY <1>1, LookaheadOperators
  <2> HIDE DEF S
  <2>6. /\ Sorted(S) \in Seq(StateIds \X StateIds) /\ Len(Sorted(S)) \in Nat
        /\ \A p \in S : \E k \in 1..Len(Sorted(S)) : Sorted(S)[k] = p
        /\ \A k \in 1..Len(Sorted(S)) : Sorted(S)[k] \in S
    <3>1. PICK U : U = StateIds \X StateIds
      OBVIOUS
    <3>2. U \in SUBSET (Nat \X Nat) /\ S \in SUBSET U
      BY ONLY <1>4, <2>4, <3>1
    <3>3. /\ Sorted(S) \in Seq(U) /\ Len(Sorted(S)) \in Nat
          /\ \A p \in S : \E k \in 1..Len(Sorted(S)) : Sorted(S)[k] = p
          /\ \A k \in 1..Len(Sorted(S)) : Sorted(S)[k] \in S
      BY ONLY <2>3, <3>2, SortedLists
    <3> QED BY ONLY <3>1, <3>3
  <2>7. PICK T : T = trans'
    OBVIOUS
  <2>8. n = Len(T)
    BY <2>7 DEF n
  <2>9. /\ T \in Seq(StateIds \X StateIds) /\ Len(T) \in Nat
        /\ \A p \in S : \E k \in 1..Len(T) : T[k] = p
        /\ \A k \in 1..Len(T) : T[k] \in S
    BY ONLY <2>5, <2>6, <2>7
  <2> HIDE DEF n
  <2> QED BY ONLY <2>7, <2>8, <2>9
<1> HIDE DEF S
<1>6. AllListed'
  BY <1>1, <1>3, <1>5, SameMeaning DEF AllListed
<1>7. ReadsSound' /\ IncludesSound'
  <2>1. << >> \in Seq(1..n) /\ Len(<< >>) = 0
    OBVIOUS
  <2>2. reads' \in Seq(Seq(1..n)) /\ Len(reads') = n /\ includes' \in Seq(Seq(1..n)) /\ Len(includes') = n
        /\ \A k \in 1..n : reads'[k] = << >> /\ includes'[k] = << >>
    BY <1>1, <1>5, <2>1
  <2>3. ReadsSound'
    BY <2>2 DEF ReadsSound
  <2>4. IncludesSound'
    BY <2>2 DEF IncludesSound
  <2> QED BY <2>3, <2>4
<1>8. LookbackSound' /\ TabsSound'
  <2>1. Len(<< >>) = 0 /\ \A T : << >> \in Seq(T)
    OBVIOUS
  <2>2. lookback' = [s \in StateIds |-> << >>] /\ rtab' = [s \in StateIds |-> << >>] /\ StateIds' = StateIds
    BY <1>1, GivenFacts, SameMeaning
  <2>3. LookbackSound'
    BY <2>1, <2>2 DEF LookbackSound
  <2>4. \A s \in StateIds : TabSound(s, << >>)
    BY <2>1 DEF TabSound, NoRepeats
  <2>5. TabsSound'
    BY <1>1, <2>2, <2>4, SameMeaning DEF TabsSound
  <2> QED BY <2>3, <2>5
<1>9. SetsSound'
  <2>1. ASSUME NEW k \in 1..n
        PROVE  set'[k] \in SUBSET gram.terms /\ \A a \in set'[k] : Readable(trans'[k][2], a)
    <3> DEFINE t == trans'[k][2]
    <3>1. t \in StateIds
      BY <1>5
    <3>2. set'[k] = R!DirectReads(t)
      BY <1>1
    <3> HIDE DEF t
    <3>3. R!ToSet(Go(t)) = {Go(t)[l] : l \in 1..Len(Go(t))}
      BY <3>1, GivenFacts, LookaheadOperators, ElementsFinite
    <3>4. set'[k] = {Sym(u) : u \in {Go(t)[l] : l \in 1..Len(Go(t))}} \cap gram.terms
      BY <3>1, <3>2, <3>3, GivenFacts DEF R!DirectReads
    <3>5. ASSUME NEW a \in set'[k] PROVE Readable(t, a)
      <4>1. PICK l \in 1..Len(Go(t)) : a = Sym(Go(t)[l]) /\ a \in gram.terms
        BY <3>4
      <4> QED BY <3>1, <4>1, GivenFacts, DirectlyReadable
    <3> QED BY <3>4, <3>5 DEF t
  <2>2. DOMAIN set' = 1..n /\ set' = [k \in 1..n |-> set'[k]]
    BY <1>1
  <2> HIDE DEF n
  <2>3. set' \in [1..n -> SUBSET gram.terms]
    BY <2>1, <2>2
  <2>4. \A z, a : Belongs(z, a)' <=> Readable(z[2], a)
    BY <1>1, SameMeaning DEF Belongs
  <2> QED BY <1>1, <2>1, <2>3, <2>4 DEF SetsSound, n
<1>10. CallsSound'
  <2>1. frames' = << >> /\ \A T : << >> \in Seq(T)
    BY <1>1, <1>2
  <2> QED BY <2>1 DEF CallsSound
<1> QED BY <1>1, <1>6, <1>7, <1>8, <1>9, <1>10 DEF SearchInv

\* The sets stay right while what they stand for is the same.
LEMMA SameSets ==
  ASSUME gram' = gram, states' = states, trans' = trans, set' = set,
         apc' \in {"reads", "joinreads"} <=> apc \in {"reads", "joinreads"}, SetsSound
  PROVE  SetsSound'
<1>1. \A z, a : Belongs(z, a)' <=> Belongs(z, a)
  BY SameMeaning DEF Belongs
<1> QED BY <1>1 DEF SetsSound

\* What holds of the lists at any time.
LEMMA ListFacts ==
  ASSUME SearchInv, apc # "begin"
  PROVE  /\ AllListed /\ ReadsSound /\ IncludesSound /\ LookbackSound /\ SetsSound /\ CallsSound /\ TabsSound
         /\ Len(trans) \in Nat /\ DOMAIN trans = 1..Len(trans) /\ itr \in Nat
         /\ DOMAIN reads = 1..Len(trans) /\ DOMAIN includes = 1..Len(trans)
         /\ \A k \in 1..Len(trans) :
              /\ Transition(trans[k]) /\ trans[k] = <<trans[k][1], trans[k][2]>>
              /\ trans[k][1] \in StateIds /\ trans[k][2] \in StateIds
              /\ reads[k] \in Seq(1..Len(trans)) /\ includes[k] \in Seq(1..Len(trans))
<1>1. AllListed /\ ReadsSound /\ IncludesSound /\ LookbackSound /\ SetsSound /\ CallsSound /\ TabsSound /\ itr \in Nat
  BY DEF SearchInv
<1>2. trans \in Seq(StateIds \X StateIds) /\ \A k \in 1..Len(trans) : Transition(trans[k])
  BY <1>1 DEF AllListed
<1>3. Len(trans) \in Nat /\ DOMAIN trans = 1..Len(trans) /\ \A k \in 1..Len(trans) : trans[k] \in StateIds \X StateIds
  BY <1>2, LenProperties, ElementOfSeq
<1>4. /\ reads \in Seq(Seq(1..Len(trans))) /\ Len(reads) = Len(trans)
      /\ includes \in Seq(Seq(1..Len(trans))) /\ Len(includes) = Len(trans)
  BY <1>1 DEF ReadsSound, IncludesSound
<1>5. /\ DOMAIN reads = 1..Len(trans) /\ DOMAIN includes = 1..Len(trans)
      /\ \A k \in 1..Len(trans) : reads[k] \in Seq(1..Len(trans)) /\ includes[k] \in Seq(1..Len(trans))
  BY <1>4, LenProperties, ElementOfSeq
<1> QED BY <1>1, <1>2, <1>3, <1>5

LEMMA FindReadsKeeps == Given /\ SearchInv /\ R!FindReads => SearchInv'
<1> SUFFICES ASSUME Given, SearchInv, R!FindReads PROVE SearchInv'
  OBVIOUS
<1> DEFINE m == Len(trans)
           t == trans[itr][2]
           S == {k \in 1..Len(Go(t)) : Sym(Go(t)[k]) \in nullable}
           us == Chosen(Go(t), S)
           found == Reverse([k \in 1..Len(us) |-> R!Lookup(t, us[k])])
           c == Cardinality(S)
<1>1. /\ apc = "reads" /\ itr <= m /\ itr \in 1..m
      /\ gram' = gram /\ states' = states /\ itr' = itr + 1
      /\ UNCHANGED <<apc, trans, includes, lookback, rtab, set, rank, stack, frames, i>>
  <2>1. apc = "reads" /\ itr <= m
    BY DEF R!FindReads
  <2>2. itr >= 1 /\ itr \in Nat /\ m \in Nat
    BY <2>1, ListFacts DEF SearchInv
  <2>3. itr \in 1..m
    BY <2>1, <2>2
  <2>4. /\ gram' = gram /\ states' = states /\ itr' = itr + 1
        /\ UNCHANGED <<apc, trans, includes, lookback, rtab, set, rank, stack, frames, i>>
    BY DEF R!FindReads, R!inputs, R!dgvars
  <2> QED BY <2>1, <2>3, <2>4
<1>2. m \in Nat /\ t \in StateIds /\ Transition(trans[itr]) /\ reads[itr] \in Seq(1..m) /\ DOMAIN reads = 1..m
  BY <1>1, ListFacts
<1>3. Go(t) \in Seq(StateIds) /\ Len(Go(t)) \in Nat /\ R!State(t).go = Go(t) /\ \A u : R!State(u).sym = Sym(u)
  BY <1>2, GivenFacts
<1>4. reads' = [reads EXCEPT ![itr] = found \o reads[itr]]
  <2>1. R!Chosen(Go(t), S) = Chosen(Go(t), S) /\ \A l : R!Reverse(l) = Reverse(l)
    BY LookaheadOperators
  <2>2. reads' = [reads EXCEPT ![itr] =
          R!Reverse([k \in 1..Len(R!Chosen(Go(t), S)) |-> R!Lookup(t, R!Chosen(Go(t), S)[k])]) \o reads[itr]]
    <3> HIDE DEF us, found, c, m
    <3> QED BY <1>3 DEF R!FindReads
  <2> QED BY <2>1, <2>2
<1>5. /\ c \in Nat /\ Len(us) = c
      /\ \A k \in 1..c : \E j \in S : us[k] = Go(t)[j]
  <2>1. S \in SUBSET (1..Len(Go(t)))
    OBVIOUS
  <2> HIDE DEF S, t
  <2> QED BY <1>3, <2>1, ChosenFacts
<1>6. \A j \in S : Transition(<<t, Go(t)[j]>>) /\ Go(t)[j] \in StateIds
  <2> SUFFICES ASSUME NEW j \in S PROVE Transition(<<t, Go(t)[j]>>) /\ Go(t)[j] \in StateIds
    OBVIOUS
  <2>1. j \in 1..Len(Go(t)) /\ Sym(Go(t)[j]) \in gram.nonterms
    BY DEF Given, EmptinessFound
  <2>2. Go(t)[j] \in StateIds
    BY <1>3, <2>1, ElementOfSeq
  <2> HIDE DEF t, S
  <2>3. <<t, Go(t)[j]>>[1] = t /\ <<t, Go(t)[j]>>[2] = Go(t)[j]
    OBVIOUS
  <2> QED BY <1>2, <2>1, <2>2, <2>3 DEF Transition
<1>7. ASSUME NEW k \in 1..c
      PROVE  /\ R!Lookup(t, us[k]) \in 1..m
             /\ \A a \in gram.terms : Readable(trans[R!Lookup(t, us[k])][2], a) => Readable(t, a)
  <2>1. PICK j \in S : us[k] = Go(t)[j]
    BY <1>5
  <2>2. R!Lookup(t, us[k]) \in 1..m /\ trans[R!Lookup(t, us[k])] = <<t, us[k]>>
    BY <1>1, <1>2, <1>6, <2>1, ListFacts, LookedUp
  <2>3. j \in 1..Len(Go(t)) /\ Sym(Go(t)[j]) \in nullable
    OBVIOUS
  <2> HIDE DEF t, S, us, m
  <2>4. trans[R!Lookup(t, us[k])][2] = Go(t)[j]
    BY <2>1, <2>2
  <2>5. \A a \in gram.terms : Readable(Go(t)[j], a) => Readable(t, a)
    BY <1>2, <2>3, ReadableBehind
  <2> QED BY <2>2, <2>4, <2>5
<1>8. /\ found \in [1..c -> 1..m]
      /\ \A k \in 1..c : \A a \in gram.terms : Readable(trans[found[k]][2], a) => Readable(t, a)
  <2> DEFINE s == [k \in 1..Len(us) |-> R!Lookup(t, us[k])]
  <2>2. found = Reverse(s)
    OBVIOUS
  <2> HIDE DEF us, c, m, found, t
  <2>1. Len(s) = c /\ \A k \in 1..c : s[k] = R!Lookup(t, us[k])
    BY <1>5
  <2> HIDE DEF s
  <2>3. Len(found) = c /\ DOMAIN found = 1..c /\ \A k \in 1..c : \E l \in 1..c : found[k] = s[l]
    <3>1. c \in Nat /\ Len(s) = c
      BY <1>5, <2>1
    <3> QED BY ONLY <2>2, <3>1, ReverseFacts
  <2>4. found = [k \in 1..c |-> found[k]]
    <3>1. Reverse(s) = [k \in 1..Len(s) |-> s[(Len(s) - k) + 1]]
      BY DEF Reverse
    <3> QED BY <2>1, <2>2, <3>1
  <2>5. \A k \in 1..c : found[k] \in 1..m
    BY <1>7, <2>1, <2>3
  <2>6. \A k \in 1..c : \A a \in gram.terms : Readable(trans[found[k]][2], a) => Readable(t, a)
    <3> SUFFICES ASSUME NEW k \in 1..c, NEW a \in gram.terms, Readable(trans[found[k]][2], a)
                 PROVE  Readable(t, a)
      OBVIOUS
    <3>1. PICK l \in 1..c : found[k] = R!Lookup(t, us[l])
      BY <2>1, <2>3
    <3> QED BY <1>7, <3>1
  <2>7. found \in [1..c -> 1..m]
    BY ONLY <2>4, <2>5
  <2> QED BY <2>6, <2>7
<1> HIDE DEF found, c, us, S, m
<1>9. /\ found \o reads[itr] \in Seq(1..m)
      /\ \A l \in 1..Len(found \o reads[itr]) : \A a \in gram.terms :
           Readable(trans[(found \o reads[itr])[l]][2], a) => Readable(t, a)
  <2>1. /\ found \o reads[itr] \in Seq(1..m)
        /\ \A l \in 1..Len(found \o reads[itr]) :
             (\E j \in 1..c : (found \o reads[itr])[l] = found[j])
             \/ \E j \in 1..Len(reads[itr]) : (found \o reads[itr])[l] = reads[itr][j]
    <3>1. reads[itr] \in Seq(1..m) /\ c \in Nat /\ found \in [1..c -> 1..m]
      BY <1>2, <1>5, <1>8
    <3> HIDE DEF t
    <3> DEFINE T == 1..m
               old == reads[itr]
    <3>2. old \in Seq(T) /\ c \in Nat /\ found \in [1..c -> T]
      BY <3>1
    <3> HIDE DEF T, old
    <3>3. /\ found \o old \in Seq(T)
          /\ \A k \in 1..Len(found \o old) : (\E l \in 1..c : (found \o old)[k] = found[l])
                                              \/ \E l \in 1..Len(old) : (found \o old)[k] = old[l]
      <4>1. found \o old \in Seq(T) /\ FromEither(found \o old, found, c, old)
        BY ONLY <3>2, InFront
      <4> QED BY <4>1 DEF FromEither
    <3> QED BY <3>3 DEF T, old
  <2>2. \A j \in 1..Len(reads[itr]) : \A a \in gram.terms :
          Readable(trans[reads[itr][j]][2], a) => Readable(trans[itr][2], a)
    BY <1>1, ListFacts DEF ReadsSound, m
  <2> HIDE DEF t
  <2>3. \A j \in 1..Len(reads[itr]) : \A a \in gram.terms :
          Readable(trans[reads[itr][j]][2], a) => Readable(t, a)
    BY <2>2 DEF t
  <2>4. \A k \in 1..c : \A a \in gram.terms : Readable(trans[found[k]][2], a) => Readable(t, a)
    BY <1>8
  <2>5. ASSUME NEW l \in 1..Len(found \o reads[itr]), NEW a \in gram.terms,
               Readable(trans[(found \o reads[itr])[l]][2], a)
        PROVE  Readable(t, a)
    <3>1. CASE \E j \in 1..c : (found \o reads[itr])[l] = found[j]
      <4>1. PICK j \in 1..c : (found \o reads[itr])[l] = found[j]
        BY <3>1
      <4> QED BY <2>4, <2>5, <4>1
    <3>2. CASE \E j \in 1..Len(reads[itr]) : (found \o reads[itr])[l] = reads[itr][j]
      <4>1. PICK j \in 1..Len(reads[itr]) : (found \o reads[itr])[l] = reads[itr][j]
        BY <3>2
      <4> QED BY <2>3, <2>5, <4>1
    <3> QED BY ONLY <2>1, <2>5, <3>1, <3>2
  <2> QED BY <2>1, <2>5
<1>10. ReadsSound'
  <2>1. reads \in Seq(Seq(1..m)) /\ Len(reads) = m
        /\ \A k \in 1..m : \A l \in 1..Len(reads[k]) : \A a \in gram.terms :
             Readable(trans[reads[k][l]][2], a) => Readable(trans[k][2], a)
    BY <1>1, ListFacts DEF ReadsSound, m
  <2> DEFINE new == found \o reads[itr]
  <2> HIDE DEF new
  <2>2. reads' = [reads EXCEPT ![itr] = new] /\ new \in Seq(1..m)
    BY <1>4, <1>9 DEF new
  <2>3. reads' \in Seq(Seq(1..m)) /\ Len(reads') = m
    BY <1>1, <1>2, <2>1, <2>2, ExceptSeq
  <2>4. \A k \in 1..m : reads'[k] = IF k = itr THEN new ELSE reads[k]
    BY <1>2, <2>2
  <2>5. \A l \in 1..Len(new) : \A a \in gram.terms : Readable(trans[new[l]][2], a) => Readable(trans[itr][2], a)
    BY <1>9 DEF new
  <2>6. \A k \in 1..m : \A l \in 1..Len(reads'[k]) : \A a \in gram.terms :
          Readable(trans[reads'[k][l]][2], a) => Readable(trans[k][2], a)
    BY <2>1, <2>4, <2>5
  <2>7. \A u, a : Readable(u, a)' <=> Readable(u, a)
    BY <1>1, SameMeaning
  <2> QED BY <1>1, <2>3, <2>6, <2>7 DEF ReadsSound, m
<1>11. /\ AllListed' /\ IncludesSound' /\ LookbackSound' /\ CallsSound' /\ TabsSound' /\ SetsSound'
  BY <1>1, ListFacts, SameParts, SameSets
<1>12. apc' = "reads" /\ itr' \in Nat /\ itr' >= 1
  BY <1>1, <1>2
<1> QED BY <1>10, <1>11, <1>12 DEF SearchInv

LEMMA StartReadsKeeps == Given /\ SearchInv /\ R!StartReads => SearchInv'
<1> SUFFICES ASSUME Given, SearchInv, R!StartReads PROVE SearchInv'
  OBVIOUS
<1>1. /\ apc = "reads" /\ apc' = "joinreads" /\ frames' = << >>
      /\ gram' = gram /\ states' = states
      /\ UNCHANGED <<itr, trans, reads, includes, lookback, rtab, set>>
  BY DEF R!StartReads, R!inputs, R!relations
<1>2. /\ AllListed' /\ ReadsSound' /\ IncludesSound' /\ LookbackSound' /\ TabsSound'
  BY <1>1, ListFacts, SameParts
<1>3. SetsSound'
  BY <1>1, ListFacts, SameSets
<1>4. CallsSound'
  <2>1. \A T : << >> \in Seq(T)
    OBVIOUS
  <2> QED BY <1>1, <2>1 DEF CallsSound
<1> QED BY <1>1, <1>2, <1>3, <1>4, ListFacts DEF SearchInv

LEMMA EndReadsKeeps == Given /\ SearchInv /\ R!EndReads => SearchInv'
<1> SUFFICES ASSUME Given, SearchInv, R!EndReads PROVE SearchInv'
  OBVIOUS
<1>1. /\ apc = "joinreads" /\ apc' = "relate" /\ itr' = 1
      /\ gram' = gram /\ states' = states
      /\ UNCHANGED <<trans, reads, includes, lookback, rtab, set, frames>>
  BY DEF R!EndReads, R!inputs, R!relations, R!dgvars
<1>2. /\ AllListed' /\ ReadsSound' /\ IncludesSound' /\ LookbackSound' /\ TabsSound' /\ CallsSound'
  BY <1>1, ListFacts, SameParts
<1>3. SetsSound'
  <2>1. ASSUME NEW k \in 1..Len(trans), NEW a \in set[k] PROVE Followed(trans[k], a)
    <3>1. Readable(trans[k][2], a) /\ Transition(trans[k])
      BY <1>1, ListFacts DEF SetsSound, Belongs
    <3> QED BY <3>1, GivenFacts, ReadableFollows
  <2>2. \A z, a : Belongs(z, a)' <=> Followed(z, a)
    BY <1>1, SameMeaning DEF Belongs
  <2>3. set \in [1..Len(trans) -> SUBSET gram.terms]
    BY <1>1, ListFacts DEF SetsSound
  <2> QED BY <1>1, <2>1, <2>2, <2>3 DEF SetsSound
<1> QED BY <1>1, <1>2, <1>3 DEF SearchInv

LEMMA StartIncludesKeeps == Given /\ SearchInv /\ R!StartIncludes => SearchInv'
<1> SUFFICES ASSUME Given, SearchInv, R!StartIncludes PROVE SearchInv'
  OBVIOUS
<1>1. /\ apc = "relate" /\ apc' = "joinincludes" /\ frames' = << >>
      /\ gram' = gram /\ states' = states
      /\ UNCHANGED <<itr, trans, reads, includes, rtab, set>>
      /\ lookback' = [s \in R!StateIds |-> R!Sorted(R!ToSet(lookback[s]))]
  BY DEF R!StartIncludes, R!inputs
<1>2. /\ AllListed' /\ ReadsSound' /\ IncludesSound' /\ TabsSound'
  BY <1>1, ListFacts, SameParts
<1>3. SetsSound'
  BY <1>1, ListFacts, SameSets
<1>4. CallsSound'
  <2>1. \A T : << >> \in Seq(T)
    OBVIOUS
  <2> QED BY <1>1, <2>1 DEF CallsSound
<1>5. LookbackSound'
  <2> DEFINE T == RuleIds(gram) \X (1..Len(trans))
  <2>1. /\ lookback \in [StateIds -> Seq(T)]
        /\ \A s \in StateIds : \A l \in 1..Len(lookback[s]) : LooksBack(s, lookback[s][l])
    BY <1>1, ListFacts DEF LookbackSound
  <2>2. T \in SUBSET (Nat \X Nat)
    <3>1. RuleIds(gram) \subseteq Nat /\ Len(trans) \in Nat
      BY <1>1, GivenFacts, GramFacts, ListFacts
    <3> QED BY <3>1
  <2> HIDE DEF T
  <2>3. ASSUME NEW s \in StateIds
        PROVE  /\ lookback'[s] \in Seq(T)
               /\ \A l \in 1..Len(lookback'[s]) : LooksBack(s, lookback'[s][l])
    <3> DEFINE lb == lookback[s]
               E == ToSet(lb)
    <3>1. lookback'[s] = Sorted(E)
      BY <1>1, GivenFacts, LookaheadOperators
    <3>2. lb \in Seq(T)
      BY <2>1
    <3> HIDE DEF lb
    <3>3. IsFiniteSet(E) /\ E \in SUBSET T /\ E = {lb[k] : k \in 1..Len(lb)}
      BY <3>2, ElementsFinite
    <3> HIDE DEF E
    <3>4. Sorted(E) \in Seq(T) /\ \A n \in 1..Len(Sorted(E)) : Sorted(E)[n] \in E
      BY <2>2, <3>3, SortedLists
    <3> QED BY <2>1, <3>1, <3>3, <3>4 DEF lb
  <2>4. DOMAIN lookback' = StateIds /\ lookback' = [s \in StateIds |-> lookback'[s]]
    BY <1>1, GivenFacts
  <2>5. lookback' \in [StateIds -> Seq(T)]
    BY <2>3, <2>4
  <2>6. StateIds' = StateIds /\ \A s, e : LooksBack(s, e)' <=> LooksBack(s, e)
    BY <1>1, SameMeaning, SameParts
  <2> QED BY <1>1, <2>3, <2>5, <2>6 DEF LookbackSound, T
<1> QED BY <1>1, <1>2, <1>3, <1>4, <1>5, ListFacts DEF SearchInv

LEMMA EndIncludesKeeps == Given /\ SearchInv /\ R!EndIncludes => SearchInv'
<1> SUFFICES ASSUME Given, SearchInv, R!EndIncludes PROVE SearchInv'
  OBVIOUS
<1>1. /\ apc = "joinincludes" /\ apc' = "reduce" /\ itr' = 0
      /\ gram' = gram /\ states' = states
      /\ UNCHANGED <<trans, reads, includes, lookback, rtab, set, frames>>
  BY DEF R!EndIncludes, R!inputs, R!relations, R!dgvars
<1>2. /\ AllListed' /\ ReadsSound' /\ IncludesSound' /\ LookbackSound' /\ TabsSound' /\ CallsSound' /\ SetsSound'
  BY <1>1, ListFacts, SameParts, SameSets
<1> QED BY <1>1, <1>2 DEF SearchInv

LEMMA FinishKeeps == Given /\ SearchInv /\ R!Finish => SearchInv'
<1> SUFFICES ASSUME Given, SearchInv, R!Finish PROVE SearchInv'
  OBVIOUS
<1>1. /\ apc = "reduce" /\ apc' = "done"
      /\ gram' = gram /\ states' = states
      /\ UNCHANGED <<itr, trans, reads, includes, lookback, rtab, set, frames>>
  BY DEF R!Finish, R!inputs, R!relations, R!dgvars
<1>2. /\ AllListed' /\ ReadsSound' /\ IncludesSound' /\ LookbackSound' /\ TabsSound' /\ CallsSound' /\ SetsSound'
  BY <1>1, ListFacts, SameParts, SameSets
<1> QED BY <1>1, <1>2, ListFacts DEF SearchInv

\* What a transition is related to has only what may belong to the transition itself.
LEMMA HandedUp ==
  ASSUME SearchInv, apc \in {"joinreads", "joinincludes"},
         NEW succ, succ = IF apc = "joinreads" THEN reads ELSE includes
  PROVE  /\ Len(succ) = Len(trans)
         /\ \A x \in 1..Len(trans) :
              /\ succ[x] \in Seq(1..Len(trans)) /\ Len(succ[x]) \in Nat
              /\ \A l \in 1..Len(succ[x]) :
                   /\ succ[x][l] \in 1..Len(trans)
                   /\ \A a \in gram.terms : Belongs(trans[succ[x][l]], a) => Belongs(trans[x], a)
<1>1. ReadsSound /\ IncludesSound
  BY ListFacts
<1>2. Len(succ) = Len(trans) /\ \A x \in 1..Len(trans) : succ[x] \in Seq(1..Len(trans))
  BY <1>1, ListFacts DEF ReadsSound, IncludesSound
<1>3. \A x \in 1..Len(trans) : Len(succ[x]) \in Nat /\ \A l \in 1..Len(succ[x]) : succ[x][l] \in 1..Len(trans)
  BY <1>2, LenProperties, ElementOfSeq
<1>4. ASSUME NEW x \in 1..Len(trans), NEW l \in 1..Len(succ[x]), NEW a \in gram.terms,
             Belongs(trans[succ[x][l]], a)
      PROVE  Belongs(trans[x], a)
  <2>1. CASE apc = "joinreads"
    <3>1. succ = reads /\ \A z : Belongs(z, a) <=> Readable(z[2], a)
      BY <2>1 DEF Belongs
    <3> QED BY <1>1, <1>4, <3>1 DEF ReadsSound
  <2>2. CASE apc = "joinincludes"
    <3>1. succ = includes /\ \A z : Belongs(z, a) <=> Followed(z, a)
      BY <2>2 DEF Belongs
    <3> QED BY <1>1, <1>4, <3>1 DEF IncludesSound
  <2> QED BY <2>1, <2>2
<1> QED BY <1>2, <1>3, <1>4

LEMMA JoinKeeps == Given /\ SearchInv /\ R!Join => SearchInv'
<1> SUFFICES ASSUME Given, SearchInv, R!Join PROVE SearchInv'
  OBVIOUS
<1> DEFINE m == Len(trans)
           succ == IF apc = "joinreads" THEN reads ELSE includes
           Calls(T) == [node : 1..m, d : T, next : Nat \ {0}]
<1>1. /\ apc \in {"joinreads", "joinincludes"} /\ gram' = gram /\ states' = states
      /\ UNCHANGED <<apc, itr, trans, reads, includes, lookback, rtab>>
      /\ R!D!Next
  BY DEF R!Join, R!inputs, R!relations
<1>2. /\ AllListed' /\ ReadsSound' /\ IncludesSound' /\ LookbackSound' /\ TabsSound'
  BY <1>1, ListFacts, SameParts
<1>3. /\ Len(succ) = m
      /\ \A x \in 1..m :
           /\ succ[x] \in Seq(1..m) /\ Len(succ[x]) \in Nat
           /\ \A l \in 1..Len(succ[x]) :
                /\ succ[x][l] \in 1..m
                /\ \A a \in gram.terms : Belongs(trans[succ[x][l]], a) => Belongs(trans[x], a)
  <2> HIDE DEF succ
  <2>1. succ = IF apc = "joinreads" THEN reads ELSE includes
    BY DEF succ
  <2> QED BY <1>1, <2>1, HandedUp
<1>4. PICK T : frames \in Seq(Calls(T))
  BY <1>1, ListFacts DEF CallsSound
<1>5. /\ set \in [1..m -> SUBSET gram.terms]
      /\ \A k \in 1..m : \A a \in set[k] : Belongs(trans[k], a)
  BY <1>1, ListFacts DEF SetsSound
<1>6. m \in Nat /\ Len(frames) \in Nat /\ \A k \in 1..Len(frames) : frames[k] \in Calls(T)
  BY <1>1, <1>4, ListFacts, LenProperties, ElementOfSeq
<1>7. frames # << >> => LET f == frames[Len(frames)] IN
        Len(frames) \in 1..Len(frames) /\ f.node \in 1..m /\ f.next \in Nat \ {0}
        /\ f = [node |-> f.node, d |-> f.d, next |-> f.next] /\ f.d \in T
  <2>1. frames # << >> => Len(frames) \in 1..Len(frames)
    BY <1>4, <1>6, EmptySeq
  <2> QED BY <1>6, <2>1
<1>8. SUFFICES CallsSound' /\ SetsSound'
  BY <1>1, <1>2, <1>8, ListFacts DEF SearchInv
<1>9. SUFFICES /\ \E U : frames' \in Seq(Calls(U))
               /\ set' \in [1..m -> SUBSET gram.terms]
               /\ \A k \in 1..m : \A a \in set'[k] : Belongs(trans[k], a)
  <2>1. \A z, a : Belongs(z, a)' <=> Belongs(z, a)
    BY <1>1, SameMeaning DEF Belongs
  <2> QED BY <1>1, <1>9, <2>1 DEF CallsSound, SetsSound
\* Visiting a transition opens a call.
<1>10. ASSUME NEW x \in 1..m, R!D!Visit(x) PROVE \E U : frames' \in Seq(Calls(U))
  <2> DEFINE U == T \cup {Len(stack) + 1}
             f == [node |-> x, d |-> Len(stack) + 1, next |-> 1]
  <2>1. Calls(T) \subseteq Calls(U) /\ f \in Calls(U)
    OBVIOUS
  <2>2. frames' = Append(frames, f)
    BY <1>10 DEF R!D!Visit
  <2> HIDE DEF Calls, U, f
  <2>3. frames \in Seq(Calls(U))
    BY <1>4, <2>1
  <2>4. frames' \in Seq(Calls(U))
    BY <2>1, <2>2, <2>3
  <2> QED BY <2>4
<1>11. CASE R!D!SkipNode
  <2>1. frames' = frames /\ set' = set
    BY <1>11 DEF R!D!SkipNode
  <2> QED BY <1>4, <1>5, <2>1
<1>12. CASE R!D!VisitNode
  <2>1. set' = set /\ i \in 1..m /\ R!D!Visit(i)
    BY <1>3, <1>12 DEF R!D!VisitNode, R!D!Nodes
  <2> QED BY <1>5, <1>10, <2>1
<1>13. R!D!Listing => LET f == frames[Len(frames)] IN
         frames # << >> /\ f.next \in 1..Len(succ[f.node]) /\ R!D!Child = succ[f.node][f.next]
         /\ R!D!Child \in 1..m /\ R!D!Frame = f
  <2> DEFINE f == frames[Len(frames)]
  <2> SUFFICES ASSUME R!D!Listing
               PROVE  frames # << >> /\ f.next \in 1..Len(succ[f.node]) /\ R!D!Child = succ[f.node][f.next]
                      /\ R!D!Child \in 1..m /\ R!D!Frame = f
    OBVIOUS
  <2>1. frames # << >> /\ f.next <= Len(succ[f.node]) /\ R!D!Child = succ[f.node][f.next] /\ R!D!Frame = f
    BY DEF R!D!Listing, R!D!Child, R!D!Frame
  <2> HIDE DEF succ
  <2>2. f.next \in 1..Len(succ[f.node])
    BY <1>3, <1>7, <2>1
  <2> QED BY <1>3, <1>7, <2>1, <2>2
<1>14. CASE R!D!Descend
  <2>1. set' = set /\ R!D!Child \in 1..m /\ R!D!Visit(R!D!Child)
    BY <1>13, <1>14 DEF R!D!Descend
  <2> QED BY <1>5, <1>10, <2>1
<1>15. CASE R!D!Absorb
  <2> DEFINE n == Len(frames)
             f == frames[n]
             c == R!D!Child
  <2>1. R!D!Listing /\ set' = [set EXCEPT ![f.node] = @ \cup set[c]] /\ frames' = [frames EXCEPT ![n].next = @ + 1]
    <3>1. R!D!Listing /\ set' = [set EXCEPT ![R!D!Frame.node] = @ \cup set[c]] /\ frames' = R!D!Advanced
      BY <1>15 DEF R!D!Absorb
    <3> QED BY <1>13, <3>1 DEF R!D!Advanced
  <2>2. /\ frames # << >> /\ f.next \in 1..Len(succ[f.node]) /\ c = succ[f.node][f.next] /\ c \in 1..m
        /\ n \in 1..n /\ f.node \in 1..m /\ f.next \in Nat \ {0} /\ f.d \in T
        /\ f = [node |-> f.node, d |-> f.d, next |-> f.next]
    BY <1>7, <1>13, <2>1
  <2>3. \E U : frames' \in Seq(Calls(U))
    <3> DEFINE e == [f EXCEPT !.next = @ + 1]
    <3> HIDE DEF f
    <3>1. e = [node |-> f.node, d |-> f.d, next |-> f.next + 1]
      BY <2>2
    <3>2. e \in Calls(T)
      BY <2>2, <3>1
    <3>3. frames' = [frames EXCEPT ![n] = e]
      BY <2>1 DEF f
    <3> HIDE DEF Calls, e
    <3>4. frames' \in Seq(Calls(T))
      BY <1>4, <2>2, <3>2, <3>3, ExceptSeq
    <3> QED BY <3>4
  <2> HIDE DEF f, c, n, succ
  <2>4. \A k \in 1..m : set'[k] = IF k = f.node THEN set[k] \cup set[c] ELSE set[k]
    BY <1>5, <2>1, <2>2
  <2>5. set' \in [1..m -> SUBSET gram.terms]
    BY <1>5, <2>1, <2>2
  <2>6. ASSUME NEW a \in set[c] PROVE Belongs(trans[f.node], a)
    <3>1. Belongs(trans[c], a) /\ a \in gram.terms
      BY <1>5, <2>2
    <3> QED BY <1>3, <2>2, <3>1
  <2>7. \A k \in 1..m : \A a \in set'[k] : Belongs(trans[k], a)
    BY <1>5, <2>4, <2>6
  <2> QED BY <2>3, <2>5, <2>7
<1>16. CASE R!D!Leave
  <2>1. frames # << >> /\ set' = set /\ frames' = SubSeq(frames, 1, Len(frames) - 1)
    BY <1>16 DEF R!D!Leave
  <2>2. Len(frames) \in 1..Len(frames)
    BY <1>7, <2>1
  <2> HIDE DEF Calls
  <2>3. frames' \in Seq(Calls(T))
    BY <1>4, <1>6, <2>1, <2>2, SubSeqProperties
  <2> QED BY <1>5, <2>1, <2>3
<1> QED BY <1>1, <1>11, <1>12, <1>14, <1>15, <1>16 DEF R!D!Next

\* The rules of the nonterminal of a transition.
LEMMA RulesOfIt ==
  ASSUME Built, NEW x \in gram.nonterms
  PROVE  /\ gram.rulesOf[x] \in Seq(RuleIds(gram)) /\ Len(gram.rulesOf[x]) \in Nat
         /\ \A k \in 1..Len(gram.rulesOf[x]) :
              gram.rulesOf[x][k] \in RuleIds(gram) /\ Lhs(gram, gram.rulesOf[x][k]) = x
<1>1. IsGrammar(gram)
  BY GrammarsAreGrammars DEF Built
<1>2. /\ gram.rulesOf \in [gram.nonterms -> Seq(RuleIds(gram))]
      /\ \A r \in RuleIds(gram) : Lhs(gram, r) = x <=> Occurs(r, gram.rulesOf[x])
  BY <1>1 DEF IsGrammar
<1>3. gram.rulesOf[x] \in Seq(RuleIds(gram))
  BY <1>2
<1>4. Len(gram.rulesOf[x]) \in Nat /\ \A k \in 1..Len(gram.rulesOf[x]) : gram.rulesOf[x][k] \in RuleIds(gram)
  BY <1>3, LenProperties, ElementOfSeq
<1> QED BY <1>2, <1>3, <1>4 DEF Occurs

\* A nonterminal that is met on a walk is one of the transitions.
LEMMA MetOnTheWay ==
  ASSUME Given, SearchInv, apc # "begin", NEW z, Transition(z),
         NEW r \in RuleIds(gram), Lhs(gram, r) = Sym(z[2]),
         NEW n \in 1..Length(gram, r), R!Includes(r, n)
  PROVE  LET k == R!Lookup(R!Path(z[1], r)[n - 1], R!Path(z[1], r)[n])
         IN k \in 1..Len(trans) /\ \A a : Followed(z, a) => Followed(trans[k], a)
<1> DEFINE w == z[1]
           P == R!Path(w, r)
<1>1. n >= nnl[r] /\ Rhs(gram, r)[n] \in gram.nonterms
  BY LookaheadOperators DEF R!Includes
<1>2. r # 0 /\ <<r, 0>> \in Has(z[1]) /\ z[1] \in StateIds
  BY GivenFacts, TransitionFacts DEF Transition
<1>3. Length(gram, r) \in Nat /\ n - 1 \in 0..Length(gram, r) /\ n \in 0..Length(gram, r)
  <2>1. Length(gram, r) \in Nat
    BY GivenFacts, GramFacts
  <2> QED BY <2>1
<1>4. /\ P[n - 1] \in StateIds /\ P[n] \in StateIds /\ Sym(P[n]) = Rhs(gram, r)[n]
      /\ \E k \in 1..Len(Go(P[n - 1])) : P[n] = Go(P[n - 1])[k]
  <2>1. Built
    BY GivenFacts
  <2>2. /\ \A j \in 0..Length(gram, r) : P[j] \in StateIds
        /\ \A j \in 1..Length(gram, r) :
             /\ Sym(P[j]) = Rhs(gram, r)[j]
             /\ \E k \in 1..Len(Go(P[j - 1])) : P[j] = Go(P[j - 1])[k]
    <3> HIDE DEF w
    <3>1. w \in StateIds /\ <<r, 0>> \in Has(w) /\ r # 0
      BY <1>2 DEF w
    <3>2. LET Q == R!Path(w, r) IN
          /\ Q[0] = w
          /\ \A j \in 0..Length(gram, r) : Q[j] \in StateIds /\ <<r, j>> \in Has(Q[j])
          /\ \A j \in 1..Length(gram, r) :
               /\ Q[j] = Goto(states, Q[j - 1], Rhs(gram, r)[j]) /\ Sym(Q[j]) = Rhs(gram, r)[j]
               /\ \E k \in 1..Len(Go(Q[j - 1])) : Q[j] = Go(Q[j - 1])[k]
               /\ Q[j] # 1
      BY <2>1, <3>1, PathFacts, Zenon
    <3> QED BY <3>2
  <2> HIDE DEF P
  <2> QED BY <1>3, <2>2
<1> HIDE DEF P
<1>5. Transition(<<P[n - 1], P[n]>>)
  <2>1. <<P[n - 1], P[n]>>[1] = P[n - 1] /\ <<P[n - 1], P[n]>>[2] = P[n]
    OBVIOUS
  <2> QED BY <1>1, <1>4, <2>1 DEF Transition
<1>6. /\ R!Lookup(P[n - 1], P[n]) \in 1..Len(trans)
      /\ trans[R!Lookup(P[n - 1], P[n])] = <<P[n - 1], P[n]>>
  BY <1>4, <1>5, ListFacts, LookedUp
<1>7. \A a : Followed(z, a) => Followed(<<P[n - 1], P[n]>>, a)
  BY <1>1, FollowedInside DEF P
<1> QED BY <1>6, <1>7 DEF P

LEMMA FindLookbackIncludesKeeps == Given /\ SearchInv /\ R!FindLookbackIncludes => SearchInv'
<1> SUFFICES ASSUME Given, SearchInv, R!FindLookbackIncludes PROVE SearchInv'
  OBVIOUS
<1> DEFINE m == Len(trans)
           z == trans[itr]
           x == R!State(z[2]).sym
           rs == gram.rulesOf[x]
           Places == UNION {{r} \X (1..R!Length(gram, r)) : r \in R!ToSet(rs)}
           Met(k) == {p \in Places :
                        /\ R!Includes(p[1], p[2])
                        /\ R!Lookup(R!Path(z[1], p[1])[p[2] - 1], R!Path(z[1], p[1])[p[2]]) = k}
           At(s) == {k \in 1..Len(rs) : R!Path(z[1], rs[k])[R!Length(gram, rs[k])] = s}
           Ending(s) == R!Chosen(rs, At(s))
           Mark(k) == [j \in 1..R!Cardinality(Met(k)) |-> itr]
           Looks(s) == [j \in 1..Len(Ending(s)) |-> <<R!Reverse(Ending(s))[j], itr>>]
<1>1. /\ apc = "relate" /\ itr <= m /\ itr \in 1..m
      /\ gram' = gram /\ states' = states /\ itr' = itr + 1 /\ itr' \in Nat /\ itr' >= 1
      /\ UNCHANGED <<apc, trans, reads, rtab, set, frames>>
  <2>1. apc = "relate" /\ itr <= m
    BY DEF R!FindLookbackIncludes
  <2>2. itr >= 1 /\ itr \in Nat /\ m \in Nat
    BY <2>1, ListFacts DEF SearchInv
  <2>3. itr \in 1..m /\ itr + 1 \in Nat /\ itr + 1 >= 1
    BY <2>1, <2>2
  <2>4. /\ gram' = gram /\ states' = states /\ itr' = itr + 1
        /\ UNCHANGED <<apc, trans, reads, rtab, set, frames>>
    BY DEF R!FindLookbackIncludes, R!inputs, R!dgvars
  <2> QED BY <2>1, <2>3, <2>4
<1>2. /\ includes' = [k \in 1..m |-> Mark(k) \o includes[k]]
      /\ lookback' = [s \in StateIds |-> Looks(s) \o lookback[s]]
  <2>1. R!StateIds = StateIds
    BY GivenFacts
  <2>2. /\ includes' = [k \in 1..m |-> Mark(k) \o includes[k]]
        /\ lookback' = [s \in R!StateIds |-> Looks(s) \o lookback[s]]
    BY ONLY R!FindLookbackIncludes DEF R!FindLookbackIncludes
  <2> HIDE DEF Looks, Mark
  <2> QED BY <2>1, <2>2
<1>3. m \in Nat /\ Transition(z) /\ z[1] \in StateIds /\ x = Sym(z[2]) /\ x \in gram.nonterms
  <2>1. m \in Nat /\ Transition(z) /\ x = Sym(z[2])
    BY <1>1, ListFacts, GivenFacts
  <2> HIDE DEF x, z
  <2> QED BY <2>1 DEF Transition
<1>4. /\ rs \in Seq(RuleIds(gram)) /\ Len(rs) \in Nat
      /\ \A k \in 1..Len(rs) : rs[k] \in RuleIds(gram) /\ Lhs(gram, rs[k]) = x
  BY <1>3, GivenFacts, RulesOfIt
<1>5. \A p \in Places : /\ p[1] \in RuleIds(gram) /\ Lhs(gram, p[1]) = x
                        /\ p[2] \in 1..Length(gram, p[1]) /\ p \in Points(gram)
  <2> SUFFICES ASSUME NEW p \in Places
               PROVE  /\ p[1] \in RuleIds(gram) /\ Lhs(gram, p[1]) = x
                      /\ p[2] \in 1..Length(gram, p[1]) /\ p \in Points(gram)
    OBVIOUS
  <2>1. PICK r \in R!ToSet(rs) : p \in {r} \X (1..Length(gram, r))
    <3>1. PICK r \in R!ToSet(rs) : p \in {r} \X (1..R!Length(gram, r))
      OBVIOUS
    <3> QED BY <3>1, LookaheadOperators
  <2>2. R!ToSet(rs) = {rs[k] : k \in 1..Len(rs)}
    <3> HIDE DEF rs
    <3> QED BY <1>4, ElementsFinite, LookaheadOperators
  <2>3. r \in RuleIds(gram) /\ Lhs(gram, r) = x
    BY <1>4, <2>1, <2>2
  <2>4. Length(gram, r) \in Nat
    BY <2>3, GivenFacts, GramFacts
  <2>5. p[1] = r /\ p[2] \in 1..Length(gram, r) /\ p = <<r, p[2]>>
    BY <2>1
  <2> HIDE DEF x, rs
  <2> QED BY <2>3, <2>4, <2>5 DEF Points
<1>6. ASSUME NEW k \in 1..m
      PROVE  /\ R!Cardinality(Met(k)) \in Nat
             /\ R!Cardinality(Met(k)) # 0 => \A a : Followed(z, a) => Followed(trans[k], a)
  <2>1. IsFiniteSet(Points(gram)) /\ Met(k) \subseteq Points(gram)
    BY <1>5, GivenFacts, PointsFinite
  <2>2. IsFiniteSet(Met(k))
    BY ONLY <2>1, FS_Subset
  <2>3. \A p \in Met(k) : \A a : Followed(z, a) => Followed(trans[k], a)
    <3> SUFFICES ASSUME NEW p \in Met(k) PROVE \A a : Followed(z, a) => Followed(trans[k], a)
      OBVIOUS
    <3>1. /\ p[1] \in RuleIds(gram) /\ Lhs(gram, p[1]) = x /\ p[2] \in 1..Length(gram, p[1])
          /\ R!Includes(p[1], p[2])
          /\ R!Lookup(R!Path(z[1], p[1])[p[2] - 1], R!Path(z[1], p[1])[p[2]]) = k
      BY <1>5
    <3> HIDE DEF Met, z, x
    <3> QED BY <1>1, <1>3, <3>1, MetOnTheWay
  <2> HIDE DEF Met
  <2>4. Cardinality(Met(k)) \in Nat
    BY <2>2, FS_CardinalityType
  <2>5. Cardinality(Met(k)) # 0 => Met(k) # {}
    BY FS_EmptySet
  <2>6. R!Cardinality(Met(k)) = Cardinality(Met(k))
    BY DEF R!Cardinality, Cardinality, R!IsFiniteSet, IsFiniteSet
  <2> QED BY <2>3, <2>4, <2>5, <2>6
<1>7. IncludesSound'
  <2>1. /\ DOMAIN includes = 1..m
        /\ \A k \in 1..m : includes[k] \in Seq(1..m) /\
             \A l \in 1..Len(includes[k]) : \A a \in gram.terms :
               Followed(trans[includes[k][l]], a) => Followed(trans[k], a)
    BY <1>1, ListFacts DEF IncludesSound
  <2>2. ASSUME NEW k \in 1..m
        PROVE  /\ includes'[k] \in Seq(1..m)
               /\ \A l \in 1..Len(includes'[k]) : \A a \in gram.terms :
                    Followed(trans[includes'[k][l]], a) => Followed(trans[k], a)
    <3> DEFINE T == 1..m
               c == R!Cardinality(Met(k))
               old == includes[k]
    <3> HIDE DEF T, c, old, Met, z
    <3>1. Mark(k) = [j \in 1..c |-> itr] /\ includes'[k] = Mark(k) \o old
      BY <1>2 DEF c, old
    <3>2. c \in Nat /\ itr \in T /\ old \in Seq(T)
      BY <1>1, <1>6, <2>1 DEF c, old, T
    <3> HIDE DEF Mark
    <3>3. Mark(k) \in [1..c -> T] /\ \A l \in 1..c : Mark(k)[l] = itr
      BY <3>1, <3>2
    <3>4. /\ Mark(k) \o old \in Seq(T)
          /\ \A j \in 1..Len(Mark(k) \o old) : (\E l \in 1..c : (Mark(k) \o old)[j] = Mark(k)[l])
                                              \/ \E l \in 1..Len(old) : (Mark(k) \o old)[j] = old[l]
      <4>1. Mark(k) \o old \in Seq(T) /\ FromEither(Mark(k) \o old, Mark(k), c, old)
        BY ONLY <3>2, <3>3, InFront
      <4> QED BY <4>1 DEF FromEither
    <3>5. ASSUME NEW j \in 1..Len(includes'[k]), NEW a \in gram.terms, Followed(trans[includes'[k][j]], a)
          PROVE  Followed(trans[k], a)
      <4>1. CASE \E l \in 1..c : (Mark(k) \o old)[j] = Mark(k)[l]
        <5>1. includes'[k][j] = itr /\ c # 0
          BY <3>1, <3>2, <3>3, <4>1
        <5> QED BY <1>6, <3>5, <5>1 DEF c, z
      <4>2. CASE \E l \in 1..Len(old) : (Mark(k) \o old)[j] = old[l]
        <5>1. PICK l \in 1..Len(old) : includes'[k][j] = old[l]
          BY <3>1, <4>2
        <5> QED BY <2>1, <3>5, <5>1 DEF old
      <4> QED BY <3>1, <3>4, <4>1, <4>2
    <3> QED BY <3>1, <3>4, <3>5 DEF T
  <2>3. includes' = [k \in 1..m |-> includes'[k]] /\ Len(includes') = m
    <3> HIDE DEF Mark, Looks, m
    <3> QED BY <1>2, <1>3
  <2>4. includes' \in Seq(Seq(1..m))
    BY <1>3, <2>2, <2>3
  <2>5. \A w, a : Followed(w, a)' <=> Followed(w, a)
    BY <1>1, SameMeaning
  <2> QED BY <1>1, <2>2, <2>3, <2>4, <2>5 DEF IncludesSound
<1>8. ASSUME NEW s \in StateIds
      PROVE  /\ Len(Ending(s)) \in Nat
             /\ \A k \in 1..Len(Ending(s)) :
                  LET r == R!Reverse(Ending(s))[k] IN r \in RuleIds(gram) /\ LooksBack(s, <<r, itr>>)
  <2> DEFINE e == Ending(s)
  <2>1. At(s) \in SUBSET (1..Len(rs))
    OBVIOUS
  <2> HIDE DEF rs, At
  <2>2. Len(e) \in Nat /\ \A k \in 1..Len(e) : \E j \in At(s) : e[k] = rs[j]
    <3>1. e = Chosen(rs, At(s))
      BY LookaheadOperators
    <3> DEFINE S == At(s)
    <3>2. S \in SUBSET (1..Len(rs)) /\ e = Chosen(rs, S) /\ Len(rs) \in Nat
      BY <1>4, <2>1, <3>1
    <3> HIDE DEF e, S
    <3>3. Len(e) \in Nat /\ \A k \in 1..Len(e) : \E j \in S : e[k] = rs[j]
      <4> DEFINE d == Len(rs)
      <4>1. S \in SUBSET (1..d) /\ d \in Nat
        BY ONLY <3>2
      <4> HIDE DEF d
      <4>2. /\ Cardinality(S) \in Nat /\ Len(Chosen(rs, S)) = Cardinality(S)
            /\ DOMAIN Chosen(rs, S) = 1..Cardinality(S)
            /\ \A k \in 1..Cardinality(S) : \E j \in S : Chosen(rs, S)[k] = rs[j]
            /\ \A j \in S : \E k \in 1..Cardinality(S) : Chosen(rs, S)[k] = rs[j]
        BY ONLY <4>1, ChosenFacts, Zenon
      <4> QED BY ONLY <3>2, <4>2
    <3> QED BY <3>3 DEF S
  <2> HIDE DEF e
  <2>3. \A k \in 1..Len(e) : \E l \in 1..Len(e) : R!Reverse(e)[k] = e[l]
    BY <2>2, ReverseFacts, LookaheadOperators
  <2>4. ASSUME NEW j \in At(s)
        PROVE  rs[j] \in RuleIds(gram) /\ LooksBack(s, <<rs[j], itr>>)
    <3>1. j \in 1..Len(rs) /\ R!Path(z[1], rs[j])[Length(gram, rs[j])] = s
      BY LookaheadOperators DEF At
    <3>2. rs[j] \in RuleIds(gram) /\ Lhs(gram, rs[j]) = Sym(z[2])
      BY <1>3, <1>4, <3>1
    <3> DEFINE r == rs[j]
    <3> HIDE DEF z, r
    <3>3. /\ r # 0 /\ <<r, Length(gram, r)>> \in Has(s)
          /\ \A a : Followed(z, a) => <<s, <<r, Length(gram, r)>>, a>> \in Ref!Follows(gram, states)
      BY <1>3, <3>1, <3>2, GivenFacts, FollowedAtEnd DEF r
    <3>4. <<r, itr>>[1] = r /\ <<r, itr>>[2] = itr
      OBVIOUS
    <3>5. LooksBack(s, <<r, itr>>)
      BY <3>3, <3>4 DEF LooksBack, z
    <3> QED BY <3>2, <3>5 DEF r
  <2>5. ASSUME NEW k \in 1..Len(e)
        PROVE  R!Reverse(e)[k] \in RuleIds(gram) /\ LooksBack(s, <<R!Reverse(e)[k], itr>>)
    <3>1. PICK l \in 1..Len(e) : R!Reverse(e)[k] = e[l]
      BY <2>3
    <3>2. PICK j \in At(s) : e[l] = rs[j]
      BY <2>2
    <3> QED BY <2>4, <3>1, <3>2
  <2> QED BY <2>2, <2>5 DEF e
<1>9. LookbackSound'
  <2> DEFINE T == RuleIds(gram) \X (1..m)
  <2> HIDE DEF Ending, At, z, rs, x
  <2>1. /\ lookback \in [StateIds -> Seq(T)]
        /\ \A s \in StateIds : \A l \in 1..Len(lookback[s]) : LooksBack(s, lookback[s][l])
    BY <1>1, ListFacts DEF LookbackSound
  <2>2. ASSUME NEW s \in StateIds
        PROVE  /\ lookback'[s] \in Seq(T)
               /\ \A l \in 1..Len(lookback'[s]) : LooksBack(s, lookback'[s][l])
    <3> DEFINE c == Len(Ending(s))
               old == lookback[s]
    <3>1. c \in Nat /\ old \in Seq(T) /\ lookback'[s] = Looks(s) \o old
      <4> HIDE DEF Looks, T
      <4> QED BY <1>2, <1>8, <2>1
    <3>2. Looks(s) \in [1..c -> T] /\ \A l \in 1..c : LooksBack(s, Looks(s)[l])
      <4>1. \A l \in 1..c : Looks(s)[l] = <<R!Reverse(Ending(s))[l], itr>>
        OBVIOUS
      <4>2. \A l \in 1..c : <<R!Reverse(Ending(s))[l], itr>> \in T /\ LooksBack(s, <<R!Reverse(Ending(s))[l], itr>>)
        BY <1>1, <1>8
      <4> HIDE DEF T
      <4> QED BY <4>1, <4>2
    <3> DEFINE new == Looks(s)
    <3> HIDE DEF Looks, T, c, old
    <3>3. /\ new \o old \in Seq(T)
          /\ \A j \in 1..Len(new \o old) : (\E l \in 1..c : (new \o old)[j] = new[l])
                                              \/ \E l \in 1..Len(old) : (new \o old)[j] = old[l]
      <4>1. new \in [1..c -> T] /\ c \in Nat /\ old \in Seq(T)
        BY <3>1, <3>2
      <4> HIDE DEF new
      <4> HIDE DEF c
      <4>2. new \o old \in Seq(T) /\ FromEither(new \o old, new, c, old)
        BY ONLY <4>1, InFront
      <4> QED BY <4>2 DEF FromEither
    <3>4. \A l \in 1..Len(old) : LooksBack(s, old[l])
      BY <2>1 DEF old
    <3>5. ASSUME NEW j \in 1..Len(lookback'[s]) PROVE LooksBack(s, lookback'[s][j])
      <4>1. lookback'[s][j] = (Looks(s) \o old)[j] /\ j \in 1..Len(Looks(s) \o old)
        BY <3>1
      <4> QED BY <3>2, <3>3, <3>4, <4>1
    <3> QED BY <3>1, <3>3, <3>5
  <2>3. lookback' = [s \in StateIds |-> lookback'[s]]
    <3> HIDE DEF Looks
    <3> QED BY <1>2
  <2> HIDE DEF T
  <2>4. lookback' \in [StateIds -> Seq(T)]
    BY <2>2, <2>3
  <2>5. StateIds' = StateIds /\ \A s, e : LooksBack(s, e)' <=> LooksBack(s, e)
    BY <1>1, SameMeaning, SameParts
  <2> QED BY <1>1, <2>2, <2>4, <2>5 DEF LookbackSound, T
<1>10. AllListed' /\ ReadsSound' /\ CallsSound' /\ TabsSound' /\ SetsSound'
  BY <1>1, ListFacts, SameParts, SameSets
<1> QED BY <1>1, <1>7, <1>9, <1>10 DEF SearchInv

-----------------------------------------------------------------------------
(* Joined rows.                                                            *)

\* Rows that have no element twice, and none in common, are joined without
\* repetitions and in their order.
InRows(l, seqs, n) ==
  /\ \A j \in 1..Len(l) : \E k \in 1..n : Occurs(l[j], seqs[k])
  /\ NoRepeats(l)
  /\ \A h, j \in 1..Len(l) : h < j =>
       \E k, m \in 1..n : k <= m /\ Occurs(l[h], seqs[k]) /\ Occurs(l[j], seqs[m])

LEMMA RowsJoined ==
  ASSUME NEW A, NEW seqs \in Seq(Seq(A)), Len(seqs) # 0,
         \A k \in 1..Len(seqs) : NoRepeats(seqs[k]),
         \A k, m \in 1..Len(seqs) : \A y : Occurs(y, seqs[k]) /\ Occurs(y, seqs[m]) => k = m
  PROVE  FlattenSeq(seqs) \in Seq(A) /\ InRows(FlattenSeq(seqs), seqs, Len(seqs))
<1> DEFINE M == Len(seqs)
           f == Flattened(seqs)
           I == {n \in Nat : n + 1 <= M => InRows(f[n + 1], seqs, n + 1)}
<1>1. M \in Nat /\ M >= 1 /\ \A k \in 1..M : seqs[k] \in Seq(A)
  BY LenProperties, ElementOfSeq
<1>2. f[1] = seqs[1] /\ (\A k \in 2..M : f[k] = f[k - 1] \o seqs[k]) /\ \A k \in 1..M : f[k] \in Seq(A)
  BY FlattenedDefined
<1> HIDE DEF f
<1>3. InRows(f[1], seqs, 1)
  <2>1. \A j \in 1..Len(seqs[1]) : Occurs(seqs[1][j], seqs[1])
    BY DEF Occurs
  <2>2. NoRepeats(seqs[1])
    BY <1>1
  <2>3. \A j \in 1..Len(f[1]) : \E k \in 1..1 : Occurs(f[1][j], seqs[k])
    BY <1>2, <2>1
  <2>4. \A h, j \in 1..Len(f[1]) : h < j =>
          \E k, m \in 1..1 : k <= m /\ Occurs(f[1][h], seqs[k]) /\ Occurs(f[1][j], seqs[m])
    BY <1>2, <2>1
  <2> QED BY <1>2, <2>2, <2>3, <2>4 DEF InRows
<1>4. ASSUME NEW n \in 1..M, n + 1 <= M, InRows(f[n], seqs, n) PROVE InRows(f[n + 1], seqs, n + 1)
  <2> DEFINE s == f[n]
             t == seqs[n + 1]
             p == s \o t
  <2>1. n \in Nat /\ n + 1 \in 2..M /\ (n + 1) - 1 = n /\ n + 1 \in 1..M
    BY <1>1, <1>4
  <2>2. f[n + 1] = p /\ s \in Seq(A) /\ t \in Seq(A) /\ NoRepeats(t)
    BY <1>1, <1>2, <2>1
  <2>3. /\ Len(s) \in Nat /\ Len(t) \in Nat /\ Len(p) = Len(s) + Len(t)
        /\ \A j \in 1..(Len(s) + Len(t)) : p[j] = IF j <= Len(s) THEN s[j] ELSE t[j - Len(s)]
    BY <2>2, ConcatProperties, LenProperties
  <2>4. /\ \A j \in 1..Len(s) : \E k \in 1..n : Occurs(s[j], seqs[k])
        /\ NoRepeats(s)
        /\ \A h, j \in 1..Len(s) : h < j =>
             \E k, m \in 1..n : k <= m /\ Occurs(s[h], seqs[k]) /\ Occurs(s[j], seqs[m])
    BY <1>4 DEF InRows
  <2> HIDE DEF p, s
  <2>5. ASSUME NEW j \in 1..Len(p)
        PROVE  \/ j \in 1..Len(s) /\ p[j] = s[j]
               \/ j > Len(s) /\ j - Len(s) \in 1..Len(t) /\ p[j] = t[j - Len(s)] /\ Occurs(p[j], seqs[n + 1])
    <3>1. CASE j <= Len(s)
      BY <2>3, <3>1
    <3>2. CASE ~ (j <= Len(s))
      <4>1. j - Len(s) \in 1..Len(t) /\ p[j] = t[j - Len(s)] /\ j > Len(s)
        <5> HIDE DEF t
        <5>1. j \in 1..(Len(s) + Len(t))
          BY <2>3
        <5>2. \A a, b \in Nat : \A c \in 1..(a + b) : ~ (c <= a) => c - a \in 1..b /\ c > a
          OBVIOUS
        <5>3. j - Len(s) \in 1..Len(t) /\ j > Len(s)
          BY ONLY <2>3, <3>2, <5>1, <5>2
        <5>4. p[j] = t[j - Len(s)]
          BY ONLY <2>3, <3>2, <5>1
        <5> QED BY <5>3, <5>4
      <4>2. Occurs(p[j], t)
        BY ONLY <4>1 DEF Occurs
      <4> QED BY <4>1, <4>2
    <3> QED BY <3>1, <3>2
  <2> HIDE DEF t
  <2>6. \A j \in 1..Len(p) : \E k \in 1..(n + 1) : Occurs(p[j], seqs[k])
    <3> SUFFICES ASSUME NEW j \in 1..Len(p) PROVE \E k \in 1..(n + 1) : Occurs(p[j], seqs[k])
      OBVIOUS
    <3>1. \A k \in 1..n : k \in 1..(n + 1)
      BY <2>1
    <3>2. n + 1 \in 1..(n + 1)
      BY <2>1
    <3> QED BY <2>4, <2>5, <3>1, <3>2
  <2>7. \A h, j \in 1..Len(p) : h < j =>
          \E k, m \in 1..(n + 1) : k <= m /\ Occurs(p[h], seqs[k]) /\ Occurs(p[j], seqs[m])
    <3> SUFFICES ASSUME NEW h \in 1..Len(p), NEW j \in 1..Len(p), h < j
                 PROVE  \E k, m \in 1..(n + 1) : k <= m /\ Occurs(p[h], seqs[k]) /\ Occurs(p[j], seqs[m])
      OBVIOUS
    <3>1. CASE j \in 1..Len(s) /\ p[j] = s[j]
      <4>1. h \in 1..Len(s) /\ p[h] = s[h]
        BY <2>3, <2>5, <3>1
      <4>2. PICK k \in 1..n, m \in 1..n : k <= m /\ Occurs(s[h], seqs[k]) /\ Occurs(s[j], seqs[m])
        BY <2>4, <3>1, <4>1
      <4>3. k \in 1..(n + 1) /\ m \in 1..(n + 1)
        BY <2>1
      <4> QED BY <3>1, <4>1, <4>2, <4>3
    <3>2. CASE Occurs(p[j], seqs[n + 1])
      <4>1. PICK k \in 1..(n + 1) : Occurs(p[h], seqs[k])
        BY <2>6
      <4>2. n + 1 \in 1..(n + 1) /\ k <= n + 1
        BY <2>1
      <4> QED BY <3>2, <4>1, <4>2
    <3> QED BY <2>5, <3>1, <3>2
  <2>8. NoRepeats(p)
    <3>1. ASSUME NEW h \in 1..Len(p), NEW j \in 1..Len(p), h < j PROVE p[h] # p[j]
      <4>1. CASE j \in 1..Len(s) /\ p[j] = s[j]
        <5>1. h \in 1..Len(s) /\ p[h] = s[h] /\ h # j
          BY <2>3, <2>5, <3>1, <4>1
        <5> QED BY <2>4, <4>1, <5>1 DEF NoRepeats
      <4>2. CASE j - Len(s) \in 1..Len(t) /\ p[j] = t[j - Len(s)] /\ Occurs(p[j], seqs[n + 1]) /\ h \in 1..Len(s) /\ p[h] = s[h]
        <5>1. PICK k \in 1..n : Occurs(p[h], seqs[k])
          BY <2>4, <4>2
        <5>2. k \in 1..M /\ k # n + 1
          BY <1>1, <2>1
        <5> QED BY <2>1, <4>2, <5>1, <5>2
      <4>3. CASE /\ j - Len(s) \in 1..Len(t) /\ p[j] = t[j - Len(s)]
                 /\ h - Len(s) \in 1..Len(t) /\ p[h] = t[h - Len(s)]
        <5>1. h - Len(s) # j - Len(s)
          BY <2>3, <3>1
        <5> QED BY <2>2, <4>3, <5>1 DEF NoRepeats
      <4> QED BY <2>5, <4>1, <4>2, <4>3
    <3>2. Len(p) \in Nat
      BY <2>3
    <3>3. ASSUME NEW h \in 1..Len(p), NEW j \in 1..Len(p), h # j PROVE p[h] # p[j]
      <4>1. h < j \/ j < h
        BY <3>2, <3>3
      <4> QED BY <3>1, <4>1
    <3> QED BY <3>3 DEF NoRepeats
  <2> QED BY <2>2, <2>6, <2>7, <2>8 DEF InRows
<1>5. 0 \in I
  BY <1>3
<1>6. ASSUME NEW n \in Nat, n \in I PROVE n + 1 \in I
  <2> SUFFICES ASSUME (n + 1) + 1 <= M PROVE InRows(f[(n + 1) + 1], seqs, (n + 1) + 1)
    OBVIOUS
  <2>1. n + 1 \in 1..M /\ InRows(f[n + 1], seqs, n + 1)
    BY <1>1, <1>6
  <2> QED BY <1>4, <2>1
<1>7. Nat \subseteq I
  <2> HIDE DEF I
  <2> QED BY <1>5, <1>6, SetInduction
<1>8. M - 1 \in Nat /\ (M - 1) + 1 = M /\ M \in 1..M
  BY <1>1
<1>9. InRows(f[M], seqs, M)
  <2>1. M - 1 \in I
    <3> HIDE DEF I
    <3> QED BY <1>7, <1>8
  <2> QED BY <1>1, <1>8, <2>1
<1>10. FlattenSeq(seqs) = f[M]
  BY DEF FlattenSeq, Flattened, f
<1> QED BY <1>2, <1>8, <1>9, <1>10

-----------------------------------------------------------------------------
(* The reductions of a state.                                              *)

\* What the walk over the lookback list of state s takes for the items of its closure.
LEMMA WalkFacts ==
  ASSUME NEW s, NEW c, Len(c) \in Nat, Len(lookback[s]) \in Nat
  PROVE  \A n \in 1..Len(c) : \A a \in R!ItemSets(s, c)[n] :
           AtEnd(gram, c[n]) /\ \E k \in 1..Len(lookback[s]) :
             lookback[s][k][1] = c[n][1] /\ a \in set[lookback[s][k][2]]
<1> DEFINE lb == lookback[s]
           L0 == Len(lb)
           N0 == Len(c)
           P == Nat \ {0}
           T == P \X P
           Skipped(p, r) == R!FirstFrom(lb, p, LAMBDA e : e[1] >= r)
           Taken(p, r)   == R!FirstFrom(lb, p, LAMBDA e : e[1] # r)
           Step(n, w) ==
             LET last == w[2]
                 from == IF R!AtEnd(gram, c[n]) THEN Skipped(last, c[n][1]) ELSE last
             IN <<from, IF R!AtEnd(gram, c[n]) THEN Taken(from, c[n][1]) ELSE last>>
           F == [n \in 1..N0 |-> [w \in T |-> Step(n, w)]]
           Def(h) == h = [n \in 0..N0 |-> IF n = 0 THEN <<1, 1>> ELSE Step(n, h[n - 1])]
           W == CHOOSE h : Def(h)
<1>1. R!ItemSets(s, c) = [n \in 1..N0 |-> LET w == W[n] IN UNION {set[lb[k][2]] : k \in w[1] .. w[2] - 1}]
  BY DEF R!ItemSets
<1>2. ASSUME NEW p \in P, NEW r
      PROVE  Skipped(p, r) \in P /\ Taken(p, r) \in P
             /\ \A k \in p .. Taken(p, r) - 1 : k \in 1..L0 /\ lb[k][1] = r
  <2> DEFINE K == {k \in p..L0 : lb[k][1] >= r} \cup {L0 + 1}
             M == {k \in p..L0 : lb[k][1] # r} \cup {L0 + 1}
  <2>1. Skipped(p, r) = Min(K) /\ Taken(p, r) = Min(M)
    BY LookaheadOperators DEF R!FirstFrom
  <2> HIDE DEF Skipped, Taken
  <2>2. /\ K \in SUBSET Nat /\ K # {} /\ (\A k \in K : k \in P)
        /\ M \in SUBSET Nat /\ M # {} /\ (\A k \in M : k \in P)
        /\ L0 + 1 \in M /\ \A k \in p..L0 : lb[k][1] # r => k \in M
    OBVIOUS
  <2> HIDE DEF K, M
  <2>3. Min(K) \in P /\ Min(M) \in P /\ \A k \in M : Min(M) <= k
    BY <2>2, MinLeast
  <2>4. ASSUME NEW k \in p .. Taken(p, r) - 1 PROVE k \in 1..L0 /\ lb[k][1] = r
    <3>1. k <= L0 /\ k \in 1..L0 /\ k \in p..L0
      BY <2>1, <2>2, <2>3
    <3>2. ~ (Min(M) <= k)
      BY <2>1, <2>3
    <3> QED BY <2>2, <2>3, <3>1, <3>2
  <2> QED BY <2>1, <2>3, <2>4
<1> HIDE DEF Skipped, Taken, P, lb, L0, N0
<1>3. ASSUME NEW n, NEW w \in T
      PROVE  Step(n, w) \in T /\ \A k \in Step(n, w)[1] .. Step(n, w)[2] - 1 :
               AtEnd(gram, c[n]) /\ k \in 1..L0 /\ lb[k][1] = c[n][1]
  <2>1. w[2] \in P
    OBVIOUS
  <2>2. R!AtEnd(gram, c[n]) <=> AtEnd(gram, c[n])
    BY LookaheadOperators
  <2>3. CASE AtEnd(gram, c[n])
    <3> DEFINE from == Skipped(w[2], c[n][1])
               to   == Taken(from, c[n][1])
    <3>1. Step(n, w) = <<from, to>>
      BY <2>2, <2>3
    <3>2. from \in P /\ to \in P /\ \A k \in from .. to - 1 : k \in 1..L0 /\ lb[k][1] = c[n][1]
      BY <1>2, <2>1
    <3> HIDE DEF Step, from, to
    <3> QED BY <2>3, <3>1, <3>2
  <2>4. CASE ~ AtEnd(gram, c[n])
    <3>1. Step(n, w) = <<w[2], w[2]>>
      BY <2>2, <2>4
    <3>2. \A k : ~ (k \in w[2] .. w[2] - 1)
      BY <2>1 DEF P
    <3> HIDE DEF Step
    <3> QED BY <2>1, <3>1, <3>2
  <2> QED BY <2>3, <2>4
<1> HIDE DEF Step
<1>4. PICK h : IsRun(h, T, <<1, 1>>, N0, F)
  <2>1. F \in [1..N0 -> [T -> T]]
    <3> HIDE DEF T
    <3> QED BY <1>3
  <2>2. <<1, 1>> \in T /\ N0 \in Nat
    BY DEF P, N0
  <2> HIDE DEF F, T
  <2> DEFINE b == <<1, 1>>
  <2>3. b \in T
    BY <2>2
  <2> HIDE DEF b
  <2>4. \E h : IsRun(h, T, b, N0, F)
    BY <2>1, <2>2, <2>3, StepsExist
  <2> QED BY <2>4 DEF b
<1>5. h \in [0..N0 -> T] /\ h[0] = <<1, 1>> /\ \A n \in 1..N0 : h[n] = F[n][h[n - 1]]
  <2> HIDE DEF F, T
  <2> QED BY <1>4 DEF IsRun
<1>6. N0 \in Nat
  BY DEF N0
<1> HIDE DEF T
<1>7. Def(h)
  <2>1. ASSUME NEW n \in 1..N0 PROVE h[n] = Step(n, h[n - 1])
    <3>1. n - 1 \in 0..N0
      BY <1>6
    <3>2. h[n - 1] \in T
      BY <1>5, <3>1
    <3>3. F[n][h[n - 1]] = Step(n, h[n - 1])
      BY <3>2
    <3> HIDE DEF F
    <3> QED BY <1>5, <3>3
  <2>2. ASSUME NEW n \in 0..N0 PROVE h[n] = IF n = 0 THEN <<1, 1>> ELSE Step(n, h[n - 1])
    <3>1. n = 0 \/ n \in 1..N0
      BY <1>6
    <3> HIDE DEF F
    <3> QED BY <1>5, <2>1, <3>1
  <2>3. DOMAIN h = 0..N0 /\ h = [n \in 0..N0 |-> h[n]]
    BY <1>5
  <2> HIDE DEF F
  <2> QED BY <2>2, <2>3
<1>8. Def(W)
  <2> HIDE DEF Def
  <2> QED BY <1>7
<1> HIDE DEF W, F
<1>9. W[0] = <<1, 1>> /\ \A n \in 1..N0 : W[n] = Step(n, W[n - 1])
  <2>1. 0 \in 0..N0 /\ \A n \in 1..N0 : n \in 0..N0 /\ n # 0
    BY <1>6
  <2> QED BY <1>8, <2>1
<1> HIDE DEF Def
<1> DEFINE I == {n \in Nat : n <= N0 => W[n] \in T}
<1>10. Nat \subseteq I
  <2>1. 0 \in I
    <3>1. <<1, 1>> \in T
      BY DEF T, P
    <3>2. W[0] \in T
      BY <1>9, <3>1
    <3> QED BY <3>2
  <2>2. ASSUME NEW n \in Nat, n \in I PROVE n + 1 \in I
    <3> SUFFICES ASSUME n + 1 <= N0 PROVE W[n + 1] \in T
      OBVIOUS
    <3>1. n + 1 \in 1..N0 /\ (n + 1) - 1 = n /\ W[n] \in T
      BY <1>6, <2>2
    <3>2. W[n + 1] = Step(n + 1, W[n])
      BY <1>9, <3>1
    <3> QED BY <1>3, <3>1, <3>2
  <2> HIDE DEF I
  <2> QED BY <2>1, <2>2, SetInduction
<1>11. ASSUME NEW n \in 1..N0, NEW a \in R!ItemSets(s, c)[n]
       PROVE  AtEnd(gram, c[n]) /\ \E k \in 1..L0 : lb[k][1] = c[n][1] /\ a \in set[lb[k][2]]
  <2>1. PICK k \in W[n][1] .. W[n][2] - 1 : a \in set[lb[k][2]]
    BY <1>1, <1>11
  <2>2. n - 1 \in Nat /\ n - 1 <= N0
    BY <1>6
  <2>3. W[n - 1] \in T
    BY <1>10, <2>2
  <2>4. W[n] = Step(n, W[n - 1])
    BY <1>9
  <2>5. k \in Step(n, W[n - 1])[1] .. Step(n, W[n - 1])[2] - 1
    BY <2>1, <2>4
  <2> QED BY <1>3, <2>1, <2>3, <2>5
<1> QED BY <1>11 DEF N0, L0, lb

\* The id of a symbol is its place in the symbol list.
LEMMA SymbolPlaces ==
  ASSUME Built
  PROVE  /\ Len(gram.syms) \in Nat /\ Len(gram.syms) # 0
         /\ \A k \in 1..Len(gram.syms) : gram.syms[k] \in Symbols(gram) /\ SymId(gram.syms[k]) = k - 1
         /\ \A k, l \in 1..Len(gram.syms) : gram.syms[k] = gram.syms[l] => k = l
<1>1. gram.syms \in Seq(Symbols(gram)) /\ NoRepeats(gram.syms) /\ Occurs(Eof, gram.syms)
  <2>1. /\ gram.syms \in Seq(Symbols(gram)) /\ NoRepeats(gram.syms)
        /\ \A s \in Symbols(gram) : Occurs(s, gram.syms)
        /\ Eof \in gram.terms /\ gram.terms \subseteq Symbols(gram)
    BY GramFacts DEF Built
  <2> QED BY <2>1
<1>2. Len(gram.syms) \in Nat /\ \A k \in 1..Len(gram.syms) : gram.syms[k] \in Symbols(gram)
  BY <1>1, LenProperties, ElementOfSeq
<1>3. Len(gram.syms) # 0
  BY <1>1, <1>2 DEF Occurs
<1>4. \A k, l \in 1..Len(gram.syms) : gram.syms[k] = gram.syms[l] => k = l
  BY <1>1 DEF NoRepeats
<1>5. ASSUME NEW k \in 1..Len(gram.syms) PROVE SymId(gram.syms[k]) = k - 1
  <2> DEFINE j == CHOOSE l \in 1..Len(gram.syms) : gram.syms[l] = gram.syms[k]
  <2>1. j \in 1..Len(gram.syms) /\ gram.syms[j] = gram.syms[k]
    OBVIOUS
  <2>2. SymId(gram.syms[k]) = j - 1
    BY DEF SymId, SymbolId
  <2> HIDE DEF j
  <2> QED BY <1>4, <2>1, <2>2
<1> QED BY <1>2, <1>3, <1>4, <1>5

\* The entries of state s for symbol x, from the items c.
RowOf(s, x, c) ==
  LET ns == R!Ascending({n \in 1..Len(c) : x \in R!ItemSets(s, c)[n]})
  IN [k \in DOMAIN ns |-> <<x, c[ns[k]][1]>>]

\* An entry that is justified in state s.
Right(s, e) ==
  /\ e[2] # 0 /\ <<e[2], Length(gram, e[2])>> \in Has(s)
  /\ <<s, <<e[2], Length(gram, e[2])>>, e[1]>> \in Ref!Follows(gram, states)

\* Every item whose set has the symbol is entered once, and justified.
LEMMA RowFacts ==
  ASSUME Given, SearchInv, apc = "reduce", NEW s \in StateIds, NEW x \in Symbols(gram)
  PROVE  LET row == RowOf(s, x, ClosureOf(gram, Kernel(s)))
         IN /\ row \in Seq(Symbols(gram) \X RuleIds(gram)) /\ NoRepeats(row)
            /\ \A k \in 1..Len(row) : row[k][1] = x /\ Right(s, row[k])
<1> DEFINE c   == ClosureOf(gram, Kernel(s))
           S   == {n \in 1..Len(c) : x \in R!ItemSets(s, c)[n]}
           ns  == R!Ascending(S)
           row == [k \in DOMAIN ns |-> <<x, c[ns[k]][1]>>]
           N0  == Cardinality(S)
<1>0. c = ClosureOf(gram, Kernel(s)) /\ S = {n \in 1..Len(c) : x \in R!ItemSets(s, c)[n]}
      /\ RowOf(s, x, c) = row
  BY DEF RowOf
<1> HIDE DEF c, S
<1>1. /\ c \in Seq(Points(gram)) /\ NoRepeats(c) /\ Len(c) \in Nat /\ \A n \in 1..Len(c) : c[n] \in Points(gram)
      /\ Has(s) = {c[n] : n \in 1..Len(c)}
  <2>1. c \in Seq(Points(gram)) /\ NoRepeats(c)
    BY <1>0, GivenFacts, StateFacts
  <2>2. Has(s) = {c[n] : n \in 1..Len(c)}
    BY <1>0 DEF Has, ClosureSet
  <2> QED BY <2>1, <2>2, LenProperties, ElementOfSeq
<1>2. /\ Len(lookback[s]) \in Nat
      /\ \A k \in 1..Len(lookback[s]) :
           lookback[s][k] \in RuleIds(gram) \X (1..Len(trans)) /\ LooksBack(s, lookback[s][k])
  <2>1. lookback \in [StateIds -> Seq(RuleIds(gram) \X (1..Len(trans)))]
        /\ \A k \in 1..Len(lookback[s]) : LooksBack(s, lookback[s][k])
    BY ListFacts DEF LookbackSound
  <2>2. lookback[s] \in Seq(RuleIds(gram) \X (1..Len(trans)))
    BY <2>1
  <2> QED BY <2>1, <2>2, LenProperties, ElementOfSeq
<1>3. ASSUME NEW n \in S
      PROVE  /\ n \in 1..Len(c) /\ c[n][1] \in RuleIds(gram) /\ c[n][1] # 0
             /\ c[n] = <<c[n][1], Length(gram, c[n][1])>> /\ c[n] \in Has(s)
             /\ <<s, c[n], x>> \in Ref!Follows(gram, states)
  <2> DEFINE r == c[n][1]
  <2>1. n \in 1..Len(c) /\ x \in R!ItemSets(s, c)[n]
    BY <1>0
  <2>2. PICK k \in 1..Len(lookback[s]) :
          AtEnd(gram, c[n]) /\ lookback[s][k][1] = r /\ x \in set[lookback[s][k][2]]
    BY <1>1, <1>2, <2>1, WalkFacts
  <2>3. r \in RuleIds(gram) /\ lookback[s][k][2] \in 1..Len(trans) /\ LooksBack(s, lookback[s][k])
    BY <1>2, <2>2
  <2>4. c[n] \in RuleIds(gram) \X Nat /\ c[n][2] <= Length(gram, r) /\ c[n][2] >= Length(gram, r) /\ Length(gram, r) \in Nat
    <3>1. c[n] \in Points(gram)
      BY <1>1, <2>1
    <3>2. Length(gram, r) \in Nat
      BY <2>3, GivenFacts, GramFacts
    <3> QED BY <2>2, <3>1, <3>2 DEF Points, AtEnd
  <2>5. c[n] = <<r, Length(gram, r)>>
    BY <2>4
  <2>6. x \in gram.terms /\ Followed(trans[lookback[s][k][2]], x)
    <3>1. set \in [1..Len(trans) -> SUBSET gram.terms]
          /\ \A l \in 1..Len(trans) : \A a \in set[l] : Followed(trans[l], a)
      BY ListFacts DEF SetsSound, Belongs
    <3> QED BY <2>2, <2>3, <3>1
  <2> HIDE DEF r
  <2>7. r # 0 /\ <<s, <<r, Length(gram, r)>>, x>> \in Ref!Follows(gram, states)
    BY <2>2, <2>3, <2>6 DEF LooksBack
  <2> QED BY <1>1, <2>1, <2>3, <2>5, <2>7 DEF r
<1>4. /\ N0 \in Nat /\ ns \in [1..N0 -> S]
      /\ \A k, l \in 1..N0 : ns[k] = ns[l] => k = l
  <2>1. S \in SUBSET Nat /\ IsFiniteSet(S)
    <3>1. S \subseteq 1..Len(c)
      BY <1>0
    <3>2. IsFiniteSet(1..Len(c))
      BY <1>1, CountUpTo
    <3>3. IsFiniteSet(S)
      BY <3>1, <3>2, FS_Subset
    <3> QED BY <1>1, <3>1, <3>3
  <2>2. ns = Ascending(S)
    BY LookaheadOperators
  <2> HIDE DEF ns, N0
  <2> QED BY <2>1, <2>2, AscendingFacts DEF N0
<1> HIDE DEF ns, N0
<1>5. DOMAIN ns = 1..N0 /\ \A k \in 1..N0 : ns[k] \in S
  BY <1>4
<1>6. row = [k \in 1..N0 |-> <<x, c[ns[k]][1]>>]
  BY <1>5
<1>7. \A k \in 1..N0 : row[k] = <<x, c[ns[k]][1]>> /\ row[k][1] = x /\ row[k][2] = c[ns[k]][1]
  BY <1>6
<1>8. Len(row) = N0
  BY <1>4, <1>6
<1>9. row \in Seq(Symbols(gram) \X RuleIds(gram))
  <2>1. \A k \in 1..N0 : row[k] \in Symbols(gram) \X RuleIds(gram)
    BY <1>3, <1>5, <1>7
  <2>2. row = [k \in 1..N0 |-> row[k]]
    BY <1>6
  <2> HIDE DEF row
  <2> QED BY <1>4, <2>1, <2>2
<1> HIDE DEF row
<1>10. NoRepeats(row)
  <2> SUFFICES ASSUME NEW k \in 1..N0, NEW l \in 1..N0, row[k] = row[l] PROVE k = l
    BY <1>8 DEF NoRepeats
  <2>1. c[ns[k]][1] = c[ns[l]][1] /\ ns[k] \in S /\ ns[l] \in S
    BY <1>5, <1>7
  <2>2. c[ns[k]] = c[ns[l]] /\ ns[k] \in 1..Len(c) /\ ns[l] \in 1..Len(c)
    BY <1>3, <2>1
  <2>3. ns[k] = ns[l]
    BY <1>1, <2>2 DEF NoRepeats
  <2> QED BY <1>4, <2>3
<1>11. ASSUME NEW k \in 1..Len(row) PROVE row[k][1] = x /\ Right(s, row[k])
  <2>1. k \in 1..N0 /\ ns[k] \in S
    BY <1>5, <1>8
  <2> DEFINE n == ns[k]
  <2> HIDE DEF n
  <2>2. row[k][1] = x /\ row[k][2] = c[n][1] /\ n \in S
    BY <1>7, <2>1 DEF n
  <2>3. /\ c[n][1] # 0 /\ c[n] = <<c[n][1], Length(gram, c[n][1])>> /\ c[n] \in Has(s)
        /\ <<s, c[n], x>> \in Ref!Follows(gram, states)
    BY <1>3, <2>2
  <2> QED BY <2>2, <2>3 DEF Right
<1> QED BY <1>0, <1>9, <1>10, <1>11

LEMMA ReduceTabSound ==
  ASSUME Given, SearchInv, apc = "reduce", NEW s \in StateIds
  PROVE  TabSound(s, R!ReduceTab(s))
<1> DEFINE c == ClosureOf(gram, Kernel(s))
           N0 == Len(gram.syms)
           seqs == [k \in 1..N0 |-> RowOf(s, gram.syms[k], c)]
           A == Symbols(gram) \X RuleIds(gram)
           tab == FlattenSeq(seqs)
<1>1. R!ReduceTab(s) = tab
  <2>1. R!ClosureOf(gram, R!State(s).kernel) = c
    BY LookaheadOperators DEF R!State, Kernel
  <2>2. \A l : R!FlattenSeq(l) = FlattenSeq(l)
    BY DEF R!FlattenSeq, FlattenSeq
  <2>3. R!ReduceTab(s) = R!FlattenSeq(seqs)
    <3> HIDE DEF c
    <3> QED BY <2>1 DEF R!ReduceTab, RowOf
  <2> QED BY <2>2, <2>3
<1>2. /\ N0 \in Nat /\ N0 # 0
      /\ \A k \in 1..N0 : gram.syms[k] \in Symbols(gram) /\ SymId(gram.syms[k]) = k - 1
      /\ \A k, l \in 1..N0 : gram.syms[k] = gram.syms[l] => k = l
  BY GivenFacts, SymbolPlaces
<1>3. ASSUME NEW x \in Symbols(gram)
      PROVE  /\ RowOf(s, x, c) \in Seq(A) /\ NoRepeats(RowOf(s, x, c))
             /\ \A k \in 1..Len(RowOf(s, x, c)) : RowOf(s, x, c)[k][1] = x /\ Right(s, RowOf(s, x, c)[k])
  BY RowFacts
<1> HIDE DEF A, c
<1>4. /\ seqs \in Seq(Seq(A)) /\ Len(seqs) = N0 /\ \A k \in 1..N0 : seqs[k] = RowOf(s, gram.syms[k], c)
  <2>1. \A k \in 1..N0 : RowOf(s, gram.syms[k], c) \in Seq(A)
    BY <1>2, <1>3
  <2> QED BY <1>2, <2>1
<1> HIDE DEF seqs
<1>5. \A k \in 1..N0 : NoRepeats(seqs[k]) /\ \A y : Occurs(y, seqs[k]) => y[1] = gram.syms[k] /\ Right(s, y)
  BY <1>2, <1>3, <1>4 DEF Occurs
<1>6. tab \in Seq(A) /\ InRows(tab, seqs, N0)
  <2>1. \A k \in 1..Len(seqs) : NoRepeats(seqs[k])
    BY <1>4, <1>5
  <2>2. \A k, m \in 1..Len(seqs) : \A y : Occurs(y, seqs[k]) /\ Occurs(y, seqs[m]) => k = m
    <3> SUFFICES ASSUME NEW k \in 1..N0, NEW m \in 1..N0, NEW y, Occurs(y, seqs[k]), Occurs(y, seqs[m])
                 PROVE  k = m
      BY <1>4
    <3>1. y[1] = gram.syms[k] /\ y[1] = gram.syms[m]
      BY <1>5
    <3> QED BY <1>2, <3>1
  <2> HIDE DEF tab
  <2>3. FlattenSeq(seqs) \in Seq(A) /\ InRows(FlattenSeq(seqs), seqs, Len(seqs))
    BY <1>2, <1>4, <2>1, <2>2, RowsJoined
  <2> QED BY <1>4, <2>3 DEF tab
<1> HIDE DEF tab
<1>7. /\ NoRepeats(tab)
      /\ \A j \in 1..Len(tab) : \E k \in 1..N0 : Occurs(tab[j], seqs[k])
      /\ \A h, j \in 1..Len(tab) : h < j =>
           \E k, m \in 1..N0 : k <= m /\ Occurs(tab[h], seqs[k]) /\ Occurs(tab[j], seqs[m])
  BY <1>6 DEF InRows
<1>8. ASSUME NEW h \in 1..Len(tab), NEW j \in 1..Len(tab), h < j
      PROVE  SymId(tab[h][1]) <= SymId(tab[j][1])
  <2>1. PICK k \in 1..N0, m \in 1..N0 : k <= m /\ Occurs(tab[h], seqs[k]) /\ Occurs(tab[j], seqs[m])
    BY <1>7, <1>8
  <2>2. tab[h][1] = gram.syms[k] /\ tab[j][1] = gram.syms[m]
    BY <1>5, <2>1
  <2>3. SymId(gram.syms[k]) = k - 1 /\ SymId(gram.syms[m]) = m - 1
    BY <1>2
  <2> QED BY <1>2, <2>1, <2>2, <2>3
<1>9. \A n \in 1..Len(tab) : Right(s, tab[n])
  BY <1>5, <1>7
<1> QED BY <1>1, <1>6, <1>7, <1>8, <1>9 DEF TabSound, A, Right

LEMMA FindReductionsKeeps == Given /\ SearchInv /\ R!FindReductions => SearchInv'
<1> SUFFICES ASSUME Given, SearchInv, R!FindReductions PROVE SearchInv'
  OBVIOUS
<1>1. /\ apc = "reduce" /\ apc' = "reduce" /\ itr \in StateIds /\ itr' = itr + 1
      /\ gram' = gram /\ states' = states
      /\ UNCHANGED <<apc, trans, reads, includes, lookback, set, frames>>
      /\ rtab' = [rtab EXCEPT ![itr] = R!ReduceTab(itr)]
  BY GivenFacts DEF R!FindReductions, R!inputs, R!relations, R!dgvars
<1>2. /\ AllListed' /\ ReadsSound' /\ IncludesSound' /\ LookbackSound' /\ CallsSound' /\ SetsSound'
  BY <1>1, ListFacts, SameParts, SameSets
<1>3. TabsSound'
  <2>1. DOMAIN rtab = StateIds /\ \A s \in StateIds : TabSound(s, rtab[s])
    BY <1>1, ListFacts DEF TabsSound
  <2>2. TabSound(itr, R!ReduceTab(itr))
    BY <1>1, ReduceTabSound
  <2>3. DOMAIN rtab' = StateIds /\ \A s \in StateIds : TabSound(s, rtab'[s])
    BY <1>1, <2>1, <2>2
  <2> QED BY <1>1, <2>3, SameMeaning DEF TabsSound
<1>4. itr' \in Nat
  BY <1>1, ListFacts
<1> QED BY <1>1, <1>2, <1>3, <1>4 DEF SearchInv

\* Every step of the search for lookaheads.
LEMMA SearchKeeps == Given /\ SearchInv /\ R!Next => SearchInv'
BY FindTransitionsKeeps, FindReadsKeeps, StartReadsKeeps, JoinKeeps, EndReadsKeeps,
   FindLookbackIncludesKeeps, StartIncludesKeeps, EndIncludesKeeps, FindReductionsKeeps, FinishKeeps
DEF R!Next

\* What the passes behind rely on.
LEMMA SearchGives ==
  ASSUME Given, SearchInv, apc = "done"
  PROVE  Tables /\ Found \subseteq Ref!Lookaheads(gram, states)
<1>1. IsGrammar(gram)
  BY GivenFacts, GrammarsAreGrammars
<1>2. Len(states) \in Nat \ {0}
  BY GivenFacts
<1>3. ASSUME NEW s \in StateIds PROVE GototabSorted(s)
  <2>1. /\ Go(s) \in Seq(StateIds)
        /\ \A k \in 1..Len(Go(s)) : Sym(Go(s)[k]) \in Symbols(gram)
        /\ \A k, l \in 1..Len(Go(s)) :
             k < l => SymbolId(gram, Sym(Go(s)[k])) < SymbolId(gram, Sym(Go(s)[l]))
    BY GivenFacts, GoFacts
  <2>2. \A k : ShiftSym(s, k) = Sym(Go(s)[k])
    BY DEF ShiftSym, Sym, Go
  <2> QED BY <2>1, <2>2 DEF GototabSorted, SymId
<1>4. /\ DOMAIN rtab = StateIds
      /\ \A s \in StateIds :
           /\ rtab[s] \in Seq(Symbols(gram) \X RuleIds(gram)) /\ NoRepeats(rtab[s])
           /\ \A k, l \in 1..Len(rtab[s]) : k < l => SymId(rtab[s][k][1]) <= SymId(rtab[s][l][1])
           /\ \A n \in 1..Len(rtab[s]) :
                LET e == <<rtab[s][n][2], Length(gram, rtab[s][n][2])>>
                IN rtab[s][n][2] # 0 /\ e \in Has(s) /\ <<s, e, rtab[s][n][1]>> \in Ref!Follows(gram, states)
  BY ListFacts DEF TabsSound, TabSound
<1>5. \A s \in StateIds : ReducetabSorted(s)
  BY <1>4 DEF ReducetabSorted
<1>6. \A s \in StateIds : ItemsOf[s] = Has(s)
  BY DEF ItemsOf, Has, Kernel
<1>7. TablesFollow
  <2>1. (\A p \in ItemsOf[0] : p[2] = 0) /\ <<0, 2>> \in ItemsOf[1]
    <3>1. 0 \in StateIds /\ 1 \in StateIds /\ (\A p \in Has(0) : p[2] = 0) /\ Has(1) = {<<0, 2>>}
      BY GivenFacts, StateFacts
    <3> QED BY <1>6, <3>1
  <2>2. ASSUME NEW s \in StateIds PROVE Reduced(s)
    BY <1>4, <1>6 DEF Reduced
  <2>3. ASSUME NEW s \in StateIds PROVE Moved(s)
    <3> SUFFICES ASSUME NEW k \in 1..Len(Go(s)), NEW p \in ItemsOf[Go(s)[k]], p[2] # 0
                 PROVE  Rhs(gram, p[1])[p[2]] = ShiftSym(s, k) /\ <<p[1], p[2] - 1>> \in ItemsOf[s]
      BY DEF Moved
    <3>1. Go(s)[k] \in StateIds
      BY GivenFacts, GoFacts
    <3> DEFINE t == Go(s)[k]
    <3>2. p \in Has(t) /\ t \in StateIds
      BY <1>6, <3>1
    <3>3. \A r : <<r, 0>>[2] = 0
      OBVIOUS
    <3>4. p \in Kernel(t)
      <4> HIDE DEF t
      <4>1. p \in Kernel(t) \/ \E r \in RuleIds(gram) : p = <<r, 0>>
        BY <3>2, GivenFacts, StateFacts
      <4> QED BY <3>3, <4>1
    <3>5. Back(p) \in Has(s) /\ Rhs(gram, p[1])[p[2]] = Sym(Go(s)[k])
      BY <3>4, GivenFacts, EnteredFacts
    <3>6. ShiftSym(s, k) = Sym(Go(s)[k])
      BY DEF ShiftSym, Sym, Go
    <3> QED BY <1>6, <3>5, <3>6 DEF Back
  <2> QED BY <2>1, <2>2, <2>3 DEF TablesFollow
<1>8. ASSUME NEW f \in Found PROVE f \in Ref!Lookaheads(gram, states)
  <2>0. PICK s \in StateIds : \E e \in ToSet(rtab[s]) : f = <<s, e[2], e[1]>>
    BY <1>4 DEF Found
  <2>1. PICK e \in ToSet(rtab[s]) : f = <<s, e[2], e[1]>>
    BY <2>0
  <2>2. ToSet(rtab[s]) = {rtab[s][k] : k \in 1..Len(rtab[s])}
    BY <1>4, ElementsFinite
  <2>3. PICK n \in 1..Len(rtab[s]) : e = rtab[s][n]
    BY <2>1, <2>2
  <2> DEFINE r == e[2]
             a == e[1]
             p == <<r, Length(gram, r)>>
             g == <<s, p, a>>
  <2>4. r # 0 /\ p \in Has(s) /\ g \in Ref!Follows(gram, states) /\ f = <<s, r, a>>
    BY <1>4, <2>1, <2>3
  <2>5. a \in Symbols(gram) /\ r \in RuleIds(gram)
    <3>1. rtab[s] \in Seq(Symbols(gram) \X RuleIds(gram))
      BY <1>4
    <3>2. e \in Symbols(gram) \X RuleIds(gram)
      BY <2>3, <3>1, ElementOfSeq
    <3> QED BY <3>2
  <2> HIDE DEF r, a
  <2>6. a # Nil /\ Length(gram, r) \in Nat
    <3>1. gram \in Grammars
      BY GivenFacts
    <3> QED BY ONLY <2>5, <3>1, GramFacts
  <2> USE DEF r, a
  <2>7. p[1] = r /\ p[2] = Length(gram, r)
    OBVIOUS
  <2> HIDE DEF p
  <2>8. g[1] = s /\ g[2] = p /\ g[3] = a
    OBVIOUS
  <2> HIDE DEF r, a, g
  <2>9. Ref!AtEnd(gram, p)
    BY <2>6, <2>7, RefOperators DEF AtEnd
  <2>10. f = <<g[1], g[2][1], g[3]>> /\ g \in {y \in Ref!Follows(gram, states) : Ref!AtEnd(gram, y[2]) /\ y[2][1] # 0 /\ y[3] # Nil}
    BY <2>4, <2>6, <2>7, <2>8, <2>9
  <2> QED BY <2>10 DEF Ref!Lookaheads
<1> QED BY <1>1, <1>2, <1>3, <1>5, <1>7, <1>8 DEF Tables

-----------------------------------------------------------------------------
(* What nullable_find leaves.                                              *)

NP == INSTANCE NullableProofs WITH pc <- npc, cur <- ncur

\* What NullableProofs assumes, assumed here.
LEMMA NullableAssumes == NP!GrammarsAreGrammars
BY GrammarsAreGrammars
DEF NP!GrammarsAreGrammars, NP!IsGrammar, IsGrammar, NP!Symbols, Symbols, NP!NoRepeats, NoRepeats,
    NP!Occurs, Occurs, NP!RuleIds, RuleIds, NP!Lhs, Lhs, NP!Rhs, Rhs

\* What NullableProofs proves of the finished search.
LEMMA EmptinessIs ==
  ASSUME gram \in Grammars, NP!IInv, npc = "done"
  PROVE  EmptinessFound
<1> DEFINE E == Ref!Empty(gram)
           S == E \cap gram.nonterms
<1>1. /\ nullable \in SUBSET gram.nonterms
      /\ nnl \in [RuleIds(gram) -> Nat]
      /\ \A D \in SUBSET gram.nonterms : NP!A!Closed(gram, D) => nullable \subseteq D
      /\ \A r \in RuleIds(gram) \ {0} : NP!Scanned(r) => NP!NnlSound(r)
      /\ NP!TypeOK /\ si > Len(gram.syms)
  BY DEF NP!IInv, NP!TypeOK, NP!Justified, NP!Shortened, NP!Passes, NP!RuleIds, RuleIds
<1>2. NP!A!Closed(gram, S)
  <2> SUFFICES ASSUME NEW r \in RuleIds(gram), Lhs(gram, r) \in gram.nonterms,
                      \A n \in 1..Length(gram, r) : Rhs(gram, r)[n] \in S
               PROVE  Lhs(gram, r) \in S
    BY DEF NP!A!Closed, NP!A!AllIn, NP!A!RuleIds, NP!A!Lhs, NP!A!Rhs, NP!A!Length, RuleIds, Lhs, Rhs, Length
  <2>1. Lhs(gram, r) \in E
    <3>1. \A n \in 1..Length(gram, r) : Rhs(gram, r)[n] \in E
      OBVIOUS
    <3> HIDE DEF E, S
    <3> QED BY <3>1, EmptyFacts DEF E
  <2> QED BY <2>1
<1>3. nullable \subseteq E
  <2>1. S \in SUBSET gram.nonterms
    OBVIOUS
  <2> QED BY <1>1, <1>2, <2>1
<1>4. ASSUME NEW r \in RuleIds(gram) \ {0}
      PROVE  nnl[r] \in Nat /\ \A n \in (nnl[r] + 1)..Length(gram, r) : Rhs(gram, r)[n] \in E
  <2>1. r \in NP!RuleIds(gram) \ {0}
    BY DEF NP!RuleIds, RuleIds
  <2>2. NP!Scanned(r)
    BY <1>1, <2>1, NullableAssumes, NP!AllScanned
  <2>3. NP!NnlSound(r)
    BY <1>1, <2>2
  <2> HIDE DEF E
  <2> QED BY <1>1, <1>3, <2>3 DEF NP!NnlSound, NP!Rhs, NP!Length, Rhs, Length
<1> QED BY <1>1, <1>3, <1>4 DEF EmptinessFound

-----------------------------------------------------------------------------
(* One pass after the other.                                               *)

\* main calls the passes with nothing begun.
LEMMA PassesStart == Init => gram \in Grammars /\ NP!Init /\ LP!Init /\ lpc = "build" /\ R!Begin /\ Begin
<1> SUFFICES ASSUME Init
             PROVE  gram \in Grammars /\ NP!Init /\ LP!Init /\ lpc = "build" /\ R!Begin /\ Begin
  OBVIOUS
<1>1. gram \in Grammars /\ NP!Init
  BY DEF Init, N!Init, NP!Init, N!RuleIds, NP!RuleIds
<1>2. LP!Init /\ lpc = "build"
  BY <1>1 DEF Init, L!Begin, LP!Begin, LP!Init
<1> QED BY <1>1, <1>2 DEF Init

\* A step of a pass is one of those that its proofs are about, before it is done.
LEMMA NullableSteps == N!Next => NP!Next /\ gram' = gram /\ npc # "done"
<1>1. N!ScanRule => NP!ScanRule /\ gram' = gram /\ npc # "done"
  BY DEF N!ScanRule, NP!ScanRule, N!HasRuleAt, NP!HasRuleAt, N!EnqueueIfNeeded, NP!EnqueueIfNeeded,
         N!Lhs, NP!Lhs, N!Rhs, NP!Rhs, N!Length, NP!Length
<1>2. N!NextSymbol => NP!NextSymbol /\ gram' = gram /\ npc # "done"
  BY DEF N!NextSymbol, NP!NextSymbol, N!HasRuleAt, NP!HasRuleAt
<1>3. N!EndScan => NP!EndScan /\ gram' = gram /\ npc # "done"
  BY DEF N!EndScan, NP!EndScan
<1>4. N!PopSymbol => NP!PopSymbol /\ gram' = gram /\ npc # "done"
  BY DEF N!PopSymbol, NP!PopSymbol, N!Drained, NP!Drained
<1>5. N!TakeRule => NP!TakeRule /\ gram' = gram /\ npc # "done"
  BY DEF N!TakeRule, NP!TakeRule, N!Drained, NP!Drained
<1>6. N!Trim => NP!Trim /\ gram' = gram /\ npc # "done"
  BY DEF N!Trim, NP!Trim, N!MayTrim, NP!MayTrim, N!Rhs, NP!Rhs
<1>7. N!Refile => NP!Refile /\ gram' = gram /\ npc # "done"
  BY DEF N!Refile, NP!Refile, N!MayTrim, NP!MayTrim, N!EnqueueIfNeeded, NP!EnqueueIfNeeded,
         N!Lhs, NP!Lhs, N!Rhs, NP!Rhs
<1>8. N!Finish => NP!Finish /\ gram' = gram /\ npc # "done"
  BY DEF N!Finish, NP!Finish, N!Drained, NP!Drained
<1> QED BY <1>1, <1>2, <1>3, <1>4, <1>5, <1>6, <1>7, <1>8 DEF N!Next, NP!Next

\* Both hash alike.
LEMMA SameHash == \A k : L!Hash(k) = LP!Hash(k)
BY DEF L!Hash, LP!Hash, L!HashOf, LP!HashOf, L!MapThenSumSet, LP!MapThenSumSet,
       L!MapThenFoldSet, LP!MapThenFoldSet

LEMMA AutomatonSteps == L!Next => LP!Next /\ gram' = gram /\ lpc # "done"
<1>1. L!Build => LP!Build /\ gram' = gram /\ lpc # "done"
  BY SameHash DEF L!Build, LP!Build, L!NewState, LP!NewState
<1>2. L!CloseItem => LP!CloseItem /\ gram' = gram /\ lpc # "done"
  BY DEF L!CloseItem, LP!CloseItem, L!AddRules, LP!AddRules, L!AtEnd, LP!AtEnd, L!AfterDot, LP!AfterDot,
         L!Seen, LP!Seen, L!Length, LP!Length, L!Rhs, LP!Rhs
<1>3. L!ListSymbols => LP!ListSymbols /\ gram' = gram /\ lpc # "done"
  BY DEF L!ListSymbols, LP!ListSymbols, L!Symbols, LP!Symbols, L!AtEnd, LP!AtEnd, L!AfterDot, LP!AfterDot,
         L!Seen, LP!Seen, L!Length, LP!Length, L!Rhs, LP!Rhs
<1>4. L!Commit => LP!Commit /\ gram' = gram /\ lpc # "done"
  <2>1. \A x : L!Moved(x) = LP!Moved(x)
    BY DEF L!Moved, LP!Moved, L!AtEnd, LP!AtEnd, L!AfterDot, LP!AfterDot, L!Length, LP!Length, L!Rhs, LP!Rhs
  <2>2. \A h : L!Bucket(h) = LP!Bucket(h)
    BY DEF L!Bucket, LP!Bucket
  <2>3. \A k : L!Matches(k) = LP!Matches(k)
    BY <2>2, SameHash DEF L!Matches, LP!Matches
  <2>4. \A S : L!First(S) = LP!First(S)
    BY DEF L!First, LP!First, L!SymId, LP!SymId
  <2>5. \A S : L!Min(S) = LP!Min(S)
    BY DEF L!Min, LP!Min
  <2> QED BY <2>1, <2>2, <2>3, <2>4, <2>5, SameHash DEF L!Commit, LP!Commit, L!NewState, LP!NewState
<1>5. L!NextState => LP!NextState /\ gram' = gram /\ lpc # "done"
  BY DEF L!NextState, LP!NextState, L!Sorted, LP!Sorted, L!PointBefore, LP!PointBefore, L!Cardinality, LP!Cardinality,
         L!IsFiniteSet, LP!IsFiniteSet
<1>6. L!Finish => LP!Finish /\ gram' = gram /\ lpc # "done"
  BY DEF L!Finish, LP!Finish
<1> QED BY <1>1, <1>2, <1>3, <1>4, <1>5, <1>6 DEF L!Next, LP!Next

\* The search for lookaheads ends, and leaves its input alone.
LEMMA SearchSteps == R!Next => UNCHANGED <<gram, nullable, nnl, states>> /\ apc # "done"
BY DEF R!Next, R!FindTransitions, R!FindReads, R!StartReads, R!Join, R!EndReads, R!FindLookbackIncludes,
       R!StartIncludes, R!EndIncludes, R!FindReductions, R!Finish, R!inputs

\* conflicts and codgen_c only read.
LEMMA OutputSteps == Next => inputs' = inputs
BY DEF Next, Conflicts, StartActions, EmitActions, StartGotos, EmitGotos, Finish

\* While the search does nothing, what it has found stays.
LEMMA SearchStays ==
  ASSUME SearchInv, gram' = gram, states' = states, UNCHANGED avars
  PROVE  SearchInv'
<1>1. /\ apc' = apc /\ trans' = trans /\ itr' = itr /\ reads' = reads /\ includes' = includes
      /\ lookback' = lookback /\ rtab' = rtab /\ set' = set /\ rank' = rank /\ stack' = stack
      /\ frames' = frames /\ i' = i
  BY DEF avars
<1>2. R!Begin' <=> R!Begin
  BY <1>1 DEF R!Begin
<1>3. SetsSound => SetsSound'
  BY <1>1, SameSets
<1>4. /\ AllListed => AllListed' 
      /\ ReadsSound => ReadsSound'
      /\ IncludesSound => IncludesSound'
      /\ LookbackSound => LookbackSound'
      /\ CallsSound => CallsSound'
      /\ TabsSound => TabsSound'
  BY <1>1, SameParts
<1> QED BY <1>1, <1>2, <1>3, <1>4 DEF SearchInv

(***************************************************************************)
(* What holds between the passes: each works from what the passes before   *)
(* have finished, and has begun nothing before that.                       *)
(***************************************************************************)
GenInv ==
  /\ gram \in Grammars
  /\ NP!IInv /\ LP!IInv /\ LP!LedTo
  /\ npc # "done" => lpc = "build"
  /\ lpc # "done" => R!Begin
  /\ lpc = "done" => SearchInv
  /\ apc # "done" => Begin
  /\ Begin \/ OutputInv

\* When the automaton is built, the search for lookaheads has what it relies on.
LEMMA GivenThen == GenInv /\ lpc = "done" => Given /\ SearchInv
<1> SUFFICES ASSUME GenInv, lpc = "done" PROVE Given /\ SearchInv
  OBVIOUS
<1>1. gram \in Grammars /\ NP!IInv /\ npc = "done" /\ LP!IInv /\ LP!LedTo /\ SearchInv
  BY DEF GenInv
<1>2. EmptinessFound
  BY <1>1, EmptinessIs
<1>3. LP!IsAutomaton(gram, states)
  BY <1>1, BucketsAssumed, AutomatonAssumes, LP!AutomatonBuilt
<1>4. IsAutomaton(gram, states)
  BY <1>3, AutomatonIs
<1> QED BY <1>1, <1>2, <1>4 DEF Given, Built

\* And when the lookaheads are found, conflicts and codgen_c have the tables they rely on.
LEMMA TablesThen == GenInv /\ apc = "done" => Tables /\ Found \subseteq Ref!Lookaheads(gram, states)
<1> SUFFICES ASSUME GenInv, apc = "done" PROVE Tables /\ Found \subseteq Ref!Lookaheads(gram, states)
  OBVIOUS
<1>1. lpc = "done"
  BY DEF GenInv, R!Begin
<1>2. Given /\ SearchInv
  BY <1>1, GivenThen
<1> QED BY <1>2, SearchGives

LEMMA PassesBegin == Init => GenInv
<1> SUFFICES ASSUME Init PROVE GenInv
  OBVIOUS
<1>1. gram \in Grammars /\ NP!Init /\ LP!Init /\ lpc = "build" /\ R!Begin /\ Begin
  BY PassesStart
<1>2. NP!IInv
  BY <1>1, NullableAssumes, NP!InitEstablishes
<1>3. LP!IInv /\ LP!LedTo
  BY <1>1, BucketsAssumed, AutomatonAssumes, LP!InvariantStarts
<1> QED BY <1>1, <1>2, <1>3 DEF GenInv

\* A pass that does not run keeps what it has.
LEMMA NullableRests == ASSUME NP!IInv, gram' = gram, UNCHANGED nvars PROVE NP!IInv'
<1>1. NP!IInv /\ [NP!Next]_(NP!vars)
  BY DEF nvars, NP!vars
<1> QED BY <1>1, NullableAssumes, NP!NextKeeps

LEMMA AutomatonRests ==
  ASSUME LP!IInv, LP!LedTo, gram' = gram, UNCHANGED lvars
  PROVE  LP!IInv' /\ LP!LedTo'
<1>1. [LP!Next]_(LP!vars)
  BY DEF lvars, LP!vars
<1> QED BY <1>1, BucketsAssumed, AutomatonAssumes, LP!InvariantKept, LP!LedToKept

LEMMA SearchNotBegun == ASSUME R!Begin, UNCHANGED avars PROVE R!Begin'
BY DEF R!Begin, avars

LEMMA OutputRests == ASSUME Begin \/ OutputInv, inputs' = inputs, UNCHANGED outputvars PROVE Begin' \/ OutputInv'
<1>1. CASE Begin
  BY <1>1 DEF Begin, outputvars
<1>2. CASE OutputInv
  <2>1. UNCHANGED vars
    BY DEF vars
  <2> QED BY <1>2, <2>1, OutputKept
<1> QED BY <1>1, <1>2

LEMMA OutputNotBegun == ASSUME Begin, UNCHANGED outputvars PROVE Begin'
BY DEF Begin, outputvars

LEMMA NullablePassKeeps == GenInv /\ NullablePass => GenInv'
<1> SUFFICES ASSUME GenInv, NullablePass PROVE GenInv'
  OBVIOUS
<1>1. N!Next /\ UNCHANGED lvars /\ UNCHANGED avars /\ UNCHANGED outputvars
  BY DEF NullablePass
<1>2. NP!Next /\ gram' = gram /\ npc # "done"
  BY <1>1, NullableSteps
<1>3. gram \in Grammars /\ NP!IInv /\ LP!IInv /\ LP!LedTo /\ lpc = "build" /\ R!Begin
  BY <1>2 DEF GenInv
<1>4. NP!IInv'
  BY <1>2, <1>3, NullableAssumes, NP!NextKeeps
<1>5. LP!IInv' /\ LP!LedTo' /\ lpc' = lpc /\ states' = states
  BY <1>1, <1>2, <1>3, AutomatonRests DEF lvars
<1>6. R!Begin' /\ apc = "begin" /\ apc' = "begin" /\ rtab' = rtab
  BY <1>1, <1>3, SearchNotBegun DEF R!Begin, avars
<1>7. Begin'
  BY <1>1, <1>6, OutputNotBegun DEF GenInv
<1> QED BY <1>2, <1>3, <1>4, <1>5, <1>6, <1>7 DEF GenInv

LEMMA AutomatonPassKeeps == GenInv /\ AutomatonPass => GenInv'
<1> SUFFICES ASSUME GenInv, AutomatonPass PROVE GenInv'
  OBVIOUS
<1>1. npc = "done" /\ L!Next /\ UNCHANGED nvars /\ UNCHANGED avars /\ UNCHANGED outputvars
  BY DEF AutomatonPass
<1>2. LP!Next /\ gram' = gram /\ lpc # "done"
  BY <1>1, AutomatonSteps
<1>3. gram \in Grammars /\ NP!IInv /\ LP!IInv /\ LP!LedTo /\ R!Begin
  BY <1>2 DEF GenInv
<1>4. NP!IInv' /\ npc' = "done"
  BY <1>1, <1>2, <1>3, NullableRests DEF nvars
<1>5. LP!IInv' /\ LP!LedTo'
  BY <1>2, <1>3, BucketsAssumed, AutomatonAssumes, LP!InvariantKept, LP!LedToKept
<1>6. R!Begin' /\ apc = "begin" /\ apc' = "begin" /\ rtab' = rtab
  BY <1>1, <1>3, SearchNotBegun DEF R!Begin, avars
<1>7. SearchInv'
  BY <1>6 DEF SearchInv
<1>8. Begin'
  BY <1>1, <1>6, OutputNotBegun DEF GenInv
<1> QED BY <1>2, <1>3, <1>4, <1>5, <1>6, <1>7, <1>8 DEF GenInv

LEMMA LookaheadPassKeeps == GenInv /\ LookaheadPass => GenInv'
<1> SUFFICES ASSUME GenInv, LookaheadPass PROVE GenInv'
  OBVIOUS
<1>1. lpc = "done" /\ R!Next /\ UNCHANGED nvars /\ UNCHANGED lvars /\ UNCHANGED outputvars
  BY DEF LookaheadPass
<1>2. gram' = gram /\ states' = states /\ apc # "done"
  BY <1>1, SearchSteps
<1>3. gram \in Grammars /\ NP!IInv /\ LP!IInv /\ LP!LedTo /\ npc = "done" /\ Begin
  BY <1>1, <1>2 DEF GenInv
<1>4. NP!IInv' /\ npc' = npc
  BY <1>1, <1>2, <1>3, NullableRests DEF nvars
<1>5. LP!IInv' /\ LP!LedTo' /\ lpc' = lpc
  BY <1>1, <1>2, <1>3, AutomatonRests DEF lvars
<1>6. SearchInv'
  BY <1>1, GivenThen, SearchKeeps
<1>7. Begin'
  BY <1>1, <1>3, OutputNotBegun
<1> QED BY <1>1, <1>2, <1>3, <1>4, <1>5, <1>6, <1>7 DEF GenInv

LEMMA OutputPassKeeps == GenInv /\ OutputPass => GenInv'
<1> SUFFICES ASSUME GenInv, OutputPass PROVE GenInv'
  OBVIOUS
<1>1. apc = "done" /\ Next /\ UNCHANGED nvars /\ UNCHANGED lvars /\ UNCHANGED avars
  BY DEF OutputPass
<1>2. gram' = gram /\ states' = states
  BY <1>1, OutputSteps DEF inputs
<1>3. gram \in Grammars /\ NP!IInv /\ LP!IInv /\ LP!LedTo /\ lpc = "done" /\ npc = "done" /\ SearchInv
  BY <1>1 DEF GenInv, R!Begin
<1>4. NP!IInv' /\ npc' = npc
  BY <1>1, <1>2, <1>3, NullableRests DEF nvars
<1>5. LP!IInv' /\ LP!LedTo' /\ lpc' = lpc
  BY <1>1, <1>2, <1>3, AutomatonRests DEF lvars
<1>6. SearchInv' /\ apc' = apc
  BY <1>1, <1>2, <1>3, SearchStays DEF avars
<1>7. OutputInv
  <2>1. Tables
    BY <1>1, TablesThen
  <2>2. Begin \/ OutputInv
    BY DEF GenInv
  <2> QED BY <2>1, <2>2, OutputStarts
<1>8. OutputInv'
  BY <1>1, <1>7, OutputKept
<1> QED BY <1>1, <1>2, <1>3, <1>4, <1>5, <1>6, <1>8 DEF GenInv

LEMMA RestKeeps == GenInv /\ UNCHANGED allvars => GenInv'
<1> SUFFICES ASSUME GenInv, UNCHANGED allvars PROVE GenInv'
  OBVIOUS
<1>1. gram' = gram /\ UNCHANGED nvars /\ UNCHANGED lvars /\ UNCHANGED avars /\ UNCHANGED outputvars
  BY DEF allvars
<1>2. states' = states /\ npc' = npc /\ lpc' = lpc /\ apc' = apc /\ rtab' = rtab
  BY <1>1 DEF nvars, lvars, avars
<1>3. inputs' = inputs
  BY <1>1, <1>2 DEF inputs
<1>4. NP!IInv'
  BY <1>1, NullableRests DEF GenInv
<1>5. LP!IInv' /\ LP!LedTo'
  BY <1>1, AutomatonRests DEF GenInv
<1>6. lpc = "done" => SearchInv'
  BY <1>1, <1>2, SearchStays DEF GenInv
<1>7. lpc # "done" => R!Begin'
  BY <1>1, SearchNotBegun DEF GenInv
<1>8. apc # "done" => Begin'
  BY <1>1, OutputNotBegun DEF GenInv
<1>9. Begin' \/ OutputInv'
  BY <1>1, <1>3, OutputRests DEF GenInv
<1> QED BY <1>1, <1>2, <1>4, <1>5, <1>6, <1>7, <1>8, <1>9 DEF GenInv

(***************************************************************************)
(* The passes, run one after the other on any grammar of any size, keep    *)
(* what they have to keep for one another.                                 *)
(***************************************************************************)
THEOREM InductiveInvariant == Spec => []GenInv
<1>1. GenInv /\ [Pass]_allvars => GenInv'
  BY NullablePassKeeps, AutomatonPassKeeps, LookaheadPassKeeps, OutputPassKeeps, RestKeeps DEF Pass, Finished
<1> QED BY PassesBegin, <1>1, PTL DEF Spec

\* What has been written was written by the last pass, from finished tables.
LEMMA Written == GenInv /\ pc = "written" => apc = "done" /\ OutputInv
BY DEF GenInv, Begin

\* What the program that the arrays are compiled into relies on.
LEMMA HandsOver ==
  GenInv /\ pc = "written" =>
    /\ IsGrammar(gram) /\ AreTables(gram, actions, gotos)
    /\ \E its \in [0..(Len(actions) - 1) -> SUBSET (RuleIds(gram) \X Nat)] :
         GuidedBy(gram, actions, gotos, its)
<1> SUFFICES ASSUME GenInv, pc = "written"
             PROVE  /\ IsGrammar(gram) /\ AreTables(gram, actions, gotos)
                    /\ \E its \in [0..(Len(actions) - 1) -> SUBSET (RuleIds(gram) \X Nat)] :
                         GuidedBy(gram, actions, gotos, its)
  OBVIOUS
<1>1. apc = "done" /\ OutputInv
  BY Written
<1>2. AreTables(gram, actions, gotos) /\ GuidedBy(gram, actions, gotos, ItemsOf)
  BY <1>1, ArraysRight DEF ArraysFaithful
<1>3. Len(actions) = Len(states) /\ IsGrammar(gram)
  BY <1>1 DEF OutputInv, Acted, Tables
<1>4. ItemsOf \in [0..(Len(actions) - 1) -> SUBSET (RuleIds(gram) \X Nat)]
  <2>1. lpc = "done"
    BY <1>1 DEF GenInv, R!Begin
  <2>2. Given
    BY <2>1, GivenThen
  <2>3. \A s \in StateIds : Has(s) \subseteq RuleIds(gram) \X Nat
    BY <2>2, GivenFacts, StateFacts DEF Points
  <2>4. \A s \in StateIds : ItemsOf[s] = Has(s)
    BY DEF ItemsOf, Has, Kernel
  <2>5. ItemsOf = [s \in StateIds |-> ItemsOf[s]]
    BY DEF ItemsOf
  <2>6. StateIds = 0..(Len(actions) - 1)
    BY <1>3 DEF StateIds
  <2> QED BY <2>3, <2>4, <2>5, <2>6
<1> QED BY <1>2, <1>3, <1>4

-----------------------------------------------------------------------------
(* What the arrays say if no actions compete and no lookahead is missing.  *)

\* Every item that is followed by something is an item of its state.
LEMMA FollowedItems ==
  ASSUME Built, NEW s, NEW p, NEW a, <<s, p, a>> \in Ref!Follows(gram, states)
  PROVE  s \in StateIds /\ p \in Has(s) /\ a \in gram.terms \cup {Nil}
<1> DEFINE D == {f \in Marked(gram, states) : f[2] \in Has(f[1])}
<1>1. gram \in Grammars /\ Len(states) \in Nat /\ Len(states) >= 1 /\ 0 \in StateIds
  <2>1. IsAutomaton(gram, states)
    BY DEF Built
  <2>2. Len(states) \in Nat /\ Len(states) >= 2
    BY <2>1 DEF IsAutomaton
  <2> QED BY <2>2 DEF Built, StateIds
<1>2. <<0, <<0, 0>>, Nil>> \in D
  <2>1. <<0, 0>> \in Kernel(0) /\ <<0, 0>> \in Has(0) /\ <<0, 0>> \in Points(gram)
    BY <1>1, StateFacts
  <2> QED BY <2>1, <1>1 DEF Marked, StateIds
<1>3. ASSUME NEW f \in D, NEW e \in Marked(gram, states), HandedOn(gram, states, f, e) PROVE e \in D
  <2> DEFINE y == f[1]
             k == f[2]
  <2>1. y \in StateIds /\ k \in Has(y)
    BY DEF Marked, StateIds
  <2> HIDE DEF D
  <2>2. /\ ~ AtEnd(gram, k)
        /\ \/ e = <<Goto(states, y, AfterDot(gram, k)), <<k[1], k[2] + 1>>, f[3]>>
           \/ \E r \in RuleIds(gram) : \E b : Lhs(gram, r) = AfterDot(gram, k) /\ e = <<y, <<r, 0>>, b>>
    BY <1>3 DEF HandedOn
  <2> HIDE DEF y, k
  <2>3. CASE e = <<Goto(states, y, AfterDot(gram, k)), <<k[1], k[2] + 1>>, f[3]>>
    <3>1. Over(k) \in Has(Goto(states, y, AfterDot(gram, k)))
      BY <2>1, <2>2, GotoFacts
    <3>2. e[1] = Goto(states, y, AfterDot(gram, k)) /\ e[2] = Over(k)
      BY <2>3 DEF Over
    <3> QED BY <3>1, <3>2 DEF D
  <2>4. ASSUME NEW r \in RuleIds(gram), NEW b, Lhs(gram, r) = AfterDot(gram, k), e = <<y, <<r, 0>>, b>>
        PROVE  e \in D
    <3>1. <<r, 0>> \in Has(y)
      BY <2>1, <2>2, <2>4, StateFacts
    <3>2. e[1] = y /\ e[2] = <<r, 0>>
      BY <2>4
    <3> QED BY <3>1, <3>2 DEF D
  <2> QED BY <2>2, <2>3, <2>4
<1>4. D \in SUBSET Marked(gram, states)
  OBVIOUS
<1> DEFINE z == <<s, p, a>>
<1>5. z \in D
  <2> HIDE DEF D
  <2> QED BY <1>1, <1>2, <1>3, <1>4, FollowsFacts
<1>6. z[1] = s /\ z[2] = p /\ z[3] = a
  OBVIOUS
<1> HIDE DEF z
<1>7. z \in Marked(gram, states) /\ z[2] \in Has(z[1])
  BY <1>5
<1> QED BY <1>6, <1>7 DEF Marked, StateIds

\* The accepting item is in state 1 only.
LEMMA AcceptingState ==
  ASSUME Built, NEW s \in StateIds, <<0, 2>> \in Has(s)
  PROVE  s = 1
<1> SUFFICES ASSUME s # 1 PROVE FALSE
  OBVIOUS
<1>1. gram \in Grammars /\ Len(states) \in Nat /\ Len(states) >= 2
  BY StateFacts DEF Built
<1>2. s # 0
  BY StateFacts
<1>3. <<0, 2>> \in Kernel(s)
  <2>1. <<0, 2>> \in Kernel(s) \/ \E r \in RuleIds(gram) : <<0, 2>> = <<r, 0>>
    BY StateFacts
  <2> QED BY <2>1
<1>4. s \in 2..(Len(states) - 1)
  BY <1>1, <1>2 DEF StateIds
<1>5. PICK y \in 0..(s - 1) : Occurs(s, Go(y))
  BY <1>4 DEF Built, IsAutomaton, Go
<1>6. y \in StateIds
  BY <1>1, <1>4 DEF StateIds
<1>7. PICK k \in 1..Len(Go(y)) : Go(y)[k] = s
  BY <1>5 DEF Occurs
<1>8. \A p \in Kernel(s) : p \in Points(gram) /\ p[2] >= 1 /\ Rhs(gram, p[1])[p[2]] = Sym(s)
  BY <1>6, <1>7, EnteredFacts
<1>9. Sym(s) = Eof
  <2>1. <<0, 2>>[1] = 0 /\ <<0, 2>>[2] = 2
    OBVIOUS
  <2>2. 0 \in RuleIds(gram) /\ 2 \in 1..Length(gram, 0)
    <3>1. 0 \in RuleIds(gram) /\ Length(gram, 0) = 2
      BY <1>1, GramFacts
    <3>2. 2 \in 1..2
      OBVIOUS
    <3> QED BY <3>1, <3>2
  <2>3. Rhs(gram, 0)[2] = Eof
    BY <1>1, <2>2, GramFacts
  <2> QED BY <1>3, <1>8, <2>1, <2>3
<1>10. ASSUME NEW p \in Kernel(s) PROVE p = <<0, 2>>
  <2>1. p \in RuleIds(gram) \X Nat /\ p[2] <= Length(gram, p[1]) /\ p[2] >= 1 /\ Rhs(gram, p[1])[p[2]] = Eof
    BY <1>8, <1>9 DEF Points
  <2>2. Length(gram, p[1]) \in Nat
    BY <1>1, <2>1, GramFacts
  <2>3. p[2] \in 1..Length(gram, p[1])
    BY <2>1, <2>2
  <2>4. p[1] = 0 /\ p[2] = 2
    BY <1>1, <2>1, <2>3, GramFacts
  <2> QED BY <2>1, <2>4
<1>11. Kernel(s) = Kernel(1)
  <2>1. Kernel(1) = {<<0, 2>>}
    BY StateFacts
  <2> DEFINE p == <<0, 2>>
  <2>2. p \in Kernel(s) /\ \A k1 \in Kernel(s) : k1 = p
    BY <1>3, <1>10
  <2> HIDE DEF p
  <2>3. Kernel(s) = {p}
    BY <2>2
  <2> QED BY <2>1, <2>3 DEF p
<1>12. s + 1 \in 1..Len(states) /\ 2 \in 1..Len(states) /\ states[s + 1].kernel = states[2].kernel
  <2>1. 1 + 1 = 2
    OBVIOUS
  <2> QED BY <1>1, <1>4, <1>11, <2>1 DEF Kernel
<1>13. s + 1 = 2
  BY <1>12 DEF Built, IsAutomaton
<1> QED BY <1>4, <1>13

\* The only reduction on a symbol is the one that is found.
LEMMA OnlyReduction ==
  ASSUME Tables, NEW s \in StateIds, NEW x, ~ (Cardinality(Reduces(s, x)) > 1), NEW r \in Reduces(s, x)
  PROVE  Reduces(s, x) # {} /\ (CHOOSE y \in Reduces(s, x) : TRUE) = r
<1>1. IsFiniteSet(Reduces(s, x))
  BY ReducesFinite
<1>2. \A y \in Reduces(s, x) : y = r
  BY <1>1, TwoElements
<1>3. (CHOOSE y \in Reduces(s, x) : TRUE) \in Reduces(s, x)
  OBVIOUS
<1> QED BY <1>2, <1>3

(***************************************************************************)
(* From item <<r, j>> of state s, which a may follow, on: its symbol x is  *)
(* shifted or has a goto, and if it is a nonterminal then its rules are    *)
(* there with all that may come behind it.                                 *)
(***************************************************************************)
Moves(F, B, s, r, j, a) ==
  LET x == Rhs(gram, r)[j + 1] IN
  /\ <<gotos[s + 1][SymId(x)], <<r, j + 1>>, a>> \in F
  /\ x \in gram.terms => actions[s + 1][SymId(x)] = 0
  /\ \A b \in gram.terms :
       (IF j + 1 = Length(gram, r) THEN b = a ELSE <<Rhs(gram, r)[j + 2], b>> \in B) =>
         \A n \in RuleIds(gram) : Lhs(gram, n) = x => <<s, <<n, 0>>, b>> \in F

(***************************************************************************)
(* The arrays of a grammar without conflicts of which no lookahead was     *)
(* missed: a terminal behind the dot is shifted, a shift or a goto moves   *)
(* the item, the rules of a nonterminal behind the dot are there with all  *)
(* that may come behind it, a completed item is reduced on what may follow *)
(* it, and that of %start is in state 1.                                   *)
(***************************************************************************)
LEMMA Directs ==
  ASSUME GenInv, pc = "written", reports = {}, LookaheadsFound,
         NEW F, F = Ref!Follows(gram, states), NEW B, B = Ref!FirstPairs(gram)
  PROVE  /\ \A t \in gram.terms : <<t, t>> \in B
         /\ \A r \in RuleIds(gram) : \A a \in gram.terms :
              Length(gram, r) > 0 /\ <<Rhs(gram, r)[1], a>> \in B => <<Lhs(gram, r), a>> \in B
         /\ <<0, <<0, 0>>, Nil>> \in F
         /\ \A s, r, j, a : <<s, <<r, j>>, a>> \in F =>
              /\ j < Length(gram, r) => Moves(F, B, s, r, j, a)
              /\ j = Length(gram, r) /\ r # 0 /\ a # Nil => actions[s + 1][SymId(a)] = r
              /\ r = 0 /\ j = 2 => s = 1
<1>1. apc = "done" /\ OutputInv /\ lpc = "done"
  <2>1. apc = "done" /\ OutputInv
    BY Written
  <2> QED BY <2>1 DEF GenInv, R!Begin
<1>2. Given /\ Tables
  BY <1>1, GivenThen, TablesThen
<1>3. Built /\ gram \in Grammars /\ Len(states) \in Nat /\ Len(states) >= 1
  <2>1. Built
    BY <1>2 DEF Given
  <2> QED BY <2>1, StateFacts DEF Built, IsAutomaton
\* No actions compete.
<1>4. \A s \in StateIds : \A x \in Symbols(gram) :
        ~ (Cardinality(Reduces(s, x)) > 1) /\ ~ (Reduces(s, x) # {} /\ Shifts(s, x))
  <2> SUFFICES ASSUME NEW s \in StateIds, NEW x \in Symbols(gram)
               PROVE  ~ (Cardinality(Reduces(s, x)) > 1) /\ ~ (Reduces(s, x) # {} /\ Shifts(s, x))
    OBVIOUS
  <2>1. s < Len(states)
    BY <1>3 DEF StateIds
  <2>2. Reported(Len(states))
    BY <1>1 DEF OutputInv
  <2>3. Competing(s, x) = {}
    BY <2>1, <2>2 DEF Reported
  <2> QED BY <2>3 DEF Competing
<1>5. \A s \in StateIds : \A x \in gram.terms \cup gram.nonterms :
        /\ gotos[s + 1][SymId(x)] = IF Shifts(s, x) THEN Goto(states, s, x) ELSE 0
        /\ actions[s + 1][SymId(x)] = IF Reduces(s, x) = {} THEN 0 ELSE CHOOSE r \in Reduces(s, x) : TRUE
  BY <1>1, ArraysRight DEF ArraysFaithful
<1>6. /\ F \in SUBSET Marked(gram, states) /\ <<0, <<0, 0>>, Nil>> \in F
      /\ \A f \in F : \A e \in Marked(gram, states) : HandedOn(gram, states, f, e) => e \in F
  BY <1>3, FollowsFacts
<1>7. /\ \A t \in gram.terms : <<t, t>> \in B
      /\ \A r \in RuleIds(gram) : \A a : Starts(gram, <<r, 0>>, a) => <<Lhs(gram, r), a>> \in B
  BY <1>3, FirstFacts
<1>8. ASSUME NEW p \in Points(gram), NEW a, p[2] < Length(gram, p[1]), <<Rhs(gram, p[1])[p[2] + 1], a>> \in B
      PROVE  Starts(gram, p, a)
  <2>1. p[2] \in Nat /\ p[1] \in RuleIds(gram) /\ Length(gram, p[1]) \in Nat
    BY <1>3, GramFacts DEF Points
  <2>2. p[2] + 1 \in (p[2] + 1)..Length(gram, p[1]) /\ \A k \in (p[2] + 1)..((p[2] + 1) - 1) : FALSE
    BY <2>1, <1>8
  <2> QED BY <2>2, <1>8 DEF Starts
<1>9. ASSUME NEW r \in RuleIds(gram), NEW a, Length(gram, r) > 0, <<Rhs(gram, r)[1], a>> \in B
      PROVE  <<Lhs(gram, r), a>> \in B
  <2> DEFINE p == <<r, 0>>
  <2>1. p[1] = r /\ p[2] = 0 /\ 0 + 1 = 1
    OBVIOUS
  <2>2. p \in Points(gram)
    <3>1. Length(gram, r) \in Nat
      BY <1>3, GramFacts
    <3>2. p \in RuleIds(gram) \X Nat /\ p[2] <= Length(gram, p[1])
      BY <2>1, <3>1
    <3> QED BY <3>2 DEF Points
  <2> HIDE DEF p
  <2>3. Starts(gram, p, a)
    BY <2>1, <2>2, <1>8, <1>9
  <2> QED BY <2>3, <1>7 DEF p
<1>10. ASSUME NEW s, NEW r, NEW j, NEW a, <<s, <<r, j>>, a>> \in F
       PROVE  /\ j < Length(gram, r) => Moves(F, B, s, r, j, a)
              /\ j = Length(gram, r) /\ r # 0 /\ a # Nil => actions[s + 1][SymId(a)] = r
              /\ r = 0 /\ j = 2 => s = 1
  <2> DEFINE p == <<r, j>>
             f == <<s, p, a>>
             x == Rhs(gram, r)[j + 1]
             t == Goto(states, s, x)
  <2>1. p[1] = r /\ p[2] = j /\ f[1] = s /\ f[2] = p /\ f[3] = a /\ f \in F
    BY <1>10
  <2>2. s \in StateIds /\ p \in Has(s) /\ a \in gram.terms \cup {Nil}
    BY <1>3, <1>10, FollowedItems
  <2> HIDE DEF p, f
  <2>3. p \in Points(gram)
    BY <1>3, <2>2, StateFacts
  <2>4. r \in RuleIds(gram) /\ j \in Nat /\ j <= Length(gram, r) /\ Length(gram, r) \in Nat
    BY <1>3, <2>1, <2>3, GramFacts DEF Points
  <2>5. ASSUME j < Length(gram, r) PROVE Moves(F, B, s, r, j, a)
    <3>1. ~ AtEnd(gram, p) /\ AfterDot(gram, p) = x
      BY <2>1, <2>4, <2>5 DEF AtEnd, AfterDot
    <3>2. /\ t \in StateIds /\ x \in gram.terms \cup gram.nonterms /\ Over(p) \in Has(t)
          /\ \E k \in 1..Len(Go(s)) : t = Go(s)[k]
      BY <1>3, <2>2, <3>1, GotoFacts
    <3>3. x \in Symbols(gram)
      BY <3>2 DEF Symbols
    <3>4. Shifts(s, x)
      <4>1. Advance(gram, Has(s), x) # {}
        <5>1. <<p[1], p[2] + 1>> \in Advance(gram, Has(s), x)
          BY <2>2, <3>1 DEF Advance
        <5> QED BY <5>1
      <4>2. PICK k \in 1..Len(Go(s)) : Sym(Go(s)[k]) = x
        BY <1>3, <2>2, <3>3, <4>1, GoFacts
      <4>3. Targets(states, s, x) = {Go(s)[k]}
        BY <1>3, <2>2, <4>2, GoFacts
      <4> QED BY <4>3 DEF Shifts
    <3>5. gotos[s + 1][SymId(x)] = t
      BY <1>5, <2>2, <3>2, <3>4
    <3>6. actions[s + 1][SymId(x)] = 0
      BY <1>4, <1>5, <2>2, <3>2, <3>3, <3>4
    <3> HIDE DEF x, t
    <3>7. <<t, <<r, j + 1>>, a>> \in F
      <4> DEFINE e == <<t, <<r, j + 1>>, a>>
      <4>1. Over(p) = <<r, j + 1>> /\ Over(p) \in Points(gram)
        BY <1>3, <2>1, <3>2, StateFacts DEF Over
      <4>2. e \in Marked(gram, states)
        BY <2>2, <3>2, <4>1 DEF Marked, StateIds
      <4>3. HandedOn(gram, states, f, e)
        BY <2>1, <3>1 DEF HandedOn, t
      <4> HIDE DEF e
      <4>4. e \in F
        BY <1>6, <2>1, <4>2, <4>3
      <4> QED BY <4>4 DEF e
    <3>8. ASSUME NEW b \in gram.terms, NEW n \in RuleIds(gram), Lhs(gram, n) = x,
                 IF j + 1 = Length(gram, r) THEN b = a ELSE <<Rhs(gram, r)[j + 2], b>> \in B
          PROVE  <<s, <<n, 0>>, b>> \in F
      <4> DEFINE e == <<s, <<n, 0>>, b>>
                 o == <<p[1], p[2] + 1>>
      <4>1. <<n, 0>> \in Points(gram)
        <5>1. Length(gram, n) \in Nat
          BY <1>3, GramFacts
        <5>2. <<n, 0>>[1] = n /\ <<n, 0>>[2] = 0
          OBVIOUS
        <5> QED BY <5>1, <5>2 DEF Points
      <4>2. e \in Marked(gram, states)
        BY <2>2, <4>1 DEF Marked, StateIds
      <4>3. \/ Starts(gram, o, b)
            \/ b = f[3] /\ \A k \in (p[2] + 2)..Length(gram, p[1]) : Rhs(gram, p[1])[k] \in Ref!Empty(gram)
        <5>1. CASE j + 1 = Length(gram, r)
          <6>1. b = a
            BY <3>8, <5>1
          <6>2. \A k \in (p[2] + 2)..Length(gram, p[1]) : FALSE
            BY <2>1, <2>4, <5>1
          <6> QED BY <2>1, <6>1, <6>2
        <5>2. CASE j + 1 # Length(gram, r)
          <6>1. <<Rhs(gram, r)[j + 2], b>> \in B
            BY <3>8, <5>2
          <6>2. o[1] = r /\ o[2] = j + 1 /\ (j + 1) + 1 = j + 2 /\ j + 1 < Length(gram, r) /\ j + 1 \in Nat
            BY <2>1, <2>4, <2>5, <5>2
          <6>3. o \in Points(gram)
            BY <2>1, <2>4, <6>2 DEF Points
          <6> HIDE DEF o
          <6>4. Starts(gram, o, b)
            BY <6>1, <6>2, <6>3, <1>8
          <6> QED BY <6>4
        <5> QED BY <5>1, <5>2
      <4>4. HandedOn(gram, states, f, e)
        <5> HIDE DEF e
        <5>1. Lhs(gram, n) = AfterDot(gram, p) /\ e = <<f[1], <<n, 0>>, b>>
          BY <2>1, <3>1, <3>8 DEF e
        <5> QED BY <2>1, <3>1, <4>3, <5>1 DEF HandedOn
      <4> HIDE DEF e
      <4>5. e \in F
        BY <1>6, <2>1, <4>2, <4>4
      <4> QED BY <4>5 DEF e
    <3> QED BY <3>5, <3>6, <3>7, <3>8 DEF Moves, x
  <2>6. ASSUME j = Length(gram, r), r # 0, a # Nil PROVE actions[s + 1][SymId(a)] = r
    <3>1. Ref!AtEnd(gram, p)
      BY <2>1, <2>4, <2>6, RefOperators DEF AtEnd
    <3>2. <<s, r, a>> \in Ref!Lookaheads(gram, states)
      <4>1. <<s, r, a>> = <<f[1], f[2][1], f[3]>>
        BY <2>1
      <4>2. f \in {y \in Ref!Follows(gram, states) : Ref!AtEnd(gram, y[2]) /\ y[2][1] # 0 /\ y[3] # Nil}
        BY <2>1, <2>6, <3>1
      <4> QED BY <4>1, <4>2 DEF Ref!Lookaheads
    <3>3. <<s, r, a>> \in Found
      BY <3>2 DEF LookaheadsFound
    <3>4. PICK z \in DOMAIN rtab : \E e \in ToSet(rtab[z]) : <<s, r, a>> = <<z, e[2], e[1]>>
      BY <3>3 DEF Found
    <3>5. PICK e \in ToSet(rtab[s]) : r = e[2] /\ a = e[1]
      BY <3>4
    <3>6. rtab[s] \in Seq(Symbols(gram) \X RuleIds(gram))
      BY <1>2, <2>2 DEF Tables, ReducetabSorted
    <3>7. PICK n \in 1..Len(rtab[s]) : e = rtab[s][n]
      BY <3>6, ElementsFinite
    <3>8. e \in Symbols(gram) \X RuleIds(gram)
      BY <3>6, <3>7, ElementOfSeq
    <3>9. e = <<a, r>>
      BY <3>5, <3>8
    <3>10. r \in Reduces(s, a)
      BY <2>4, <3>7, <3>9 DEF Reduces, Occurs
    <3>11. a \in gram.terms \cup gram.nonterms /\ a \in Symbols(gram)
      BY <2>2, <2>6 DEF Symbols
    <3>12. Reduces(s, a) # {} /\ (CHOOSE y \in Reduces(s, a) : TRUE) = r
      BY <1>2, <1>4, <2>2, <3>10, <3>11, OnlyReduction
    <3> QED BY <1>5, <2>2, <3>11, <3>12
  <2>7. ASSUME r = 0, j = 2 PROVE s = 1
    BY <1>3, <2>2, <2>7, AcceptingState DEF p
  <2> QED BY <2>5, <2>6, <2>7
<1> QED BY <1>6, <1>7, <1>9, <1>10

\* Every lookahead found is one, and the tables are as conflicts and codgen_c need them.
THEOREM FindsOnlyLookaheads == Spec => []LookaheadsSound
<1>1. GenInv => LookaheadsSound
  BY Written, TablesThen DEF LookaheadsSound, Done
<1> QED BY <1>1, InductiveInvariant, PTL

\* The messages name the states and symbols at which two actions compete, and no others.
THEOREM ConflictsReported == Spec => []ConflictsExact
<1>1. GenInv => ConflictsExact
  <2>1. pc # "written" => ConflictsExact
    BY DEF ConflictsExact
  <2> QED BY <2>1, Written, MessagesRight
<1> QED BY <1>1, InductiveInvariant, PTL

\* The arrays say what the tables say, and follow the automaton whatever the conflicts.
THEOREM ArraysAreFaithful == Spec => []ArraysFaithful
<1>1. GenInv => ArraysFaithful
  <2>1. pc # "written" => ArraysFaithful
    BY DEF ArraysFaithful
  <2> QED BY <2>1, Written, ArraysRight
<1> QED BY <1>1, InductiveInvariant, PTL
=============================================================================
