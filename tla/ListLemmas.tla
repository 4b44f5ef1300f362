----------------------------- MODULE ListLemmas -----------------------------
(***************************************************************************)
(* Facts about the linked lists of the program, modelled as sequences: what *)
(* putting an element in front, or taking the first one, does to membership *)
(* and to the absence of repetitions.  And induction over the natural      *)
(* numbers, stated with a set instead of a predicate: the library's        *)
(* theorem has a predicate as parameter, which no backend can instantiate. *)
(* And what a recursive function computes: the values it goes through, the *)
(* joining of sequences, the least set that is closed under something.     *)
(***************************************************************************)
EXTENDS GrammarData, SequencesExt, SequenceTheorems, FiniteSetTheorems, WellFoundedInduction, TLAPS

\* Putting x in front of a list adds x and nothing else.
LEMMA PushOccurs ==
  ASSUME NEW T, NEW s \in Seq(T), NEW x \in T
  PROVE  /\ <<x>> \o s \in Seq(T)
         /\ <<x>> \o s # << >>
         /\ \A y : Occurs(y, <<x>> \o s) <=> y = x \/ Occurs(y, s)
<1> DEFINE p == <<x>> \o s
<1>1. <<x>> \in Seq(T) /\ Len(<<x>>) = 1 /\ <<x>>[1] = x
  OBVIOUS
<1>2. /\ p \in Seq(T) /\ Len(p) = 1 + Len(s)
      /\ \A i \in 1..(1 + Len(s)) : p[i] = IF i <= 1 THEN <<x>>[i] ELSE s[i - 1]
  BY <1>1, ConcatProperties
<1>3. Len(s) \in Nat
  BY LenProperties
<1> HIDE DEF p
<1>4. ASSUME NEW y, Occurs(y, p) PROVE y = x \/ Occurs(y, s)
  <2>1. PICK i \in 1..Len(p) : p[i] = y
    BY <1>4 DEF Occurs
  <2>2. CASE i = 1
    BY <2>1, <2>2, <1>1, <1>2
  <2>3. CASE i # 1
    <3>1. i - 1 \in 1..Len(s) /\ s[i - 1] = y
      BY <2>1, <2>3, <1>2, <1>3
    <3> QED BY <3>1 DEF Occurs
  <2> QED BY <2>2, <2>3
<1>5. Occurs(x, p)
  <2>1. 1 \in 1..Len(p) /\ p[1] = x
    BY <1>1, <1>2, <1>3
  <2> QED BY <2>1 DEF Occurs
<1>6. ASSUME NEW y, Occurs(y, s) PROVE Occurs(y, p)
  <2>1. PICK i \in 1..Len(s) : s[i] = y
    BY <1>6 DEF Occurs
  <2>2. i + 1 \in 1..Len(p) /\ p[i + 1] = y
    BY <2>1, <1>2, <1>3
  <2> QED BY <2>2 DEF Occurs
<1>7. p # << >>
  BY <1>2, <1>3, EmptySeq
<1> QED BY <1>2, <1>4, <1>5, <1>6, <1>7 DEF p

\* A list stays without repetitions if what is put in front is new.
LEMMA PushNoRepeats ==
  ASSUME NEW T, NEW s \in Seq(T), NEW x \in T, NoRepeats(s), ~ Occurs(x, s)
  PROVE  NoRepeats(<<x>> \o s)
<1> DEFINE p == <<x>> \o s
<1>1. <<x>> \in Seq(T) /\ Len(<<x>>) = 1 /\ <<x>>[1] = x
  OBVIOUS
<1>2. /\ p \in Seq(T) /\ Len(p) = 1 + Len(s)
      /\ \A i \in 1..(1 + Len(s)) : p[i] = IF i <= 1 THEN <<x>>[i] ELSE s[i - 1]
  BY <1>1, ConcatProperties
<1>3. Len(s) \in Nat
  BY LenProperties
<1> HIDE DEF p
<1>4. ASSUME NEW i \in 1..Len(p), NEW j \in 1..Len(p), i < j PROVE p[i] # p[j]
  <2>1. j - 1 \in 1..Len(s) /\ p[j] = s[j - 1]
    BY <1>2, <1>3, <1>4
  <2>2. CASE i = 1
    BY <2>1, <2>2, <1>1, <1>2, <1>3 DEF Occurs
  <2>3. CASE i # 1
    <3>1. i - 1 \in 1..Len(s) /\ p[i] = s[i - 1] /\ i - 1 # j - 1
      BY <2>3, <1>2, <1>3, <1>4
    <3> QED BY <2>1, <3>1 DEF NoRepeats
  <2> QED BY <2>2, <2>3
<1>5. ASSUME NEW i \in 1..Len(p), NEW j \in 1..Len(p), i # j PROVE p[i] # p[j]
  <2>1. i < j \/ j < i
    BY <1>2, <1>3, <1>5
  <2> QED BY <2>1, <1>4
<1> QED BY <1>5 DEF NoRepeats, p

\* Taking the first element of a list without repetitions removes it and nothing else.
LEMMA PopOccurs ==
  ASSUME NEW T, NEW s \in Seq(T), s # << >>, NoRepeats(s)
  PROVE  /\ Head(s) \in T /\ Tail(s) \in Seq(T)
         /\ NoRepeats(Tail(s))
         /\ Occurs(Head(s), s) /\ ~ Occurs(Head(s), Tail(s))
         /\ \A y : Occurs(y, s) <=> y = Head(s) \/ Occurs(y, Tail(s))
<1> DEFINE t == Tail(s)
<1>1. /\ Head(s) \in T /\ t \in Seq(T) /\ Len(t) = Len(s) - 1
      /\ \A i \in 1..Len(t) : t[i] = s[i + 1]
  BY HeadTailProperties
<1>2. Len(s) \in Nat \ {0} /\ Head(s) = s[1]
  BY EmptySeq
<1> HIDE DEF t
<1>3. Occurs(Head(s), s)
  <2>1. 1 \in 1..Len(s)
    BY <1>2
  <2> QED BY <2>1, <1>2 DEF Occurs
<1>4. ASSUME NEW i \in 1..Len(t) PROVE i + 1 \in 1..Len(s) /\ i + 1 # 1 /\ t[i] = s[i + 1]
  BY <1>1, <1>2
<1>5. ~ Occurs(Head(s), t)
  <2>1. 1 \in 1..Len(s)
    BY <1>2
  <2> QED BY <2>1, <1>2, <1>4 DEF Occurs, NoRepeats
<1>6. NoRepeats(t)
  <2> SUFFICES ASSUME NEW i \in 1..Len(t), NEW j \in 1..Len(t), i # j PROVE t[i] # t[j]
    BY DEF NoRepeats
  <2>1. i + 1 # j + 1
    OBVIOUS
  <2> QED BY <2>1, <1>4 DEF NoRepeats
<1>7. ASSUME NEW y, Occurs(y, t) PROVE Occurs(y, s)
  BY <1>7, <1>4 DEF Occurs
<1>8. ASSUME NEW y, Occurs(y, s), y # Head(s) PROVE Occurs(y, t)
  <2>1. PICK i \in 1..Len(s) : s[i] = y
    BY <1>8 DEF Occurs
  <2>2. i # 1
    BY <2>1, <1>2, <1>8
  <2>3. i - 1 \in 1..Len(t) /\ t[i - 1] = s[(i - 1) + 1] /\ (i - 1) + 1 = i
    BY <2>2, <1>1, <1>2
  <2> QED BY <2>1, <2>3 DEF Occurs
<1> QED BY <1>1, <1>3, <1>5, <1>6, <1>7, <1>8 DEF t

\* A list behind another one adds its elements and nothing else.
LEMMA ConcatOccurs ==
  ASSUME NEW T, NEW s \in Seq(T), NEW t \in Seq(T)
  PROVE  \A y : Occurs(y, s \o t) <=> Occurs(y, s) \/ Occurs(y, t)
<1> DEFINE p == s \o t
<1>1. /\ Len(p) = Len(s) + Len(t) /\ Len(s) \in Nat /\ Len(t) \in Nat
      /\ \A i \in 1..(Len(s) + Len(t)) : p[i] = IF i <= Len(s) THEN s[i] ELSE t[i - Len(s)]
  BY ConcatProperties, LenProperties
<1> HIDE DEF p
<1>2. ASSUME NEW y, Occurs(y, p) PROVE Occurs(y, s) \/ Occurs(y, t)
  <2>1. PICK i \in 1..Len(p) : p[i] = y
    BY <1>2 DEF Occurs
  <2>2. CASE i <= Len(s)
    <3>1. i \in 1..Len(s) /\ s[i] = y
      BY <2>1, <2>2, <1>1
    <3> QED BY <3>1 DEF Occurs
  <2>3. CASE ~ (i <= Len(s))
    <3>1. i - Len(s) \in 1..Len(t) /\ t[i - Len(s)] = y
      BY <2>1, <2>3, <1>1
    <3> QED BY <3>1 DEF Occurs
  <2> QED BY <2>2, <2>3
<1>3. ASSUME NEW y, Occurs(y, s) PROVE Occurs(y, p)
  <2>1. PICK i \in 1..Len(s) : s[i] = y
    BY <1>3 DEF Occurs
  <2>2. i \in 1..Len(p) /\ p[i] = y
    BY <2>1, <1>1
  <2> QED BY <2>2 DEF Occurs
<1>4. ASSUME NEW y, Occurs(y, t) PROVE Occurs(y, p)
  <2>1. PICK i \in 1..Len(t) : t[i] = y
    BY <1>4 DEF Occurs
  <2>2. i + Len(s) \in 1..Len(p) /\ p[i + Len(s)] = y
    BY <2>1, <1>1
  <2> QED BY <2>2 DEF Occurs
<1> QED BY <1>2, <1>3, <1>4 DEF p

\* Two lists without repetitions that share no element make one without repetitions.
LEMMA ConcatNoRepeats ==
  ASSUME NEW T, NEW s \in Seq(T), NEW t \in Seq(T), NoRepeats(s), NoRepeats(t),
         \A y : ~ (Occurs(y, s) /\ Occurs(y, t))
  PROVE  NoRepeats(s \o t)
<1> DEFINE p == s \o t
<1>1. /\ Len(p) = Len(s) + Len(t) /\ Len(s) \in Nat /\ Len(t) \in Nat
      /\ \A i \in 1..(Len(s) + Len(t)) : p[i] = IF i <= Len(s) THEN s[i] ELSE t[i - Len(s)]
  BY ConcatProperties, LenProperties
<1> HIDE DEF p
<1>2. ASSUME NEW i \in 1..Len(p), NEW j \in 1..Len(p), i < j PROVE p[i] # p[j]
  <2>1. CASE j <= Len(s)
    <3>1. i \in 1..Len(s) /\ j \in 1..Len(s) /\ p[i] = s[i] /\ p[j] = s[j] /\ i # j
      BY <2>1, <1>1, <1>2
    <3> QED BY <3>1 DEF NoRepeats
  <2>2. CASE ~ (i <= Len(s))
    <3>1. /\ i - Len(s) \in 1..Len(t) /\ j - Len(s) \in 1..Len(t)
          /\ p[i] = t[i - Len(s)] /\ p[j] = t[j - Len(s)] /\ i - Len(s) # j - Len(s)
      BY <2>2, <1>1, <1>2
    <3> QED BY <3>1 DEF NoRepeats
  <2>3. CASE i <= Len(s) /\ ~ (j <= Len(s))
    <3>1. i \in 1..Len(s) /\ p[i] = s[i] /\ j - Len(s) \in 1..Len(t) /\ p[j] = t[j - Len(s)]
      BY <2>3, <1>1, <1>2
    <3>2. Occurs(p[i], s) /\ Occurs(p[j], t)
      BY <3>1 DEF Occurs
    <3> QED BY <3>2
  <2> QED BY <1>1, <2>1, <2>2, <2>3
<1>3. ASSUME NEW i \in 1..Len(p), NEW j \in 1..Len(p), i # j PROVE p[i] # p[j]
  <2>1. i < j \/ j < i
    BY <1>1, <1>3
  <2> QED BY <2>1, <1>2
<1> QED BY <1>3 DEF NoRepeats, p

\* A list without repetitions has no more elements than there are.
LEMMA NoLonger ==
  ASSUME NEW S, NEW s \in Seq(S), NEW T, IsFiniteSet(T),
         \A k \in 1..Len(s) : s[k] \in T, NoRepeats(s)
  PROVE  Len(s) <= Cardinality(T)
<1> DEFINE f == [k \in 1..Len(s) |-> s[k]]
<1>1. Len(s) \in Nat
  BY LenProperties
<1>2. Cardinality(1..Len(s)) = Len(s)
  <2>1. 1 \in Int /\ Len(s) \in Int
    BY <1>1
  <2>2. Cardinality(1..Len(s)) = IF 1 > Len(s) THEN 0 ELSE Len(s) - 1 + 1
    BY <2>1, FS_Interval
  <2> QED BY <1>1, <2>2
<1>3. f \in Injection(1..Len(s), T)
  <2>1. f \in [1..Len(s) -> T]
    OBVIOUS
  <2>2. \A k, l \in 1..Len(s) : f[k] = f[l] => k = l
    BY DEF NoRepeats
  <2> HIDE DEF f
  <2> QED BY <2>1, <2>2 DEF Injection, IsInjective
<1>4. Cardinality(1..Len(s)) <= Cardinality(T)
  <2> HIDE DEF f
  <2> QED BY <1>3, FS_Injection
<1> QED BY <1>2, <1>4

\* The numbers up to n are finitely many: n.
LEMMA CountUpTo ==
  ASSUME NEW n \in Nat
  PROVE  IsFiniteSet(1..n) /\ Cardinality(1..n) = n
<1>1. 1 \in Int /\ n \in Int
  OBVIOUS
<1> QED BY <1>1, FS_Interval

\* A list of numbers up to n without repetitions that misses one has less than n of them.
LEMMA MissesOne ==
  ASSUME NEW n \in Nat, NEW s \in Seq(1..n), NEW x \in 1..n, NoRepeats(s), ~ Occurs(x, s)
  PROVE  Len(s) < n
<1> DEFINE T == (1..n) \ {x}
<1>1. IsFiniteSet(T) /\ Cardinality(T) = n - 1
  BY CountUpTo, FS_RemoveElement
<1>2. \A k \in 1..Len(s) : s[k] \in T
  BY ElementOfSeq DEF Occurs
<1>3. Len(s) \in Nat
  BY LenProperties
<1>4. Len(s) <= Cardinality(T)
  <2> HIDE DEF T
  <2> QED BY <1>1, <1>2, NoLonger
<1> QED BY <1>1, <1>3, <1>4

-----------------------------------------------------------------------------
(* The numbers of the symbols.                                             *)

\* Every symbol has a column, and no two have the same.
LEMMA ColumnExists ==
  ASSUME NEW g, IsGrammar(g)
  PROVE  /\ \A x \in Symbols(g) : SymbolId(g, x) \in Columns(g)
         /\ \A x, y \in Symbols(g) : SymbolId(g, x) = SymbolId(g, y) => x = y
         /\ Columns(g) \subseteq Nat
<1>1. ASSUME NEW x \in Symbols(g)
      PROVE  SymbolId(g, x) + 1 \in 1..Len(g.syms) /\ SymbolId(g, x) \in Int /\ g.syms[SymbolId(g, x) + 1] = x
  <2>1. \E k \in 1..Len(g.syms) : g.syms[k] = x
    BY DEF IsGrammar, Occurs
  <2> DEFINE k == CHOOSE k \in 1..Len(g.syms) : g.syms[k] = x
  <2>2. k \in 1..Len(g.syms) /\ g.syms[k] = x
    BY <2>1
  <2> HIDE DEF k
  <2>3. SymbolId(g, x) = k - 1
    BY DEF SymbolId, k
  <2>4. SymbolId(g, x) + 1 = k /\ SymbolId(g, x) \in Int
    BY <2>2, <2>3
  <2> QED BY <2>2, <2>4
<1>2. Len(g.syms) \in Nat
  <2>1. g.syms \in Seq(Symbols(g))
    BY DEF IsGrammar
  <2> QED BY <2>1, LenProperties
<1>3. ASSUME NEW x \in Symbols(g) PROVE SymbolId(g, x) \in Columns(g)
  BY <1>1, <1>2 DEF Columns
<1>4. Columns(g) \subseteq Nat
  BY <1>2 DEF Columns
<1> QED BY <1>1, <1>3, <1>4

-----------------------------------------------------------------------------
(* Induction.                                                              *)

\* A set of natural numbers has a least element: finite sets are well-founded.
LEMMA NatLeast ==
  ASSUME NEW T \in SUBSET Nat, T # {}
  PROVE  \E n \in T : \A m \in T : n <= m
<1> DEFINE F == {0..n : n \in T}
<1>1. PICK t \in T : TRUE
  OBVIOUS
<1>2. F # {} /\ F \subseteq FiniteSubsetsOf(Nat)
  <2>1. ASSUME NEW n \in T PROVE 0..n \in FiniteSubsetsOf(Nat)
    BY FS_Interval DEF FiniteSubsetsOf
  <2> QED BY <2>1, <1>1
<1>3. PICK x \in F : \A y \in F : <<y, x>> \notin StrictSubsetOrdering(Nat)
  <2> HIDE DEF F
  <2> QED BY <1>2, FS_StrictSubsetOrderingWellFounded, WFMin
<1>4. PICK n \in T : x = 0..n
  OBVIOUS
<1>5. ASSUME NEW m \in T, m < n PROVE FALSE
  <2>1. n \in 0..n /\ n \notin 0..m
    BY <1>5
  <2>2. 0..m \subseteq 0..n /\ 0..m # 0..n /\ 0..m \in SUBSET Nat /\ 0..n \in SUBSET Nat
    BY <2>1, <1>5
  <2>3. <<0..m, 0..n>> \in StrictSubsetOrdering(Nat)
    BY <2>2 DEF StrictSubsetOrdering
  <2> QED BY <2>3, <1>3, <1>4
<1> QED BY <1>5

\* A set that has 0, and n + 1 with every n, has every natural number.
LEMMA SetInduction ==
  ASSUME NEW S, 0 \in S, \A n \in Nat : n \in S => n + 1 \in S
  PROVE  Nat \subseteq S
<1> SUFFICES ASSUME ~ (Nat \subseteq S) PROVE FALSE
  OBVIOUS
<1> DEFINE T == Nat \ S
<1>1. PICK n \in T : \A m \in T : n <= m
  <2>1. T \in SUBSET Nat /\ T # {}
    OBVIOUS
  <2> HIDE DEF T
  <2> QED BY <2>1, NatLeast
<1>2. n # 0 /\ n \in Nat /\ n \notin S
  OBVIOUS
<1>3. n - 1 \in Nat /\ (n - 1) + 1 = n
  BY <1>2
<1>4. n - 1 \in S
  BY <1>1, <1>3
<1> QED BY <1>2, <1>3, <1>4

\* h starts with b and makes N steps, each as F says.
IsRun(h, T, b, N, F) ==
  h \in [0..N -> T] /\ h[0] = b /\ \A n \in 1..N : h[n] = F[n][h[n - 1]]

\* Recursion: a value and a step from each value to the next define a sequence of values.
LEMMA StepsExist ==
  ASSUME NEW T, NEW b \in T, NEW N \in Nat, NEW F \in [1..N -> [T -> T]]
  PROVE  \E h : IsRun(h, T, b, N, F)
<1> DEFINE Runs(m, h) == h[0] = b /\ \A n \in 1..m : h[n] = F[n][h[n - 1]]
           S == {m \in Nat : m <= N => \E h \in [0..m -> T] : Runs(m, h)}
<1>1. 0 \in S
  <2>1. [n \in 0..0 |-> b] \in [0..0 -> T] /\ Runs(0, [n \in 0..0 |-> b])
    OBVIOUS
  <2> QED BY <2>1
<1>2. ASSUME NEW m \in Nat, m \in S PROVE m + 1 \in S
  <2> SUFFICES ASSUME m + 1 <= N PROVE \E h \in [0..(m + 1) -> T] : Runs(m + 1, h)
    OBVIOUS
  <2>1. PICK h \in [0..m -> T] : Runs(m, h)
    BY <1>2
  <2> DEFINE j == [n \in 0..(m + 1) |-> IF n = m + 1 THEN F[m + 1][h[m]] ELSE h[n]]
  <2>2. m + 1 \in 1..N /\ m \in 0..m /\ h[m] \in T
    OBVIOUS
  <2>3. F[m + 1][h[m]] \in T
    BY <2>2
  <2>4. j \in [0..(m + 1) -> T]
    BY <2>3
  <2>5. \A n \in 0..m : j[n] = h[n]
    OBVIOUS
  <2>6. j[m + 1] = F[m + 1][j[m]]
    OBVIOUS
  <2> HIDE DEF j
  <2>7. ASSUME NEW n \in 1..(m + 1) PROVE j[n] = F[n][j[n - 1]]
    <3>1. CASE n = m + 1
      BY <2>6, <3>1
    <3>2. CASE n # m + 1
      <4>1. n \in 1..m /\ n \in 0..m /\ n - 1 \in 0..m
        BY <3>2
      <4> QED BY <4>1, <2>1, <2>5
    <3> QED BY <3>1, <3>2
  <2>8. Runs(m + 1, j)
    BY <2>7, <2>5, <2>1
  <2> QED BY <2>4, <2>8
<1>3. N \in S
  <2> HIDE DEF S
  <2> QED BY <1>1, <1>2, SetInduction
<1>4. PICK h \in [0..N -> T] : Runs(N, h)
  BY <1>3
<1> QED BY <1>4 DEF IsRun

-----------------------------------------------------------------------------
(* FlattenSeq.                                                             *)

\* The function that FlattenSeq defines by recursion.
Flattened(seqs) ==
  CHOOSE f : f = [i \in 1..Len(seqs) |-> IF i = 1 THEN seqs[i] ELSE f[i - 1] \o seqs[i]]

\* The function of the joined beginnings exists.
LEMMA FlattenedDefined ==
  ASSUME NEW A, NEW seqs \in Seq(Seq(A)), Len(seqs) # 0
  PROVE  /\ Flattened(seqs)[1] = seqs[1]
         /\ \A i \in 2..Len(seqs) : Flattened(seqs)[i] = Flattened(seqs)[i - 1] \o seqs[i]
         /\ \A i \in 1..Len(seqs) : Flattened(seqs)[i] \in Seq(A)
<1> DEFINE N == Len(seqs)
           S == Seq(A)
           Step(i, l) == IF i = 1 THEN seqs[i] ELSE l \o seqs[i]
           F == [i \in 1..N |-> [l \in S |-> Step(i, l)]]
           f == Flattened(seqs)
<1>1. N \in Nat /\ N >= 1
  BY LenProperties
<1>2. ASSUME NEW i \in 1..N PROVE seqs[i] \in S
  BY ElementOfSeq
<1>3. ASSUME NEW i \in 1..N, NEW l \in S PROVE Step(i, l) \in S
  <2>1. l \o seqs[i] \in S
    BY <1>2, ConcatProperties
  <2> QED BY <2>1, <1>2
<1>4. F \in [1..N -> [S -> S]] /\ \A i \in 1..N : \A l \in S : F[i][l] = Step(i, l)
  <2> HIDE DEF Step, S
  <2> QED BY <1>3
<1>5. PICK h \in [0..N -> S] : \A i \in 1..N : h[i] = F[i][h[i - 1]]
  <2>1. F \in [1..N -> [S -> S]]
    BY <1>4
  <2>2. seqs[1] \in S
    BY <1>1, <1>2
  <2>3. N \in Nat
    BY <1>1
  <2> DEFINE b == seqs[1]
  <2>5. b \in S
    BY <2>2
  <2> HIDE DEF F, S, N, Step, f, b
  <2>4. \E h : IsRun(h, S, b, N, F)
    BY <2>1, <2>5, <2>3, StepsExist
  <2> QED BY <2>4 DEF IsRun
<1>6. ASSUME NEW i \in 1..N PROVE h[i] = Step(i, h[i - 1]) /\ h[i] \in S
  <2>1. i - 1 \in 0..N /\ i \in 0..N
    BY <1>1
  <2>2. h[i - 1] \in S /\ h[i] \in S
    BY <2>1
  <2> HIDE DEF F, S, Step
  <2> QED BY <2>2, <1>4, <1>5
<1> DEFINE g == [i \in 1..N |-> h[i]]
<1>7. ASSUME NEW i \in 1..N PROVE g[i] = Step(i, g[i - 1])
  <2>1. CASE i = 1
    BY <2>1, <1>6
  <2>2. CASE i # 1
    <3>1. i - 1 \in 1..N
      BY <2>2, <1>1
    <3>2. g[i - 1] = h[i - 1] /\ g[i] = h[i]
      BY <3>1
    <3> QED BY <3>2, <1>6
  <2> QED BY <2>1, <2>2
<1>8. g = [i \in 1..N |-> Step(i, g[i - 1])]
  <2> HIDE DEF Step
  <2> QED BY <1>7
<1>9. f = [i \in 1..N |-> Step(i, f[i - 1])]
  <2> HIDE DEF g
  <2> QED BY <1>8, Zenon DEF Flattened
<1> HIDE DEF f
<1>10. ASSUME NEW i \in 1..N PROVE f[i] = Step(i, f[i - 1])
  <2> HIDE DEF Step
  <2> QED BY <1>9
<1>11. f[1] = seqs[1]
  <2>1. 1 \in 1..N
    BY <1>1
  <2>2. f[1] = Step(1, f[1 - 1])
    <3> HIDE DEF Step
    <3> QED BY <2>1, <1>10
  <2> QED BY <2>2
<1>12. ASSUME NEW i \in 2..N PROVE f[i] = f[i - 1] \o seqs[i]
  <2>1. i \in 1..N /\ i # 1
    BY <1>1
  <2>2. f[i] = Step(i, f[i - 1])
    BY <2>1, <1>10
  <2> QED BY <2>1, <2>2
<1>13. ASSUME NEW i \in 1..N PROVE f[i] \in S
  <2> DEFINE I == {m \in Nat : m + 1 <= N => f[m + 1] \in S}
  <2>1. 0 \in I
    BY <1>1, <1>2, <1>11
  <2>2. ASSUME NEW m \in Nat, m \in I PROVE m + 1 \in I
    <3> SUFFICES ASSUME (m + 1) + 1 <= N PROVE f[(m + 1) + 1] \in S
      OBVIOUS
    <3> DEFINE k == (m + 1) + 1
    <3>1. k \in 2..N /\ k \in 1..N /\ k - 1 = m + 1 /\ m + 1 <= N
      BY <1>1
    <3>2. f[k] = f[m + 1] \o seqs[k]
      BY <3>1, <1>12
    <3>3. f[m + 1] \in S /\ seqs[k] \in S
      BY <3>1, <2>2, <1>2
    <3> HIDE DEF k
    <3>4. f[k] \in S
      BY <3>2, <3>3, ConcatProperties
    <3> QED BY <3>4 DEF k
  <2>3. Nat \subseteq I
    <3> HIDE DEF I
    <3> QED BY <2>1, <2>2, SetInduction
  <2>4. i - 1 \in Nat /\ (i - 1) + 1 = i /\ i <= N
    BY <1>1
  <2>5. i - 1 \in I
    <3> HIDE DEF I
    <3> QED BY <2>3, <2>4
  <2> QED BY <2>4, <2>5
<1> QED BY <1>11, <1>12, <1>13 DEF f

\* Nothing flattens to nothing.
LEMMA FlattenEmpty == FlattenSeq(<< >>) = << >>
<1>1. Len(<< >>) = 0
  OBVIOUS
<1> QED BY <1>1 DEF FlattenSeq

-----------------------------------------------------------------------------
(* Least sets.                                                             *)

\* What a set T grows to, step by step, by what C adds to it.
IsGrown(f, U, C) ==
  f = [T \in SUBSET U |-> LET V == T \cup C[T] IN IF V = T THEN T ELSE f[V]]

\* Whatever is added is in U, and more in a set leads to no less being added.
Grows(U, C) ==
  C \in [SUBSET U -> SUBSET U] /\ \A P, Q \in SUBSET U : P \subseteq Q => C[P] \subseteq C[Q]

\* Sets can be grown, if more in them leads to no less being added ...
LEMMA GrownExists ==
  ASSUME NEW U, NEW C, Grows(U, C)
  PROVE  \E f : IsGrown(f, U, C)
<1> USE DEF Grows
<1> DEFINE Above(T) == {D \in SUBSET U : T \subseteq D /\ C[D] \subseteq D}
           f == [T \in SUBSET U |-> {x \in U : \A D \in Above(T) : x \in D}]
<1>1. ASSUME NEW T \in SUBSET U PROVE Above(T \cup C[T]) = Above(T)
  <2>1. ASSUME NEW D \in SUBSET U, T \subseteq D, C[D] \subseteq D PROVE C[T] \subseteq D
    BY <2>1
  <2> QED BY <2>1
<1>2. ASSUME NEW T \in SUBSET U, T \cup C[T] = T PROVE f[T] = T
  BY <1>2
<1>3. ASSUME NEW T \in SUBSET U PROVE f[T] = f[T \cup C[T]]
  <2>1. T \cup C[T] \in SUBSET U
    OBVIOUS
  <2> HIDE DEF Above
  <2> QED BY <1>1, <2>1
<1>4. f = [T \in SUBSET U |-> f[T]]
  OBVIOUS
<1> HIDE DEF f
<1>5. f = [T \in SUBSET U |-> LET V == T \cup C[T] IN IF V = T THEN T ELSE f[V]]
  BY <1>2, <1>3, <1>4
<1> QED BY <1>5 DEF IsGrown

\* ... and they grow to the least set that nothing is added to.
LEMMA GrownFacts ==
  ASSUME NEW U, IsFiniteSet(U), NEW C, Grows(U, C), NEW f, IsGrown(f, U, C), NEW S \in SUBSET U
  PROVE  /\ S \subseteq f[S] /\ f[S] \in SUBSET U /\ C[f[S]] \subseteq f[S]
         /\ \A D \in SUBSET U : S \subseteq D /\ C[D] \subseteq D => f[S] \subseteq D
<1> USE DEF Grows
<1> DEFINE Good(T) ==
             /\ T \subseteq f[T] /\ f[T] \in SUBSET U /\ C[f[T]] \subseteq f[T]
             /\ \A D \in SUBSET U : T \subseteq D /\ C[D] \subseteq D => f[T] \subseteq D
           I == {n \in Nat : \A T \in SUBSET U : Cardinality(U \ T) <= n => Good(T)}
<1>1. \A T \in SUBSET U : f[T] = IF T \cup C[T] = T THEN T ELSE f[T \cup C[T]]
  BY DEF IsGrown
<1>2. ASSUME NEW T \in SUBSET U, T \cup C[T] = T PROVE Good(T)
  BY <1>1, <1>2
<1>3. ASSUME NEW T \in SUBSET U PROVE IsFiniteSet(U \ T) /\ Cardinality(U \ T) \in Nat
  <2>1. IsFiniteSet(U \ T)
    BY FS_Subset
  <2> QED BY <2>1, FS_CardinalityType
<1>4. 0 \in I
  <2> SUFFICES ASSUME NEW T \in SUBSET U, Cardinality(U \ T) <= 0 PROVE Good(T)
    OBVIOUS
  <2>1. U \ T = {}
    BY <1>3, FS_EmptySet
  <2>2. T \cup C[T] = T
    BY <2>1
  <2> QED BY <1>2, <2>2
<1>5. ASSUME NEW n \in Nat, n \in I PROVE n + 1 \in I
  <2> SUFFICES ASSUME NEW T \in SUBSET U, Cardinality(U \ T) <= n + 1, T \cup C[T] # T PROVE Good(T)
    BY <1>2
  <2> DEFINE V == T \cup C[T]
  <2>1. V \in SUBSET U /\ U \ V \in SUBSET (U \ T) /\ U \ V # U \ T
    OBVIOUS
  <2> HIDE DEF V, Good
  <2>2. Cardinality(U \ V) < Cardinality(U \ T)
    <3>1. IsFiniteSet(U \ T)
      BY <1>3
    <3>2. Cardinality(U \ V) <= Cardinality(U \ T) /\ Cardinality(U \ V) # Cardinality(U \ T)
      BY <2>1, <3>1, FS_Subset
    <3>3. Cardinality(U \ V) \in Nat /\ Cardinality(U \ T) \in Nat
      BY <2>1, <1>3
    <3> QED BY <3>2, <3>3
  <2>3. Cardinality(U \ V) <= n
    <3>1. Cardinality(U \ V) \in Nat /\ Cardinality(U \ T) \in Nat
      BY <2>1, <1>3
    <3> QED BY <3>1, <2>2
  <2>4. Good(V)
    BY <2>1, <2>3, <1>5
  <2>5. f[T] = f[V]
    <3>1. T \in SUBSET U /\ V = T \cup C[T] /\ V # T
      BY DEF V
    <3> HIDE DEF I
    <3> QED BY <3>1, <1>1
  <2>6. \A D \in SUBSET U : T \subseteq D /\ C[D] \subseteq D => V \subseteq D
    BY DEF V
  <2>7. T \subseteq V
    BY DEF V
  <2> QED BY <2>4, <2>5, <2>6, <2>7 DEF Good
<1>6. Cardinality(U \ S) \in I
  <2>1. Cardinality(U \ S) \in Nat
    BY <1>3
  <2> HIDE DEF I
  <2> QED BY <2>1, <1>4, <1>5, SetInduction
<1> QED BY <1>3, <1>6

-----------------------------------------------------------------------------
(* Sequences of sequences, joined.                                         *)

\* A sequence of sequences over A flattens to a sequence over A.
LEMMA FlattenType ==
  ASSUME NEW A, NEW seqs \in Seq(Seq(A))
  PROVE  FlattenSeq(seqs) \in Seq(A)
<1>1. CASE Len(seqs) = 0
  <2>1. seqs = << >> /\ << >> \in Seq(A)
    BY <1>1, EmptySeq
  <2> QED BY <2>1, FlattenEmpty
<1>2. CASE Len(seqs) # 0
  <2>1. FlattenSeq(seqs) = Flattened(seqs)[Len(seqs)]
    BY <1>2 DEF FlattenSeq, Flattened
  <2>2. Len(seqs) \in 1..Len(seqs)
    BY <1>2, LenProperties
  <2>3. \A m \in 1..Len(seqs) : Flattened(seqs)[m] \in Seq(A)
    BY <1>2, FlattenedDefined
  <2> QED BY <2>1, <2>2, <2>3
<1> QED BY <1>1, <1>2

\* A sequence behind the others flattens to itself behind the others.
LEMMA FlattenAppend ==
  ASSUME NEW A, NEW s \in Seq(Seq(A)), NEW x \in Seq(A)
  PROVE  FlattenSeq(Append(s, x)) = FlattenSeq(s) \o x
<1> DEFINE p == Append(s, x)
<1>1. /\ p \in Seq(Seq(A)) /\ Len(p) = Len(s) + 1 /\ Len(s) \in Nat
      /\ \A m \in 1..Len(s) : p[m] = s[m]
      /\ p[Len(s) + 1] = x
  BY AppendProperties, LenProperties
<1> HIDE DEF p
<1>2. Len(p) # 0
  BY <1>1
<1>3. FlattenSeq(p) = Flattened(p)[Len(p)]
  BY <1>2 DEF FlattenSeq, Flattened
<1>4. /\ Flattened(p)[1] = p[1]
      /\ \A m \in 2..Len(p) : Flattened(p)[m] = Flattened(p)[m - 1] \o p[m]
  BY <1>1, <1>2, FlattenedDefined
<1>5. CASE Len(s) = 0
  <2>1. s = << >>
    BY <1>5, EmptySeq
  <2>2. FlattenSeq(p) = x
    BY <1>1, <1>3, <1>4, <1>5
  <2>3. << >> \o x = x
    BY ConcatEmptySeq
  <2> QED BY <2>1, <2>2, <2>3, FlattenEmpty DEF p
<1>6. CASE Len(s) # 0
  <2>1. FlattenSeq(s) = Flattened(s)[Len(s)]
    BY <1>6 DEF FlattenSeq, Flattened
  <2>2. /\ Flattened(s)[1] = s[1]
        /\ \A m \in 2..Len(s) : Flattened(s)[m] = Flattened(s)[m - 1] \o s[m]
    BY <1>6, FlattenedDefined
  <2> DEFINE I == {m \in Nat : m + 1 <= Len(s) => Flattened(p)[m + 1] = Flattened(s)[m + 1]}
  <2>3. 0 \in I
    BY <1>1, <1>4, <1>6, <2>2
  <2>4. ASSUME NEW m \in Nat, m \in I PROVE m + 1 \in I
    <3> SUFFICES ASSUME (m + 1) + 1 <= Len(s)
                 PROVE  Flattened(p)[(m + 1) + 1] = Flattened(s)[(m + 1) + 1]
      OBVIOUS
    <3> DEFINE k == (m + 1) + 1
    <3>1. k \in 2..Len(s) /\ k \in 2..Len(p) /\ k \in 1..Len(s) /\ k - 1 = m + 1 /\ m + 1 <= Len(s)
      BY <1>1
    <3>2. Flattened(p)[m + 1] = Flattened(s)[m + 1]
      BY <3>1, <2>4
    <3> HIDE DEF k
    <3>3. Flattened(p)[k] = Flattened(p)[m + 1] \o p[k] /\ Flattened(s)[k] = Flattened(s)[m + 1] \o s[k]
      BY <3>1, <1>4, <2>2
    <3>4. Flattened(p)[k] = Flattened(s)[k]
      BY <3>1, <3>2, <3>3, <1>1
    <3> QED BY <3>4 DEF k
  <2>5. Nat \subseteq I
    <3> HIDE DEF I
    <3> QED BY <2>3, <2>4, SetInduction
  <2>6. Len(s) - 1 \in Nat /\ (Len(s) - 1) + 1 = Len(s)
    BY <1>1, <1>6
  <2>7. Len(s) - 1 \in I
    <3> HIDE DEF I
    <3> QED BY <2>5, <2>6
  <2>8. Flattened(p)[Len(s)] = Flattened(s)[Len(s)]
    BY <2>6, <2>7
  <2>9. Len(p) \in 2..Len(p) /\ Len(p) - 1 = Len(s)
    BY <1>1, <1>6
  <2>10. Flattened(p)[Len(p)] = Flattened(p)[Len(s)] \o x
    BY <2>9, <1>1, <1>4
  <2> QED BY <2>1, <2>8, <2>10, <1>3 DEF p
<1> QED BY <1>5, <1>6

\* A sequence of one element.
LEMMA OfOne ==
  ASSUME NEW A, NEW x \in A
  PROVE  <<x>> \in Seq(A) /\ Len(<<x>>) = 1 /\ <<x>>[1] = x
OBVIOUS

\* Joining sequences is associative.
LEMMA JoinAssociates ==
  ASSUME NEW A, NEW a \in Seq(A), NEW b \in Seq(A), NEW c \in Seq(A)
  PROVE  (a \o b) \o c = a \o (b \o c)
BY ConcatAssociative

\* Two parts flatten to what they flatten to, one behind the other.
LEMMA FlattenConcat ==
  ASSUME NEW A, NEW s \in Seq(Seq(A)), NEW t \in Seq(Seq(A))
  PROVE  FlattenSeq(s \o t) = FlattenSeq(s) \o FlattenSeq(t)
<1> DEFINE I == {n \in Nat : \A u \in Seq(Seq(A)) :
                   Len(u) = n => FlattenSeq(s \o u) = FlattenSeq(s) \o FlattenSeq(u)}
<1>1. FlattenSeq(s) \in Seq(A)
  BY FlattenType
<1>2. 0 \in I
  <2> SUFFICES ASSUME NEW u \in Seq(Seq(A)), Len(u) = 0
               PROVE  FlattenSeq(s \o u) = FlattenSeq(s) \o FlattenSeq(u)
    OBVIOUS
  <2>1. u = << >>
    BY EmptySeq
  <2>2. s \o u = s
    BY <2>1, ConcatEmptySeq
  <2>3. FlattenSeq(s) \o << >> = FlattenSeq(s)
    BY <1>1, ConcatEmptySeq
  <2> QED BY <2>1, <2>2, <2>3, FlattenEmpty
<1>3. ASSUME NEW n \in Nat, n \in I PROVE n + 1 \in I
  <2> SUFFICES ASSUME NEW u \in Seq(Seq(A)), Len(u) = n + 1
               PROVE  FlattenSeq(s \o u) = FlattenSeq(s) \o FlattenSeq(u)
    OBVIOUS
  <2>1. u # << >>
    BY EmptySeq
  <2>2. PICK v \in Seq(Seq(A)), x \in Seq(A) : u = Append(v, x)
    BY <2>1, SequenceEmptyOrAppend
  <2>3. Len(v) = n
    BY <2>2, AppendProperties, LenProperties
  <2>4. FlattenSeq(s \o v) = FlattenSeq(s) \o FlattenSeq(v)
    BY <1>3, <2>3
  <2>5. s \o v \in Seq(Seq(A)) /\ s \o u = Append(s \o v, x)
    <3>1. s \o v \in Seq(Seq(A))
      BY ConcatProperties
    <3>2. <<x>> \in Seq(Seq(A))
      OBVIOUS
    <3>3. u = v \o <<x>>
      BY <2>2, AppendIsConcat
    <3>4. s \o (v \o <<x>>) = (s \o v) \o <<x>>
      BY <3>2, ConcatAssociative, SMTT(30)
    <3>5. Append(s \o v, x) = (s \o v) \o <<x>>
      BY <3>1, AppendIsConcat
    <3> QED BY <3>1, <3>3, <3>4, <3>5
  <2>6. FlattenSeq(s \o u) = (FlattenSeq(s) \o FlattenSeq(v)) \o x
    BY <2>4, <2>5, FlattenAppend
  <2>7. FlattenSeq(u) = FlattenSeq(v) \o x
    BY <2>2, FlattenAppend
  <2>8. FlattenSeq(v) \in Seq(A)
    BY FlattenType
  <2>9. x \in Seq(A)
    OBVIOUS
  <2> HIDE DEF I
  <2>10. (FlattenSeq(s) \o FlattenSeq(v)) \o x = FlattenSeq(s) \o (FlattenSeq(v) \o x)
    <3>1. PICK a \in Seq(A) : a = FlattenSeq(s)
      BY <1>1
    <3>2. PICK b \in Seq(A) : b = FlattenSeq(v)
      BY <2>8
    <3>3. (a \o b) \o x = a \o (b \o x)
      BY ONLY a \in Seq(A), b \in Seq(A), x \in Seq(A), JoinAssociates, SMTT(30)
    <3> QED BY <3>1, <3>2, <3>3
  <2> QED BY <2>6, <2>7, <2>10
<1>4. Nat \subseteq I
  <2> HIDE DEF I
  <2> QED BY <1>2, <1>3, SetInduction
<1>5. Len(t) \in Nat
  BY LenProperties
<1>6. Len(t) \in I
  <2> HIDE DEF I
  <2> QED BY <1>4, <1>5
<1> QED BY <1>6

\* Two sequences flatten to the second behind the first.
LEMMA FlattenTwo ==
  ASSUME NEW A, NEW h \in Seq(Seq(A)), Len(h) = 2
  PROVE  h[1] \in Seq(A) /\ h[2] \in Seq(A) /\ FlattenSeq(h) = h[1] \o h[2]
<1>1. h[1] \in Seq(A) /\ h[2] \in Seq(A)
  <2>1. 1 \in 1..Len(h) /\ 2 \in 1..Len(h)
    OBVIOUS
  <2> QED BY <2>1, ElementOfSeq
<1>2. Len(h) # 0
  OBVIOUS
<1>3. FlattenSeq(h) = Flattened(h)[2]
  BY <1>2 DEF FlattenSeq, Flattened
<1>4. Flattened(h)[1] = h[1] /\ \A m \in 2..Len(h) : Flattened(h)[m] = Flattened(h)[m - 1] \o h[m]
  BY <1>2, FlattenedDefined
<1>5. 2 \in 2..Len(h) /\ 2 - 1 = 1
  OBVIOUS
<1>6. Flattened(h)[2] = h[1] \o h[2]
  BY <1>4, <1>5
<1> QED BY <1>1, <1>3, <1>6

\* The first of two joined sequences.
LEMMA HeadOf ==
  ASSUME NEW A, NEW u \in Seq(A), u # << >>, NEW v \in Seq(A)
  PROVE  u \o v \in Seq(A) /\ u \o v # << >> /\ (u \o v)[1] = u[1] /\ u[1] \in A
<1>1. Len(u) \in Nat /\ Len(u) >= 1 /\ Len(v) \in Nat
  BY EmptySeq, LenProperties
<1>2. /\ u \o v \in Seq(A) /\ Len(u \o v) = Len(u) + Len(v)
      /\ \A k \in 1..Len(u) + Len(v) : (u \o v)[k] = IF k <= Len(u) THEN u[k] ELSE v[k - Len(u)]
  BY ConcatProperties
<1>3. (u \o v)[1] = u[1]
  BY <1>1, <1>2
<1>4. u \o v # << >>
  BY <1>1, <1>2, EmptySeq
<1>5. u[1] \in A
  BY <1>1, ElementOfSeq
<1> QED BY <1>2, <1>3, <1>4, <1>5

\* What is left of joined sequences without the first j of them.
LEMMA FlattenRests ==
  ASSUME NEW A, NEW ws \in Seq(Seq(A))
  PROVE  \E rest \in [0..Len(ws) -> Seq(A)] :
           /\ rest[Len(ws)] = << >> /\ rest[0] = FlattenSeq(ws)
           /\ \A j \in 1..Len(ws) : rest[j - 1] = ws[j] \o rest[j]
<1> DEFINE m == Len(ws)
           Q(j) == SubSeq(ws, j + 1, m)
           rest == [j \in 0..m |-> FlattenSeq(Q(j))]
<1>1. m \in Nat /\ \A j \in 1..m : ws[j] \in Seq(A)
  BY LenProperties, ElementOfSeq
<1>2. ASSUME NEW j \in 0..m PROVE Q(j) \in Seq(Seq(A))
  <2>1. \A k \in (j + 1)..m : ws[k] \in Seq(A)
    BY <1>1
  <2>2. j + 1 \in Int /\ m \in Int
    BY <1>1
  <2> QED BY <2>1, <2>2, SubSeqProperties
<1>3. ASSUME NEW j \in 0..m PROVE FlattenSeq(Q(j)) \in Seq(A)
  BY <1>2, FlattenType
<1>4. ASSUME NEW j \in 1..m PROVE FlattenSeq(Q(j - 1)) = ws[j] \o FlattenSeq(Q(j))
  <2>1. Q(j - 1) = <<ws[j]>> \o Q(j)
    <3>1. (j - 1) + 1 = j /\ m \in j..m
      BY <1>1
    <3>2. SubSeq(ws, j, m) = <<ws[j]>> \o SubSeq(ws, j + 1, m)
      BY <3>1, SubSeqRecursiveFirst
    <3> QED BY <3>1, <3>2
  <2>2. Q(j) \in Seq(Seq(A)) /\ <<ws[j]>> \in Seq(Seq(A)) /\ ws[j] \in Seq(A)
    <3>1. j \in 0..m
      BY <1>1
    <3> QED BY <1>1, <1>2, <3>1, OfOne
  <2> HIDE DEF Q
  <2>3. FlattenSeq(<<ws[j]>> \o Q(j)) = FlattenSeq(<<ws[j]>>) \o FlattenSeq(Q(j))
    BY <2>2, FlattenConcat
  <2>4. FlattenSeq(<<ws[j]>>) = ws[j]
    <3>1. << >> \in Seq(Seq(A)) /\ Append(<< >>, ws[j]) = <<ws[j]>>
      BY <2>2, EmptySeq
    <3>2. FlattenSeq(Append(<< >>, ws[j])) = FlattenSeq(<< >>) \o ws[j]
      BY <3>1, <2>2, FlattenAppend
    <3> QED BY <3>1, <3>2, <2>2, FlattenEmpty, ConcatEmptySeq
  <2> QED BY <2>1, <2>3, <2>4
<1>5. Q(0) = ws /\ Q(m) = << >>
  <2>1. 0 + 1 = 1 /\ SubSeq(ws, 1, m) = ws
    BY SubSeqFull
  <2>2. SubSeq(ws, m + 1, m) = << >>
    BY <1>1, SubSeqEmpty
  <2> QED BY <2>1, <2>2
<1> HIDE DEF Q
<1>6. rest \in [0..m -> Seq(A)]
  BY <1>3
<1>7. rest[m] = << >> /\ rest[0] = FlattenSeq(ws)
  BY <1>1, <1>5, FlattenEmpty
<1>8. ASSUME NEW j \in 1..m PROVE rest[j - 1] = ws[j] \o rest[j]
  <2>1. j - 1 \in 0..m /\ j \in 0..m
    BY <1>1
  <2>2. rest[j - 1] = FlattenSeq(Q(j - 1)) /\ rest[j] = FlattenSeq(Q(j))
    BY <2>1
  <2> QED BY <1>4, <2>2
<1> HIDE DEF rest
<1> QED BY <1>6, <1>7, <1>8

\* Behind the same element stands the same.
LEMMA SameBehind ==
  ASSUME NEW A, NEW t \in A, NEW u \in Seq(A), NEW v \in Seq(A), <<t>> \o u = <<t>> \o v
  PROVE  u = v
<1>1. <<t>> \in Seq(A) /\ Len(<<t>>) = 1
  BY OfOne
<1> DEFINE y == <<t>> \o u
           z == <<t>> \o v
<1>2. Len(y) = 1 + Len(u) /\ Len(u) \in Nat /\ \A k \in 1..Len(u) : y[1 + k] = u[k]
  <2>1. Len(y) = Len(<<t>>) + Len(u) /\ Len(u) \in Nat /\ \A k \in 1..Len(u) : y[Len(<<t>>) + k] = u[k]
    BY <1>1, ConcatProperties, LenProperties
  <2> QED BY <2>1, <1>1
<1>3. Len(z) = 1 + Len(v) /\ Len(v) \in Nat /\ \A k \in 1..Len(v) : z[1 + k] = v[k]
  <2>1. Len(z) = Len(<<t>>) + Len(v) /\ Len(v) \in Nat /\ \A k \in 1..Len(v) : z[Len(<<t>>) + k] = v[k]
    BY <1>1, ConcatProperties, LenProperties
  <2> QED BY <2>1, <1>1
<1>4. y = z
  OBVIOUS
<1> HIDE DEF y, z
<1>5. Len(u) = Len(v) /\ \A k \in 1..Len(u) : u[k] = v[k]
  <2>1. Len(u) = Len(v)
    BY <1>2, <1>3, <1>4
  <2> QED BY <2>1, <1>2, <1>3, <1>4
<1> QED BY <1>5, SeqEqual

\* A sequence is its front and its last element.
LEMMA FrontAndLast ==
  ASSUME NEW A, NEW w \in Seq(A), w # << >>
  PROVE  w = Front(w) \o <<Last(w)>>
<1>1. PICK v \in Seq(A), a \in A : w = Append(v, a)
  BY SequenceEmptyOrAppend
<1>2. Len(w) = Len(v) + 1 /\ w[Len(v) + 1] = a /\ Len(v) \in Nat /\ \A k \in 1..Len(v) : w[k] = v[k]
  BY <1>1, AppendProperties, LenProperties
<1>3. Last(w) = a
  BY <1>2 DEF Last
<1>4. Front(w) = SubSeq(w, 1, Len(v))
  <2>1. Len(w) - 1 = Len(v)
    BY <1>2
  <2> QED BY <2>1 DEF Front
<1> DEFINE y == SubSeq(w, 1, Len(v))
<1>5. y \in Seq(A) /\ Len(y) = Len(v) /\ \A k \in 1..Len(v) : y[k] = v[k]
  <2>1. Len(v) - 1 + 1 = Len(v) /\ 1 \in 1..Len(w) + 1 /\ Len(v) \in 1 - 1..Len(w)
        /\ \A k \in 1..Len(v) : 1 + k - 1 = k
    BY <1>2
  <2>2. /\ y \in Seq(A) /\ Len(y) = Len(v) - 1 + 1
        /\ \A k \in 1..(Len(v) - 1 + 1) : y[k] = w[1 + k - 1]
    BY <2>1, SubSeqProperties
  <2> QED BY <2>1, <2>2, <1>2
<1> HIDE DEF y
<1>6. y = v
  BY <1>5, SeqEqual
<1>7. w = v \o <<a>>
  BY <1>1, AppendIsConcat
<1> QED BY <1>3, <1>4, <1>6, <1>7 DEF y

\* Finitely many values make finitely many sequences of a length.
LEMMA FunctionsFinite ==
  ASSUME NEW T, IsFiniteSet(T), NEW k \in Nat
  PROVE  IsFiniteSet([1..k -> T])
<1> DEFINE I == {m \in Nat : IsFiniteSet([1..m -> T])}
<1>1. 0 \in I
  <2> DEFINE e == [x \in 1..0 |-> x]
  <2>1. [1..0 -> T] = {e}
    <3>1. 1..0 = {} /\ e \in [1..0 -> T]
      OBVIOUS
    <3>2. ASSUME NEW f \in [1..0 -> T] PROVE f = e
      BY <3>1
    <3> HIDE DEF e
    <3> QED BY <3>1, <3>2
  <2>2. IsFiniteSet({e})
    BY FS_Singleton
  <2> QED BY <2>1, <2>2
<1>2. ASSUME NEW m \in Nat, m \in I PROVE m + 1 \in I
  <2> DEFINE A == [1..m -> T] \X T
             B == [1..(m + 1) -> T]
             Put(z) == [j \in 1..(m + 1) |-> IF j = m + 1 THEN z[2] ELSE z[1][j]]
             F == [z \in A |-> Put(z)]
  <2>1. IsFiniteSet(A)
    BY <1>2, FS_Product
  <2>2. ASSUME NEW z \in A PROVE Put(z) \in B
    <3>1. z[1] \in [1..m -> T] /\ z[2] \in T
      OBVIOUS
    <3>2. \A j \in 1..(m + 1) : j # m + 1 => j \in 1..m
      OBVIOUS
    <3> QED BY <3>1, <3>2
  <2>3. ASSUME NEW f \in B PROVE \E z \in A : Put(z) = f
    <3> DEFINE z == <<[j \in 1..m |-> f[j]], f[m + 1]>>
    <3>1. m + 1 \in 1..(m + 1) /\ \A j \in 1..m : j \in 1..(m + 1)
      OBVIOUS
    <3>2. z \in A /\ z[2] = f[m + 1] /\ \A j \in 1..m : z[1][j] = f[j]
      BY <3>1
    <3> HIDE DEF z
    <3>3. \A j \in 1..(m + 1) : j # m + 1 => j \in 1..m
      OBVIOUS
    <3>4. Put(z) = [j \in 1..(m + 1) |-> f[j]]
      BY <3>2, <3>3
    <3> QED BY <3>2, <3>4
  <2>4. F \in [A -> B] /\ \A f \in B : \E z \in A : F[z] = f
    <3> HIDE DEF A, B, Put
    <3> QED BY <2>2, <2>3
  <2> HIDE DEF A, B, F
  <2>5. F \in Surjection(A, B)
    BY <2>4 DEF Surjection
  <2>6. IsFiniteSet(B)
    BY <2>1, <2>5, FS_Surjection
  <2> QED BY <2>6 DEF B
<1>3. Nat \subseteq I
  <2> HIDE DEF I
  <2> QED BY <1>1, <1>2, SetInduction
<1> QED BY <1>3

\* Sequence w ends, behind u, in v and a.
EndsIn(w, u, v, a) ==
  /\ Len(w) \in Nat /\ Len(w) = Len(u) + Len(v) + 1 /\ Len(u) + 1 \in 1..Len(w)
  /\ LET z == SubSeq(w, Len(u) + 1, Len(w)) IN z # << >> /\ Last(z) = a /\ Front(z) = v

LEMMA SecondPart ==
  ASSUME NEW A, NEW u \in Seq(A), NEW v \in Seq(A), NEW a \in A, NEW w, w = u \o (v \o <<a>>)
  PROVE  EndsIn(w, u, v, a)
<1> DEFINE z == v \o <<a>>
<1>1. /\ z \in Seq(A) /\ Len(z) = Len(v) + 1 /\ Len(v) \in Nat
      /\ z[Len(v) + 1] = a /\ \A k \in 1..Len(v) : z[k] = v[k]
  <2>1. z = Append(v, a)
    BY AppendIsConcat
  <2> HIDE DEF z
  <2> QED BY <2>1, AppendProperties, LenProperties
<1> HIDE DEF z
<1>2. w \in Seq(A) /\ Len(w) = Len(u) + Len(z) /\ Len(u) \in Nat /\ \A k \in 1..Len(z) : w[Len(u) + k] = z[k]
  <2>1. w = u \o z
    BY DEF z
  <2> QED BY <2>1, <1>1, ConcatProperties, LenProperties
<1>3. Len(w) \in Nat /\ Len(w) = Len(u) + Len(v) + 1 /\ Len(u) + 1 \in 1..Len(w)
  BY <1>1, <1>2
<1>4. SubSeq(w, Len(u) + 1, Len(w)) = z
  <2> DEFINE m == Len(u) + 1
             n == Len(w)
             y == SubSeq(w, m, n)
  <2>1. m \in 1..n /\ n \in Nat /\ m \in Nat /\ n - m + 1 = Len(z)
    BY <1>1, <1>2, <1>3
  <2>2. /\ y \in Seq(A) /\ Len(y) = Len(z)
        /\ \A k \in 1..Len(z) : y[k] = w[m + k - 1]
    <3> HIDE DEF m, n
    <3>1. m \in 1..Len(w) + 1 /\ n \in m - 1..Len(w)
      BY <2>1 DEF n
    <3>2. /\ SubSeq(w, m, n) \in Seq(A) /\ Len(SubSeq(w, m, n)) = n - m + 1
          /\ \A k \in 1..(n - m + 1) : SubSeq(w, m, n)[k] = w[m + k - 1]
      BY <3>1, <1>2, SubSeqProperties
    <3> QED BY <3>2, <2>1
  <2>3. \A k \in 1..Len(z) : m + k - 1 = Len(u) + k
    BY <1>2
  <2> HIDE DEF y, m, n
  <2>4. \A k \in 1..Len(z) : y[k] = z[k]
    BY <1>2, <2>2, <2>3
  <2>5. y = z
    BY <1>1, <2>2, <2>4, SeqEqual
  <2> QED BY <2>5 DEF y, m, n
<1>5. z # << >> /\ Last(z) = a
  <2>1. Last(z) = z[Len(z)]
    BY DEF Last
  <2>2. Len(z) # 0
    BY <1>1
  <2> QED BY <2>1, <2>2, <1>1
<1>6. Front(z) = v
  <2>1. Front(z) = SubSeq(z, 1, Len(v))
    <3>1. Len(z) - 1 = Len(v)
      BY <1>1
    <3> QED BY <3>1 DEF Front
  <2>2. /\ SubSeq(z, 1, Len(v)) \in Seq(A) /\ Len(SubSeq(z, 1, Len(v))) = Len(v)
        /\ \A k \in 1..Len(v) : SubSeq(z, 1, Len(v))[k] = z[k]
    <3>1. Len(v) - 1 + 1 = Len(v) /\ 1 \in 1..Len(z) + 1 /\ Len(v) \in 1 - 1..Len(z)
          /\ \A k \in 1..Len(v) : 1 + k - 1 = k
      BY <1>1
    <3>2. /\ SubSeq(z, 1, Len(v)) \in Seq(A) /\ Len(SubSeq(z, 1, Len(v))) = Len(v) - 1 + 1
          /\ \A k \in 1..(Len(v) - 1 + 1) : SubSeq(z, 1, Len(v))[k] = z[1 + k - 1]
      BY <3>1, <1>1, SubSeqProperties
    <3> QED BY <3>1, <3>2
  <2> DEFINE y == SubSeq(z, 1, Len(v))
  <2>3. y \in Seq(A) /\ Len(y) = Len(v) /\ \A k \in 1..Len(v) : y[k] = v[k]
    BY <1>1, <2>2
  <2> HIDE DEF y
  <2>4. y = v
    BY <2>3, SeqEqual
  <2> QED BY <2>1, <2>4 DEF y
<1> QED BY <1>3, <1>4, <1>5, <1>6 DEF EndsIn
=============================================================================
