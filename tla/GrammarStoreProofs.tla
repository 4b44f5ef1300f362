------------------------- MODULE GrammarStoreProofs -------------------------
(***************************************************************************)
(* Proofs about GrammarStore, for every set of names and right sides: the  *)
(* symbol list is sound at all times, and what grammar_complete leaves is  *)
(* a grammar in the sense of IsGrammar, which the proofs about the later   *)
(* passes assume of their input.                                           *)
(***************************************************************************)
EXTENDS GrammarStore, ListLemmas

-----------------------------------------------------------------------------
(* The two lists that are built by putting elements in front.              *)

\* The function that RulesOf defines by recursion.
RulesUpTo(p, s) ==
  CHOOSE of : of = [r \in 0..Len(p) |->
                      IF r = 0 THEN << >>
                      ELSE IF Head(p[r]) = s THEN <<r>> \o of[r - 1] ELSE of[r - 1]]

\* The function of the rules' lists exists.
LEMMA RulesUpToDefined ==
  ASSUME NEW p, NEW s, Len(p) \in Nat
  PROVE  /\ RulesUpTo(p, s)[0] = << >>
         /\ \A r \in 1..Len(p) :
              RulesUpTo(p, s)[r] = IF Head(p[r]) = s THEN <<r>> \o RulesUpTo(p, s)[r - 1]
                                   ELSE RulesUpTo(p, s)[r - 1]
<1> DEFINE N == Len(p)
           T == Seq(1..N)
           Step(r, l) == IF Head(p[r]) = s THEN <<r>> \o l ELSE l
           F == [r \in 1..N |-> [l \in T |-> Step(r, l)]]
           f == RulesUpTo(p, s)
<1>1. ASSUME NEW r \in 1..N, NEW l \in T PROVE Step(r, l) \in T
  BY PushOccurs
<1>2. F \in [1..N -> [T -> T]] /\ \A r \in 1..N : \A l \in T : F[r][l] = Step(r, l)
  <2> HIDE DEF Step, T
  <2> QED BY <1>1
<1>3. << >> \in T
  OBVIOUS
<1>4. PICK h \in [0..N -> T] : h[0] = << >> /\ \A r \in 1..N : h[r] = F[r][h[r - 1]]
  <2>1. N \in Nat
    OBVIOUS
  <2>2. F \in [1..N -> [T -> T]]
    BY <1>2
  <2> DEFINE e == << >>
  <2>3. e \in T
    BY <1>3
  <2> HIDE DEF F, T, N, Step, f, e
  <2>4. \E h : IsRun(h, T, e, N, F)
    BY <2>1, <2>2, <2>3, StepsExist
  <2> QED BY <2>4 DEF e, IsRun
<1>5. ASSUME NEW r \in 0..N PROVE h[r] = IF r = 0 THEN << >> ELSE Step(r, h[r - 1])
  <2>1. CASE r = 0
    BY <2>1, <1>4
  <2>2. CASE r # 0
    <3>1. r \in 1..N /\ r - 1 \in 0..N
      BY <2>2
    <3>2. h[r - 1] \in T
      BY <3>1
    <3> HIDE DEF F, Step, T
    <3> QED BY <2>2, <3>1, <3>2, <1>2, <1>4
  <2> QED BY <2>1, <2>2
<1>6. h = [r \in 0..N |-> IF r = 0 THEN << >> ELSE Step(r, h[r - 1])]
  <2> HIDE DEF Step, T
  <2> QED BY <1>5
<1>7. f = [r \in 0..N |-> IF r = 0 THEN << >> ELSE Step(r, f[r - 1])]
  BY <1>6, Zenon DEF RulesUpTo
<1> HIDE DEF f
<1>8. f[0] = << >>
  BY <1>7
<1>9. ASSUME NEW r \in 1..N PROVE f[r] = Step(r, f[r - 1])
  <2>1. r \in 0..N /\ r # 0
    OBVIOUS
  <2> HIDE DEF Step, N
  <2> QED BY <1>7, <2>1, Zenon
<1> QED BY <1>8, <1>9 DEF f

\* RulesOf lists the rules of its symbol, each once.
LEMMA RulesOfFacts ==
  ASSUME NEW p, NEW s, Len(p) \in Nat
  PROVE  /\ RulesOf(p, s) \in Seq(1..Len(p))
         /\ NoRepeats(RulesOf(p, s))
         /\ \A r : Occurs(r, RulesOf(p, s)) <=> r \in 1..Len(p) /\ Head(p[r]) = s
<1> DEFINE N == Len(p)
           f == RulesUpTo(p, s)
           Fine(n) == /\ f[n] \in Seq(1..N)
                      /\ NoRepeats(f[n])
                      /\ \A r : Occurs(r, f[n]) <=> r \in 1..n /\ Head(p[r]) = s
           S == {n \in Nat : n <= N => Fine(n)}
<1>1. /\ f[0] = << >>
      /\ \A r \in 1..N : f[r] = IF Head(p[r]) = s THEN <<r>> \o f[r - 1] ELSE f[r - 1]
  BY RulesUpToDefined
<1> HIDE DEF f
<1>2. 0 \in S
  <2>1. f[0] \in Seq(1..N) /\ NoRepeats(f[0])
    BY <1>1 DEF NoRepeats
  <2>2. \A r : ~ Occurs(r, f[0]) /\ r \notin 1..0
    BY <1>1 DEF Occurs
  <2> QED BY <2>1, <2>2
<1>3. ASSUME NEW n \in Nat, n \in S PROVE n + 1 \in S
  <2> SUFFICES ASSUME n + 1 <= N PROVE Fine(n + 1)
    OBVIOUS
  <2>1. n + 1 \in 1..N /\ (n + 1) - 1 = n /\ n <= N
    OBVIOUS
  <2>2. Fine(n)
    BY <1>3, <2>1
  <2>3. \A r : r \in 1..(n + 1) <=> r \in 1..n \/ r = n + 1
    OBVIOUS
  <2>4. ~ Occurs(n + 1, f[n])
    <3>1. n + 1 \notin 1..n
      OBVIOUS
    <3> QED BY <3>1, <2>2
  <2>5. CASE Head(p[n + 1]) = s
    <3>1. f[n + 1] = <<n + 1>> \o f[n]
      BY <1>1, <2>1, <2>5
    <3>2. f[n + 1] \in Seq(1..N) /\ \A y : Occurs(y, f[n + 1]) <=> y = n + 1 \/ Occurs(y, f[n])
      BY <3>1, <2>1, <2>2, PushOccurs
    <3>3. NoRepeats(f[n + 1])
      BY <3>1, <2>1, <2>2, <2>4, PushNoRepeats
    <3> QED BY <3>2, <3>3, <2>2, <2>3, <2>5
  <2>6. CASE Head(p[n + 1]) # s
    <3>1. f[n + 1] = f[n]
      BY <1>1, <2>1, <2>6
    <3> QED BY <3>1, <2>2, <2>3, <2>6
  <2> QED BY <2>5, <2>6
<1>4. Nat \subseteq S
  <2> HIDE DEF S
  <2> QED BY <1>2, <1>3, SetInduction
<1>5. Fine(N)
  BY <1>4
<1>6. RulesOf(p, s) = f[N]
  BY DEF RulesOf, RulesUpTo, f
<1> QED BY <1>5, <1>6

\* The function that NewTerminals defines by recursion.
NewUpTo(tp, seq) ==
  CHOOSE new : new = [n \in 0..Len(seq) |->
                       IF n = 0 THEN << >>
                       ELSE IF tp[seq[n]] = "unknown" /\ ~ Occurs(seq[n], new[n - 1])
                            THEN <<seq[n]>> \o new[n - 1] ELSE new[n - 1]]

\* The function of the new terminals exists.
LEMMA NewUpToDefined ==
  ASSUME NEW tp, NEW A, NEW seq \in Seq(A)
  PROVE  /\ NewUpTo(tp, seq)[0] = << >>
         /\ \A n \in 1..Len(seq) :
              NewUpTo(tp, seq)[n] =
                IF tp[seq[n]] = "unknown" /\ ~ Occurs(seq[n], NewUpTo(tp, seq)[n - 1])
                THEN <<seq[n]>> \o NewUpTo(tp, seq)[n - 1] ELSE NewUpTo(tp, seq)[n - 1]
<1> DEFINE N == Len(seq)
           T == Seq(A)
           Step(n, l) == IF tp[seq[n]] = "unknown" /\ ~ Occurs(seq[n], l)
                         THEN <<seq[n]>> \o l ELSE l
           F == [n \in 1..N |-> [l \in T |-> Step(n, l)]]
           f == NewUpTo(tp, seq)
<1>1. ASSUME NEW n \in 1..N, NEW l \in T PROVE Step(n, l) \in T
  <2>1. seq[n] \in A
    BY ElementOfSeq
  <2>2. <<seq[n]>> \o l \in Seq(A)
    <3> DEFINE x == seq[n]
    <3> HIDE DEF x
    <3>1. x \in A
      BY <2>1 DEF x
    <3>2. <<x>> \o l \in Seq(A)
      BY <3>1, PushOccurs
    <3> QED BY <3>2 DEF x
  <2> QED BY <2>2
<1>2. F \in [1..N -> [T -> T]] /\ \A n \in 1..N : \A l \in T : F[n][l] = Step(n, l)
  <2> HIDE DEF Step, T
  <2> QED BY <1>1
<1>3. << >> \in T /\ N \in Nat
  BY LenProperties
<1>4. PICK h \in [0..N -> T] : h[0] = << >> /\ \A n \in 1..N : h[n] = F[n][h[n - 1]]
  <2>1. F \in [1..N -> [T -> T]]
    BY <1>2
  <2>2. << >> \in T
    BY <1>3
  <2>3. N \in Nat
    BY <1>3
  <2> DEFINE e == << >>
  <2>4. e \in T
    BY <2>2
  <2> HIDE DEF F, T, N, Step, f, e
  <2>5. \E h : IsRun(h, T, e, N, F)
    BY <2>1, <2>4, <2>3, StepsExist
  <2> QED BY <2>5 DEF e, IsRun
<1>5. ASSUME NEW n \in 0..N PROVE h[n] = IF n = 0 THEN << >> ELSE Step(n, h[n - 1])
  <2>1. CASE n = 0
    BY <2>1, <1>4
  <2>2. CASE n # 0
    <3>1. n \in 1..N /\ n - 1 \in 0..N
      BY <2>2, <1>3
    <3>2. h[n - 1] \in T
      BY <3>1
    <3> HIDE DEF F, Step, T
    <3> QED BY <2>2, <3>1, <3>2, <1>2, <1>4
  <2> QED BY <2>1, <2>2
<1>6. h = [n \in 0..N |-> IF n = 0 THEN << >> ELSE Step(n, h[n - 1])]
  <2> HIDE DEF Step, T
  <2> QED BY <1>5
<1>7. f = [n \in 0..N |-> IF n = 0 THEN << >> ELSE Step(n, f[n - 1])]
  BY <1>6, Zenon DEF NewUpTo
<1> HIDE DEF f
<1>8. f[0] = << >>
  <2>1. 0 \in 0..N
    BY <1>3
  <2> HIDE DEF Step, N
  <2> QED BY <1>7, <2>1, Zenon
<1>9. ASSUME NEW n \in 1..N PROVE f[n] = Step(n, f[n - 1])
  <2>1. n \in 0..N /\ n # 0
    BY <1>3
  <2> HIDE DEF Step, N
  <2> QED BY <1>7, <2>1, Zenon
<1> QED BY <1>8, <1>9 DEF f

\* NewTerminals lists the unknown symbols of the sequence, each once.
LEMMA NewTerminalsFacts ==
  ASSUME NEW tp, NEW A, NEW seq \in Seq(A)
  PROVE  /\ NewTerminals(tp, seq) \in Seq(A)
         /\ NoRepeats(NewTerminals(tp, seq))
         /\ \A y : Occurs(y, NewTerminals(tp, seq)) <=> Occurs(y, seq) /\ tp[y] = "unknown"
<1> DEFINE N == Len(seq)
           f == NewUpTo(tp, seq)
           Met(y, n) == \E i \in 1..n : seq[i] = y
           Fine(n) == /\ f[n] \in Seq(A)
                      /\ NoRepeats(f[n])
                      /\ \A y : Occurs(y, f[n]) <=> Met(y, n) /\ tp[y] = "unknown"
           S == {n \in Nat : n <= N => Fine(n)}
<1>1. /\ f[0] = << >>
      /\ \A n \in 1..N : f[n] = IF tp[seq[n]] = "unknown" /\ ~ Occurs(seq[n], f[n - 1])
                                THEN <<seq[n]>> \o f[n - 1] ELSE f[n - 1]
  BY NewUpToDefined
<1>2. N \in Nat
  BY LenProperties
<1> HIDE DEF f
<1>3. 0 \in S
  <2>1. f[0] \in Seq(A) /\ NoRepeats(f[0])
    BY <1>1 DEF NoRepeats
  <2>2. \A y : ~ Occurs(y, f[0]) /\ ~ Met(y, 0)
    BY <1>1 DEF Occurs
  <2> QED BY <2>1, <2>2
<1>4. ASSUME NEW n \in Nat, n \in S PROVE n + 1 \in S
  <2> SUFFICES ASSUME n + 1 <= N PROVE Fine(n + 1)
    OBVIOUS
  <2>1. n + 1 \in 1..N /\ (n + 1) - 1 = n /\ n <= N
    BY <1>2
  <2>2. Fine(n)
    BY <1>4, <2>1, <1>2
  <2>3. seq[n + 1] \in A
    BY <2>1, ElementOfSeq
  <2>4. \A y : Met(y, n + 1) <=> Met(y, n) \/ y = seq[n + 1]
    <3>1. \A i : i \in 1..(n + 1) <=> i \in 1..n \/ i = n + 1
      OBVIOUS
    <3> QED BY <3>1
  <2>5. CASE tp[seq[n + 1]] = "unknown" /\ ~ Occurs(seq[n + 1], f[n])
    <3>1. f[n + 1] = <<seq[n + 1]>> \o f[n]
      BY <1>1, <2>1, <2>5
    <3>2. f[n + 1] \in Seq(A) /\ \A y : Occurs(y, f[n + 1]) <=> y = seq[n + 1] \/ Occurs(y, f[n])
      BY <3>1, <2>2, <2>3, PushOccurs
    <3>3. NoRepeats(f[n + 1])
      BY <3>1, <2>2, <2>3, <2>5, PushNoRepeats
    <3> HIDE DEF Met
    <3> QED BY <3>2, <3>3, <2>2, <2>4, <2>5
  <2>6. CASE ~ (tp[seq[n + 1]] = "unknown" /\ ~ Occurs(seq[n + 1], f[n]))
    <3>1. f[n + 1] = f[n]
      BY <1>1, <2>1, <2>6
    <3> HIDE DEF Met
    <3> QED BY <3>1, <2>2, <2>4, <2>6
  <2> QED BY <2>5, <2>6
<1>5. Nat \subseteq S
  <2> HIDE DEF S
  <2> QED BY <1>3, <1>4, SetInduction
<1>6. Fine(N)
  <2>1. N \in S
    <3> HIDE DEF S, N
    <3> QED BY <1>5, <1>2
  <2>2. N <= N
    BY <1>2
  <2> HIDE DEF Fine, N
  <2> QED BY <2>1, <2>2
<1>7. NewTerminals(tp, seq) = f[N]
  BY DEF NewTerminals, NewUpTo, f
<1>8. \A y : Met(y, N) <=> Occurs(y, seq)
  BY DEF Occurs
<1> QED BY <1>6, <1>7, <1>8

-----------------------------------------------------------------------------
(* The symbol list.                                                        *)

\* ListSound with the list and the types as arguments.
Listed(tp, list) ==
  /\ NoRepeats(list)
  /\ \A n \in AllNames : Occurs(n, list) <=> tp[n] # "unknown"
  /\ \A i, j \in 1..Len(list) :
       tp[list[i]] # "terminal" /\ tp[list[j]] = "terminal" => j < i

\* Putting new terminals in front keeps the list sound.
LEMMA TerminalsListed ==
  ASSUME NEW tp, NEW list \in Seq(AllNames), Listed(tp, list),
         NEW new \in Seq(AllNames), NoRepeats(new),
         \A y : Occurs(y, new) => tp[y] = "unknown",
         NEW tq, \A n \in AllNames : tq[n] = IF Occurs(n, new) THEN "terminal" ELSE tp[n]
  PROVE  new \o list \in Seq(AllNames) /\ Listed(tq, new \o list)
<1> DEFINE p == new \o list
<1>1. /\ p \in Seq(AllNames)
      /\ Len(p) = Len(new) + Len(list) /\ Len(new) \in Nat /\ Len(list) \in Nat
      /\ \A i \in 1..(Len(new) + Len(list)) : p[i] = IF i <= Len(new) THEN new[i] ELSE list[i - Len(new)]
  BY ConcatProperties, LenProperties
<1>2. \A y : Occurs(y, p) <=> Occurs(y, new) \/ Occurs(y, list)
  BY ConcatOccurs
<1>3. \A y : Occurs(y, list) => y \in AllNames
  BY ElementOfSeq DEF Occurs
<1>4. \A y : ~ (Occurs(y, new) /\ Occurs(y, list))
  BY <1>3 DEF Listed
<1>5. NoRepeats(p)
  BY <1>4, ConcatNoRepeats DEF Listed
<1> HIDE DEF p
<1>6. ASSUME NEW n \in AllNames PROVE Occurs(n, p) <=> tq[n] # "unknown"
  BY <1>2 DEF Listed
<1>7. ASSUME NEW i \in 1..Len(p), NEW j \in 1..Len(p), tq[p[i]] # "terminal", tq[p[j]] = "terminal"
      PROVE  j < i
  <2>1. ~ (i <= Len(new))
    <3> SUFFICES ASSUME i <= Len(new) PROVE FALSE
      OBVIOUS
    <3>1. i \in 1..Len(new) /\ p[i] = new[i]
      BY <1>1
    <3>2. p[i] \in AllNames /\ Occurs(p[i], new)
      BY <3>1, ElementOfSeq DEF Occurs
    <3> QED BY <3>2, <1>7
  <2>2. i - Len(new) \in 1..Len(list) /\ p[i] = list[i - Len(new)]
    BY <2>1, <1>1
  <2>3. CASE j <= Len(new)
    BY <2>3, <2>1, <1>1
  <2>4. CASE ~ (j <= Len(new))
    <3>1. j - Len(new) \in 1..Len(list) /\ p[j] = list[j - Len(new)]
      BY <2>4, <1>1
    <3>2. /\ p[i] \in AllNames /\ p[j] \in AllNames
          /\ Occurs(p[i], list) /\ Occurs(p[j], list)
      BY <2>2, <3>1, ElementOfSeq DEF Occurs
    <3>3. tp[p[i]] # "terminal" /\ tp[p[j]] = "terminal"
      BY <3>2, <1>4, <1>7
    <3>4. j - Len(new) < i - Len(new)
      BY <2>2, <3>1, <3>3 DEF Listed
    <3> QED BY <3>4, <1>1
  <2> QED BY <2>3, <2>4
<1> QED BY <1>1, <1>5, <1>6, <1>7 DEF Listed, p

\* Putting a symbol that is no terminal at the end keeps the list sound.
LEMMA NonterminalListed ==
  ASSUME NEW tp, NEW list \in Seq(AllNames), Listed(tp, list),
         NEW x \in AllNames, tp[x] = "unknown",
         NEW tq, tq[x] \notin {"unknown", "terminal"}, \A n \in AllNames \ {x} : tq[n] = tp[n]
  PROVE  Append(list, x) \in Seq(AllNames) /\ Listed(tq, Append(list, x))
<1> DEFINE p == Append(list, x)
<1>1. /\ p \in Seq(AllNames) /\ Len(p) = Len(list) + 1 /\ Len(list) \in Nat
      /\ \A i \in 1..Len(list) : p[i] = list[i]
      /\ p[Len(list) + 1] = x
  BY AppendProperties, LenProperties
<1>2. p = list \o <<x>> /\ <<x>> \in Seq(AllNames) /\ NoRepeats(<<x>>)
  BY AppendIsConcat DEF NoRepeats
<1>3. \A y : Occurs(y, <<x>>) <=> y = x
  BY DEF Occurs
<1>4. \A y : Occurs(y, p) <=> Occurs(y, list) \/ y = x
  <2>1. \A y : Occurs(y, list \o <<x>>) <=> Occurs(y, list) \/ Occurs(y, <<x>>)
    BY <1>2, ConcatOccurs
  <2> HIDE DEF p
  <2> QED BY <2>1, <1>2, <1>3
<1>5. ~ Occurs(x, list)
  BY DEF Listed
<1>6. NoRepeats(p)
  <2> HIDE DEF p
  <2> QED BY <1>2, <1>3, <1>5, ConcatNoRepeats DEF Listed
<1> HIDE DEF p
<1>7. ASSUME NEW n \in AllNames PROVE Occurs(n, p) <=> tq[n] # "unknown"
  BY <1>4 DEF Listed
<1>8. ASSUME NEW i \in 1..Len(p), NEW j \in 1..Len(p), tq[p[i]] # "terminal", tq[p[j]] = "terminal"
      PROVE  j < i
  <2>1. j \in 1..Len(list) /\ p[j] = list[j] /\ Occurs(p[j], list) /\ p[j] \in AllNames
    <3>1. j # Len(list) + 1
      BY <1>1, <1>8
    <3>2. j \in 1..Len(list) /\ p[j] = list[j]
      BY <3>1, <1>1
    <3> QED BY <3>2, ElementOfSeq DEF Occurs
  <2>2. CASE i = Len(list) + 1
    BY <2>1, <2>2, <1>1
  <2>3. CASE i # Len(list) + 1
    <3>1. i \in 1..Len(list) /\ p[i] = list[i]
      BY <2>3, <1>1
    <3>2. Occurs(p[i], list) /\ p[i] \in AllNames
      BY <3>1, ElementOfSeq DEF Occurs
    <3>3. tp[list[i]] # "terminal" /\ tp[list[j]] = "terminal"
      BY <2>1, <3>1, <3>2, <1>5, <1>8
    <3> QED BY <2>1, <3>1, <3>3 DEF Listed
  <2> QED BY <2>2, <2>3
<1> QED BY <1>1, <1>6, <1>7, <1>8 DEF Listed, p

-----------------------------------------------------------------------------
(* The inductive invariant.                                                *)

TypeOK ==
  /\ pc \in {"read", "resolve", "sentinel", "count", "done", "crash"}
  /\ type \in [AllNames -> {"unknown", "terminal", "nonterminal", "start"}]
  /\ uses \in [AllNames -> Nat]
  /\ htype \in [AllNames -> Types \cup {Nil}]
  /\ symlist \in Seq(AllNames)
  /\ prods \in Seq(Seq(Names))
  /\ start \in AllNames \cup {Nil} /\ declared \in Names \cup {Nil}
  /\ left \in Nat /\ cr \in Nat \ {0}
  /\ sentinel \in Seq(AllNames)

BeforeSentinel == pc \notin {"count", "done"}

\* %eof and %start come with the sentinel rule; terminals come when the file is read.
Kinds ==
  /\ \A n \in Names : type[n] # "start" /\ (pc = "read" => type[n] # "terminal")
  /\ BeforeSentinel => type[Eof] = "unknown" /\ type[Start] = "unknown"
  /\ ~ BeforeSentinel => type[Eof] = "terminal" /\ type[Start] = "start"

\* Every production has a left side, which is a nonterminal.
LeftSides ==
  \A r \in 1..Len(prods) : prods[r] # << >> /\ type[Head(prods[r])] = "nonterminal"

\* The start symbol is a nonterminal, and stays one when %start takes its place.
StartKnown ==
  /\ start = Nil => declared = Nil
  /\ BeforeSentinel /\ start # Nil => start \in Names /\ type[start] = "nonterminal"
  /\ ~ BeforeSentinel =>
       /\ start = Start
       /\ \E s \in Names : type[s] = "nonterminal" /\ sentinel = <<s, Eof>>

\* No symbol on the right side of production r is unknown.
Known(r) == \A x : Occurs(x, Tail(prods[r])) => type[x] # "unknown"

\* The rules of the symbols that resolve_symbols has passed are known, and so are
\* those of the current symbol before cr.
Resolving ==
  pc = "resolve" =>
    /\ left <= Len(symlist)
    /\ \A k \in (left + 1)..Len(symlist) : \A r \in 1..Len(prods) :
         Head(prods[r]) = symlist[Len(symlist) - k + 1] => Known(r)
    /\ left # 0 => \A c \in 1..Len(RulesOf(prods, Current)) :
         c < cr => Known(RulesOf(prods, Current)[c])

\* After resolve_symbols every right side is known.
Resolved == pc \notin {"read", "resolve"} => \A r \in 1..Len(prods) : Known(r)

\* What has been counted as used is used.
Counted == BeforeSentinel => \A n \in Names : uses[n] # 0 => Used(prods, n)

\* determine_start leaves no start symbol only if every nonterminal is used.
NoCandidate ==
  /\ pc \in {"sentinel", "crash"} /\ start = Nil =>
       \A n \in Names : type[n] = "nonterminal" => uses[n] # 0
  /\ pc = "crash" => start = Nil

\* The grammar that count_symbols leaves.
Counts ==
  [syms     |-> symlist,
   terms    |-> {n \in AllNames : type[n] = "terminal"},
   nonterms |-> {n \in AllNames : type[n] = "nonterminal"},
   start    |-> start,
   rules    |-> [r \in 0..Len(prods) |->
                   IF r = 0 THEN [lhs |-> start, rhs |-> sentinel]
                   ELSE [lhs |-> Head(prods[r]), rhs |-> Tail(prods[r])]],
   rulesOf  |-> [n \in {x \in AllNames : type[x] = "nonterminal"} |-> RulesOf(prods, n)]]

Built == pc = "done" => gram = Counts

IInv ==
  /\ TypeOK /\ ListSound /\ Kinds /\ LeftSides /\ StartKnown
  /\ Resolving /\ Resolved /\ Counted /\ NoCandidate /\ Built

-----------------------------------------------------------------------------
(* Each step keeps it.                                                     *)

LEMMA InitInvariant == Init => IInv
<1> SUFFICES ASSUME Init PROVE IInv
  OBVIOUS
<1> USE DEF Init
<1>1. TypeOK
  BY DEF TypeOK, AllNames
<1>2. ListSound
  BY DEF ListSound, NoRepeats, Occurs
<1>3. Kinds /\ LeftSides /\ StartKnown
  BY DEF Kinds, LeftSides, StartKnown, BeforeSentinel, AllNames
<1>4. Resolving /\ Resolved /\ Counted /\ NoCandidate /\ Built
  BY DEF Resolving, Resolved, Counted, NoCandidate, Built, AllNames
<1> QED BY <1>1, <1>2, <1>3, <1>4 DEF IInv

\* A symbol on the list is one of the names, and its type is known.
LEMMA ListMembers ==
  ASSUME TypeOK, ListSound, NEW i \in 1..Len(symlist)
  PROVE  symlist[i] \in AllNames /\ type[symlist[i]] # "unknown"
BY ElementOfSeq DEF TypeOK, ListSound, Occurs

\* What a declaration does: n becomes a nonterminal, and there may be one more
\* production with n on its left side.
LEMMA DeclarationKeeps ==
  ASSUME IInv, pc = "read", pc' = pc, NEW n \in Names, MakeNonterminal(n),
         UNCHANGED <<uses, left, cr, sentinel, gram>>,
         htype' \in [AllNames -> Types \cup {Nil}],
         \/ prods' = prods
         \/ \E p \in Seq(Names) : p # << >> /\ Head(p) = n /\ prods' = Append(prods, p),
         \/ start' = start /\ declared' = declared
         \/ start' = n /\ declared' = n
  PROVE  IInv'
<1> USE DEF IInv
<1>1. n \in AllNames /\ n # Eof /\ n # Start /\ n # Nil /\ type[n] \in {"unknown", "nonterminal"}
  <2>1. n \in AllNames /\ n # Eof /\ n # Start /\ n # Nil
    BY NamesAssumption DEF AllNames
  <2>2. type[n] \in {"unknown", "terminal", "nonterminal", "start"}
    BY <2>1 DEF TypeOK
  <2> QED BY <2>1, <2>2 DEF Kinds
<1>2. /\ type' \in [AllNames -> {"unknown", "terminal", "nonterminal", "start"}]
      /\ type'[n] = "nonterminal"
      /\ \A m \in AllNames \ {n} : type'[m] = type[m]
  BY <1>1 DEF MakeNonterminal, TypeOK
<1>3. symlist' \in Seq(AllNames) /\ ListSound'
  <2>1. Listed(type, symlist) /\ symlist \in Seq(AllNames)
    BY DEF ListSound, Listed, TypeOK
  <2>2. symlist' \in Seq(AllNames) /\ Listed(type', symlist')
    <3>1. CASE type[n] = "unknown"
      <4>1. symlist' = Append(symlist, n)
        BY <3>1 DEF MakeNonterminal
      <4>2. type'[n] \notin {"unknown", "terminal"}
        BY <1>2
      <4> QED BY <4>1, <4>2, <3>1, <2>1, <1>1, <1>2, NonterminalListed
    <3>2. CASE type[n] = "nonterminal"
      <4>1. symlist' = symlist
        BY <3>2 DEF MakeNonterminal
      <4>2. type' = type
        BY <3>2, <1>1, <1>2 DEF TypeOK
      <4> QED BY <4>1, <4>2, <2>1
    <3> QED BY <3>1, <3>2, <1>1
  <2> QED BY <2>2 DEF ListSound, Listed
<1>4. /\ prods' \in Seq(Seq(Names)) /\ Len(prods) \in Nat
      /\ \A r \in 1..Len(prods) : r \in 1..Len(prods') /\ prods'[r] = prods[r]
      /\ \A r \in 1..Len(prods') : r \notin 1..Len(prods) => prods'[r] # << >> /\ Head(prods'[r]) = n
  <2>1. CASE prods' = prods
    BY <2>1, LenProperties DEF TypeOK
  <2>2. CASE \E p \in Seq(Names) : p # << >> /\ Head(p) = n /\ prods' = Append(prods, p)
    <3>1. PICK p \in Seq(Names) : p # << >> /\ Head(p) = n /\ prods' = Append(prods, p)
      BY <2>2
    <3>2. /\ prods' \in Seq(Seq(Names)) /\ Len(prods') = Len(prods) + 1 /\ Len(prods) \in Nat
          /\ \A r \in 1..Len(prods) : prods'[r] = prods[r]
          /\ prods'[Len(prods) + 1] = p
      BY <3>1, AppendProperties, LenProperties DEF TypeOK
    <3> QED BY <3>1, <3>2
  <2> QED BY <2>1, <2>2
<1>5. TypeOK'
  BY <1>1, <1>2, <1>3, <1>4 DEF TypeOK, AllNames
<1>6. Kinds'
  BY <1>1, <1>2 DEF Kinds, BeforeSentinel, AllNames
<1>7. LeftSides'
  <2> SUFFICES ASSUME NEW r \in 1..Len(prods')
               PROVE  prods'[r] # << >> /\ type'[Head(prods'[r])] = "nonterminal"
    BY DEF LeftSides
  <2>1. CASE r \in 1..Len(prods)
    <3>1. prods[r] # << >> /\ type[Head(prods[r])] = "nonterminal" /\ prods'[r] = prods[r]
      BY <2>1, <1>4 DEF LeftSides
    <3>2. Head(prods[r]) \in AllNames
      <4>1. prods[r] \in Seq(Names)
        BY <2>1, ElementOfSeq DEF TypeOK
      <4> QED BY <4>1, <3>1, HeadTailProperties DEF AllNames
    <3> QED BY <3>1, <3>2, <1>2
  <2>2. CASE r \notin 1..Len(prods)
    BY <2>2, <1>2, <1>4
  <2> QED BY <2>1, <2>2
<1>8. StartKnown'
  BY <1>1, <1>2 DEF StartKnown, BeforeSentinel, AllNames
<1>9. Resolving' /\ Resolved' /\ NoCandidate' /\ Built'
  BY DEF Resolving, Resolved, NoCandidate, Built
<1>10. Counted'
  <2> SUFFICES ASSUME NEW m \in Names, uses[m] # 0 PROVE Used(prods', m)
    BY DEF Counted
  <2>1. Used(prods, m)
    BY DEF Counted, BeforeSentinel
  <2>2. PICK r \in 1..Len(prods) : Contains(Tail(prods[r]), m)
    BY <2>1 DEF Used
  <2>3. r \in 1..Len(prods') /\ prods'[r] = prods[r]
    BY <1>4
  <2> QED BY <2>2, <2>3 DEF Used
<1> QED BY <1>3, <1>5, <1>6, <1>7, <1>8, <1>9, <1>10

LEMMA ReadKeeps == IInv /\ Read => IInv'
<1> SUFFICES ASSUME IInv, Read PROVE IInv'
  OBVIOUS
<1> USE DEF IInv
<1>1. Names \subseteq AllNames
  BY DEF AllNames
<1>2. ASSUME NEW n \in Names, StartSymbol(n) PROVE IInv'
  BY <1>2, DeclarationKeeps DEF StartSymbol, TypeOK
<1>3. ASSUME NEW n \in Names, NEW rs \in RightSides, AddRule(n, rs) PROVE IInv'
  <2>1. rs \in Seq(Names) /\ <<n>> \in Seq(Names) /\ <<n>>[1] = n /\ Len(<<n>>) = 1
    BY NamesAssumption
  <2> DEFINE p == <<n>> \o rs
  <2>3. p \in Seq(Names) /\ Len(p) = 1 + Len(rs) /\ p[1] = n /\ Len(rs) \in Nat
    BY <2>1, ConcatProperties, LenProperties
  <2>4. p # << >> /\ Head(p) = n
    <3> HIDE DEF p
    <3> QED BY <2>3
  <2>5. prods' = Append(prods, p)
    BY <1>3 DEF AddRule
  <2> HIDE DEF p
  <2> QED BY <1>3, <2>3, <2>4, <2>5, DeclarationKeeps DEF AddRule, TypeOK
<1>4. ASSUME NEW n \in Typed, NEW t \in Types, AssignType(n, t) PROVE IInv'
  <2>1. n \in Names
    BY NamesAssumption
  <2>2. htype' \in [AllNames -> Types \cup {Nil}]
    BY <1>4 DEF AssignType, TypeOK
  <2> QED BY <1>4, <2>1, <2>2, DeclarationKeeps DEF AssignType
<1>5. ASSUME NEW n \in Names, NEW m \in Names, Fallback(n, m) PROVE IInv'
  <2>1. htype' \in [AllNames -> Types \cup {Nil}]
    BY <1>1, <1>5 DEF Fallback, TypeOK
  <2>2. <<n, m>> \in Seq(Names) /\ <<n, m>> # << >> /\ Head(<<n, m>>) = n
    OBVIOUS
  <2>3. prods' = Append(prods, <<n, m>>)
    BY <1>5 DEF Fallback
  <2> QED BY <1>5, <2>1, <2>2, <2>3, DeclarationKeeps DEF Fallback
<1> QED BY <1>2, <1>3, <1>4, <1>5 DEF Read

LEMMA EndOfFileKeeps == IInv /\ EndOfFile => IInv'
<1> SUFFICES ASSUME IInv, EndOfFile PROVE IInv'
  OBVIOUS
<1> USE DEF IInv, EndOfFile
<1>1. Len(symlist) \in Nat
  BY LenProperties DEF TypeOK
<1>2. TypeOK'
  BY <1>1 DEF TypeOK
<1>3. ListSound' /\ Kinds' /\ LeftSides' /\ StartKnown'
  BY DEF ListSound, Kinds, LeftSides, StartKnown, BeforeSentinel
<1>4. Resolving'
  <2>1. left' <= Len(symlist') /\ (left' + 1)..Len(symlist') = {}
    BY <1>1
  <2>2. \A c \in 1..Len(RulesOf(prods, Current)') : ~ (c < cr')
    OBVIOUS
  <2> QED BY <2>1, <2>2 DEF Resolving
<1>5. Resolved' /\ Counted' /\ NoCandidate' /\ Built'
  BY DEF Resolved, Counted, NoCandidate, Built, BeforeSentinel
<1> QED BY <1>2, <1>3, <1>4, <1>5

\* While a rule is unresolved there is a current symbol, the rule is one of its
\* rules and its right side consists of names.
LEMMA CurrentRule ==
  ASSUME IInv, pc = "resolve", Unresolved
  PROVE  /\ left \in 1..Len(symlist)
         /\ RulesOf(prods, Current) \in Seq(1..Len(prods))
         /\ cr \in 1..Len(RulesOf(prods, Current))
         /\ RulesOf(prods, Current)[cr] \in 1..Len(prods)
         /\ RightSide \in Seq(Names)
<1> USE DEF IInv
<1>1. left \in 1..Len(symlist) /\ Len(prods) \in Nat
  BY LenProperties DEF Unresolved, Resolving, TypeOK
<1>2. RulesOf(prods, Current) \in Seq(1..Len(prods))
  BY <1>1, RulesOfFacts
<1>3. cr \in 1..Len(RulesOf(prods, Current))
  BY <1>1, <1>2, LenProperties DEF Unresolved, TypeOK
<1>4. RulesOf(prods, Current)[cr] \in 1..Len(prods)
  BY <1>2, <1>3, ElementOfSeq
<1>5. ASSUME NEW r \in 1..Len(prods) PROVE Tail(prods[r]) \in Seq(Names)
  <2>1. prods[r] \in Seq(Names) /\ prods[r] # << >>
    BY ElementOfSeq DEF TypeOK, LeftSides
  <2> QED BY <2>1, HeadTailProperties
<1>6. RightSide \in Seq(Names)
  BY <1>4, <1>5 DEF RightSide
<1> QED BY <1>1, <1>2, <1>3, <1>4, <1>6

LEMMA ResolveRuleKeeps == IInv /\ ResolveRule => IInv'
<1> SUFFICES ASSUME IInv, ResolveRule PROVE IInv'
  OBVIOUS
<1> USE DEF IInv
<1> DEFINE new == NewTerminals(type, RightSide)
           rho == RulesOf(prods, Current)[cr]
<1>1. /\ pc = "resolve" /\ Unresolved
      /\ type' = [n \in AllNames |-> IF Occurs(n, new) THEN "terminal" ELSE type[n]]
      /\ symlist' = new \o symlist
      /\ uses' = [n \in AllNames |-> uses[n] + Count(n, RightSide)]
      /\ cr' = cr + 1
      /\ UNCHANGED <<pc, htype, prods, start, declared, left, sentinel, gram>>
  BY DEF ResolveRule
<1>2. /\ left \in 1..Len(symlist)
      /\ RulesOf(prods, Current) \in Seq(1..Len(prods))
      /\ cr \in 1..Len(RulesOf(prods, Current))
      /\ rho \in 1..Len(prods)
      /\ RightSide \in Seq(Names) /\ RightSide = Tail(prods[rho])
  BY <1>1, CurrentRule DEF RightSide
<1>3. /\ new \in Seq(Names) /\ NoRepeats(new)
      /\ \A y : Occurs(y, new) <=> Occurs(y, RightSide) /\ type[y] = "unknown"
  BY <1>2, NewTerminalsFacts
<1> HIDE DEF new
<1>4. Names \subseteq AllNames /\ Eof \in AllNames /\ Start \in AllNames
  BY DEF AllNames
<1>5. new \in Seq(AllNames) /\ \A y : Occurs(y, new) => y \in Names
  BY <1>3, <1>4, SeqMonotonic, ElementOfSeq DEF Occurs
<1>6. /\ type' \in [AllNames -> {"unknown", "terminal", "nonterminal", "start"}]
      /\ \A n \in AllNames : type'[n] = IF Occurs(n, new) THEN "terminal" ELSE type[n]
      /\ \A n \in AllNames : type[n] # "unknown" => type'[n] = type[n]
      /\ \A n \in AllNames : type'[n] # "terminal" => type'[n] = type[n]
  BY <1>1, <1>3 DEF TypeOK
<1>7. symlist' \in Seq(AllNames) /\ ListSound'
  <2>1. Listed(type, symlist) /\ symlist \in Seq(AllNames)
    BY DEF ListSound, Listed, TypeOK
  <2>2. \A y : Occurs(y, new) => type[y] = "unknown"
    BY <1>3
  <2>3. new \o symlist \in Seq(AllNames) /\ Listed(type', new \o symlist)
    BY <2>1, <2>2, <1>3, <1>5, <1>6, TerminalsListed
  <2> QED BY <2>3, <1>1 DEF ListSound, Listed
<1>8. \A n : Count(n, RightSide) \in Nat /\ (Count(n, RightSide) # 0 => Occurs(n, RightSide))
  <2> SUFFICES ASSUME NEW n
               PROVE  Count(n, RightSide) \in Nat /\ (Count(n, RightSide) # 0 => Occurs(n, RightSide))
    OBVIOUS
  <2> DEFINE P == {i \in 1..Len(RightSide) : RightSide[i] = n}
  <2>1. IsFiniteSet(P) /\ Cardinality(P) \in Nat
    <3>1. IsFiniteSet(1..Len(RightSide)) /\ P \subseteq 1..Len(RightSide)
      BY <1>2, LenProperties, CountUpTo
    <3> HIDE DEF P
    <3> QED BY <3>1, FS_Subset, FS_CardinalityType
  <2>2. P = {} => Cardinality(P) = 0
    BY FS_EmptySet
  <2>3. P # {} => Occurs(n, RightSide)
    BY DEF Occurs
  <2>4. Count(n, RightSide) = Cardinality(P)
    BY DEF Count
  <2> HIDE DEF P
  <2> QED BY <2>1, <2>2, <2>3, <2>4
<1>9. TypeOK'
  <2>1. uses' \in [AllNames -> Nat]
    <3>1. \A n \in AllNames : uses[n] + Count(n, RightSide) \in Nat
      BY <1>8 DEF TypeOK
    <3> QED BY <1>1, <3>1
  <2> QED BY <2>1, <1>1, <1>6, <1>7 DEF TypeOK
<1>10. Kinds'
  <2>1. \A n \in Names : type'[n] # "start"
    BY <1>4, <1>6 DEF Kinds
  <2>2. type'[Eof] = type[Eof] /\ type'[Start] = type[Start]
    BY <1>4, <1>5, <1>6, NamesAssumption
  <2> QED BY <2>1, <2>2, <1>1 DEF Kinds, BeforeSentinel
<1>11. ASSUME NEW r \in 1..Len(prods)
       PROVE  /\ Head(prods[r]) \in AllNames
              /\ type[Head(prods[r])] = "nonterminal" /\ type'[Head(prods[r])] = "nonterminal"
              /\ \A x : Occurs(x, Tail(prods[r])) => x \in AllNames
  <2>1. prods[r] \in Seq(Names) /\ prods[r] # << >>
    BY ElementOfSeq DEF TypeOK, LeftSides
  <2>2. Head(prods[r]) \in Names /\ Tail(prods[r]) \in Seq(Names)
    BY <2>1, HeadTailProperties
  <2>3. type[Head(prods[r])] = "nonterminal"
    BY DEF LeftSides
  <2>4. \A x : Occurs(x, Tail(prods[r])) => x \in Names
    BY <2>2, ElementOfSeq DEF Occurs
  <2> QED BY <2>2, <2>3, <2>4, <1>4, <1>6
<1>12. LeftSides'
  BY <1>1, <1>11 DEF LeftSides
<1>13. StartKnown'
  <2>1. BeforeSentinel /\ BeforeSentinel'
    BY <1>1 DEF BeforeSentinel
  <2>2. start # Nil => type'[start] = type[start]
    BY <2>1, <1>4, <1>6 DEF StartKnown
  <2> QED BY <2>1, <2>2, <1>1 DEF StartKnown
<1>14. ASSUME NEW r \in 1..Len(prods), Known(r) PROVE Known(r)'
  BY <1>1, <1>6, <1>11, <1>14 DEF Known
<1>15. ASSUME NEW r \in 1..Len(prods), r = rho PROVE Known(r)'
  <2> SUFFICES ASSUME NEW x, Occurs(x, Tail(prods[r])) PROVE type'[x] # "unknown"
    BY <1>1 DEF Known
  <2>1. x \in AllNames
    BY <1>11
  <2>2. Occurs(x, RightSide)
    BY <1>2, <1>15
  <2> QED BY <2>1, <2>2, <1>3, <1>6
<1>16. /\ Len(symlist') = Len(new) + Len(symlist) /\ Len(new) \in Nat /\ Len(symlist) \in Nat
       /\ left \in Nat /\ left <= Len(symlist)
       /\ \A k \in 1..Len(symlist) : symlist'[Len(symlist') - k + 1] = symlist[Len(symlist) - k + 1]
       /\ \A k \in (Len(symlist) + 1)..Len(symlist') : Occurs(symlist'[Len(symlist') - k + 1], new)
  <2>1. /\ Len(symlist') = Len(new) + Len(symlist) /\ Len(new) \in Nat /\ Len(symlist) \in Nat
        /\ \A i \in 1..(Len(new) + Len(symlist)) :
             symlist'[i] = IF i <= Len(new) THEN new[i] ELSE symlist[i - Len(new)]
    BY <1>1, <1>5, ConcatProperties, LenProperties DEF TypeOK
  <2>2. ASSUME NEW k \in 1..Len(symlist)
        PROVE  symlist'[Len(symlist') - k + 1] = symlist[Len(symlist) - k + 1]
    <3> DEFINE i == Len(symlist') - k + 1
    <3>1. i \in 1..(Len(new) + Len(symlist)) /\ ~ (i <= Len(new)) /\ i - Len(new) = Len(symlist) - k + 1
      BY <2>1
    <3> HIDE DEF i
    <3>2. symlist'[i] = symlist[Len(symlist) - k + 1]
      BY <3>1, <2>1
    <3> QED BY <3>2 DEF i
  <2>3. ASSUME NEW k \in (Len(symlist) + 1)..Len(symlist')
        PROVE  Occurs(symlist'[Len(symlist') - k + 1], new)
    <3> DEFINE i == Len(symlist') - k + 1
    <3>1. i \in 1..(Len(new) + Len(symlist)) /\ i <= Len(new) /\ i \in 1..Len(new)
      BY <2>1
    <3> HIDE DEF i
    <3>2. symlist'[i] = new[i]
      BY <3>1, <2>1
    <3> QED BY <3>1, <3>2 DEF i, Occurs
  <2> QED BY <2>1, <2>2, <2>3, <1>2
<1>17. Resolving'
  <2>1. Current' = Current
    <3>1. Current = symlist[Len(symlist) - left + 1] /\ Current' = symlist'[Len(symlist') - left' + 1]
      BY DEF Current
    <3> QED BY <3>1, <1>1, <1>2, <1>16
  <2>2. left' <= Len(symlist')
    BY <1>1, <1>16
  <2>3. ASSUME NEW k \in (left' + 1)..Len(symlist'), NEW r \in 1..Len(prods'),
               Head(prods'[r]) = symlist'[Len(symlist') - k + 1]
        PROVE  Known(r)'
    <3>1. r \in 1..Len(prods) /\ prods' = prods /\ left' = left
      BY <1>1
    <3>2. CASE k <= Len(symlist)
      <4>1. k \in (left + 1)..Len(symlist) /\ k \in 1..Len(symlist)
        BY <3>1, <3>2, <1>16
      <4>2. Head(prods[r]) = symlist[Len(symlist) - k + 1]
        BY <4>1, <3>1, <2>3, <1>16
      <4> QED BY <4>1, <4>2, <3>1, <1>1, <1>14 DEF Resolving
    <3>3. CASE ~ (k <= Len(symlist))
      <4>1. k \in (Len(symlist) + 1)..Len(symlist')
        BY <3>1, <3>3, <1>16
      <4>2. Occurs(Head(prods[r]), new)
        BY <4>1, <3>1, <2>3, <1>16
      <4> QED BY <4>2, <3>1, <1>3, <1>11
    <3> QED BY <3>2, <3>3
  <2>4. ASSUME NEW c \in 1..Len(RulesOf(prods, Current)), c < cr',
               NEW r, r = RulesOf(prods, Current)[c]
        PROVE  Known(r)'
    <3>1. r \in 1..Len(prods)
      BY <1>2, <2>4, ElementOfSeq
    <3>2. CASE c < cr
      <4>1. Known(r)
        <5>1. \A d \in 1..Len(RulesOf(prods, Current)) : d < cr => Known(RulesOf(prods, Current)[d])
          <6>1. pc = "resolve" /\ left # 0
            BY <1>1, <1>2
          <6>2. Resolving
            BY DEF IInv
          <6> QED BY <6>1, <6>2, Zenon DEF Resolving
        <5> QED BY <5>1, <3>2, <2>4, Zenon
      <4> QED BY <4>1, <3>1, <1>14
    <3>3. CASE c = cr
      BY <3>1, <3>3, <2>4, <1>15
    <3>4. c \in Nat /\ cr \in Nat /\ cr' = cr + 1
      BY <1>1 DEF TypeOK
    <3> QED BY <3>2, <3>3, <3>4, <2>4
  <2> QED BY <1>1, <2>1, <2>2, <2>3, <2>4 DEF Resolving
<1>18. Counted'
  <2> SUFFICES ASSUME NEW n \in Names, uses'[n] # 0 PROVE Used(prods', n)
    BY DEF Counted
  <2>1. uses'[n] = uses[n] + Count(n, RightSide) /\ uses[n] \in Nat
    BY <1>1, <1>4 DEF TypeOK
  <2>2. CASE uses[n] # 0
    BY <2>2, <1>1 DEF Counted, BeforeSentinel
  <2>3. CASE uses[n] = 0
    <3>1. Occurs(n, Tail(prods[rho]))
      BY <2>1, <2>3, <1>2, <1>8
    <3> QED BY <3>1, <1>1, <1>2 DEF Used, Contains, Occurs
  <2> QED BY <2>2, <2>3
<1>19. Resolved' /\ NoCandidate' /\ Built'
  BY <1>1 DEF Resolved, NoCandidate, Built
<1> QED BY <1>7, <1>9, <1>10, <1>12, <1>13, <1>17, <1>18, <1>19

LEMMA NextSymbolKeeps == IInv /\ NextSymbol => IInv'
<1> SUFFICES ASSUME IInv, NextSymbol PROVE IInv'
  OBVIOUS
<1> USE DEF IInv
<1>1. /\ pc = "resolve" /\ ~ Unresolved /\ left # 0 /\ left' = left - 1 /\ cr' = 1
      /\ UNCHANGED <<pc, type, uses, htype, symlist, prods, start, declared, sentinel, gram>>
  BY DEF NextSymbol
<1>2. left \in Nat /\ cr \in Nat /\ Len(symlist) \in Nat /\ Len(prods) \in Nat
  BY LenProperties DEF TypeOK
<1>3. TypeOK'
  BY <1>1, <1>2 DEF TypeOK
<1>4. ListSound' /\ Kinds' /\ LeftSides' /\ StartKnown'
  BY <1>1 DEF ListSound, Kinds, LeftSides, StartKnown, BeforeSentinel
<1>5. ASSUME NEW r \in 1..Len(prods), Head(prods[r]) = Current PROVE Known(r)
  <2>1. Occurs(r, RulesOf(prods, Current))
    BY <1>2, <1>5, RulesOfFacts
  <2>2. PICK c \in 1..Len(RulesOf(prods, Current)) : RulesOf(prods, Current)[c] = r
    BY <2>1 DEF Occurs
  <2>3. Len(RulesOf(prods, Current)) \in Nat /\ ~ (cr <= Len(RulesOf(prods, Current)))
    BY <1>1, <1>2, RulesOfFacts, LenProperties DEF Unresolved
  <2>4. c < cr
    BY <2>2, <2>3, <1>2
  <2> QED BY <2>2, <2>4, <1>1 DEF Resolving
<1>6. Resolving'
  <2>1. left' <= Len(symlist')
    BY <1>1, <1>2 DEF Resolving
  <2>2. ASSUME NEW k \in (left' + 1)..Len(symlist'), NEW r \in 1..Len(prods'),
               Head(prods'[r]) = symlist'[Len(symlist') - k + 1]
        PROVE  Known(r)'
    <3>1. prods' = prods /\ symlist' = symlist /\ (Known(r) => Known(r)')
      BY <1>1 DEF Known
    <3>2. CASE k = left
      <4>1. Head(prods[r]) = Current
        BY <3>1, <3>2, <2>2 DEF Current
      <4> QED BY <4>1, <3>1, <1>5
    <3>3. CASE k # left
      <4>1. k \in (left + 1)..Len(symlist)
        BY <3>1, <3>3, <1>1, <1>2
      <4> QED BY <4>1, <3>1, <2>2, <1>1 DEF Resolving
    <3> QED BY <3>2, <3>3
  <2>3. \A c \in 1..Len(RulesOf(prods, Current)') : ~ (c < cr')
    BY <1>1
  <2> QED BY <2>1, <2>2, <2>3 DEF Resolving
<1>7. Resolved' /\ Counted' /\ NoCandidate' /\ Built'
  BY <1>1 DEF Resolved, Counted, NoCandidate, Built, BeforeSentinel
<1> QED BY <1>3, <1>4, <1>6, <1>7

LEMMA DetermineStartKeeps == IInv /\ DetermineStart => IInv'
<1> SUFFICES ASSUME IInv, DetermineStart PROVE IInv'
  OBVIOUS
<1> USE DEF IInv
<1>1. /\ pc = "resolve" /\ left = 0 /\ pc' = "sentinel"
      /\ start' = IF start = Nil /\ UnusedPlaces # {} THEN symlist[Min(UnusedPlaces)] ELSE start
      /\ UNCHANGED <<type, uses, htype, symlist, prods, declared, left, cr, sentinel, gram>>
  BY DEF DetermineStart
<1>2. ASSUME UnusedPlaces # {}
      PROVE  symlist[Min(UnusedPlaces)] \in Names /\ type[symlist[Min(UnusedPlaces)]] = "nonterminal"
  <2>1. UnusedPlaces \in SUBSET Nat
    BY DEF UnusedPlaces
  <2>2. Min(UnusedPlaces) \in UnusedPlaces
    BY <1>2, <2>1, NatLeast DEF Min
  <2>3. /\ Min(UnusedPlaces) \in 1..Len(symlist)
        /\ type[symlist[Min(UnusedPlaces)]] = "nonterminal"
    BY <2>2 DEF UnusedPlaces
  <2>4. symlist[Min(UnusedPlaces)] \in AllNames
    BY <2>3, ListMembers
  <2> QED BY <2>3, <2>4, <1>1 DEF AllNames, Kinds, BeforeSentinel
<1>3. TypeOK'
  BY <1>1, <1>2 DEF TypeOK, AllNames
<1>4. ListSound' /\ Kinds' /\ LeftSides'
  BY <1>1 DEF ListSound, Kinds, LeftSides, BeforeSentinel
<1>5. StartKnown'
  <2>1. BeforeSentinel /\ BeforeSentinel'
    BY <1>1 DEF BeforeSentinel
  <2>2. start' # Nil => start' \in Names /\ type'[start'] = "nonterminal"
    BY <2>1, <1>1, <1>2 DEF StartKnown
  <2>3. start' = Nil => start = Nil
    BY <1>1
  <2> QED BY <2>1, <2>2, <2>3, <1>1 DEF StartKnown
<1>6. Resolving' /\ Built'
  BY <1>1 DEF Resolving, Built
<1>7. Resolved'
  <2> SUFFICES ASSUME NEW r \in 1..Len(prods') PROVE Known(r)'
    BY DEF Resolved
  <2>1. r \in 1..Len(prods) /\ (Known(r) => Known(r)')
    BY <1>1 DEF Known
  <2>2. prods[r] \in Seq(Names) /\ prods[r] # << >>
    BY <2>1, ElementOfSeq DEF TypeOK, LeftSides
  <2>3. Head(prods[r]) \in AllNames /\ type[Head(prods[r])] # "unknown"
    BY <2>1, <2>2, HeadTailProperties DEF LeftSides, AllNames
  <2>4. PICK i \in 1..Len(symlist) : symlist[i] = Head(prods[r])
    BY <2>3 DEF ListSound, Occurs
  <2>5. Len(symlist) \in Nat
    BY LenProperties DEF TypeOK
  <2> DEFINE k == Len(symlist) - i + 1
  <2>6. k \in (left + 1)..Len(symlist) /\ Len(symlist) - k + 1 = i
    BY <2>4, <2>5, <1>1
  <2> HIDE DEF k
  <2>7. Head(prods[r]) = symlist[Len(symlist) - k + 1]
    BY <2>4, <2>6
  <2> QED BY <2>1, <2>6, <2>7, <1>1 DEF Resolving
<1>8. Counted'
  BY <1>1 DEF Counted, BeforeSentinel
<1>9. NoCandidate'
  <2> SUFFICES ASSUME start' = Nil, NEW n \in Names, type[n] = "nonterminal" PROVE uses[n] # 0
    BY <1>1 DEF NoCandidate
  <2>1. n \in AllNames
    BY DEF AllNames
  <2>2. PICK k \in 1..Len(symlist) : symlist[k] = n
    BY <2>1 DEF ListSound, Occurs
  <2>3. UnusedPlaces = {}
    <3>1. UnusedPlaces # {} => start' # Nil
      BY <1>1, <1>2, NamesAssumption
    <3> QED BY <3>1
  <2> QED BY <2>2, <2>3 DEF UnusedPlaces
<1> QED BY <1>3, <1>4, <1>5, <1>6, <1>7, <1>8, <1>9

LEMMA CrashKeeps == IInv /\ Crash => IInv'
<1> SUFFICES ASSUME IInv, Crash PROVE IInv'
  OBVIOUS
<1> USE DEF IInv, Crash
<1>1. TypeOK' /\ ListSound' /\ Kinds' /\ LeftSides' /\ StartKnown'
  BY DEF TypeOK, ListSound, Kinds, LeftSides, StartKnown, BeforeSentinel
<1>2. Resolving' /\ Counted' /\ NoCandidate' /\ Built'
  BY DEF Resolving, Counted, NoCandidate, Built, BeforeSentinel
<1>3. Resolved'
  BY DEF Resolved, Known
<1> QED BY <1>1, <1>2, <1>3

LEMMA AddSentinelKeeps == IInv /\ AddSentinel => IInv'
<1> SUFFICES ASSUME IInv, AddSentinel PROVE IInv'
  OBVIOUS
<1> USE DEF IInv
<1>1. /\ pc = "sentinel" /\ start # Nil /\ pc' = "count"
      /\ type' = [type EXCEPT ![Eof] = "terminal", ![Start] = "start"]
      /\ symlist' = <<Eof>> \o symlist \o <<Start>>
      /\ uses' = [uses EXCEPT ![start] = @ + 1, ![Eof] = @ + 1]
      /\ sentinel' = <<start, Eof>> /\ start' = Start
      /\ UNCHANGED <<htype, prods, declared, left, cr, gram>>
  BY DEF AddSentinel
<1>2. /\ Names \subseteq AllNames /\ Eof \in AllNames /\ Start \in AllNames
      /\ Eof # Start /\ Eof \notin Names /\ Start \notin Names
      /\ Nil \notin AllNames
  BY NamesAssumption DEF AllNames
<1>3. start \in Names /\ type[start] = "nonterminal" /\ type[Eof] = "unknown" /\ type[Start] = "unknown"
  BY <1>1 DEF StartKnown, Kinds, BeforeSentinel
<1>4. /\ type' \in [AllNames -> {"unknown", "terminal", "nonterminal", "start"}]
      /\ type'[Eof] = "terminal" /\ type'[Start] = "start"
      /\ \A n \in AllNames \ {Eof, Start} : type'[n] = type[n]
  BY <1>1, <1>2 DEF TypeOK
<1>5. symlist' \in Seq(AllNames) /\ ListSound'
  <2> DEFINE t == [type EXCEPT ![Eof] = "terminal"]
             l == <<Eof>> \o symlist
  <2>1. /\ t[Eof] = "terminal" /\ t[Start] = "unknown"
        /\ \A n \in AllNames : n # Eof => t[n] = type[n]
        /\ \A n \in AllNames \ {Start} : type'[n] = t[n]
    BY <1>2, <1>3, <1>4 DEF TypeOK
  <2> HIDE DEF t
  <2>2. <<Eof>> \in Seq(AllNames) /\ NoRepeats(<<Eof>>) /\ \A y : Occurs(y, <<Eof>>) <=> y = Eof
    BY <1>2 DEF NoRepeats, Occurs
  <2>3. symlist \in Seq(AllNames) /\ Listed(type, symlist)
    BY DEF TypeOK, ListSound, Listed
  <2>4. \A y : Occurs(y, <<Eof>>) => type[y] = "unknown"
    BY <2>2, <1>3
  <2>5. \A n \in AllNames : t[n] = IF Occurs(n, <<Eof>>) THEN "terminal" ELSE type[n]
    BY <2>1, <2>2
  <2>6. l \in Seq(AllNames) /\ Listed(t, l)
    BY <2>2, <2>3, <2>4, <2>5, TerminalsListed
  <2> HIDE DEF l
  <2>7. type'[Start] \notin {"unknown", "terminal"}
    BY <1>4
  <2>8. Append(l, Start) \in Seq(AllNames) /\ Listed(type', Append(l, Start))
    BY <2>1, <2>6, <2>7, <1>2, NonterminalListed
  <2>9. symlist' = Append(l, Start)
    <3>1. symlist' = l \o <<Start>>
      BY <1>1 DEF l
    <3> QED BY <3>1, <2>6, <1>2, AppendIsConcat
  <2> QED BY <2>8, <2>9 DEF ListSound, Listed
<1>6. TypeOK'
  <2>1. uses' \in [AllNames -> Nat]
    <3>1. \A n \in AllNames : uses[n] \in Nat /\ uses[n] + 1 \in Nat
      BY DEF TypeOK
    <3>2. uses' = [n \in AllNames |-> IF n = start \/ n = Eof THEN uses[n] + 1 ELSE uses[n]]
      BY <1>1, <1>2, <1>3 DEF TypeOK
    <3> QED BY <3>1, <3>2
  <2>2. sentinel' \in Seq(AllNames)
    <3>1. start \in AllNames /\ Eof \in AllNames
      BY <1>2, <1>3
    <3> QED BY <1>1, <3>1
  <2> QED BY <2>1, <2>2, <1>1, <1>2, <1>4, <1>5 DEF TypeOK
<1>7. Kinds'
  BY <1>1, <1>2, <1>4 DEF Kinds, BeforeSentinel
<1>8. ASSUME NEW r \in 1..Len(prods)
      PROVE  /\ Head(prods[r]) \in Names
             /\ \A x : Occurs(x, Tail(prods[r])) => x \in Names
  <2>1. prods[r] \in Seq(Names) /\ prods[r] # << >>
    BY ElementOfSeq DEF TypeOK, LeftSides
  <2>2. Head(prods[r]) \in Names /\ Tail(prods[r]) \in Seq(Names)
    BY <2>1, HeadTailProperties
  <2> QED BY <2>2, ElementOfSeq DEF Occurs
<1>9. LeftSides'
  BY <1>1, <1>2, <1>4, <1>8 DEF LeftSides
<1>10. StartKnown'
  <2>1. type'[start] = "nonterminal"
    BY <1>2, <1>3, <1>4
  <2> QED BY <2>1, <1>1, <1>2, <1>3 DEF StartKnown, BeforeSentinel
<1>11. Resolving' /\ Counted' /\ NoCandidate' /\ Built'
  BY <1>1 DEF Resolving, Counted, NoCandidate, Built, BeforeSentinel
<1>12. Resolved'
  <2> SUFFICES ASSUME NEW r \in 1..Len(prods) PROVE Known(r)'
    BY <1>1 DEF Resolved
  <2>1. Known(r)
    BY <1>1 DEF Resolved
  <2> QED BY <2>1, <1>1, <1>2, <1>4, <1>8 DEF Known
<1> QED BY <1>5, <1>6, <1>7, <1>9, <1>10, <1>11, <1>12

LEMMA CountSymbolsKeeps == IInv /\ CountSymbols => IInv'
<1> SUFFICES ASSUME IInv, CountSymbols PROVE IInv'
  OBVIOUS
<1> USE DEF IInv
<1>1. /\ pc = "count" /\ pc' = "done" /\ gram' = Counts
      /\ UNCHANGED <<type, uses, htype, symlist, prods, start, declared, left, cr, sentinel>>
  BY DEF CountSymbols, Counts
<1>2. TypeOK' /\ ListSound' /\ Kinds' /\ LeftSides' /\ StartKnown'
  BY <1>1 DEF TypeOK, ListSound, Kinds, LeftSides, StartKnown, BeforeSentinel
<1>3. Resolving' /\ Counted' /\ NoCandidate'
  BY <1>1 DEF Resolving, Counted, NoCandidate, BeforeSentinel
<1>4. Resolved'
  BY <1>1 DEF Resolved, Known
<1>5. Built'
  <2>1. Counts' = Counts
    BY <1>1 DEF Counts
  <2> QED BY <2>1, <1>1 DEF Built
<1> QED BY <1>2, <1>3, <1>4, <1>5

-----------------------------------------------------------------------------
(* The theorems.                                                           *)

\* The invariant the other theorems follow from: what grammar.c's lists, types and
\* use counts are between any two of its operations.
THEOREM InductiveInvariant == Spec => []IInv
<1>1. Init => IInv
  BY InitInvariant
<1>2. IInv /\ [Next]_vars => IInv'
  <2> SUFFICES ASSUME IInv, [Next]_vars PROVE IInv'
    OBVIOUS
  <2>1. CASE Read
    BY <2>1, ReadKeeps
  <2>2. CASE EndOfFile
    BY <2>2, EndOfFileKeeps
  <2>3. CASE ResolveRule
    BY <2>3, ResolveRuleKeeps
  <2>4. CASE NextSymbol
    BY <2>4, NextSymbolKeeps
  <2>5. CASE DetermineStart
    BY <2>5, DetermineStartKeeps
  <2>6. CASE Crash
    BY <2>6, CrashKeeps
  <2>7. CASE AddSentinel
    BY <2>7, AddSentinelKeeps
  <2>8. CASE CountSymbols
    BY <2>8, CountSymbolsKeeps
  <2>9. CASE UNCHANGED vars
    <3>1. TypeOK' /\ ListSound' /\ Kinds' /\ LeftSides' /\ StartKnown'
      BY <2>9 DEF vars, IInv, TypeOK, ListSound, Kinds, LeftSides, StartKnown, BeforeSentinel
    <3>2. Resolving'
      BY <2>9 DEF vars, IInv, Resolving, Known, Current
    <3>3. Resolved' /\ Counted' /\ NoCandidate' /\ Built'
      BY <2>9 DEF vars, IInv, Resolved, Known, Counted, NoCandidate, Built, Counts, BeforeSentinel
    <3> QED BY <3>1, <3>2, <3>3 DEF IInv
  <2> QED BY <2>1, <2>2, <2>3, <2>4, <2>5, <2>6, <2>7, <2>8, <2>9 DEF Next, CompleteGrammar
<1> QED BY <1>1, <1>2, PTL DEF Spec

\* Type correctness of the store.
THEOREM TypeCorrect == Spec => []TypeOK
<1>1. IInv => TypeOK
  BY DEF IInv
<1> QED BY <1>1, InductiveInvariant, PTL

\* A symbol is on the list exactly if its type is known, once, and terminals stand
\* before nonterminals: whatever a file declares in whatever order, and between any
\* two rules of resolve_symbols' walk over the list that it adds to.
THEOREM ListsSymbolsOnce == Spec => []ListSound
<1>1. IInv => ListSound
  BY DEF IInv
<1> QED BY <1>1, InductiveInvariant, PTL

\* add_sentinel_rule's null pointer is dereferenced only if no start symbol was
\* declared and every nonterminal is used by some rule.
THEOREM CrashesOnlyWithoutStart == Spec => [](pc = "crash" => WithoutStart)
<1>1. IInv /\ pc = "crash" => WithoutStart
  <2> SUFFICES ASSUME IInv, pc = "crash" PROVE WithoutStart
    OBVIOUS
  <2>1. start = Nil /\ declared = Nil
    BY DEF IInv, NoCandidate, StartKnown
  <2>2. \A n \in Names : type[n] = "nonterminal" => Used(prods, n)
    BY <2>1 DEF IInv, NoCandidate, Counted, BeforeSentinel
  <2> QED BY <2>1, <2>2 DEF WithoutStart
<1> QED BY <1>1, InductiveInvariant, PTL

\* What grammar_complete leaves has the shape that every later pass relies on: the
\* proofs about nullable.c and lr0.c assume it of their grammars.
THEOREM CompletesToGrammar == Spec => [](pc = "done" => IsGrammar(gram))
<1>1. IInv /\ pc = "done" => IsGrammar(gram)
  <2> SUFFICES ASSUME IInv, pc = "done" PROVE IsGrammar(gram)
    OBVIOUS
  <2> USE DEF IInv
  <2> DEFINE Ts == {n \in AllNames : type[n] = "terminal"}
             Ns == {n \in AllNames : type[n] = "nonterminal"}
             g  == Counts
  <2>1. /\ g.syms = symlist /\ g.terms = Ts /\ g.nonterms = Ns /\ g.start = start
        /\ g = [syms |-> g.syms, terms |-> g.terms, nonterms |-> g.nonterms,
                start |-> g.start, rules |-> g.rules, rulesOf |-> g.rulesOf]
        /\ DOMAIN g.rules = 0..Len(prods)
        /\ \A r \in 0..Len(prods) :
             g.rules[r] = IF r = 0 THEN [lhs |-> start, rhs |-> sentinel]
                          ELSE [lhs |-> Head(prods[r]), rhs |-> Tail(prods[r])]
        /\ g.rulesOf = [n \in Ns |-> RulesOf(prods, n)]
    BY DEF Counts
  <2> HIDE DEF g
  <2>2. /\ Names \subseteq AllNames /\ Eof \in AllNames /\ Start \in AllNames
        /\ Eof # Start /\ Eof \notin Names /\ Start \notin Names
        /\ Nil \notin AllNames /\ Nil \notin Nat /\ AllNames = Names \cup {Eof, Start}
    BY NamesAssumption DEF AllNames
  <2>3. /\ start = Start /\ type[Eof] = "terminal" /\ type[Start] = "start"
        /\ \A n \in Names : type[n] # "start"
    BY DEF StartKnown, Kinds, BeforeSentinel
  <2>4. PICK s \in Names : type[s] = "nonterminal" /\ sentinel = <<s, Eof>>
    BY DEF StartKnown, BeforeSentinel
  <2>5. Symbols(g) = {n \in AllNames : type[n] # "unknown"}
    <3>1. \A n \in AllNames : type[n] \in {"unknown", "terminal", "nonterminal", "start"}
      BY DEF TypeOK
    <3>2. Symbols(g) = Ts \cup Ns \cup {Start}
      BY <2>1, <2>3 DEF Symbols
    <3> QED BY <3>1, <3>2, <2>2, <2>3
  <2>6. /\ g.start = Start /\ Eof \in g.terms
        /\ g.terms \cap g.nonterms = {} /\ g.start \notin g.terms \cup g.nonterms
        /\ Nil \notin Symbols(g)
    BY <2>1, <2>2, <2>3, <2>5
  <2>7. /\ g.syms \in Seq(Symbols(g))
        /\ NoRepeats(g.syms) /\ \A x \in Symbols(g) : Occurs(x, g.syms)
    <3>1. Len(symlist) \in Nat /\ symlist = [i \in 1..Len(symlist) |-> symlist[i]]
      BY LenProperties DEF TypeOK
    <3>2. \A i \in 1..Len(symlist) : symlist[i] \in Symbols(g)
      BY <2>5, ListMembers
    <3>3. symlist \in Seq(Symbols(g))
      <4> HIDE DEF IInv
      <4> QED BY <3>1, <3>2, IsASeq
    <3> QED BY <3>3, <2>1, <2>5 DEF ListSound
  <2>8. Len(prods) \in Nat /\ RuleIds(g) = 0..Len(prods)
    BY <2>1, LenProperties DEF RuleIds, TypeOK
  <2>9. RuleIds(g) \subseteq Nat /\ 0 \in RuleIds(g) /\ Nil \notin RuleIds(g)
    BY <2>2, <2>8
  <2>10. ASSUME NEW r \in 1..Len(prods)
         PROVE  /\ Lhs(g, r) = Head(prods[r]) /\ Rhs(g, r) = Tail(prods[r])
                /\ Head(prods[r]) \in Ns /\ Head(prods[r]) # Start
                /\ Tail(prods[r]) \in Seq(Ts \cup Ns)
    <3>1. r \in 0..Len(prods) /\ r # 0
      OBVIOUS
    <3>2. prods[r] \in Seq(Names) /\ prods[r] # << >>
      BY ElementOfSeq DEF TypeOK, LeftSides
    <3>3. Head(prods[r]) \in Names /\ Tail(prods[r]) \in Seq(Names)
      BY <3>2, HeadTailProperties
    <3>4. type[Head(prods[r])] = "nonterminal"
      BY DEF LeftSides
    <3>5. Known(r)
      BY DEF Resolved
    <3> DEFINE t == Tail(prods[r])
    <3>6. \A i \in 1..Len(t) : t[i] \in Ts \cup Ns
      <4> SUFFICES ASSUME NEW i \in 1..Len(t) PROVE t[i] \in Ts \cup Ns
        OBVIOUS
      <4>1. t[i] \in Names /\ Occurs(t[i], t)
        BY <3>3, ElementOfSeq DEF Occurs
      <4>2. t[i] \in AllNames /\ type[t[i]] # "unknown" /\ type[t[i]] # "start"
        BY <4>1, <3>5, <2>2, <2>3 DEF Known
      <4>3. type[t[i]] \in {"unknown", "terminal", "nonterminal", "start"}
        BY <4>2 DEF TypeOK
      <4> QED BY <4>2, <4>3
    <3>7. Len(t) \in Nat /\ t = [i \in 1..Len(t) |-> t[i]]
      BY <3>3, LenProperties
    <3>8. t \in Seq(Ts \cup Ns)
      <4> HIDE DEF t, Ts, Ns, IInv
      <4> QED BY <3>6, <3>7, IsASeq
    <3>9. Lhs(g, r) = Head(prods[r]) /\ Rhs(g, r) = Tail(prods[r])
      <4>1. g.rules[r] = [lhs |-> Head(prods[r]), rhs |-> Tail(prods[r])]
        BY <2>1, <3>1
      <4> QED BY <4>1 DEF Lhs, Rhs
    <3> QED BY <3>3, <3>4, <3>8, <3>9, <2>2
  <2>11. Lhs(g, 0) = Start /\ Rhs(g, 0) = <<s, Eof>> /\ Rhs(g, 0) \in Seq(Ts \cup Ns)
    <3>1. 0 \in 0..Len(prods)
      BY <2>8
    <3>2. s \in Ts \cup Ns /\ Eof \in Ts \cup Ns
      BY <2>2, <2>3, <2>4
    <3>3. <<s, Eof>> \in Seq(Ts \cup Ns)
      <4> HIDE DEF Ts, Ns
      <4> QED BY <3>2
    <3>4. g.rules[0] = [lhs |-> start, rhs |-> sentinel]
      BY <2>1, <3>1
    <3>5. Lhs(g, 0) = Start /\ Rhs(g, 0) = <<s, Eof>>
      BY <2>3, <2>4, <3>4 DEF Lhs, Rhs
    <3> QED BY <3>3, <3>5
  <2>12. ASSUME NEW r \in RuleIds(g)
         PROVE  /\ Lhs(g, r) \in g.nonterms \cup {g.start}
                /\ Rhs(g, r) \in Seq(g.terms \cup g.nonterms)
                /\ Lhs(g, r) = g.start <=> r = 0
    <3>1. CASE r = 0
      BY <3>1, <2>1, <2>3, <2>11
    <3>2. CASE r # 0
      <4>1. r \in 1..Len(prods)
        BY <3>2, <2>8
      <4>2. /\ Lhs(g, r) \in Ns /\ Lhs(g, r) # Start
            /\ Rhs(g, r) \in Seq(Ts \cup Ns)
        BY <4>1, <2>10
      <4> HIDE DEF IInv, Ts, Ns
      <4> QED BY <4>2, <3>2, <2>1, <2>3
    <3> QED BY <3>1, <3>2
  <2>13. ASSUME NEW n \in Ns
         PROVE  /\ g.rulesOf[n] \in Seq(RuleIds(g))
                /\ NoRepeats(g.rulesOf[n])
                /\ \A r \in RuleIds(g) : Lhs(g, r) = n <=> Occurs(r, g.rulesOf[n])
    <3>1. g.rulesOf[n] = RulesOf(prods, n)
      BY <2>1
    <3>2. /\ RulesOf(prods, n) \in Seq(1..Len(prods)) /\ NoRepeats(RulesOf(prods, n))
          /\ \A r : Occurs(r, RulesOf(prods, n)) <=> r \in 1..Len(prods) /\ Head(prods[r]) = n
      BY <2>8, RulesOfFacts
    <3>3. 1..Len(prods) \subseteq RuleIds(g)
      BY <2>8
    <3>4. RulesOf(prods, n) \in Seq(RuleIds(g))
      BY <3>2, <3>3, SeqMonotonic
    <3>5. ASSUME NEW r \in RuleIds(g) PROVE Lhs(g, r) = n <=> Occurs(r, RulesOf(prods, n))
      <4>1. CASE r = 0
        <5>1. Lhs(g, r) # n
          BY <4>1, <2>3, <2>11
        <5>2. r \notin 1..Len(prods)
          BY <4>1
        <5> QED BY <5>1, <5>2, <3>2
      <4>2. CASE r # 0
        <5>1. r \in 1..Len(prods)
          BY <4>2, <2>8
        <5> QED BY <5>1, <2>10, <3>2
      <4> QED BY <4>1, <4>2
    <3> QED BY <3>1, <3>2, <3>4, <3>5
  <2>14. /\ g.rulesOf \in [g.nonterms -> Seq(RuleIds(g))]
         /\ \A n \in g.nonterms :
              /\ NoRepeats(g.rulesOf[n])
              /\ \A r \in RuleIds(g) : Lhs(g, r) = n <=> Occurs(r, g.rulesOf[n])
    <3>1. g.rulesOf = [n \in g.nonterms |-> g.rulesOf[n]]
      BY <2>1
    <3> HIDE DEF IInv
    <3> QED BY <3>1, <2>1, <2>13
  <2>15. \E n \in g.nonterms : Rhs(g, 0) = <<n, Eof>>
    BY <2>1, <2>2, <2>4, <2>11
  <2>16. IsGrammar(g)
    BY <2>1, <2>6, <2>7, <2>9, <2>12, <2>14, <2>15 DEF IsGrammar
  <2>17. gram = g
    BY DEF Built, g
  <2> QED BY <2>16, <2>17
<1> QED BY <1>1, InductiveInvariant, PTL
=============================================================================
