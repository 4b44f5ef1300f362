--------------------------- MODULE NullableProofs ---------------------------
(***************************************************************************)
(* Proofs about Nullable.  The inductive invariant IInv says where each    *)
(* rule is at any moment: not yet scanned, in hand, filed under the symbol *)
(* its nnl points at, or unable to make its left side nullable any more.   *)
(***************************************************************************)
EXTENDS Nullable, ListLemmas

\* What IsGrammar says of the rules of the grammar at hand.
LEMMA RuleFacts ==
  ASSUME gram \in Grammars, NEW r \in RuleIds(gram) \ {0}
  PROVE  /\ Lhs(gram, r) \in gram.nonterms
         /\ Rhs(gram, r) \in Seq(gram.terms \cup gram.nonterms)
         /\ Length(gram, r) \in Nat
         /\ \A i \in 1..Length(gram, r) : Rhs(gram, r)[i] \in gram.terms \cup gram.nonterms
         /\ Occurs(r, gram.rulesOf[Lhs(gram, r)])
         /\ Occurs(Lhs(gram, r), gram.syms)
<1>1. IsGrammar(gram)
  BY GrammarsAreGrammars
<1>2. Lhs(gram, r) \in gram.nonterms
  BY <1>1 DEF IsGrammar
<1>3. Rhs(gram, r) \in Seq(gram.terms \cup gram.nonterms)
  BY <1>1 DEF IsGrammar
<1>4. Occurs(r, gram.rulesOf[Lhs(gram, r)])
  BY <1>1, <1>2 DEF IsGrammar
<1>5. Occurs(Lhs(gram, r), gram.syms)
  BY <1>1, <1>2 DEF IsGrammar, Symbols
<1> QED BY <1>2, <1>3, <1>4, <1>5, LenProperties, ElementOfSeq DEF Length

\* What IsGrammar says of the lists of the grammar at hand.
LEMMA ListFacts ==
  ASSUME gram \in Grammars
  PROVE  /\ Nil \notin gram.nonterms /\ Nil \notin RuleIds(gram)
         /\ Len(gram.syms) \in Nat /\ NoRepeats(gram.syms)
         /\ \A s \in gram.nonterms :
              /\ gram.rulesOf[s] \in Seq(RuleIds(gram)) /\ Len(gram.rulesOf[s]) \in Nat
              /\ NoRepeats(gram.rulesOf[s])
              /\ \A j \in 1..Len(gram.rulesOf[s]) :
                   /\ gram.rulesOf[s][j] \in RuleIds(gram) \ {0}
                   /\ Lhs(gram, gram.rulesOf[s][j]) = s
<1>1. IsGrammar(gram)
  BY GrammarsAreGrammars
<1>2. Nil \notin gram.nonterms /\ Nil \notin RuleIds(gram) /\ gram.start \notin gram.nonterms
  BY <1>1 DEF IsGrammar, Symbols
<1>3. Len(gram.syms) \in Nat /\ NoRepeats(gram.syms)
  BY <1>1, LenProperties DEF IsGrammar
<1>4. ASSUME NEW s \in gram.nonterms
      PROVE  gram.rulesOf[s] \in Seq(RuleIds(gram)) /\ NoRepeats(gram.rulesOf[s])
  BY <1>1 DEF IsGrammar
<1>5. ASSUME NEW s \in gram.nonterms, NEW j \in 1..Len(gram.rulesOf[s])
      PROVE  gram.rulesOf[s][j] \in RuleIds(gram) \ {0} /\ Lhs(gram, gram.rulesOf[s][j]) = s
  <2>1. gram.rulesOf[s][j] \in RuleIds(gram)
    BY <1>4, ElementOfSeq
  <2>2. Occurs(gram.rulesOf[s][j], gram.rulesOf[s])
    BY DEF Occurs
  <2>3. Lhs(gram, gram.rulesOf[s][j]) = s
    BY <1>1, <2>1, <2>2 DEF IsGrammar
  <2>4. Lhs(gram, 0) = gram.start /\ 0 \in RuleIds(gram)
    BY <1>1 DEF IsGrammar
  <2> QED BY <2>1, <2>3, <2>4, <1>2
<1> QED BY <1>2, <1>3, <1>4, <1>5, LenProperties

-----------------------------------------------------------------------------
(* Which rules the first pass has been at.                                 *)

\* The rule at the scan position has not been scanned; scanning it adds just it.
LEMMA ScanAdds ==
  ASSUME TypeOK, HasRuleAt(si, ri), si' = si, ri' = ri + 1, gram' = gram
  PROVE  LET r0 == gram.rulesOf[gram.syms[si]][ri] IN
         /\ r0 \in RuleIds(gram) \ {0} /\ ~ Scanned(r0)
         /\ \A r \in RuleIds(gram) \ {0} : Scanned(r)' <=> r = r0 \/ Scanned(r)
<1> DEFINE s0 == gram.syms[si]
           r0 == gram.rulesOf[s0][ri]
<1>1. /\ si \in 1..Len(gram.syms) /\ s0 \in gram.nonterms
      /\ ri \in 1..Len(gram.rulesOf[s0])
  BY ListFacts DEF TypeOK, HasRuleAt
<1>2. r0 \in RuleIds(gram) \ {0} /\ Lhs(gram, r0) = s0
  BY <1>1, ListFacts DEF TypeOK
<1>3. NoRepeats(gram.syms) /\ NoRepeats(gram.rulesOf[s0])
  BY <1>1, ListFacts DEF TypeOK
<1>4. ~ Scanned(r0)
  <2> SUFFICES ASSUME NEW i \in 1..Len(gram.syms), NEW j \in 1..Len(gram.rulesOf[s0]),
                      gram.syms[i] = s0, gram.rulesOf[s0][j] = r0,
                      i < si \/ (i = si /\ j < ri)
               PROVE  FALSE
    BY <1>2 DEF Scanned
  <2>1. i = si
    BY <1>1, <1>3 DEF NoRepeats
  <2>2. j = ri
    BY <1>1, <1>3 DEF NoRepeats
  <2> QED BY <2>1, <2>2, <1>1
<1>5. ASSUME NEW r \in RuleIds(gram) \ {0}, Scanned(r)' PROVE r = r0 \/ Scanned(r)
  <2>1. PICK i \in 1..Len(gram.syms), j \in 1..Len(gram.rulesOf[Lhs(gram, r)]) :
          /\ gram.syms[i] = Lhs(gram, r) /\ gram.rulesOf[Lhs(gram, r)][j] = r
          /\ i < si \/ (i = si /\ j < ri + 1)
    BY <1>5 DEF Scanned, Lhs
  <2>2. Len(gram.rulesOf[Lhs(gram, r)]) \in Nat
    BY RuleFacts, ListFacts DEF TypeOK
  <2>3. CASE i < si \/ (i = si /\ j < ri)
    BY <2>1, <2>3 DEF Scanned
  <2>4. CASE i = si /\ j = ri
    BY <2>1, <2>4
  <2> QED BY <2>1, <2>2, <2>3, <2>4, <1>1
<1>6. ASSUME NEW r \in RuleIds(gram) \ {0}, r = r0 PROVE Scanned(r)'
  <2>1. /\ gram.syms[si] = Lhs(gram, r) /\ gram.rulesOf[Lhs(gram, r)][ri] = r
        /\ ri \in 1..Len(gram.rulesOf[Lhs(gram, r)])
    BY <1>1, <1>2, <1>6
  <2>2. ri < ri + 1
    BY DEF TypeOK
  <2> QED BY <2>1, <2>2, <1>1 DEF Scanned, Lhs
<1>7. ASSUME NEW r \in RuleIds(gram) \ {0}, Scanned(r) PROVE Scanned(r)'
  <2>1. PICK i \in 1..Len(gram.syms), j \in 1..Len(gram.rulesOf[Lhs(gram, r)]) :
          /\ gram.syms[i] = Lhs(gram, r) /\ gram.rulesOf[Lhs(gram, r)][j] = r
          /\ i < si \/ (i = si /\ j < ri)
    BY <1>7 DEF Scanned
  <2>2. j \in Nat
    BY RuleFacts, ListFacts DEF TypeOK
  <2>3. i < si \/ (i = si /\ j < ri + 1)
    BY <2>1, <2>2 DEF TypeOK
  <2> QED BY <2>1, <2>3 DEF Scanned, Lhs
<1> QED BY <1>2, <1>4, <1>5, <1>6, <1>7

\* Moving on to the next symbol leaves no rule behind.
LEMMA NextSymbolKeepsScanned ==
  ASSUME TypeOK, NextSymbol, NEW r \in RuleIds(gram) \ {0}
  PROVE  Scanned(r)' <=> Scanned(r)
<1> USE DEF NextSymbol
<1>1. /\ Lhs(gram, r) \in gram.nonterms /\ Len(gram.rulesOf[Lhs(gram, r)]) \in Nat
      /\ Len(gram.syms) \in Nat
  BY RuleFacts, ListFacts DEF TypeOK
<1>2. ASSUME NEW i \in 1..Len(gram.syms), NEW j \in 1..Len(gram.rulesOf[Lhs(gram, r)]),
             gram.syms[i] = Lhs(gram, r)
      PROVE  (i < si + 1 \/ (i = si + 1 /\ j < 1)) <=> (i < si \/ (i = si /\ j < ri))
  <2>1. CASE i = si
    <3>1. ~ (ri <= Len(gram.rulesOf[gram.syms[si]]))
      BY <2>1, <1>1, <1>2 DEF HasRuleAt
    <3>2. j < ri
      BY <3>1, <2>1, <1>1, <1>2 DEF TypeOK
    <3> QED BY <2>1, <3>2, <1>1 DEF TypeOK
  <2>2. CASE i # si
    BY <2>2, <1>1 DEF TypeOK
  <2> QED BY <2>1, <2>2
<1> QED BY <1>2 DEF Scanned, Lhs

\* Behind the last symbol every rule has been scanned.
LEMMA AllScanned ==
  ASSUME TypeOK, si > Len(gram.syms), NEW r \in RuleIds(gram) \ {0}
  PROVE  Scanned(r)
<1>1. Occurs(r, gram.rulesOf[Lhs(gram, r)]) /\ Occurs(Lhs(gram, r), gram.syms)
  BY RuleFacts DEF TypeOK
<1>2. PICK i \in 1..Len(gram.syms) : gram.syms[i] = Lhs(gram, r)
  BY <1>1 DEF Occurs
<1>3. PICK j \in 1..Len(gram.rulesOf[Lhs(gram, r)]) : gram.rulesOf[Lhs(gram, r)][j] = r
  BY <1>1 DEF Occurs
<1>4. i < si
  BY ListFacts DEF TypeOK
<1> QED BY <1>2, <1>3, <1>4 DEF Scanned

\* A step that leaves the scan position alone scans nothing.
LEMMA SameScanned ==
  ASSUME UNCHANGED <<gram, si, ri>>, NEW r
  PROVE  Scanned(r)' <=> Scanned(r)
BY DEF Scanned, Lhs

-----------------------------------------------------------------------------
(* enqueue_rule_if_needed, wherever it is called from.                     *)

\* What filing rule r, or queueing its left side, does to the lists.
LEMMA EnqueueFacts ==
  ASSUME TypeOK, IntrusiveListsSound, Passes,
         NEW r \in RuleIds(gram) \ {0}, NEW n \in 0..Length(gram, r),
         EnqueueIfNeeded(r, n), gram' = gram,
         \A s \in gram.nonterms : ~ FiledUnder(r, s)
  PROVE  /\ nullable \subseteq nullable' /\ nullable' \subseteq gram.nonterms
         /\ \A s \in nullable' \ nullable : s = Lhs(gram, r) /\ n = 0
         /\ n = 0 => Lhs(gram, r) \in nullable'
         /\ nnl' \in [RuleIds(gram) -> Nat] /\ nnl'[r] = n
         /\ \A q \in RuleIds(gram) : q # r => nnl'[q] = nnl[q]
         /\ queue' \in Seq(gram.nonterms) /\ NoRepeats(queue')
         /\ \A s : Occurs(s, queue') <=> Occurs(s, queue) \/ s \in nullable' \ nullable
         /\ relations' \in [gram.nonterms -> Seq(RuleIds(gram) \ {0})]
         /\ \A s \in gram.nonterms :
              /\ NoRepeats(relations'[s])
              /\ \A q : Occurs(q, relations'[s]) <=>
                    \/ Occurs(q, relations[s])
                    \/ q = r /\ Lhs(gram, r) \notin nullable /\ n # 0 /\ Rhs(gram, r)[n] = s
              /\ relations'[s] # << >> =>
                    \/ relations[s] # << >>
                    \/ n # 0 /\ Rhs(gram, r)[n] = s
<1> DEFINE lhs == Lhs(gram, r)
           sym == Rhs(gram, r)[n]
<1> USE DEF TypeOK
<1>1. lhs \in gram.nonterms
  BY RuleFacts
<1>2. /\ nnl' = [nnl EXCEPT ![r] = n] /\ n \in Nat
      /\ nnl' \in [RuleIds(gram) -> Nat] /\ nnl'[r] = n
      /\ \A q \in RuleIds(gram) : q # r => nnl'[q] = nnl[q]
  BY RuleFacts DEF EnqueueIfNeeded
<1>3. NoRepeats(queue) /\ \A s : Occurs(s, queue) => s \in nullable
  BY DEF IntrusiveListsSound, Passes, Occurs
<1>4. \A s \in gram.nonterms : NoRepeats(relations[s]) /\ ~ Occurs(r, relations[s])
  BY DEF IntrusiveListsSound, FiledUnder
<1>5. CASE UNCHANGED <<nullable, queue, relations>> /\ (lhs \in nullable \/
             (n # 0 /\ sym \notin gram.nonterms))
  BY <1>2, <1>3, <1>4, <1>5
<1>6. CASE /\ lhs \notin nullable /\ n = 0 /\ nullable' = nullable \cup {lhs}
           /\ queue' = <<lhs>> \o queue /\ UNCHANGED relations
  <2>1. /\ queue' \in Seq(gram.nonterms) /\ NoRepeats(queue')
        /\ \A s : Occurs(s, queue') <=> s = lhs \/ Occurs(s, queue)
    BY <1>1, <1>3, <1>6, PushOccurs, PushNoRepeats
  <2> QED BY <2>1, <1>1, <1>2, <1>4, <1>6
<1>7. CASE /\ lhs \notin nullable /\ n # 0 /\ sym \in gram.nonterms
           /\ relations' = [relations EXCEPT ![sym] = <<r>> \o @]
           /\ UNCHANGED <<nullable, queue>>
  <2>1. /\ <<r>> \o relations[sym] \in Seq(RuleIds(gram) \ {0})
        /\ NoRepeats(<<r>> \o relations[sym])
        /\ \A q : Occurs(q, <<r>> \o relations[sym]) <=> q = r \/ Occurs(q, relations[sym])
    <3> DEFINE T == RuleIds(gram) \ {0}
    <3>1. relations[sym] \in Seq(T) /\ NoRepeats(relations[sym]) /\ ~ Occurs(r, relations[sym])
      BY <1>4, <1>7
    <3>2. r \in T
      OBVIOUS
    <3> HIDE DEF T
    <3>3. <<r>> \o relations[sym] \in Seq(T) /\ NoRepeats(<<r>> \o relations[sym])
      BY <3>1, <3>2, PushOccurs, PushNoRepeats
    <3>4. \A q : Occurs(q, <<r>> \o relations[sym]) <=> q = r \/ Occurs(q, relations[sym])
      BY <3>1, <3>2, PushOccurs
    <3> QED BY <3>3, <3>4 DEF T
  <2>2. relations'[sym] = <<r>> \o relations[sym]
        /\ \A s \in gram.nonterms : s # sym => relations'[s] = relations[s]
    BY <1>7
  <2>3. relations' \in [gram.nonterms -> Seq(RuleIds(gram) \ {0})]
    BY <2>1, <1>7
  <2>4. ASSUME NEW s \in gram.nonterms
        PROVE  /\ NoRepeats(relations'[s])
               /\ \A q : Occurs(q, relations'[s]) <=>
                     \/ Occurs(q, relations[s])
                     \/ q = r /\ lhs \notin nullable /\ n # 0 /\ sym = s
               /\ relations'[s] # << >> => relations[s] # << >> \/ (n # 0 /\ sym = s)
    <3>1. CASE s = sym
      BY <3>1, <2>1, <2>2, <1>7
    <3>2. CASE s # sym
      BY <3>2, <2>2, <1>4
    <3> QED BY <3>1, <3>2
  <2> QED BY <2>3, <2>4, <1>2, <1>3, <1>7
<1> QED BY <1>5, <1>6, <1>7 DEF EnqueueIfNeeded

(***************************************************************************)
(* Filing rule r keeps what the invariant says of the lists, the flags and *)
(* the other rules, provided the symbols of r behind n are nullable and,   *)
(* once the queue is being drained, the symbol at n is not.                *)
(***************************************************************************)
LEMMA EnqueueKeeps ==
  ASSUME IInv,
         NEW r \in RuleIds(gram) \ {0}, NEW n \in 0..Length(gram, r),
         EnqueueIfNeeded(r, n), gram' = gram, cur' = cur, rule \in {Nil, r}, rule' = Nil,
         \A s \in gram.nonterms : ~ FiledUnder(r, s),
         \A q \in RuleIds(gram) \ {0} : Scanned(q)' <=> q = r \/ Scanned(q),
         \A i \in n + 1 .. Length(gram, r) : Rhs(gram, r)[i] \in nullable,
         pc # "scan" /\ n # 0 => Rhs(gram, r)[n] \notin nullable
  PROVE  /\ IntrusiveListsSound' /\ Filed' /\ Shortened'
         /\ Waiting' /\ Pending' /\ Justified'
<1> DEFINE lhs == Lhs(gram, r)
           sym == Rhs(gram, r)[n]
<1> USE DEF IInv
<1>1. /\ nullable \subseteq nullable' /\ nullable' \subseteq gram.nonterms
      /\ \A s \in nullable' \ nullable : s = lhs /\ n = 0
      /\ n = 0 => lhs \in nullable'
  BY EnqueueFacts
<1>2. nnl'[r] = n /\ \A q \in RuleIds(gram) : q # r => nnl'[q] = nnl[q]
  BY EnqueueFacts
<1>3. NoRepeats(queue') /\ \A s : Occurs(s, queue') <=> Occurs(s, queue) \/ s \in nullable' \ nullable
  BY EnqueueFacts
<1>4. ASSUME NEW s \in gram.nonterms
      PROVE  /\ NoRepeats(relations'[s])
             /\ \A q : Occurs(q, relations'[s]) <=>
                   Occurs(q, relations[s]) \/ (q = r /\ lhs \notin nullable /\ n # 0 /\ sym = s)
             /\ relations'[s] # << >> => relations[s] # << >> \/ (n # 0 /\ sym = s)
  BY EnqueueFacts, ZenonT(30)
<1>5. Nil \notin RuleIds(gram) /\ lhs \in gram.nonterms
  BY ListFacts, RuleFacts DEF TypeOK
<1>6. IntrusiveListsSound'
  <2>1. ASSUME NEW s \in gram.nonterms, NEW q \in RuleIds(gram), Occurs(q, relations'[s])
        PROVE  rule' # q /\ nnl'[q] # 0 /\ Rhs(gram, q)[nnl'[q]] = s
    <3>1. CASE q = r
      BY <2>1, <3>1, <1>2, <1>4, <1>5 DEF FiledUnder
    <3>2. CASE q # r
      BY <2>1, <3>2, <1>2, <1>4, <1>5 DEF IntrusiveListsSound, FiledUnder
    <3> QED BY <3>1, <3>2
  <2> QED BY <2>1, <1>3, <1>4 DEF IntrusiveListsSound, FiledUnder, Rhs
<1>7. Filed'
  BY <1>4 DEF Filed, FiledUnder
<1>8. Shortened'
  <2> SUFFICES ASSUME NEW q \in RuleIds(gram) \ {0}, q = r \/ Scanned(q)
               PROVE  \A i \in nnl'[q] + 1 .. Length(gram, q) : Rhs(gram, q)[i] \in nullable'
    BY DEF Shortened, NnlSound, Rhs, Length
  <2>1. CASE q = r
    BY <2>1, <1>1, <1>2
  <2>2. CASE q # r
    BY <2>2, <1>1, <1>2 DEF Shortened, NnlSound
  <2> QED BY <2>1, <2>2
<1>9. Waiting'
  <2> SUFFICES ASSUME NEW q \in RuleIds(gram) \ {0}, q = r \/ Scanned(q),
                      Lhs(gram, q) \notin nullable'
               PROVE  /\ nnl'[q] # 0
                      /\ Rhs(gram, q)[nnl'[q]] \in gram.nonterms =>
                           Occurs(q, relations'[Rhs(gram, q)[nnl'[q]]])
    BY DEF Waiting, FiledUnder, Rhs, Lhs
  <2>1. CASE q = r
    BY <2>1, <1>1, <1>2, <1>4
  <2>2. CASE q # r
    BY <2>2, <1>1, <1>2, <1>4, <1>5 DEF Waiting, FiledUnder
  <2> QED BY <2>1, <2>2
<1>10. Pending'
  <2> SUFFICES ASSUME NEW s \in nullable', relations'[s] # << >>
               PROVE  s = cur \/ Occurs(s, queue')
    BY DEF Pending
  <2>1. CASE s \notin nullable
    BY <2>1, <1>3
  <2>2. CASE s \in nullable /\ relations[s] # << >>
    BY <2>2, <1>3 DEF Pending
  <2>3. CASE s \in nullable /\ n # 0 /\ sym = s
    BY <2>3, <1>3 DEF Passes
  <2> QED BY <2>1, <2>2, <2>3, <1>1, <1>4
<1>11. Justified'
  <2> SUFFICES ASSUME NEW S \in SUBSET gram.nonterms, A!Closed(gram, S)
               PROVE  nullable' \subseteq S
    BY DEF Justified, A!Closed, A!AllIn, A!Lhs, A!Rhs, A!Length, A!RuleIds
  <2>1. nullable \subseteq S
    BY DEF Justified
  <2>2. CASE n = 0
    <3>1. \A i \in 1..Length(gram, r) : Rhs(gram, r)[i] \in S
      BY <2>1, <2>2
    <3>2. lhs \in S
      BY <3>1, <1>5 DEF A!Closed, A!AllIn, A!Lhs, A!Rhs, A!Length, A!RuleIds,
                        Lhs, Rhs, Length, RuleIds
    <3> QED BY <3>2, <2>1, <1>1
  <2>3. CASE n # 0
    BY <2>1, <2>3, <1>1
  <2> QED BY <2>2, <2>3
<1> QED BY <1>6, <1>7, <1>8, <1>9, <1>10, <1>11

-----------------------------------------------------------------------------
(* The inductive step, one lemma per action that changes the lists.        *)

\* Scanning a rule keeps the invariant.
LEMMA ScanRuleKeeps == IInv /\ ScanRule => IInv'
<1> SUFFICES ASSUME IInv, ScanRule PROVE IInv'
  OBVIOUS
<1> USE DEF IInv
<1> DEFINE r0 == gram.rulesOf[gram.syms[si]][ri]
<1>1. r0 \in RuleIds(gram) \ {0} /\ ~ Scanned(r0)
  BY ScanAdds DEF ScanRule
<1>2. PICK r \in RuleIds(gram) \ {0} : r = r0
  BY <1>1
<1>3. \A q \in RuleIds(gram) \ {0} : Scanned(q)' <=> q = r \/ Scanned(q)
  BY <1>2, ScanAdds DEF ScanRule
<1>4. EnqueueIfNeeded(r, Length(gram, r)) /\ UNCHANGED <<gram, pc, si, cur, rule>> /\ ri' = ri + 1
  BY <1>2 DEF ScanRule
<1>5. \A s \in gram.nonterms : ~ FiledUnder(r, s)
  BY <1>1, <1>2 DEF Filed
<1>6. pc = "scan" /\ rule = Nil /\ rule' = Nil
  BY <1>4 DEF ScanRule, Passes
<1>7. Length(gram, r) \in 0..Length(gram, r)
        /\ \A i \in Length(gram, r) + 1 .. Length(gram, r) : FALSE
  BY RuleFacts DEF TypeOK
<1>8. /\ IntrusiveListsSound' /\ Filed' /\ Shortened'
      /\ Waiting' /\ Pending' /\ Justified'
  BY <1>3, <1>4, <1>5, <1>6, <1>7, EnqueueKeeps
<1>9. /\ nullable \subseteq nullable' /\ nullable' \subseteq gram.nonterms
      /\ nnl' \in [RuleIds(gram) -> Nat] /\ nnl'[r] = Length(gram, r)
      /\ \A q \in RuleIds(gram) : q # r => nnl'[q] = nnl[q]
      /\ queue' \in Seq(gram.nonterms)
      /\ \A s : Occurs(s, queue') <=> Occurs(s, queue) \/ s \in nullable' \ nullable
      /\ relations' \in [gram.nonterms -> Seq(RuleIds(gram) \ {0})]
  BY <1>4, <1>5, <1>7, EnqueueFacts
<1>10. TypeOK'
  <2>1. \A q \in RuleIds(gram) : nnl'[q] <= Length(gram, q)
    <3>1. Length(gram, r) \in Nat
      BY RuleFacts DEF TypeOK
    <3>2. ASSUME NEW q \in RuleIds(gram) PROVE nnl'[q] <= Length(gram, q)
      <4>1. CASE q = r
        BY <4>1, <3>1, <1>9
      <4>2. CASE q # r
        BY <4>2, <1>9 DEF TypeOK
      <4> QED BY <4>1, <4>2
    <3> QED BY <3>2
  <2> QED BY <2>1, <1>4, <1>6, <1>9 DEF TypeOK, RuleIds, Length, Rhs
<1>11. Passes'
  <2>1. ASSUME NEW i \in 1..Len(queue') PROVE queue'[i] \in nullable'
    <3>1. Occurs(queue'[i], queue')
      BY DEF Occurs
    <3>2. \A s : Occurs(s, queue) => s \in nullable
      BY DEF Passes, Occurs
    <3> QED BY <3>1, <3>2, <1>9
  <2>2. \A s \in nullable' : Occurs(s, queue')
    BY <1>6, <1>9 DEF Passes
  <2> QED BY <2>1, <2>2, <1>4, <1>6 DEF Passes
<1> QED BY <1>8, <1>10, <1>11

\* Putting the rule in hand back into a list, or its left side into the queue, too.
LEMMA RefileKeeps == IInv /\ Refile => IInv'
<1> SUFFICES ASSUME IInv, Refile PROVE IInv'
  OBVIOUS
<1> USE DEF IInv
<1>1. pc = "trim" /\ pc' = "drain" /\ rule \in RuleIds(gram) \ {0} /\ rule' = Nil
  BY DEF Refile, TypeOK
<1>2. PICK r \in RuleIds(gram) \ {0} : r = rule
  BY <1>1
<1>3. nnl[r] \in 0..Length(gram, r)
  BY RuleFacts DEF TypeOK
<1>4. PICK n \in 0..Length(gram, r) : n = nnl[r]
  BY <1>3
<1>5. EnqueueIfNeeded(r, n) /\ UNCHANGED <<gram, si, ri, cur>>
  BY <1>2, <1>4 DEF Refile
<1>6. \A s \in gram.nonterms : ~ FiledUnder(r, s)
  BY <1>2 DEF IntrusiveListsSound
<1>7. si > Len(gram.syms)
  BY <1>1 DEF Passes
<1>8. \A q \in RuleIds(gram) \ {0} : Scanned(q) /\ Scanned(q)'
  BY <1>5, <1>7, AllScanned, SameScanned
<1>9. \A i \in n + 1 .. Length(gram, r) : Rhs(gram, r)[i] \in nullable
  BY <1>4, <1>8 DEF Shortened, NnlSound
<1>10. n # 0 => Rhs(gram, r)[n] \notin nullable
  BY <1>2, <1>4 DEF Refile, MayTrim
<1>11. /\ IntrusiveListsSound' /\ Filed' /\ Shortened'
       /\ Waiting' /\ Pending' /\ Justified'
  BY <1>1, <1>2, <1>5, <1>6, <1>8, <1>9, <1>10, EnqueueKeeps
<1>12. /\ nullable \subseteq nullable' /\ nullable' \subseteq gram.nonterms
       /\ nnl' \in [RuleIds(gram) -> Nat] /\ nnl'[r] = n
       /\ \A q \in RuleIds(gram) : q # r => nnl'[q] = nnl[q]
       /\ queue' \in Seq(gram.nonterms)
       /\ \A s : Occurs(s, queue') <=> Occurs(s, queue) \/ s \in nullable' \ nullable
       /\ relations' \in [gram.nonterms -> Seq(RuleIds(gram) \ {0})]
  BY <1>5, <1>6, EnqueueFacts
<1>13. TypeOK'
  <2>1. \A q \in RuleIds(gram) : nnl'[q] <= Length(gram, q)
    BY <1>4, <1>12 DEF TypeOK
  <2> QED BY <2>1, <1>1, <1>5, <1>12 DEF TypeOK, RuleIds, Length, Rhs
<1>14. Passes'
  <2>1. ASSUME NEW i \in 1..Len(queue') PROVE queue'[i] \in nullable'
    <3>1. Occurs(queue'[i], queue')
      BY DEF Occurs
    <3>2. \A s : Occurs(s, queue) => s \in nullable
      BY DEF Passes, Occurs
    <3> QED BY <3>1, <3>2, <1>12
  <2> QED BY <2>1, <1>1, <1>5, <1>7, <1>12 DEF Passes
<1> QED BY <1>11, <1>13, <1>14

\* Taking a rule from the list of the symbol being drained.
LEMMA TakeRuleKeeps == IInv /\ TakeRule => IInv'
<1> SUFFICES ASSUME IInv, TakeRule PROVE IInv'
  OBVIOUS
<1> USE DEF IInv
<1> DEFINE T == RuleIds(gram) \ {0}
<1>1. /\ cur \in gram.nonterms /\ relations[cur] \in Seq(T) /\ relations[cur] # << >>
      /\ NoRepeats(relations[cur])
  BY DEF TakeRule, Drained, TypeOK, IntrusiveListsSound
<1>2. PICK r \in T : r = Head(relations[cur])
  BY <1>1, PopOccurs
<1>3. /\ Tail(relations[cur]) \in Seq(T) /\ NoRepeats(Tail(relations[cur]))
      /\ Occurs(r, relations[cur]) /\ ~ Occurs(r, Tail(relations[cur]))
      /\ \A q : Occurs(q, relations[cur]) <=> q = r \/ Occurs(q, Tail(relations[cur]))
  <2> HIDE DEF T
  <2> QED BY <1>1, <1>2, PopOccurs
<1>4. /\ pc = "drain" /\ pc' = "trim" /\ rule = Nil /\ rule' = r
      /\ UNCHANGED <<gram, si, ri, cur, nullable, queue>>
  BY <1>2 DEF TakeRule, Passes
<1>5. nnl[r] # 0 /\ Rhs(gram, r)[nnl[r]] = cur /\ nnl[r] \in Nat /\ nnl[r] <= Length(gram, r)
  BY <1>1, <1>3 DEF IntrusiveListsSound, FiledUnder, TypeOK
<1>6. /\ nnl' \in [RuleIds(gram) -> Nat] /\ nnl'[r] = nnl[r] - 1
      /\ \A q \in RuleIds(gram) : q # r => nnl'[q] = nnl[q]
  BY <1>2, <1>5 DEF TakeRule, TypeOK
<1>7. /\ relations' \in [gram.nonterms -> Seq(T)]
      /\ relations'[cur] = Tail(relations[cur])
      /\ \A s \in gram.nonterms : s # cur => relations'[s] = relations[s]
  BY <1>1, <1>3 DEF TakeRule, TypeOK
<1>8. ASSUME NEW s \in gram.nonterms
      PROVE  /\ NoRepeats(relations'[s])
             /\ \A q : Occurs(q, relations'[s]) <=> Occurs(q, relations[s]) /\ (s = cur => q # r)
  BY <1>3, <1>7 DEF IntrusiveListsSound
<1>9. \A s \in gram.nonterms : Occurs(r, relations[s]) => s = cur
  BY <1>1, <1>5 DEF IntrusiveListsSound, FiledUnder
<1>10. \A q \in T : Scanned(q) /\ Scanned(q)'
  BY <1>4, AllScanned, SameScanned DEF Passes
<1>11. TypeOK'
  <2>1. ASSUME NEW q \in RuleIds(gram) PROVE nnl'[q] <= Length(gram, q)
    <3>1. Length(gram, r) \in Nat
      BY RuleFacts DEF TypeOK
    <3>2. CASE q = r
      BY <3>1, <3>2, <1>5, <1>6
    <3>3. CASE q # r
      BY <3>3, <1>6 DEF TypeOK
    <3> QED BY <3>2, <3>3
  <2>2. rule' # Nil
    BY <1>2, <1>4, ListFacts DEF TypeOK
  <2> QED BY <2>1, <2>2, <1>2, <1>4, <1>6, <1>7 DEF TypeOK, RuleIds, Length, Rhs
<1>12. IntrusiveListsSound'
  <2>1. ASSUME NEW s \in gram.nonterms, NEW q \in RuleIds(gram), Occurs(q, relations'[s])
        PROVE  rule' # q /\ nnl'[q] # 0 /\ Rhs(gram, q)[nnl'[q]] = s
    <3>1. q # r /\ Occurs(q, relations[s])
      BY <2>1, <1>8, <1>9
    <3> QED BY <3>1, <1>4, <1>6 DEF IntrusiveListsSound, FiledUnder
  <2> QED BY <2>1, <1>4, <1>8 DEF IntrusiveListsSound, FiledUnder, Rhs
<1>13. Passes'
  BY <1>4 DEF Passes
<1>14. Filed'
  BY <1>4, <1>10 DEF Filed
<1>15. Shortened'
  <2> SUFFICES ASSUME NEW q \in T
               PROVE  \A i \in nnl'[q] + 1 .. Length(gram, q) : Rhs(gram, q)[i] \in nullable
    BY <1>4 DEF Shortened, NnlSound, Rhs, Length
  <2>1. CASE q = r
    <3>1. ASSUME NEW i \in nnl'[r] + 1 .. Length(gram, r) PROVE Rhs(gram, r)[i] \in nullable
      <4>1. CASE i = nnl[r]
        BY <4>1, <1>1, <1>5, ListFacts DEF Passes, TypeOK
      <4>2. CASE i # nnl[r]
        <5>1. i \in nnl[r] + 1 .. Length(gram, r)
          BY <4>2, <1>5, <1>6
        <5> QED BY <5>1, <1>10 DEF Shortened, NnlSound
      <4> QED BY <4>1, <4>2
    <3> QED BY <3>1, <2>1
  <2>2. CASE q # r
    BY <2>2, <1>6, <1>10 DEF Shortened, NnlSound
  <2> QED BY <2>1, <2>2
<1>16. Waiting'
  <2> SUFFICES ASSUME NEW q \in T, Lhs(gram, q) \notin nullable, q # r
               PROVE  /\ nnl'[q] # 0
                      /\ Rhs(gram, q)[nnl'[q]] \in gram.nonterms =>
                           Occurs(q, relations'[Rhs(gram, q)[nnl'[q]]])
    BY <1>4 DEF Waiting, FiledUnder, Rhs, Lhs
  <2>1. q # rule
    BY <1>4, ListFacts DEF TypeOK
  <2> QED BY <2>1, <1>6, <1>8, <1>10 DEF Waiting, FiledUnder
<1>17. Pending'
  <2> SUFFICES ASSUME NEW s \in nullable, relations'[s] # << >>, s # cur
               PROVE  Occurs(s, queue)
    BY <1>4 DEF Pending
  <2>1. relations[s] # << >>
    BY <1>7 DEF TypeOK
  <2> QED BY <2>1 DEF Pending
<1>18. Justified'
  BY <1>4 DEF Justified, A!Closed, A!AllIn, A!Lhs, A!Rhs, A!Length, A!RuleIds
<1> QED BY <1>11, <1>12, <1>13, <1>14, <1>15, <1>16, <1>17, <1>18

\* Another turn of the do-while loop: the symbol at nnl is nullable.
LEMMA TrimKeeps == IInv /\ Trim => IInv'
<1> SUFFICES ASSUME IInv, Trim PROVE IInv'
  OBVIOUS
<1> USE DEF IInv
<1> DEFINE T == RuleIds(gram) \ {0}
<1>1. rule \in T
  BY DEF Trim, TypeOK
<1>2. PICK r \in T : r = rule
  BY <1>1
<1>3. /\ pc = "trim" /\ nnl[r] # 0 /\ Rhs(gram, r)[nnl[r]] \in nullable
      /\ nnl' = [nnl EXCEPT ![r] = @ - 1]
      /\ UNCHANGED <<gram, pc, si, ri, cur, rule, nullable, queue, relations>>
  BY <1>2 DEF Trim, MayTrim
<1>4. nnl[r] \in Nat /\ nnl[r] <= Length(gram, r) /\ Length(gram, r) \in Nat
  BY RuleFacts DEF TypeOK
<1>5. /\ nnl' \in [RuleIds(gram) -> Nat] /\ nnl'[r] = nnl[r] - 1
      /\ \A q \in RuleIds(gram) : q # r => nnl'[q] = nnl[q]
  BY <1>3, <1>4 DEF TypeOK
<1>6. \A q \in T : Scanned(q) /\ Scanned(q)'
  BY <1>3, AllScanned, SameScanned DEF Passes
<1>7. TypeOK'
  <2>1. ASSUME NEW q \in RuleIds(gram) PROVE nnl'[q] <= Length(gram, q)
    <3>1. CASE q = r
      BY <3>1, <1>4, <1>5
    <3>2. CASE q # r
      BY <3>2, <1>5 DEF TypeOK
    <3> QED BY <3>1, <3>2
  <2> QED BY <2>1, <1>3, <1>5 DEF TypeOK, RuleIds, Length, Rhs
<1>8. IntrusiveListsSound'
  <2>1. ASSUME NEW s \in gram.nonterms, NEW q \in RuleIds(gram), Occurs(q, relations[s])
        PROVE  rule # q /\ nnl'[q] # 0 /\ Rhs(gram, q)[nnl'[q]] = s
    BY <2>1, <1>2, <1>5 DEF IntrusiveListsSound, FiledUnder
  <2> QED BY <2>1, <1>3 DEF IntrusiveListsSound, FiledUnder, Rhs
<1>9. Passes' /\ Filed' /\ Pending'
  BY <1>3, <1>6 DEF Passes, Filed, Pending
<1>10. Shortened'
  <2> SUFFICES ASSUME NEW q \in T
               PROVE  \A i \in nnl'[q] + 1 .. Length(gram, q) : Rhs(gram, q)[i] \in nullable
    BY <1>3 DEF Shortened, NnlSound, Rhs, Length
  <2>1. CASE q = r
    <3>1. ASSUME NEW i \in nnl'[r] + 1 .. Length(gram, r) PROVE Rhs(gram, r)[i] \in nullable
      <4>1. CASE i = nnl[r]
        BY <4>1, <1>3
      <4>2. CASE i # nnl[r]
        <5>1. i \in nnl[r] + 1 .. Length(gram, r)
          BY <4>2, <1>4, <1>5
        <5> QED BY <5>1, <1>6 DEF Shortened, NnlSound
      <4> QED BY <4>1, <4>2
    <3> QED BY <3>1, <2>1
  <2>2. CASE q # r
    BY <2>2, <1>5, <1>6 DEF Shortened, NnlSound
  <2> QED BY <2>1, <2>2
<1>11. Waiting'
  <2> SUFFICES ASSUME NEW q \in T, Lhs(gram, q) \notin nullable, q # r
               PROVE  /\ nnl'[q] # 0
                      /\ Rhs(gram, q)[nnl'[q]] \in gram.nonterms =>
                           Occurs(q, relations[Rhs(gram, q)[nnl'[q]]])
    BY <1>2, <1>3 DEF Waiting, FiledUnder, Rhs, Lhs
  <2> QED BY <1>2, <1>5, <1>6 DEF Waiting, FiledUnder
<1>12. Justified'
  BY <1>3 DEF Justified, A!Closed, A!AllIn, A!Lhs, A!Rhs, A!Length, A!RuleIds
<1> QED BY <1>7, <1>8, <1>9, <1>10, <1>11, <1>12

\* Taking the next symbol from the queue.
LEMMA PopSymbolKeeps == IInv /\ PopSymbol => IInv'
<1> SUFFICES ASSUME IInv, PopSymbol PROVE IInv'
  OBVIOUS
<1> USE DEF IInv
<1>1. /\ pc = "drain" /\ Drained /\ queue # << >> /\ cur' = Head(queue) /\ queue' = Tail(queue)
      /\ UNCHANGED <<gram, pc, si, ri, rule, nullable, nnl, relations>>
  BY DEF PopSymbol
<1>2. queue \in Seq(gram.nonterms) /\ NoRepeats(queue)
  BY DEF TypeOK, IntrusiveListsSound
<1>3. /\ Head(queue) \in gram.nonterms /\ Tail(queue) \in Seq(gram.nonterms)
      /\ NoRepeats(Tail(queue))
      /\ \A s : Occurs(s, queue) <=> s = Head(queue) \/ Occurs(s, Tail(queue))
  BY <1>1, <1>2, PopOccurs
<1>4. \A s : Occurs(s, queue) => s \in nullable
  BY DEF Passes, Occurs
<1>5. TypeOK'
  BY <1>1, <1>3 DEF TypeOK, RuleIds, Length, Rhs
<1>6. IntrusiveListsSound'
  BY <1>1, <1>3 DEF IntrusiveListsSound, FiledUnder, Rhs, RuleIds
<1>7. Passes'
  <2>1. \A i \in 1..Len(queue') : queue'[i] \in nullable
    BY <1>1, <1>3, <1>4 DEF Occurs
  <2> QED BY <2>1, <1>1, <1>3, <1>4 DEF Passes
<1>8. Pending'
  <2> SUFFICES ASSUME NEW s \in nullable, relations[s] # << >>
               PROVE  s = Head(queue) \/ Occurs(s, Tail(queue))
    BY <1>1 DEF Pending
  <2>1. s # cur
    BY <1>1, ListFacts DEF Drained, TypeOK
  <2> QED BY <2>1, <1>3 DEF Pending
<1>9. \A r : Scanned(r)' <=> Scanned(r)
  BY <1>1, SameScanned
<1>10. Filed' /\ Shortened' /\ Waiting'
  BY <1>1, <1>9 DEF Filed, Shortened, Waiting, FiledUnder, NnlSound, Lhs, Rhs, Length, RuleIds
<1>11. Justified'
  BY <1>1 DEF Justified, A!Closed, A!AllIn, A!Lhs, A!Rhs, A!Length, A!RuleIds
<1> QED BY <1>5, <1>6, <1>7, <1>8, <1>10, <1>11

\* Steps that only move the program counter or the scan position.
LEMMA MoveKeeps == IInv /\ (NextSymbol \/ EndScan \/ Finish \/ UNCHANGED vars) => IInv'
<1> SUFFICES ASSUME IInv, NextSymbol \/ EndScan \/ Finish \/ UNCHANGED vars PROVE IInv'
  OBVIOUS
<1> USE DEF IInv
<1>1. /\ UNCHANGED <<gram, cur, rule, nullable, nnl, queue, relations>>
      /\ si' \in Nat \ {0} /\ ri' \in Nat \ {0}
      /\ pc' \in {"scan", "drain", "trim", "done"} /\ (pc' = "trim" => pc = "trim")
      /\ (pc' = "scan" => pc = "scan") /\ (pc = "trim" => pc' = "trim")
  BY DEF NextSymbol, EndScan, Finish, vars, TypeOK
<1>2. /\ pc' # "scan" => si' > Len(gram.syms)
      /\ pc' = "done" => queue = << >> /\ Drained
  BY DEF NextSymbol, EndScan, Finish, vars, Passes
<1>3. \A r \in RuleIds(gram) \ {0} : Scanned(r)' <=> Scanned(r)
  BY NextSymbolKeepsScanned, SameScanned DEF EndScan, Finish, vars
<1>4. TypeOK'
  BY <1>1 DEF TypeOK, RuleIds, Length, Rhs
<1>5. IntrusiveListsSound' /\ Passes' /\ Pending'
  BY <1>1, <1>2 DEF IntrusiveListsSound, Passes, Pending, Drained, FiledUnder, Rhs, RuleIds
<1>6. Filed' /\ Shortened' /\ Waiting'
  BY <1>1, <1>3 DEF Filed, Shortened, Waiting, FiledUnder, NnlSound, Lhs, Rhs, Length, RuleIds
<1>7. Justified'
  BY <1>1 DEF Justified, A!Closed, A!AllIn, A!Lhs, A!Rhs, A!Length, A!RuleIds
<1> QED BY <1>4, <1>5, <1>6, <1>7

\* Nothing has been scanned, filed or queued when the function is entered.
LEMMA InitEstablishes == Init => IInv
<1> SUFFICES ASSUME Init PROVE IInv
  OBVIOUS
<1> USE DEF Init
<1>1. IsGrammar(gram)
  BY GrammarsAreGrammars
<1>2. \A r \in RuleIds(gram) : Length(gram, r) \in Nat
  <2>1. \A r \in RuleIds(gram) : Rhs(gram, r) \in Seq(gram.terms \cup gram.nonterms)
    BY <1>1 DEF IsGrammar
  <2> QED BY <2>1, LenProperties DEF Length
<1>3. TypeOK
  BY <1>2, EmptySeq DEF TypeOK
<1>4. \A x : ~ Occurs(x, << >>)
  BY DEF Occurs
<1>5. \A r \in RuleIds(gram) \ {0} : ~ Scanned(r)
  BY <1>3, ListFacts, RuleFacts DEF Scanned
<1>6. IntrusiveListsSound
  BY <1>4 DEF IntrusiveListsSound, NoRepeats, FiledUnder
<1>7. Passes /\ Filed /\ Shortened /\ Waiting /\ Pending /\ Justified
  BY <1>4, <1>5 DEF Passes, Filed, FiledUnder, Shortened, Waiting, Pending, Justified
<1> QED BY <1>3, <1>6, <1>7 DEF IInv

\* Every step keeps the invariant.
LEMMA NextKeeps == IInv /\ [Next]_vars => IInv'
BY ScanRuleKeeps, RefileKeeps, TakeRuleKeeps, TrimKeeps, PopSymbolKeeps, MoveKeeps DEF Next

\* The invariant holds throughout every run of nullable_find.
LEMMA Invariant == Spec => []IInv
BY InitEstablishes, NextKeeps, PTL DEF Spec

-----------------------------------------------------------------------------
(* The theorems.                                                           *)

\* When the search is over, the set of flagged symbols is closed.
LEMMA ClosedAtEnd == ASSUME IInv, pc = "done" \/ (pc = "drain" /\ Drained /\ queue = << >>)
                     PROVE  A!Closed(gram, nullable)
<1> USE DEF IInv
<1>1. /\ queue = << >> /\ Drained /\ rule = Nil /\ si > Len(gram.syms)
  BY DEF Passes
<1>2. ASSUME NEW r \in RuleIds(gram), Lhs(gram, r) \in gram.nonterms,
             Lhs(gram, r) \notin nullable
      PROVE  r # 0 /\ nnl[r] \in 1..Length(gram, r) /\ Rhs(gram, r)[nnl[r]] \notin nullable
  <2>1. r # 0
    <3>1. IsGrammar(gram)
      BY GrammarsAreGrammars DEF TypeOK
    <3> QED BY <1>2, <3>1 DEF IsGrammar
  <2>2. /\ nnl[r] # 0
        /\ Rhs(gram, r)[nnl[r]] \in gram.nonterms => FiledUnder(r, Rhs(gram, r)[nnl[r]])
    BY <2>1, <1>1, <1>2, AllScanned, ListFacts DEF Waiting, TypeOK
  <2>3. nnl[r] \in 1..Length(gram, r)
    <3>1. nnl[r] \in Nat /\ nnl[r] <= Length(gram, r) /\ Length(gram, r) \in Nat
      BY <2>1, RuleFacts DEF TypeOK
    <3> QED BY <3>1, <2>2
  <2>4. ASSUME Rhs(gram, r)[nnl[r]] \in nullable PROVE FALSE
    <3> DEFINE s == Rhs(gram, r)[nnl[r]]
    <3>1. s \in gram.nonterms /\ Occurs(r, relations[s])
      BY <2>2, <2>4 DEF TypeOK, FiledUnder
    <3>2. relations[s] # << >>
      BY <3>1, EmptySeq DEF Occurs
    <3>3. s # Nil /\ s # cur
      BY <3>1, <3>2, <1>1, ListFacts DEF Drained, TypeOK
    <3>4. ~ Occurs(s, queue)
      BY <1>1 DEF Occurs
    <3> QED BY <2>4, <3>2, <3>3, <3>4 DEF Pending
  <2> QED BY <2>1, <2>2, <2>3, <2>4
<1>3. ASSUME NEW r \in RuleIds(gram), Lhs(gram, r) \in gram.nonterms,
             \A i \in 1..Length(gram, r) : Rhs(gram, r)[i] \in nullable
      PROVE  Lhs(gram, r) \in nullable
  BY <1>2, <1>3
<1> QED BY <1>3 DEF A!Closed, A!AllIn, A!Lhs, A!Rhs, A!Length, A!RuleIds,
                    Lhs, Rhs, Length, RuleIds

\* Every variable keeps its type; in particular nnl never falls below 0.
THEOREM TypeCorrect == Spec => []TypeOK
BY Invariant, PTL DEF IInv

\* Neither the symbol queue nor the rules' relation lists ever share a link.
THEOREM ListsSound == Spec => []IntrusiveListsSound
BY Invariant, PTL DEF IInv

\* On return exactly the nonterminals that derive the empty string are flagged.
THEOREM Exact == Spec => []ExactAtEnd
<1>1. ASSUME IInv, pc = "done" PROVE nullable = A!DerivesEmpty(gram)
  <2>1. A!Closed(gram, nullable) /\ nullable \in SUBSET gram.nonterms
    BY <1>1, ClosedAtEnd DEF IInv, TypeOK
  <2>2. \A S \in SUBSET gram.nonterms : A!Closed(gram, S) => nullable \subseteq S
    BY <1>1 DEF IInv, Justified
  <2> QED BY <2>1, <2>2 DEF A!DerivesEmpty
<1>2. IInv => ExactAtEnd
  BY <1>1 DEF ExactAtEnd
<1> QED BY <1>2, Invariant, PTL

\* On return nnl of each rule whose left side is not nullable is its non-nullable length.
THEOREM NnlExact == Spec => []NnlExactForNonNullable
<1>1. ASSUME IInv, pc = "done", NEW r \in RuleIds(gram) \ {0}, Lhs(gram, r) \notin nullable
      PROVE  NnlSound(r) /\ nnl[r] # 0 /\ Rhs(gram, r)[nnl[r]] \notin nullable
  <2>1. Scanned(r)
    BY <1>1, AllScanned DEF IInv, Passes
  <2>2. NnlSound(r)
    BY <1>1, <2>1 DEF IInv, Shortened
  <2>3. Lhs(gram, r) \in gram.nonterms /\ Length(gram, r) \in Nat
        /\ nnl[r] \in Nat /\ nnl[r] <= Length(gram, r)
    BY <1>1, RuleFacts DEF IInv, TypeOK
  <2>4. r # rule
    BY <1>1, ListFacts DEF IInv, Passes, TypeOK
  <2>5. nnl[r] # 0
    BY <1>1, <2>1, <2>4 DEF IInv, Waiting
  <2>6. Rhs(gram, r)[nnl[r]] \notin nullable
    <3>1. ASSUME Rhs(gram, r)[nnl[r]] \in nullable PROVE FALSE
      <4> DEFINE s == Rhs(gram, r)[nnl[r]]
      <4>1. s \in gram.nonterms /\ Occurs(r, relations[s])
        BY <1>1, <2>1, <2>4, <3>1 DEF IInv, TypeOK, Waiting, FiledUnder
      <4>2. relations[s] # << >>
        BY <4>1, EmptySeq DEF Occurs
      <4>3. s # cur /\ ~ Occurs(s, queue)
        BY <1>1, <4>1, <4>2, ListFacts DEF IInv, Passes, Drained, TypeOK, Occurs
      <4> QED BY <1>1, <3>1, <4>2, <4>3 DEF IInv, Pending
    <3> QED BY <3>1
  <2> QED BY <2>2, <2>5, <2>6
<1>2. IInv => NnlExactForNonNullable
  BY <1>1 DEF NnlExactForNonNullable
<1> QED BY <1>2, Invariant, PTL

\* enqueue_rule_if_needed learns a justified nonterminal or leaves the flags alone.
LEMMA EnqueueLearns ==
  ASSUME TypeOK, NEW r \in RuleIds(gram) \ {0}, NEW n \in 0..Length(gram, r),
         EnqueueIfNeeded(r, n), gram' = gram,
         \A i \in n + 1 .. Length(gram, r) : Rhs(gram, r)[i] \in nullable
  PROVE  \/ nullable' = nullable
         \/ /\ Lhs(gram, r) \in gram.nonterms \ nullable
            /\ A!AllIn(gram, r, nullable)
            /\ nullable' = nullable \cup {Lhs(gram, r)}
<1>1. CASE n = 0 /\ Lhs(gram, r) \notin nullable /\ nullable' = nullable \cup {Lhs(gram, r)}
  <2>1. A!AllIn(gram, r, nullable)
    BY <1>1 DEF A!AllIn, A!Rhs, A!Length, Rhs, Length
  <2> QED BY <1>1, <2>1, RuleFacts DEF TypeOK
<1>2. CASE nullable' = nullable
  BY <1>2
<1> QED BY <1>1, <1>2 DEF EnqueueIfNeeded

(***************************************************************************)
(* nullable_find implements NullableAbs: every step learns one nonterminal *)
(* whose rule is justified, or ends with nothing more to learn, or changes *)
(* nothing that the abstract search sees.                                  *)
(***************************************************************************)
THEOREM Implements == Spec => A!AbsInit /\ [][A!AbsNext]_(A!absvars)
<1>1. Init => A!AbsInit
  BY DEF Init, A!AbsInit
<1>2. ASSUME IInv, Next PROVE A!AbsNext \/ UNCHANGED A!absvars
  <2> USE <1>2 DEF IInv
  <2>1. ASSUME NEW r \in RuleIds(gram) \ {0}, NEW n \in 0..Length(gram, r),
               EnqueueIfNeeded(r, n), gram' = gram, pc # "done", pc' # "done",
               \A i \in n + 1 .. Length(gram, r) : Rhs(gram, r)[i] \in nullable
        PROVE  A!AbsNext \/ UNCHANGED A!absvars
    <3>1. (pc' = "done") = (pc = "done")
      BY <2>1
    <3>2. CASE nullable' = nullable
      BY <2>1, <3>1, <3>2 DEF A!absvars
    <3>3. CASE /\ Lhs(gram, r) \in gram.nonterms \ nullable
               /\ A!AllIn(gram, r, nullable)
               /\ nullable' = nullable \cup {Lhs(gram, r)}
      <4>1. A!Learn
        BY <2>1, <3>1, <3>3 DEF A!Learn, A!Lhs, A!RuleIds, Lhs, RuleIds
      <4> QED BY <4>1 DEF A!AbsNext
    <3> QED BY <2>1, <3>2, <3>3, EnqueueLearns
  <2>2. CASE ScanRule
    <3>1. PICK r \in RuleIds(gram) \ {0} : r = gram.rulesOf[gram.syms[si]][ri]
      BY <2>2, ScanAdds DEF ScanRule
    <3>2. /\ EnqueueIfNeeded(r, Length(gram, r)) /\ gram' = gram
          /\ pc # "done" /\ pc' # "done"
      BY <2>2, <3>1 DEF ScanRule
    <3>3. Length(gram, r) \in 0..Length(gram, r)
            /\ \A i \in Length(gram, r) + 1 .. Length(gram, r) : FALSE
      BY RuleFacts DEF TypeOK
    <3> QED BY <2>1, <3>2, <3>3
  <2>3. CASE Refile
    <3>1. PICK r \in RuleIds(gram) \ {0} : r = rule
      BY <2>3 DEF Refile, TypeOK
    <3>2. EnqueueIfNeeded(r, nnl[r]) /\ gram' = gram /\ pc # "done" /\ pc' # "done"
      BY <2>3, <3>1 DEF Refile
    <3>3. nnl[r] \in 0..Length(gram, r)
      BY RuleFacts DEF TypeOK
    <3>4. Scanned(r)
      BY <2>3, AllScanned DEF Refile, Passes
    <3> QED BY <2>1, <3>2, <3>3, <3>4 DEF Shortened, NnlSound
  <2>4. CASE Finish
    <3>1. A!Closed(gram, nullable)
      BY <2>4, ClosedAtEnd DEF Finish
    <3>2. (pc = "done") = FALSE /\ (pc' = "done") = TRUE /\ UNCHANGED <<gram, nullable>>
      BY <2>4 DEF Finish
    <3>3. A!Finish
      BY <3>1, <3>2 DEF A!Finish
    <3> QED BY <3>3 DEF A!AbsNext
  <2>5. CASE NextSymbol \/ EndScan \/ PopSymbol \/ TakeRule \/ Trim
    <3>1. /\ UNCHANGED <<gram, nullable>>
          /\ (pc' = "done") = (pc = "done")
      BY <2>5 DEF NextSymbol, EndScan, PopSymbol, TakeRule, Trim
    <3> QED BY <3>1 DEF A!absvars
  <2> QED BY <2>2, <2>3, <2>4, <2>5 DEF Next
<1>3. ASSUME UNCHANGED vars PROVE UNCHANGED A!absvars
  BY <1>3 DEF vars, A!absvars
<1>4. IInv /\ [Next]_vars => [A!AbsNext]_(A!absvars)
  BY <1>2, <1>3
<1> QED BY <1>1, <1>4, Invariant, PTL DEF Spec
=============================================================================
