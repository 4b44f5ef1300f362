---------------------------- MODULE SystemProofs ----------------------------
(***************************************************************************)
(* Proofs about Parser and about System.  For every grammar and every pair *)
(* of tables that fits it the values on the stack are the tokens handed    *)
(* over, in their order; and if no rule is empty and the tables follow     *)
(* from an automaton, conflicts or not, then __assert_stack never fails    *)
(* and a call that returns true has just completed a sentence.  Without    *)
(* conflicts, and with all lookaheads, every sentence is accepted.  That   *)
(* the tables the generator writes are of that kind comes from             *)
(* GeneratorProofs, so all of this holds of System on any grammar.         *)
(***************************************************************************)
EXTENDS System, ListLemmas

-----------------------------------------------------------------------------
(* What the proofs assume of the program, and what follows of its tables.  *)

Program == IsGrammar(gram) /\ AreTables(gram, actions, gotos)

\* A parser with any tables of the right size, from parser_alloc on.
ParserSpec == Begin /\ Program /\ [][Next]_vars

StateIds == 0..(Len(actions) - 1)
Tokens   == Seq(gram.terms)

\* What a lookup in the tables finds: a rule, and a state.
LEMMA TablesFacts ==
  ASSUME Program
  PROVE  /\ Len(actions) \in Nat /\ 0 \in StateIds
         /\ \A s \in StateIds : \A x \in Symbols(gram) :
              /\ SymId(x) \in Columns(gram)
              /\ Action(s, x) \in RuleIds(gram)
              /\ GotoOf(s, x) \in StateIds
<1>1. Len(actions) \in Nat /\ Len(actions) # 0 /\ DOMAIN actions = 1..Len(actions)
  BY LenProperties, EmptySeq DEF Program, AreTables
<1>2. ASSUME NEW s \in StateIds, NEW x \in Symbols(gram)
      PROVE  SymId(x) \in Columns(gram) /\ Action(s, x) \in RuleIds(gram) /\ GotoOf(s, x) \in StateIds
  <2>1. SymId(x) \in Columns(gram)
    BY ColumnExists DEF Program, SymId
  <2>2. s + 1 \in 1..Len(actions)
    BY <1>1 DEF StateIds
  <2>3. actions[s + 1] \in [Columns(gram) -> RuleIds(gram)]
    BY <2>2, ElementOfSeq DEF Program, AreTables
  <2>4. gotos[s + 1] \in [Columns(gram) -> StateIds]
    BY <2>2, <1>1 DEF Program, AreTables, StateIds
  <2> QED BY <2>1, <2>3, <2>4 DEF Action, GotoOf
<1>3. 0 \in StateIds
  BY <1>1 DEF StateIds
<1> QED BY <1>1, <1>2, <1>3

\* The sides of a rule.
LEMMA RuleFacts ==
  ASSUME IsGrammar(gram), NEW r \in RuleIds(gram)
  PROVE  /\ Length(gram, r) \in Nat
         /\ \A n \in 1..Length(gram, r) : Rhs(gram, r)[n] \in gram.terms \cup gram.nonterms
         /\ r # 0 => Lhs(gram, r) \in gram.nonterms
         /\ Lhs(gram, r) \in Symbols(gram)
<1>1. Rhs(gram, r) \in Seq(gram.terms \cup gram.nonterms)
  BY DEF IsGrammar
<1>2. Length(gram, r) \in Nat
  BY <1>1, LenProperties DEF Length
<1>3. \A n \in 1..Length(gram, r) : Rhs(gram, r)[n] \in gram.terms \cup gram.nonterms
  BY <1>1, ElementOfSeq DEF Length
<1>4. Lhs(gram, r) \in gram.nonterms \cup {gram.start} /\ (Lhs(gram, r) = gram.start <=> r = 0)
  BY DEF IsGrammar
<1> QED BY <1>2, <1>3, <1>4 DEF Symbols

-----------------------------------------------------------------------------
(* The values.                                                             *)

\* The items on the stack, from its base.
Values == [n \in 1..sp |-> Record(n - 1).item]

(***************************************************************************)
(* The types of the parser's fields.  Every record below the pointer has   *)
(* been written.                                                           *)
(***************************************************************************)
TypeOK ==
  /\ pc \in {"idle", "parsing", "aborted"}
  /\ state \in StateIds /\ sp \in Nat /\ reduces \in Nat
  /\ pc # "idle" => token \in gram.terms
  /\ fed \in Tokens
  /\ 0..(sp - 1) \subseteq DOMAIN records
  /\ \A n \in Nat : Record(n) \in [state : StateIds, item : Tokens]

(***************************************************************************)
(* Between two calls the values are what was handed over; within a call    *)
(* the token is not yet among them.                                        *)
(***************************************************************************)
Kept ==
  /\ pc = "idle" => FlattenSeq(Values) = fed
  /\ pc = "parsing" => FlattenSeq(Values) \o <<token>> = fed

ValuesInv == Program /\ TypeOK /\ Kept

\* The values are sequences of tokens, and so is what they flatten to.
LEMMA ValuesType ==
  ASSUME TypeOK
  PROVE  Values \in Seq(Tokens) /\ Len(Values) = sp /\ FlattenSeq(Values) \in Tokens
<1>1. ASSUME NEW n \in 1..sp PROVE Record(n - 1).item \in Tokens
  <2>1. n - 1 \in Nat
    BY DEF TypeOK
  <2>2. Record(n - 1) \in [state : StateIds, item : Tokens]
    BY <2>1 DEF TypeOK
  <2> QED BY <2>2
<1>2. sp \in Nat
  BY DEF TypeOK
<1>3. Values \in [1..sp -> Tokens]
  BY <1>1 DEF Values
<1>4. Values \in Seq(Tokens) /\ Len(Values) = sp
  BY <1>2, <1>3, SeqDef, LenProperties
<1>5. FlattenSeq(Values) \in Seq(gram.terms)
  BY <1>4, FlattenType DEF Tokens
<1> QED BY <1>4, <1>5 DEF Tokens

\* What a shift does to the records.
LEMMA ShiftRecords ==
  ASSUME Shift
  PROVE  \A n \in Nat : Record(n)' = IF n = sp THEN [state |-> state, item |-> <<token>>] ELSE Record(n)
<1> SUFFICES ASSUME NEW n \in Nat
             PROVE  Record(n)' = IF n = sp THEN [state |-> state, item |-> <<token>>] ELSE Record(n)
  OBVIOUS
<1>1. records' = [k \in DOMAIN records \cup {sp} |->
                    IF k = sp THEN [state |-> state, item |-> <<token>>] ELSE records[k]]
  BY DEF Shift
<1> QED BY <1>1 DEF Record

\* What a reduction of count values does to the records.
LEMMA ReduceRecords ==
  ASSUME TypeOK, NEW count \in Nat, count <= sp, records' = Popped(count)
  PROVE  \A n \in Nat : Record(n)' = IF n \in {sp - count, sp}
                                     THEN [Record(n) EXCEPT !.item = Made(count)] ELSE Record(n)
<1> SUFFICES ASSUME NEW n \in Nat
             PROVE  Record(n)' = IF n \in {sp - count, sp}
                                 THEN [Record(n) EXCEPT !.item = Made(count)] ELSE Record(n)
  OBVIOUS
<1> DEFINE m == Made(count)
<1> HIDE DEF m
<1>1. records' = [k \in DOMAIN records \cup {sp} |->
                    IF k \in {sp - count, sp} THEN [Record(k) EXCEPT !.item = m] ELSE records[k]]
  BY DEF Popped, m
<1>2. sp - count \in DOMAIN records \cup {sp}
  <2>1. sp \in Nat /\ 0..(sp - 1) \subseteq DOMAIN records
    BY DEF TypeOK
  <2>2. sp - count = sp \/ sp - count \in 0..(sp - 1)
    BY <2>1
  <2> QED BY <2>1, <2>2
<1>3. CASE n \in {sp - count, sp}
  <2>1. n \in DOMAIN records \cup {sp}
    BY <1>2, <1>3
  <2>2. n \in DOMAIN records' /\ records'[n] = [Record(n) EXCEPT !.item = m]
    BY <1>1, <1>3, <2>1
  <2> QED BY <1>3, <2>2 DEF Record, m
<1>4. CASE n \notin {sp - count, sp}
  <2>1. n \in DOMAIN records' <=> n \in DOMAIN records
    BY <1>1, <1>4
  <2>2. n \in DOMAIN records => records'[n] = records[n]
    BY <1>1, <1>4
  <2> QED BY <1>4, <2>1, <2>2 DEF Record
<1> QED BY <1>3, <1>4

\* What a reduction does with the parts that the next lemmas need.
LEMMA ReduceFacts ==
  ASSUME Program, TypeOK, Reduce,
         NEW r, r = Action(state, token), NEW count, count = Length(gram, r)
  PROVE  /\ r \in RuleIds(gram) /\ r # 0
         /\ count \in Nat /\ count <= sp /\ sp - count \in Nat
         /\ records' = Popped(count)
         /\ sp' = sp - count + 1
         /\ state' = GotoOf(Record(sp - count).state, Lhs(gram, r))
         /\ state' \in StateIds
         /\ pc' = "parsing" /\ pc = "parsing"
<1>1. /\ pc = "parsing" /\ r # 0 /\ sp >= count
      /\ records' = Popped(count)
      /\ sp' = (sp - count) + 1
      /\ state' = GotoOf(Record(sp - count).state, Lhs(gram, r))
      /\ pc' = pc
  BY DEF Reduce
<1>2. state \in StateIds /\ sp \in Nat /\ token \in gram.terms
  BY <1>1 DEF TypeOK
<1>3. r \in RuleIds(gram)
  BY <1>2, TablesFacts DEF Symbols
<1>4. count \in Nat /\ Lhs(gram, r) \in Symbols(gram)
  BY <1>3, RuleFacts DEF Program
<1>5. sp - count \in Nat
  BY <1>1, <1>2, <1>4
<1>6. Record(sp - count).state \in StateIds
  <2>1. Record(sp - count) \in [state : StateIds, item : Tokens]
    BY <1>5 DEF TypeOK
  <2> QED BY <2>1
<1>7. state' \in StateIds
  BY <1>1, <1>4, <1>6, TablesFacts
<1> QED BY <1>1, <1>2, <1>3, <1>4, <1>5, <1>7

\* The values a reduction leaves alone, and those it joins.
Low(count)  == [n \in 1..(sp - count) |-> Record(n - 1).item]
High(count) == [k \in 1..count |-> Record(sp - count + k - 1).item]

\* The values are the two parts.
LEMMA Parts ==
  ASSUME TypeOK, NEW count \in Nat, sp - count \in Nat
  PROVE  /\ Low(count) \in Seq(Tokens) /\ High(count) \in Seq(Tokens)
         /\ Len(Low(count)) = sp - count /\ Len(High(count)) = count
         /\ Values = Low(count) \o High(count)
         /\ Made(count) = FlattenSeq(High(count)) /\ Made(count) \in Tokens
         /\ FlattenSeq(Values) = FlattenSeq(Low(count)) \o Made(count)
<1>1. ASSUME NEW n \in Nat PROVE Record(n).item \in Tokens
  <2>1. Record(n) \in [state : StateIds, item : Tokens]
    BY DEF TypeOK
  <2> QED BY <2>1
<1>2. sp \in Nat
  BY DEF TypeOK
<1> DEFINE l == Low(count)
           h == High(count)
<1>3. l \in [1..(sp - count) -> Tokens]
  <2>1. ASSUME NEW n \in 1..(sp - count) PROVE n - 1 \in Nat
    BY <1>2
  <2> QED BY <1>1, <2>1 DEF Low
<1>4. h \in [1..count -> Tokens]
  <2>1. ASSUME NEW k \in 1..count PROVE sp - count + k - 1 \in Nat
    BY <1>2
  <2> QED BY <1>1, <2>1 DEF High
<1>5. l \in Seq(Tokens) /\ Len(l) = sp - count
  BY <1>3, SeqDef, LenProperties
<1>6. h \in Seq(Tokens) /\ Len(h) = count
  BY <1>4, SeqDef, LenProperties
<1>7. Values \in Seq(Tokens) /\ Len(Values) = sp
  BY ValuesType
<1>8. Values = l \o h
  <2> DEFINE c == l \o h
  <2>1. /\ c \in Seq(Tokens) /\ Len(c) = (sp - count) + count
        /\ \A n \in 1..((sp - count) + count) :
             c[n] = IF n <= sp - count THEN l[n] ELSE h[n - (sp - count)]
    <3> HIDE DEF l, h
    <3>1. /\ c \in Seq(Tokens) /\ Len(c) = Len(l) + Len(h)
          /\ \A n \in 1..(Len(l) + Len(h)) : c[n] = IF n <= Len(l) THEN l[n] ELSE h[n - Len(l)]
      <4>1. l \in Seq(Tokens) /\ h \in Seq(Tokens)
        BY <1>5, <1>6
      <4> QED BY ONLY <4>1, ConcatProperties DEF c
    <3> HIDE DEF c
    <3> QED BY <1>5, <1>6, <3>1
  <2>2. Len(c) = sp
    BY <2>1, <1>2
  <2> HIDE DEF c, l, h
  <2>3. ASSUME NEW n \in 1..sp PROVE Values[n] = c[n]
    <3>1. Values[n] = Record(n - 1).item
      BY DEF Values
    <3>2. n \in 1..((sp - count) + count)
      BY <1>2
    <3>3. CASE n <= sp - count
      <4>1. n \in 1..(sp - count)
        BY <3>3, <1>2
      <4>2. l[n] = Record(n - 1).item
        BY <4>1 DEF l, Low
      <4> QED BY <3>1, <3>2, <3>3, <4>2, <2>1
    <3>4. CASE ~ n <= sp - count
      <4> DEFINE k == n - (sp - count)
      <4>1. k \in 1..count /\ sp - count + k - 1 = n - 1
        BY <3>4, <1>2
      <4>2. h[k] = Record(sp - count + k - 1).item
        BY <4>1 DEF h, High
      <4>3. c[n] = h[k]
        BY <3>2, <3>4, <2>1
      <4>4. h[k] = Record(n - 1).item
        BY <4>1, <4>2
      <4> QED BY <3>1, <4>3, <4>4
    <3> QED BY <3>3, <3>4
  <2>4. Values = c
    BY <2>1, <2>2, <2>3, <1>7, SeqEqual
  <2> QED BY <2>4 DEF c
<1>9. Made(count) = FlattenSeq(h)
  BY DEF Made, High
<1>10. FlattenSeq(l \o h) = FlattenSeq(l) \o FlattenSeq(h)
  BY <1>5, <1>6, FlattenConcat DEF Tokens
<1>11. FlattenSeq(h) \in Tokens
  BY <1>6, FlattenType DEF Tokens
<1> QED BY <1>5, <1>6, <1>8, <1>9, <1>10, <1>11

\* A fresh parser.
LEMMA BeginValues == Begin /\ Program => ValuesInv
<1> SUFFICES ASSUME Begin, Program PROVE ValuesInv
  OBVIOUS
<1>1. TypeOK
  <2>1. 0 \in StateIds /\ << >> \in Tokens /\ fed \in Tokens /\ state \in StateIds
    BY TablesFacts, EmptySeq DEF Begin, Tokens
  <2>2. ASSUME NEW n \in Nat PROVE Record(n) \in [state : StateIds, item : Tokens]
    <3>1. Record(n) = Zero
      BY DEF Begin, Record
    <3> QED BY <2>1, <3>1 DEF Zero
  <2>3. 0..(sp - 1) \subseteq DOMAIN records
    BY DEF Begin
  <2> QED BY <2>1, <2>2, <2>3 DEF TypeOK, Begin
<1>2. Kept
  <2>1. Values \in Seq(Tokens) /\ Len(Values) = 0
    BY <1>1, ValuesType DEF Begin
  <2>2. Values = << >>
    BY <2>1, EmptySeq
  <2> QED BY <2>2, FlattenEmpty DEF Kept, Begin
<1> QED BY <1>1, <1>2 DEF ValuesInv

\* A token behind the ones before, however they are bracketed.
LEMMA CallValues == ValuesInv /\ Call => ValuesInv'
<1> SUFFICES ASSUME ValuesInv, Call PROVE ValuesInv'
  OBVIOUS
<1>1. PICK t \in gram.terms : token' = t /\ fed' = Append(fed, t)
  BY DEF Call
<1>2. /\ pc = "idle" /\ pc' = "parsing" /\ reduces' = 0
      /\ UNCHANGED <<gram, actions, gotos, state, records, sp>>
  BY DEF Call, program
<1>3. Program /\ TypeOK /\ Kept
  BY DEF ValuesInv
<1>4. Program'
  BY <1>2, <1>3 DEF Program
<1>5. Values' = Values /\ StateIds' = StateIds /\ Tokens' = Tokens /\ \A n \in Nat : Record(n)' = Record(n)
  BY <1>2 DEF Values, Record, StateIds, Tokens
<1>6. fed \in Seq(gram.terms) /\ fed' = fed \o <<t>> /\ fed' \in Seq(gram.terms)
  <2>1. fed \in Seq(gram.terms)
    BY <1>3 DEF TypeOK, Tokens
  <2>2. fed' = fed \o <<t>>
    BY <1>1, <2>1, AppendIsConcat
  <2>3. fed' \in Seq(gram.terms)
    BY <1>1, <2>1, AppendProperties
  <2> QED BY <2>1, <2>2, <2>3
<1>7. TypeOK'
  BY <1>1, <1>2, <1>3, <1>5, <1>6 DEF TypeOK, Tokens
<1>8. Kept'
  BY <1>1, <1>2, <1>3, <1>5, <1>6 DEF Kept
<1> QED BY <1>4, <1>7, <1>8 DEF ValuesInv

\* The joined values stand where the values they were made of stood.
LEMMA ReduceValues == ValuesInv /\ Reduce => ValuesInv'
<1> SUFFICES ASSUME ValuesInv, Reduce PROVE ValuesInv'
  OBVIOUS
<1>1. Program /\ TypeOK /\ Kept
  BY DEF ValuesInv
<1>2. UNCHANGED <<gram, actions, gotos, token, fed>> /\ reduces' = reduces + 1
  BY DEF Reduce, program
<1> DEFINE r == Action(state, token)
           count == Length(gram, r)
<1>3. /\ count \in Nat /\ count <= sp /\ sp - count \in Nat
      /\ records' = Popped(count)
      /\ sp' = sp - count + 1 /\ state' \in StateIds
      /\ pc' = "parsing" /\ pc = "parsing"
  BY <1>1, ReduceFacts
<1> HIDE DEF r, count
<1>4. \A n \in Nat : Record(n)' = IF n \in {sp - count, sp}
                                  THEN [Record(n) EXCEPT !.item = Made(count)] ELSE Record(n)
  BY <1>1, <1>3, ReduceRecords
<1>5. /\ Low(count) \in Seq(Tokens) /\ Len(Low(count)) = sp - count
      /\ Made(count) \in Tokens
      /\ FlattenSeq(Values) = FlattenSeq(Low(count)) \o Made(count)
  BY <1>1, <1>3, Parts
<1>6. Program'
  BY <1>1, <1>2 DEF Program
<1>7. StateIds' = StateIds /\ Tokens' = Tokens
  BY <1>2 DEF StateIds, Tokens
<1>8. sp \in Nat /\ sp' \in Nat
  BY <1>1, <1>3 DEF TypeOK
<1>9. \A n \in Nat : Record(n)' \in [state : StateIds, item : Tokens]
  <2> SUFFICES ASSUME NEW n \in Nat PROVE Record(n)' \in [state : StateIds, item : Tokens]
    OBVIOUS
  <2>1. Record(n) \in [state : StateIds, item : Tokens]
    BY <1>1 DEF TypeOK
  <2>2. [Record(n) EXCEPT !.item = Made(count)] \in [state : StateIds, item : Tokens]
    BY <2>1, <1>5
  <2> QED BY <1>4, <2>1, <2>2
<1>10. TypeOK'
  <2>1. (0..(sp - 1) \subseteq DOMAIN records)'
    <3>1. DOMAIN records' = DOMAIN records \cup {sp}
      BY <1>3 DEF Popped
    <3>2. 0..(sp - 1) \subseteq DOMAIN records
      BY <1>1 DEF TypeOK
    <3>3. \A n \in 0..(sp' - 1) : n \in 0..(sp - 1) \/ n = sp
      BY <1>3, <1>8
    <3> QED BY <3>1, <3>2, <3>3
  <2>2. reduces' \in Nat /\ fed \in Tokens /\ token \in gram.terms
    BY <1>1, <1>2, <1>3 DEF TypeOK
  <2> QED BY <2>1, <2>2, <1>2, <1>3, <1>7, <1>8, <1>9 DEF TypeOK
<1>11. Values' \in Seq(Tokens) /\ Values' = Append(Low(count), Made(count))
  <2> DEFINE l == Low(count)
             m == Made(count)
             c == Append(l, m)
  <2>1. Values' \in Seq(Tokens) /\ Len(Values') = sp'
    <3>1. (TypeOK => Values \in Seq(Tokens) /\ Len(Values) = sp)'
      BY ValuesType, PTL
    <3> QED BY <3>1, <1>7, <1>10
  <2>2. /\ c \in Seq(Tokens) /\ Len(c) = Len(l) + 1
        /\ \A n \in 1..Len(l) : c[n] = l[n]
        /\ c[Len(l) + 1] = m
    <3>1. l \in Seq(Tokens) /\ m \in Tokens
      BY <1>5
    <3> HIDE DEF l, m
    <3> QED BY ONLY <3>1, AppendProperties DEF c
  <2>3. ASSUME NEW n \in 1..sp' PROVE Values'[n] = c[n]
    <3>1. Values'[n] = Record(n - 1)'.item
      BY DEF Values
    <3>2. n - 1 \in Nat
      BY <1>8
    <3>3. CASE n = sp - count + 1
      <4>1. n - 1 = sp - count
        BY <3>3, <1>3, <1>8
      <4>2. Record(n - 1)' = [Record(n - 1) EXCEPT !.item = Made(count)]
        BY <3>2, <4>1, <1>4
      <4>3. Record(n - 1) \in [state : StateIds, item : Tokens]
        BY <3>2, <1>1 DEF TypeOK
      <4>4. Record(n - 1)'.item = m
        BY <4>2, <4>3
      <4> QED BY <3>1, <3>3, <4>4, <2>2, <1>5
    <3>4. CASE n # sp - count + 1
      <4>1. n \in 1..(sp - count) /\ n - 1 # sp - count /\ n - 1 # sp
        BY <3>4, <1>3, <1>8
      <4>2. Record(n - 1)' = Record(n - 1)
        BY <3>2, <4>1, <1>4
      <4>3. l[n] = Record(n - 1).item
        BY <4>1 DEF Low
      <4> QED BY <3>1, <4>1, <4>2, <4>3, <2>2, <1>5
    <3> QED BY <3>3, <3>4
  <2> HIDE DEF c
  <2>4. Values' = c
    BY <2>1, <2>2, <2>3, <1>3, <1>5, SeqEqual
  <2> QED BY <2>1, <2>4 DEF c
<1>12. FlattenSeq(Values') = FlattenSeq(Values)
  <2>1. FlattenSeq(Append(Low(count), Made(count))) = FlattenSeq(Low(count)) \o Made(count)
    BY <1>5, FlattenAppend DEF Tokens
  <2> QED BY <2>1, <1>11, <1>5
<1>13. Kept'
  BY <1>1, <1>2, <1>3, <1>12 DEF Kept
<1> QED BY <1>6, <1>10, <1>13 DEF ValuesInv

\* The token becomes the last value.
LEMMA ShiftValues == ValuesInv /\ Shift => ValuesInv'
<1> SUFFICES ASSUME ValuesInv, Shift PROVE ValuesInv'
  OBVIOUS
<1>1. Program /\ TypeOK /\ Kept
  BY DEF ValuesInv
<1>2. /\ UNCHANGED <<gram, actions, gotos, token, fed, reduces>>
      /\ pc = "parsing" /\ pc' = "idle"
      /\ sp' = sp + 1 /\ state' = GotoOf(state, token)
  BY DEF Shift, program
<1>3. \A n \in Nat : Record(n)' = IF n = sp THEN [state |-> state, item |-> <<token>>] ELSE Record(n)
  BY ShiftRecords
<1>4. Program'
  BY <1>1, <1>2 DEF Program
<1>5. StateIds' = StateIds /\ Tokens' = Tokens
  BY <1>2 DEF StateIds, Tokens
<1>6. sp \in Nat /\ state \in StateIds /\ token \in gram.terms /\ <<token>> \in Tokens
  <2>1. sp \in Nat /\ state \in StateIds /\ token \in gram.terms
    BY <1>1, <1>2 DEF TypeOK
  <2>2. <<token>> \in Tokens
    BY <2>1, OfOne DEF Tokens
  <2> QED BY <2>1, <2>2
<1>7. state' \in StateIds
  BY <1>1, <1>2, <1>6, TablesFacts DEF Symbols
<1>8. \A n \in Nat : Record(n)' \in [state : StateIds, item : Tokens]
  <2> SUFFICES ASSUME NEW n \in Nat PROVE Record(n)' \in [state : StateIds, item : Tokens]
    OBVIOUS
  <2>1. Record(n) \in [state : StateIds, item : Tokens]
    BY <1>1 DEF TypeOK
  <2> QED BY <1>3, <1>6, <2>1
<1>9. TypeOK'
  <2>1. (0..(sp - 1) \subseteq DOMAIN records)'
    <3>1. DOMAIN records' = DOMAIN records \cup {sp}
      BY DEF Shift
    <3>2. 0..(sp - 1) \subseteq DOMAIN records
      BY <1>1 DEF TypeOK
    <3>3. \A n \in 0..(sp' - 1) : n \in 0..(sp - 1) \/ n = sp
      BY <1>2, <1>6
    <3> QED BY <3>1, <3>2, <3>3
  <2>2. reduces \in Nat /\ fed \in Tokens /\ sp' \in Nat
    BY <1>1, <1>2, <1>6 DEF TypeOK
  <2> QED BY <2>1, <2>2, <1>2, <1>5, <1>6, <1>7, <1>8 DEF TypeOK
<1>10. Values \in Seq(Tokens) /\ Len(Values) = sp
  BY <1>1, ValuesType
<1>11. Values' = Append(Values, <<token>>)
  <2> DEFINE c == Append(Values, <<token>>)
  <2>1. Values' \in Seq(Tokens) /\ Len(Values') = sp'
    <3>1. (TypeOK => Values \in Seq(Tokens) /\ Len(Values) = sp)'
      BY ValuesType, PTL
    <3> QED BY <3>1, <1>5, <1>9
  <2>2. /\ c \in Seq(Tokens) /\ Len(c) = Len(Values) + 1
        /\ \A n \in 1..Len(Values) : c[n] = Values[n]
        /\ c[Len(Values) + 1] = <<token>>
    <3>1. Values \in Seq(Tokens) /\ <<token>> \in Tokens
      BY <1>6, <1>10
    <3> QED BY ONLY <3>1, AppendProperties DEF c
  <2>3. ASSUME NEW n \in 1..sp' PROVE Values'[n] = c[n]
    <3>1. Values'[n] = Record(n - 1)'.item
      BY DEF Values
    <3>2. n - 1 \in Nat
      BY <1>2, <1>6
    <3>3. CASE n = sp + 1
      <4>1. Record(n - 1)' = [state |-> state, item |-> <<token>>]
        BY <3>2, <3>3, <1>3, <1>6
      <4> QED BY <3>1, <3>3, <4>1, <2>2, <1>10
    <3>4. CASE n # sp + 1
      <4>1. n \in 1..sp /\ n - 1 # sp
        BY <3>4, <1>2, <1>6
      <4>2. Record(n - 1)' = Record(n - 1)
        BY <3>2, <4>1, <1>3
      <4>3. Values[n] = Record(n - 1).item
        BY <4>1 DEF Values
      <4> QED BY <3>1, <4>1, <4>2, <4>3, <2>2, <1>10
    <3> QED BY <3>3, <3>4
  <2> HIDE DEF c
  <2>4. Values' = c
    BY <2>1, <2>2, <2>3, <1>2, <1>10, SeqEqual
  <2> QED BY <2>4 DEF c
<1>12. FlattenSeq(Values') = FlattenSeq(Values) \o <<token>>
  <2>1. Values \in Seq(Seq(gram.terms)) /\ <<token>> \in Seq(gram.terms)
    BY <1>6, <1>10 DEF Tokens
  <2>2. FlattenSeq(Append(Values, <<token>>)) = FlattenSeq(Values) \o <<token>>
    BY <2>1, FlattenAppend
  <2> QED BY <2>2, <1>11
<1>13. Kept'
  BY <1>1, <1>2, <1>12 DEF Kept
<1> QED BY <1>4, <1>9, <1>13 DEF ValuesInv

\* The other steps leave the stack as it is.
LEMMA OtherValues == ValuesInv /\ (Abort \/ UNCHANGED vars) => ValuesInv'
<1> SUFFICES ASSUME ValuesInv, Abort \/ UNCHANGED vars PROVE ValuesInv'
  OBVIOUS
<1>1. /\ UNCHANGED <<gram, actions, gotos, state, records, sp, token, reduces, fed>>
      /\ pc' = pc \/ (pc' = "aborted" /\ pc = "parsing")
  BY DEF Abort, vars, program, parservars
<1>2. Program /\ TypeOK /\ Kept
  BY DEF ValuesInv
<1>3. Program'
  BY <1>1, <1>2 DEF Program
<1>4. Values' = Values /\ StateIds' = StateIds /\ Tokens' = Tokens /\ \A n \in Nat : Record(n)' = Record(n)
  BY <1>1 DEF Values, Record, StateIds, Tokens
<1>5. TypeOK'
  BY <1>1, <1>2, <1>4 DEF TypeOK
<1>6. Kept'
  BY <1>1, <1>2, <1>4 DEF Kept
<1> QED BY <1>3, <1>5, <1>6 DEF ValuesInv

\* The types and the values of a parser stay in order, whatever its tables say.
THEOREM ValuesInvariant == ParserSpec => []ValuesInv
<1>1. Begin /\ Program => ValuesInv
  BY BeginValues
<1>2. ValuesInv /\ [Next]_vars => ValuesInv'
  BY CallValues, ReduceValues, ShiftValues, OtherValues DEF Next
<1> QED BY <1>1, <1>2, PTL DEF ParserSpec

\* The fields of the parser keep their types.
THEOREM TypeCorrect == ParserSpec => []TypeOK
<1>1. ValuesInv => TypeOK
  BY DEF ValuesInv
<1> QED BY <1>1, ValuesInvariant, PTL

\* Between two calls the items on the stack, joined, are the tokens handed over.
THEOREM KeepsValues == ParserSpec => []ValuesInOrder
<1>1. ValuesInv => ValuesInOrder
  BY DEF ValuesInv, Kept, ValuesInOrder, Values
<1> QED BY <1>1, ValuesInvariant, PTL

-----------------------------------------------------------------------------
(* What a grammar derives.                                                 *)

\* A set of pairs <<x, w>> of a symbol and tokens that the rules lead not out of.
ClosedUnderRules(g, D) ==
  /\ \A t \in g.terms : <<t, <<t>>>> \in D
  /\ \A r \in RuleIds(g) : \A ws \in Seq(Seq(g.terms)) :
       Len(ws) = Length(g, r) /\ (\A n \in 1..Len(ws) : <<Rhs(g, r)[n], ws[n]>> \in D)
         => <<Lhs(g, r), FlattenSeq(ws)>> \in D

\* Symbol x derives w: the pair is in the least such set.
Derives(g, x, w) ==
  \A D \in SUBSET (Symbols(g) \X Seq(g.terms)) : ClosedUnderRules(g, D) => <<x, w>> \in D

\* A terminal derives itself.
LEMMA DerivesToken ==
  ASSUME NEW g, NEW t \in g.terms
  PROVE  Derives(g, t, <<t>>)
BY DEF Derives, ClosedUnderRules

\* The left side derives what the symbols of the right side derive.
LEMMA DerivesRule ==
  ASSUME NEW g, NEW r \in RuleIds(g), NEW ws \in Seq(Seq(g.terms)), Len(ws) = Length(g, r),
         \A n \in 1..Len(ws) : Derives(g, Rhs(g, r)[n], ws[n])
  PROVE  Derives(g, Lhs(g, r), FlattenSeq(ws))
<1> SUFFICES ASSUME NEW D \in SUBSET (Symbols(g) \X Seq(g.terms)), ClosedUnderRules(g, D)
             PROVE  <<Lhs(g, r), FlattenSeq(ws)>> \in D
  BY DEF Derives
<1>1. \A n \in 1..Len(ws) : <<Rhs(g, r)[n], ws[n]>> \in D
  BY DEF Derives
<1> QED BY <1>1 DEF ClosedUnderRules

\* A terminal derives nothing else.
LEMMA TokenDerivesItself ==
  ASSUME NEW g, IsGrammar(g), NEW t \in g.terms, NEW w, Derives(g, t, w)
  PROVE  w = <<t>>
<1> DEFINE D == {p \in Symbols(g) \X Seq(g.terms) : p[1] \in g.terms => p[2] = <<p[1]>>}
<1>1. ASSUME NEW u \in g.terms PROVE <<u, <<u>>>> \in D
  <2>1. u \in Symbols(g) /\ <<u>> \in Seq(g.terms)
    BY OfOne DEF Symbols
  <2> QED BY <2>1
<1>2. ASSUME NEW r \in RuleIds(g), NEW ws \in Seq(Seq(g.terms))
      PROVE  <<Lhs(g, r), FlattenSeq(ws)>> \in D
  <2>1. Lhs(g, r) \in Symbols(g) /\ Lhs(g, r) \notin g.terms
    BY DEF IsGrammar, Symbols
  <2>2. FlattenSeq(ws) \in Seq(g.terms)
    BY FlattenType
  <2> QED BY <2>1, <2>2
<1>3. ClosedUnderRules(g, D)
  <2> HIDE DEF D
  <2> QED BY <1>1, <1>2 DEF ClosedUnderRules
<1>4. <<t, w>> \in D
  <2>1. D \in SUBSET (Symbols(g) \X Seq(g.terms))
    OBVIOUS
  <2> HIDE DEF D
  <2> QED BY <1>3, <2>1 DEF Derives
<1> QED BY <1>4

\* Without empty rules nothing derives the empty string.
LEMMA NothingDerivesEmpty ==
  ASSUME NEW g, IsGrammar(g), \A r \in RuleIds(g) : Length(g, r) > 0,
         NEW x, NEW w \in Seq(g.terms), Derives(g, x, w)
  PROVE  Len(w) \in Nat /\ Len(w) >= 1
<1> DEFINE D == {p \in Symbols(g) \X Seq(g.terms) : Len(p[2]) >= 1}
<1>1. \A t \in g.terms : <<t, <<t>>>> \in D
  <2>1. \A t \in g.terms : <<t>> \in Seq(g.terms) /\ Len(<<t>>) = 1
    BY OfOne
  <2>2. \A t \in g.terms : t \in Symbols(g)
    BY DEF Symbols
  <2> SUFFICES ASSUME NEW t \in g.terms PROVE <<t, <<t>>>> \in D
    OBVIOUS
  <2>3. <<t, <<t>>>> \in Symbols(g) \X Seq(g.terms) /\ <<t, <<t>>>>[2] = <<t>>
    BY <2>1, <2>2
  <2>4. Len(<<t, <<t>>>>[2]) >= 1
    BY <2>1, <2>3
  <2> QED BY <2>3, <2>4
<1>2. ASSUME NEW r \in RuleIds(g), NEW ws \in Seq(Seq(g.terms)), Len(ws) = Length(g, r),
             \A n \in 1..Len(ws) : <<Rhs(g, r)[n], ws[n]>> \in D
      PROVE  <<Lhs(g, r), FlattenSeq(ws)>> \in D
  <2>1. Lhs(g, r) \in Symbols(g) /\ FlattenSeq(ws) \in Seq(g.terms)
    BY FlattenType DEF IsGrammar, Symbols
  <2>2. Len(ws) \in Nat /\ Len(ws) >= 1
    <3>1. Len(ws) \in Nat /\ Len(ws) > 0
      BY <1>2, LenProperties
    <3> QED BY <3>1
  <2>3. ws[Len(ws)] \in Seq(g.terms) /\ Len(ws[Len(ws)]) >= 1
    <3>1. Len(ws) \in 1..Len(ws)
      BY <2>2
    <3>2. <<Rhs(g, r)[Len(ws)], ws[Len(ws)]>> \in D
      BY <3>1, <1>2
    <3> QED BY <3>2
  <2> HIDE DEF D
  <2>4. FlattenSeq(ws) = Flattened(ws)[Len(ws)]
    BY <2>2 DEF FlattenSeq, Flattened
  <2>5. /\ Flattened(ws)[1] = ws[1]
        /\ \A m \in 2..Len(ws) : Flattened(ws)[m] = Flattened(ws)[m - 1] \o ws[m]
        /\ \A m \in 1..Len(ws) : Flattened(ws)[m] \in Seq(g.terms)
    <3>1. Len(ws) # 0
      BY <2>2
    <3> QED BY <3>1, FlattenedDefined
  <2>6. Len(FlattenSeq(ws)) >= 1
    <3>1. CASE Len(ws) = 1
      BY <3>1, <2>3, <2>4, <2>5
    <3>2. CASE Len(ws) # 1
      <4>1. Len(ws) \in 2..Len(ws) /\ Len(ws) - 1 \in 1..Len(ws)
        <5>1. \A n \in Nat : n >= 1 /\ n # 1 => n \in 2..n /\ n - 1 \in 1..n
          OBVIOUS
        <5> QED BY ONLY <2>2, <3>2, <5>1
      <4> DEFINE y == Flattened(ws)[Len(ws) - 1]
                 z == ws[Len(ws)]
      <4>2. FlattenSeq(ws) = y \o z /\ y \in Seq(g.terms) /\ z \in Seq(g.terms) /\ Len(z) >= 1
        BY <4>1, <2>3, <2>4, <2>5
      <4> HIDE DEF y, z
      <4>3. Len(FlattenSeq(ws)) = Len(y) + Len(z) /\ Len(y) \in Nat /\ Len(z) \in Nat
        BY <4>2, ConcatProperties, LenProperties
      <4> QED BY <4>2, <4>3
    <3> QED BY <3>1, <3>2
  <2> QED BY <2>1, <2>6 DEF D
<1>3. D \in SUBSET (Symbols(g) \X Seq(g.terms))
  OBVIOUS
<1> HIDE DEF D
<1>4. ClosedUnderRules(g, D)
  BY <1>1, <1>2 DEF ClosedUnderRules
<1>5. <<x, w>> \in D
  BY <1>3, <1>4 DEF Derives
<1> QED BY <1>5, LenProperties DEF D

-----------------------------------------------------------------------------
(* The states.                                                             *)

\* The tables follow some automaton, with conflicts or without.
Guided ==
  \E its \in [StateIds -> SUBSET (RuleIds(gram) \X Nat)] : GuidedBy(gram, actions, gotos, its)

\* The state with k values below it.
StateAt(k) == IF k = sp THEN state ELSE Record(k).state

(***************************************************************************)
(* Every state but 0 was reached from the one below by the symbol whose    *)
(* tokens lie between them.  A token that does not fit leads to 0.         *)
(***************************************************************************)
Reached ==
  /\ StateAt(0) = 0
  /\ \A k \in 1..sp : StateAt(k) = 0 \/
       \E x \in gram.terms \cup gram.nonterms :
         StateAt(k) = GotoOf(StateAt(k - 1), x) /\ Derives(gram, x, Record(k - 1).item)

SentencesInv == ValuesInv /\ EpsilonFree /\ Guided /\ Reached /\ pc # "aborted"

(***************************************************************************)
(* Back along an item of the topmost state: as many values as symbols are  *)
(* before its dot, and each is derived from its symbol.  A state 0 in      *)
(* between would have an item whose dot is not in front.                   *)
(***************************************************************************)
LEMMA PathBack ==
  ASSUME Program, TypeOK, Reached,
         NEW its \in [StateIds -> SUBSET (RuleIds(gram) \X Nat)],
         GuidedBy(gram, actions, gotos, its),
         NEW r \in RuleIds(gram), NEW m \in Nat, <<r, m>> \in its[state]
  PROVE  m <= sp /\ \A n \in 1..m : Derives(gram, Rhs(gram, r)[n], Record(sp - m + n - 1).item)
<1> DEFINE Good(d) ==
             /\ d <= sp /\ <<r, m - d>> \in its[StateAt(sp - d)]
             /\ \A n \in (m - d + 1)..m : Derives(gram, Rhs(gram, r)[n], Record(sp - m + n - 1).item)
           J == {d \in Nat : d <= m => Good(d)}
<1>1. sp \in Nat /\ state \in StateIds /\ StateAt(sp) = state
  BY DEF TypeOK, StateAt
<1>2. ASSUME NEW k \in 0..sp PROVE StateAt(k) \in StateIds
  <2>1. k \in Nat
    BY <1>1
  <2>2. Record(k) \in [state : StateIds, item : Tokens]
    BY <2>1 DEF TypeOK
  <2> QED BY <1>1, <2>2 DEF StateAt
<1>3. 0 \in J
  <2>1. sp - 0 = sp /\ m - 0 = m /\ 0 <= sp /\ (m - 0 + 1)..m = {}
    BY <1>1
  <2> QED BY <2>1, <1>1
<1>4. ASSUME NEW d \in Nat, d \in J PROVE d + 1 \in J
  <2> SUFFICES ASSUME d + 1 <= m PROVE Good(d + 1)
    OBVIOUS
  <2>1. Good(d)
    BY <1>4
  <2> HIDE DEF J
  <2> DEFINE j == sp - d
             e == m - d
  <2>2. e \in Nat /\ e # 0 /\ j \in 0..sp /\ <<r, e>> \in its[StateAt(j)]
    BY <2>1, <1>1
  <2>3. StateAt(j) # 0
    <3>1. \A p \in its[0] : p[2] = 0
      BY DEF GuidedBy
    <3>2. ~ (<<r, e>> \in its[0])
      BY <2>2, <3>1
    <3> QED BY <2>2, <3>2
  <2>4. j # 0
    BY <2>3 DEF Reached
  <2>5. j \in 1..sp /\ j - 1 \in 0..sp
    BY <2>2, <2>4, <1>1
  <2> HIDE DEF j, e
  <2>6. PICK x \in gram.terms \cup gram.nonterms :
          StateAt(j) = GotoOf(StateAt(j - 1), x) /\ Derives(gram, x, Record(j - 1).item)
    BY <2>3, <2>5 DEF Reached
  <2>7. StateAt(j - 1) \in 0..(Len(actions) - 1)
    BY <2>5, <1>2 DEF StateIds
  <2>8. Rhs(gram, r)[e] = x /\ <<r, e - 1>> \in its[StateAt(j - 1)]
    <3> DEFINE s == StateAt(j - 1)
               t == StateAt(j)
    <3>1. t = gotos[s + 1][SymbolId(gram, x)] /\ t # 0 /\ s \in 0..(Len(actions) - 1)
      BY <2>3, <2>6, <2>7 DEF GotoOf, SymId
    <3> HIDE DEF s, t
    <3>2. \A p \in its[t] : p[2] # 0 => Rhs(gram, p[1])[p[2]] = x /\ <<p[1], p[2] - 1>> \in its[s]
      BY <3>1 DEF GuidedBy
    <3>3. <<r, e>> \in its[t]
      BY <2>2 DEF t
    <3>4. <<r, e>>[1] = r /\ <<r, e>>[2] = e
      OBVIOUS
    <3>5. Rhs(gram, r)[e] = x /\ <<r, e - 1>> \in its[s]
      BY <2>2, <3>2, <3>3, <3>4
    <3> QED BY <3>5 DEF s
  <2>9. /\ m - (d + 1) = e - 1 /\ sp - (d + 1) = j - 1 /\ d + 1 <= sp
        /\ m - (d + 1) + 1 = e /\ sp - m + e - 1 = j - 1 /\ e \in Int
    BY <2>2, <2>5, <1>1 DEF j, e
  <2>10. ASSUME NEW n \in (m - (d + 1) + 1)..m
         PROVE  Derives(gram, Rhs(gram, r)[n], Record(sp - m + n - 1).item)
    <3>1. CASE n = e
      <4>1. sp - m + n - 1 = j - 1
        BY <3>1, <2>9
      <4> QED BY <3>1, <4>1, <2>6, <2>8
    <3>2. CASE n # e
      <4>1. n \in (m - d + 1)..m
        BY <3>2, <2>9 DEF e
      <4> QED BY <4>1, <2>1
    <3> QED BY <3>1, <3>2
  <2>11. <<r, m - (d + 1)>> \in its[StateAt(sp - (d + 1))]
    BY <2>8, <2>9
  <2> QED BY <2>9, <2>10, <2>11
<1>5. m \in J
  <2> HIDE DEF J
  <2>1. Nat \subseteq J
    BY <1>3, <1>4, SetInduction
  <2> QED BY <2>1
<1>6. Good(m)
  BY <1>5
<1>7. m - m + 1 = 1
  OBVIOUS
<1> QED BY <1>6, <1>7

\* What a reduction of the topmost state pops has been derived from its right side.
LEMMA PopsRightSide ==
  ASSUME Program, TypeOK, Reached, Guided, pc = "parsing",
         NEW r, r = Action(state, token), r # 0, NEW count, count = Length(gram, r)
  PROVE  count <= sp /\ \A n \in 1..count : Derives(gram, Rhs(gram, r)[n], Record(sp - count + n - 1).item)
<1>1. state \in StateIds /\ token \in Symbols(gram)
  BY DEF TypeOK, Symbols
<1>2. r \in RuleIds(gram) /\ SymId(token) \in Columns(gram)
  BY <1>1, TablesFacts
<1>3. count \in Nat
  BY <1>2, RuleFacts DEF Program
<1>4. PICK its \in [StateIds -> SUBSET (RuleIds(gram) \X Nat)] : GuidedBy(gram, actions, gotos, its)
  BY DEF Guided
<1>5. <<r, count>> \in its[state]
  <2>1. \A s \in StateIds : \A c \in Columns(gram) :
          actions[s + 1][c] # 0 => <<actions[s + 1][c], Length(gram, actions[s + 1][c])>> \in its[s]
    BY <1>4 DEF GuidedBy, StateIds
  <2>2. r = actions[state + 1][SymId(token)]
    BY DEF Action
  <2> QED BY <1>1, <1>2, <2>1, <2>2
<1> QED BY <1>2, <1>3, <1>4, <1>5, PathBack

\* The joined values were derived from the left side, which leads to the new state.
LEMMA ReduceSentences == SentencesInv /\ Reduce => SentencesInv'
<1> SUFFICES ASSUME SentencesInv, Reduce PROVE SentencesInv'
  OBVIOUS
<1>1. ValuesInv /\ Program /\ TypeOK /\ EpsilonFree /\ Guided /\ Reached
  BY DEF SentencesInv, ValuesInv
<1>2. ValuesInv'
  BY <1>1, ReduceValues
<1>3. UNCHANGED <<gram, actions, gotos>>
  BY DEF Reduce, program
<1> DEFINE r == Action(state, token)
           count == Length(gram, r)
           base == sp - count
<1>4. /\ r \in RuleIds(gram) /\ r # 0
      /\ count \in Nat /\ count <= sp /\ base \in Nat
      /\ records' = Popped(count)
      /\ sp' = base + 1
      /\ state' = GotoOf(Record(base).state, Lhs(gram, r))
      /\ pc' = "parsing" /\ pc = "parsing"
  BY <1>1, ReduceFacts
<1>5. count > 0
  BY <1>1, <1>4 DEF EpsilonFree
<1>6. /\ count <= sp
      /\ \A n \in 1..count : Derives(gram, Rhs(gram, r)[n], Record(base + n - 1).item)
  BY <1>1, <1>4, PopsRightSide
<1>7. \A n \in Nat : Record(n)' = IF n \in {base, sp}
                                  THEN [Record(n) EXCEPT !.item = Made(count)] ELSE Record(n)
  BY <1>1, <1>4, ReduceRecords
<1>8. /\ High(count) \in Seq(Tokens) /\ Len(High(count)) = count
      /\ Made(count) = FlattenSeq(High(count)) /\ Made(count) \in Tokens
  BY <1>1, <1>4, Parts
<1>9. Derives(gram, Lhs(gram, r), Made(count))
  <2>1. \A n \in 1..count : High(count)[n] = Record(base + n - 1).item
    BY DEF High
  <2>2. \A n \in 1..Len(High(count)) : Derives(gram, Rhs(gram, r)[n], High(count)[n])
    BY <1>6, <1>8, <2>1
  <2>3. High(count) \in Seq(Seq(gram.terms)) /\ Len(High(count)) = Length(gram, r)
    BY <1>8 DEF Tokens
  <2> HIDE DEF r, count
  <2> QED BY <1>4, <1>8, <2>2, <2>3, DerivesRule
<1>10. Lhs(gram, r) \in gram.nonterms
  BY <1>1, <1>4, RuleFacts DEF Program
<1> HIDE DEF r, count, base
<1>11. PICK b \in Nat : b = base
  BY <1>4
<1>12. b < sp /\ sp \in Nat
  BY <1>1, <1>4, <1>5, <1>11 DEF TypeOK, base
<1>13. ASSUME NEW k \in 0..b
       PROVE  StateAt(k)' = StateAt(k) /\ StateAt(k) = Record(k).state /\ (k # b => Record(k)' = Record(k))
  <2>1. k \in Nat /\ k # sp /\ k # sp'
    BY <1>4, <1>11, <1>12
  <2>2. Record(k) \in [state : StateIds, item : Tokens]
    BY <2>1, <1>1 DEF TypeOK
  <2>3. Record(k)'.state = Record(k).state
    <3>1. [Record(k) EXCEPT !.item = Made(count)].state = Record(k).state
      BY <2>2
    <3> QED BY <2>1, <3>1, <1>7, <1>11
  <2>4. StateAt(k) = Record(k).state /\ StateAt(k)' = Record(k)'.state
    BY <2>1 DEF StateAt
  <2>5. k # b => Record(k)' = Record(k)
    BY <2>1, <1>7, <1>11
  <2> QED BY <2>3, <2>4, <2>5
<1>14. Record(b)'.item = Made(count)
  <2>1. b \in Nat
    BY <1>4, <1>11
  <2>2. Record(b) \in [state : StateIds, item : Tokens]
    BY <2>1, <1>1 DEF TypeOK
  <2>3. Record(b)' = [Record(b) EXCEPT !.item = Made(count)]
    BY <2>1, <1>7, <1>11
  <2> QED BY <2>2, <2>3
<1>15. \A s, x : GotoOf(s, x)' = GotoOf(s, x)
  BY <1>3 DEF GotoOf, SymId
<1>16. Reached'
  <2>1. StateAt(0)' = 0
    <3>1. 0 \in 0..b
      BY <1>4, <1>11
    <3> QED BY <3>1, <1>1, <1>13 DEF Reached
  <2>2. ASSUME NEW k \in 1..sp'
        PROVE  StateAt(k)' = 0 \/
                 \E x \in gram.terms \cup gram.nonterms :
                   StateAt(k)' = GotoOf(StateAt(k - 1)', x) /\ Derives(gram, x, Record(k - 1)'.item)
    <3>1. CASE k = b + 1
      <4>1. StateAt(k)' = state'
        BY <3>1, <1>4, <1>11 DEF StateAt
      <4>2. b \in 0..b /\ k - 1 = b
        BY <3>1, <1>4, <1>11
      <4>3. StateAt(k - 1)' = Record(b).state /\ Record(k - 1)'.item = Made(count)
        BY <4>2, <1>13, <1>14
      <4> QED BY <4>1, <4>3, <1>4, <1>11, <1>9, <1>10
    <3>2. CASE k # b + 1
      <4>1. k \in 0..b /\ k - 1 \in 0..b /\ k - 1 # b /\ k \in 1..sp
        BY <3>2, <1>4, <1>11, <1>12
      <4>2. StateAt(k)' = StateAt(k) /\ StateAt(k - 1)' = StateAt(k - 1) /\ Record(k - 1)' = Record(k - 1)
        BY <4>1, <1>13
      <4>3. StateAt(k) = 0 \/ \E x \in gram.terms \cup gram.nonterms :
              StateAt(k) = GotoOf(StateAt(k - 1), x) /\ Derives(gram, x, Record(k - 1).item)
        BY <4>1, <1>1 DEF Reached
      <4> QED BY <4>2, <4>3
    <3> QED BY <3>1, <3>2
  <2> QED BY <2>1, <2>2, <1>3, <1>15 DEF Reached
<1>17. EpsilonFree' /\ Guided' /\ pc' # "aborted"
  BY <1>1, <1>3, <1>4 DEF EpsilonFree, Guided, StateIds
<1> QED BY <1>2, <1>16, <1>17 DEF SentencesInv

\* The token derives itself and leads to the new state.
LEMMA ShiftSentences == SentencesInv /\ Shift => SentencesInv'
<1> SUFFICES ASSUME SentencesInv, Shift PROVE SentencesInv'
  OBVIOUS
<1>1. ValuesInv /\ Program /\ TypeOK /\ EpsilonFree /\ Guided /\ Reached
  BY DEF SentencesInv, ValuesInv
<1>2. ValuesInv'
  BY <1>1, ShiftValues
<1>3. /\ UNCHANGED <<gram, actions, gotos>>
      /\ pc = "parsing" /\ pc' = "idle"
      /\ sp' = sp + 1 /\ state' = GotoOf(state, token)
  BY DEF Shift, program
<1>4. \A n \in Nat : Record(n)' = IF n = sp THEN [state |-> state, item |-> <<token>>] ELSE Record(n)
  BY ShiftRecords
<1>5. sp \in Nat /\ token \in gram.terms
  BY <1>1, <1>3 DEF TypeOK
<1>6. ASSUME NEW k \in 0..sp PROVE StateAt(k)' = StateAt(k) /\ (k # sp => Record(k)' = Record(k))
  <2>1. k \in Nat /\ k # sp'
    BY <1>3, <1>5
  <2>2. StateAt(k)' = Record(k)'.state
    BY <2>1 DEF StateAt
  <2> QED BY <2>1, <2>2, <1>4 DEF StateAt
<1>7. \A s, x : GotoOf(s, x)' = GotoOf(s, x)
  BY <1>3 DEF GotoOf, SymId
<1>8. Reached'
  <2>1. StateAt(0)' = 0
    <3>1. 0 \in 0..sp
      BY <1>5
    <3> QED BY <3>1, <1>1, <1>6 DEF Reached
  <2>2. ASSUME NEW k \in 1..sp'
        PROVE  StateAt(k)' = 0 \/
                 \E x \in gram.terms \cup gram.nonterms :
                   StateAt(k)' = GotoOf(StateAt(k - 1)', x) /\ Derives(gram, x, Record(k - 1)'.item)
    <3>1. CASE k = sp + 1
      <4>1. k - 1 = sp /\ sp \in 0..sp
        BY <3>1, <1>5
      <4>2. StateAt(k)' = GotoOf(state, token)
        BY <3>1, <1>3 DEF StateAt
      <4>3. StateAt(k - 1)' = state /\ Record(k - 1)'.item = <<token>>
        BY <4>1, <1>4, <1>5, <1>6 DEF StateAt
      <4>4. Derives(gram, token, <<token>>)
        BY <1>5, DerivesToken
      <4> QED BY <4>2, <4>3, <4>4, <1>5
    <3>2. CASE k # sp + 1
      <4>1. k \in 1..sp /\ k \in 0..sp /\ k - 1 \in 0..sp /\ k - 1 # sp
        BY <3>2, <1>3, <1>5
      <4>2. StateAt(k)' = StateAt(k) /\ StateAt(k - 1)' = StateAt(k - 1) /\ Record(k - 1)' = Record(k - 1)
        BY <4>1, <1>6
      <4>3. StateAt(k) = 0 \/ \E x \in gram.terms \cup gram.nonterms :
              StateAt(k) = GotoOf(StateAt(k - 1), x) /\ Derives(gram, x, Record(k - 1).item)
        BY <4>1, <1>1 DEF Reached
      <4> QED BY <4>2, <4>3
    <3> QED BY <3>1, <3>2
  <2> QED BY <2>1, <2>2, <1>3, <1>7 DEF Reached
<1>9. EpsilonFree' /\ Guided' /\ pc' # "aborted"
  BY <1>1, <1>3 DEF EpsilonFree, Guided, StateIds
<1> QED BY <1>2, <1>8, <1>9 DEF SentencesInv

\* The stack has what the rule needs.
LEMMA NoAbort == SentencesInv => ~ Abort
<1> SUFFICES ASSUME SentencesInv, Abort PROVE FALSE
  OBVIOUS
<1>1. Program /\ TypeOK /\ Guided /\ Reached
  BY DEF SentencesInv, ValuesInv
<1>2. pc = "parsing" /\ Action(state, token) # 0 /\ sp < Length(gram, Action(state, token))
  BY DEF Abort
<1>3. Length(gram, Action(state, token)) <= sp
  BY <1>1, <1>2, PopsRightSide
<1>4. sp \in Nat
  BY <1>1 DEF TypeOK
<1>5. Length(gram, Action(state, token)) \in Nat
  BY <1>1, <1>2, TablesFacts, RuleFacts DEF Program, TypeOK, Symbols
<1> QED BY <1>2, <1>3, <1>4, <1>5

\* The other steps leave states and records as they are.
LEMMA OtherSentences == SentencesInv /\ (Call \/ UNCHANGED vars) => SentencesInv'
<1> SUFFICES ASSUME SentencesInv, Call \/ UNCHANGED vars PROVE SentencesInv'
  OBVIOUS
<1>1. ValuesInv /\ EpsilonFree /\ Guided /\ Reached /\ pc # "aborted"
  BY DEF SentencesInv
<1>2. ValuesInv'
  BY <1>1, CallValues, OtherValues
<1>3. UNCHANGED <<gram, actions, gotos, state, records, sp>> /\ pc' # "aborted"
  BY <1>1 DEF Call, vars, program, parservars
<1>4. /\ \A k : StateAt(k)' = StateAt(k) /\ Record(k)' = Record(k)
      /\ \A s, x : GotoOf(s, x)' = GotoOf(s, x)
  BY <1>3 DEF StateAt, Record, GotoOf, SymId
<1>5. Reached'
  BY <1>1, <1>3, <1>4 DEF Reached
<1>6. EpsilonFree' /\ Guided'
  BY <1>1, <1>3 DEF EpsilonFree, Guided, StateIds
<1> QED BY <1>2, <1>3, <1>5, <1>6 DEF SentencesInv

\* A fresh parser is in state 0.
LEMMA BeginSentences == Begin /\ Program /\ EpsilonFree /\ Guided => SentencesInv
<1> SUFFICES ASSUME Begin, Program, EpsilonFree, Guided PROVE SentencesInv
  OBVIOUS
<1>1. ValuesInv
  BY BeginValues
<1>2. Reached
  BY DEF Begin, Reached, StateAt
<1> QED BY <1>1, <1>2 DEF SentencesInv, Begin

(***************************************************************************)
(* For a grammar without empty rules and tables that follow an automaton,  *)
(* every state on the stack was reached by what lies below it.             *)
(***************************************************************************)
THEOREM SentencesInvariant == ParserSpec /\ EpsilonFree /\ Guided => []SentencesInv
<1>1. Begin /\ Program /\ EpsilonFree /\ Guided => SentencesInv
  BY BeginSentences
<1>2. SentencesInv /\ [Next]_vars => SentencesInv'
  BY NoAbort, OtherSentences, ReduceSentences, ShiftSentences DEF Next
<1> QED BY <1>1, <1>2, PTL DEF ParserSpec

(***************************************************************************)
(* __assert_stack never fails for such a parser, whatever tokens it gets:  *)
(* behind tokens that do not fit, and with conflicts in its grammar.       *)
(***************************************************************************)
THEOREM StackSuffices == ParserSpec /\ EpsilonFree /\ Guided => []NeverUnderflows
<1>1. SentencesInv => NeverUnderflows
  BY DEF SentencesInv, NeverUnderflows
<1> QED BY <1>1, SentencesInvariant, PTL

-----------------------------------------------------------------------------
(* Acceptance.                                                             *)

\* The symbol that %start's rule has before %eof.
Goal == Rhs(gram, 0)[1]

(***************************************************************************)
(* parser_parse has returned true: what was handed over ends in something  *)
(* that the grammar's first nonterminal derives, and %eof.                 *)
(***************************************************************************)
AcceptsDerived ==
  pc = "idle" /\ state = 1 =>
    \E u, v \in Tokens : fed = u \o (v \o <<Eof>>) /\ Derives(gram, Goal, v)

\* What was handed over when the state is 1.
LEMMA AcceptsThem == SentencesInv => AcceptsDerived
<1> SUFFICES ASSUME SentencesInv, pc = "idle", state = 1
             PROVE  \E u, v \in Tokens : fed = u \o (v \o <<Eof>>) /\ Derives(gram, Goal, v)
  BY DEF AcceptsDerived
<1>1. Program /\ TypeOK /\ Kept /\ Guided /\ Reached
  BY DEF SentencesInv, ValuesInv
<1>2. PICK its \in [StateIds -> SUBSET (RuleIds(gram) \X Nat)] : GuidedBy(gram, actions, gotos, its)
  BY <1>1 DEF Guided
<1>3. 0 \in RuleIds(gram) /\ <<0, 2>> \in its[state] /\ sp \in Nat
  BY <1>1, <1>2 DEF GuidedBy, Program, IsGrammar, TypeOK
<1>4. 2 <= sp /\ \A n \in 1..2 : Derives(gram, Rhs(gram, 0)[n], Record(sp - 2 + n - 1).item)
  BY <1>1, <1>2, <1>3, PathBack
<1> DEFINE h == High(2)
<1>5. /\ Low(2) \in Seq(Tokens) /\ h \in Seq(Tokens) /\ Len(h) = 2
      /\ Made(2) = FlattenSeq(h)
      /\ FlattenSeq(Values) = FlattenSeq(Low(2)) \o Made(2)
  <2>1. 2 \in Nat /\ sp - 2 \in Nat
    BY <1>3, <1>4
  <2> QED BY <1>1, <2>1, Parts
<1>6. \A n \in 1..2 : Derives(gram, Rhs(gram, 0)[n], h[n])
  BY <1>4 DEF High
<1> HIDE DEF h
<1>7. h[1] \in Tokens /\ h[2] \in Tokens /\ FlattenSeq(h) = h[1] \o h[2]
  BY <1>5, FlattenTwo DEF Tokens
<1>8. Rhs(gram, 0)[2] = Eof /\ Eof \in gram.terms
  BY <1>1 DEF Program, IsGrammar
<1>9. h[2] = <<Eof>>
  <2>1. Derives(gram, Eof, h[2])
    BY <1>6, <1>8
  <2> QED BY <2>1, <1>1, <1>8, TokenDerivesItself DEF Program
<1>10. Derives(gram, Goal, h[1])
  BY <1>6 DEF Goal
<1>11. FlattenSeq(Low(2)) \in Tokens
  BY <1>5, FlattenType DEF Tokens
<1>12. fed = FlattenSeq(Low(2)) \o (h[1] \o <<Eof>>)
  BY <1>1, <1>5, <1>7, <1>9 DEF Kept
<1> QED BY <1>7, <1>10, <1>11, <1>12

(***************************************************************************)
(* Such a parser accepts nothing else.  Without empty rules this needs no  *)
(* more of the tables than that they follow an automaton: neither that it  *)
(* has no conflicts nor that every lookahead was found.                    *)
(***************************************************************************)
THEOREM AcceptsOnlyDerived == ParserSpec /\ EpsilonFree /\ Guided => []AcceptsDerived
<1> QED BY AcceptsThem, SentencesInvariant, PTL

-----------------------------------------------------------------------------
(* What is accepted.  A configuration is the states on the stack from its  *)
(* base on, the one at hand last, and the tokens still to come.            *)

Stacks == {z \in Seq(StateIds) : z # << >>}

\* The first n states of z, and s behind them.
Push(z, n, s) == [k \in 1..(n + 1) |-> IF k <= n THEN z[k] ELSE s]

\* All tokens are used up, and parser_parse returns true.
Final(z, u) == u = << >> /\ z[Len(z)] = 1

\* What parser_parse does next with states z and tokens u: it shifts, or it reduces.
Leads(z, u, y, v) ==
  LET r == Action(z[Len(z)], u[1])
      n == Len(z) - Length(gram, r)
  IN /\ u # << >>
     /\ \/ r = 0 /\ u = <<u[1]>> \o v /\ y = Push(z, Len(z), GotoOf(z[Len(z)], u[1]))
        \/ r # 0 /\ n >= 1 /\ v = u /\ y = Push(z, n, GotoOf(z[n], Lhs(gram, r)))

\* A set with all final configurations and all that lead into it.
BackClosed(S) ==
  \A z \in Stacks : \A u \in Tokens :
    Final(z, u) \/ (\E y \in Stacks : \E v \in Tokens : Leads(z, u, y, v) /\ <<y, v>> \in S)
      => <<z, u>> \in S

\* From states z the tokens u are accepted: the configuration is in the least such set.
Accepts(z, u) == \A S \in SUBSET (Stacks \X Tokens) : BackClosed(S) => <<z, u>> \in S

LEMMA PushFacts ==
  ASSUME NEW z \in Stacks, NEW n \in 0..Len(z), NEW s \in StateIds
  PROVE  /\ Push(z, n, s) \in Stacks /\ Len(Push(z, n, s)) = n + 1
         /\ \A k \in 1..n : Push(z, n, s)[k] = z[k]
         /\ Push(z, n, s)[n + 1] = s
<1>1. z \in Seq(StateIds) /\ Len(z) \in Nat /\ \A k \in 1..Len(z) : z[k] \in StateIds
  BY LenProperties, ElementOfSeq DEF Stacks
<1>2. n \in Nat /\ n <= Len(z) /\ n + 1 \in Nat
  BY <1>1
<1>3. \A k \in 1..(n + 1) : (IF k <= n THEN z[k] ELSE s) \in StateIds
  BY <1>1, <1>2
<1>4. Push(z, n, s) \in [1..(n + 1) -> StateIds]
  BY <1>3 DEF Push
<1>5. Push(z, n, s) \in Seq(StateIds) /\ Len(Push(z, n, s)) = n + 1
  <2> DEFINE y == Push(z, n, s)
  <2>1. y \in [1..(n + 1) -> StateIds]
    BY <1>4
  <2> HIDE DEF y
  <2>2. y \in Seq(StateIds)
    BY <2>1, <1>2, SeqDef
  <2>3. Len(y) \in Nat /\ DOMAIN y = 1..Len(y) /\ DOMAIN y = 1..(n + 1)
    BY <2>1, <2>2, LenProperties
  <2>4. Len(y) = n + 1
    <3>1. \A a, b \in Nat : 1..a = 1..b => a = b
      OBVIOUS
    <3> QED BY <3>1, <2>3, <1>2
  <2> QED BY <2>2, <2>4 DEF y
<1>6. Push(z, n, s) # << >>
  BY <1>2, <1>5, EmptySeq
<1>7. \A k \in 1..n : Push(z, n, s)[k] = z[k]
  BY <1>2 DEF Push
<1>8. Push(z, n, s)[n + 1] = s
  BY <1>2 DEF Push
<1> QED BY <1>5, <1>6, <1>7, <1>8 DEF Stacks

\* What is pushed on the same states is the same.
LEMMA PushSame ==
  ASSUME NEW z, NEW y, NEW n \in Nat, NEW s, \A k \in 1..n : y[k] = z[k]
  PROVE  Push(y, n, s) = Push(z, n, s)
<1>1. \A k \in 1..(n + 1) : (IF k <= n THEN y[k] ELSE s) = (IF k <= n THEN z[k] ELSE s)
  OBVIOUS
<1> QED BY <1>1 DEF Push

LEMMA AcceptsFinal ==
  ASSUME NEW z \in Stacks, z[Len(z)] = 1
  PROVE  Accepts(z, << >>)
<1>1. << >> \in Tokens
  BY EmptySeq DEF Tokens
<1> QED BY <1>1 DEF Accepts, BackClosed, Final

LEMMA AcceptsBefore ==
  ASSUME NEW z \in Stacks, NEW u \in Tokens, NEW y \in Stacks, NEW v \in Tokens,
         Leads(z, u, y, v), Accepts(y, v)
  PROVE  Accepts(z, u)
<1> SUFFICES ASSUME NEW S \in SUBSET (Stacks \X Tokens), BackClosed(S)
             PROVE  <<z, u>> \in S
  BY DEF Accepts
<1>1. <<y, v>> \in S
  BY DEF Accepts
<1> QED BY <1>1 DEF BackClosed

\* Nothing is accepted for another reason.
LEMMA AcceptsAfter ==
  ASSUME NEW z \in Stacks, NEW u \in Tokens, Accepts(z, u), ~ Final(z, u)
  PROVE  \E y \in Stacks : \E v \in Tokens : Leads(z, u, y, v) /\ Accepts(y, v)
<1> SUFFICES ASSUME ~ \E y \in Stacks : \E v \in Tokens : Leads(z, u, y, v) /\ Accepts(y, v)
             PROVE  FALSE
  OBVIOUS
<1> DEFINE S == {c \in Stacks \X Tokens : Accepts(c[1], c[2]) /\ c # <<z, u>>}
<1>1. \A y \in Stacks : \A v \in Tokens : <<y, v>> \in S <=> Accepts(y, v) /\ <<y, v>> # <<z, u>>
  OBVIOUS
<1>2. S \in SUBSET (Stacks \X Tokens) /\ <<z, u>> \notin S
  OBVIOUS
<1> HIDE DEF S
<1>3. ASSUME NEW y \in Stacks, NEW v \in Tokens,
             Final(y, v) \/ (\E x \in Stacks : \E w \in Tokens : Leads(y, v, x, w) /\ <<x, w>> \in S)
      PROVE  <<y, v>> \in S
  <2>1. CASE Final(y, v)
    <3>1. Accepts(y, v)
      BY <2>1, AcceptsFinal DEF Final
    <3>2. <<y, v>> # <<z, u>>
      BY <2>1
    <3> QED BY <3>1, <3>2, <1>1
  <2>2. ASSUME NEW x \in Stacks, NEW w \in Tokens, Leads(y, v, x, w), <<x, w>> \in S
        PROVE  <<y, v>> \in S
    <3>1. Accepts(x, w)
      BY <2>2, <1>1
    <3>2. Accepts(y, v)
      BY <2>2, <3>1, AcceptsBefore
    <3>3. <<y, v>> # <<z, u>>
      BY <2>2, <3>1
    <3> QED BY <3>2, <3>3, <1>1
  <2> QED BY <1>3, <2>1, <2>2
<1>4. BackClosed(S)
  BY <1>3 DEF BackClosed
<1> QED BY <1>2, <1>4 DEF Accepts

-----------------------------------------------------------------------------
(* Tables without conflicts that lack no lookahead.                        *)

\* B has the terminals that something derived from a symbol begins with.
Heads(B) ==
  /\ \A t \in gram.terms : <<t, t>> \in B
  /\ \A r \in RuleIds(gram) : \A a \in gram.terms :
       Length(gram, r) > 0 /\ <<Rhs(gram, r)[1], a>> \in B => <<Lhs(gram, r), a>> \in B

\* State s is prepared for x with b behind it.
Expected(F, s, x, b) ==
  /\ x \in gram.terms => Action(s, x) = 0
  /\ \A r \in RuleIds(gram) : Lhs(gram, r) = x => <<s, <<r, 0>>, b>> \in F

\* Behind the symbol at the dot of <<r, j>> comes b, if a comes behind the rule.
Behind(B, r, j, a, b) ==
  IF j + 1 = Length(gram, r) THEN b = a ELSE <<Rhs(gram, r)[j + 2], b>> \in B

(***************************************************************************)
(* F has <<state, item, terminal>>.  Shifts and gotos move the item, what  *)
(* it expects is expected with all that may come behind, a completed item  *)
(* is reduced, and that of %start is in state 1.                           *)
(***************************************************************************)
Directed(F, B) ==
  /\ Heads(B)
  /\ <<0, <<0, 0>>, Nil>> \in F
  /\ \A s \in StateIds : \A r \in RuleIds(gram) : \A j \in Nat : \A a \in gram.terms \cup {Nil} :
       <<s, <<r, j>>, a>> \in F =>
         /\ j < Length(gram, r) =>
              /\ <<GotoOf(s, Rhs(gram, r)[j + 1]), <<r, j + 1>>, a>> \in F
              /\ Rhs(gram, r)[j + 1] \in gram.terms => Action(s, Rhs(gram, r)[j + 1]) = 0
              /\ \A b \in gram.terms : Behind(B, r, j, a, b) => Expected(F, s, Rhs(gram, r)[j + 1], b)
         /\ j = Length(gram, r) /\ r # 0 /\ a # Nil => Action(s, a) = r
         /\ r = 0 /\ j = 2 => s = 1

(***************************************************************************)
(* Where x is expected w is read as x: what is accepted behind x is        *)
(* accepted behind w.                                                      *)
(***************************************************************************)
Reads(F, B, x, w) ==
  /\ w # << >> /\ <<x, w[1]>> \in B
  /\ \A z \in Stacks : \A v \in Tokens :
       /\ v # << >> /\ Expected(F, z[Len(z)], x, v[1])
       /\ Accepts(Push(z, Len(z), GotoOf(z[Len(z)], x)), v)
       => Accepts(z, w \o v)

LEMMA JoinTokens ==
  ASSUME NEW a \in Tokens, NEW b \in Tokens, NEW c \in Tokens
  PROVE  (a \o b) \o c = a \o (b \o c)
BY JoinAssociates DEF Tokens

LEMMA ReadsToken ==
  ASSUME Program, NEW F, NEW B, Heads(B), NEW t \in gram.terms
  PROVE  Reads(F, B, t, <<t>>)
<1>1. <<t>> \in Tokens /\ <<t>> # << >> /\ <<t>>[1] = t /\ <<t, t>> \in B
  BY OfOne DEF Heads, Tokens
<1>2. ASSUME NEW z \in Stacks, NEW v \in Tokens, Expected(F, z[Len(z)], t, v[1]),
             Accepts(Push(z, Len(z), GotoOf(z[Len(z)], t)), v)
      PROVE  Accepts(z, <<t>> \o v)
  <2> DEFINE s == z[Len(z)]
             u == <<t>> \o v
             y == Push(z, Len(z), GotoOf(s, t))
  <2>1. Len(z) \in Nat /\ Len(z) >= 1 /\ s \in StateIds
    BY LenProperties, EmptySeq, ElementOfSeq DEF Stacks
  <2>2. u \in Tokens /\ u # << >> /\ u[1] = t
    BY <1>1, HeadOf DEF Tokens
  <2>3. GotoOf(s, t) \in StateIds
    BY <2>1, TablesFacts DEF Symbols
  <2>4. y \in Stacks
    BY <2>1, <2>3, PushFacts
  <2>5. Action(s, t) = 0
    BY <1>2 DEF Expected
  <2>6. u = <<u[1]>> \o v
    BY <2>2
  <2> HIDE DEF u
  <2>7. Leads(z, u, y, v)
    BY <2>2, <2>5, <2>6 DEF Leads
  <2>8. Accepts(y, v)
    BY <1>2
  <2>9. Accepts(z, u)
    <3> HIDE DEF y, s
    <3> QED BY <2>2, <2>4, <2>7, <2>8, AcceptsBefore
  <2> QED BY <2>9 DEF u
<1> QED BY <1>1, <1>2 DEF Reads

(***************************************************************************)
(* What the symbols of a right side read, the left side reads: from where  *)
(* the rule is expected its symbols are read one after the other, and then *)
(* it is reduced.                                                          *)
(***************************************************************************)
LEMMA ReadsRule ==
  ASSUME Program, EpsilonFree, NEW F, NEW B, Directed(F, B),
         NEW r \in RuleIds(gram), r # 0,
         NEW ws \in Seq(Tokens), Len(ws) = Length(gram, r),
         \A n \in 1..Len(ws) : Reads(F, B, Rhs(gram, r)[n], ws[n])
  PROVE  Reads(F, B, Lhs(gram, r), FlattenSeq(ws))
<1> DEFINE m == Length(gram, r)
           x == Lhs(gram, r)
<1>1. m \in Nat /\ m > 0 /\ Len(ws) = m /\ x \in Symbols(gram)
      /\ \A n \in 1..m : Rhs(gram, r)[n] \in Symbols(gram)
  BY RuleFacts DEF Program, EpsilonFree, Symbols
<1>2. \A n \in 1..m : ws[n] \in Tokens
  BY <1>1, ElementOfSeq
<1>3. PICK rest \in [0..m -> Tokens] :
        /\ rest[m] = << >> /\ rest[0] = FlattenSeq(ws)
        /\ \A j \in 1..m : rest[j - 1] = ws[j] \o rest[j]
  <2>1. ws \in Seq(Seq(gram.terms))
    BY DEF Tokens
  <2>2. \E rest \in [0..Len(ws) -> Seq(gram.terms)] :
          /\ rest[Len(ws)] = << >> /\ rest[0] = FlattenSeq(ws)
          /\ \A j \in 1..Len(ws) : rest[j - 1] = ws[j] \o rest[j]
    BY <2>1, FlattenRests
  <2> QED BY <2>2, <1>1 DEF Tokens
\* Each part begins with a terminal that its symbol begins with.
<1>4. ASSUME NEW n \in 1..m, NEW v \in Tokens
      PROVE  /\ ws[n] \o v \in Tokens /\ ws[n] \o v # << >> /\ (ws[n] \o v)[1] = ws[n][1]
             /\ ws[n][1] \in gram.terms /\ <<Rhs(gram, r)[n], ws[n][1]>> \in B
  <2>1. ws[n] \in Tokens /\ ws[n] # << >> /\ <<Rhs(gram, r)[n], ws[n][1]>> \in B
    BY <1>1, <1>2 DEF Reads
  <2> QED BY <2>1, HeadOf DEF Tokens
<1>5. rest[0] # << >> /\ <<x, rest[0][1]>> \in B
  <2>1. 1 \in 1..m /\ 1 - 1 = 0 /\ rest[1] \in Tokens
    BY <1>1
  <2>2. rest[0] = ws[1] \o rest[1]
    BY <1>3, <2>1
  <2>3. rest[0] # << >> /\ rest[0][1] = ws[1][1] /\ ws[1][1] \in gram.terms /\ <<Rhs(gram, r)[1], ws[1][1]>> \in B
    BY <1>4, <2>1, <2>2
  <2> QED BY <1>1, <2>3 DEF Directed, Heads
<1>6. ASSUME NEW z \in Stacks, NEW v \in Tokens, v # << >>, Expected(F, z[Len(z)], x, v[1]),
             Accepts(Push(z, Len(z), GotoOf(z[Len(z)], x)), v)
      PROVE  Accepts(z, rest[0] \o v)
  <2> DEFINE a == v[1]
             h == Len(z)
             \* y is z with the states of j symbols of the right side behind it.
             Along(y, j) == /\ Len(y) = h + j /\ \A k \in 1..h : y[k] = z[k]
                            /\ <<y[h + j], <<r, j>>, a>> \in F
             I == {d \in Nat : d <= m => \A y \in Stacks : Along(y, m - d) => Accepts(y, rest[m - d] \o v)}
  <2>1. h \in Nat /\ h >= 1 /\ z[h] \in StateIds /\ a \in gram.terms
    BY <1>6, LenProperties, EmptySeq, ElementOfSeq DEF Stacks, Tokens
  <2>2. a # Nil /\ a \in gram.terms \cup {Nil} /\ gram.terms \subseteq Symbols(gram)
    BY <2>1 DEF Program, IsGrammar, Symbols
  <2>3. \A y \in Stacks : \A j \in Nat : Along(y, j) => y[h + j] \in StateIds /\ h + j >= 1
    BY <2>1, ElementOfSeq DEF Stacks
  <2> HIDE DEF h
  <2>4. 0 \in I
    <3> SUFFICES ASSUME NEW y \in Stacks, Along(y, m - 0) PROVE Accepts(y, rest[m - 0] \o v)
      OBVIOUS
    <3>1. m - 0 = m /\ rest[m] \o v = v
      BY <1>1, <1>3, ConcatEmptySeq DEF Tokens
    <3>2. Len(y) = h + m /\ (\A k \in 1..h : y[k] = z[k]) /\ <<y[h + m], <<r, m>>, a>> \in F
      BY <3>1
    <3>3. y[h + m] \in StateIds
      BY <1>1, <2>3, <3>1
    <3>4. Action(y[h + m], a) = r
      <4>1. \A y1 \in StateIds : <<y1, <<r, m>>, a>> \in F => Action(y1, a) = r
        <5> HIDE DEF a
        <5> QED BY <1>1, <2>2 DEF Directed
      <4> QED BY <3>2, <3>3, <4>1
    <3> DEFINE g == GotoOf(z[h], x)
               w == Push(z, h, g)
    <3>5. w = Push(y, h, g) /\ y[h] = z[h] /\ (h + m) - m = h
      BY <1>1, <2>1, <3>2, PushSame
    <3>6. g \in StateIds
      BY <1>1, <2>1, TablesFacts
    <3>7. w \in Stacks
      <4>1. h \in 0..Len(z)
        BY <2>1 DEF h
      <4> HIDE DEF g
      <4> QED BY <3>6, <4>1, PushFacts
    <3> HIDE DEF w, g
    <3>8. Leads(y, v, w, v)
      <4>1. w = Push(y, h, GotoOf(y[h], Lhs(gram, r)))
        BY <3>5 DEF g
      <4>2. Len(y) = h + m /\ (h + m) - Length(gram, r) = h /\ r # 0 /\ v # << >> /\ h >= 1
        BY <1>6, <2>1, <3>2, <3>5
      <4>3. Action(y[Len(y)], v[1]) = r
        BY <3>2, <3>4
      <4> HIDE DEF m
      <4> QED BY ONLY <4>1, <4>2, <4>3 DEF Leads
    <3>9. Accepts(w, v)
      BY <1>6 DEF w, g, h
    <3> QED BY <3>1, <3>7, <3>8, <3>9, AcceptsBefore
  <2>5. ASSUME NEW d \in Nat, d \in I PROVE d + 1 \in I
    <3> DEFINE j == m - (d + 1)
    <3> SUFFICES ASSUME d + 1 <= m, NEW y \in Stacks, Along(y, j) PROVE Accepts(y, rest[j] \o v)
      OBVIOUS
    <3>1. j \in Nat /\ j < m /\ m - d = j + 1 /\ j + 1 \in 1..m /\ (j + 1) - 1 = j /\ d <= m
      BY <1>1
    <3>2. \A p \in Stacks : Along(p, j + 1) => Accepts(p, rest[j + 1] \o v)
      BY <2>5, <3>1
    <3> HIDE DEF I, j
    <3> DEFINE c == Rhs(gram, r)[j + 1]
               s == y[h + j]
               u == rest[j + 1] \o v
               g == GotoOf(s, c)
               p == Push(y, h + j, g)
    <3>3. Len(y) = h + j /\ (\A k \in 1..h : y[k] = z[k]) /\ <<s, <<r, j>>, a>> \in F
      OBVIOUS
    <3>4. s \in StateIds /\ c \in Symbols(gram) /\ g \in StateIds
      <4>1. s \in StateIds
        BY <2>3, <3>1
      <4>2. c \in Symbols(gram)
        BY <1>1, <3>1
      <4> QED BY <4>1, <4>2, TablesFacts
    <3>5. /\ <<g, <<r, j + 1>>, a>> \in F
          /\ \A b \in gram.terms : Behind(B, r, j, a, b) => Expected(F, s, c, b)
      <4> HIDE DEF s
      <4> QED BY <2>2, <3>1, <3>3, <3>4 DEF Directed
    \* What is left behind the symbol begins with what may come behind it.
    <3>6. u \in Tokens /\ u # << >> /\ u[1] \in gram.terms /\ Behind(B, r, j, a, u[1])
      <4>1. CASE j + 1 = m
        <5>1. u = v
          BY <1>3, <4>1, ConcatEmptySeq DEF Tokens
        <5> QED BY <5>1, <4>1, <1>6, <2>1 DEF Behind
      <4>2. CASE j + 1 # m
        <5>1. j + 2 \in 1..m /\ (j + 2) - 1 = j + 1 /\ j + 2 \in 0..m
          BY <3>1, <1>1, <4>2
        <5>2. rest[j + 1] = ws[j + 2] \o rest[j + 2] /\ rest[j + 2] \in Tokens
          BY <1>3, <5>1
        <5>3. rest[j + 1] \in Tokens /\ rest[j + 1] # << >> /\ rest[j + 1][1] = ws[j + 2][1]
              /\ ws[j + 2][1] \in gram.terms /\ <<Rhs(gram, r)[j + 2], ws[j + 2][1]>> \in B
          BY <1>4, <5>1, <5>2
        <5>4. u \in Tokens /\ u # << >> /\ u[1] = rest[j + 1][1]
          <6>1. PICK e : e = rest[j + 1]
            OBVIOUS
          <6>2. e \in Seq(gram.terms) /\ e # << >> /\ v \in Seq(gram.terms)
            BY <5>3, <6>1 DEF Tokens
          <6>3. e \o v \in Seq(gram.terms) /\ e \o v # << >> /\ (e \o v)[1] = e[1]
            BY <6>2, HeadOf
          <6> QED BY <6>1, <6>3 DEF Tokens
        <5> QED BY <4>2, <5>3, <5>4 DEF Behind
      <4> QED BY <4>1, <4>2
    <3>7. Expected(F, s, c, u[1])
      BY <3>5, <3>6
    <3>8. p \in Stacks /\ Along(p, j + 1)
      <4>1. h + j \in 0..Len(y) /\ h + (j + 1) = (h + j) + 1
        <5>1. h \in Nat /\ j \in Nat
          BY <2>1, <3>1
        <5>2. \A b, e \in Nat : b + e \in 0..(b + e) /\ b + (e + 1) = (b + e) + 1
          OBVIOUS
        <5>3. Len(y) = h + j
          BY <3>3
        <5> QED BY ONLY <5>1, <5>2, <5>3
      <4>2. /\ p \in Stacks /\ Len(p) = (h + j) + 1 /\ p[(h + j) + 1] = g
            /\ \A k \in 1..(h + j) : p[k] = y[k]
        <5> HIDE DEF g
        <5>1. PICK e : e = p
          OBVIOUS
        <5>2. e = Push(y, h + j, g)
          BY ONLY <5>1 DEF p
        <5> HIDE DEF p
        <5>3. /\ e \in Stacks /\ Len(e) = (h + j) + 1 /\ e[(h + j) + 1] = g
              /\ \A k \in 1..(h + j) : e[k] = y[k]
          BY <5>2, <3>4, <4>1, PushFacts
        <5> QED BY ONLY <5>1, <5>3
      <4>3. \A k \in 1..h : p[k] = z[k]
        BY <2>1, <3>1, <3>3, <4>2
      <4> HIDE DEF p, g
      <4> QED BY <3>5, <4>1, <4>2, <4>3
    <3>9. Accepts(p, u)
      BY <3>2, <3>8
    <3>10. Accepts(y, ws[j + 1] \o u)
      <4>1. Reads(F, B, c, ws[j + 1])
        BY <1>1, <3>1
      <4>2. y[Len(y)] = s /\ Push(y, Len(y), GotoOf(s, c)) = p
        BY <3>3
      <4> HIDE DEF p, s, c, u
      <4> QED BY <3>6, <3>7, <3>9, <4>1, <4>2 DEF Reads
    <3>11. rest[j] \o v = ws[j + 1] \o u
      <4>1. rest[j] = ws[j + 1] \o rest[j + 1] /\ ws[j + 1] \in Tokens /\ rest[j + 1] \in Tokens
        <5>1. j + 1 \in 0..m
          BY <3>1
        <5> QED BY <1>2, <1>3, <3>1, <5>1
      <4>2. PICK b, c1 \in Tokens : b = ws[j + 1] /\ c1 = rest[j + 1]
        BY <4>1
      <4>3. (b \o c1) \o v = b \o (c1 \o v)
        BY JoinTokens
      <4> QED BY <4>1, <4>2, <4>3
    <3> QED BY <3>10, <3>11
  <2>6. Nat \subseteq I
    <3> HIDE DEF I
    <3> QED BY <2>4, <2>5, SetInduction
  <2>7. m \in I /\ m - m = 0
    <3> HIDE DEF I
    <3> QED BY <1>1, <2>6
  <2>8. Along(z, 0)
    <3>1. <<z[h], <<r, 0>>, a>> \in F
      BY <1>6 DEF Expected, h
    <3>2. h + 0 = h /\ Len(z) = h
      BY <2>1 DEF h
    <3> QED BY <3>1, <3>2
  <2>9. \A y \in Stacks : Along(y, 0) => Accepts(y, rest[0] \o v)
    BY <2>7
  <2> QED BY <2>8, <2>9
<1>7. rest[0] = FlattenSeq(ws)
  BY <1>3
<1> QED BY <1>5, <1>6, <1>7 DEF Reads

\* What a symbol derives is read where the symbol is expected.
LEMMA ReadsDerived ==
  ASSUME Program, EpsilonFree, NEW F, NEW B, Directed(F, B),
         NEW x, x # gram.start, NEW w, Derives(gram, x, w)
  PROVE  Reads(F, B, x, w) /\ w \in Tokens
<1> DEFINE D == {p \in Symbols(gram) \X Seq(gram.terms) : p[1] # gram.start => Reads(F, B, p[1], p[2])}
<1>1. ASSUME NEW t \in gram.terms PROVE <<t, <<t>>>> \in D
  <2>1. t \in Symbols(gram) /\ <<t>> \in Seq(gram.terms)
    BY OfOne DEF Symbols
  <2>2. Reads(F, B, t, <<t>>)
    BY ReadsToken DEF Directed
  <2> QED BY <2>1, <2>2
<1>2. ASSUME NEW r \in RuleIds(gram), NEW ws \in Seq(Seq(gram.terms)), Len(ws) = Length(gram, r),
             \A n \in 1..Len(ws) : <<Rhs(gram, r)[n], ws[n]>> \in D
      PROVE  <<Lhs(gram, r), FlattenSeq(ws)>> \in D
  <2>1. Lhs(gram, r) \in Symbols(gram) /\ FlattenSeq(ws) \in Seq(gram.terms)
    BY FlattenType, RuleFacts DEF Program
  <2>2. ASSUME Lhs(gram, r) # gram.start PROVE Reads(F, B, Lhs(gram, r), FlattenSeq(ws))
    <3>1. r # 0 /\ gram.start \notin gram.terms \cup gram.nonterms
      BY <2>2 DEF Program, IsGrammar
    <3>2. ASSUME NEW n \in 1..Len(ws) PROVE Reads(F, B, Rhs(gram, r)[n], ws[n])
      <4>1. Rhs(gram, r)[n] # gram.start
        BY <1>2, <3>1, RuleFacts DEF Program
      <4>2. <<Rhs(gram, r)[n], ws[n]>> \in D
        BY <1>2
      <4> QED BY <4>1, <4>2
    <3>3. ws \in Seq(Tokens)
      BY DEF Tokens
    <3> HIDE DEF D
    <3> QED BY <1>2, <3>1, <3>2, <3>3, ReadsRule
  <2> QED BY <2>1, <2>2
<1>3. D \in SUBSET (Symbols(gram) \X Seq(gram.terms))
  OBVIOUS
<1>4. ClosedUnderRules(gram, D)
  <2> HIDE DEF D
  <2> QED BY <1>1, <1>2 DEF ClosedUnderRules
<1>5. <<x, w>> \in D
  <2> HIDE DEF D
  <2> QED BY <1>3, <1>4 DEF Derives
<1> QED BY <1>5 DEF Tokens

\* From state 0 on what the grammar's first nonterminal derives is accepted with %eof behind it.
LEMMA AcceptsGoal ==
  ASSUME Program, EpsilonFree, NEW F, NEW B, Directed(F, B), NEW w, Derives(gram, Goal, w)
  PROVE  Accepts(<<0>>, w \o <<Eof>>)
<1> DEFINE z == <<0>>
           v == <<Eof>>
           g == GotoOf(0, Goal)
           y == Push(z, 1, g)
           h == GotoOf(g, Eof)
           f == Push(y, 2, h)
<1>1. PICK s \in gram.nonterms : Rhs(gram, 0) = <<s, Eof>>
  BY DEF Program, IsGrammar
<1>2. /\ Length(gram, 0) = 2 /\ Goal \in gram.nonterms /\ Goal # gram.start /\ Goal \in Symbols(gram)
      /\ Rhs(gram, 0)[1] = Goal /\ Rhs(gram, 0)[2] = Eof
      /\ Eof \in gram.terms /\ Eof \in Symbols(gram) /\ 0 \in RuleIds(gram)
  BY <1>1 DEF Program, IsGrammar, Length, Goal, Symbols
<1>3. 0 \in StateIds /\ g \in StateIds /\ h \in StateIds
  BY <1>2, TablesFacts
<1>4. Reads(F, B, Goal, w) /\ w \in Tokens
  BY <1>2, ReadsDerived
<1>5. v \in Tokens /\ v # << >> /\ v[1] = Eof /\ << >> \in Tokens /\ v = <<v[1]>> \o << >>
  <2>1. v \in Seq(gram.terms) /\ Len(v) = 1 /\ v[1] = Eof
    BY <1>2, OfOne
  <2>2. << >> \in Seq(gram.terms) /\ Len(<< >>) = 0
    BY EmptySeq
  <2>3. v = v \o << >>
    BY <2>1, ConcatEmptySeq
  <2>4. <<v[1]>> = v
    BY <2>1
  <2> HIDE DEF v
  <2>5. v # << >>
    BY <2>1, <2>2
  <2> QED BY <2>1, <2>2, <2>3, <2>4, <2>5 DEF Tokens
<1>6. z \in Stacks /\ Len(z) = 1 /\ z[1] = 0
  BY <1>3, OfOne DEF Stacks
<1> HIDE DEF z, v, g, h
<1>7. y \in Stacks /\ Len(y) = 2 /\ y[2] = g
  <2>1. 1 \in 0..Len(z) /\ 1 + 1 = 2
    BY <1>6
  <2>2. PICK n \in 0..Len(z) : n = 1
    BY <2>1
  <2>3. Push(z, n, g) \in Stacks /\ Len(Push(z, n, g)) = n + 1 /\ Push(z, n, g)[n + 1] = g
    <3>1. n \in 0..Len(z) /\ z \in Stacks /\ g \in StateIds
      BY <1>3, <1>6
    <3> QED BY ONLY <3>1, PushFacts
  <2>4. PICK e : e = Push(z, n, g) /\ e = y
    BY <2>2
  <2>5. e \in Stacks /\ Len(e) = n + 1 /\ e[n + 1] = g
    BY ONLY <2>3, <2>4
  <2> HIDE DEF y
  <2> QED BY ONLY <2>1, <2>2, <2>4, <2>5
<1> HIDE DEF y
<1>8. f \in Stacks /\ Len(f) = 3 /\ f[3] = h
  <2>1. 2 \in 0..Len(y) /\ 2 + 1 = 3
    BY <1>7
  <2>2. PICK n \in 0..Len(y) : n = 2
    BY <2>1
  <2>3. Push(y, n, h) \in Stacks /\ Len(Push(y, n, h)) = n + 1 /\ Push(y, n, h)[n + 1] = h
    <3>1. n \in 0..Len(y) /\ y \in Stacks /\ h \in StateIds
      BY <1>3, <1>7
    <3> QED BY ONLY <3>1, PushFacts
  <2>4. PICK e : e = Push(y, n, h) /\ e = f
    BY <2>2
  <2>5. e \in Stacks /\ Len(e) = n + 1 /\ e[n + 1] = h
    BY ONLY <2>3, <2>4
  <2> HIDE DEF f
  <2> QED BY ONLY <2>1, <2>2, <2>4, <2>5
<1> HIDE DEF f
<1>9. /\ <<0, <<0, 0>>, Nil>> \in F /\ Nil \in gram.terms \cup {Nil}
      /\ 0 < Length(gram, 0) /\ 1 < Length(gram, 0) /\ 0 + 1 = 1 /\ 1 + 1 = 2 /\ 0 + 2 = 2
  BY <1>2 DEF Directed
<1>10. /\ <<g, <<0, 1>>, Nil>> \in F
       /\ \A b \in gram.terms : Behind(B, 0, 0, Nil, b) => Expected(F, 0, Goal, b)
  <2>1. /\ <<GotoOf(0, Rhs(gram, 0)[0 + 1]), <<0, 0 + 1>>, Nil>> \in F
        /\ \A b \in gram.terms : Behind(B, 0, 0, Nil, b) => Expected(F, 0, Rhs(gram, 0)[0 + 1], b)
    BY <1>2, <1>3, <1>9 DEF Directed
  <2> QED BY <2>1, <1>2, <1>9 DEF g
<1>11. <<h, <<0, 2>>, Nil>> \in F /\ Action(g, Eof) = 0
  <2>1. /\ <<GotoOf(g, Rhs(gram, 0)[1 + 1]), <<0, 1 + 1>>, Nil>> \in F
        /\ Rhs(gram, 0)[1 + 1] \in gram.terms => Action(g, Rhs(gram, 0)[1 + 1]) = 0
    BY <1>2, <1>3, <1>9, <1>10 DEF Directed
  <2> QED BY <2>1, <1>2, <1>9 DEF h
<1>12. h = 1
  BY <1>2, <1>3, <1>9, <1>11 DEF Directed
<1>13. Expected(F, 0, Goal, Eof)
  <2>1. Behind(B, 0, 0, Nil, Eof)
    <3>1. <<Eof, Eof>> \in B
      BY <1>2 DEF Directed, Heads
    <3> QED BY <3>1, <1>2, <1>9 DEF Behind
  <2> QED BY <2>1, <1>2, <1>10
<1>14. Accepts(f, << >>)
  BY <1>8, <1>12, AcceptsFinal
<1>15. Leads(y, v, f, << >>)
  <2>1. y[Len(y)] = g /\ Len(y) = 2
    BY <1>7
  <2> QED BY <2>1, <1>5, <1>11 DEF Leads, f, h
<1>16. Accepts(y, v)
  BY <1>5, <1>7, <1>8, <1>14, <1>15, AcceptsBefore
<1>17. Accepts(z, w \o v)
  <2>1. Len(z) = 1 /\ z[Len(z)] = 0 /\ Push(z, Len(z), GotoOf(z[Len(z)], Goal)) = y
    BY <1>6 DEF y, g
  <2> QED BY <2>1, <1>4, <1>5, <1>6, <1>13, <1>16 DEF Reads
<1> QED BY <1>17 DEF z, v

-----------------------------------------------------------------------------
(* The parser goes the way that its configuration leads.                   *)

\* The states on the stack, and the tokens of the call and u.
StackNow == [k \in 1..(sp + 1) |-> StateAt(k - 1)]
Left(u)  == IF pc = "parsing" THEN <<token>> \o u ELSE u

\* What completes the tokens so far to one of W is accepted.
Ready(W) == \A u \in Tokens : fed \o u \in W => Accepts(StackNow, Left(u))

LEMMA StackFacts ==
  ASSUME ValuesInv
  PROVE  /\ StackNow \in Stacks /\ Len(StackNow) = sp + 1 /\ sp \in Nat
         /\ \A k \in 1..(sp + 1) : StackNow[k] = StateAt(k - 1)
         /\ StackNow[Len(StackNow)] = state
<1>1. sp \in Nat /\ state \in StateIds /\ \A n \in Nat : Record(n).state \in StateIds
  BY DEF ValuesInv, TypeOK
<1>2. \A k \in 1..(sp + 1) : StateAt(k - 1) \in StateIds
  BY <1>1 DEF StateAt
<1> DEFINE y == StackNow
<1>3. y \in [1..(sp + 1) -> StateIds] /\ \A k \in 1..(sp + 1) : y[k] = StateAt(k - 1)
  BY <1>2 DEF StackNow
<1> HIDE DEF y
<1>4. y \in Seq(StateIds) /\ Len(y) = sp + 1
  <2>1. sp + 1 \in Nat
    BY <1>1
  <2>2. y \in Seq(StateIds)
    BY <1>3, <2>1, SeqDef
  <2>3. Len(y) \in Nat /\ DOMAIN y = 1..Len(y) /\ DOMAIN y = 1..(sp + 1)
    BY <1>3, <2>2, LenProperties
  <2> QED BY <2>1, <2>2, <2>3
<1>5. y # << >>
  BY <1>1, <1>4, EmptySeq
<1>6. y[sp + 1] = state
  BY <1>1, <1>3 DEF StateAt
<1> QED BY <1>1, <1>3, <1>4, <1>5, <1>6 DEF y, Stacks

\* What is accepted does not change with the parser's state.
LEMMA SameAccepts ==
  ASSUME UNCHANGED program, NEW z, NEW u
  PROVE  Accepts(z, u)' <=> Accepts(z, u)
BY DEF program, Accepts, BackClosed, Final, Leads, Push, Stacks, StateIds, Tokens, Action, GotoOf, SymId

\* It suffices to look at what the step leaves of the configuration.
LEMMA ReadyNext ==
  ASSUME UNCHANGED program, NEW W,
         \A u \in Tokens : \A z, y :
           fed' \o u \in W /\ z = StackNow' /\ y = Left(u)' => Accepts(z, y)
  PROVE  Ready(W)'
<1>1. Tokens' = Tokens
  BY DEF Tokens, program
<1> SUFFICES ASSUME NEW u \in Tokens, fed' \o u \in W PROVE Accepts(StackNow, Left(u))'
  BY <1>1 DEF Ready
<1>2. PICK z : z = StackNow'
  OBVIOUS
<1>3. PICK y : y = Left(u)'
  OBVIOUS
<1>4. Accepts(z, y)
  BY <1>2, <1>3
<1>5. Accepts(z, y)'
  BY <1>4, SameAccepts
<1> QED BY <1>2, <1>3, <1>5 DEF Accepts

\* A call turns the first token to come into the token of the call.
LEMMA CallReady ==
  ASSUME NEW W, ValuesInv, Call, Ready(W)
  PROVE  Ready(W)'
<1>1. PICK t \in gram.terms : token' = t /\ fed' = Append(fed, t)
  BY DEF Call
<1>2. /\ pc = "idle" /\ pc' = "parsing" /\ UNCHANGED program
      /\ UNCHANGED <<state, records, sp>> /\ fed \in Seq(gram.terms)
  BY DEF Call, ValuesInv, TypeOK, Tokens
<1>3. StackNow' = StackNow
  BY <1>2 DEF StackNow, StateAt, Record
<1>4. ASSUME NEW u \in Tokens, NEW z, NEW y, fed' \o u \in W, z = StackNow', y = Left(u)'
      PROVE  Accepts(z, y)
  <2> DEFINE v == <<t>> \o u
  <2>1. y = v
    BY <1>1, <1>2, <1>4 DEF Left
  <2>2. <<t>> \in Seq(gram.terms) /\ u \in Seq(gram.terms)
    BY OfOne DEF Tokens
  <2>3. v \in Tokens
    BY <2>2, ConcatProperties DEF Tokens
  <2>4. fed \o v = fed' \o u
    <3>1. fed' = fed \o <<t>>
      BY <1>1, <1>2, AppendIsConcat
    <3> QED BY <3>1, <2>2, <1>2, JoinAssociates
  <2> HIDE DEF v
  <2>5. Accepts(StackNow, Left(v))
    BY <1>4, <2>3, <2>4 DEF Ready
  <2>6. Left(v) = y /\ StackNow = z
    BY <1>2, <1>3, <1>4, <2>1 DEF Left
  <2> QED BY <2>5, <2>6
<1> QED BY <1>2, <1>4, ReadyNext

\* What is accepted with tokens to come leads on.
LEMMA LeadsOn ==
  ASSUME ValuesInv, pc = "parsing", NEW u \in Tokens, Accepts(StackNow, Left(u))
  PROVE  \E y \in Stacks : \E v \in Tokens :
           /\ Left(u) = <<token>> \o u /\ Left(u)[1] = token
           /\ Leads(StackNow, Left(u), y, v) /\ Accepts(y, v)
<1>1. token \in gram.terms /\ Left(u) = <<token>> \o u
  BY DEF ValuesInv, TypeOK, Left
<1>2. <<token>> \in Seq(gram.terms) /\ <<token>> # << >> /\ <<token>>[1] = token /\ u \in Seq(gram.terms)
  BY <1>1, OfOne DEF Tokens
<1>3. Left(u) \in Tokens /\ Left(u) # << >> /\ Left(u)[1] = token
  BY <1>1, <1>2, HeadOf DEF Tokens
<1>4. StackNow \in Stacks /\ ~ Final(StackNow, Left(u))
  BY <1>3, StackFacts DEF Final
<1> QED BY <1>1, <1>3, <1>4, AcceptsAfter

\* A reduction changes the stack as the configuration does.
LEMMA ReduceReady ==
  ASSUME NEW W, ValuesInv, EpsilonFree, Reduce, Ready(W)
  PROVE  Ready(W)'
<1>1. Program /\ TypeOK /\ UNCHANGED program /\ token' = token /\ fed' = fed
  BY DEF Reduce, ValuesInv
<1> DEFINE r == Action(state, token)
           count == Length(gram, r)
           base == sp - count
<1>2. /\ r \in RuleIds(gram) /\ r # 0
      /\ count \in Nat /\ count <= sp /\ base \in Nat
      /\ records' = Popped(count)
      /\ sp' = base + 1
      /\ state' = GotoOf(Record(base).state, Lhs(gram, r))
      /\ pc' = "parsing" /\ pc = "parsing"
  BY <1>1, ReduceFacts
<1>3. count > 0
  BY <1>2 DEF EpsilonFree
<1>4. \A n \in Nat : Record(n)' = IF n \in {base, sp}
                                  THEN [Record(n) EXCEPT !.item = Made(count)] ELSE Record(n)
  BY <1>1, <1>2, ReduceRecords
<1> HIDE DEF count, base
<1>5. PICK b \in Nat : b = base
  BY <1>2
<1>6. b < sp /\ sp \in Nat /\ (sp + 1) - count = b + 1
  BY <1>1, <1>2, <1>3, <1>5 DEF TypeOK, base
<1>7. ASSUME NEW k \in 0..b PROVE StateAt(k)' = StateAt(k) /\ StateAt(k) = Record(k).state
  <2>1. k \in Nat /\ k # sp /\ k # sp'
    BY <1>2, <1>5, <1>6
  <2>2. Record(k) \in [state : StateIds, item : Tokens]
    BY <2>1, <1>1 DEF TypeOK
  <2>3. [Record(k) EXCEPT !.item = Made(count)].state = Record(k).state
    BY <2>2
  <2>4. Record(k)'.state = Record(k).state
    BY <2>1, <2>3, <1>4, <1>5
  <2> QED BY <2>1, <2>4 DEF StateAt
<1> DEFINE g == GotoOf(StateAt(b), Lhs(gram, r))
<1>8. StateAt(b + 1)' = g
  <2>1. StateAt(b + 1)' = state'
    BY <1>2, <1>5 DEF StateAt
  <2>2. b \in 0..b
    OBVIOUS
  <2> QED BY <2>1, <2>2, <1>2, <1>5, <1>7
<1> HIDE DEF g
<1>9. /\ Len(StackNow) = sp + 1 /\ StackNow[Len(StackNow)] = state
      /\ \A k \in 1..(sp + 1) : StackNow[k] = StateAt(k - 1)
  BY StackFacts
<1>10. StackNow' = Push(StackNow, b + 1, g)
  <2>1. StackNow' = [k \in 1..((b + 1) + 1) |-> StateAt(k - 1)']
    BY <1>2, <1>5 DEF StackNow
  <2>2. ASSUME NEW k \in 1..((b + 1) + 1)
        PROVE  StateAt(k - 1)' = IF k <= b + 1 THEN StackNow[k] ELSE g
    <3>1. CASE k <= b + 1
      <4>1. k - 1 \in 0..b /\ k \in 1..(sp + 1)
        BY <3>1, <1>6
      <4> QED BY <4>1, <3>1, <1>7, <1>9
    <3>2. CASE ~ k <= b + 1
      <4>1. k - 1 = b + 1
        BY <3>2
      <4> QED BY <4>1, <3>2, <1>8
    <3> QED BY <3>1, <3>2
  <2> QED BY <2>1, <2>2 DEF Push
<1>11. ASSUME NEW u \in Tokens, NEW z, NEW y, fed' \o u \in W, z = StackNow', y = Left(u)'
       PROVE  Accepts(z, y)
  <2>1. Accepts(StackNow, Left(u))
    BY <1>1, <1>11 DEF Ready
  <2>2. PICK p \in Stacks, v \in Tokens :
          /\ Left(u) = <<token>> \o u /\ Left(u)[1] = token
          /\ Leads(StackNow, Left(u), p, v) /\ Accepts(p, v)
    BY <2>1, <1>2, LeadsOn
  <2>3. y = Left(u)
    BY <1>1, <1>2, <1>11 DEF Left
  <2>4. v = Left(u) /\ p = Push(StackNow, b + 1, GotoOf(StackNow[b + 1], Lhs(gram, r)))
    <3>1. Action(StackNow[Len(StackNow)], Left(u)[1]) = r
      BY <1>9, <2>2
    <3>2. Len(StackNow) - Length(gram, r) = b + 1
      BY <1>6, <1>9 DEF count
    <3> HIDE DEF r
    <3> QED BY <3>1, <3>2, <2>2, <1>2 DEF Leads
  <2>5. StackNow[b + 1] = StateAt(b)
    <3>1. b + 1 \in 1..(sp + 1) /\ (b + 1) - 1 = b
      BY <1>6
    <3> QED BY <3>1, <1>9
  <2>6. p = z
    BY <2>4, <2>5, <1>10, <1>11 DEF g
  <2> QED BY <2>2, <2>3, <2>4, <2>6
<1> QED BY <1>1, <1>11, ReadyNext

\* A shift uses up the token of the call.
LEMMA ShiftReady ==
  ASSUME NEW W, ValuesInv, Shift, Ready(W)
  PROVE  Ready(W)'
<1>1. /\ Program /\ TypeOK /\ UNCHANGED program /\ token' = token /\ fed' = fed
      /\ pc = "parsing" /\ pc' = "idle" /\ Action(state, token) = 0
      /\ sp' = sp + 1 /\ state' = GotoOf(state, token)
  BY DEF Shift, ValuesInv
<1>2. \A n \in Nat : Record(n)' = IF n = sp THEN [state |-> state, item |-> <<token>>] ELSE Record(n)
  BY ShiftRecords
<1>3. PICK b \in Nat : b = sp /\ token \in gram.terms
  BY <1>1 DEF TypeOK
<1>4. ASSUME NEW k \in 0..sp PROVE StateAt(k)' = StateAt(k)
  <2>1. k \in Nat /\ k # sp'
    BY <1>1, <1>3
  <2>2. StateAt(k)' = Record(k)'.state
    BY <2>1 DEF StateAt
  <2> QED BY <2>1, <2>2, <1>2 DEF StateAt
<1> DEFINE g == GotoOf(state, token)
<1>5. StateAt(b + 1)' = g
  BY <1>1, <1>3 DEF StateAt
<1> HIDE DEF g
<1>6. /\ Len(StackNow) = sp + 1 /\ StackNow[Len(StackNow)] = state
      /\ \A k \in 1..(sp + 1) : StackNow[k] = StateAt(k - 1)
  BY StackFacts
<1>7. StackNow' = Push(StackNow, sp + 1, g)
  <2>1. StackNow' = [k \in 1..((sp + 1) + 1) |-> StateAt(k - 1)']
    BY <1>1 DEF StackNow
  <2>2. ASSUME NEW k \in 1..((sp + 1) + 1)
        PROVE  StateAt(k - 1)' = IF k <= sp + 1 THEN StackNow[k] ELSE g
    <3>1. CASE k <= sp + 1
      <4>1. k - 1 \in 0..sp /\ k \in 1..(sp + 1)
        BY <3>1, <1>3
      <4> QED BY <4>1, <3>1, <1>4, <1>6
    <3>2. CASE ~ k <= sp + 1
      <4>1. k - 1 = b + 1
        BY <3>2, <1>3
      <4> QED BY <4>1, <3>2, <1>5
    <3> QED BY <3>1, <3>2
  <2> QED BY <2>1, <2>2 DEF Push
<1>8. ASSUME NEW u \in Tokens, NEW z, NEW y, fed' \o u \in W, z = StackNow', y = Left(u)'
      PROVE  Accepts(z, y)
  <2>1. Accepts(StackNow, Left(u))
    BY <1>1, <1>8 DEF Ready
  <2>2. PICK p \in Stacks, v \in Tokens :
          /\ Left(u) = <<token>> \o u /\ Left(u)[1] = token
          /\ Leads(StackNow, Left(u), p, v) /\ Accepts(p, v)
    BY <2>1, <1>1, LeadsOn
  <2>3. y = u
    BY <1>1, <1>8 DEF Left
  <2>4. Left(u) = <<token>> \o v /\ p = z
    <3>1. Action(StackNow[Len(StackNow)], Left(u)[1]) = 0
      BY <1>1, <1>6, <2>2
    <3>2. /\ Left(u) = <<Left(u)[1]>> \o v
          /\ p = Push(StackNow, Len(StackNow), GotoOf(StackNow[Len(StackNow)], Left(u)[1]))
      BY <3>1, <2>2 DEF Leads
    <3> QED BY <3>2, <1>6, <1>7, <1>8, <2>2 DEF g
  <2>5. u = v
    <3>1. <<token>> \o u = <<token>> \o v /\ u \in Seq(gram.terms) /\ v \in Seq(gram.terms)
      BY <2>2, <2>4 DEF Tokens
    <3> QED BY <3>1, <1>3, SameBehind
  <2> QED BY <2>2, <2>3, <2>4, <2>5
<1> QED BY <1>1, <1>8, ReadyNext

\* In the beginning everything that the grammar's first nonterminal derives is accepted.
LEMMA BeginReady ==
  ASSUME Begin, Program, EpsilonFree, NEW F, NEW B, Directed(F, B), NEW W,
         \A w \in W : \E v : w = v \o <<Eof>> /\ Derives(gram, Goal, v)
  PROVE  Ready(W)
<1>1. ValuesInv /\ pc = "idle" /\ fed = << >> /\ sp = 0 /\ state = 0
  BY BeginValues DEF Begin
<1>2. StackNow = <<0>>
  <2>1. StackNow \in Stacks /\ Len(StackNow) = 1 /\ StackNow[1] = 0
    <3>1. 0 + 1 = 1
      OBVIOUS
    <3> QED BY <1>1, <3>1, StackFacts
  <2>2. StackNow \in Seq(StateIds) /\ 0 \in StateIds
    <3>1. 1 \in 1..Len(StackNow)
      BY <2>1
    <3> QED BY <2>1, <3>1, ElementOfSeq DEF Stacks
  <2>3. <<0>> \in Seq(StateIds) /\ Len(<<0>>) = 1 /\ <<0>>[1] = 0
    BY <2>2, OfOne
  <2> DEFINE y == StackNow
             z == <<0>>
  <2>4. Len(y) = Len(z) /\ \A k \in 1..Len(y) : y[k] = z[k]
    BY <2>1, <2>3
  <2> HIDE DEF y, z
  <2>5. y \in Seq(StateIds) /\ z \in Seq(StateIds)
    BY <2>2, <2>3 DEF y, z
  <2>6. y = z
    BY <2>4, <2>5, SeqEqual
  <2> QED BY <2>6 DEF y, z
<1>3. ASSUME NEW u \in Tokens, fed \o u \in W PROVE Accepts(StackNow, Left(u))
  <2>1. fed \o u = u /\ Left(u) = u
    BY <1>1, ConcatEmptySeq DEF Tokens, Left
  <2>2. PICK v : u = v \o <<Eof>> /\ Derives(gram, Goal, v)
    BY <1>3, <2>1
  <2>3. Accepts(<<0>>, v \o <<Eof>>)
    BY <2>2, AcceptsGoal
  <2> QED BY <1>2, <2>1, <2>2, <2>3
<1> QED BY <1>3 DEF Ready

\* Where nothing is to come, the parser has accepted.
LEMMA ReadyReturns ==
  ASSUME ValuesInv, pc = "idle", NEW W, Ready(W), fed \in W
  PROVE  state = 1
<1>1. fed \in Tokens /\ << >> \in Tokens /\ fed \o << >> = fed /\ Left(<< >>) = << >>
  <2>1. fed \in Seq(gram.terms)
    BY DEF ValuesInv, TypeOK, Tokens
  <2> QED BY <2>1, ConcatEmptySeq, EmptySeq DEF Tokens, Left
<1>2. Accepts(StackNow, << >>)
  BY <1>1 DEF Ready
<1>3. StackNow \in Stacks /\ StackNow[Len(StackNow)] = state
  BY StackFacts
<1>4. Final(StackNow, << >>)
  <2> SUFFICES ASSUME ~ Final(StackNow, << >>) PROVE FALSE
    OBVIOUS
  <2>1. \E y \in Stacks : \E v \in Tokens : Leads(StackNow, << >>, y, v) /\ Accepts(y, v)
    BY <1>1, <1>2, <1>3, AcceptsAfter
  <2> QED BY <2>1 DEF Leads
<1> QED BY <1>3, <1>4 DEF Final

\* A step that leaves parser and program as they are.
LEMMA RestReady ==
  ASSUME NEW W, UNCHANGED vars, Ready(W)
  PROVE  Ready(W)'
<1>1. UNCHANGED program /\ UNCHANGED parservars
  BY DEF vars
<1>2. fed' = fed /\ StackNow' = StackNow /\ \A u : Left(u)' = Left(u)
  BY <1>1 DEF parservars, StackNow, StateAt, Record, Left
<1>3. ASSUME NEW u \in Tokens, NEW z, NEW y, fed' \o u \in W, z = StackNow', y = Left(u)'
      PROVE  Accepts(z, y)
  <2>1. Accepts(StackNow, Left(u))
    BY <1>2, <1>3 DEF Ready
  <2> QED BY <2>1, <1>2, <1>3
<1> QED BY <1>1, <1>3, ReadyNext

-----------------------------------------------------------------------------
(* The sentences of a grammar, as System determines them.                  *)

\* The strings of at most n of the values T.
Words(T, n) == UNION {[1..k -> T] : k \in 0..n}

LEMMA WordsFacts ==
  ASSUME NEW T, IsFiniteSet(T), NEW n \in Nat
  PROVE  /\ IsFiniteSet(Words(T, n)) /\ Words(T, n) \subseteq Seq(T)
         /\ \A w \in Seq(T) : Len(w) <= n => w \in Words(T, n)
<1> DEFINE P(k) == [1..k -> T]
           Z == {P(k) : k \in 0..n}
<1>1. IsFiniteSet(0..n)
  BY FS_Interval
<1>2. [k \in 0..n |-> P(k)] \in Surjection(0..n, Z)
  <2> HIDE DEF P
  <2> QED BY DEF Surjection
<1>3. IsFiniteSet(Z)
  <2> HIDE DEF Z, P
  <2> QED BY <1>1, <1>2, FS_Surjection
<1>4. \A x \in Z : IsFiniteSet(x)
  BY FunctionsFinite
<1>5. IsFiniteSet(UNION Z)
  <2> HIDE DEF Z
  <2> QED BY <1>3, <1>4, FS_UNION
<1>6. \A k \in 0..n : P(k) \subseteq Seq(T)
  BY SeqDef
<1>7. ASSUME NEW w \in Seq(T), Len(w) <= n PROVE w \in UNION Z
  <2>1. w \in P(Len(w)) /\ Len(w) \in 0..n
    BY <1>7, LenProperties
  <2> HIDE DEF P
  <2> QED BY <2>1
<1> HIDE DEF P
<1>8. UNION Z \subseteq Seq(T)
  BY <1>6
<1> QED BY <1>5, <1>7, <1>8 DEF Words, P

\* What the symbols of rhs derive by the pairs in P, joined: f[m] for the first m of them.
IsJoined(f, P, rhs, n) ==
  f = [m \in 0..Len(rhs) |->
         IF m = 0 THEN {<< >>}
         ELSE {w \in {u \o v : u \in f[m - 1], v \in {p[2] : p \in {y \in P : y[1] = rhs[m]}}} :
                 Len(w) <= n}]

\* M has the strings of L, each with one behind it that x derives.
Prolonged(L, M, P, x, n) ==
  \A w : w \in M <=> Len(w) <= n /\ \E u \in L : \E v : <<x, v>> \in P /\ w = u \o v

\* The strings of L, each with one of V behind it.
Longer(L, V, n) == {w \in {u \o v : u \in L, v \in V} : Len(w) <= n}

LEMMA ProlongedBy ==
  ASSUME NEW L, NEW V, NEW P, NEW x, NEW n, \A v : v \in V <=> <<x, v>> \in P
  PROVE  Prolonged(L, Longer(L, V, n), P, x, n)
<1> DEFINE M == {w \in {u \o v : u \in L, v \in V} : Len(w) <= n}
           Has(w) == \E u \in L : \E v : <<x, v>> \in P /\ w = u \o v
           Short(w) == Len(w) <= n
<1>1. ASSUME NEW u \in L, NEW v, <<x, v>> \in P PROVE Has(u \o v)
  BY <1>1
<1>2. ASSUME NEW w \in M PROVE Short(w) /\ Has(w)
  <2>1. Short(w) /\ w \in {u \o v : u \in L, v \in V}
    OBVIOUS
  <2>2. PICK u \in L, v \in V : w = u \o v
    BY <2>1
  <2>3. <<x, v>> \in P
    OBVIOUS
  <2> HIDE DEF Has, Short, M
  <2>4. Has(u \o v)
    BY <1>1, <2>3
  <2> QED BY <2>1, <2>2, <2>4
<1>3. ASSUME NEW w, Short(w), Has(w) PROVE w \in M
  <2>1. PICK u \in L : \E v : <<x, v>> \in P /\ w = u \o v
    BY <1>3
  <2>2. PICK v : <<x, v>> \in P /\ w = u \o v
    BY <2>1
  <2>3. v \in V
    BY <2>2
  <2> HIDE DEF Has
  <2> QED BY <1>3, <2>2, <2>3
<1> HIDE DEF M, Has, Short
<1>4. \A w : w \in M <=> Short(w) /\ Has(w)
  BY <1>2, <1>3
<1>5. Prolonged(L, M, P, x, n)
  BY <1>4 DEF Prolonged, Has, Short
<1> QED BY <1>5 DEF M, Longer

\* Each symbol prolongs the strings so far.
LEMMA JoinedSteps ==
  ASSUME NEW X, NEW Y, NEW P \in SUBSET (X \X Y), NEW rhs, Len(rhs) \in Nat, NEW n,
         NEW f, IsJoined(f, P, rhs, n)
  PROVE  f[0] = {<< >>} /\ \A m \in 1..Len(rhs) : Prolonged(f[m - 1], f[m], P, rhs[m], n)
<1> DEFINE Of(x) == {p[2] : p \in {y \in P : y[1] = x}}
           Next1(L, x) == Longer(L, Of(x), n)
<1>1. \A x, v : v \in Of(x) <=> <<x, v>> \in P
  OBVIOUS
<1>2. f = [m \in 0..Len(rhs) |-> IF m = 0 THEN {<< >>} ELSE Next1(f[m - 1], rhs[m])]
  BY DEF IsJoined, Longer
<1> HIDE DEF Of
<1>3. ASSUME NEW L, NEW x PROVE Prolonged(L, Next1(L, x), P, x, n)
  <2> DEFINE V == Of(x)
  <2>1. \A v : v \in V <=> <<x, v>> \in P
    BY <1>1
  <2>2. Next1(L, x) = Longer(L, V, n)
    OBVIOUS
  <2> HIDE DEF V, Next1
  <2>3. Prolonged(L, Longer(L, V, n), P, x, n)
    BY ONLY <2>1, ProlongedBy
  <2> QED BY <2>2, <2>3
<1> HIDE DEF Next1
<1>4. f[0] = {<< >>} /\ \A m \in 1..Len(rhs) : f[m] = Next1(f[m - 1], rhs[m])
  <2>1. 0 \in 0..Len(rhs) /\ \A m \in 1..Len(rhs) : m \in 0..Len(rhs) /\ m # 0
    OBVIOUS
  <2> QED BY <2>1, <1>2
<1> QED BY <1>3, <1>4

\* Strings can be joined from the left to the right ...
LEMMA JoinedExists ==
  ASSUME NEW X, NEW T, NEW P \in SUBSET (X \X Seq(T)), NEW rhs, Len(rhs) \in Nat, NEW n
  PROVE  \E f : IsJoined(f, P, rhs, n)
<1> DEFINE N == Len(rhs)
           S == SUBSET Seq(T)
           Of(x) == {p[2] : p \in {y \in P : y[1] = x}}
           Put(m, L) == {w \in {u \o v : u \in L, v \in Of(rhs[m])} : Len(w) <= n}
           F == [m \in 1..N |-> [L \in S |-> Put(m, L)]]
           b == {<< >>}
<1>1. \A x : Of(x) \in S
  OBVIOUS
<1>2. ASSUME NEW m \in 1..N, NEW L \in S PROVE Put(m, L) \in S
  <2>1. \A u \in L : \A v \in Of(rhs[m]) : u \o v \in Seq(T)
    BY <1>1, ConcatProperties
  <2> HIDE DEF Of
  <2>2. ASSUME NEW w \in Put(m, L) PROVE w \in Seq(T)
    <3>1. PICK u \in L, v \in Of(rhs[m]) : w = u \o v
      OBVIOUS
    <3> QED BY <3>1, <2>1
  <2> HIDE DEF Put
  <2> QED BY <2>2
<1>3. F \in [1..N -> [S -> S]] /\ \A m \in 1..N : \A L \in S : F[m][L] = Put(m, L)
  <2> HIDE DEF S, Put, N
  <2> QED BY <1>2
<1>4. b \in S
  BY EmptySeq
<1> HIDE DEF S, F, b
<1>5. PICK h : IsRun(h, S, b, N, F)
  <2>1. N \in Nat
    OBVIOUS
  <2> HIDE DEF N
  <2> QED BY <1>3, <1>4, <2>1, StepsExist
<1>6. /\ h = [m \in 0..N |-> h[m]] /\ h[0] = b
      /\ \A m \in 1..N : h[m] = F[m][h[m - 1]] /\ h[m - 1] \in S
  <2>1. h \in [0..N -> S] /\ h[0] = b /\ \A m \in 1..N : h[m] = F[m][h[m - 1]]
    BY <1>5 DEF IsRun
  <2>2. \A m \in 1..N : m - 1 \in 0..N
    OBVIOUS
  <2> QED BY <2>1, <2>2
<1> HIDE DEF Put
<1>7. \A m \in 1..N : h[m] = Put(m, h[m - 1])
  BY <1>3, <1>6
<1>8. h = [m \in 0..N |-> IF m = 0 THEN b ELSE Put(m, h[m - 1])]
  <2>1. \A m \in 0..N : h[m] = IF m = 0 THEN b ELSE Put(m, h[m - 1])
    BY <1>6, <1>7
  <2> HIDE DEF N
  <2> QED BY <2>1, <1>6
<1>9. h = [m \in 0..Len(rhs) |->
         IF m = 0 THEN {<< >>}
         ELSE {w \in {u \o v : u \in h[m - 1], v \in {p[2] : p \in {y \in P : y[1] = rhs[m]}}} :
                 Len(w) <= n}]
  BY <1>8 DEF b, Put, N, Of
<1>10. IsJoined(h, P, rhs, n)
  BY ONLY <1>9 DEF IsJoined
<1> QED BY <1>10

\* ... more pairs give no fewer strings ...
LEMMA JoinedGrows ==
  ASSUME NEW X, NEW Y, NEW Q \in SUBSET (X \X Y), NEW P \in SUBSET Q, NEW rhs, Len(rhs) \in Nat, NEW n,
         NEW f, IsJoined(f, P, rhs, n), NEW h, IsJoined(h, Q, rhs, n)
  PROVE  f[Len(rhs)] \subseteq h[Len(rhs)]
<1> DEFINE I == {m \in Nat : m <= Len(rhs) => f[m] \subseteq h[m]}
<1>0. P \in SUBSET (X \X Y)
  OBVIOUS
<1>1. f[0] = {<< >>} /\ \A m \in 1..Len(rhs) : Prolonged(f[m - 1], f[m], P, rhs[m], n)
  BY <1>0, JoinedSteps
<1>2. h[0] = {<< >>} /\ \A m \in 1..Len(rhs) : Prolonged(h[m - 1], h[m], Q, rhs[m], n)
  BY JoinedSteps
<1>3. 0 \in I
  BY <1>1, <1>2
<1>4. ASSUME NEW m \in Nat, m \in I PROVE m + 1 \in I
  <2> SUFFICES ASSUME m + 1 <= Len(rhs), NEW w \in f[m + 1] PROVE w \in h[m + 1]
    OBVIOUS
  <2>1. m + 1 \in 1..Len(rhs) /\ (m + 1) - 1 = m /\ f[m] \subseteq h[m]
    BY <1>4
  <2> HIDE DEF I
  <2>2. Prolonged(f[m], f[m + 1], P, rhs[m + 1], n) /\ Prolonged(h[m], h[m + 1], Q, rhs[m + 1], n)
    BY <2>1, <1>1, <1>2
  <2>3. Len(w) <= n /\ \E u \in f[m] : \E v : <<rhs[m + 1], v>> \in P /\ w = u \o v
    BY <2>2 DEF Prolonged
  <2>4. Len(w) <= n /\ \E u \in h[m] : \E v : <<rhs[m + 1], v>> \in Q /\ w = u \o v
    BY <2>1, <2>3
  <2> QED BY ONLY <2>2, <2>4 DEF Prolonged
<1>5. Len(rhs) \in I
  <2> HIDE DEF I
  <2> QED BY <1>3, <1>4, SetInduction
<1> QED BY <1>5

\* ... and all of them that are short enough, if the parts are.
LEMMA JoinedHas ==
  ASSUME NEW X, NEW T, NEW P \in SUBSET (X \X Seq(T)), NEW rhs, Len(rhs) \in Nat, NEW n \in Nat,
         NEW f, IsJoined(f, P, rhs, n), NEW ws \in Seq(Seq(T)), Len(ws) = Len(rhs),
         \A k \in 1..Len(ws) : Len(ws[k]) <= n => <<rhs[k], ws[k]>> \in P,
         Len(FlattenSeq(ws)) <= n
  PROVE  FlattenSeq(ws) \in f[Len(rhs)]
<1>1. f[0] = {<< >>} /\ \A m \in 1..Len(rhs) : Prolonged(f[m - 1], f[m], P, rhs[m], n)
  BY JoinedSteps
<1>2. CASE Len(rhs) = 0
  <2>1. ws = << >>
    BY <1>2, EmptySeq
  <2> QED BY <2>1, <1>1, <1>2, FlattenEmpty
<1>3. CASE Len(rhs) # 0
  <2>1. FlattenSeq(ws) = Flattened(ws)[Len(ws)]
    BY <1>3 DEF FlattenSeq, Flattened
  <2>2. /\ Flattened(ws)[1] = ws[1]
        /\ \A m \in 2..Len(ws) : Flattened(ws)[m] = Flattened(ws)[m - 1] \o ws[m]
        /\ \A m \in 1..Len(ws) : Flattened(ws)[m] \in Seq(T)
    BY <1>3, FlattenedDefined
  <2>3. \A m \in 1..Len(ws) : ws[m] \in Seq(T) /\ Len(ws[m]) \in Nat
    BY ElementOfSeq, LenProperties
  <2> DEFINE w == Flattened(ws)
             I == {m \in Nat : m + 1 <= Len(ws) /\ Len(w[m + 1]) <= n => w[m + 1] \in f[m + 1]}
  <2> HIDE DEF w
  <2>4. 0 \in I
    <3> SUFFICES ASSUME Len(w[1]) <= n PROVE w[1] \in f[1]
      OBVIOUS
    <3>1. 1 \in 1..Len(ws) /\ 1 \in 1..Len(rhs) /\ 1 - 1 = 0
      BY <1>3
    <3>2. w[1] = ws[1] /\ ws[1] \in Seq(T) /\ <<rhs[1], ws[1]>> \in P
      BY <2>2, <2>3, <3>1 DEF w
    <3>3. << >> \o ws[1] = ws[1]
      BY <3>2, ConcatEmptySeq
    <3>4. Prolonged(f[0], f[1], P, rhs[1], n)
      BY <1>1, <3>1
    <3>5. << >> \in f[0] /\ w[1] = << >> \o ws[1]
      BY <1>1, <3>2, <3>3
    <3>6. Len(w[1]) <= n
      OBVIOUS
    <3> QED BY ONLY <3>2, <3>4, <3>5, <3>6 DEF Prolonged
  <2>5. ASSUME NEW m \in Nat, m \in I PROVE m + 1 \in I
    <3> DEFINE k == (m + 1) + 1
    <3> SUFFICES ASSUME k <= Len(ws), Len(w[k]) <= n PROVE w[k] \in f[k]
      OBVIOUS
    <3>1. k \in 2..Len(ws) /\ k \in 1..Len(ws) /\ k - 1 = m + 1 /\ m + 1 \in 1..Len(ws) /\ m + 1 <= Len(ws)
      OBVIOUS
    <3> HIDE DEF k
    <3>2. w[k] = w[m + 1] \o ws[k] /\ w[m + 1] \in Seq(T) /\ ws[k] \in Seq(T)
      BY <3>1, <2>2, <2>3 DEF w
    <3>3. Len(w[k]) = Len(w[m + 1]) + Len(ws[k]) /\ Len(w[m + 1]) \in Nat /\ Len(ws[k]) \in Nat
      BY <3>2, ConcatProperties, LenProperties
    <3>4. Len(w[m + 1]) <= n /\ Len(ws[k]) <= n
      <4>1. Len(w[k]) <= n
        OBVIOUS
      <4>2. \A c, d, e \in Nat : c = d + e /\ c <= n => d <= n /\ e <= n
        OBVIOUS
      <4>3. Len(w[k]) \in Nat
        BY <3>1, <2>2, LenProperties DEF w
      <4> QED BY ONLY <3>3, <4>1, <4>2, <4>3
    <3>5. w[m + 1] \in f[m + 1] /\ <<rhs[k], ws[k]>> \in P
      BY <3>1, <3>4, <2>5
    <3> HIDE DEF I
    <3>6. Prolonged(f[m + 1], f[k], P, rhs[k], n)
      BY <3>1, <1>1
    <3>7. Len(w[k]) <= n
      OBVIOUS
    <3> QED BY ONLY <3>2, <3>5, <3>6, <3>7 DEF Prolonged
  <2>6. Nat \subseteq I
    <3> HIDE DEF I
    <3> QED BY <2>4, <2>5, SetInduction
  <2>7. Len(rhs) - 1 \in Nat /\ (Len(rhs) - 1) + 1 = Len(rhs)
    BY <1>3
  <2>8. Len(rhs) - 1 \in I
    <3> HIDE DEF I
    <3> QED BY <2>6, <2>7
  <2>9. w[Len(rhs)] \in f[Len(rhs)]
    BY <2>1, <2>7, <2>8 DEF w
  <2> QED BY <2>1, <2>9 DEF w
<1> QED BY <1>2, <1>3

\* The sequences ws, one for each symbol of rhs and paired with it in P, joined.
Joins(ws, P, rhs, w) ==
  Len(ws) = Len(rhs) /\ FlattenSeq(ws) = w /\ \A k \in 1..Len(ws) : <<rhs[k], ws[k]>> \in P

\* ... and all of them are joined from such parts.
LEMMA JoinedParts ==
  ASSUME NEW X, NEW T, NEW P \in SUBSET (X \X Seq(T)), NEW rhs, Len(rhs) \in Nat, NEW n,
         NEW f, IsJoined(f, P, rhs, n), NEW w, w \in f[Len(rhs)]
  PROVE  \E ws \in Seq(Seq(T)) : Joins(ws, P, rhs, w)
<1>1. f[0] = {<< >>} /\ \A m \in 1..Len(rhs) : Prolonged(f[m - 1], f[m], P, rhs[m], n)
  BY JoinedSteps
<1> DEFINE Has(m, u) == \E ws \in Seq(Seq(T)) :
             Len(ws) = m /\ FlattenSeq(ws) = u /\ \A k \in 1..m : <<rhs[k], ws[k]>> \in P
           I == {m \in Nat : m <= Len(rhs) => \A u \in f[m] : Has(m, u)}
<1>2. 0 \in I
  <2>1. << >> \in Seq(Seq(T)) /\ Len(<< >>) = 0 /\ FlattenSeq(<< >>) = << >>
    BY EmptySeq, FlattenEmpty
  <2>2. Has(0, << >>)
    <3>1. \A k \in 1..0 : FALSE
      OBVIOUS
    <3> QED BY <2>1, <3>1
  <2> HIDE DEF Has
  <2> QED BY <2>2, <1>1
<1>3. ASSUME NEW m \in Nat, m \in I PROVE m + 1 \in I
  <2> SUFFICES ASSUME m + 1 <= Len(rhs), NEW w1 \in f[m + 1] PROVE Has(m + 1, w1)
    OBVIOUS
  <2>1. m + 1 \in 1..Len(rhs) /\ (m + 1) - 1 = m /\ m <= Len(rhs)
    OBVIOUS
  <2>2. \A u \in f[m] : Has(m, u)
    BY <1>3, <2>1
  <2> HIDE DEF I
  <2>3. Prolonged(f[m], f[m + 1], P, rhs[m + 1], n)
    BY <2>1, <1>1
  <2>4. \E u \in f[m] : \E v : <<rhs[m + 1], v>> \in P /\ w1 = u \o v
    BY <2>3 DEF Prolonged
  <2>5. PICK u \in f[m] : \E v : <<rhs[m + 1], v>> \in P /\ w1 = u \o v
    BY <2>4
  <2>6. PICK v : <<rhs[m + 1], v>> \in P /\ w1 = u \o v
    BY <2>5
  <2>7. v \in Seq(T)
    BY <2>6
  <2>8. PICK ws \in Seq(Seq(T)) :
          Len(ws) = m /\ FlattenSeq(ws) = u /\ \A k \in 1..m : <<rhs[k], ws[k]>> \in P
    BY <2>2
  <2> DEFINE y == Append(ws, v)
  <2>9. /\ y \in Seq(Seq(T)) /\ Len(y) = m + 1 /\ y[m + 1] = v
        /\ \A k \in 1..m : y[k] = ws[k]
    BY <2>7, <2>8, AppendProperties
  <2>10. FlattenSeq(y) = w1
    BY <2>6, <2>7, <2>8, FlattenAppend
  <2> HIDE DEF y
  <2>11. ASSUME NEW k \in 1..(m + 1) PROVE <<rhs[k], y[k]>> \in P
    <3>1. CASE k = m + 1
      BY <3>1, <2>6, <2>9
    <3>2. CASE k # m + 1
      <4>1. k \in 1..m
        BY <3>2
      <4> QED BY <4>1, <2>8, <2>9
    <3> QED BY <3>1, <3>2
  <2> QED BY <2>9, <2>10, <2>11
<1>4. Nat \subseteq I
  <2> HIDE DEF I
  <2> QED BY <1>2, <1>3, SetInduction
<1>5. Len(rhs) \in I
  <2> HIDE DEF I
  <2> QED BY <1>4
<1>6. Has(Len(rhs), w)
  BY <1>5
<1> QED BY <1>6 DEF Joins

\* A grammar of Grammars has finitely many symbols.
LEMMA SymbolsFinite ==
  ASSUME NEW g, IsGrammar(g)
  PROVE  IsFiniteSet(Symbols(g)) /\ IsFiniteSet(g.terms) /\ g.terms \subseteq Symbols(g)
<1>1. g.syms \in Seq(Symbols(g)) /\ \A s \in Symbols(g) : Occurs(s, g.syms)
  BY DEF IsGrammar
<1>2. \A s \in Symbols(g) : \E k \in 1..Len(g.syms) : g.syms[k] = s
  BY <1>1 DEF Occurs
<1>3. Len(g.syms) \in Nat /\ \A k \in 1..Len(g.syms) : g.syms[k] \in Symbols(g)
  BY <1>1, ElementOfSeq, LenProperties
<1> DEFINE I == 1..Len(g.syms)
           h == [k \in I |-> g.syms[k]]
           S == Symbols(g)
<1>4. IsFiniteSet(I)
  BY <1>3, FS_Interval
<1>5. h \in [I -> S] /\ \A s \in S : \E k \in I : h[k] = s
  BY <1>2, <1>3
<1> HIDE DEF h, I, S
<1>6. h \in Surjection(I, S)
  BY <1>5 DEF Surjection
<1>7. IsFiniteSet(S)
  BY <1>4, <1>6, FS_Surjection
<1>8. g.terms \subseteq S
  BY DEF S, Symbols
<1>9. IsFiniteSet(g.terms)
  BY <1>7, <1>8, FS_Subset
<1> QED BY <1>7, <1>8, <1>9 DEF S

\* Pairs of a symbol and at most n terminals, and those that each derivation begins with.
Pairs(g, n) == Symbols(g) \X Words(g.terms, n)
Units(g)    == {<<t, <<t>>>> : t \in g.terms}

\* The pairs that the rules give, from what is derived so far.
Joinings(P, rhs, n) == (CHOOSE f : IsJoined(f, P, rhs, n))[Len(rhs)]
NewPairs(g, P, n) ==
  {x \in UNION {{<<Lhs(g, r), w>> : w \in Joinings(P, Rhs(g, r), n)} : r \in RuleIds(g) \ {0}} :
     x \in Pairs(g, n)}

\* F has the units and the pairs that come of F, and no others than it must have.
IsDerived(g, n, F) ==
  /\ F \in SUBSET Pairs(g, n) /\ Units(g) \subseteq F /\ NewPairs(g, F, n) \subseteq F
  /\ \A D \in SUBSET Pairs(g, n) : Units(g) \subseteq D /\ NewPairs(g, D, n) \subseteq D => F \subseteq D

LEMMA PairsFacts ==
  ASSUME NEW g, IsGrammar(g), NEW n \in Nat, n >= 1
  PROVE  /\ IsFiniteSet(Pairs(g, n)) /\ Pairs(g, n) \subseteq Symbols(g) \X Seq(g.terms)
         /\ Units(g) \in SUBSET Pairs(g, n)
         /\ \A x \in Symbols(g) : \A w \in Seq(g.terms) : Len(w) <= n => <<x, w>> \in Pairs(g, n)
<1>1. /\ IsFiniteSet(Symbols(g)) /\ IsFiniteSet(g.terms) /\ g.terms \subseteq Symbols(g)
      /\ IsFiniteSet(Words(g.terms, n)) /\ Words(g.terms, n) \subseteq Seq(g.terms)
      /\ \A w \in Seq(g.terms) : Len(w) <= n => w \in Words(g.terms, n)
  BY SymbolsFinite, WordsFacts
<1>2. IsFiniteSet(Pairs(g, n))
  BY <1>1, FS_Product DEF Pairs
<1>3. Units(g) \in SUBSET Pairs(g, n)
  <2>1. \A t \in g.terms : <<t>> \in Seq(g.terms) /\ Len(<<t>>) = 1
    BY OfOne
  <2>2. \A t \in g.terms : <<t>> \in Words(g.terms, n) /\ t \in Symbols(g)
    BY <2>1, <1>1
  <2> QED BY <2>2 DEF Units, Pairs
<1> QED BY <1>1, <1>2, <1>3 DEF Pairs

LEMMA SidesFacts ==
  ASSUME NEW g, IsGrammar(g)
  PROVE  /\ \A r \in RuleIds(g) :
              /\ Rhs(g, r) \in Seq(g.terms \cup g.nonterms) /\ Len(Rhs(g, r)) \in Nat
              /\ Lhs(g, r) \in Symbols(g) /\ (Lhs(g, r) = g.start <=> r = 0)
              /\ \A m \in 1..Len(Rhs(g, r)) : Rhs(g, r)[m] \in Symbols(g) /\ Rhs(g, r)[m] # g.start
         /\ Rhs(g, 0)[1] # g.start
<1>1. ASSUME NEW r \in RuleIds(g) PROVE Rhs(g, r) \in Seq(g.terms \cup g.nonterms)
  BY DEF IsGrammar
<1>2. ASSUME NEW r \in RuleIds(g)
      PROVE Len(Rhs(g, r)) \in Nat /\ \A m \in 1..Len(Rhs(g, r)) : Rhs(g, r)[m] \in g.terms \cup g.nonterms
  BY <1>1, LenProperties, ElementOfSeq
<1>3. \A r \in RuleIds(g) : Lhs(g, r) \in Symbols(g) /\ (Lhs(g, r) = g.start <=> r = 0)
  BY DEF IsGrammar, Symbols
<1>4. g.start \notin g.terms \cup g.nonterms
  BY DEF IsGrammar
<1>5. PICK s \in g.nonterms : Rhs(g, 0) = <<s, Eof>>
  BY DEF IsGrammar
<1> QED BY <1>1, <1>2, <1>3, <1>4, <1>5 DEF Symbols

\* The strings joined of pairs are those of a function of IsJoined.
LEMMA JoiningsFacts ==
  ASSUME NEW g, IsGrammar(g), NEW n \in Nat, n >= 1, NEW P \in SUBSET Pairs(g, n), NEW r \in RuleIds(g)
  PROVE  \E h : IsJoined(h, P, Rhs(g, r), n) /\ Joinings(P, Rhs(g, r), n) = h[Len(Rhs(g, r))]
<1>1. P \in SUBSET (Symbols(g) \X Seq(g.terms))
  BY PairsFacts
<1>2. Len(Rhs(g, r)) \in Nat
  BY SidesFacts
<1>3. \E h : IsJoined(h, P, Rhs(g, r), n)
  BY <1>1, <1>2, JoinedExists
<1> QED BY <1>3 DEF Joinings

\* Sentences takes its strings from such a set.
LEMMA SentencesDerived ==
  ASSUME NEW g, IsGrammar(g), NEW n \in Nat, n >= 1
  PROVE  \E F : IsDerived(g, n, F) /\ Ref!Sentences(g, n) = {p[2] : p \in {y \in F : y[1] = Rhs(g, 0)[1]}}
<1> DEFINE U == Pairs(g, n)
           S == Units(g)
           New(P) == NewPairs(g, P, n)
           C == [P \in SUBSET U |-> New(P)]
           Def(f) == f = [T \in SUBSET U |-> LET V == T \cup New(T) IN IF V = T THEN T ELSE f[V]]
           f == CHOOSE h : Def(h)
<1>1. Ref!Sentences(g, n) = {p[2] : p \in {y \in f[S] : y[1] = Rhs(g, 0)[1]}}
  BY DEF Ref!Sentences, Ref!Least, Ref!Symbols, Symbols, Ref!RuleIds, RuleIds, Ref!Lhs, Lhs,
         Ref!Rhs, Rhs, IsJoined, Words, Pairs, Units, NewPairs, Joinings
<1>2. IsFiniteSet(U) /\ S \in SUBSET U /\ U \subseteq Symbols(g) \X Seq(g.terms)
  BY PairsFacts
<1>3. Grows(U, C)
  <2>1. \A P \in SUBSET U : New(P) \in SUBSET U
    BY DEF NewPairs
  <2>2. ASSUME NEW P \in SUBSET U, NEW Q \in SUBSET U, P \subseteq Q PROVE New(P) \subseteq New(Q)
    <3>1. ASSUME NEW r \in RuleIds(g) PROVE Joinings(P, Rhs(g, r), n) \subseteq Joinings(Q, Rhs(g, r), n)
      <4>1. PICK h : IsJoined(h, P, Rhs(g, r), n) /\ Joinings(P, Rhs(g, r), n) = h[Len(Rhs(g, r))]
        BY JoiningsFacts
      <4>2. PICK k : IsJoined(k, Q, Rhs(g, r), n) /\ Joinings(Q, Rhs(g, r), n) = k[Len(Rhs(g, r))]
        BY JoiningsFacts
      <4>3. Q \in SUBSET (Symbols(g) \X Seq(g.terms)) /\ P \in SUBSET Q
        BY <1>2, <2>2
      <4>4. Len(Rhs(g, r)) \in Nat
        BY SidesFacts
      <4>5. h[Len(Rhs(g, r))] \subseteq k[Len(Rhs(g, r))]
        BY <4>1, <4>2, <4>3, <4>4, JoinedGrows
      <4> QED BY <4>1, <4>2, <4>5
    <3> QED BY <3>1 DEF NewPairs
  <2> HIDE DEF U, New
  <2> QED BY <2>1, <2>2 DEF Grows
<1>4. \A h : Def(h) <=> IsGrown(h, U, C)
  <2>1. ASSUME NEW h
        PROVE  [T \in SUBSET U |-> LET V == T \cup New(T) IN IF V = T THEN T ELSE h[V]]
                 = [T \in SUBSET U |-> LET V == T \cup C[T] IN IF V = T THEN T ELSE h[V]]
    <3>1. \A T \in SUBSET U : C[T] = New(T)
      OBVIOUS
    <3> HIDE DEF U, New, C
    <3> QED BY <3>1
  <2> HIDE DEF U, New, C
  <2> QED BY <2>1 DEF IsGrown
<1>5. Def(f)
  <2> HIDE DEF Def, U, C
  <2>1. \E h : Def(h)
    BY <1>3, <1>4, GrownExists
  <2> QED BY <2>1
<1> HIDE DEF Def, f
<1>6. /\ S \subseteq f[S] /\ f[S] \in SUBSET U /\ C[f[S]] \subseteq f[S]
      /\ \A D \in SUBSET U : S \subseteq D /\ C[D] \subseteq D => f[S] \subseteq D
  <2> HIDE DEF U, C, S
  <2>1. IsGrown(f, U, C)
    BY <1>4, <1>5
  <2> QED BY <2>1, <1>2, <1>3, GrownFacts
<1>7. \A D \in SUBSET U : C[D] = New(D)
  OBVIOUS
<1>8. IsDerived(g, n, f[S])
  <2>1. f[S] \in SUBSET U /\ S \subseteq f[S] /\ New(f[S]) \subseteq f[S]
        /\ \A D \in SUBSET U : S \subseteq D /\ New(D) \subseteq D => f[S] \subseteq D
    <3> HIDE DEF U, C, S, New
    <3> QED BY <1>6, <1>7
  <2> QED BY <2>1 DEF IsDerived
<1> QED BY <1>1, <1>8

\* Sentences has every short enough sequence of terminals that the first nonterminal derives.
LEMMA SentencesFacts ==
  ASSUME NEW g, IsGrammar(g), NEW n \in Nat, n >= 1,
         NEW v \in Seq(g.terms), Len(v) <= n, Derives(g, Rhs(g, 0)[1], v)
  PROVE  v \in Ref!Sentences(g, n)
<1>1. PICK F : IsDerived(g, n, F) /\ Ref!Sentences(g, n) = {p[2] : p \in {y \in F : y[1] = Rhs(g, 0)[1]}}
  BY SentencesDerived
<1>2. F \in SUBSET Pairs(g, n) /\ Units(g) \subseteq F /\ NewPairs(g, F, n) \subseteq F
  BY <1>1 DEF IsDerived
<1>3. F \in SUBSET (Symbols(g) \X Seq(g.terms)) /\ g.terms \subseteq Symbols(g)
  BY <1>2, PairsFacts DEF Symbols
<1> DEFINE D == {p \in Symbols(g) \X Seq(g.terms) : p[1] # g.start /\ Len(p[2]) <= n => p \in F}
<1>4. \A t \in g.terms : <<t, <<t>>>> \in D
  <2>1. \A t \in g.terms : <<t, <<t>>>> \in F
    BY <1>2 DEF Units
  <2>2. \A t \in g.terms : <<t>> \in Seq(g.terms) /\ t \in Symbols(g)
    BY OfOne, <1>3
  <2> QED BY <2>1, <2>2
<1>5. ASSUME NEW r \in RuleIds(g), NEW ws \in Seq(Seq(g.terms)), Len(ws) = Length(g, r),
             \A m \in 1..Len(ws) : <<Rhs(g, r)[m], ws[m]>> \in D
      PROVE  <<Lhs(g, r), FlattenSeq(ws)>> \in D
  <2> DEFINE w == FlattenSeq(ws)
  <2>1. w \in Seq(g.terms) /\ Lhs(g, r) \in Symbols(g)
    BY FlattenType, SidesFacts
  <2>2. ASSUME Lhs(g, r) # g.start, Len(w) <= n PROVE <<Lhs(g, r), w>> \in F
    <3>1. r \in RuleIds(g) \ {0} /\ Len(ws) = Len(Rhs(g, r)) /\ Len(Rhs(g, r)) \in Nat
      BY <1>5, <2>2, SidesFacts DEF Length
    <3>2. \A m \in 1..Len(ws) : Len(ws[m]) <= n => <<Rhs(g, r)[m], ws[m]>> \in F
      <4> SUFFICES ASSUME NEW m \in 1..Len(ws), Len(ws[m]) <= n PROVE <<Rhs(g, r)[m], ws[m]>> \in F
        OBVIOUS
      <4>1. Rhs(g, r)[m] # g.start
        BY <3>1, SidesFacts
      <4>2. <<Rhs(g, r)[m], ws[m]>> \in D
        BY <1>5
      <4> QED BY <4>1, <4>2
    <3> HIDE DEF D
    <3>3. PICK h : IsJoined(h, F, Rhs(g, r), n) /\ Joinings(F, Rhs(g, r), n) = h[Len(Rhs(g, r))]
      BY <1>2, JoiningsFacts
    <3>4. w \in h[Len(Rhs(g, r))]
      <4>1. Len(FlattenSeq(ws)) <= n
        BY <2>2
      <4> HIDE DEF w
      <4>2. FlattenSeq(ws) \in h[Len(Rhs(g, r))]
        BY <1>3, <4>1, <3>1, <3>2, <3>3, JoinedHas
      <4> QED BY <4>2 DEF w
    <3>5. <<Lhs(g, r), w>> \in Pairs(g, n)
      BY <2>1, <2>2, PairsFacts
    <3>6. <<Lhs(g, r), w>> \in NewPairs(g, F, n)
      <4> HIDE DEF w
      <4> QED BY <3>1, <3>3, <3>4, <3>5 DEF NewPairs
    <3> QED BY <3>6, <1>2
  <2> HIDE DEF w
  <2> QED BY <2>1, <2>2 DEF w
<1>6. <<Rhs(g, 0)[1], v>> \in D
  <2>1. D \in SUBSET (Symbols(g) \X Seq(g.terms))
    OBVIOUS
  <2> HIDE DEF D
  <2>2. ClosedUnderRules(g, D)
    BY <1>4, <1>5 DEF ClosedUnderRules
  <2> QED BY <2>1, <2>2 DEF Derives
<1>7. <<Rhs(g, 0)[1], v>> \in F
  BY <1>6, SidesFacts
<1> DEFINE z == <<Rhs(g, 0)[1], v>>
<1>8. z \in F /\ z[1] = Rhs(g, 0)[1] /\ z[2] = v
  BY <1>7
<1> HIDE DEF z, D
<1> QED BY <1>1, <1>8

\* And it has nothing else.
LEMMA SentencesOnly ==
  ASSUME NEW g, IsGrammar(g), NEW n \in Nat, n >= 1, NEW v, v \in Ref!Sentences(g, n)
  PROVE  v \in Seq(g.terms) /\ Derives(g, Rhs(g, 0)[1], v)
<1>1. PICK F : IsDerived(g, n, F) /\ Ref!Sentences(g, n) = {p[2] : p \in {y \in F : y[1] = Rhs(g, 0)[1]}}
  BY SentencesDerived
<1> DEFINE D == {p \in Pairs(g, n) : Derives(g, p[1], p[2])}
<1>2. D \in SUBSET Pairs(g, n) /\ D \in SUBSET (Symbols(g) \X Seq(g.terms))
  BY PairsFacts
<1>3. Units(g) \subseteq D
  <2>1. \A t \in g.terms : Derives(g, t, <<t>>)
    BY DerivesToken
  <2> QED BY <2>1, PairsFacts DEF Units
<1>4. NewPairs(g, D, n) \subseteq D
  <2> SUFFICES ASSUME NEW x \in NewPairs(g, D, n) PROVE x \in D
    OBVIOUS
  <2>0. PICK r \in RuleIds(g) \ {0} : \E w \in Joinings(D, Rhs(g, r), n) : x = <<Lhs(g, r), w>>
    <3> HIDE DEF D
    <3> QED BY DEF NewPairs
  <2>1. PICK w \in Joinings(D, Rhs(g, r), n) : x = <<Lhs(g, r), w>>
    BY <2>0
  <2>2. x \in Pairs(g, n) /\ r \in RuleIds(g)
    <3> HIDE DEF D
    <3> QED BY DEF NewPairs
  <2>3. Derives(g, Lhs(g, r), w)
    <3> HIDE DEF D
    <3>1. PICK h : IsJoined(h, D, Rhs(g, r), n) /\ Joinings(D, Rhs(g, r), n) = h[Len(Rhs(g, r))]
      BY <1>2, <2>2, JoiningsFacts
    <3>2. w \in h[Len(Rhs(g, r))] /\ Len(Rhs(g, r)) \in Nat
      BY <2>2, <3>1, SidesFacts
    <3>3. PICK ws \in Seq(Seq(g.terms)) :
            /\ Len(ws) = Len(Rhs(g, r)) /\ FlattenSeq(ws) = w
            /\ \A k \in 1..Len(ws) : <<Rhs(g, r)[k], ws[k]>> \in D
      <4>1. PICK y : y = Rhs(g, r)
        OBVIOUS
      <4>2. IsJoined(h, D, y, n) /\ w \in h[Len(y)] /\ Len(y) \in Nat
        BY <3>1, <3>2, <4>1
      <4>3. \E ws \in Seq(Seq(g.terms)) : Joins(ws, D, y, w)
        BY <1>2, <4>2, JoinedParts
      <4> QED BY <4>1, <4>3 DEF Joins
    <3>4. ASSUME NEW k \in 1..Len(ws) PROVE Derives(g, Rhs(g, r)[k], ws[k])
      BY <3>3 DEF D
    <3> QED BY <2>2, <3>3, <3>4, DerivesRule DEF Length
  <2> QED BY <2>1, <2>2, <2>3
<1>5. F \subseteq D
  <2> HIDE DEF D
  <2> QED BY <1>1, <1>2, <1>3, <1>4 DEF IsDerived
<1>6. PICK p \in F : p[1] = Rhs(g, 0)[1] /\ p[2] = v
  BY <1>1
<1>7. p \in D /\ p \in Symbols(g) \X Seq(g.terms)
  BY <1>2, <1>5
<1> QED BY <1>6, <1>7

-----------------------------------------------------------------------------
(* The generator inside System.                                            *)

\* GeneratorProofs is about the module Generator as it stands; here its actions are
\* those of System's G, which says the same.
GP == INSTANCE GeneratorProofs WITH pc <- opc

LEMMA SameTabs == \A s : G!R!ReduceTab(s) = GP!R!ReduceTab(s)
<1>1. \A c : G!R!FlattenSeq(c) = GP!R!FlattenSeq(c)
  BY DEF G!R!FlattenSeq, GP!R!FlattenSeq
<1>2. \A S : G!R!Ascending(S) = GP!R!Ascending(S)
  BY DEF G!R!Ascending, GP!R!Ascending, G!R!Cardinality, GP!R!Cardinality, G!R!IsFiniteSet, GP!R!IsFiniteSet
<1>3. \A g, k : G!R!ClosureOf(g, k) = GP!R!ClosureOf(g, k)
  BY DEF G!R!ClosureOf, GP!R!ClosureOf, G!R!RuleIds, GP!R!RuleIds, G!R!Sorted, GP!R!Sorted,
         G!R!Cardinality, GP!R!Cardinality, G!R!IsFiniteSet, GP!R!IsFiniteSet, G!R!PointBefore, GP!R!PointBefore,
         G!R!AddRules, GP!R!AddRules, G!R!AtEnd, GP!R!AtEnd, G!R!AfterDot, GP!R!AfterDot,
         G!R!Seen, GP!R!Seen, G!R!Length, GP!R!Length, G!R!Rhs, GP!R!Rhs
<1>4. \A s, c : G!R!ItemSets(s, c) = GP!R!ItemSets(s, c)
  BY DEF G!R!ItemSets, GP!R!ItemSets, G!R!FirstFrom, GP!R!FirstFrom, G!R!Min, GP!R!Min,
         G!R!AtEnd, GP!R!AtEnd, G!R!Length, GP!R!Length, G!R!Rhs, GP!R!Rhs
<1>5. \A s : G!R!State(s) = GP!R!State(s)
  BY DEF G!R!State, GP!R!State
<1> QED BY <1>1, <1>2, <1>3, <1>4, <1>5 DEF G!R!ReduceTab, GP!R!ReduceTab

LEMMA NullableSame == G!N!Next => GP!N!Next
<1>1. G!N!ScanRule => GP!N!ScanRule
  BY DEF
    G!N!ScanRule, GP!N!ScanRule, G!N!HasRuleAt, GP!N!HasRuleAt, G!N!EnqueueIfNeeded, GP!N!EnqueueIfNeeded,
    G!N!Length, GP!N!Length, G!N!Lhs, GP!N!Lhs, G!N!Rhs, GP!N!Rhs
<1>2. G!N!NextSymbol => GP!N!NextSymbol
  BY DEF
    G!N!NextSymbol, GP!N!NextSymbol, G!N!HasRuleAt, GP!N!HasRuleAt
<1>3. G!N!EndScan => GP!N!EndScan
  BY DEF
    G!N!EndScan, GP!N!EndScan
<1>4. G!N!PopSymbol => GP!N!PopSymbol
  BY DEF
    G!N!PopSymbol, GP!N!PopSymbol, G!N!Drained, GP!N!Drained
<1>5. G!N!TakeRule => GP!N!TakeRule
  BY DEF
    G!N!TakeRule, GP!N!TakeRule, G!N!Drained, GP!N!Drained
<1>6. G!N!Trim => GP!N!Trim
  BY DEF
    G!N!Trim, GP!N!Trim, G!N!MayTrim, GP!N!MayTrim, G!N!Rhs, GP!N!Rhs
<1>7. G!N!Refile => GP!N!Refile
  BY DEF
    G!N!Refile, GP!N!Refile, G!N!MayTrim, GP!N!MayTrim, G!N!EnqueueIfNeeded, GP!N!EnqueueIfNeeded, G!N!Rhs,
    GP!N!Rhs, G!N!Lhs, GP!N!Lhs
<1>8. G!N!Finish => GP!N!Finish
  BY DEF
    G!N!Finish, GP!N!Finish, G!N!Drained, GP!N!Drained
<1> QED BY <1>1, <1>2, <1>3, <1>4, <1>5, <1>6, <1>7, <1>8 DEF G!N!Next, GP!N!Next

LEMMA AutomatonSame == G!L!Next => GP!L!Next
<1>1. G!L!Build => GP!L!Build
  BY DEF
    G!L!Build, GP!L!Build, G!L!NewState, GP!L!NewState, G!L!Hash, GP!L!Hash, G!L!HashOf, GP!L!HashOf,
    G!L!MapThenSumSet, GP!L!MapThenSumSet, G!L!MapThenFoldSet, GP!L!MapThenFoldSet
<1>2. G!L!CloseItem => GP!L!CloseItem
  BY DEF
    G!L!CloseItem, GP!L!CloseItem, G!L!AddRules, GP!L!AddRules, G!L!AtEnd, GP!L!AtEnd, G!L!AfterDot,
    GP!L!AfterDot, G!L!Seen, GP!L!Seen, G!L!Length, GP!L!Length, G!L!Rhs, GP!L!Rhs
<1>3. G!L!ListSymbols => GP!L!ListSymbols
  BY DEF
    G!L!ListSymbols, GP!L!ListSymbols, G!L!Symbols, GP!L!Symbols, G!L!Seen, GP!L!Seen, G!L!AtEnd, GP!L!AtEnd,
    G!L!AfterDot, GP!L!AfterDot, G!L!Length, GP!L!Length, G!L!Rhs, GP!L!Rhs
<1>4. G!L!Commit => GP!L!Commit
  BY DEF
    G!L!Commit, GP!L!Commit, G!L!First, GP!L!First, G!L!Moved, GP!L!Moved, G!L!Matches, GP!L!Matches,
    G!L!Bucket, GP!L!Bucket, G!L!Hash, GP!L!Hash, G!L!Min, GP!L!Min, G!L!NewState, GP!L!NewState, G!L!SymId,
    GP!L!SymId, G!L!AtEnd, GP!L!AtEnd, G!L!AfterDot, GP!L!AfterDot, G!L!HashOf, GP!L!HashOf, G!L!Length,
    GP!L!Length, G!L!Rhs, GP!L!Rhs, G!L!MapThenSumSet, GP!L!MapThenSumSet, G!L!MapThenFoldSet,
    GP!L!MapThenFoldSet
<1>5. G!L!NextState => GP!L!NextState
  BY DEF
    G!L!NextState, GP!L!NextState, G!L!Sorted, GP!L!Sorted, G!L!PointBefore, GP!L!PointBefore,
    G!L!Cardinality, GP!L!Cardinality, G!L!IsFiniteSet, GP!L!IsFiniteSet
<1>6. G!L!Finish => GP!L!Finish
  BY DEF
    G!L!Finish, GP!L!Finish
<1> QED BY <1>1, <1>2, <1>3, <1>4, <1>5, <1>6 DEF G!L!Next, GP!L!Next

LEMMA DigraphSame == G!R!D!Next => GP!R!D!Next
<1>1. G!R!D!SkipNode => GP!R!D!SkipNode
  BY DEF
    G!R!D!SkipNode, GP!R!D!SkipNode, G!R!D!Nodes, GP!R!D!Nodes
<1>2. G!R!D!VisitNode => GP!R!D!VisitNode
  BY DEF
    G!R!D!VisitNode, GP!R!D!VisitNode, G!R!D!Nodes, GP!R!D!Nodes, G!R!D!Visit, GP!R!D!Visit
<1>3. G!R!D!Descend => GP!R!D!Descend
  BY DEF
    G!R!D!Descend, GP!R!D!Descend, G!R!D!Listing, GP!R!D!Listing, G!R!D!Child, GP!R!D!Child, G!R!D!Visit,
    GP!R!D!Visit, G!R!D!Frame, GP!R!D!Frame
<1>4. G!R!D!Absorb => GP!R!D!Absorb
  BY DEF
    G!R!D!Absorb, GP!R!D!Absorb, G!R!D!Listing, GP!R!D!Listing, G!R!D!Child, GP!R!D!Child, G!R!D!Frame,
    GP!R!D!Frame, G!R!D!Advanced, GP!R!D!Advanced
<1>5. G!R!D!Leave => GP!R!D!Leave
  BY DEF
    G!R!D!Leave, GP!R!D!Leave, G!R!D!Listing, GP!R!D!Listing, G!R!D!IsRoot, GP!R!D!IsRoot, G!R!D!Nodes,
    GP!R!D!Nodes, G!R!D!Frame, GP!R!D!Frame, G!R!D!Infinity, GP!R!D!Infinity
<1> QED BY <1>1, <1>2, <1>3, <1>4, <1>5 DEF G!R!D!Next, GP!R!D!Next

LEMMA SearchSame == G!R!Next => GP!R!Next
<1>1. G!R!FindTransitions => GP!R!FindTransitions
  BY DEF
    G!R!FindTransitions, GP!R!FindTransitions, G!R!Sorted, GP!R!Sorted, G!R!NonterminalGotos,
    GP!R!NonterminalGotos, G!R!StateIds, GP!R!StateIds, G!R!DirectReads, GP!R!DirectReads, G!R!inputs,
    GP!R!inputs, G!R!PointBefore, GP!R!PointBefore, G!R!ToSet, GP!R!ToSet, G!R!State, GP!R!State,
    G!R!Cardinality, GP!R!Cardinality, G!R!IsFiniteSet, GP!R!IsFiniteSet
<1>2. G!R!FindReads => GP!R!FindReads
  BY DEF
    G!R!FindReads, GP!R!FindReads, G!R!State, GP!R!State, G!R!Chosen, GP!R!Chosen, G!R!Reverse, GP!R!Reverse,
    G!R!Lookup, GP!R!Lookup, G!R!inputs, GP!R!inputs, G!R!dgvars, GP!R!dgvars, G!R!Ascending, GP!R!Ascending,
    G!R!Cardinality, GP!R!Cardinality, G!R!IsFiniteSet, GP!R!IsFiniteSet
<1>3. G!R!StartReads => GP!R!StartReads
  BY DEF
    G!R!StartReads, GP!R!StartReads, G!R!inputs, GP!R!inputs, G!R!relations, GP!R!relations
<1>4. G!R!Join => GP!R!Join
  BY DigraphSame DEF
    G!R!Join, GP!R!Join, G!R!inputs, GP!R!inputs, G!R!relations, GP!R!relations
<1>5. G!R!EndReads => GP!R!EndReads
  BY DEF
    G!R!EndReads, GP!R!EndReads, G!R!D!Done, GP!R!D!Done, G!R!D!Nodes, GP!R!D!Nodes, G!R!inputs, GP!R!inputs,
    G!R!relations, GP!R!relations, G!R!dgvars, GP!R!dgvars
<1>6. G!R!FindLookbackIncludes => GP!R!FindLookbackIncludes
  BY DEF
    G!R!FindLookbackIncludes, GP!R!FindLookbackIncludes, G!R!State, GP!R!State, G!R!Length, GP!R!Length,
    G!R!ToSet, GP!R!ToSet, G!R!Includes, GP!R!Includes, G!R!Lookup, GP!R!Lookup, G!R!Path, GP!R!Path,
    G!R!Chosen, GP!R!Chosen, G!R!StateIds, GP!R!StateIds, G!R!Reverse, GP!R!Reverse, G!R!inputs, GP!R!inputs,
    G!R!dgvars, GP!R!dgvars, G!R!Rhs, GP!R!Rhs, G!R!Goto, GP!R!Goto, G!R!Ascending, GP!R!Ascending,
    G!R!Targets, GP!R!Targets, G!R!Cardinality, GP!R!Cardinality, G!R!IsFiniteSet, GP!R!IsFiniteSet
<1>7. G!R!StartIncludes => GP!R!StartIncludes
  BY DEF
    G!R!StartIncludes, GP!R!StartIncludes, G!R!StateIds, GP!R!StateIds, G!R!Sorted, GP!R!Sorted, G!R!ToSet,
    GP!R!ToSet, G!R!inputs, GP!R!inputs, G!R!PointBefore, GP!R!PointBefore, G!R!Cardinality,
    GP!R!Cardinality, G!R!IsFiniteSet, GP!R!IsFiniteSet
<1>8. G!R!EndIncludes => GP!R!EndIncludes
  BY DEF
    G!R!EndIncludes, GP!R!EndIncludes, G!R!D!Done, GP!R!D!Done, G!R!D!Nodes, GP!R!D!Nodes, G!R!inputs,
    GP!R!inputs, G!R!relations, GP!R!relations, G!R!dgvars, GP!R!dgvars
<1>9. G!R!FindReductions => GP!R!FindReductions
  BY SameTabs DEF
    G!R!FindReductions, GP!R!FindReductions, G!R!StateIds, GP!R!StateIds, G!R!inputs, GP!R!inputs,
    G!R!relations, GP!R!relations, G!R!dgvars, GP!R!dgvars
<1>10. G!R!Finish => GP!R!Finish
  BY DEF
    G!R!Finish, GP!R!Finish, G!R!StateIds, GP!R!StateIds, G!R!inputs, GP!R!inputs, G!R!relations,
    GP!R!relations, G!R!dgvars, GP!R!dgvars
<1> QED BY <1>1, <1>2, <1>3, <1>4, <1>5, <1>6, <1>7, <1>8, <1>9, <1>10 DEF G!R!Next, GP!R!Next

LEMMA OutputSame == G!Next => GP!Next
<1>1. G!Conflicts => GP!Conflicts
  BY DEF
    G!Conflicts, GP!Conflicts, G!StateIds, GP!StateIds, G!Reports, GP!Reports, G!inputs, GP!inputs,
    G!ShiftPlaces, GP!ShiftPlaces, G!ShiftSym, GP!ShiftSym, G!SymId, GP!SymId, G!Min, GP!Min, G!SymbolId,
    GP!SymbolId
<1>2. G!StartActions => GP!StartActions
  BY DEF
    G!StartActions, GP!StartActions, G!StateIds, GP!StateIds, G!inputs, GP!inputs
<1>3. G!EmitActions => GP!EmitActions
  BY DEF
    G!EmitActions, GP!EmitActions, G!StateIds, GP!StateIds, G!Row, GP!Row, G!SymId, GP!SymId, G!inputs,
    GP!inputs, G!Max, GP!Max, G!Columns, GP!Columns, G!SymbolId, GP!SymbolId
<1>4. G!StartGotos => GP!StartGotos
  BY DEF
    G!StartGotos, GP!StartGotos, G!StateIds, GP!StateIds, G!inputs, GP!inputs
<1>5. G!EmitGotos => GP!EmitGotos
  BY DEF
    G!EmitGotos, GP!EmitGotos, G!StateIds, GP!StateIds, G!Row, GP!Row, G!SymId, GP!SymId, G!ShiftSym,
    GP!ShiftSym, G!inputs, GP!inputs, G!Max, GP!Max, G!Columns, GP!Columns, G!SymbolId, GP!SymbolId
<1>6. G!Finish => GP!Finish
  BY DEF
    G!Finish, GP!Finish, G!StateIds, GP!StateIds, G!inputs, GP!inputs
<1> QED BY <1>1, <1>2, <1>3, <1>4, <1>5, <1>6 DEF G!Next, GP!Next

\* What the proofs about the generator assume, System assumes too.
LEMMA GeneratorAssumes == GP!MaxBucketsAssumption /\ GP!GrammarsAreGrammars
<1>1. GP!MaxBucketsAssumption
  BY MaxBucketsAssumption DEF GP!MaxBucketsAssumption
<1>2. GP!GrammarsAreGrammars
  BY GrammarsAreGrammars
  DEF GP!GrammarsAreGrammars, GP!IsGrammar, IsGrammar, GP!Symbols, Symbols, GP!NoRepeats, NoRepeats,
      GP!Occurs, Occurs, GP!RuleIds, RuleIds, GP!Lhs, Lhs, GP!Rhs, Rhs, GP!Length, Length,
      GP!IsFiniteSet, IsFiniteSet
<1> QED BY <1>1, <1>2

LEMMA InitSame == G!Init => GP!Init
BY DEF G!Init, GP!Init, G!N!Init, GP!N!Init, G!N!RuleIds, GP!N!RuleIds, G!L!Begin, GP!L!Begin,
       G!R!Begin, GP!R!Begin, G!Begin, GP!Begin

LEMMA PassSame == G!Pass => GP!Pass
<1>1. G!NullablePass => GP!NullablePass
  BY NullableSame
  DEF G!NullablePass, GP!NullablePass, G!lvars, GP!lvars, G!avars, GP!avars, G!outputvars, GP!outputvars
<1>2. G!AutomatonPass => GP!AutomatonPass
  BY AutomatonSame
  DEF G!AutomatonPass, GP!AutomatonPass, G!nvars, GP!nvars, G!avars, GP!avars, G!outputvars, GP!outputvars
<1>3. G!LookaheadPass => GP!LookaheadPass
  BY SearchSame
  DEF G!LookaheadPass, GP!LookaheadPass, G!nvars, GP!nvars, G!lvars, GP!lvars, G!outputvars, GP!outputvars
<1>4. G!OutputPass => GP!OutputPass
  BY OutputSame
  DEF G!OutputPass, GP!OutputPass, G!nvars, GP!nvars, G!lvars, GP!lvars, G!avars, GP!avars
<1>5. G!Finished => GP!Finished
  BY DEF G!Finished, GP!Finished, G!Done, GP!Done, G!allvars, GP!allvars, G!nvars, GP!nvars,
         G!lvars, GP!lvars, G!avars, GP!avars, G!outputvars, GP!outputvars
<1> QED BY <1>1, <1>2, <1>3, <1>4, <1>5 DEF G!Pass, GP!Pass

\* The invariant of the generator, while it runs and behind it.
LEMMA GeneratorBegins == G!Init => GP!GenInv
BY InitSame, GeneratorAssumes, GP!PassesBegin

LEMMA GeneratorRuns == GP!GenInv /\ G!Pass => GP!GenInv'
<1> SUFFICES ASSUME GP!GenInv, G!Pass PROVE GP!GenInv'
  OBVIOUS
<1>1. GP!Pass
  BY PassSame
<1> QED BY <1>1, GeneratorAssumes, GP!NullablePassKeeps, GP!AutomatonPassKeeps, GP!LookaheadPassKeeps,
           GP!OutputPassKeeps, GP!RestKeeps DEF GP!Pass, GP!Finished

LEMMA GeneratorRests == GP!GenInv /\ UNCHANGED gvars => GP!GenInv'
<1> SUFFICES ASSUME GP!GenInv, UNCHANGED gvars PROVE GP!GenInv'
  OBVIOUS
<1>1. UNCHANGED GP!allvars
  BY DEF gvars, GP!allvars, GP!nvars, GP!lvars, GP!avars, GP!outputvars
<1> QED BY <1>1, GeneratorAssumes, GP!RestKeeps

\* What the generator wrote is a program as the proofs about the parser want it.
LEMMA Compiles == GP!GenInv /\ opc = "written" => Program /\ Guided
<1> SUFFICES ASSUME GP!GenInv, opc = "written" PROVE Program /\ Guided
  OBVIOUS
<1>1. /\ GP!IsGrammar(gram) /\ GP!AreTables(gram, actions, gotos)
      /\ \E its \in [0..(Len(actions) - 1) -> SUBSET (GP!RuleIds(gram) \X Nat)] :
           GP!GuidedBy(gram, actions, gotos, its)
  BY GeneratorAssumes, GP!HandsOver
<1>2. IsGrammar(gram)
  BY <1>1
  DEF GP!IsGrammar, IsGrammar, GP!Symbols, Symbols, GP!NoRepeats, NoRepeats,
      GP!Occurs, Occurs, GP!RuleIds, RuleIds, GP!Lhs, Lhs, GP!Rhs, Rhs
<1>3. AreTables(gram, actions, gotos)
  BY <1>1 DEF GP!AreTables, AreTables, GP!Columns, Columns, GP!RuleIds, RuleIds
<1>4. ASSUME NEW its PROVE GP!GuidedBy(gram, actions, gotos, its) <=> GuidedBy(gram, actions, gotos, its)
  BY DEF GP!GuidedBy, GuidedBy, GP!Columns, Columns, GP!Length, Length, GP!Rhs, Rhs,
         GP!SymbolId, SymbolId
<1>5. GP!RuleIds(gram) = RuleIds(gram)
  BY DEF GP!RuleIds, RuleIds
<1>6. Guided
  BY <1>1, <1>4, <1>5 DEF Guided, StateIds
<1> QED BY <1>2, <1>3, <1>6 DEF Program

\* The lookaheads are the same by both names.
LEMMA LookaheadsSame == G!LookaheadsFound => GP!LookaheadsFound
<1>1. G!Found = GP!Found
  BY DEF G!Found, GP!Found, G!ToSet, GP!ToSet
<1>2. G!Ref!Lookaheads(gram, states) = GP!Ref!Lookaheads(gram, states)
  BY DEF G!Ref!Lookaheads, GP!Ref!Lookaheads, G!Ref!Follows, GP!Ref!Follows,
         G!Ref!FirstPairs, GP!Ref!FirstPairs, G!Ref!Leading, GP!Ref!Leading,
         G!Ref!Empty, GP!Ref!Empty, G!Ref!Least, GP!Ref!Least, G!Ref!AtEnd, GP!Ref!AtEnd,
         G!Ref!AfterDot, GP!Ref!AfterDot, G!Ref!Goto, GP!Ref!Goto, G!Ref!Targets, GP!Ref!Targets,
         G!Ref!Symbols, GP!Ref!Symbols, G!Ref!RuleIds, GP!Ref!RuleIds, G!Ref!Lhs, GP!Ref!Lhs,
         G!Ref!Rhs, GP!Ref!Rhs, G!Ref!Length, GP!Ref!Length
<1> QED BY <1>1, <1>2 DEF G!LookaheadsFound, GP!LookaheadsFound

\* And if nothing competes and no lookahead is missing, the program is so directed.
LEMMA CompilesDirected ==
  ASSUME GP!GenInv, opc = "written", reports = {}, G!LookaheadsFound
  PROVE  \E F, B : Directed(F, B)
<1>1. GP!LookaheadsFound
  BY LookaheadsSame
<1>2. PICK F : F = GP!Ref!Follows(gram, states)
  OBVIOUS
<1>3. PICK B : B = GP!Ref!FirstPairs(gram)
  OBVIOUS
<1>4. /\ \A g : GP!RuleIds(g) = RuleIds(g)
      /\ \A g, r : GP!Length(g, r) = Length(g, r) /\ GP!Rhs(g, r) = Rhs(g, r) /\ GP!Lhs(g, r) = Lhs(g, r)
      /\ \A x : GP!SymId(x) = SymId(x)
  BY DEF GP!RuleIds, RuleIds, GP!Length, Length, GP!Rhs, Rhs, GP!Lhs, Lhs, GP!SymId, SymId,
         GP!SymbolId, SymbolId
<1>5. /\ \A t \in gram.terms : <<t, t>> \in B
      /\ \A r \in RuleIds(gram) : \A a \in gram.terms :
           Length(gram, r) > 0 /\ <<Rhs(gram, r)[1], a>> \in B => <<Lhs(gram, r), a>> \in B
      /\ <<0, <<0, 0>>, Nil>> \in F
      /\ \A s, r, j, a : <<s, <<r, j>>, a>> \in F =>
           /\ j < Length(gram, r) => GP!Moves(F, B, s, r, j, a)
           /\ j = Length(gram, r) /\ r # 0 /\ a # Nil => actions[s + 1][SymId(a)] = r
           /\ r = 0 /\ j = 2 => s = 1
  <2>1. /\ \A t \in gram.terms : <<t, t>> \in B
        /\ \A r \in GP!RuleIds(gram) : \A a \in gram.terms :
             GP!Length(gram, r) > 0 /\ <<GP!Rhs(gram, r)[1], a>> \in B => <<GP!Lhs(gram, r), a>> \in B
        /\ <<0, <<0, 0>>, Nil>> \in F
        /\ \A s, r, j, a : <<s, <<r, j>>, a>> \in F =>
             /\ j < GP!Length(gram, r) => GP!Moves(F, B, s, r, j, a)
             /\ j = GP!Length(gram, r) /\ r # 0 /\ a # Nil => actions[s + 1][GP!SymId(a)] = r
             /\ r = 0 /\ j = 2 => s = 1
    BY <1>1, <1>2, <1>3, GeneratorAssumes, GP!Directs
  <2> QED BY <2>1, <1>4
<1>6. Heads(B)
  BY <1>5 DEF Heads
<1>7. ASSUME NEW s \in StateIds, NEW r \in RuleIds(gram), NEW j \in Nat, NEW a \in gram.terms \cup {Nil},
             <<s, <<r, j>>, a>> \in F
      PROVE  /\ j < Length(gram, r) =>
                  /\ <<GotoOf(s, Rhs(gram, r)[j + 1]), <<r, j + 1>>, a>> \in F
                  /\ Rhs(gram, r)[j + 1] \in gram.terms => Action(s, Rhs(gram, r)[j + 1]) = 0
                  /\ \A b \in gram.terms : Behind(B, r, j, a, b) => Expected(F, s, Rhs(gram, r)[j + 1], b)
             /\ j = Length(gram, r) /\ r # 0 /\ a # Nil => Action(s, a) = r
             /\ r = 0 /\ j = 2 => s = 1
  <2>1. /\ j < Length(gram, r) => GP!Moves(F, B, s, r, j, a)
        /\ j = Length(gram, r) /\ r # 0 /\ a # Nil => actions[s + 1][SymId(a)] = r
        /\ r = 0 /\ j = 2 => s = 1
    BY <1>5, <1>7
  <2>2. ASSUME j < Length(gram, r)
        PROVE  /\ <<GotoOf(s, Rhs(gram, r)[j + 1]), <<r, j + 1>>, a>> \in F
               /\ Rhs(gram, r)[j + 1] \in gram.terms => Action(s, Rhs(gram, r)[j + 1]) = 0
               /\ \A b \in gram.terms : Behind(B, r, j, a, b) => Expected(F, s, Rhs(gram, r)[j + 1], b)
    BY <1>4, <2>1, <2>2 DEF GP!Moves, GotoOf, Action, Behind, Expected
  <2> QED BY <2>1, <2>2 DEF Action
<1>8. Directed(F, B)
  BY <1>5, <1>6, <1>7 DEF Directed
<1> QED BY <1>8

-----------------------------------------------------------------------------
(* The generator, the compiler and the parser.                             *)

(***************************************************************************)
(* Until the output is compiled nothing is parsed; from then on the parser *)
(* keeps the invariants that hold for every program of its kind, and what  *)
(* the generator has established stays as it is.                           *)
(***************************************************************************)
SystemInv ==
  /\ GP!GenInv
  /\ Len(fed) <= MaxTokens
  /\ sentences = Nil => Begin
  /\ sentences # Nil =>
       /\ opc = "written" /\ sentences = Ref!Sentences(gram, MaxTokens - 1)
       /\ ValuesInv
       /\ EpsilonFree => SentencesInv

LEMMA SystemBegins == Init => SystemInv
<1> SUFFICES ASSUME Init PROVE SystemInv
  OBVIOUS
<1>1. G!Init /\ Begin /\ sentences = Nil
  BY DEF Init
<1>2. GP!GenInv
  BY <1>1, GeneratorBegins
<1>3. Len(fed) <= MaxTokens
  BY <1>1, BoundAssumption DEF Begin
<1> QED BY <1>1, <1>2, <1>3 DEF SystemInv

LEMMA GenerateKeeps == SystemInv /\ Generate => SystemInv'
<1> SUFFICES ASSUME SystemInv, Generate PROVE SystemInv'
  OBVIOUS
<1>1. opc # "written" /\ G!Pass /\ UNCHANGED parservars /\ sentences' = sentences
  BY DEF Generate, G!Done
<1>2. GP!GenInv /\ Len(fed) <= MaxTokens /\ sentences = Nil /\ Begin
  BY <1>1 DEF SystemInv
<1>3. GP!GenInv'
  BY <1>1, <1>2, GeneratorRuns
<1>4. Begin' /\ Len(fed') <= MaxTokens /\ sentences' = Nil
  BY <1>1, <1>2 DEF Begin, parservars
<1> QED BY <1>3, <1>4 DEF SystemInv

LEMMA CompileKeeps == SystemInv /\ Compile => SystemInv'
<1> SUFFICES ASSUME SystemInv, Compile PROVE SystemInv'
  OBVIOUS
<1>1. /\ opc = "written" /\ sentences = Nil /\ sentences' = Ref!Sentences(gram, MaxTokens - 1)
      /\ UNCHANGED gvars /\ UNCHANGED parservars
  BY DEF Compile, G!Done
<1>2. GP!GenInv /\ Len(fed) <= MaxTokens /\ Begin
  BY <1>1 DEF SystemInv
<1>3. UNCHANGED vars /\ gram' = gram /\ opc' = opc
  BY <1>1 DEF vars, gvars, program
<1>4. GP!GenInv'
  BY <1>1, <1>2, GeneratorRests
<1>5. Begin' /\ Len(fed') <= MaxTokens
  BY <1>1, <1>2 DEF Begin, parservars
<1>6. Program /\ Guided
  BY <1>1, <1>2, Compiles
<1>7. ValuesInv'
  BY <1>2, <1>3, <1>6, BeginValues, OtherValues
<1>8. EpsilonFree' => SentencesInv'
  <2>1. EpsilonFree' <=> EpsilonFree
    BY <1>3 DEF EpsilonFree
  <2> QED BY <2>1, <1>2, <1>3, <1>6, BeginSentences, OtherSentences
<1>9. opc' = "written" /\ sentences' = Ref!Sentences(gram, MaxTokens - 1)'
  BY <1>1, <1>3
<1> QED BY <1>4, <1>5, <1>7, <1>8, <1>9 DEF SystemInv

LEMMA ParseKeeps == SystemInv /\ Parse => SystemInv'
<1> SUFFICES ASSUME SystemInv, Parse PROVE SystemInv'
  OBVIOUS
<1>1. sentences # Nil /\ Next /\ UNCHANGED gvars /\ sentences' = sentences
  BY DEF Parse
<1>2. /\ GP!GenInv /\ Len(fed) <= MaxTokens /\ opc = "written"
      /\ sentences = Ref!Sentences(gram, MaxTokens - 1) /\ ValuesInv /\ (EpsilonFree => SentencesInv)
  BY <1>1 DEF SystemInv
<1>3. gram' = gram /\ opc' = opc
  BY <1>1 DEF gvars
<1>4. GP!GenInv'
  BY <1>1, <1>2, GeneratorRests
<1>5. ValuesInv'
  BY <1>1, <1>2, CallValues, ReduceValues, ShiftValues, OtherValues DEF Next
<1>6. EpsilonFree' => SentencesInv'
  <2>1. EpsilonFree' <=> EpsilonFree
    BY <1>3 DEF EpsilonFree
  <2> QED BY <2>1, <1>1, <1>2, NoAbort, OtherSentences, ReduceSentences, ShiftSentences DEF Next
<1>7. Len(fed') <= MaxTokens
  <2>1. CASE Call
    <3>1. PICK t \in gram.terms : Len(fed) < MaxTokens /\ fed' = Append(fed, t)
      BY <2>1 DEF Call
    <3>2. fed \in Seq(gram.terms)
      BY <1>2 DEF ValuesInv, TypeOK, Tokens
    <3>3. Len(fed') = Len(fed) + 1 /\ Len(fed) \in Nat
      BY <3>1, <3>2, AppendProperties, LenProperties
    <3> QED BY <3>1, <3>3, BoundAssumption
  <2>2. CASE Reduce \/ Abort \/ Shift
    BY <2>2, <1>2 DEF Reduce, Abort, Shift
  <2> QED BY <2>1, <2>2, <1>1 DEF Next
<1>8. opc' = "written" /\ sentences' = Ref!Sentences(gram, MaxTokens - 1)'
  BY <1>1, <1>2, <1>3
<1> QED BY <1>1, <1>4, <1>5, <1>6, <1>7, <1>8 DEF SystemInv

LEMMA SystemRests == SystemInv /\ UNCHANGED allvars => SystemInv'
<1> SUFFICES ASSUME SystemInv, UNCHANGED allvars PROVE SystemInv'
  OBVIOUS
<1>1. UNCHANGED gvars /\ UNCHANGED parservars /\ sentences' = sentences
  BY DEF allvars
<1>2. UNCHANGED vars /\ gram' = gram /\ opc' = opc
  BY <1>1 DEF vars, gvars, program
<1>3. GP!GenInv'
  BY <1>1, GeneratorRests DEF SystemInv
<1>4. Len(fed') <= MaxTokens /\ (sentences' = Nil => Begin')
  BY <1>1 DEF SystemInv, Begin, parservars
<1>5. sentences' # Nil => ValuesInv' /\ (EpsilonFree' => SentencesInv')
  <2>1. EpsilonFree' <=> EpsilonFree
    BY <1>2 DEF EpsilonFree
  <2> QED BY <2>1, <1>1, <1>2, OtherValues, OtherSentences DEF SystemInv
<1>6. sentences' # Nil => opc' = "written" /\ sentences' = Ref!Sentences(gram, MaxTokens - 1)'
  BY <1>1, <1>2 DEF SystemInv
<1> QED BY <1>3, <1>4, <1>5, <1>6 DEF SystemInv

(***************************************************************************)
(* From a grammar to its sentences: what the generator writes is always a  *)
(* program that the parser's invariants hold for.                          *)
(***************************************************************************)
THEOREM SystemInvariant == Spec => []SystemInv
<1>1. SystemInv /\ [Step]_allvars => SystemInv'
  BY GenerateKeeps, CompileKeeps, ParseKeeps, SystemRests DEF Step
<1> QED BY SystemBegins, <1>1, PTL DEF Spec

\* Between two calls the values are the tokens handed over, whatever the grammar.
THEOREM SystemKeepsValues == Spec => []ValuesInOrder
<1>1. SystemInv => ValuesInOrder
  <2> SUFFICES ASSUME SystemInv PROVE ValuesInOrder
    OBVIOUS
  <2>1. CASE sentences # Nil
    BY <2>1 DEF SystemInv, ValuesInv, Kept, ValuesInOrder, Values
  <2>2. CASE sentences = Nil
    <3>1. Begin
      BY <2>2 DEF SystemInv
    <3> DEFINE e == [n \in 1..sp |-> Record(n - 1).item]
    <3>2. e \in [1..0 -> {Record(n - 1).item : n \in 1..sp}] /\ 0 \in Nat
      BY <3>1 DEF Begin
    <3> HIDE DEF e
    <3>3. e = << >>
      <4>1. e \in Seq({Record(n - 1).item : n \in 1..sp}) /\ Len(e) = 0
        BY <3>2, SeqDef, LenProperties
      <4> QED BY <4>1, EmptySeq
    <3>4. FlattenSeq(e) = fed
      BY <3>1, <3>3, FlattenEmpty DEF Begin
    <3> QED BY <3>4 DEF ValuesInOrder, e
  <2> QED BY <2>1, <2>2
<1> QED BY <1>1, SystemInvariant, PTL

(***************************************************************************)
(* __assert_stack never fails in a generated parser whose grammar has no   *)
(* empty rule, with or without conflicts, and on any input.                *)
(***************************************************************************)
THEOREM SystemStackSuffices == Spec => [](EpsilonFree => NeverUnderflows)
<1>1. SystemInv => (EpsilonFree => NeverUnderflows)
  <2> SUFFICES ASSUME SystemInv, EpsilonFree PROVE NeverUnderflows
    OBVIOUS
  <2>1. CASE sentences # Nil
    BY <2>1 DEF SystemInv, SentencesInv, NeverUnderflows
  <2>2. CASE sentences = Nil
    BY <2>2 DEF SystemInv, Begin, NeverUnderflows
  <2> QED BY <2>1, <2>2
<1> QED BY <1>1, SystemInvariant, PTL

(***************************************************************************)
(* A generated parser that accepts has just been given a sentence of its   *)
(* grammar and %eof, conflicts or not, unless a rule is empty.             *)
(***************************************************************************)
THEOREM AcceptsSentencesOnly == Spec => []AcceptsOnlySentences
<1>1. SystemInv => AcceptsOnlySentences
  <2> SUFFICES ASSUME SystemInv, Returned, EpsilonFree, state = 1
               PROVE  \E k \in 1..Len(fed) : IsSentence(SubSeq(fed, k, Len(fed)))
    BY DEF AcceptsOnlySentences
  <2>1. sentences # Nil
    BY DEF SystemInv, Begin, Returned
  <2>2. /\ Len(fed) <= MaxTokens /\ SentencesInv
        /\ sentences = Ref!Sentences(gram, MaxTokens - 1)
    BY <2>1 DEF SystemInv
  <2>3. AcceptsDerived /\ IsGrammar(gram)
    BY <2>2, AcceptsThem DEF SentencesInv, ValuesInv, Program
  <2>4. PICK u \in Tokens, v \in Tokens : fed = u \o (v \o <<Eof>>) /\ Derives(gram, Goal, v)
    BY <2>3 DEF AcceptsDerived, Returned
  <2>5. u \in Seq(gram.terms) /\ v \in Seq(gram.terms) /\ Eof \in gram.terms
    BY <2>3 DEF Tokens, IsGrammar
  <2> DEFINE z == SubSeq(fed, Len(u) + 1, Len(fed))
  <2>6. /\ Len(fed) \in Nat /\ Len(fed) = Len(u) + Len(v) + 1 /\ Len(u) + 1 \in 1..Len(fed)
        /\ z # << >> /\ Last(z) = Eof /\ Front(z) = v
    <3>1. EndsIn(fed, u, v, Eof)
      BY ONLY <2>4, <2>5, SecondPart
    <3> QED BY <3>1 DEF EndsIn
  <2>7. Len(v) \in Nat /\ Len(v) >= 1
    BY <2>3, <2>4, <2>5, NothingDerivesEmpty DEF EpsilonFree
  <2>8. MaxTokens - 1 \in Nat /\ MaxTokens - 1 >= 1 /\ Len(v) <= MaxTokens - 1
    <3>1. Len(u) \in Nat
      BY <2>5, LenProperties
    <3> QED BY <3>1, <2>2, <2>6, <2>7, BoundAssumption
  <2>9. v \in Ref!Sentences(gram, MaxTokens - 1)
    <3>1. Derives(gram, Rhs(gram, 0)[1], v)
      BY <2>4 DEF Goal
    <3> DEFINE n == MaxTokens - 1
    <3>2. n \in Nat /\ n >= 1 /\ Len(v) <= n
      BY <2>8
    <3> HIDE DEF n
    <3>3. v \in Ref!Sentences(gram, n)
      BY <2>3, <2>5, <3>1, <3>2, SentencesFacts
    <3> QED BY <3>3 DEF n
  <2>10. IsSentence(z)
    <3> HIDE DEF z
    <3> QED BY <2>2, <2>6, <2>9 DEF IsSentence
  <2> QED BY <2>6, <2>10
<1> QED BY <1>1, SystemInvariant, PTL

(***************************************************************************)
(* What is missing in the tokens so far to a sentence of a clean grammar   *)
(* is accepted from the states on the stack on.                            *)
(***************************************************************************)
Sents    == {w \in Tokens : IsSentence(w)}
ReadyInv == sentences # Nil /\ clean => EpsilonFree /\ Ready(Sents)

LEMMA CompileReady == SystemInv /\ Compile => ReadyInv'
<1> SUFFICES ASSUME SystemInv, Compile, clean' PROVE EpsilonFree' /\ Ready(Sents)'
  BY DEF ReadyInv
<1>1. /\ opc = "written" /\ sentences = Nil /\ sentences' = Ref!Sentences(gram, MaxTokens - 1)
      /\ reports = {} /\ EpsilonFree /\ G!LookaheadsFound
      /\ UNCHANGED gvars /\ UNCHANGED parservars
  BY DEF Compile, G!Done
<1>2. GP!GenInv /\ Begin
  BY <1>1 DEF SystemInv
<1>3. UNCHANGED vars /\ gram' = gram
  BY <1>1 DEF vars, gvars, program
<1>4. Program /\ IsGrammar(gram)
  BY <1>1, <1>2, Compiles DEF Program
<1>5. PICK F, B : Directed(F, B)
  BY <1>1, <1>2, CompilesDirected
<1>6. PICK W : W = Sents'
  OBVIOUS
<1>7. ASSUME NEW w \in W PROVE \E v : w = v \o <<Eof>> /\ Derives(gram, Goal, v)
  <2>1. w \in Seq(gram.terms) /\ w # << >> /\ Last(w) = Eof /\ Front(w) \in Ref!Sentences(gram, MaxTokens - 1)
    BY <1>1, <1>3, <1>6 DEF Sents, IsSentence, Tokens
  <2>2. w = Front(w) \o <<Eof>>
    BY <2>1, FrontAndLast
  <2>3. Derives(gram, Goal, Front(w))
    <3> DEFINE n == MaxTokens - 1
    <3>1. n \in Nat /\ n >= 1
      BY BoundAssumption, TokensAssumption
    <3> HIDE DEF n
    <3>2. Front(w) \in Ref!Sentences(gram, n)
      BY <2>1 DEF n
    <3> QED BY <1>4, <3>1, <3>2, SentencesOnly DEF Goal
  <2> QED BY <2>2, <2>3
<1>8. Ready(W)
  BY <1>1, <1>2, <1>4, <1>5, <1>7, BeginReady
<1>9. Ready(W)'
  BY <1>3, <1>8, RestReady
<1>10. EpsilonFree'
  BY <1>1, <1>3 DEF EpsilonFree
<1> QED BY <1>6, <1>9, <1>10 DEF Ready

LEMMA ParseReady == SystemInv /\ ReadyInv /\ Parse => ReadyInv'
<1> SUFFICES ASSUME SystemInv, ReadyInv, Parse, clean' PROVE EpsilonFree' /\ Ready(Sents)'
  BY DEF ReadyInv
<1>1. sentences # Nil /\ Next /\ UNCHANGED gvars /\ sentences' = sentences /\ clean
  BY DEF Parse
<1>2. ValuesInv /\ EpsilonFree /\ SentencesInv /\ Ready(Sents)
  BY <1>1 DEF SystemInv, ReadyInv
<1>3. gram' = gram
  BY <1>1 DEF gvars
<1>4. PICK W : W = Sents
  OBVIOUS
<1>5. W = Sents'
  BY <1>1, <1>3, <1>4 DEF Sents, IsSentence, Tokens
<1>6. Ready(W)
  BY <1>2, <1>4
<1>7. Ready(W)'
  BY <1>1, <1>2, <1>6, NoAbort, CallReady, ReduceReady, ShiftReady DEF Next
<1>8. EpsilonFree'
  BY <1>2, <1>3 DEF EpsilonFree
<1> QED BY <1>5, <1>7, <1>8 DEF Ready

LEMMA SystemRestsReady == ReadyInv /\ UNCHANGED allvars => ReadyInv'
<1> SUFFICES ASSUME ReadyInv, UNCHANGED allvars, sentences' # Nil, clean' PROVE EpsilonFree' /\ Ready(Sents)'
  BY DEF ReadyInv
<1>1. sentences' = sentences /\ UNCHANGED gvars /\ UNCHANGED parservars /\ clean /\ sentences # Nil
  BY DEF allvars
<1>2. UNCHANGED vars /\ gram' = gram
  BY <1>1 DEF vars, gvars, program
<1>3. EpsilonFree /\ Ready(Sents)
  BY <1>1 DEF ReadyInv
<1>4. PICK W : W = Sents
  OBVIOUS
<1>5. W = Sents'
  BY <1>1, <1>2, <1>4 DEF Sents, IsSentence, Tokens
<1>6. Ready(W)'
  BY <1>2, <1>3, <1>4, RestReady
<1>7. EpsilonFree'
  BY <1>2, <1>3 DEF EpsilonFree
<1> QED BY <1>5, <1>6, <1>7 DEF Ready

(***************************************************************************)
(* A generated parser accepts every sentence of its grammar, if no rule is *)
(* empty, no conflict was reported and no lookahead was missed.            *)
(***************************************************************************)
THEOREM SystemAcceptsSentences == Spec => []AcceptsSentences
<1>1. Init => SystemInv /\ ReadyInv
  <2>1. Init => SystemInv
    BY SystemBegins
  <2>2. Init => ReadyInv
    BY DEF Init, ReadyInv
  <2> QED BY <2>1, <2>2
<1>2. SystemInv /\ ReadyInv /\ [Step]_allvars => SystemInv' /\ ReadyInv'
  <2> SUFFICES ASSUME SystemInv, ReadyInv, [Step]_allvars PROVE SystemInv' /\ ReadyInv'
    OBVIOUS
  <2>1. CASE Generate
    <3>1. SystemInv'
      BY <2>1, GenerateKeeps
    <3>2. sentences' = Nil
      BY <2>1 DEF Generate, G!Done, SystemInv
    <3> QED BY <3>1, <3>2 DEF ReadyInv
  <2>2. CASE Compile
    BY <2>2, CompileKeeps, CompileReady
  <2>3. CASE Parse
    BY <2>3, ParseKeeps, ParseReady
  <2>4. CASE UNCHANGED allvars
    BY <2>4, SystemRests, SystemRestsReady
  <2> QED BY <2>1, <2>2, <2>3, <2>4 DEF Step
<1>3. SystemInv /\ ReadyInv => AcceptsSentences
  <2> SUFFICES ASSUME SystemInv, ReadyInv, Returned, clean, IsSentence(fed) PROVE state = 1
    BY DEF AcceptsSentences
  <2>1. sentences # Nil /\ pc = "idle"
    BY DEF SystemInv, Begin, Returned
  <2>2. ValuesInv /\ Ready(Sents)
    BY <2>1 DEF SystemInv, ReadyInv
  <2>3. fed \in Sents
    BY <2>2 DEF Sents, ValuesInv, TypeOK
  <2>4. PICK W : W = Sents
    OBVIOUS
  <2> QED BY <2>1, <2>2, <2>3, <2>4, ReadyReturns
<1> QED BY <1>1, <1>2, <1>3, PTL DEF Spec
=============================================================================
