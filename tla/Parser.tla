------------------------------- MODULE Parser -------------------------------
(***************************************************************************)
(* template_c.c with the code that codgen.c puts into it: the generated    *)
(* parser at run time.  A caller allocates a parser and hands it tokens,   *)
(* one call of parser_parse for each.  In a call the parser reduces while  *)
(* its tables say so, then shifts the token.                               *)
(*                                                                         *)
(* The stack is an array of records and a pointer sp.  A shift writes the  *)
(* state into the record at sp; a reduction does not, and reads the record *)
(* at the place it pops to.  What is above sp stays as it was, so record n *)
(* is kept for every n that was written once; the others are zero from     *)
(* calloc.  The item of a record is the union of the semantic values: here *)
(* it is the sequence of tokens that the value was made from, as if every  *)
(* rule had host code that takes all its arguments.                        *)
(***************************************************************************)
EXTENDS GrammarData, SequencesExt

CONSTANTS
  MaxTokens,      \* bound: tokens the caller hands over
  MaxReduces      \* bound: reductions in one call

ASSUME BoundAssumption == MaxTokens \in Nat /\ MaxReduces \in Nat

VARIABLES
  gram, actions, gotos,   \* what was compiled into the parser; not changed
  pc,         \* "idle", "parsing", "aborted"
  state,      \* parser->state
  records,    \* stack.base: index from 0 |-> state and item
  sp,         \* stack.sp - stack.base
  token,      \* the argument of the current call
  reduces,    \* reductions made in the current call
  fed         \* the tokens handed over so far, for the properties

program    == <<gram, actions, gotos>>
parservars == <<pc, state, records, sp, token, reduces, fed>>
vars       == <<program, parservars>>

Zero == [state |-> 0, item |-> << >>]
Record(n) == IF n \in DOMAIN records THEN records[n] ELSE Zero

\* sym->id, the token numbers of the generated header file.
SymId(x) == SymbolId(gram, x)

Action(s, x) == actions[s + 1][SymId(x)]
GotoOf(s, x) == gotos[s + 1][SymId(x)]

\* parser_alloc.
Begin ==
  /\ pc = "idle" /\ state = 0
  /\ records = << >> /\ sp = 0
  /\ token = Nil /\ reduces = 0 /\ fed = << >>

\* parser_parse is called with a token.
Call ==
  /\ pc = "idle" /\ Len(fed) < MaxTokens
  /\ \E t \in gram.terms : token' = t /\ fed' = Append(fed, t)
  /\ pc' = "parsing" /\ reduces' = 0
  /\ UNCHANGED <<program, state, records, sp>>

\* The item that a reduction makes of the count topmost ones.  The rule's code
\* leaves it in the record at sp, from where __pop copies it down.
Made(count) == FlattenSeq([k \in 1..count |-> Record(sp - count + k - 1).item])

\* Mutant: the item is not copied down.
Popped_NotCopied(count) ==
  [k \in DOMAIN records \cup {sp} |->
     IF k = sp THEN [Record(k) EXCEPT !.item = Made(count)] ELSE records[k]]

Popped(count) ==
  [k \in DOMAIN records \cup {sp} |->
     IF k \in {sp - count, sp} THEN [Record(k) EXCEPT !.item = Made(count)] ELSE records[k]]

\* Mutant: the state is read from the record above the new one.
Reduce_Above ==
  /\ pc = "parsing" /\ Action(state, token) # 0 /\ reduces < MaxReduces
  /\ LET r     == Action(state, token)
         count == Length(gram, r)
         base  == sp - count
     IN /\ sp >= count
        /\ records' = Popped(count)
        /\ sp' = base + 1
        /\ state' = GotoOf(Record(base + 1).state, Lhs(gram, r))
  /\ reduces' = reduces + 1
  /\ UNCHANGED <<program, pc, token, fed>>

\* Mutant: the record pointer is moved down once more.
Reduce_TooFar ==
  /\ pc = "parsing" /\ Action(state, token) # 0 /\ reduces < MaxReduces
  /\ LET r     == Action(state, token)
         count == Length(gram, r)
         base  == sp - count
     IN /\ sp >= count
        /\ records' = Popped(count)
        /\ sp' = base
        /\ state' = GotoOf(Record(base).state, Lhs(gram, r))
  /\ reduces' = reduces + 1
  /\ UNCHANGED <<program, pc, token, fed>>

(***************************************************************************)
(* One turn of the loop of parser_parse: the rule's case of __reduce, with *)
(* __assert_stack passed, and __pop.                                       *)
(***************************************************************************)
Reduce ==
  /\ pc = "parsing" /\ Action(state, token) # 0 /\ reduces < MaxReduces
  /\ LET r     == Action(state, token)
         count == Length(gram, r)
         base  == sp - count
     IN /\ sp >= count
        /\ records' = Popped(count)
        /\ sp' = base + 1
        /\ state' = GotoOf(Record(base).state, Lhs(gram, r))
  /\ reduces' = reduces + 1
  /\ UNCHANGED <<program, pc, token, fed>>

\* __assert_stack finds fewer records than the rule has symbols.
Abort ==
  /\ pc = "parsing" /\ Action(state, token) # 0
  /\ sp < Length(gram, Action(state, token))
  /\ pc' = "aborted"
  /\ UNCHANGED <<program, state, records, sp, token, reduces, fed>>

\* Mutant: a token that does not fit leaves the state as it is.
Shift_Ignores ==
  /\ pc = "parsing" /\ Action(state, token) = 0
  /\ records' = [k \in DOMAIN records \cup {sp} |->
                   IF k = sp THEN [state |-> state, item |-> <<token>>] ELSE records[k]]
  /\ sp' = sp + 1
  /\ state' = IF GotoOf(state, token) = 0 THEN state ELSE GotoOf(state, token)
  /\ pc' = "idle"
  /\ UNCHANGED <<program, token, reduces, fed>>

\* __shift, after which the call returns whether the state is 1.
Shift ==
  /\ pc = "parsing" /\ Action(state, token) = 0
  /\ records' = [k \in DOMAIN records \cup {sp} |->
                   IF k = sp THEN [state |-> state, item |-> <<token>>] ELSE records[k]]
  /\ sp' = sp + 1
  /\ state' = GotoOf(state, token)
  /\ pc' = "idle"
  /\ UNCHANGED <<program, token, reduces, fed>>

Next == Call \/ Reduce \/ Abort \/ Shift

-----------------------------------------------------------------------------
(* Properties.                                                             *)

(***************************************************************************)
(* The items on the stack, one after the other, are the tokens handed over *)
(* so far: no value is lost, doubled or moved, on any grammar and any      *)
(* input, and even behind tokens that do not fit.                          *)
(***************************************************************************)
ValuesInOrder ==
  pc = "idle" => FlattenSeq([n \in 1..sp |-> Record(n - 1).item]) = fed

\* The abort of __assert_stack is not reached, which its comment calls a bug.
NeverUnderflows == pc # "aborted"
=============================================================================
