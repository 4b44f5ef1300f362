---------------------------- MODULE GrammarText -----------------------------
(***************************************************************************)
(* grammar.c: the strings of the grammar store, which only the code        *)
(* generator reads: the settings of the grammar, host code, types and      *)
(* destructors of nonterminals, labels and code of rules.  Each is a copy  *)
(* in a block of its own, and grammar_free releases them.                  *)
(*                                                                         *)
(* GrammarStore has the other half of the store, the symbols and rules     *)
(* that make the automaton.                                                *)
(***************************************************************************)
EXTENDS Integers, SequencesExt

CONSTANTS
  Nil,
  Names, Strings,
  MaxCalls      \* bound: the calls made while a file is read

\* The pointers to strings in struct grammar, but for host_code, and in struct symbol.
Settings ==
  {"machine_name", "extra_argument", "terminal_host_type", "terminal_destructor_code"}
Fields == (Settings \X {Nil}) \cup ({"host_type", "destructor_code"} \X Names)

VARIABLES
  blocks,       \* the blocks allocated so far: text and how often it was freed
  field,        \* field |-> block or Nil
  host_code,    \* block or Nil
  rules,        \* lists of blocks, one for each rule
  freed,        \* grammar_free was called
  calls         \* the calls so far, for the properties

vars == <<blocks, field, host_code, rules, freed, calls>>

Init ==
  /\ blocks = << >>
  /\ field = [f \in Fields |-> Nil] /\ host_code = Nil /\ rules = << >>
  /\ freed = FALSE /\ calls = << >>

Reads(call) == ~ freed /\ Len(calls) < MaxCalls /\ calls' = Append(calls, call)

\* strdup: the new block is the last one.
Copy(t) == Append(blocks, [text |-> t, frees |-> 0])
New == Len(blocks) + 1

Put(f, t) == blocks' = Copy(t) /\ field' = [field EXCEPT ![f] = New]

(***************************************************************************)
(* grammar_name, grammar_set_extra_argument, grammar_assign_terminal_type, *)
(* grammar_assign_type, grammar_assign_terminal_destructor and             *)
(* grammar_assign_destructor: a string that is there already stays.        *)
(***************************************************************************)
Assign(f, t) ==
  /\ Reads(<<"assign", f, t>>)
  /\ IF field[f] = Nil THEN Put(f, t) ELSE UNCHANGED <<blocks, field>>
  /\ UNCHANGED <<host_code, rules, freed>>

\* grammar_add_host_code: both texts in a new block; the old one is freed.
AddHostCode(t) ==
  /\ Reads(<<"code", t>>)
  /\ blocks' = IF host_code = Nil THEN Copy(t)
               ELSE [Copy(blocks[host_code].text \o t) EXCEPT ![host_code].frees = @ + 1]
  /\ host_code' = New
  /\ UNCHANGED <<field, rules, freed>>

Type(n) == <<"host_type", n>>

\* Mutant: the string is shared.
DeduceType_Shares(l, r) ==
  /\ Reads(<<"deduce", l, r>>)
  /\ IF field[Type(l)] = Nil THEN field' = [field EXCEPT ![Type(l)] = field[Type(r)]]
     ELSE UNCHANGED field
  /\ UNCHANGED <<blocks, host_code, rules, freed>>

\* grammar_deduce_type: l gets a copy of r's type if it has none.
DeduceType(l, r) ==
  /\ Reads(<<"deduce", l, r>>)
  /\ IF field[Type(l)] = Nil /\ field[Type(r)] # Nil
     THEN Put(Type(l), blocks[field[Type(r)]].text)
     ELSE UNCHANGED <<blocks, field>>
  /\ UNCHANGED <<host_code, rules, freed>>

\* grammar_nonterminal, of which only the labels and the code that there are matter.
AddRule(ts) ==
  /\ Reads(<<"rule", ts>>)
  /\ blocks' = blocks \o [k \in 1..Len(ts) |-> [text |-> ts[k], frees |-> 0]]
  /\ rules' = Append(rules, [k \in 1..Len(ts) |-> Len(blocks) + k])
  /\ UNCHANGED <<field, host_code, freed>>

\* The pointers to block b that the store has.
Pointers(b) ==
  Cardinality({f \in Fields : field[f] = b}) + (IF host_code = b THEN 1 ELSE 0)
    + Len(SelectSeq(FlattenSeq(rules), LAMBDA c : c = b))

\* grammar_free, and destroy_symbol, destroy_nonterminal and destroy_rule.
GrammarFree ==
  /\ ~ freed /\ freed' = TRUE
  /\ blocks' = [b \in DOMAIN blocks |-> [blocks[b] EXCEPT !.frees = @ + Pointers(b)]]
  /\ UNCHANGED <<field, host_code, rules, calls>>

Next ==
  \/ \E f \in Fields, t \in Strings : Assign(f, t)
  \/ \E t \in Strings : AddHostCode(t)
  \/ \E l, r \in Names : DeduceType(l, r)
  \/ \E s \in Strings, t \in Strings : AddRule(<<s, t>>)
  \/ GrammarFree

Spec == Init /\ [][Next]_vars

-----------------------------------------------------------------------------
(* Properties.                                                             *)

Text(b) == IF b = Nil THEN Nil ELSE blocks[b].text

\* What the calls give a field: the first text assigned to it or deduced for it.
FieldMeant[f \in Fields, n \in 0..MaxCalls] ==
  IF n = 0 THEN Nil
  ELSE LET before == FieldMeant[f, n - 1]
           call   == calls[n]
       IN IF before # Nil THEN before
          ELSE IF call[1] = "assign" /\ call[2] = f THEN call[3]
          ELSE IF call[1] = "deduce" /\ f = Type(call[2]) THEN FieldMeant[Type(call[3]), n - 1]
          ELSE Nil

(***************************************************************************)
(* The store has the first text for every setting, type and destructor,    *)
(* a deduced type being the one that the other name had at that time; all  *)
(* host code in the order it came in; and the texts of rules.  Every block *)
(* has one owner until it is freed, and grammar_free leaves nothing, and   *)
(* frees nothing twice.                                                    *)
(***************************************************************************)
StringsKept ==
  /\ \A f \in Fields : Text(field[f]) = FieldMeant[f, Len(calls)]
  /\ LET added == SelectSeq(calls, LAMBDA c : c[1] = "code")
     IN host_code # Nil => Text(host_code) = FlattenSeq([k \in 1..Len(added) |-> added[k][2]])
  /\ LET added == SelectSeq(calls, LAMBDA c : c[1] = "rule")
     IN [k \in 1..Len(rules) |-> [j \in 1..2 |-> Text(rules[k][j])]] =
        [k \in 1..Len(added) |-> added[k][2]]
  /\ \A b \in DOMAIN blocks : blocks[b].frees + (IF freed THEN 0 ELSE Pointers(b)) = 1
=============================================================================
