----------------------------- MODULE ReduceCode -----------------------------
(***************************************************************************)
(* codgen.c: the C function that is made from a rule's host code, and the  *)
(* case of __reduce that calls it with places on the parser's stack and    *)
(* destroys the values the code has no name for.                           *)
(*                                                                         *)
(* The generated cases are run on a stack of values.  Tokens and rules     *)
(* come in any order that fits the stack: which of them the tables choose  *)
(* does not matter here.  A value is used up when the code gets it or when *)
(* it is destroyed.  A rule without host code, or without a label for its  *)
(* left side, makes no value: what was in the record before is taken.      *)
(***************************************************************************)
EXTENDS Integers, SequencesExt

CONSTANTS
  Nil,
  Nonterminals,
  Rules,         \* [lhs, ls_label, rs, code], rs a sequence of <<symbol, label or Nil>>
  Declarations,  \* of an extra argument: sequences of "c", " " and "*"
  MaxValues,     \* bound: the values made
  MaxGaps        \* bound: the reductions that make no value

VARIABLES
  extra_argument,   \* a declaration or Nil
  items,            \* index |-> field of the union that was set, value
  symbols,          \* the symbols that the tables take the records below sp for
  made,             \* the values made so far are 1..made
  used,             \* how often each value was used up
  dropped,          \* values taken off the stack by rules without code, for the properties
  gaps              \* the reductions so far that made no value, for the properties

vars == <<extra_argument, items, symbols, made, used, dropped, gaps>>

(***************************************************************************)
(* emit_defines_c: the name in the declaration of the extra argument       *)
(* begins behind the last of " \t*&" that is not behind all names.  The    *)
(* first character is not looked at.                                       *)
(***************************************************************************)
NameBegins(decl) ==
  LET seps  == {k \in 2..Len(decl) : decl[k] # "c"}
      chars == {k \in 2..Len(decl) : decl[k] # " "}
  IN Max({1} \cup {k + 1 : k \in {s \in seps : \E c \in chars : c >= s}})

ExtraArgumentValue(decl) == SubSeq(decl, NameBegins(decl), Len(decl))

-----------------------------------------------------------------------------
(* foreach_rule: the arguments of a rule, the left side first.  An index   *)
(* counts from the stack pointer.                                          *)

LeftArg(r) ==
  IF r.ls_label = Nil THEN << >> ELSE <<[index |-> 0, name |-> r.ls_label, type |-> r.lhs]>>

\* Mutant: the right side is counted from the wrong end.
Args_Backwards(r) ==
  LeftArg(r)
  \o [i \in 1..Len(r.rs) |-> [index |-> 0 - i, name |-> r.rs[i][2], type |-> r.rs[i][1]]]

Args(r) ==
  LeftArg(r)
  \o [i \in 1..Len(r.rs) |->
        [index |-> (i - 1) - Len(r.rs), name |-> r.rs[i][2], type |-> r.rs[i][1]]]

Named(r)   == SelectSeq(Args(r), LAMBDA a : a.name # Nil)
Unnamed(r) == SelectSeq(Args(r), LAMBDA a : a.name = Nil)

\* emit_functions_c: the names of the parameters.
Parameters(r) ==
  (IF extra_argument = Nil THEN << >> ELSE <<"extra">>)
  \o [k \in 1..Len(Named(r)) |-> Named(r)[k].name]

\* emit_reduce_c: what the call passes for them.
Actuals(r) ==
  (IF extra_argument = Nil THEN << >> ELSE <<ExtraArgumentValue(extra_argument)>>)
  \o [k \in 1..Len(Named(r)) |-> <<Named(r)[k].index, Named(r)[k].type>>]

\* The place that the code means by a label.
Meant(r, label) == Actuals(r)[CHOOSE k \in DOMAIN Parameters(r) : Parameters(r)[k] = label]

-----------------------------------------------------------------------------
(* The generated code at run time.                                         *)

sp == Len(symbols)

Init ==
  /\ extra_argument \in Declarations \cup {Nil}
  /\ items = << >> /\ symbols = << >>
  /\ made = 0 /\ used = << >>
  /\ dropped = {} /\ gaps = 0

\* A field of the record at an index, 0 if another field was set.
Field(place) ==
  LET n == sp + place[1]
  IN IF n \in DOMAIN items /\ items[n][1] = place[2] THEN items[n][2] ELSE 0

Put(n, item) == [k \in DOMAIN items \cup {n} |-> IF k = n THEN item ELSE items[k]]

\* __shift: a token with its value.
Shift ==
  /\ made < MaxValues
  /\ items' = Put(sp, <<"__terminal", made + 1>>)
  /\ symbols' = Append(symbols, "__terminal")
  /\ made' = made + 1 /\ used' = Append(used, 0)
  /\ UNCHANGED <<extra_argument, dropped, gaps>>

\* The right side of the rule is on the stack.
Fits(r) == IsSuffix([i \in 1..Len(r.rs) |-> r.rs[i][1]], symbols)

\* The values that the code gets by the labels of the right side, and the destroyed ones.
Got(r) ==
  LET labelled == SelectSeq(r.rs, LAMBDA e : e[2] # Nil)
  IN [k \in 1..Len(labelled) |-> Field(Meant(r, labelled[k][2]))]
Destroyed(r) == [k \in 1..Len(Unnamed(r)) |-> Field(<<Unnamed(r)[k].index, Unnamed(r)[k].type>>)]

Times(v, s) == Len(SelectSeq(s, LAMBDA w : w = v))

\* The record at sp, which __pop copies down.
Top(its) == IF sp \in DOMAIN its THEN its[sp] ELSE <<Nil, 0>>

Pop(its, r) ==
  LET base == sp - Len(r.rs)
  IN /\ items' = [k \in DOMAIN its \cup {base} |-> IF k = base THEN Top(its) ELSE its[k]]
     /\ symbols' = Append(SubSeq(symbols, 1, base), r.lhs)

(***************************************************************************)
(* A case of __reduce with host code: the code leaves a new value in the   *)
(* place it was given for the left side, and the values without a name are *)
(* destroyed.                                                              *)
(***************************************************************************)
ReduceWithCode(r) ==
  LET place == Meant(r, r.ls_label)
      makes == r.ls_label # Nil
  IN /\ r.code /\ Fits(r)
     /\ IF makes THEN made < MaxValues ELSE gaps < MaxGaps
     /\ Pop(IF makes THEN Put(sp + place[1], <<place[2], made + 1>>) ELSE items, r)
     /\ made' = IF makes THEN made + 1 ELSE made
     /\ used' = [v \in 1..made' |-> IF v > made THEN 0
                                    ELSE used[v] + Times(v, Got(r) \o Destroyed(r))]
     /\ gaps' = IF makes THEN gaps ELSE gaps + 1
     /\ UNCHANGED <<extra_argument, dropped>>

\* A case of __reduce without host code: nothing is called, nothing destroyed.
ReduceWithoutCode(r) ==
  /\ ~ r.code /\ Fits(r)
  /\ gaps < MaxGaps
  /\ Pop(items, r)
  /\ dropped' = dropped \cup {items[n][2] : n \in sp - Len(r.rs)..sp - 1}
  /\ gaps' = gaps + 1
  /\ UNCHANGED <<extra_argument, made, used>>

Next == Shift \/ \E r \in Rules : ReduceWithCode(r) \/ ReduceWithoutCode(r)

Spec == Init /\ [][Next]_vars

-----------------------------------------------------------------------------
(***************************************************************************)
(* The extra argument is passed on by its own name, without its type.      *)
(***************************************************************************)
ExtraPassedOn ==
  extra_argument # Nil =>
    LET first == NameBegins(extra_argument)
        last  == Max({k \in DOMAIN extra_argument : extra_argument[k] = "c"})
    IN /\ first <= last /\ \A k \in first..last : extra_argument[k] = "c"
       /\ first = 1 \/ extra_argument[first - 1] # "c"

OnStack(v) == Cardinality({n \in 0..sp - 1 : items[n][2] = v})

(***************************************************************************)
(* A value is on the stack until it is used up: the code of its rule gets  *)
(* it under its label or, without one, it is destroyed.  Only rules        *)
(* without code lose values, and as long as every rule makes a value none  *)
(* is used up twice.                                                       *)
(***************************************************************************)
ValuesUsedOnce ==
  /\ ExtraPassedOn
  /\ \A v \in 1..made \ dropped : used[v] + OnStack(v) >= 1
  /\ gaps = 0 => \A v \in 1..made : used[v] + OnStack(v) = 1
=============================================================================
