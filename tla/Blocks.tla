------------------------------- MODULE Blocks -------------------------------
(***************************************************************************)
(* rc.c, array.c and strarr.c: memory blocks that count their references,  *)
(* as operators on a heap.  A heap gives every address a block; a block    *)
(* whose count is 0 is free, and malloc may hand it out again at once.     *)
(* A string has a text.  An array has elements, each a tuple of the strings*)
(* that its destructor releases: <<name, label>> in an array of grammar    *)
(* elements, <<string>> in a strarr.                                       *)
(*                                                                         *)
(* Allocation does not fail here.  NULL is Nil.                            *)
(***************************************************************************)
EXTENDS Integers, SequencesExt

CONSTANTS
  Nil,
  Addresses,    \* bound: the addresses there are
  Reserve       \* the first capacity of an array, 32 in bnf.ly

ASSUME HeapAssumption == Addresses \subseteq Nat /\ Nil \notin Addresses /\ Reserve \in Nat \ {0}

Free == [cnt |-> 0, text |-> << >>, elems |-> << >>, space |-> 0]

\* The address that malloc gives.
Fresh(h) == CHOOSE b \in Addresses :
              h[b].cnt = 0 /\ \A c \in Addresses : h[c].cnt = 0 => b <= c

\* rcstrndup, and rcalloc with an element or room for elements in it.
String(h, t) == [h EXCEPT ![Fresh(h)] = [Free EXCEPT !.cnt = 1, !.text = t]]
Element(h, e) == [h EXCEPT ![Fresh(h)] = [Free EXCEPT !.cnt = 1, !.elems = <<e>>]]
Array(h) == [h EXCEPT ![Fresh(h)] = [Free EXCEPT !.cnt = 1, !.space = Reserve]]

Ref(h, b) == IF b = Nil THEN h ELSE [h EXCEPT ![b].cnt = @ + 1]
Unref(h, b) == IF b = Nil THEN h ELSE [h EXCEPT ![b].cnt = @ - 1]
UnrefAll(h, bs) == FoldLeft(Unref, h, bs)

\* The strings an array or element holds references to.
Held(h, b) == FlattenSeq(h[b].elems)

\* array_unref, strarr_unref: the last reference takes the elements with it.
UnrefArray(h, b) ==
  IF h[b].cnt = 1 THEN UnrefAll(Unref(h, b), Held(h, b)) ELSE Unref(h, b)

Full(h, b) == Len(h[b].elems) = h[b].space

(***************************************************************************)
(* array_push: the element is copied, and its references with it.  A full  *)
(* array is doubled, which moves it to another address: PlaceOf says where *)
(* it is afterwards.                                                       *)
(***************************************************************************)
PlaceOf(h, b) == IF Full(h, b) THEN Fresh(h) ELSE b

Push(h, b, e) ==
  LET pushed == [h[b] EXCEPT !.elems = Append(@, e)]
  IN IF Full(h, b) THEN [h EXCEPT ![b] = Free, ![Fresh(h)] = [pushed EXCEPT !.space = 2 * @]]
                   ELSE [h EXCEPT ![b] = pushed]

\* strarr_push: as above, but with a new reference to the string.
PushString(h, b, s) == Ref(Push(h, b, <<s>>), s)
=============================================================================
