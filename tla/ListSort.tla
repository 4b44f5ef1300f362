------------------------------ MODULE ListSort ------------------------------
(***************************************************************************)
(* common.c: lsort, the merge sort of linked lists that lalr.c uses on the *)
(* lookback lists.  It cuts a list by moving its nodes to the fronts of    *)
(* two others, which turns both around, sorts these the other way round,   *)
(* and merges them by moving nodes to the front of the result, which turns *)
(* the order around once more.                                             *)
(*                                                                         *)
(* A list is a sequence of nodes; a node is <<key, place in the input>>,   *)
(* of which compar only sees the key.                                      *)
(***************************************************************************)
EXTENDS Integers, SequencesExt

CONSTANTS Keys, MaxLength   \* MaxLength bounds the lists

VARIABLES list, pc

vars == <<list, pc>>

Node  == Keys \X (1..MaxLength)
Lists == Seq(Node)
Orders == {1, -1}

Init ==
  /\ \E n \in 0..MaxLength : \E k \in [1..n -> Keys] : list = [p \in 1..n |-> <<k[p], p>>]
  /\ pc = "unsorted"

\* The nodes of s at places p, p + 2, ..., the last of them in front.
EveryOther(s, p) == Reverse([k \in 1..(Len(s) + 2 - p) \div 2 |-> s[2 * k - 2 + p]])

\* The order in which nodes are taken from two lists.
Taken[a \in Lists, b \in Lists, order \in Orders] ==
  IF a = << >> THEN b
  ELSE IF b = << >> THEN a
  ELSE IF order * (Head(a)[1] - Head(b)[1]) < 0
       THEN <<Head(b)>> \o Taken[a, Tail(b), order]
       ELSE <<Head(a)>> \o Taken[Tail(a), b, order]

\* Mutant: the parts are sorted in the same order as the whole.
DoSort_SameOrder ==
  LET sort[s \in Lists, order \in Orders] ==
        IF Len(s) < 2 THEN s
        ELSE Reverse(Taken[sort[EveryOther(s, 1), order], sort[EveryOther(s, 2), order], order])
  IN sort

DoSort ==
  LET sort[s \in Lists, order \in Orders] ==
        IF Len(s) < 2 THEN s
        ELSE Reverse(Taken[sort[EveryOther(s, 1), -order], sort[EveryOther(s, 2), -order], order])
  IN sort

Sort ==
  /\ pc = "unsorted"
  /\ list' = DoSort[list, 1] /\ pc' = "sorted"

Next == Sort

Spec == Init /\ [][Next]_vars

-----------------------------------------------------------------------------
(***************************************************************************)
(* The list keeps every node, once, and comes out in ascending order       *)
(* although cutting and merging each turn the nodes around: this is what   *)
(* lalr_state relies on when it walks a lookback list beside the items.    *)
(***************************************************************************)
Ascends == \A p \in 1..Len(list) - 1 : list'[p][1] <= list'[p + 1][1]

SortsAscending == [][ToSet(list') = ToSet(list) /\ Len(list') = Len(list) /\ Ascends]_vars
=============================================================================
