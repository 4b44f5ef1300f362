----------------------------- MODULE BnfGrammar -----------------------------
(***************************************************************************)
(* What lemon's tables do.  lemon makes an LALR(1) parser of bnf.ly, whose *)
(* grammar has no conflicts: a token can be shifted exactly if the symbols *)
(* on the stack, with the token, can begin a file.                         *)
(***************************************************************************)
EXTENDS BnfParser

Nonterminals == DOMAIN Alternatives

Begins(v, w) == Len(v) <= Len(w) /\ SubSeq(w, 1, Len(v)) = v

(***************************************************************************)
(* Whether the symbols w can be on the stack while a phrase of nonterminal *)
(* n is read: w is the beginning of a right side, or a whole part of one   *)
(* and a beginning of the nonterminal behind that part.  (A left-recursive *)
(* right side has nothing new in front of its first symbol.)               *)
(***************************************************************************)
RECURSIVE CanBegin(_, _)
CanBegin(n, w) ==
  \E rhs \in Alternatives[n] :
    \/ Begins(w, rhs)
    \/ \E k \in 0..Len(rhs) - 1 :
         /\ rhs[k + 1] \in Nonterminals \ (IF k = 0 THEN {n} ELSE {})
         /\ Begins(SubSeq(rhs, 1, k), w)
         /\ CanBegin(rhs[k + 1], SubSeq(w, k + 1, Len(w)))

ViablePrefix(w) == CanBegin("rules", w)
=============================================================================
