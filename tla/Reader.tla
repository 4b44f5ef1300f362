------------------------------- MODULE Reader -------------------------------
(***************************************************************************)
(* yy.rl: the scanner, which reads a grammar file and calls BnfParser with *)
(* each token.  It has two modes: in "main" it knows the tokens of bnf.ly, *)
(* and from an opening brace on it reads host code in "text", counting     *)
(* braces, up to the one that closes the first.                            *)
(*                                                                         *)
(* A file is a sequence of pieces: the lexemes of main, or runs of other   *)
(* characters in text.  Each of these makes one token.  The file is not    *)
(* given beforehand; every action chooses the piece that it reads.  The    *)
(* buffer's end after 1 MB is one of the places where the file can end.    *)
(***************************************************************************)
EXTENDS BnfParser

CONSTANTS
  Words,        \* names in grammar files
  Runs,         \* runs of other characters in host code
  Pragmas,      \* the pragmas files use
  MaxPieces     \* bound: pieces of a file

ASSUME PieceAssumption ==
  /\ Words \cap (Pragmas \cup {"::=", ".", "(", ")", "{", "}"}) = {}
  /\ Runs \cap {"{", "}"} = {} /\ MaxPieces \in Nat

VARIABLES
  mode,     \* "main", "text", or "over": the scanner has stopped
  level,    \* curllevel
  run,      \* the piece read last was a run of other characters
  source,   \* the pieces read
  whole     \* how many of them are in rules that are complete, for the properties

scanvars == <<mode, level, run, source, whole>>
allvars  == <<vars, scanvars>>

ReaderInit ==
  /\ Init
  /\ mode = "main" /\ level = 0 /\ run = FALSE /\ source = << >> /\ whole = 0

\* A piece p is read and makes a token.
Token(sym, p) ==
  /\ Len(source) < MaxPieces
  /\ Give(sym, <<p>>)
  /\ source' = Append(source, p)
  /\ UNCHANGED whole

\* A pragma that bnf.ly knows only as a fallback is looked up as one by lemon.
Kind(p) == IF p \in Words THEN "WORD" ELSE IF p = "%syntax_error" THEN "PRAGMA" ELSE p

Simple ==
  /\ mode = "main"
  /\ \E p \in Words \cup Pragmas \cup {"::=", ".", "(", ")", "}"} : Token(Kind(p), p)
  /\ UNCHANGED <<mode, level, run>>

OpenCode ==
  /\ mode = "main"
  /\ Token("{", "{")
  /\ mode' = "text" /\ level' = level + 1
  /\ UNCHANGED run

\* [^{}]+ takes as much as there is: no two runs follow each other.
OtherText ==
  /\ mode = "text" /\ ~ run
  /\ \E p \in Runs : Token("TEXT", p)
  /\ run' = TRUE
  /\ UNCHANGED <<mode, level>>

OpenBrace ==
  /\ mode = "text"
  /\ Token("TEXT", "{")
  /\ level' = level + 1 /\ run' = FALSE
  /\ UNCHANGED mode

CloseBrace ==
  /\ mode = "text" /\ level > 1
  /\ Token("TEXT", "}")
  /\ level' = level - 1 /\ run' = FALSE
  /\ UNCHANGED mode

\* Mutant: any closing brace ends the host code.
CloseCode_Any ==
  /\ mode = "text" /\ level > 0
  /\ Token("}", "}")
  /\ mode' = "main" /\ level' = level - 1 /\ run' = FALSE

\* The outermost brace is given back to the text (fhold) and read again in main.
CloseCode ==
  /\ mode = "text" /\ level = 1
  /\ Token("}", "}")
  /\ mode' = "main" /\ level' = 0 /\ run' = FALSE

(***************************************************************************)
(* The end of the file, or a character that begins no token.  The scanner  *)
(* stops at both and does not tell them apart: the parser gets an end of   *)
(* input.                                                                  *)
(***************************************************************************)
Stop ==
  /\ mode # "over"
  /\ GiveEnd
  /\ mode' = "over"
  /\ UNCHANGED <<level, run, source, whole>>

Scan ==
  \/ Simple \/ OpenCode \/ OtherText \/ OpenBrace \/ CloseBrace \/ CloseCode \/ Stop

\* The pieces of the rule read so far, without the token in hand, which is the last piece.
Consumed ==
  SubSeq(source, whole + 1, Len(source) - (IF token = Nil \/ token.sym = "$" THEN 0 ELSE 1))

Parse ==
  /\ Shift \/ Accept \/ SyntaxError \/ Action
  /\ whole' = IF Symbols(stack') = <<"rules">> THEN whole + Len(Consumed) ELSE whole
  /\ UNCHANGED <<mode, level, run, source>>

ReaderNext == Scan \/ Parse

ReaderSpec == ReaderInit /\ [][ReaderNext]_allvars

-----------------------------------------------------------------------------
(* Properties.                                                             *)

Count(b, bs) == Cardinality({k \in DOMAIN bs : bs[k] = b})
Live == {b \in Addresses : heap[b].cnt > 0}

\* The references to block b: on the stack, in the token, in elements and arrays.
Owners(b) ==
  Count(b, [k \in 1..Len(stack) |-> stack[k].val])
    + (IF token # Nil /\ token.val = b THEN 1 ELSE 0)
    + MapThenSumSet(LAMBDA c : Count(b, Held(heap, c)), Live)

(***************************************************************************)
(* Between two actions every block has exactly as many references as it    *)
(* counts: nothing is released twice or used after it was freed, and       *)
(* nothing is left behind when the file is accepted.  And no array is      *)
(* written beyond its capacity, although pushing moves it.                 *)
(***************************************************************************)
BlocksSound ==
  /\ \A b \in Addresses : heap[b].cnt = Owners(b)
  /\ \A b \in Live : heap[b].space > 0 => Len(heap[b].elems) <= heap[b].space

\* What a rule of the file says, by the places of its pieces.
Inside(s) == SubSeq(s, 3, Len(s) - 1)
Elements(s) ==
  LET names == SelectSeq([k \in 1..Len(s) |-> k],
                         LAMBDA k : s[k] \in Words /\ ~ (k > 1 /\ s[k - 1] = "("))
  IN [n \in 1..Len(names) |->
        LET k == names[n]
        IN << <<s[k]>>, IF k < Len(s) /\ s[k + 1] = "(" THEN <<s[k + 2]>> ELSE Nil >>]

Meaning(s) ==
  CASE s[1] \in TextSettings   -> << <<s[1], Inside(s)>> >>
    [] s[1] \in SymbolTexts    -> << <<s[1], <<s[2]>>, Tail(Inside(s))>> >>
    [] s[1] = "%start_symbol"  -> << <<s[1], <<s[2]>> >> >>
    [] s[1] = "%syntax_error"  -> << >>
    [] s[1] = "%fallback"      ->
         [k \in 1..2 * (Len(s) - 3) |->
            LET r == <<s[(k + 1) \div 2 + 2]>>
            IN IF k % 2 = 1 THEN <<"deduce", <<s[2]>>, r>>
               ELSE RuleCall(<< <<s[2]>>, "LL">>, << <<r, "RR">> >>, "LL = RR;")]
    [] OTHER ->
         LET is  == CHOOSE k \in 1..Len(s) : s[k] = "::="
             dot == CHOOSE k \in 1..Len(s) : s[k] = "." /\ \A j \in 1..k - 1 : s[j] # "."
         IN << RuleCall(Elements(SubSeq(s, 1, is - 1))[1], Elements(SubSeq(s, is + 1, dot - 1)),
                        IF dot = Len(s) THEN Nil ELSE SubSeq(s, dot + 2, Len(s) - 1)) >>

(***************************************************************************)
(* The grammar store is told what the file says: names, labels and host    *)
(* code arrive unchanged and in their order, host code with its nested     *)
(* braces, read from strings that are still alive.                         *)
(***************************************************************************)
CallsMeanSource ==
  stack # << >> /\ Last(stack).sym = "rule" => calls = Meaning(Consumed)

\* What a rule is, told from its text: host code is enclosed by the braces that match.
Depth(s) == Count("{", s) - Count("}", s)
InBraces(s) ==
  /\ Len(s) >= 2 /\ s[1] = "{" /\ Last(s) = "}"
  /\ \A k \in 2..Len(s) - 1 : s[k] \in Runs \cup {"{", "}"}
  /\ \A k \in 1..Len(s) : Depth(SubSeq(s, 1, k)) > 0 <=> k < Len(s)
IsCode(s) == InBraces(s) /\ Len(s) > 2

\* Every piece is a name, or part of a label in parentheses behind a name.
IsLabel(s, k) ==
  /\ k > 1 /\ k + 2 <= Len(s)
  /\ s[k - 1] \in Words /\ s[k] = "(" /\ s[k + 1] \in Words /\ s[k + 2] = ")"
AreSymbols(s) ==
  \A k \in 1..Len(s) :
    \/ s[k] \in Words
    \/ s[k] = "(" /\ IsLabel(s, k)
    \/ s[k] = ")" /\ IsLabel(s, k - 2)

IsProduction(s) ==
  \E is, dot \in 1..Len(s) :
    /\ s[is] = "::=" /\ s[dot] = "." /\ is < dot
    /\ s[1] \in Words /\ (is = 2 \/ (is = 5 /\ IsLabel(s, 2)))
    /\ AreSymbols(SubSeq(s, is + 1, dot - 1))
    /\ dot = Len(s) \/ InBraces(SubSeq(s, dot + 1, Len(s)))

IsRule(s) ==
  \/ s[1] \in TextSettings   /\ IsCode(Tail(s))
  \/ s[1] \in SymbolTexts    /\ Len(s) > 1 /\ s[2] \in Words /\ IsCode(SubSeq(s, 3, Len(s)))
  \/ s[1] = "%start_symbol"  /\ Len(s) = 2 /\ s[2] \in Words
  \/ s[1] = "%fallback"      /\ Len(s) > 3 /\ Last(s) = "." /\ \A k \in 2..Len(s) - 1 : s[k] \in Words
  \/ s[1] = "%syntax_error"  /\ (Len(s) = 1 \/ IsCode(Tail(s)))
  \/ IsProduction(s)

RECURSIVE AreRules(_)
AreRules(s) ==
  \/ s = << >>
  \/ \E k \in 1..Len(s) : IsRule(SubSeq(s, 1, k)) /\ AreRules(SubSeq(s, k + 1, Len(s)))

(***************************************************************************)
(* Whatever ends a file - its end, a character that the scanner does not   *)
(* know, the end of the buffer, a read error - it is accepted exactly if   *)
(* the text in front of that place is a sequence of rules.  So a file that *)
(* is cut inside a rule is refused, with one exception, in which a rule    *)
(* loses a part without a message: as host code may be missing, it is lost *)
(* if the cut is right in front of its brace.                              *)
(***************************************************************************)
AcceptsRulesOnly == pc # "reading" => (pc = "accepted" <=> AreRules(source))
=============================================================================
