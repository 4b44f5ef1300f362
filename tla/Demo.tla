-------------------------------- MODULE Demo --------------------------------
(***************************************************************************)
(* demo/demo.c: the program around the parser generated from demo.yy.  It  *)
(* reads a line, cuts it into tokens and hands them to a new parser until  *)
(* that accepts or a character is no token.                                *)
(*                                                                         *)
(* A line is a sequence of characters as fgets leaves it in buf: "d" for   *)
(* digits, ".", "+" for operators and parentheses, " ", "\n" and "?" for   *)
(* what is none of these; numbers have no exponents and no other base.     *)
(* Behind the last character stands a NUL.  Of the parser only this is     *)
(* known: it accepts no earlier than at token 0, and then if the tokens    *)
(* are a sentence (the properties of System).                              *)
(***************************************************************************)
EXTENDS Integers, SequencesExt

CONSTANT MaxLine    \* bound: characters of a line

VARIABLES
  line,     \* buf
  pos,      \* where in buf, from 1
  done,
  id,       \* the token to hand over
  pc,       \* "scan", "parse", "move", "over": the line is done with
  said      \* the message written: a syntax error or none

vars == <<line, pos, done, id, pc, said>>

\* fgets stops behind the first line end; the last line may be without one.
Init ==
  /\ \E n \in 1..MaxLine :
       line \in {l \in [1..n -> {"d", ".", "+", " ", "\n", "?"}] : \A k \in 1..n - 1 : l[k] # "\n"}
  /\ pos = 1 /\ done = FALSE /\ id = 0 /\ pc = "scan" /\ said = FALSE

Char(p) == IF p <= Len(line) THEN line[p] ELSE "NUL"

Blank ==
  /\ pc = "scan" /\ Char(pos) = " "
  /\ pos' = pos + 1
  /\ UNCHANGED <<line, done, id, pc, said>>

\* The token that a character begins; an operator's number is not told from another's.
Token ==
  /\ pc = "scan" /\ Char(pos) \in {"d", ".", "+", "\n"}
  /\ id' = CASE Char(pos) \in {"d", "."} -> 1 [] Char(pos) = "+" -> 2 [] OTHER -> 0
  /\ pc' = "parse"
  /\ UNCHANGED <<line, pos, done, said>>

\* Mutant: the message is written, and the loop goes on.
NoToken_GoesOn ==
  /\ pc = "scan" /\ Char(pos) \notin {"d", ".", "+", "\n", " "}
  /\ id' = 0 /\ said' = TRUE /\ pc' = "parse"
  /\ UNCHANGED <<line, pos, done>>

\* The message.  Its loop takes pos back to the beginning of buf.
NoToken ==
  /\ pc = "scan" /\ Char(pos) \notin {"d", ".", "+", "\n", " "}
  /\ id' = 0 /\ said' = TRUE
  /\ done' = TRUE /\ pos' = 1
  /\ pc' = "parse"
  /\ UNCHANGED line

\* parser_parse, unless the line is done with.
Parse ==
  /\ pc = "parse"
  /\ done' \in IF done THEN {TRUE} ELSE IF id = 0 THEN BOOLEAN ELSE {FALSE}
  /\ pc' = "move"
  /\ UNCHANGED <<line, pos, id, said>>

\* strtod takes digits, a point and digits, with a digit at least, or nothing.
Digits(p) == Max({n \in 0..Len(line) + 1 - p : \A k \in p..p + n - 1 : line[k] = "d"})
NumberLength(p) ==
  LET whole == Digits(p)
      point == Char(p + whole) = "."
      part  == IF point THEN Digits(p + whole + 1) ELSE 0
  IN IF whole + part = 0 THEN 0 ELSE whole + (IF point THEN 1 ELSE 0) + part

Move ==
  /\ pc = "move"
  /\ pos' = IF id # 1 THEN pos + 1 ELSE pos + NumberLength(pos)
  /\ pc' = IF done THEN "over" ELSE "scan"
  /\ UNCHANGED <<line, done, id, said>>

Next == Blank \/ Token \/ NoToken \/ Parse \/ Move

\* The program reads nothing but the line, and waits for nobody.
Spec == Init /\ [][Next]_vars /\ WF_vars(Next)

-----------------------------------------------------------------------------
(***************************************************************************)
(* Every line is done with, without reading behind its end, and is either  *)
(* accepted at its line end or gets a message.  The exception is a point   *)
(* that belongs to no number: strtod does not move behind it, and it is    *)
(* handed to the parser for ever.                                          *)
(***************************************************************************)
LonePoint == Char(pos) = "." /\ NumberLength(pos) = 0

LineEnds ==
  \/ <>(pc = "over" /\ (said \/ (Last(line) = "\n" /\ pos = Len(line) + 1)))
     /\ [](pos <= Len(line) + 1)
  \/ <>[]LonePoint
=============================================================================
