------------------------------ MODULE BnfParser ------------------------------
(***************************************************************************)
(* bnf.ly under the driver of bnf.lt: the parser of grammar files, and who *)
(* owns which string and array on the way.  A value on lemon's stack is a  *)
(* reference: every token carries a new string, an action hands references *)
(* on or releases them, and lemon destroys the values that the action of a *)
(* rule does not name.                                                     *)
(*                                                                         *)
(* Parse is called with one token and reduces until it has shifted it, has *)
(* accepted, or aborts.  What the actions tell the grammar store is in     *)
(* calls: the calls made for the rule that was reduced last.               *)
(***************************************************************************)
EXTENDS Blocks

CONSTANT Viable(_)    \* whether lemon's tables can lead to these symbols on the stack

(***************************************************************************)
(* The rules of bnf.ly.  Terminals are called after what stands in a file; *)
(* pragmas with the same syntax and treatment are in one set.              *)
(***************************************************************************)
TextSettings == {"%name", "%include", "%extra_argument", "%token_type", "%token_destructor"}
SymbolTexts  == {"%type", "%destructor"}

Braces(inside) == <<"{">> \o inside \o <<"}">>

Alternatives ==
  [ rules       |-> {<< >>, <<"rules", "rule">>},
    rule        |-> {<<p>> \o Braces(<<"text">>) : p \in TextSettings}
                    \cup {<<p, "WORD">> \o Braces(<<"text">>) : p \in SymbolTexts}
                    \cup {<<"%start_symbol", "WORD">>, <<"%fallback", "WORD", "word_list", ".">>,
                          <<"PRAGMA">>, <<"PRAGMA">> \o Braces(<<"text">>),
                          <<"left", "::=", "right", ".", "action">>},
    word_list   |-> {<<"WORD">>, <<"word_list", "WORD">>},
    left        |-> {<<"WORD", "specifier">>},
    right       |-> {<<"rightlist">>},
    rightlist   |-> {<< >>, <<"rightlist", "WORD", "specifier">>},
    specifier   |-> {<< >>, <<"(", "WORD", ")">>},
    action      |-> {<< >>, Braces(<< >>), Braces(<<"text">>)},
    text        |-> {<<"TEXT">>, <<"text", "TEXT">>} ]

VARIABLES
  pc,       \* "reading", "accepted", "aborted"
  stack,    \* of symbols and values
  token,    \* the argument of Parse in a call, else Nil
  heap,
  calls

vars == <<pc, stack, token, heap, calls>>

Init ==
  /\ pc = "reading" /\ stack = << >> /\ token = Nil
  /\ heap = [b \in Addresses |-> Free] /\ calls = << >>

\* The token's string is a copy of the text t.
Give(sym, t) ==
  /\ pc = "reading" /\ token = Nil
  /\ token' = [sym |-> sym, val |-> Fresh(heap)]
  /\ heap' = String(heap, t)
  /\ UNCHANGED <<pc, stack, calls>>

GiveEnd ==
  /\ pc = "reading" /\ token = Nil
  /\ token' = [sym |-> "$", val |-> Nil]
  /\ UNCHANGED <<pc, stack, heap, calls>>

-----------------------------------------------------------------------------
(* The driver.                                                             *)

Symbols(s) == [k \in 1..Len(s) |-> s[k].sym]
CanShift == Viable(Append(Symbols(stack), token.sym))

Below(rhs) == SubSeq(stack, 1, Len(stack) - Len(rhs))

CanReduce(lhs, rhs) ==
  /\ token # Nil /\ pc = "reading"
  /\ IsSuffix(rhs, Symbols(stack))
  /\ ~ CanShift
  /\ Viable(Append(Symbols(Below(rhs)), lhs))

Shift ==
  /\ token # Nil /\ pc = "reading" /\ CanShift
  /\ stack' = Append(stack, token) /\ token' = Nil
  /\ UNCHANGED <<pc, heap, calls>>

\* The end of the file behind a list of rules; nothing else is on the stack.
Accept ==
  /\ token # Nil /\ pc = "reading"
  /\ token.sym = "$" /\ Symbols(stack) = <<"rules">>
  /\ pc' = "accepted" /\ stack' = << >> /\ token' = Nil
  /\ UNCHANGED <<heap, calls>>

\* %syntax_error aborts.
SyntaxError ==
  /\ token # Nil /\ pc = "reading" /\ ~ CanShift
  /\ ~ (token.sym = "$" /\ Symbols(stack) = <<"rules">>)
  /\ \A lhs \in DOMAIN Alternatives : \A rhs \in Alternatives[lhs] : ~ CanReduce(lhs, rhs)
  /\ pc' = "aborted"
  /\ UNCHANGED <<stack, token, heap, calls>>

\* The value of the k-th symbol of a right side of n symbols.
Arg(n, k) == stack[Len(stack) - n + k].val

\* A reduction whose action makes the value val, leaves the heap h and makes the calls c.
Reduce(lhs, rhs, val, h, c) ==
  /\ CanReduce(lhs, rhs)
  /\ stack' = Append(Below(rhs), [sym |-> lhs, val |-> val])
  /\ heap' = h
  /\ calls' = c
  /\ UNCHANGED <<pc, token>>

-----------------------------------------------------------------------------
(* The actions of bnf.ly.  Values given to the grammar store are only read *)
(* by it: it makes copies.                                                 *)

Text(b) == IF b = Nil THEN Nil ELSE IF heap[b].cnt > 0 THEN heap[b].text ELSE "freed"
Texts(bs) == [k \in 1..Len(bs) |-> Text(bs[k])]

\* rule ::= PRAGMA_x LCURL text(T) RCURL.
TextSetting(p) ==
  Reduce("rule", <<p, "{", "text", "}">>, Nil,
         UnrefAll(heap, <<Arg(4, 3), Arg(4, 1), Arg(4, 2), Arg(4, 4)>>),
         <<<<p, Text(Arg(4, 3))>>>>)

\* rule ::= PRAGMA_x WORD(N) LCURL text(T) RCURL.
SymbolText(p) ==
  Reduce("rule", <<p, "WORD", "{", "text", "}">>, Nil,
         UnrefAll(heap, <<Arg(5, 2), Arg(5, 4), Arg(5, 1), Arg(5, 3), Arg(5, 5)>>),
         <<<<p, Text(Arg(5, 2)), Text(Arg(5, 4))>>>>)

StartSymbol ==
  Reduce("rule", <<"%start_symbol", "WORD">>, Nil,
         UnrefAll(heap, <<Arg(2, 2), Arg(2, 1)>>),
         <<<<"%start_symbol", Text(Arg(2, 2))>>>>)

\* What grammar_nonterminal is told: left side, right side, host code.
RuleCall(left, right, code) == <<"rule", left, right, code>>

\* Mutant: the list of words is not released.
Fallback_Leaks ==
  LET l == Arg(4, 2)
      r == Held(heap, Arg(4, 3))
  IN Reduce("rule", <<"%fallback", "WORD", "word_list", ".">>, Nil,
       UnrefAll(heap, <<l, Arg(4, 1), Arg(4, 4)>>),
       FlattenSeq([k \in 1..Len(r) |->
         << <<"deduce", Text(l), Text(r[k])>>,
            RuleCall(<<Text(l), "LL">>, << <<Text(r[k]), "RR">> >>, "LL = RR;") >>]))

\* rule ::= PRAGMA_FALLBACK WORD(L) word_list(R) DOT.
Fallback ==
  LET l == Arg(4, 2)
      r == Held(heap, Arg(4, 3))
  IN Reduce("rule", <<"%fallback", "WORD", "word_list", ".">>, Nil,
       UnrefAll(UnrefArray(Unref(heap, l), Arg(4, 3)), <<Arg(4, 1), Arg(4, 4)>>),
       FlattenSeq([k \in 1..Len(r) |->
         << <<"deduce", Text(l), Text(r[k])>>,
            RuleCall(<<Text(l), "LL">>, << <<Text(r[k]), "RR">> >>, "LL = RR;") >>]))

\* rule ::= PRAGMA.  rule ::= PRAGMA LCURL text RCURL.
IgnoredPragma ==
  \/ Reduce("rule", <<"PRAGMA">>, Nil, Unref(heap, Arg(1, 1)), << >>)
  \/ Reduce("rule", <<"PRAGMA", "{", "text", "}">>, Nil,
            UnrefAll(heap, [k \in 1..4 |-> Arg(4, k)]), << >>)

\* word_list(X) ::= WORD(W).
WordList ==
  LET arr == Fresh(heap)
  IN Reduce("word_list", <<"WORD">>, arr,
            Unref(PushString(Array(heap), arr, Arg(1, 1)), Arg(1, 1)), calls)

\* word_list(X) ::= word_list(R) WORD(W).
WordListMore ==
  Reduce("word_list", <<"word_list", "WORD">>, PlaceOf(heap, Arg(2, 1)),
         Unref(PushString(heap, Arg(2, 1), Arg(2, 2)), Arg(2, 2)), calls)

(***************************************************************************)
(* rule ::= left(L) IS right(R) DOT action(A).  Releasing the left side is *)
(* grammar_element_free and rcunref.                                       *)
(***************************************************************************)
Rule ==
  LET l == Arg(5, 1)
      r == Arg(5, 3)
      a == Arg(5, 5)
      freedLeft == Unref(UnrefAll(heap, Held(heap, l)), l)
  IN Reduce("rule", <<"left", "::=", "right", ".", "action">>, Nil,
            UnrefAll(UnrefArray(freedLeft, r), <<a, Arg(5, 2), Arg(5, 4)>>),
            << RuleCall(Texts(Held(heap, l)), [k \in 1..Len(heap[r].elems) |-> Texts(heap[r].elems[k])],
                        Text(a)) >>)

\* left(X) ::= WORD(W) specifier(S).
Left ==
  Reduce("left", <<"WORD", "specifier">>, Fresh(heap),
         Element(heap, <<Arg(2, 1), Arg(2, 2)>>), calls)

\* rightlist(X) ::= .
RightList == Reduce("rightlist", << >>, Fresh(heap), Array(heap), calls)

\* rightlist(X) ::= rightlist(R) WORD(W) specifier(S).
RightListMore ==
  Reduce("rightlist", <<"rightlist", "WORD", "specifier">>, PlaceOf(heap, Arg(3, 1)),
         Push(heap, Arg(3, 1), <<Arg(3, 2), Arg(3, 3)>>), calls)

\* right(X) ::= rightlist(Y).
Right == Reduce("right", <<"rightlist">>, Arg(1, 1), heap, calls)

\* specifier(X) ::= .
NoSpecifier == Reduce("specifier", << >>, Nil, heap, calls)

\* The second of three values is handed on, the others are released.
Enclosed(lhs, rhs) ==
  Reduce(lhs, rhs, Arg(3, 2), UnrefAll(heap, <<Arg(3, 1), Arg(3, 3)>>), calls)

\* specifier(X) ::= LPAREN WORD(W) RPAREN.
Specifier == Enclosed("specifier", <<"(", "WORD", ")">>)

\* action(X) ::= .
NoAction == Reduce("action", << >>, Nil, heap, calls)

\* action(X) ::= LCURL text(T) RCURL.
CodeAction == Enclosed("action", Braces(<<"text">>))

\* action(X) ::= LCURL RCURL.
EmptyAction ==
  Reduce("action", <<"{", "}">>, Fresh(heap),
         UnrefAll(String(heap, << >>), <<Arg(2, 1), Arg(2, 2)>>), calls)

\* text(X) ::= TEXT(T).
FirstText == Reduce("text", <<"TEXT">>, Arg(1, 1), heap, calls)

\* Mutant: the texts are put together in the wrong order.
TextMore_Swapped ==
  LET y == Arg(2, 1)
      t == Arg(2, 2)
  IN Reduce("text", <<"text", "TEXT">>, Fresh(heap),
            UnrefAll(String(heap, heap[t].text \o heap[y].text), <<y, t>>), calls)

\* text(X) ::= text(Y) TEXT(T).
TextMore ==
  LET y == Arg(2, 1)
      t == Arg(2, 2)
  IN Reduce("text", <<"text", "TEXT">>, Fresh(heap),
            UnrefAll(String(heap, heap[y].text \o heap[t].text), <<y, t>>), calls)

\* rules ::= .
NoRules == Reduce("rules", << >>, Nil, heap, calls)

\* rules ::= rules rule.
RulesMore == Reduce("rules", <<"rules", "rule">>, Nil, heap, << >>)

Action ==
  \/ \E p \in TextSettings : TextSetting(p)
  \/ \E p \in SymbolTexts : SymbolText(p)
  \/ StartSymbol \/ Fallback \/ IgnoredPragma
  \/ WordList \/ WordListMore
  \/ Rule \/ Left \/ Right \/ RightList \/ RightListMore
  \/ NoSpecifier \/ Specifier \/ NoAction \/ CodeAction \/ EmptyAction
  \/ FirstText \/ TextMore \/ NoRules \/ RulesMore
=============================================================================
