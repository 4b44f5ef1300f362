------------------------------ MODULE MCTexts ------------------------------
(***************************************************************************)
(* One instance for the three parts that handle the texts of a grammar     *)
(* file: Reader, which reads them, GrammarText, which keeps them, and      *)
(* ReduceCode, which makes calls of them.  The parts do not wait for each  *)
(* other, so a behaviour is one of one part, with the others at rest in    *)
(* their initial states.                                                   *)
(***************************************************************************)
EXTENDS Reader, BnfGrammar

VARIABLES
  part,                                                     \* the part that runs
  blocks, field, host_code, rules, freed, told,             \* GrammarText
  extra_argument, items, symbols, made, used, dropped, gaps \* ReduceCode

storevars == <<blocks, field, host_code, rules, freed, told>>
codevars  == <<extra_argument, items, symbols, made, used, dropped, gaps>>

\* Enough for the strings, arrays and elements of one rule.
SomeAddresses == 1..18

SomeNames == {"a", "b"}
SomeTexts == {<<"x">>, <<"y">>}

\* Every rule of up to two symbols, with every choice of labels.
SomeNonterminals == {"A", "B"}
Labels == <<"Y", "Z">>
Labelled(n) ==
  {[i \in 1..n |-> <<s[i], IF i \in named THEN Labels[i] ELSE Nil>>] :
     s \in [1..n -> SomeNonterminals \cup {"__terminal"}], named \in SUBSET (1..n)}
SomeRules ==
  [lhs : SomeNonterminals, ls_label : {"X", Nil}, code : {TRUE}, rs : UNION {Labelled(n) : n \in 0..2}]
  \cup [lhs : SomeNonterminals, ls_label : {Nil}, code : {FALSE}, rs : UNION {Labelled(n) : n \in 0..2}]

\* A type, which may end in an asterisk, and a name, with a blank behind it.
SomeDeclarations ==
  {<<"c">> \o gap \o <<"c", "c">> \o trail :
     gap \in {<<" ">>, <<" ", "*">>, <<"*", " ">>}, trail \in {<< >>, <<" ">>}}

Store == INSTANCE GrammarText WITH Names <- SomeNames, Strings <- SomeTexts, MaxCalls <- 3, calls <- told
Code == INSTANCE ReduceCode WITH Nonterminals <- SomeNonterminals, Rules <- SomeRules,
                                 Declarations <- SomeDeclarations, MaxValues <- 4, MaxGaps <- 1

TextsInit ==
  /\ part \in {"read", "keep", "make"}
  /\ ReaderInit /\ Store!Init /\ Code!Init
  /\ part # "make" => extra_argument = Nil

TextsNext ==
  /\ UNCHANGED part
  /\ \/ part = "read" /\ UNCHANGED <<storevars, codevars>> /\ ReaderNext
     \/ part = "keep" /\ UNCHANGED <<allvars, codevars>> /\ Store!Next
     \/ part = "make" /\ UNCHANGED <<allvars, storevars>> /\ Code!Next

TextsSpec == TextsInit /\ [][TextsNext]_<<part, allvars, storevars, codevars>>

\* The strings kept are those told, each freed once: GrammarText's property.
StringsKept == Store!StringsKept

\* Every value is used under its label or destroyed: ReduceCode's property.
ValuesUsedOnce == Code!ValuesUsedOnce
=============================================================================
