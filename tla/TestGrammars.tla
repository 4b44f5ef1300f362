---------------------------- MODULE TestGrammars ----------------------------
(***************************************************************************)
(* Grammars of src/test, named after their files.  The file names carry    *)
(* the class of the grammar: LL(k), then LR class; "oth" is no such class. *)
(***************************************************************************)
EXTENDS Completion

G_ll0_lr0_0 == Grammar("S", << <<"S", "b", "A", "i", "B">>, <<"A">>, <<"B", "r", "C">>,
    <<"C", "d">> >>)

G_ll1_lalr1_0 == Grammar("S", << <<"S", "id", "Sa">>, <<"Sa", "V", "assign", "E">>,
    <<"Sa">>, <<"V">>, <<"E", "id", "V">>, <<"E", "num">> >>)

G_ll1_lalr1_1 == Grammar("L", << <<"L", "V", "plus", "L">>, <<"L", "num">>, <<"V", "Var",
    "left", "Var", "plus", "V", "right">>, <<"V">>, <<"Var">> >>)

G_ll1_lr1_0 == Grammar("S", << <<"S", "a", "A">>, <<"S", "b", "B">>, <<"A", "C", "a">>,
    <<"A", "D", "b">>, <<"B", "C", "b">>, <<"B", "D", "a">>, <<"C", "E">>, <<"D", "E">>,
    <<"E">> >>)

G_ll1_slr1_0 == Grammar("A", << <<"A", "B", "c">>, <<"A", "d", "b", "A", "B", "fo">>,
    <<"B", "r">>, <<"B">> >>)

G_ll1_slr1_2 == Grammar("Decl", << <<"Decl", "DeclSpecifiers", "Declarator">>,
    <<"DeclSpecifiers", "StorageClassSpecifier", "DeclSpecifiersOpt">>,
    <<"DeclSpecifiers", "TypeSpecifier", "DeclSpecifiersOpt">>, <<"DeclSpecifiers",
    "TypeQualifier", "DeclSpecifiersOpt">>, <<"DeclSpecifiersOpt", "DeclSpecifiers">>,
    <<"DeclSpecifiersOpt">>, <<"StorageClassSpecifier", "typedef">>,
    <<"StorageClassSpecifier", "static">>, <<"TypeSpecifier", "void">>, <<"TypeSpecifier",
    "short">>, <<"TypeSpecifier", "int">>, <<"TypeQualifier", "const">>,
    <<"TypeQualifier", "volatile">>, <<"Declarator", "PointerOpt", "DirectDeclarator">>,
    <<"DirectDeclarator", "id">>, <<"PointerOpt", "star", "TypeQualifierList",
    "PointerOpt">>, <<"PointerOpt">>, <<"TypeQualifierList", "TypeQualifier",
    "TypeQualifierList">>, <<"TypeQualifierList">> >>)

G_ll2_lalr1_2 == Grammar("S", << <<"S", "A", "x", "B", "x">>, <<"S", "B", "y", "A", "y">>,
    <<"A", "w">>, <<"B", "w">> >>)

G_ll2_lr2_3 == Grammar("A", << <<"A", "B", "a">>, <<"B", "b", "C">>, <<"B", "c">>, <<"C",
    "a", "B">>, <<"C">> >>)

G_ll2_slr1_1 == Grammar("TERM", << <<"TERM", "id">>, <<"TERM", "id", "INDEX">>, <<"TERM",
    "let", "LEXP">>, <<"LEXP", "INDEX", "LEXP">>, <<"LEXP", "id">>, <<"INDEX", "lpar",
    "TERM", "rpar">> >>)

G_oth_lalr1_0 == Grammar("S", << <<"S", "S", "semi", "T">>, <<"S", "T">>, <<"T", "id">>,
    <<"T", "V", "assign", "E">>, <<"V", "id">>, <<"E", "V">>, <<"E", "num">> >>)

G_oth_lalr1_1 == Grammar("L", << <<"L", "V", "left", "args", "right">>, <<"L", "L",
    "equals", "Var", "left", "right">>, <<"V", "Var", "plus", "V">>, <<"V", "id">>,
    <<"Var", "id">> >>)

G_oth_lalr1_2 == Grammar("E", << <<"E", "O", "colon", "OL">>, <<"E", "O">>, <<"O", "id">>,
    <<"O", "OL", "l">>, <<"OL", "id">>, <<"OL", "left", "O", "colon", "OL", "right">> >>)

G_oth_lalr1_3 == Grammar("S", << <<"S", "a", "g", "d">>, <<"S", "a", "A", "c">>, <<"S",
    "b", "A", "d">>, <<"S", "b", "g", "c">>, <<"A", "B">>, <<"B", "g">> >>)

G_oth_lr0_3 == Grammar("S", << <<"S", "T">>, <<"S", "A">>, <<"A", "B">>, <<"B", "C">>,
    <<"D", "d">>, <<"D", "d", "D">>, <<"D">> >>)

G_oth_oth_0 == Grammar("S", << <<"S", "A", "d">>, <<"A", "a", "B">>, <<"A", "b", "B",
    "c">>, <<"B", "d", "A">>, <<"B">> >>)

G_oth_slr1_0 == Grammar("A", << <<"A", "A", "b">>, <<"A", "c">> >>)

G_oth_slr1_2 == Grammar("S", << <<"S", "E">>, <<"E", "B", "plus", "T">>, <<"E", "B",
    "star", "T">>, <<"E", "T">>, <<"B", "C">>, <<"C", "D">>, <<"D", "E">>, <<"T", "X">>,
    <<"X">> >>)

(***************************************************************************)
(* Small grammars that no test of the repository has: mutual recursion     *)
(* through nullable symbols, a nonterminal without rules, hidden cycles.   *)
(***************************************************************************)
G_mutual == Grammar("S", << <<"S", "A", "B", "c">>, <<"A", "B", "B">>, <<"A", "a">>,
    <<"B", "A">>, <<"B">> >>)

G_undefined == Grammar("N", << <<"S", "N", "a">>, <<"S", "T", "N">>, <<"T">> >>)

G_inherited == Grammar("S", << <<"S", "z", "A", "B">>, <<"A", "z", "B", "S">>,
    <<"B", "S", "A">>, <<"S", "x">> >>)

\* Y is drained before the rules that end in Y Z are shortened past Z.
G_drained == Grammar("X", << <<"X", "Y", "Z">>, <<"X", "W", "Y">>, <<"W", "t", "Y", "Z">>,
    <<"Z">>, <<"Y">> >>)

\* Two transitions on nullable symbols read each other.
G_reading == Grammar("A", << <<"A", "B", "C", "A">>, <<"A", "D", "y">>, <<"D">>, <<"B">>,
    <<"C">> >>)

\* A and B end in each other, and only the inner ones are reduced in states of
\* their own: no empty rule, no conflict, and still a lookahead is lost.
G_twofold == Grammar("S", << <<"S", "B">>, <<"S", "y", "a", "e">>, <<"B", "y", "A">>,
    <<"A", "x", "B">>, <<"A", "a">> >>)

\* B derives nothing, and C is still expected before d.
G_unproductive == Grammar("S", << <<"S", "A", "B">>, <<"A", "C", "d">>, <<"C", "e">>,
    <<"B", "B", "b">> >>)

FileGrammars ==
  {G_ll0_lr0_0, G_ll1_lalr1_0, G_ll1_lalr1_1, G_ll1_lr1_0, G_ll1_slr1_0, G_ll1_slr1_2,
   G_ll2_lalr1_2, G_ll2_lr2_3, G_ll2_slr1_1, G_oth_lalr1_0, G_oth_lalr1_1, G_oth_lalr1_2,
   G_oth_lalr1_3, G_oth_lr0_3, G_oth_oth_0, G_oth_slr1_0, G_oth_slr1_2}

OddGrammars == {G_mutual, G_undefined, G_inherited, G_drained, G_reading, G_twofold,
                G_unproductive}

(***************************************************************************)
(* Every grammar of three productions over nonterminals A and B and        *)
(* terminal t with these right sides, the first of them of start symbol A. *)
(***************************************************************************)
ShortRhs == {<< >>, <<"t">>, <<"A">>, <<"B">>, <<"A", "B">>, <<"B", "A">>, <<"B", "B">>,
             <<"t", "B">>}

ShortGrammars ==
  {Grammar("A", <<<<"A">> \o x, <<p>> \o y, <<q>> \o z>>) :
     x \in ShortRhs, y \in ShortRhs, z \in ShortRhs, p \in {"A", "B"}, q \in {"A", "B"}}
=============================================================================
