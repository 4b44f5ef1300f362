--------------------------- MODULE MCGrammarStore ---------------------------
\* Instances of GrammarStore.
EXTENDS GrammarStore

CONSTANTS a, b, c

SomeNames == {a, b, c}
SomeTyped == {a}
SomeRightSides == {<< >>, <<b, c>>, <<c, a>>, <<c, c>>}
=============================================================================
