----------------------------- MODULE MCNullable -----------------------------
\* Instances of Nullable: grammars of the repository and all small ones.
EXTENDS Nullable, TestGrammars

Every == FileGrammars \cup OddGrammars \cup ShortGrammars
Decl  == {G_ll1_slr1_2}
=============================================================================
