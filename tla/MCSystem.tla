------------------------------ MODULE MCSystem ------------------------------
\* Instances of System: grammars of the repository and their short inputs.
EXTENDS System, TestGrammars

OneMap(g) == {[r \in RuleIds(g) |-> r % MaxBuckets]}

\* Clean grammars, and four with empty rules, conflicts or lost lookaheads.
Files == {G_ll2_lalr1_2, G_ll2_slr1_1, G_oth_lalr1_0, G_oth_lalr1_1, G_oth_lalr1_2,
          G_oth_lalr1_3, G_oth_slr1_0, G_ll0_lr0_0, G_ll1_slr1_0, G_ll2_lr2_3, G_inherited}

\* A grammar of the repository with an empty rule, and the sentence id.
EmptyRule == {G_ll1_lalr1_0}
=============================================================================
