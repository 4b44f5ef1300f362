------------------------------- MODULE MCLR0 -------------------------------
\* An instance of LR0: the grammars, and addresses that make the hash collide.
EXTENDS LR0, TestGrammars

Every == FileGrammars \cup OddGrammars

\* Grammars small enough for every way the addresses can collide.
Few == {G_oth_slr1_0, G_undefined, G_ll1_slr1_0, G_ll0_lr0_0}

\* All rules collide, or as few as possible; for small grammars every map to buckets.
SomeMaps(g) ==
  IF g \in Few THEN [RuleIds(g) -> 0..(MaxBuckets - 1)]
  ELSE {[r \in RuleIds(g) |-> 0], [r \in RuleIds(g) |-> r % MaxBuckets]}
=============================================================================
