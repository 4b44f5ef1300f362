---------------------------- MODULE MCGenerator ----------------------------
\* Instances of Generator: whole grammars, with one address for every rule.
EXTENDS Generator, TestGrammars

Every == FileGrammars \cup OddGrammars \cup ShortGrammars

OneMap(g) == {[r \in RuleIds(g) |-> r % MaxBuckets]}
=============================================================================
