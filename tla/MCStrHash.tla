----------------------------- MODULE MCStrHash -----------------------------
\* Instances of StrHash: every way four names can fall into two buckets.
EXTENDS StrHash

FourNames  == {"%eof", "%start", "stmt", "expr"}
TwoSymbols == {"symbol1", "symbol2"}
TwoBuckets == 0..1
=============================================================================
