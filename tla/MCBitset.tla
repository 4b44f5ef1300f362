----------------------------- MODULE MCBitset -----------------------------
\* An instance of Bitset: a grammar of 3 terminals and 30 nonterminals on a 64-bit machine.
EXTENDS Bitset

Terminals == 0..2
AllSymbols == 0..32
=============================================================================
