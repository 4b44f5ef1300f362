----------------------------- MODULE MCDigraph -----------------------------
\* Instances of Digraph: all relations on three nodes with their lists in any
\* order, and those on four nodes without loops, with their lists in one order.
EXTENDS Digraph, SequencesExt

Lists3 == UNION {SetToSeqs(S) : S \in SUBSET (1..3)}
All3 == [1..3 -> Lists3]

Increasing(S) == SelectSeq(<<1, 2, 3, 4>>, LAMBDA x : x \in S)
Lists4(x) == {Increasing(S) : S \in SUBSET (1..4 \ {x})}
All4 == {<<a, b, c, d>> : a \in Lists4(1), b \in Lists4(2), c \in Lists4(3), d \in Lists4(4)}

Relations == All3 \cup All4
Self(x) == {x}
=============================================================================
