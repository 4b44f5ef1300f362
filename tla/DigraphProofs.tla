--------------------------- MODULE DigraphProofs ---------------------------
(***************************************************************************)
(* Proofs about Digraph.  The inductive invariant IInv is that of Tarjan's *)
(* algorithm: how ranks, stack and call frames fit together, which edges   *)
(* have been read, and which sets have already gone where.                 *)
(***************************************************************************)
EXTENDS Digraph, ListLemmas

-----------------------------------------------------------------------------
(* The inductive invariant.  g is the relation, rk the ranks, st the stack *)
(* and fr the frames; Top(g) is the rank of a node that was taken off.     *)

Top(g) == Len(g) + 1

FrameRecords(g) == [node : 1..Len(g), d : Nat, next : Nat]

TypeOK ==
  /\ succ \in Graphs
  /\ set = [x \in Nodes |-> set[x]]
  /\ rank \in [Nodes -> 0..Infinity]
  /\ stack \in Seq(Nodes) /\ frames \in Seq(FrameRecords(succ))
  /\ i \in Nat

\* Exactly the nodes with a rank below Top are on the stack, once, not below their rank.
Stacked(g, rk, st) ==
  /\ NoRepeats(st)
  /\ \A x \in 1..Len(g) : rk[x] \in 1..Len(g) <=> Occurs(x, st)
  /\ \A k \in 1..Len(st) : rk[st[k]] <= k

\* The calls of traverse: each was made for the child that the one below it reads.
Called(g, st, fr) ==
  /\ fr = << >> => st = << >>
  /\ fr # << >> => fr[1].d = 1
  /\ \A m \in 1..Len(fr) :
       /\ fr[m].d \in 1..Len(st) /\ st[fr[m].d] = fr[m].node
       /\ fr[m].next \in 1..(Len(g[fr[m].node]) + 1)
  /\ \A m, n \in 1..Len(fr) : m < n => fr[m].d < fr[n].d
  /\ \A m \in 1..(Len(fr) - 1) :
       /\ fr[m].next <= Len(g[fr[m].node]) /\ g[fr[m].node][fr[m].next] = fr[m + 1].node

(***************************************************************************)
(* What is above a frame is reached from its node; a node reaches the      *)
(* place that is its rank, which is below its own once its call is over.   *)
(***************************************************************************)
Linked(g, rk, st, fr) ==
  /\ \A m \in 1..Len(fr) : \A k \in fr[m].d..Len(st) : st[k] \in Reach(g, fr[m].node)
  /\ \A k \in 1..Len(st) : st[rk[st[k]]] \in Reach(g, st[k])
  /\ \A k \in 1..Len(st) : (\E m \in 1..Len(fr) : fr[m].d = k) \/ rk[st[k]] < k

\* The rank of node x is not greater than that of y, and its set has all of that of y.
Covers(rk, sets, x, y) == rk[x] <= rk[y] /\ sets[y] \subseteq sets[x]

\* The child that the last frame is to read next was visited and covers y.
Pending(g, rk, fr, sets, y) ==
  LET f == fr[Len(fr)] IN
  /\ f.next <= Len(g[f.node])
  /\ rk[g[f.node][f.next]] # 0 /\ Covers(rk, sets, g[f.node][f.next], y)

\* The last frame below a place of the stack has what is there, or is just getting it.
Gathered(g, rk, st, fr, sets) ==
  \A m \in 1..Len(fr) : \A k \in fr[m].d..Len(st) :
    \/ m < Len(fr) /\ k >= fr[m + 1].d
    \/ Covers(rk, sets, fr[m].node, st[k])
    \/ m = Len(fr) /\ Pending(g, rk, fr, sets, st[k])

\* The children of x that were read: all of them unless the call of traverse goes on.
Read(g, fr, x) ==
  {g[x][e] : e \in {j \in 1..Len(g[x]) : \A m \in 1..Len(fr) : fr[m].node = x => j < fr[m].next}}

\* Each component that y reaches is a single node.
Simple(g, y) == \A z \in Reach(g, y) : Component(g, z) = {z}

(***************************************************************************)
(* A child y read by the node at place k is still on the stack, not below  *)
(* the rank of that node nor above a frame that is above k; or its set,    *)
(* which was its solution unless there are cycles, went into that node's.  *)
(***************************************************************************)
ReadChild(g, rk, st, fr, sets, k, y) ==
  \/ \E j \in 1..Len(st) :
       st[j] = y /\ rk[st[k]] <= j /\ \A m \in 1..Len(fr) : fr[m].d > k => j < fr[m].d
  \/ rk[y] = Top(g) /\ (Simple(g, y) => Solution(g, y) \subseteq sets[st[k]])

ReadsKept(g, rk, st, fr, sets) ==
  \A k \in 1..Len(st) : \A y \in Read(g, fr, st[k]) : ReadChild(g, rk, st, fr, sets, k, y)

\* Nodes taken off the stack reach only such nodes and have their solution.
Popped(g, rk, sets) ==
  \A x \in 1..Len(g) :
    rk[x] = Top(g) =>
      /\ \A y \in Children(g, x) : rk[y] = Top(g)
      /\ Simple(g, x) => sets[x] = Solution(g, x)

Sets(g, sets) == \A x \in 1..Len(g) : Base(x) \subseteq sets[x] /\ sets[x] \subseteq Solution(g, x)

IInv ==
  /\ TypeOK
  /\ Stacked(succ, rank, stack)
  /\ Called(succ, stack, frames)
  /\ Linked(succ, rank, stack, frames)
  /\ Gathered(succ, rank, stack, frames, set)
  /\ ReadsKept(succ, rank, stack, frames, set)
  /\ Popped(succ, rank, set)
  /\ Sets(succ, set)

-----------------------------------------------------------------------------
(* What is reached.                                                        *)

Relation(g) == g \in Seq(Seq(1..Len(g)))

\* The lists of a relation: their elements are nodes.
LEMMA ListFacts ==
  ASSUME NEW g, Relation(g)
  PROVE  /\ Len(g) \in Nat
         /\ \A x \in 1..Len(g) : Len(g[x]) \in Nat
         /\ \A x \in 1..Len(g) : \A e \in 1..Len(g[x]) : g[x][e] \in 1..Len(g)
         /\ \A x \in 1..Len(g) : Children(g, x) \subseteq 1..Len(g)
<1>1. Len(g) \in Nat
  BY LenProperties DEF Relation
<1>2. ASSUME NEW x \in 1..Len(g) PROVE g[x] \in Seq(1..Len(g)) /\ Len(g[x]) \in Nat
  BY ElementOfSeq, LenProperties DEF Relation
<1>3. ASSUME NEW x \in 1..Len(g), NEW e \in 1..Len(g[x]) PROVE g[x][e] \in 1..Len(g)
  BY <1>2, ElementOfSeq
<1> QED BY <1>1, <1>2, <1>3 DEF Children

\* A node reaches itself, the children of what it reaches, and what that reaches.
LEMMA ReachFacts ==
  ASSUME NEW g, Relation(g)
  PROVE  /\ \A x \in 1..Len(g) : x \in Reach(g, x)
         /\ \A x \in 1..Len(g) : Reach(g, x) \subseteq 1..Len(g)
         /\ \A x \in 1..Len(g) : \A y \in Reach(g, x) : Children(g, y) \subseteq Reach(g, x)
         /\ \A x \in 1..Len(g) : \A y \in Reach(g, x) : Reach(g, y) \subseteq Reach(g, x)
<1>1. ASSUME NEW x \in 1..Len(g) PROVE x \in Reach(g, x)
  BY DEF Reach
<1>2. ASSUME NEW x \in 1..Len(g) PROVE Reach(g, x) \subseteq 1..Len(g)
  BY DEF Reach
<1>3. ASSUME NEW x \in 1..Len(g), NEW y \in Reach(g, x), NEW z \in Children(g, y)
      PROVE  z \in Reach(g, x)
  <2>1. y \in 1..Len(g) /\ z \in 1..Len(g)
    BY ListFacts DEF Reach
  <2>2. ASSUME NEW S \in SUBSET (1..Len(g)), x \in S, ClosedUnder(g, S) PROVE z \in S
    BY <2>2 DEF Reach, ClosedUnder
  <2> QED BY <2>1, <2>2 DEF Reach
<1>4. ASSUME NEW x \in 1..Len(g), NEW y \in Reach(g, x), NEW z \in Reach(g, y)
      PROVE  z \in Reach(g, x)
  BY DEF Reach
<1> QED BY <1>1, <1>2, <1>3, <1>4

\* A closed set that has a node has everything that the node reaches.
LEMMA ReachLeast ==
  ASSUME NEW g, NEW S \in SUBSET (1..Len(g)), NEW x \in S, ClosedUnder(g, S)
  PROVE  Reach(g, x) \subseteq S
BY DEF Reach

\* What a node reaches contributes to its solution, and so does what that reaches.
LEMMA SolutionFacts ==
  ASSUME NEW g, Relation(g), NEW x \in 1..Len(g)
  PROVE  /\ Base(x) \subseteq Solution(g, x)
         /\ \A y \in Reach(g, x) : Solution(g, y) \subseteq Solution(g, x)
<1>1. x \in Reach(g, x) /\ \A y \in Reach(g, x) : Reach(g, y) \subseteq Reach(g, x)
  BY ReachFacts
<1> QED BY <1>1 DEF Solution

-----------------------------------------------------------------------------
(* Ranks, stack and frames, for any values of them.                        *)

Shape(g, rk, st, fr) ==
  /\ Relation(g)
  /\ rk \in [1..Len(g) -> 0..Top(g)]
  /\ st \in Seq(1..Len(g)) /\ fr \in Seq(FrameRecords(g))

Ordered(g, rk, st, fr) == Shape(g, rk, st, fr) /\ Stacked(g, rk, st) /\ Called(g, st, fr)

\* Places of the stack and nodes with a rank below Top determine each other.
LEMMA StackFacts ==
  ASSUME NEW g, NEW rk, NEW st, NEW fr, Ordered(g, rk, st, fr)
  PROVE  /\ Len(g) \in Nat /\ Len(st) \in Nat
         /\ \A x \in 1..Len(g) : rk[x] \in 0..(Len(g) + 1)
         /\ \A k \in 1..Len(st) : st[k] \in 1..Len(g) /\ rk[st[k]] \in 1..Len(g) /\ rk[st[k]] <= k
         /\ \A k, l \in 1..Len(st) : st[k] = st[l] => k = l
         /\ \A x \in 1..Len(g) : rk[x] \in 1..Len(g) => \E k \in 1..Len(st) : st[k] = x
<1>1. Len(g) \in Nat /\ Len(st) \in Nat
  BY ListFacts, LenProperties DEF Ordered, Shape
<1>2. \A x \in 1..Len(g) : rk[x] \in 0..(Len(g) + 1)
  BY DEF Ordered, Shape, Top
<1>3. ASSUME NEW k \in 1..Len(st)
      PROVE  st[k] \in 1..Len(g) /\ rk[st[k]] \in 1..Len(g) /\ rk[st[k]] <= k
  <2>1. st[k] \in 1..Len(g)
    BY ElementOfSeq DEF Ordered, Shape
  <2> QED BY <2>1 DEF Ordered, Stacked, Occurs
<1>4. \A k, l \in 1..Len(st) : st[k] = st[l] => k = l
  BY DEF Ordered, Stacked, NoRepeats
<1>5. \A x \in 1..Len(g) : rk[x] \in 1..Len(g) => \E k \in 1..Len(st) : st[k] = x
  BY DEF Ordered, Stacked, Occurs
<1> QED BY <1>1, <1>2, <1>3, <1>4, <1>5

\* Frames are at growing places of the stack, and no two are of the same node.
LEMMA FrameFacts ==
  ASSUME NEW g, NEW rk, NEW st, NEW fr, Ordered(g, rk, st, fr)
  PROVE  /\ Len(fr) \in Nat
         /\ \A m \in 1..Len(fr) :
              /\ fr[m] \in FrameRecords(g)
              /\ fr[m].node \in 1..Len(g) /\ fr[m].d \in 1..Len(st) /\ st[fr[m].d] = fr[m].node
              /\ fr[m].next \in 1..(Len(g[fr[m].node]) + 1)
         /\ \A m, n \in 1..Len(fr) : m < n => fr[m].d < fr[n].d
         /\ \A m, n \in 1..Len(fr) : fr[m].node = fr[n].node => m = n
<1>1. Len(fr) \in Nat
  BY LenProperties DEF Ordered, Shape
<1>2. ASSUME NEW m \in 1..Len(fr)
      PROVE  /\ fr[m] \in FrameRecords(g)
             /\ fr[m].node \in 1..Len(g) /\ fr[m].d \in 1..Len(st) /\ st[fr[m].d] = fr[m].node
             /\ fr[m].next \in 1..(Len(g[fr[m].node]) + 1)
  <2>1. fr[m] \in FrameRecords(g)
    BY ElementOfSeq DEF Ordered, Shape
  <2>2. fr[m].node \in 1..Len(g)
    BY <2>1 DEF FrameRecords
  <2> QED BY <2>1, <2>2 DEF Ordered, Called
<1>3. \A m, n \in 1..Len(fr) : m < n => fr[m].d < fr[n].d
  BY DEF Ordered, Called
<1>4. ASSUME NEW m \in 1..Len(fr), NEW n \in 1..Len(fr), fr[m].node = fr[n].node, m # n
      PROVE  FALSE
  <2>1. fr[m].d = fr[n].d
    <3>1. \A k, l \in 1..Len(st) : st[k] = st[l] => k = l
      BY StackFacts
    <3>2. fr[m].d \in 1..Len(st) /\ fr[n].d \in 1..Len(st) /\ st[fr[m].d] = st[fr[n].d]
      BY <1>2, <1>4
    <3> QED BY <3>1, <3>2
  <2>2. m < n \/ n < m
    BY <1>1, <1>4
  <2>3. fr[m].d \in Int /\ fr[n].d \in Int
    BY <1>2
  <2>4. fr[m].d < fr[n].d \/ fr[n].d < fr[m].d
    BY <1>3, <2>2
  <2> QED BY <2>1, <2>3, <2>4
<1> QED BY <1>1, <1>2, <1>3, <1>4

\* No frame is above the last one.
LEMMA LastFrame ==
  ASSUME NEW g, NEW rk, NEW st, NEW fr, Ordered(g, rk, st, fr), fr # << >>
  PROVE  /\ Len(fr) \in 1..Len(fr)
         /\ \A m \in 1..Len(fr) : fr[m].d <= fr[Len(fr)].d
         /\ \A m \in 1..Len(fr) : m # Len(fr) => fr[m].d < fr[Len(fr)].d
<1>1. Len(fr) \in Nat
  BY FrameFacts
<1>2. Len(fr) # 0
  <2>1. fr \in Seq(FrameRecords(g))
    BY DEF Ordered, Shape
  <2> QED BY <2>1, EmptySeq
<1>3. ASSUME NEW m \in 1..Len(fr), m # Len(fr) PROVE fr[m].d < fr[Len(fr)].d
  <2>1. m < Len(fr) /\ Len(fr) \in 1..Len(fr)
    BY <1>1, <1>2, <1>3
  <2> QED BY <2>1, FrameFacts
<1>4. \A m \in 1..Len(fr) : fr[m].d \in Int
  BY FrameFacts
<1>5. ASSUME NEW m \in 1..Len(fr) PROVE fr[m].d <= fr[Len(fr)].d
  <2>1. CASE m = Len(fr)
    <3>1. fr[m].d \in Int
      BY <1>4
    <3> QED BY <2>1, <3>1
  <2>2. CASE m # Len(fr)
    <3>1. fr[m].d < fr[Len(fr)].d /\ fr[m].d \in Int /\ fr[Len(fr)].d \in Int
      BY <2>2, <1>1, <1>2, <1>3, <1>4
    <3> QED BY <3>1
  <2> QED BY <2>1, <2>2
<1> QED BY <1>1, <1>2, <1>3, <1>5

Good(g, rk, st, fr, sets) ==
  /\ Ordered(g, rk, st, fr)
  /\ Linked(g, rk, st, fr)
  /\ Gathered(g, rk, st, fr, sets)
  /\ ReadsKept(g, rk, st, fr, sets)
  /\ Popped(g, rk, sets)
  /\ Sets(g, sets)

-----------------------------------------------------------------------------
(* A call of traverse puts its node on the stack.                          *)

Pushed(g, rk, st, x, rk2, st2) ==
  /\ Len(st2) = Len(st) + 1 /\ st2[Len(st) + 1] = x
  /\ \A k \in 1..Len(st) : st2[k] = st[k]
  /\ rk2[x] = Len(st) + 1
  /\ \A y \in 1..Len(g) : y # x => rk2[y] = rk[y]

Entered(g, st, fr, x, fr2) ==
  /\ Len(fr2) = Len(fr) + 1
  /\ fr2[Len(fr) + 1] = [node |-> x, d |-> Len(st) + 1, next |-> 1]
  /\ \A m \in 1..Len(fr) : fr2[m] = fr[m]

\* The node to visit is new, and the child that the last frame reads, if there is one.
Visitable(g, rk, fr, x) ==
  /\ x \in 1..Len(g) /\ rk[x] = 0
  /\ fr # << >> =>
       /\ fr[Len(fr)].next <= Len(g[fr[Len(fr)].node])
       /\ g[fr[Len(fr)].node][fr[Len(fr)].next] = x

\* The stack has room for a node that was not visited.
LEMMA StackHasRoom ==
  ASSUME NEW g, NEW rk, NEW st, NEW fr, Ordered(g, rk, st, fr),
         NEW x \in 1..Len(g), rk[x] = 0
  PROVE  Len(st) < Len(g)
<1>1. Len(g) \in Nat /\ st \in Seq(1..Len(g)) /\ NoRepeats(st)
  BY StackFacts DEF Ordered, Shape, Stacked
<1>2. ~ Occurs(x, st)
  BY <1>1 DEF Ordered, Stacked
<1> QED BY <1>1, <1>2, MissesOne

LEMMA VisitKeepsOrder ==
  ASSUME NEW g, NEW rk, NEW st, NEW fr, Ordered(g, rk, st, fr),
         NEW x, Visitable(g, rk, fr, x),
         NEW rk2, NEW st2, NEW fr2, Shape(g, rk2, st2, fr2),
         Pushed(g, rk, st, x, rk2, st2), Entered(g, st, fr, x, fr2)
  PROVE  Ordered(g, rk2, st2, fr2)
<1> DEFINE N == Len(g)  n == Len(st)  L == Len(fr)
<1>1. N \in Nat /\ n \in Nat /\ L \in Nat /\ n < N /\ x \in 1..N /\ rk[x] = 0
  BY StackFacts, FrameFacts, StackHasRoom DEF Visitable
<1>2. \A k \in 1..n : st[k] \in 1..N /\ rk[st[k]] \in 1..N /\ rk[st[k]] <= k /\ st[k] # x
  BY <1>1, StackFacts
<1>3. \A k, l \in 1..n : st[k] = st[l] => k = l
  BY StackFacts
<1>4. \A y \in 1..N : rk[y] \in 1..N => \E k \in 1..n : st[k] = y
  BY StackFacts
<1>5. /\ Len(st2) = n + 1 /\ st2[n + 1] = x
      /\ \A k \in 1..n : st2[k] = st[k]
      /\ rk2[x] = n + 1
      /\ \A y \in 1..N : y # x => rk2[y] = rk[y]
  BY DEF Pushed
<1>6. /\ Len(fr2) = L + 1 /\ fr2[L + 1] = [node |-> x, d |-> n + 1, next |-> 1]
      /\ \A m \in 1..L : fr2[m] = fr[m]
  BY DEF Entered
<1>7. Stacked(g, rk2, st2)
  <2>1. NoRepeats(st2)
    <3> SUFFICES ASSUME NEW k \in 1..(n + 1), NEW l \in 1..(n + 1), k < l, st2[k] = st2[l]
                 PROVE  FALSE
      BY <1>1, <1>5 DEF NoRepeats
    <3>1. k \in 1..n /\ st2[k] = st[k]
      BY <1>1, <1>5
    <3>2. l \in 1..n \/ l = n + 1
      BY <1>1
    <3>3. CASE l = n + 1
      BY <3>1, <3>3, <1>2, <1>5
    <3>4. CASE l \in 1..n
      <4>1. st[k] = st[l]
        BY <3>1, <3>4, <1>5
      <4> QED BY <3>1, <3>4, <4>1, <1>1, <1>3
    <3> QED BY <3>2, <3>3, <3>4
  <2>2. ASSUME NEW y \in 1..N, rk2[y] \in 1..N PROVE Occurs(y, st2)
    <3>1. \E k \in 1..(n + 1) : st2[k] = y
      <4>1. CASE y = x
        BY <4>1, <1>1, <1>5
      <4>2. CASE y # x
        <5>1. PICK k \in 1..n : st[k] = y
          BY <4>2, <2>2, <1>4, <1>5
        <5> QED BY <5>1, <1>1, <1>5
      <4> QED BY <4>1, <4>2
    <3> QED BY <3>1, <1>5 DEF Occurs
  <2>3. ASSUME NEW k \in 1..(n + 1) PROVE rk2[st2[k]] \in 1..N /\ rk2[st2[k]] <= k
    <3>1. CASE k = n + 1
      BY <3>1, <1>1, <1>5
    <3>2. CASE k # n + 1
      <4>1. k \in 1..n
        BY <3>2, <1>1
      <4> QED BY <4>1, <1>2, <1>5
    <3> QED BY <3>1, <3>2
  <2> QED BY <2>1, <2>2, <2>3, <1>5 DEF Stacked, Occurs
<1>8. \A m \in 1..L : /\ fr[m].d \in 1..n /\ st[fr[m].d] = fr[m].node
                      /\ fr[m].next \in 1..(Len(g[fr[m].node]) + 1)
  BY FrameFacts
<1>9. Called(g, st2, fr2)
  <2>1. fr2 # << >>
    BY <1>1, <1>6
  <2>2. fr2[1].d = 1
    <3>1. CASE L = 0
      <4>1. fr = << >>
        BY <3>1, EmptySeq DEF Ordered, Shape
      <4>2. st = << >>
        BY <4>1 DEF Ordered, Called
      <4>3. n = 0
        BY <4>2, EmptySeq
      <4> QED BY <3>1, <4>3, <1>6
    <3>2. CASE L # 0
      <4>1. 1 \in 1..L /\ fr # << >>
        BY <3>2, <1>1, EmptySeq
      <4> QED BY <4>1, <1>6 DEF Ordered, Called
    <3> QED BY <3>1, <3>2
  <2>3. ASSUME NEW m \in 1..(L + 1)
        PROVE  /\ fr2[m].d \in 1..(n + 1) /\ st2[fr2[m].d] = fr2[m].node
               /\ fr2[m].next \in 1..(Len(g[fr2[m].node]) + 1)
    <3>1. CASE m = L + 1
      <4>1. Len(g[x]) \in Nat
        BY <1>1, ListFacts DEF Ordered, Shape
      <4> QED BY <3>1, <4>1, <1>1, <1>5, <1>6
    <3>2. CASE m # L + 1
      <4>1. m \in 1..L
        BY <3>2, <1>1
      <4>2. fr[m].d \in 1..n /\ fr[m].d \in 1..(n + 1)
        BY <4>1, <1>1, <1>8
      <4> QED BY <4>1, <4>2, <1>5, <1>6, <1>8
    <3> QED BY <3>1, <3>2
  <2>4. ASSUME NEW m \in 1..(L + 1), NEW l \in 1..(L + 1), m < l PROVE fr2[m].d < fr2[l].d
    <3>1. m \in 1..L /\ fr2[m] = fr[m] /\ fr[m].d \in 1..n
      BY <2>4, <1>1, <1>6, <1>8
    <3>2. CASE l = L + 1
      BY <3>1, <3>2, <1>1, <1>6
    <3>3. CASE l # L + 1
      <4>1. l \in 1..L
        BY <3>3, <1>1
      <4> QED BY <2>4, <3>1, <4>1, <1>6, FrameFacts
    <3> QED BY <3>2, <3>3
  <2>5. ASSUME NEW m \in 1..L
        PROVE  /\ fr2[m].next <= Len(g[fr2[m].node])
               /\ g[fr2[m].node][fr2[m].next] = fr2[m + 1].node
    <3>1. CASE m = L
      <4>1. fr # << >>
        BY <3>1, <1>1, EmptySeq
      <4>2. fr2[m] = fr[L] /\ fr2[m + 1].node = x
        BY <3>1, <1>6
      <4> QED BY <4>1, <4>2 DEF Visitable
    <3>2. CASE m # L
      <4>1. m \in 1..(L - 1) /\ m + 1 \in 1..L
        BY <3>2, <1>1
      <4>2. fr2[m] = fr[m] /\ fr2[m + 1] = fr[m + 1]
        BY <4>1, <1>6
      <4> QED BY <4>1, <4>2 DEF Ordered, Called
    <3> QED BY <3>1, <3>2
  <2>6. Len(fr2) - 1 = L
    BY <1>1, <1>6
  <2> QED BY <2>1, <2>2, <2>3, <2>4, <2>5, <2>6, <1>5, <1>6 DEF Called
<1> QED BY <1>7, <1>9 DEF Ordered

LEMMA VisitKeepsLinks ==
  ASSUME NEW g, NEW rk, NEW st, NEW fr, Ordered(g, rk, st, fr), Linked(g, rk, st, fr),
         NEW x, Visitable(g, rk, fr, x),
         NEW rk2, NEW st2, NEW fr2, Shape(g, rk2, st2, fr2),
         Pushed(g, rk, st, x, rk2, st2), Entered(g, st, fr, x, fr2)
  PROVE  Linked(g, rk2, st2, fr2)
<1> DEFINE N == Len(g)  n == Len(st)  L == Len(fr)
<1>1. N \in Nat /\ n \in Nat /\ L \in Nat /\ x \in 1..N /\ rk[x] = 0
  BY StackFacts, FrameFacts DEF Visitable
<1>2. \A k \in 1..n : st[k] \in 1..N /\ rk[st[k]] \in 1..k /\ st[k] # x
  BY <1>1, StackFacts
<1>3. \A m \in 1..L : fr[m].d \in 1..n /\ st[fr[m].d] = fr[m].node /\ fr[m].node \in 1..N
  BY FrameFacts
<1>4. /\ Len(st2) = n + 1 /\ st2[n + 1] = x
      /\ \A k \in 1..n : st2[k] = st[k]
      /\ rk2[x] = n + 1
      /\ \A y \in 1..N : y # x => rk2[y] = rk[y]
  BY DEF Pushed
<1>5. /\ Len(fr2) = L + 1 /\ fr2[L + 1].d = n + 1 /\ fr2[L + 1].node = x
      /\ \A m \in 1..L : fr2[m] = fr[m]
  BY DEF Entered
<1>6. Relation(g) /\ x \in Reach(g, x)
  BY <1>1, ReachFacts DEF Ordered, Shape
<1>7. ASSUME NEW m \in 1..(L + 1), NEW k \in fr2[m].d..(n + 1) PROVE st2[k] \in Reach(g, fr2[m].node)
  <2>1. CASE m = L + 1
    BY <2>1, <1>1, <1>4, <1>5, <1>6
  <2>2. CASE m # L + 1
    <3>1. m \in 1..L /\ fr2[m] = fr[m] /\ fr[m].d \in 1..n
      BY <2>2, <1>1, <1>3, <1>5
    <3>2. \A l \in fr[m].d..n : st[l] \in Reach(g, fr[m].node)
      BY <3>1 DEF Linked
    <3>3. CASE k = n + 1
      <4>1. fr # << >>
        BY <3>1, EmptySeq
      <4>2. fr[L].d \in fr[m].d..n /\ L \in 1..L
        BY <3>1, <4>1, <1>3, LastFrame
      <4>3. fr[L].node \in Reach(g, fr[m].node)
        BY <3>2, <4>2, <1>3
      <4>4. x \in Children(g, fr[L].node)
        <5>1. fr[L].next <= Len(g[fr[L].node]) /\ g[fr[L].node][fr[L].next] = x
          BY <4>1 DEF Visitable
        <5>2. fr[L].next \in Nat \ {0}
          BY <4>2, FrameFacts
        <5>3. fr[L].next \in 1..Len(g[fr[L].node])
          BY <5>1, <5>2
        <5> QED BY <5>1, <5>3 DEF Children
      <4> QED BY <3>1, <3>3, <4>3, <4>4, <1>3, <1>4, <1>6, ReachFacts
    <3>4. CASE k # n + 1
      <4>1. k \in fr[m].d..n /\ k \in 1..n
        BY <3>1, <3>4, <1>1
      <4> QED BY <3>1, <3>2, <4>1, <1>4
    <3> QED BY <3>3, <3>4
  <2> QED BY <2>1, <2>2
<1>8. ASSUME NEW k \in 1..(n + 1)
      PROVE  /\ st2[rk2[st2[k]]] \in Reach(g, st2[k])
             /\ (\E m \in 1..(L + 1) : fr2[m].d = k) \/ rk2[st2[k]] < k
  <2>1. CASE k = n + 1
    <3>1. L + 1 \in 1..(L + 1)
      BY <1>1
    <3> QED BY <2>1, <3>1, <1>4, <1>5, <1>6
  <2>2. CASE k # n + 1
    <3>1. k \in 1..n
      BY <2>2, <1>1
    <3>2. st2[k] = st[k] /\ rk2[st2[k]] = rk[st[k]] /\ rk[st[k]] \in 1..n
      BY <3>1, <1>1, <1>2, <1>4
    <3>3. st2[rk[st[k]]] = st[rk[st[k]]]
      BY <3>2, <1>4
    <3>4. st[rk[st[k]]] \in Reach(g, st[k]) /\ ((\E m \in 1..L : fr[m].d = k) \/ rk[st[k]] < k)
      BY <3>1 DEF Linked
    <3>5. ASSUME NEW m \in 1..L PROVE fr2[m].d = fr[m].d /\ m \in 1..(L + 1)
      BY <1>1, <1>5
    <3> QED BY <3>2, <3>3, <3>4, <3>5
  <2> QED BY <2>1, <2>2
<1> QED BY <1>4, <1>5, <1>7, <1>8 DEF Linked

LEMMA VisitKeepsSets ==
  ASSUME NEW g, NEW rk, NEW st, NEW fr, NEW sets, Good(g, rk, st, fr, sets),
         NEW x, Visitable(g, rk, fr, x),
         NEW rk2, NEW st2, NEW fr2, Shape(g, rk2, st2, fr2),
         Pushed(g, rk, st, x, rk2, st2), Entered(g, st, fr, x, fr2)
  PROVE  /\ Gathered(g, rk2, st2, fr2, sets)
         /\ ReadsKept(g, rk2, st2, fr2, sets)
         /\ Popped(g, rk2, sets)
<1> DEFINE N == Len(g)  n == Len(st)  L == Len(fr)
<1>0. Ordered(g, rk, st, fr)
  BY DEF Good
<1>1. N \in Nat /\ n \in Nat /\ L \in Nat /\ n < N /\ x \in 1..N /\ rk[x] = 0
  BY <1>0, StackFacts, FrameFacts, StackHasRoom DEF Visitable
<1>2. \A k \in 1..n : st[k] \in 1..N /\ rk[st[k]] \in 1..k /\ st[k] # x
  BY <1>0, <1>1, StackFacts
<1>3. \A m \in 1..L : fr[m].d \in 1..n /\ st[fr[m].d] = fr[m].node /\ fr[m].node \in 1..N
  BY <1>0, FrameFacts
<1>4. /\ Len(st2) = n + 1 /\ st2[n + 1] = x
      /\ \A k \in 1..n : st2[k] = st[k]
      /\ rk2[x] = n + 1
      /\ \A y \in 1..N : y # x => rk2[y] = rk[y]
  BY DEF Pushed
<1>5. /\ Len(fr2) = L + 1
      /\ fr2[L + 1].d = n + 1 /\ fr2[L + 1].node = x /\ fr2[L + 1].next = 1
      /\ \A m \in 1..L : fr2[m] = fr[m]
  BY DEF Entered
<1>6. Gathered(g, rk2, st2, fr2, sets)
  <2> SUFFICES ASSUME NEW m \in 1..(L + 1), NEW k \in fr2[m].d..(n + 1)
               PROVE  \/ m < L + 1 /\ k >= fr2[m + 1].d
                      \/ Covers(rk2, sets, fr2[m].node, st2[k])
    BY <1>4, <1>5 DEF Gathered
  <2>1. CASE m = L + 1
    BY <2>1, <1>1, <1>4, <1>5 DEF Covers
  <2>2. CASE m # L + 1
    <3>1. m \in 1..L /\ m < L + 1 /\ fr2[m] = fr[m] /\ fr[m].d \in 1..n
      BY <2>2, <1>1, <1>3, <1>5
    <3>2. CASE k = n + 1
      <4>1. CASE m = L
        BY <3>1, <3>2, <4>1, <1>1, <1>5
      <4>2. CASE m # L
        <5>1. m + 1 \in 1..L
          BY <3>1, <4>2, <1>1
        <5>2. fr2[m + 1].d \in 1..n
          BY <5>1, <1>3, <1>5
        <5> QED BY <3>1, <3>2, <5>2, <1>1
      <4> QED BY <4>1, <4>2
    <3>3. CASE k # n + 1
      <4>1. k \in 1..n /\ k \in fr[m].d..n
        BY <3>1, <3>3, <1>1
      <4>2. \/ m < L /\ k >= fr[m + 1].d
            \/ Covers(rk, sets, fr[m].node, st[k])
            \/ m = L /\ Pending(g, rk, fr, sets, st[k])
        BY <3>1, <4>1 DEF Good, Gathered
      <4>3. CASE m < L /\ k >= fr[m + 1].d
        <5>1. m + 1 \in 1..L
          BY <3>1, <4>3, <1>1
        <5> QED BY <3>1, <4>3, <5>1, <1>5
      <4>4. CASE Covers(rk, sets, fr[m].node, st[k])
        <5>1. fr[m].node \in 1..N /\ fr[m].node # x /\ st[k] \in 1..N /\ st[k] # x
          BY <3>1, <4>1, <1>2, <1>3
        <5> QED BY <3>1, <4>1, <4>4, <5>1, <1>4 DEF Covers
      <4>5. CASE m = L /\ Pending(g, rk, fr, sets, st[k])
        <5>1. fr # << >>
          BY <3>1, EmptySeq
        <5> QED BY <4>5, <5>1 DEF Pending, Visitable
      <4> QED BY <4>2, <4>3, <4>4, <4>5
    <3> QED BY <3>2, <3>3
  <2> QED BY <2>1, <2>2
<1>7. ReadsKept(g, rk2, st2, fr2, sets)
  <2> SUFFICES ASSUME NEW k \in 1..(n + 1), NEW y \in Read(g, fr2, st2[k])
               PROVE  ReadChild(g, rk2, st2, fr2, sets, k, y)
    BY <1>4 DEF ReadsKept
  <2>1. PICK e \in 1..Len(g[st2[k]]) :
          /\ y = g[st2[k]][e]
          /\ \A m \in 1..(L + 1) : fr2[m].node = st2[k] => e < fr2[m].next
    BY <1>5 DEF Read
  <2>2. k \in 1..n
    <3>1. ASSUME k = n + 1 PROVE FALSE
      <4>1. L + 1 \in 1..(L + 1)
        BY <1>1
      <4>2. e < 1
        BY <2>1, <3>1, <4>1, <1>4, <1>5
      <4>3. e \in Int /\ e >= 1
        OBVIOUS
      <4> QED BY <4>2, <4>3
    <3> QED BY <3>1, <1>1
  <2>3. st2[k] = st[k] /\ rk2[st2[k]] = rk[st[k]]
    BY <2>2, <1>2, <1>4
  <2>4. y \in Read(g, fr, st[k])
    <3>1. ASSUME NEW m \in 1..L, fr[m].node = st[k] PROVE e < fr[m].next
      <4>1. m \in 1..(L + 1)
        BY <1>1
      <4> QED BY <3>1, <4>1, <2>1, <2>3, <1>5
    <3> QED BY <2>1, <2>3, <3>1 DEF Read
  <2>5. ReadChild(g, rk, st, fr, sets, k, y)
    BY <2>2, <2>4 DEF Good, ReadsKept
  <2>6. CASE \E j \in 1..n :
               st[j] = y /\ rk[st[k]] <= j /\ \A m \in 1..L : fr[m].d > k => j < fr[m].d
    <3>1. PICK j \in 1..n :
               st[j] = y /\ rk[st[k]] <= j /\ \A m \in 1..L : fr[m].d > k => j < fr[m].d
      BY <2>6
    <3>2. ASSUME NEW m \in 1..(L + 1), fr2[m].d > k PROVE j < fr2[m].d
      <4>1. CASE m = L + 1
        BY <4>1, <1>1, <1>5
      <4>2. CASE m # L + 1
        <5>1. m \in 1..L
          BY <4>2, <1>1
        <5> QED BY <5>1, <3>1, <3>2, <1>5
      <4> QED BY <4>1, <4>2
    <3>3. j \in 1..(n + 1) /\ st2[j] = y /\ rk2[st2[k]] <= j
      BY <3>1, <2>3, <1>1, <1>4
    <3> QED BY <3>2, <3>3, <1>4, <1>5 DEF ReadChild
  <2>7. CASE rk[y] = Top(g) /\ (Simple(g, y) => Solution(g, y) \subseteq sets[st[k]])
    <3>1. y \in 1..N
      <4>1. st[k] \in 1..N
        BY <2>2, <1>2
      <4> QED BY <4>1, <2>1, <2>3, ListFacts, <1>0 DEF Ordered, Shape
    <3>2. rk2[y] = Top(g)
      BY <3>1, <2>7, <1>1, <1>4 DEF Top
    <3> QED BY <3>2, <2>3, <2>7 DEF ReadChild
  <2> QED BY <2>5, <2>6, <2>7 DEF ReadChild
<1>8. Popped(g, rk2, sets)
  <2> SUFFICES ASSUME NEW z \in 1..N, rk2[z] = Top(g)
               PROVE  /\ \A y \in Children(g, z) : rk2[y] = Top(g)
                      /\ Simple(g, z) => sets[z] = Solution(g, z)
    BY DEF Popped
  <2>1. rk[z] = Top(g)
    BY <1>1, <1>4 DEF Top
  <2>2. /\ \A y \in Children(g, z) : rk[y] = Top(g)
        /\ Simple(g, z) => sets[z] = Solution(g, z)
    BY <2>1 DEF Good, Popped
  <2>3. ASSUME NEW y \in Children(g, z) PROVE rk2[y] = Top(g)
    <3>1. y \in 1..N
      BY ListFacts, <1>0 DEF Ordered, Shape
    <3>2. y # x
      BY <2>2, <1>1 DEF Top
    <3> QED BY <3>1, <3>2, <2>2, <1>4
  <2> QED BY <2>2, <2>3
<1> QED BY <1>6, <1>7, <1>8

-----------------------------------------------------------------------------
(* A turn of the loop takes what a visited child has.                      *)

\* The last frame is of x and reads the visited child c.
Reads(g, rk, fr, x, c) ==
  /\ fr # << >> /\ x = fr[Len(fr)].node
  /\ fr[Len(fr)].next <= Len(g[x]) /\ g[x][fr[Len(fr)].next] = c /\ rk[c] # 0

Lowered(g, rk, x, c, rk2) ==
  /\ rk2[x] = IF rk[c] < rk[x] THEN rk[c] ELSE rk[x]
  /\ \A y \in 1..Len(g) : y # x => rk2[y] = rk[y]

Joined(g, sets, x, c, sets2) ==
  /\ sets2[x] = sets[x] \cup sets[c]
  /\ \A y \in 1..Len(g) : y # x => sets2[y] = sets[y]

Stepped(fr, fr2) ==
  /\ Len(fr2) = Len(fr)
  /\ \A m \in 1..Len(fr) :
       /\ fr2[m].node = fr[m].node /\ fr2[m].d = fr[m].d
       /\ fr2[m].next = IF m = Len(fr) THEN fr[m].next + 1 ELSE fr[m].next

\* Where the node x of the last frame is, and what its rank becomes.
LEMMA AbsorbFacts ==
  ASSUME NEW g, NEW rk, NEW st, NEW fr, Ordered(g, rk, st, fr),
         NEW x, NEW c, Reads(g, rk, fr, x, c),
         NEW rk2, Lowered(g, rk, x, c, rk2)
  PROVE  /\ Len(fr) \in 1..Len(fr) /\ x \in 1..Len(g) /\ c \in Children(g, x) /\ c \in 1..Len(g)
         /\ fr[Len(fr)].node = x /\ fr[Len(fr)].d \in 1..Len(st) /\ st[fr[Len(fr)].d] = x
         /\ \A k \in 1..Len(st) : st[k] = x <=> k = fr[Len(fr)].d
         /\ \A m \in 1..Len(fr) : fr[m].node = x <=> m = Len(fr)
         /\ \A k \in 1..Len(st) : rk2[st[k]] \in 1..rk[st[k]]
         /\ rk2[x] <= rk[c]
         /\ \A y \in 1..Len(g) : rk2[y] \in 1..Len(g) <=> rk[y] \in 1..Len(g)
         /\ \A y \in 1..Len(g) : rk2[y] = Top(g) <=> rk[y] = Top(g)
<1> DEFINE N == Len(g)  L == Len(fr)  D == fr[Len(fr)].d
<1>1. L \in 1..L /\ fr[L].node = x
  BY LastFrame DEF Reads
<1>2. x \in 1..N /\ D \in 1..Len(st) /\ st[D] = x /\ fr[L].next \in 1..(Len(g[x]) + 1)
  BY <1>1, FrameFacts
<1>3. Relation(g) /\ N \in Nat /\ Len(st) \in Nat
  BY StackFacts DEF Ordered, Shape
<1>4. fr[L].next \in 1..Len(g[x])
  BY <1>1, <1>2, <1>3, ListFacts DEF Reads
<1>5. c \in Children(g, x) /\ c \in 1..N
  <2>1. c = g[x][fr[L].next]
    BY DEF Reads
  <2> QED BY <2>1, <1>2, <1>3, <1>4, ListFacts DEF Children
<1>6. \A k, l \in 1..Len(st) : st[k] = st[l] => k = l
  BY StackFacts
<1>7. \A m \in 1..L : fr[m].node = x <=> m = L
  BY <1>1, FrameFacts
<1>8. rk[x] \in 1..N
  <2>1. \A k \in 1..Len(st) : rk[st[k]] \in 1..N
    BY StackFacts
  <2> QED BY <2>1, <1>2
<1>9. rk[c] \in 1..(N + 1)
  <2>1. rk[c] \in 0..(N + 1) /\ rk[c] # 0
    BY <1>5, StackFacts DEF Reads
  <2> QED BY <2>1, <1>3
<1>10. /\ rk2[x] = IF rk[c] < rk[x] THEN rk[c] ELSE rk[x]
       /\ \A y \in 1..N : y # x => rk2[y] = rk[y]
  BY DEF Lowered
<1>11. rk2[x] \in 1..rk[x] /\ rk2[x] <= rk[c]
  BY <1>3, <1>8, <1>9, <1>10
<1>12. rk2[x] \in 1..N
  BY <1>3, <1>8, <1>11
<1>13. \A k \in 1..Len(st) : rk2[st[k]] \in 1..rk[st[k]]
  <2>1. \A k \in 1..Len(st) : st[k] \in 1..N /\ rk[st[k]] \in 1..N
    BY StackFacts
  <2> QED BY <2>1, <1>3, <1>10, <1>11
<1>14. \A y \in 1..N : rk2[y] \in 1..N <=> rk[y] \in 1..N
  BY <1>8, <1>10, <1>12
<1>15. \A y \in 1..N : rk2[y] = Top(g) <=> rk[y] = Top(g)
  BY <1>3, <1>8, <1>10, <1>12 DEF Top
<1> QED BY <1>1, <1>2, <1>5, <1>6, <1>7, <1>11, <1>13, <1>14, <1>15

LEMMA AbsorbKeepsOrder ==
  ASSUME NEW g, NEW rk, NEW st, NEW fr, Ordered(g, rk, st, fr), Linked(g, rk, st, fr),
         NEW x, NEW c, Reads(g, rk, fr, x, c),
         NEW rk2, NEW fr2, Shape(g, rk2, st, fr2), Lowered(g, rk, x, c, rk2), Stepped(fr, fr2)
  PROVE  Ordered(g, rk2, st, fr2) /\ Linked(g, rk2, st, fr2)
<1> DEFINE N == Len(g)  n == Len(st)  L == Len(fr)  D == fr[Len(fr)].d
<1>1. N \in Nat /\ n \in Nat /\ L \in 1..L /\ x \in 1..N /\ c \in Children(g, x) /\ c \in 1..N
  BY StackFacts, AbsorbFacts
<1>2. D \in 1..n /\ st[D] = x /\ \A k \in 1..n : st[k] = x <=> k = D
  BY AbsorbFacts
<1>3. \A k \in 1..n : st[k] \in 1..N /\ rk[st[k]] \in 1..N /\ rk[st[k]] <= k
  BY StackFacts
<1>4. \A k \in 1..n : rk2[st[k]] \in 1..rk[st[k]]
  BY AbsorbFacts
<1>5. \A y \in 1..N : rk2[y] \in 1..N <=> rk[y] \in 1..N
  BY AbsorbFacts
<1>6. /\ rk2[x] = IF rk[c] < rk[x] THEN rk[c] ELSE rk[x]
      /\ \A y \in 1..N : y # x => rk2[y] = rk[y]
  BY DEF Lowered
<1>7. /\ Len(fr2) = L
      /\ \A m \in 1..L :
          /\ fr2[m].node = fr[m].node /\ fr2[m].d = fr[m].d
          /\ fr2[m].next = IF m = L THEN fr[m].next + 1 ELSE fr[m].next
  BY DEF Stepped
<1>8. Stacked(g, rk2, st)
  <2>1. \A k \in 1..n : rk2[st[k]] <= k
    BY <1>3, <1>4
  <2>2. NoRepeats(st) /\ \A y \in 1..N : rk[y] \in 1..N <=> Occurs(y, st)
    BY DEF Ordered, Stacked
  <2> QED BY <2>1, <2>2, <1>5 DEF Stacked
<1>9. Called(g, st, fr2)
  <2>1. fr2 # << >> /\ fr # << >> /\ 1 \in 1..L
    BY <1>1, <1>7, EmptySeq
  <2>2. fr2[1].d = 1
    BY <2>1, <1>7 DEF Ordered, Called
  <2>3. ASSUME NEW m \in 1..L
        PROVE  /\ fr2[m].d \in 1..n /\ st[fr2[m].d] = fr2[m].node
               /\ fr2[m].next \in 1..(Len(g[fr2[m].node]) + 1)
    <3>1. /\ fr[m].d \in 1..n /\ st[fr[m].d] = fr[m].node /\ fr[m].node \in 1..N
          /\ fr[m].next \in 1..(Len(g[fr[m].node]) + 1)
      BY FrameFacts
    <3>2. Len(g[fr[m].node]) \in Nat
      BY <3>1, ListFacts DEF Ordered, Shape
    <3>3. CASE m = L
      <4>1. fr[m].next <= Len(g[fr[m].node])
        BY <3>3 DEF Reads
      <4>2. fr[m].next + 1 \in 1..(Len(g[fr[m].node]) + 1)
        BY <3>1, <3>2, <4>1
      <4> QED BY <3>1, <3>3, <4>2, <1>7
    <3>4. CASE m # L
      BY <3>1, <3>4, <1>7
    <3> QED BY <3>3, <3>4
  <2>4. \A m, l \in 1..L : m < l => fr2[m].d < fr2[l].d
    BY <1>7, FrameFacts
  <2>5. ASSUME NEW m \in 1..(L - 1)
        PROVE  /\ fr2[m].next <= Len(g[fr2[m].node])
               /\ g[fr2[m].node][fr2[m].next] = fr2[m + 1].node
    <3>1. m \in 1..L /\ m + 1 \in 1..L /\ m # L
      BY <1>1
    <3>2. fr[m].next <= Len(g[fr[m].node]) /\ g[fr[m].node][fr[m].next] = fr[m + 1].node
      BY DEF Ordered, Called
    <3> QED BY <3>1, <3>2, <1>7
  <2> QED BY <2>1, <2>2, <2>3, <2>4, <2>5, <1>7 DEF Called
<1>10. Linked(g, rk2, st, fr2)
  <2>1. ASSUME NEW m \in 1..L, NEW k \in fr2[m].d..n PROVE st[k] \in Reach(g, fr2[m].node)
    BY <1>7 DEF Linked
  <2>2. ASSUME NEW k \in 1..n PROVE st[rk2[st[k]]] \in Reach(g, st[k])
    <3>1. st[rk[st[k]]] \in Reach(g, st[k])
      BY DEF Linked
    <3>2. CASE rk2[st[k]] = rk[st[k]]
      BY <3>1, <3>2
    <3>3. CASE rk2[st[k]] # rk[st[k]]
      <4>1. st[k] = x /\ rk2[x] = rk[c]
        BY <3>3, <1>3, <1>6
      <4>2. rk[c] \in 1..N
        BY <4>1, <1>1, <1>3, <1>4
      <4>3. PICK l \in 1..n : st[l] = c
        BY <4>2, <1>1, StackFacts
      <4>4. st[rk[c]] \in Reach(g, c)
        BY <4>3 DEF Linked
      <4>5. c \in Reach(g, x) /\ Reach(g, c) \subseteq Reach(g, x)
        BY <1>1, ReachFacts DEF Ordered, Shape
      <4> QED BY <4>1, <4>4, <4>5
    <3> QED BY <3>2, <3>3
  <2>3. ASSUME NEW k \in 1..n PROVE (\E m \in 1..L : fr2[m].d = k) \/ rk2[st[k]] < k
    <3>1. (\E m \in 1..L : fr[m].d = k) \/ rk[st[k]] < k
      BY DEF Linked
    <3> QED BY <3>1, <1>3, <1>4, <1>7
  <2> QED BY <2>1, <2>2, <2>3, <1>7 DEF Linked
<1> QED BY <1>8, <1>9, <1>10 DEF Ordered

LEMMA AbsorbKeepsGathered ==
  ASSUME NEW g, NEW rk, NEW st, NEW fr, NEW sets, Good(g, rk, st, fr, sets),
         NEW x, NEW c, Reads(g, rk, fr, x, c),
         NEW rk2, NEW fr2, NEW sets2,
         Lowered(g, rk, x, c, rk2), Stepped(fr, fr2), Joined(g, sets, x, c, sets2)
  PROVE  Gathered(g, rk2, st, fr2, sets2)
<1> DEFINE N == Len(g)  n == Len(st)  L == Len(fr)  D == fr[Len(fr)].d
<1>0. Ordered(g, rk, st, fr)
  BY DEF Good
<1>1. N \in Nat /\ n \in Nat /\ L \in 1..L /\ x \in 1..N /\ fr[L].node = x /\ fr # << >>
  <2>1. fr # << >>
    BY DEF Reads
  <2> QED BY <2>1, <1>0, StackFacts, AbsorbFacts
<1>2. D \in 1..n /\ st[D] = x /\ \A k \in 1..n : st[k] = x <=> k = D
  BY <1>0, AbsorbFacts
<1>3. \A k \in 1..n : st[k] \in 1..N /\ rk[st[k]] \in 1..N /\ rk2[st[k]] \in 1..rk[st[k]]
  BY <1>0, StackFacts, AbsorbFacts
<1>4. rk2[x] <= rk[c] /\ rk[c] \in Int /\ rk2[x] \in 1..rk[x] /\ rk[x] \in 1..N
  <2>1. c \in 1..N
    BY <1>0, AbsorbFacts
  <2>2. rk[c] \in Int
    BY <2>1, <1>0, <1>1, StackFacts
  <2> QED BY <2>2, <1>0, <1>2, <1>3, AbsorbFacts
<1>5. /\ \A y \in 1..N : y # x => rk2[y] = rk[y]
      /\ \A y \in 1..N : y # x => sets2[y] = sets[y]
      /\ sets2[x] = sets[x] \cup sets[c]
  BY DEF Lowered, Joined
<1>6. Len(fr2) = L /\ \A m \in 1..L : fr2[m].node = fr[m].node /\ fr2[m].d = fr[m].d
  BY DEF Stepped
<1>7. \A m \in 1..L : fr[m].d \in 1..n /\ st[fr[m].d] = fr[m].node /\ fr[m].node \in 1..N
  BY <1>0, FrameFacts
<1> SUFFICES ASSUME NEW m \in 1..L, NEW k \in fr[m].d..n,
                    ~ (m < L /\ k >= fr[m + 1].d)
             PROVE  Covers(rk2, sets2, fr[m].node, st[k])
  <2>1. \A m \in 1..L : m < L => fr2[m + 1].d = fr[m + 1].d
    <3>1. \A m \in 1..L : m < L => m + 1 \in 1..L
      BY <1>1
    <3> QED BY <3>1, <1>6
  <2> QED BY <2>1, <1>6 DEF Gathered
<1>8. k \in 1..n
  BY <1>1, <1>7
<1>9. Covers(rk, sets, fr[m].node, st[k]) \/ (m = L /\ Pending(g, rk, fr, sets, st[k]))
  BY DEF Good, Gathered
<1>10. CASE m # L
  <2>1. m + 1 \in 1..L
    BY <1>10, <1>1
  <2>2. k < fr[m + 1].d /\ fr[m + 1].d <= D
    BY <2>1, <1>0, <1>1, <1>7, <1>8, <1>10, LastFrame
  <2>3. st[k] # x /\ fr[m].node # x
    <3>1. fr[m].d < D
      BY <1>0, <1>1, <1>10, LastFrame
    <3>2. fr[m].d # D /\ fr[m].d \in 1..n /\ k # D
      BY <3>1, <2>1, <2>2, <1>1, <1>2, <1>7, <1>8
    <3> QED BY <3>2, <1>2, <1>7, <1>8
  <2> QED BY <2>3, <1>3, <1>5, <1>7, <1>8, <1>9, <1>10 DEF Covers
<1>11. CASE m = L
  <2>1. fr[m].node = x
    BY <1>1, <1>11
  <2>2. CASE st[k] = x
    BY <2>1, <2>2, <1>4 DEF Covers
  <2>3. CASE st[k] # x
    <3>1. rk2[st[k]] = rk[st[k]] /\ sets2[st[k]] = sets[st[k]] /\ rk[st[k]] \in Int
      BY <2>3, <1>3, <1>5, <1>8
    <3>2. CASE Covers(rk, sets, x, st[k])
      <4>1. rk[x] <= rk[st[k]] /\ sets[st[k]] \subseteq sets[x]
        BY <3>2 DEF Covers
      <4>2. rk2[x] <= rk2[st[k]]
        BY <4>1, <3>1, <1>4
      <4> QED BY <4>1, <4>2, <3>1, <2>1, <1>5 DEF Covers
    <3>3. CASE Pending(g, rk, fr, sets, st[k])
      <4>1. rk[c] <= rk[st[k]] /\ sets[st[k]] \subseteq sets[c]
        BY <3>3, <1>1 DEF Pending, Covers, Reads
      <4>2. rk2[x] <= rk2[st[k]]
        BY <4>1, <3>1, <1>4
      <4> QED BY <4>1, <4>2, <3>1, <2>1, <1>5 DEF Covers
    <3> QED BY <3>2, <3>3, <2>1, <1>9
  <2> QED BY <2>2, <2>3
<1> QED BY <1>10, <1>11

LEMMA AbsorbKeepsReads ==
  ASSUME NEW g, NEW rk, NEW st, NEW fr, NEW sets, Good(g, rk, st, fr, sets),
         NEW x, NEW c, Reads(g, rk, fr, x, c),
         NEW rk2, NEW fr2, NEW sets2,
         Lowered(g, rk, x, c, rk2), Stepped(fr, fr2), Joined(g, sets, x, c, sets2)
  PROVE  ReadsKept(g, rk2, st, fr2, sets2)
<1> DEFINE N == Len(g)  n == Len(st)  L == Len(fr)  D == fr[Len(fr)].d
<1>0. Ordered(g, rk, st, fr)
  BY DEF Good
<1>1. N \in Nat /\ n \in Nat /\ L \in 1..L /\ x \in 1..N /\ c \in 1..N /\ fr[L].node = x
  BY <1>0, StackFacts, AbsorbFacts
<1>2. D \in 1..n /\ st[D] = x /\ \A k \in 1..n : st[k] = x <=> k = D
  BY <1>0, AbsorbFacts
<1>3. \A k \in 1..n : /\ st[k] \in 1..N /\ rk[st[k]] \in 1..N /\ rk[st[k]] <= k
                      /\ rk2[st[k]] \in 1..rk[st[k]]
  BY <1>0, StackFacts, AbsorbFacts
<1>4. /\ \A y \in 1..N : y # x => sets2[y] = sets[y]
      /\ sets2[x] = sets[x] \cup sets[c]
  BY DEF Joined
<1>5. \A y \in 1..N : sets[y] \subseteq sets2[y]
  BY <1>4
<1>6. /\ Len(fr2) = L
      /\ \A m \in 1..L :
          /\ fr2[m].node = fr[m].node /\ fr2[m].d = fr[m].d
          /\ fr2[m].next = IF m = L THEN fr[m].next + 1 ELSE fr[m].next
  BY DEF Stepped
<1>7. \A y \in 1..N : rk2[y] = Top(g) <=> rk[y] = Top(g)
  BY <1>0, AbsorbFacts
<1>8. ASSUME NEW k \in 1..n, NEW y \in 1..N, ReadChild(g, rk, st, fr, sets, k, y)
      PROVE  ReadChild(g, rk2, st, fr2, sets2, k, y)
  <2>1. CASE \E j \in 1..n :
               st[j] = y /\ rk[st[k]] <= j /\ \A m \in 1..L : fr[m].d > k => j < fr[m].d
    <3>1. PICK j \in 1..n :
               st[j] = y /\ rk[st[k]] <= j /\ \A m \in 1..L : fr[m].d > k => j < fr[m].d
      BY <2>1
    <3>2. rk2[st[k]] <= j
      BY <3>1, <1>3
    <3> QED BY <3>1, <3>2, <1>6 DEF ReadChild
  <2>2. CASE rk[y] = Top(g) /\ (Simple(g, y) => Solution(g, y) \subseteq sets[st[k]])
    <3>1. sets[st[k]] \subseteq sets2[st[k]]
      BY <1>3, <1>5
    <3> QED BY <3>1, <2>2, <1>7 DEF ReadChild
  <2> QED BY <1>8, <2>1, <2>2 DEF ReadChild
<1>9. ReadChild(g, rk2, st, fr2, sets2, D, c)
  <2>1. CASE rk[c] = Top(g)
    <3>1. Simple(g, c) => sets[c] = Solution(g, c)
      BY <2>1, <1>1 DEF Good, Popped
    <3>2. rk2[c] = Top(g) /\ sets[c] \subseteq sets2[st[D]]
      BY <2>1, <1>1, <1>2, <1>4, <1>7
    <3> QED BY <3>1, <3>2 DEF ReadChild
  <2>2. CASE rk[c] # Top(g)
    <3>1. rk[c] \in 0..(N + 1) /\ rk[c] # 0 /\ rk[c] # N + 1
      BY <2>2, <1>0, <1>1, StackFacts DEF Reads, Top
    <3>2. rk[c] \in 1..N
      BY <3>1, <1>1
    <3>3. PICK j \in 1..n : st[j] = c
      BY <3>2, <1>0, <1>1, StackFacts
    <3>4. rk2[x] <= j
      <4>1. rk2[x] <= rk[c] /\ rk[c] <= j /\ rk2[x] \in Int
        BY <3>3, <1>0, <1>2, <1>3, AbsorbFacts
      <4> QED BY <4>1, <3>2
    <3>5. ASSUME NEW m \in 1..L, fr2[m].d > D PROVE FALSE
      <4>1. fr[m].d <= D /\ fr[m].d \in Int
        <5>1. fr # << >>
          BY DEF Reads
        <5> QED BY <5>1, <1>0, LastFrame, FrameFacts
      <4> QED BY <4>1, <3>5, <1>2, <1>6
    <3> QED BY <3>3, <3>4, <3>5, <1>2, <1>6 DEF ReadChild
  <2> QED BY <2>1, <2>2
<1> SUFFICES ASSUME NEW k \in 1..n, NEW y \in Read(g, fr2, st[k])
             PROVE  ReadChild(g, rk2, st, fr2, sets2, k, y)
  BY DEF ReadsKept
<1>10. PICK e \in 1..Len(g[st[k]]) :
         /\ y = g[st[k]][e]
         /\ \A m \in 1..L : fr2[m].node = st[k] => e < fr2[m].next
  BY <1>6 DEF Read
<1>11. y \in 1..N
  BY <1>0, <1>3, <1>10, ListFacts DEF Ordered, Shape
<1>12. CASE y \in Read(g, fr, st[k])
  BY <1>8, <1>11, <1>12 DEF Good, ReadsKept
<1>13. CASE y \notin Read(g, fr, st[k])
  <2>1. PICK m \in 1..L : fr[m].node = st[k] /\ ~ (e < fr[m].next)
    BY <1>10, <1>13 DEF Read
  <2>2. m = L
    BY <2>1, <1>6, <1>10
  <2>3. k = D /\ st[k] = x
    BY <2>1, <2>2, <1>1, <1>2
  <2>4. e < fr[L].next + 1 /\ ~ (e < fr[L].next) /\ fr[L].next \in Int
    <3>1. fr[L].next \in Int
      BY <1>0, <1>1, FrameFacts
    <3> QED BY <3>1, <2>1, <2>2, <1>6, <1>10
  <2>5. e = fr[L].next
    BY <2>4
  <2>6. y = c
    BY <2>3, <2>5, <1>10 DEF Reads
  <2> QED BY <2>3, <2>6, <1>9
<1> QED BY <1>12, <1>13

LEMMA AbsorbKeepsSets ==
  ASSUME NEW g, NEW rk, NEW st, NEW fr, NEW sets, Good(g, rk, st, fr, sets),
         NEW x, NEW c, Reads(g, rk, fr, x, c),
         NEW rk2, NEW sets2, Lowered(g, rk, x, c, rk2), Joined(g, sets, x, c, sets2)
  PROVE  Popped(g, rk2, sets2) /\ Sets(g, sets2)
<1> DEFINE N == Len(g)
<1>0. Ordered(g, rk, st, fr)
  BY DEF Good
<1>1. N \in Nat /\ x \in 1..N /\ c \in Children(g, x) /\ c \in 1..N
  BY <1>0, StackFacts, AbsorbFacts
<1>2. /\ \A y \in 1..N : y # x => sets2[y] = sets[y]
      /\ sets2[x] = sets[x] \cup sets[c]
  BY DEF Joined
<1>3. \A y \in 1..N : rk2[y] = Top(g) <=> rk[y] = Top(g)
  BY <1>0, AbsorbFacts
<1>4. rk[x] # Top(g)
  <2>1. \A k \in 1..Len(st) : rk[st[k]] \in 1..N
    BY <1>0, StackFacts
  <2>2. fr[Len(fr)].d \in 1..Len(st) /\ st[fr[Len(fr)].d] = x
    BY <1>0, AbsorbFacts
  <2> QED BY <2>1, <2>2, <1>1 DEF Top
<1>5. Relation(g)
  BY <1>0 DEF Ordered, Shape
<1>6. Popped(g, rk2, sets2)
  <2> SUFFICES ASSUME NEW z \in 1..N, rk2[z] = Top(g)
               PROVE  /\ \A y \in Children(g, z) : rk2[y] = Top(g)
                      /\ Simple(g, z) => sets2[z] = Solution(g, z)
    BY DEF Popped
  <2>1. rk[z] = Top(g) /\ z # x
    BY <1>3, <1>4
  <2>2. /\ \A y \in Children(g, z) : rk[y] = Top(g)
        /\ Simple(g, z) => sets[z] = Solution(g, z)
    BY <2>1 DEF Good, Popped
  <2>3. Children(g, z) \subseteq 1..N
    BY <1>5, ListFacts
  <2> QED BY <2>1, <2>2, <2>3, <1>2, <1>3
<1>7. Sets(g, sets2)
  <2> SUFFICES ASSUME NEW y \in 1..N
               PROVE  Base(y) \subseteq sets2[y] /\ sets2[y] \subseteq Solution(g, y)
    BY DEF Sets
  <2>1. \A z \in 1..N : Base(z) \subseteq sets[z] /\ sets[z] \subseteq Solution(g, z)
    BY DEF Good, Sets
  <2>2. c \in Reach(g, x)
    BY <1>1, <1>5, ReachFacts
  <2>3. Solution(g, c) \subseteq Solution(g, x)
    BY <2>2, <1>1, <1>5, SolutionFacts
  <2>4. CASE y = x
    BY <2>1, <2>3, <2>4, <1>1, <1>2
  <2>5. CASE y # x
    BY <2>1, <2>5, <1>2
  <2> QED BY <2>4, <2>5
<1> QED BY <1>6, <1>7

-----------------------------------------------------------------------------
(* A call of traverse whose loop has ended.                                *)

Exhausted(g, fr) == fr # << >> /\ fr[Len(fr)].next > Len(g[fr[Len(fr)].node])

Returned(fr, fr2) ==
  /\ Len(fr2) = Len(fr) - 1
  /\ \A m \in 1..(Len(fr) - 1) : fr2[m] = fr[m]

\* The node of the call has read all its children, and no frame is above it.
LEMMA EndFacts ==
  ASSUME NEW g, NEW rk, NEW st, NEW fr, Ordered(g, rk, st, fr), Exhausted(g, fr),
         NEW fr2, Returned(fr, fr2)
  PROVE  /\ Len(fr) \in 1..Len(fr) /\ fr[Len(fr)].node \in 1..Len(g)
         /\ fr[Len(fr)].d \in 1..Len(st) /\ st[fr[Len(fr)].d] = fr[Len(fr)].node
         /\ fr[Len(fr)].next = Len(g[fr[Len(fr)].node]) + 1
         /\ \A m \in 1..(Len(fr) - 1) : m \in 1..Len(fr) /\ fr[m].d < fr[Len(fr)].d
         /\ \A y : Read(g, fr2, y) \subseteq Read(g, fr, y)
<1> DEFINE L == Len(fr)
<1>1. fr # << >> /\ L \in Nat
  BY FrameFacts DEF Exhausted
<1>2. L \in 1..L
  BY <1>1, LastFrame
<1>3. /\ fr[L].node \in 1..Len(g) /\ fr[L].d \in 1..Len(st) /\ st[fr[L].d] = fr[L].node
      /\ fr[L].next \in 1..(Len(g[fr[L].node]) + 1)
  BY <1>2, FrameFacts
<1>4. fr[L].next = Len(g[fr[L].node]) + 1
  <2>1. Len(g[fr[L].node]) \in Nat
    BY <1>3, ListFacts DEF Ordered, Shape
  <2> QED BY <2>1, <1>3 DEF Exhausted
<1>5. ASSUME NEW m \in 1..(L - 1) PROVE m \in 1..L /\ fr[m].d < fr[L].d
  <2>1. m \in 1..L /\ m # L
    BY <1>2
  <2> QED BY <2>1, <1>1, LastFrame
<1>6. ASSUME NEW y, NEW z \in Read(g, fr2, y) PROVE z \in Read(g, fr, y)
  <2>1. PICK e \in 1..Len(g[y]) :
          z = g[y][e] /\ \A m \in 1..(L - 1) : fr2[m].node = y => e < fr2[m].next
    BY DEF Read, Returned
  <2>2. ASSUME NEW m \in 1..L, fr[m].node = y PROVE e < fr[m].next
    <3>1. CASE m = L
      <4>1. fr[L].next = Len(g[y]) + 1 /\ Len(g[y]) \in Nat
        <5>1. y \in 1..Len(g)
          BY <2>2, <3>1, <1>3
        <5> QED BY <5>1, <2>2, <3>1, <1>4, ListFacts DEF Ordered, Shape
      <4> QED BY <3>1, <4>1
    <3>2. CASE m # L
      <4>1. m \in 1..(L - 1)
        BY <3>2, <1>2
      <4> QED BY <4>1, <2>1, <2>2 DEF Returned
    <3> QED BY <3>1, <3>2
  <2> QED BY <2>1, <2>2 DEF Read
<1> QED BY <1>2, <1>3, <1>4, <1>5, <1>6

\* The call of a node that is not a root leaves it and what is above it to its caller.
LEMMA ReturnKeeps ==
  ASSUME NEW g, NEW rk, NEW st, NEW fr, NEW sets, Good(g, rk, st, fr, sets),
         Exhausted(g, fr), rk[fr[Len(fr)].node] # fr[Len(fr)].d,
         NEW fr2, Shape(g, rk, st, fr2), Returned(fr, fr2)
  PROVE  Good(g, rk, st, fr2, sets)
<1> DEFINE N == Len(g)  n == Len(st)  L == Len(fr)  D == fr[Len(fr)].d  x == fr[Len(fr)].node
<1>0. Ordered(g, rk, st, fr)
  BY DEF Good
<1>1. /\ N \in Nat /\ n \in Nat /\ L \in Nat /\ L \in 1..L
      /\ x \in 1..N /\ D \in 1..n /\ st[D] = x
      /\ fr[L].next = Len(g[x]) + 1
      /\ \A m \in 1..(L - 1) : m \in 1..L /\ fr[m].d < D
  <2>1. N \in Nat /\ n \in Nat /\ L \in Nat
    BY <1>0, StackFacts, FrameFacts
  <2>2. /\ L \in 1..L /\ x \in 1..N /\ D \in 1..n /\ st[D] = x
        /\ fr[L].next = Len(g[x]) + 1
        /\ \A m \in 1..(L - 1) : m \in 1..L /\ fr[m].d < D
    BY <1>0, EndFacts
  <2> QED BY <2>1, <2>2
<1>2. Len(fr2) = L - 1 /\ \A m \in 1..(L - 1) : fr2[m] = fr[m]
  BY DEF Returned
<1>3. rk[x] \in 1..N /\ rk[x] < D
  <2>1. rk[st[D]] \in 1..N /\ rk[st[D]] <= D
    BY <1>0, <1>1, StackFacts
  <2> QED BY <2>1, <1>1
<1>4. L - 1 \in 1..(L - 1) /\ 1 \in 1..(L - 1)
  <2>1. ASSUME L = 1 PROVE FALSE
    <3>1. D = 1
      BY <2>1, <1>0 DEF Ordered, Called, Exhausted
    <3> QED BY <3>1, <1>3
  <2>2. L # 1 /\ L \in Nat /\ L >= 1
    BY <2>1, <1>1
  <2> HIDE DEF L
  <2> QED BY <2>2
<1>5. Called(g, st, fr2)
  <2>1. fr2 # << >> /\ fr # << >>
    BY <1>1, <1>2, <1>4, EmptySeq
  <2>2. fr2[1].d = 1
    BY <2>1, <1>0, <1>2, <1>4 DEF Ordered, Called
  <2>3. ASSUME NEW m \in 1..(L - 1)
        PROVE  /\ fr2[m].d \in 1..n /\ st[fr2[m].d] = fr2[m].node
               /\ fr2[m].next \in 1..(Len(g[fr2[m].node]) + 1)
    <3>1. m \in 1..L /\ fr2[m] = fr[m]
      BY <1>1, <1>2
    <3> QED BY <3>1, <1>0, FrameFacts
  <2>4. \A m, l \in 1..(L - 1) : m < l => fr2[m].d < fr2[l].d
    <3>1. \A m, l \in 1..L : m < l => fr[m].d < fr[l].d
      BY <1>0, FrameFacts
    <3> QED BY <3>1, <1>1, <1>2
  <2>5. ASSUME NEW m \in 1..(L - 2)
        PROVE  /\ fr2[m].next <= Len(g[fr2[m].node])
               /\ g[fr2[m].node][fr2[m].next] = fr2[m + 1].node
    <3>1. m \in 1..(L - 1) /\ m + 1 \in 1..(L - 1)
      BY <1>1
    <3> QED BY <3>1, <1>0, <1>2 DEF Ordered, Called
  <2>6. (L - 1) - 1 = L - 2
    BY <1>1
  <2> QED BY <2>1, <2>2, <2>3, <2>4, <2>5, <2>6, <1>2 DEF Called
<1>6. Linked(g, rk, st, fr2)
  <2>1. ASSUME NEW m \in 1..(L - 1), NEW k \in fr2[m].d..n PROVE st[k] \in Reach(g, fr2[m].node)
    BY <1>1, <1>2 DEF Good, Linked
  <2>2. ASSUME NEW k \in 1..n PROVE (\E m \in 1..(L - 1) : fr2[m].d = k) \/ rk[st[k]] < k
    <3>1. CASE rk[st[k]] < k
      BY <3>1
    <3>2. CASE ~ (rk[st[k]] < k)
      <4>1. PICK m \in 1..L : fr[m].d = k
        BY <3>2 DEF Good, Linked
      <4>2. m # L
        BY <3>2, <4>1, <1>1, <1>3
      <4>3. m \in 1..(L - 1)
        BY <4>2, <1>1
      <4> QED BY <4>1, <4>3, <1>2
    <3> QED BY <3>1, <3>2
  <2> QED BY <2>1, <2>2, <1>2 DEF Good, Linked
<1>7. Gathered(g, rk, st, fr2, sets)
  <2> SUFFICES ASSUME NEW m \in 1..(L - 1), NEW k \in fr2[m].d..n
               PROVE  \/ m < L - 1 /\ k >= fr2[m + 1].d
                      \/ Covers(rk, sets, fr2[m].node, st[k])
                      \/ m = L - 1 /\ Pending(g, rk, fr2, sets, st[k])
    BY <1>2 DEF Gathered
  <2>1. m \in 1..L /\ fr2[m] = fr[m] /\ m # L
    BY <1>1, <1>2
  <2>2. \/ m < L /\ k >= fr[m + 1].d
        \/ Covers(rk, sets, fr[m].node, st[k])
    BY <2>1 DEF Good, Gathered
  <2>3. CASE Covers(rk, sets, fr[m].node, st[k])
    BY <2>1, <2>3
  <2>4. CASE m < L /\ k >= fr[m + 1].d
    <3>1. CASE m # L - 1
      <4>1. m < L - 1 /\ m + 1 \in 1..(L - 1)
        BY <3>1, <1>1
      <4> QED BY <2>4, <4>1, <1>2
    <3>2. CASE m = L - 1
      <4>1. m + 1 = L
        BY <3>2, <1>1
      <4>2. k \in D..n
        <5>1. fr[m].d \in Int
          BY <2>1, <1>0, FrameFacts
        <5>2. k >= D
          BY <2>4, <4>1
        <5> QED BY <2>1, <5>1, <5>2, <1>1
      <4>3. Covers(rk, sets, x, st[k])
        <5>1. Covers(rk, sets, x, st[k]) \/ Pending(g, rk, fr, sets, st[k])
          <6>1. \/ L < Len(fr) /\ k >= fr[L + 1].d
                \/ Covers(rk, sets, fr[L].node, st[k])
                \/ L = Len(fr) /\ Pending(g, rk, fr, sets, st[k])
            BY <4>2, <1>1 DEF Good, Gathered
          <6> QED BY <6>1, <1>1
        <5>2. ~ Pending(g, rk, fr, sets, st[k])
          <6>1. Len(g[x]) \in Nat
            BY <1>0, <1>1, ListFacts DEF Ordered, Shape
          <6> QED BY <6>1, <1>1 DEF Pending
        <5> QED BY <5>1, <5>2
      <4>4. fr[m].next <= Len(g[fr[m].node]) /\ g[fr[m].node][fr[m].next] = x
        BY <4>1, <1>0 DEF Ordered, Called
      <4>5. rk[x] # 0
        BY <1>3
      <4>6. Pending(g, rk, fr2, sets, st[k])
        BY <3>2, <2>1, <4>3, <4>4, <4>5, <1>2 DEF Pending
      <4> QED BY <3>2, <4>6
    <3> QED BY <3>1, <3>2
  <2> QED BY <2>2, <2>3, <2>4
<1>8. ReadsKept(g, rk, st, fr2, sets)
  <2> SUFFICES ASSUME NEW k \in 1..n, NEW y \in Read(g, fr2, st[k])
               PROVE  ReadChild(g, rk, st, fr2, sets, k, y)
    BY DEF ReadsKept
  <2>1. y \in Read(g, fr, st[k])
    BY <1>0, EndFacts
  <2>2. ReadChild(g, rk, st, fr, sets, k, y)
    BY <2>1 DEF Good, ReadsKept
  <2> QED BY <2>2, <1>1, <1>2 DEF ReadChild
<1>9. Stacked(g, rk, st) /\ Popped(g, rk, sets) /\ Sets(g, sets)
  BY DEF Good, Ordered
<1> QED BY <1>5, <1>6, <1>7, <1>8, <1>9 DEF Good, Ordered

-----------------------------------------------------------------------------
(* A root takes its component off the stack.                               *)

\* What is on the stack from place d on.
Above(st, d) == {st[k] : k \in d..Len(st)}

\* The call of a root has read all children; nothing above it has a lower rank.
AtRoot(g, rk, fr) == Exhausted(g, fr) /\ rk[fr[Len(fr)].node] = fr[Len(fr)].d

\* From every place above the root, following ranks leads down to the root.
LEMMA ReachesRoot ==
  ASSUME NEW g, NEW rk, NEW st, NEW fr, NEW sets, Good(g, rk, st, fr, sets), AtRoot(g, rk, fr)
  PROVE  \A k \in fr[Len(fr)].d..Len(st) :
           /\ k \in 1..Len(st) /\ rk[st[k]] >= fr[Len(fr)].d
           /\ sets[st[k]] \subseteq sets[fr[Len(fr)].node]
           /\ fr[Len(fr)].node \in Reach(g, st[k])
<1> DEFINE N == Len(g)  n == Len(st)  L == Len(fr)  D == fr[Len(fr)].d  x == fr[Len(fr)].node
           T == {k \in D..n : x \notin Reach(g, st[k])}
<1>0. Ordered(g, rk, st, fr) /\ Relation(g)
  BY DEF Good, Ordered, Shape
<1>1. fr # << >> /\ L \in 1..L /\ n \in Nat /\ L \in Nat
  <2>1. fr # << >>
    BY DEF AtRoot, Exhausted
  <2> QED BY <2>1, <1>0, LastFrame, StackFacts, FrameFacts
<1>2. D \in 1..n /\ st[D] = x /\ x \in 1..N /\ rk[x] = D
  BY <1>0, <1>1, FrameFacts DEF AtRoot
<1>3. ~ (fr[L].next <= Len(g[x]))
  <2>1. Len(g[x]) \in Nat /\ fr[L].next \in 1..(Len(g[x]) + 1)
    BY <1>0, <1>1, <1>2, FrameFacts, ListFacts
  <2> QED BY <2>1 DEF AtRoot, Exhausted
<1>4. ASSUME NEW k \in D..n
      PROVE  k \in 1..n /\ Covers(rk, sets, x, st[k])
  <2>1. \/ L < Len(fr) /\ k >= fr[L + 1].d
        \/ Covers(rk, sets, fr[L].node, st[k])
        \/ L = Len(fr) /\ Pending(g, rk, fr, sets, st[k])
    BY <1>1 DEF Good, Gathered
  <2>2. ~ Pending(g, rk, fr, sets, st[k])
    BY <1>3 DEF Pending
  <2>3. k \in 1..n
    BY <1>1, <1>2
  <2> QED BY <2>1, <2>2, <2>3, <1>1
<1>5. ASSUME NEW k \in D..n, k # D
      PROVE  rk[st[k]] \in D..n /\ rk[st[k]] < k
  <2>1. k \in 1..n /\ k > D /\ rk[x] <= rk[st[k]]
    BY <1>1, <1>2, <1>4, <1>5 DEF Covers
  <2>2. ASSUME NEW m \in 1..L PROVE fr[m].d # k
    <3>1. fr[m].d <= D /\ fr[m].d \in Int
      BY <1>0, <1>1, LastFrame, FrameFacts
    <3> QED BY <3>1, <2>1, <1>2
  <2>3. rk[st[k]] < k
    BY <2>1, <2>2 DEF Good, Linked
  <2>4. rk[st[k]] \in 1..N
    BY <2>1, <1>0, StackFacts
  <2> QED BY <2>1, <2>3, <2>4, <1>1, <1>2
<1>6. T = {}
  <2> SUFFICES ASSUME T # {} PROVE FALSE
    OBVIOUS
  <2>1. T \in SUBSET Nat
    BY <1>1, <1>2
  <2>2. PICK k \in T : \A l \in T : k <= l
    <3> HIDE DEF T
    <3> QED BY <2>1, NatLeast
  <2>3. k \in D..n /\ k \in 1..n /\ x \notin Reach(g, st[k])
    BY <1>1, <1>2
  <2>4. k # D
    BY <2>3, <1>0, <1>2, ReachFacts
  <2>5. rk[st[k]] \in D..n /\ rk[st[k]] < k
    BY <2>3, <2>4, <1>5
  <2>6. x \in Reach(g, st[rk[st[k]]])
    <3>1. rk[st[k]] \notin T
      BY <2>2, <2>5, <1>1, <1>2
    <3> QED BY <3>1, <2>5
  <2>7. st[rk[st[k]]] \in Reach(g, st[k])
    BY <2>3 DEF Good, Linked
  <2>8. st[k] \in 1..N
    BY <2>3, <1>0, StackFacts
  <2> QED BY <2>3, <2>6, <2>7, <2>8, <1>0, ReachFacts
<1> QED BY <1>2, <1>4, <1>6 DEF Covers

\* What is above the root is its component, and its children are there or off the stack.
LEMMA RootComponent ==
  ASSUME NEW g, NEW rk, NEW st, NEW fr, NEW sets, Good(g, rk, st, fr, sets), AtRoot(g, rk, fr)
  PROVE  /\ Above(st, fr[Len(fr)].d) = Component(g, fr[Len(fr)].node)
         /\ \A k \in fr[Len(fr)].d..Len(st) : \A y \in Children(g, st[k]) :
              \/ y \in Above(st, fr[Len(fr)].d)
              \/ rk[y] = Top(g) /\ (Simple(g, y) => Solution(g, y) \subseteq sets[st[k]])
<1> DEFINE N == Len(g)  n == Len(st)  L == Len(fr)  D == fr[Len(fr)].d  x == fr[Len(fr)].node
           P == Above(st, D)
           Tops == {y \in 1..N : rk[y] = Top(g)}
<1>0. Ordered(g, rk, st, fr) /\ Relation(g)
  BY DEF Good, Ordered, Shape
<1>1. fr # << >> /\ L \in 1..L /\ n \in Nat /\ L \in Nat /\ N \in Nat
  <2>1. fr # << >>
    BY DEF AtRoot, Exhausted
  <2> QED BY <2>1, <1>0, LastFrame, StackFacts, FrameFacts
<1>2. D \in 1..n /\ st[D] = x /\ x \in 1..N /\ rk[x] = D
  BY <1>0, <1>1, FrameFacts DEF AtRoot
<1>3. \A k \in D..n : k \in 1..n /\ rk[st[k]] >= D /\ x \in Reach(g, st[k])
  BY ReachesRoot
<1>4. \A k \in 1..n : st[k] \in 1..N /\ rk[st[k]] \in 1..N
  BY <1>0, StackFacts
<1>5. ASSUME NEW k \in D..n, NEW y \in Children(g, st[k])
      PROVE  \/ y \in P
             \/ rk[y] = Top(g) /\ (Simple(g, y) => Solution(g, y) \subseteq sets[st[k]])
  <2>1. PICK e \in 1..Len(g[st[k]]) : y = g[st[k]][e]
    BY DEF Children
  <2>2. ASSUME NEW m \in 1..L, fr[m].node = st[k] PROVE e < fr[m].next
    <3>1. fr[m].d \in 1..n /\ st[fr[m].d] = st[k]
      BY <2>2, <1>0, FrameFacts
    <3>2. fr[m].d = k
      BY <3>1, <1>0, <1>3, StackFacts
    <3>3. m = L
      <4>1. m # L => fr[m].d < D
        BY <1>0, <1>1, LastFrame
      <4> QED BY <4>1, <3>2, <1>2
    <3>4. fr[L].next > Len(g[st[k]]) /\ Len(g[st[k]]) \in Nat /\ fr[L].next \in Int
      <4>1. fr[L].next > Len(g[fr[L].node]) /\ fr[L].node = st[k]
        BY <2>2, <3>3 DEF AtRoot, Exhausted
      <4> QED BY <4>1, <1>0, <1>1, <1>3, <1>4, ListFacts, FrameFacts
    <3> QED BY <3>3, <3>4
  <2>3. y \in Read(g, fr, st[k])
    BY <2>1, <2>2 DEF Read
  <2>4. ReadChild(g, rk, st, fr, sets, k, y)
    BY <2>3, <1>3 DEF Good, ReadsKept
  <2>5. CASE \E j \in 1..n :
               st[j] = y /\ rk[st[k]] <= j /\ \A m \in 1..L : fr[m].d > k => j < fr[m].d
    <3>1. PICK j \in 1..n : st[j] = y /\ rk[st[k]] <= j
      BY <2>5
    <3>2. j \in D..n
      BY <3>1, <1>1, <1>2, <1>3, <1>4
    <3> QED BY <3>1, <3>2 DEF Above
  <2> QED BY <2>4, <2>5 DEF ReadChild
<1>6. P \subseteq 1..N /\ x \in P /\ \A y \in P : rk[y] \in 1..N
  <2>1. x \in P
    BY <1>1, <1>2 DEF Above
  <2> QED BY <2>1, <1>3, <1>4 DEF Above
<1>7. \A y \in Tops : Children(g, y) \subseteq Tops
  BY <1>0, ListFacts DEF Good, Popped
<1>8. Reach(g, x) \subseteq P \cup Tops
  <2>1. ASSUME NEW y \in P PROVE Children(g, y) \subseteq P \cup Tops
    <3>1. PICK k \in D..n : y = st[k]
      BY DEF Above
    <3>2. Children(g, y) \subseteq 1..N
      BY <1>0, <1>6, ListFacts
    <3> HIDE DEF P
    <3> QED BY <3>1, <3>2, <1>5
  <2>2. ClosedUnder(g, P \cup Tops)
    <3> HIDE DEF P, Tops
    <3> QED BY <2>1, <1>7 DEF ClosedUnder
  <2>3. P \cup Tops \in SUBSET (1..N) /\ x \in P \cup Tops
    BY <1>6
  <2> HIDE DEF P, Tops
  <2> QED BY <2>2, <2>3, ReachLeast
<1>9. ASSUME NEW y \in Tops PROVE Reach(g, y) \subseteq Tops
  <2>1. ClosedUnder(g, Tops) /\ Tops \in SUBSET (1..N)
    BY <1>7 DEF ClosedUnder
  <2> HIDE DEF Tops
  <2> QED BY <2>1, ReachLeast
<1>10. x \notin Tops
  BY <1>1, <1>6 DEF Top
<1>11. ASSUME NEW y \in P PROVE y \in Component(g, x)
  <2>1. PICK k \in D..n : y = st[k]
    BY DEF Above
  <2>2. y \in Reach(g, x)
    BY <2>1, <1>1 DEF Good, Linked
  <2> QED BY <2>1, <2>2, <1>3 DEF Component
<1>12. ASSUME NEW y \in Component(g, x) PROVE y \in P
  <2>1. y \in P \cup Tops /\ x \in Reach(g, y)
    BY <1>8 DEF Component
  <2> HIDE DEF P, Tops
  <2> QED BY <2>1, <1>9, <1>10
<1> HIDE DEF P
<1>13. P = Component(g, x)
  BY <1>11, <1>12
<1> QED BY <1>5, <1>13 DEF P

\* If what the root reaches below its component has no cycles, it has its solution.
LEMMA RootSolved ==
  ASSUME NEW g, NEW rk, NEW st, NEW fr, NEW sets, Good(g, rk, st, fr, sets), AtRoot(g, rk, fr),
         SimpleBelow(g, fr[Len(fr)].node)
  PROVE  sets[fr[Len(fr)].node] = Solution(g, fr[Len(fr)].node)
<1> DEFINE N == Len(g)  n == Len(st)  L == Len(fr)  D == fr[Len(fr)].d  x == fr[Len(fr)].node
           P == Above(st, D)
           Tops == {y \in 1..N : rk[y] = Top(g)}
           Given == {w \in 1..N : \E y \in P : \E z \in Children(g, y) : z \in Tops /\ w \in Reach(g, z)}
<1>0. Ordered(g, rk, st, fr) /\ Relation(g) /\ N \in Nat
  BY StackFacts DEF Good, Ordered, Shape
<1>1. fr # << >> /\ L \in 1..L
  <2>1. fr # << >>
    BY DEF AtRoot, Exhausted
  <2> QED BY <2>1, <1>0, LastFrame
<1>2. x \in 1..N /\ D \in 1..Len(st) /\ st[D] = x
  BY <1>0, <1>1, FrameFacts
<1>3. P = Component(g, x)
  BY RootComponent
<1>4. x \in P /\ P \subseteq Reach(g, x) /\ P \subseteq 1..N /\ x \notin Tops
  <2>1. x \in Reach(g, x) /\ Reach(g, x) \subseteq 1..N
    BY <1>0, <1>2, ReachFacts
  <2>2. rk[st[D]] \in 1..N
    BY <1>0, <1>2, StackFacts
  <2> QED BY <2>1, <2>2, <1>0, <1>2, <1>3 DEF Component, Top
<1>5. ASSUME NEW y \in P, NEW z \in Children(g, y)
      PROVE  \/ z \in P
             \/ z \in Tops /\ (Simple(g, z) => Solution(g, z) \subseteq sets[x])
  <2>1. PICK k \in D..n : y = st[k]
    BY DEF Above
  <2>2. sets[y] \subseteq sets[x]
    BY <2>1, ReachesRoot
  <2>3. \/ z \in P
        \/ rk[z] = Top(g) /\ (Simple(g, z) => Solution(g, z) \subseteq sets[y])
    BY <2>1, RootComponent
  <2>4. z \in 1..N
    BY <1>0, <1>4, ListFacts
  <2> QED BY <2>2, <2>3, <2>4
<1>6. ASSUME NEW y \in P PROVE Base(y) \subseteq sets[x]
  <2>1. PICK k \in D..n : y = st[k]
    BY DEF Above
  <2>2. sets[y] \subseteq sets[x]
    BY <2>1, ReachesRoot
  <2>3. Base(y) \subseteq sets[y]
    BY <1>4 DEF Good, Sets
  <2> QED BY <2>2, <2>3
<1>7. ASSUME NEW y \in P, NEW z \in Children(g, y), z \in Tops PROVE Solution(g, z) \subseteq sets[x]
  <2>1. z \in Reach(g, x) /\ Reach(g, z) \subseteq Reach(g, x)
    BY <1>0, <1>2, <1>4, ReachFacts
  <2>2. ASSUME NEW u \in Tops PROVE Reach(g, u) \subseteq Tops
    <3>1. \A v \in Tops : Children(g, v) \subseteq Tops
      BY <1>0, ListFacts DEF Good, Popped
    <3>2. ClosedUnder(g, Tops) /\ Tops \in SUBSET (1..N)
      BY <3>1 DEF ClosedUnder
    <3> HIDE DEF Tops
    <3> QED BY <3>2, ReachLeast
  <2>3. ASSUME NEW u \in Reach(g, z) PROVE Component(g, u) = {u}
    <3>1. u \in Tops /\ u \in Reach(g, x)
      BY <2>1, <2>2, <1>7
    <3>2. x \notin Reach(g, u)
      BY <3>1, <2>2, <1>4
    <3> QED BY <3>1, <3>2 DEF SimpleBelow
  <2>4. Simple(g, z)
    BY <2>3 DEF Simple
  <2>5. z \notin P
    <3>1. x \in Reach(g, z) => x \in Tops
      BY <2>2, <1>7
    <3> QED BY <3>1, <1>3, <1>4 DEF Component
  <2> QED BY <2>4, <2>5, <1>5
<1>8. Reach(g, x) \subseteq P \cup Given
  <2>1. ASSUME NEW y \in P PROVE Children(g, y) \subseteq P \cup Given
    <3> SUFFICES ASSUME NEW z \in Children(g, y), z \notin P PROVE z \in Given
      OBVIOUS
    <3>1. z \in Tops /\ z \in 1..N
      BY <1>5
    <3>2. z \in Reach(g, z)
      BY <3>1, <1>0, ReachFacts
    <3> QED BY <3>1, <3>2
  <2>2. ASSUME NEW w \in Given PROVE Children(g, w) \subseteq Given
    <3>0. PICK y \in P : \E z \in Children(g, y) : z \in Tops /\ w \in Reach(g, z)
      OBVIOUS
    <3>1. PICK z \in Children(g, y) : z \in Tops /\ w \in Reach(g, z)
      BY <3>0
    <3>2. z \in 1..N
      BY <3>1
    <3>3. Children(g, w) \subseteq Reach(g, z) /\ Reach(g, z) \subseteq 1..N
      BY <3>1, <3>2, <1>0, ReachFacts
    <3> QED BY <3>1, <3>3
  <2>3. P \cup Given \in SUBSET (1..N) /\ x \in P \cup Given
    BY <1>4
  <2>4. ClosedUnder(g, P \cup Given)
    <3> HIDE DEF P, Given
    <3> QED BY <2>1, <2>2 DEF ClosedUnder
  <2> HIDE DEF P, Given
  <2> QED BY <2>3, <2>4, ReachLeast
<1>9. ASSUME NEW w \in Reach(g, x) PROVE Base(w) \subseteq sets[x]
  <2>1. CASE w \in P
    BY <2>1, <1>6
  <2>2. CASE w \in Given
    <3>0. PICK y \in P : \E z \in Children(g, y) : z \in Tops /\ w \in Reach(g, z)
      BY <2>2
    <3>1. PICK z \in Children(g, y) : z \in Tops /\ w \in Reach(g, z)
      BY <3>0
    <3>2. Solution(g, z) \subseteq sets[x]
      BY <3>1, <1>7
    <3>3. Base(w) \subseteq Solution(g, z)
      BY <3>1 DEF Solution
    <3> QED BY <3>2, <3>3
  <2> HIDE DEF P, Given
  <2> QED BY <2>1, <2>2, <1>8
<1>10. Solution(g, x) \subseteq sets[x]
  BY <1>9 DEF Solution
<1>11. sets[x] \subseteq Solution(g, x)
  BY <1>2 DEF Good, Sets
<1> QED BY <1>10, <1>11

\* The stack ends below place d, and what was above has rank Top.
CutAt(g, rk, st, d, rk2, st2) ==
  /\ Len(st2) = d - 1
  /\ \A k \in 1..(d - 1) : st2[k] = st[k]
  /\ \A y \in 1..Len(g) : rk2[y] = IF y \in Above(st, d) THEN Top(g) ELSE rk[y]

\* What stays on the stack is below the root and keeps its rank.
LEMMA CutFacts ==
  ASSUME NEW g, NEW rk, NEW st, NEW fr, Ordered(g, rk, st, fr),
         NEW D \in 1..Len(st), NEW rk2, NEW st2, CutAt(g, rk, st, D, rk2, st2)
  PROVE  /\ \A k \in 1..(D - 1) :
              /\ k \in 1..Len(st) /\ st2[k] = st[k] /\ st[k] \in 1..Len(g)
              /\ st[k] \notin Above(st, D)
              /\ rk2[st[k]] = rk[st[k]] /\ rk[st[k]] \in 1..k
         /\ \A y \in Above(st, D) : y \in 1..Len(g) /\ rk2[y] = Top(g) /\ rk[y] # Top(g)
<1> DEFINE N == Len(g)  n == Len(st)
<1>2. n \in Nat /\ N \in Nat
  BY StackFacts
<1>3. \A k \in 1..n : st[k] \in 1..N /\ rk[st[k]] \in 1..N /\ rk[st[k]] <= k
  BY StackFacts
<1>4. \A k, l \in 1..n : st[k] = st[l] => k = l
  BY StackFacts
<1>5. /\ \A k \in 1..(D - 1) : st2[k] = st[k]
      /\ \A y \in 1..N : rk2[y] = IF y \in Above(st, D) THEN Top(g) ELSE rk[y]
  BY DEF CutAt
<1>6. ASSUME NEW k \in 1..(D - 1)
      PROVE  k \in 1..n /\ st[k] \in 1..N /\ st[k] \notin Above(st, D) /\ rk[st[k]] \in 1..k
  <2>1. k \in 1..n /\ k \notin D..n
    BY <1>2
  <2>2. \A l \in D..n : l \in 1..n
    BY <1>2
  <2>3. st[k] \notin Above(st, D)
    BY <2>1, <2>2, <1>4 DEF Above
  <2> QED BY <2>1, <2>3, <1>3
<1>7. ASSUME NEW y \in Above(st, D) PROVE y \in 1..N /\ rk[y] # Top(g)
  <2>1. PICK k \in D..n : y = st[k]
    BY DEF Above
  <2>2. k \in 1..n
    BY <1>2
  <2> QED BY <2>1, <2>2, <1>2, <1>3 DEF Top
<1> QED BY <1>5, <1>6, <1>7

LEMMA PopKeepsOrder ==
  ASSUME NEW g, NEW rk, NEW st, NEW fr, NEW sets, Good(g, rk, st, fr, sets), AtRoot(g, rk, fr),
         NEW rk2, NEW st2, NEW fr2, Shape(g, rk2, st2, fr2),
         CutAt(g, rk, st, fr[Len(fr)].d, rk2, st2), Returned(fr, fr2)
  PROVE  Ordered(g, rk2, st2, fr2) /\ Linked(g, rk2, st2, fr2)
<1> DEFINE N == Len(g)  n == Len(st)  L == Len(fr)  D == fr[Len(fr)].d
<1>0. Ordered(g, rk, st, fr) /\ Exhausted(g, fr)
  BY DEF Good, AtRoot
<1>1. /\ N \in Nat /\ n \in Nat /\ L \in Nat /\ L \in 1..L /\ D \in 1..n
      /\ \A m \in 1..(L - 1) : m \in 1..L /\ fr[m].d < D
  <2>1. N \in Nat /\ n \in Nat /\ L \in Nat
    BY <1>0, StackFacts, FrameFacts
  <2>2. L \in 1..L /\ D \in 1..n /\ \A m \in 1..(L - 1) : m \in 1..L /\ fr[m].d < D
    BY <1>0, EndFacts
  <2> QED BY <2>1, <2>2
<1>2. Len(fr2) = L - 1 /\ \A m \in 1..(L - 1) : fr2[m] = fr[m]
  BY DEF Returned
<1>3. \A k \in 1..(D - 1) :
        /\ k \in 1..n /\ st2[k] = st[k] /\ st[k] \in 1..N
        /\ rk2[st[k]] = rk[st[k]] /\ rk[st[k]] \in 1..k
  BY <1>0, <1>1, CutFacts
<1>4. Len(st2) = D - 1
  BY DEF CutAt
<1>5. ASSUME NEW m \in 1..(L - 1)
      PROVE  /\ fr2[m] = fr[m] /\ fr[m].d \in 1..(D - 1) /\ st[fr[m].d] = fr[m].node
             /\ fr[m].next \in 1..(Len(g[fr[m].node]) + 1)
  <2>1. m \in 1..L /\ fr[m].d < D /\ D \in 1..n /\ n \in Nat
    BY <1>1
  <2>2. /\ fr[m].d \in 1..n /\ st[fr[m].d] = fr[m].node
        /\ fr[m].next \in 1..(Len(g[fr[m].node]) + 1)
    BY <2>1, <1>0, FrameFacts
  <2>3. fr[m].d \in 1..(D - 1)
    BY <2>1, <2>2
  <2> QED BY <2>2, <2>3, <1>2
<1>6. Stacked(g, rk2, st2)
  <2>1. NoRepeats(st2)
    <3>1. \A k, l \in 1..n : st[k] = st[l] => k = l
      BY <1>0, StackFacts
    <3> QED BY <3>1, <1>3, <1>4 DEF NoRepeats
  <2>2. ASSUME NEW y \in 1..N, rk2[y] \in 1..N PROVE Occurs(y, st2)
    <3>1. y \notin Above(st, D) /\ rk[y] \in 1..N
      BY <2>2, <1>1 DEF CutAt, Top
    <3>2. PICK k \in 1..n : st[k] = y
      BY <3>1, <1>0, StackFacts
    <3>3. k \notin D..n
      BY <3>1, <3>2 DEF Above
    <3>4. k \in 1..(D - 1)
      BY <3>3, <1>1
    <3> QED BY <3>2, <3>4, <1>3, <1>4 DEF Occurs
  <2>3. ASSUME NEW k \in 1..(D - 1) PROVE rk2[st2[k]] \in 1..N /\ rk2[st2[k]] <= k
    <3>1. rk[st[k]] \in 1..N
      BY <1>0, <1>3, StackFacts
    <3> QED BY <3>1, <1>3
  <2> QED BY <2>1, <2>2, <2>3, <1>4 DEF Stacked, Occurs
<1>7. Called(g, st2, fr2)
  <2>1. fr # << >>
    BY <1>0 DEF Exhausted
  <2>2. ASSUME fr2 = << >> PROVE st2 = << >>
    <3>1. L = 1
      BY <2>2, <1>1, <1>2, EmptySeq
    <3>2. D = 1
      BY <3>1, <2>1, <1>0 DEF Ordered, Called
    <3>3. Len(st2) = 0 /\ st2 \in Seq(1..N)
      BY <3>2, <1>4 DEF Shape
    <3> QED BY <3>3, EmptySeq
  <2>3. ASSUME fr2 # << >> PROVE fr2[1].d = 1
    <3>1. Len(fr2) # 0 /\ Len(fr2) \in Nat
      <4>1. fr2 \in Seq(FrameRecords(g))
        BY DEF Shape
      <4> QED BY <4>1, <2>3, EmptySeq, LenProperties
    <3>2. 1 \in 1..(L - 1)
      BY <3>1, <1>1, <1>2
    <3> QED BY <3>2, <2>1, <1>0, <1>2 DEF Ordered, Called
  <2>4. \A m, l \in 1..(L - 1) : m < l => fr2[m].d < fr2[l].d
    <3>1. \A m, l \in 1..L : m < l => fr[m].d < fr[l].d
      BY <1>0, FrameFacts
    <3> QED BY <3>1, <1>1, <1>2
  <2>5. ASSUME NEW m \in 1..(L - 2)
        PROVE  /\ fr2[m].next <= Len(g[fr2[m].node])
               /\ g[fr2[m].node][fr2[m].next] = fr2[m + 1].node
    <3>1. m \in 1..(L - 1) /\ m + 1 \in 1..(L - 1)
      BY <1>1
    <3> QED BY <3>1, <1>0, <1>2 DEF Ordered, Called
  <2>6. (L - 1) - 1 = L - 2
    BY <1>1
  <2>7. ASSUME NEW m \in 1..(L - 1)
        PROVE  /\ fr2[m].d \in 1..Len(st2) /\ st2[fr2[m].d] = fr2[m].node
               /\ fr2[m].next \in 1..(Len(g[fr2[m].node]) + 1)
    <3>1. /\ fr2[m] = fr[m] /\ fr[m].d \in 1..(D - 1) /\ st[fr[m].d] = fr[m].node
          /\ fr[m].next \in 1..(Len(g[fr[m].node]) + 1)
      BY <1>5
    <3>2. st2[fr[m].d] = st[fr[m].d]
      BY <3>1, <1>3
    <3> QED BY <3>1, <3>2, <1>4
  <2>8. \A m, l \in 1..Len(fr2) : m < l => fr2[m].d < fr2[l].d
    BY <2>4, <1>2
  <2>9. \A m \in 1..(Len(fr2) - 1) :
          fr2[m].next <= Len(g[fr2[m].node]) /\ g[fr2[m].node][fr2[m].next] = fr2[m + 1].node
    BY <2>5, <2>6, <1>2
  <2>10. \A m \in 1..Len(fr2) :
           /\ fr2[m].d \in 1..Len(st2) /\ st2[fr2[m].d] = fr2[m].node
           /\ fr2[m].next \in 1..(Len(g[fr2[m].node]) + 1)
    BY <2>7, <1>2
  <2> QED BY <2>2, <2>3, <2>8, <2>9, <2>10, Zenon DEF Called
<1>8. Linked(g, rk2, st2, fr2)
  <2>1. ASSUME NEW m \in 1..(L - 1), NEW k \in fr2[m].d..(D - 1)
        PROVE  st2[k] \in Reach(g, fr2[m].node)
    <3>1. m \in 1..L /\ k \in fr[m].d..n /\ k \in 1..(D - 1)
      BY <1>1, <1>5
    <3>2. st[k] \in Reach(g, fr[m].node)
      BY <3>1 DEF Good, Linked
    <3> QED BY <3>1, <3>2, <1>2, <1>3
  <2>2. ASSUME NEW k \in 1..(D - 1) PROVE st2[rk2[st2[k]]] \in Reach(g, st2[k])
    <3>1. rk2[st2[k]] = rk[st[k]] /\ rk[st[k]] \in 1..(D - 1) /\ k \in 1..n
      BY <1>1, <1>3
    <3>2. st[rk[st[k]]] \in Reach(g, st[k])
      BY <3>1 DEF Good, Linked
    <3> QED BY <3>1, <3>2, <1>3
  <2>3. ASSUME NEW k \in 1..(D - 1) PROVE (\E m \in 1..(L - 1) : fr2[m].d = k) \/ rk2[st2[k]] < k
    <3>1. (\E m \in 1..L : fr[m].d = k) \/ rk[st[k]] < k
      BY <1>3 DEF Good, Linked
    <3>2. ASSUME NEW m \in 1..L, fr[m].d = k PROVE \E l \in 1..(L - 1) : fr2[l].d = k
      <4>1. m # L
        BY <3>2, <1>1
      <4>2. m \in 1..(L - 1)
        BY <4>1, <1>1
      <4> QED BY <4>2, <3>2, <1>5
    <3> QED BY <3>1, <3>2, <1>3
  <2> QED BY <2>1, <2>2, <2>3, <1>2, <1>4 DEF Linked
<1> QED BY <1>6, <1>7, <1>8 DEF Ordered

LEMMA PopKeeps ==
  ASSUME NEW g, NEW rk, NEW st, NEW fr, NEW sets, Good(g, rk, st, fr, sets), AtRoot(g, rk, fr),
         NEW rk2, NEW st2, NEW fr2, Shape(g, rk2, st2, fr2),
         CutAt(g, rk, st, fr[Len(fr)].d, rk2, st2), Returned(fr, fr2)
  PROVE  Good(g, rk2, st2, fr2, sets)
<1> DEFINE N == Len(g)  n == Len(st)  L == Len(fr)  D == fr[Len(fr)].d  x == fr[Len(fr)].node
           P == Above(st, D)
<1>0. Ordered(g, rk, st, fr) /\ Exhausted(g, fr) /\ Relation(g)
  BY DEF Good, AtRoot, Ordered, Shape
<1>1. /\ N \in Nat /\ n \in Nat /\ L \in Nat /\ L \in 1..L /\ D \in 1..n /\ x \in 1..N /\ st[D] = x
      /\ \A m \in 1..(L - 1) : m \in 1..L /\ fr[m].d < D
  <2>1. N \in Nat /\ n \in Nat /\ L \in Nat
    BY <1>0, StackFacts, FrameFacts
  <2>2. /\ L \in 1..L /\ D \in 1..n /\ x \in 1..N /\ st[D] = x
        /\ \A m \in 1..(L - 1) : m \in 1..L /\ fr[m].d < D
    BY <1>0, EndFacts
  <2> QED BY <2>1, <2>2
<1>2. Len(fr2) = L - 1 /\ \A m \in 1..(L - 1) : fr2[m] = fr[m]
  BY DEF Returned
<1>3. /\ \A k \in 1..(D - 1) :
           /\ k \in 1..n /\ st2[k] = st[k] /\ st[k] \in 1..N /\ st[k] \notin P
           /\ rk2[st[k]] = rk[st[k]] /\ rk[st[k]] \in 1..k
      /\ \A y \in P : y \in 1..N /\ rk2[y] = Top(g) /\ rk[y] # Top(g)
  BY <1>0, <1>1, CutFacts
<1>4. Len(st2) = D - 1 /\ \A y \in 1..N : rk2[y] = IF y \in P THEN Top(g) ELSE rk[y]
  BY DEF CutAt
<1>5. \A m \in 1..(L - 1) : fr[m].d \in 1..(D - 1) /\ st[fr[m].d] = fr[m].node
  <2>1. \A m \in 1..L : fr[m].d \in 1..n /\ st[fr[m].d] = fr[m].node
    BY <1>0, FrameFacts
  <2> QED BY <2>1, <1>1
<1>6. Gathered(g, rk2, st2, fr2, sets)
  <2> SUFFICES ASSUME NEW m \in 1..(L - 1), NEW k \in fr2[m].d..(D - 1)
               PROVE  \/ m < L - 1 /\ k >= fr2[m + 1].d
                      \/ Covers(rk2, sets, fr2[m].node, st2[k])
    BY <1>2, <1>4 DEF Gathered
  <2>1. m \in 1..L /\ m # L /\ k \in fr[m].d..n /\ k \in 1..(D - 1)
    BY <1>1, <1>2, <1>5
  <2>2. \/ m < L /\ k >= fr[m + 1].d
        \/ Covers(rk, sets, fr[m].node, st[k])
    BY <2>1 DEF Good, Gathered
  <2>3. CASE Covers(rk, sets, fr[m].node, st[k])
    <3>1. fr[m].d \in 1..(D - 1) /\ st[fr[m].d] = fr[m].node
      BY <1>5
    <3>2. rk2[fr[m].node] = rk[fr[m].node]
      BY <3>1, <1>3
    <3>3. st2[k] = st[k] /\ rk2[st[k]] = rk[st[k]]
      BY <2>1, <1>3
    <3> QED BY <2>3, <3>2, <3>3, <1>2 DEF Covers
  <2>4. CASE m < L /\ k >= fr[m + 1].d
    <3>1. m # L - 1
      <4>1. ASSUME m = L - 1 PROVE FALSE
        <5>1. m + 1 = L
          BY <4>1, <1>1
        <5> QED BY <5>1, <2>1, <2>4, <1>1
      <4> QED BY <4>1
    <3>2. m < L - 1 /\ m + 1 \in 1..(L - 1)
      BY <3>1, <1>1
    <3> QED BY <2>4, <3>2, <1>2
  <2> QED BY <2>2, <2>3, <2>4
<1>7. ReadsKept(g, rk2, st2, fr2, sets)
  <2> SUFFICES ASSUME NEW k \in 1..(D - 1), NEW y \in Read(g, fr2, st2[k])
               PROVE  ReadChild(g, rk2, st2, fr2, sets, k, y)
    BY <1>4 DEF ReadsKept
  <2>1. k \in 1..n /\ st2[k] = st[k] /\ st[k] \in 1..N /\ rk2[st[k]] = rk[st[k]]
    BY <1>3
  <2>2. y \in Read(g, fr, st[k])
    BY <2>1, <1>0, EndFacts
  <2>3. ReadChild(g, rk, st, fr, sets, k, y)
    BY <2>1, <2>2 DEF Good, ReadsKept
  <2>4. CASE \E j \in 1..n :
               st[j] = y /\ rk[st[k]] <= j /\ \A m \in 1..L : fr[m].d > k => j < fr[m].d
    <3>1. PICK j \in 1..n :
               st[j] = y /\ rk[st[k]] <= j /\ \A m \in 1..L : fr[m].d > k => j < fr[m].d
      BY <2>4
    <3>2. j < D
      BY <3>1, <1>1
    <3>3. j \in 1..(D - 1)
      BY <3>2, <1>1
    <3>4. st2[j] = y /\ rk2[st2[k]] <= j
      BY <3>1, <3>3, <2>1, <1>3
    <3>5. \A m \in 1..(L - 1) : fr2[m].d > k => j < fr2[m].d
      BY <3>1, <1>1, <1>2
    <3> QED BY <3>3, <3>4, <3>5, <1>2, <1>4 DEF ReadChild
  <2>5. CASE rk[y] = Top(g) /\ (Simple(g, y) => Solution(g, y) \subseteq sets[st[k]])
    <3>1. y \in 1..N
      BY <2>1, <2>2, <1>0, ListFacts DEF Read
    <3>2. rk2[y] = Top(g)
      BY <3>1, <2>5, <1>4
    <3> QED BY <3>2, <2>1, <2>5 DEF ReadChild
  <2> QED BY <2>3, <2>4, <2>5 DEF ReadChild
<1>8. Popped(g, rk2, sets)
  <2> SUFFICES ASSUME NEW z \in 1..N, rk2[z] = Top(g)
               PROVE  /\ \A y \in Children(g, z) : rk2[y] = Top(g)
                      /\ Simple(g, z) => sets[z] = Solution(g, z)
    BY DEF Popped
  <2>1. Children(g, z) \subseteq 1..N
    BY <1>0, ListFacts
  <2>2. CASE z \notin P
    <3>1. rk[z] = Top(g)
      BY <2>2, <1>4
    <3>2. /\ \A y \in Children(g, z) : rk[y] = Top(g)
          /\ Simple(g, z) => sets[z] = Solution(g, z)
      BY <3>1 DEF Good, Popped
    <3> QED BY <3>2, <2>1, <1>4
  <2>3. CASE z \in P
    <3>1. PICK k \in D..n : z = st[k]
      BY <2>3 DEF Above
    <3>2. ASSUME NEW y \in Children(g, z) PROVE rk2[y] = Top(g)
      <4>1. y \in P \/ rk[y] = Top(g)
        BY <3>1, RootComponent
      <4> HIDE DEF P
      <4> QED BY <4>1, <2>1, <1>4
    <3>3. ASSUME Simple(g, z) PROVE sets[z] = Solution(g, z)
      <4>1. P = Component(g, x)
        BY RootComponent
      <4>2. z \in Reach(g, x) /\ x \in Reach(g, z)
        BY <2>3, <4>1 DEF Component
      <4>3. x = z
        <5>1. z \in Reach(g, z)
          BY <1>0, ReachFacts
        <5>2. Component(g, z) = {z}
          BY <3>3, <5>1 DEF Simple
        <5>3. x \in Component(g, z)
          BY <4>2 DEF Component
        <5> QED BY <5>2, <5>3
      <4>4. SimpleBelow(g, x)
        BY <3>3, <4>3 DEF Simple, SimpleBelow
      <4> QED BY <4>3, <4>4, RootSolved
    <3> QED BY <3>2, <3>3
  <2> QED BY <2>2, <2>3
<1>9. Ordered(g, rk2, st2, fr2) /\ Linked(g, rk2, st2, fr2)
  BY PopKeepsOrder
<1> QED BY <1>6, <1>7, <1>8, <1>9 DEF Good

-----------------------------------------------------------------------------
(* What the actions do.                                                    *)

LEMMA PushMakes ==
  ASSUME NEW g, NEW rk, NEW st, NEW fr, Shape(g, rk, st, fr),
         NEW x \in 1..Len(g), Len(st) < Len(g)
  PROVE  /\ Shape(g, [rk EXCEPT ![x] = Len(st) + 1], Append(st, x),
                  Append(fr, [node |-> x, d |-> Len(st) + 1, next |-> 1]))
         /\ Pushed(g, rk, st, x, [rk EXCEPT ![x] = Len(st) + 1], Append(st, x))
         /\ Entered(g, st, fr, x, Append(fr, [node |-> x, d |-> Len(st) + 1, next |-> 1]))
<1> DEFINE f == [node |-> x, d |-> Len(st) + 1, next |-> 1]
           rk2 == [rk EXCEPT ![x] = Len(st) + 1]
<1>1. Relation(g) /\ Len(g) \in Nat /\ Len(st) \in Nat
  BY ListFacts, LenProperties DEF Shape
<1>2. /\ Append(st, x) \in Seq(1..Len(g)) /\ Len(Append(st, x)) = Len(st) + 1
      /\ \A k \in 1..Len(st) : Append(st, x)[k] = st[k]
      /\ Append(st, x)[Len(st) + 1] = x
  BY AppendProperties DEF Shape
<1>3. f \in FrameRecords(g)
  BY <1>1 DEF FrameRecords
<1>4. /\ Append(fr, f) \in Seq(FrameRecords(g)) /\ Len(Append(fr, f)) = Len(fr) + 1
      /\ \A m \in 1..Len(fr) : Append(fr, f)[m] = fr[m]
      /\ Append(fr, f)[Len(fr) + 1] = f
  <2> HIDE DEF f
  <2> QED BY <1>3, AppendProperties DEF Shape
<1>5. /\ rk2 \in [1..Len(g) -> 0..Top(g)] /\ rk2[x] = Len(st) + 1
      /\ \A y \in 1..Len(g) : y # x => rk2[y] = rk[y]
  <2>1. Len(st) + 1 \in 0..Top(g)
    BY <1>1 DEF Top
  <2> QED BY <2>1 DEF Shape
<1>6. Pushed(g, rk, st, x, rk2, Append(st, x))
  <2> HIDE DEF rk2
  <2> QED BY <1>2, <1>5 DEF Pushed
<1>7. Entered(g, st, fr, x, Append(fr, f))
  BY <1>4 DEF Entered
<1>8. Shape(g, rk2, Append(st, x), Append(fr, f))
  <2> HIDE DEF rk2, f
  <2> QED BY <1>1, <1>2, <1>4, <1>5 DEF Shape
<1> QED BY <1>6, <1>7, <1>8

LEMMA AbsorbMakes ==
  ASSUME NEW g, NEW rk, NEW st, NEW fr, Ordered(g, rk, st, fr),
         NEW x, NEW c, Reads(g, rk, fr, x, c),
         NEW rk2, rk2 = [rk EXCEPT ![x] = IF rk[c] < rk[x] THEN rk[c] ELSE rk[x]],
         NEW fr2, fr2 = [fr EXCEPT ![Len(fr)].next = fr[Len(fr)].next + 1]
  PROVE  Shape(g, rk2, st, fr2) /\ Lowered(g, rk, x, c, rk2) /\ Stepped(fr, fr2)
<1> DEFINE L == Len(fr)  f == [fr[L] EXCEPT !.next = fr[L].next + 1]
<1>1. fr # << >>
  BY DEF Reads
<1>2. L \in 1..L /\ fr[L] \in FrameRecords(g) /\ x \in 1..Len(g)
  <2>1. L \in 1..L
    BY <1>1, LastFrame
  <2>2. fr[L] \in FrameRecords(g) /\ fr[L].node \in 1..Len(g)
    BY <2>1, FrameFacts
  <2> QED BY <2>1, <2>2 DEF Reads
<1>3. c \in 1..Len(g)
  <2>1. Len(g[x]) \in Nat /\ fr[L].next \in 1..(Len(g[fr[L].node]) + 1)
    BY <1>2, FrameFacts, ListFacts DEF Ordered, Shape
  <2>2. fr[L].next \in 1..Len(g[x]) /\ c = g[x][fr[L].next]
    BY <2>1 DEF Reads
  <2> QED BY <2>2, <1>2, ListFacts DEF Ordered, Shape
<1>4. /\ f \in FrameRecords(g)
      /\ f.node = fr[L].node /\ f.d = fr[L].d /\ f.next = fr[L].next + 1
  BY <1>2 DEF FrameRecords
<1>5. fr2 = [fr EXCEPT ![L] = f]
  OBVIOUS
<1>6. /\ fr2 \in Seq(FrameRecords(g)) /\ Len(fr2) = L
      /\ \A m \in 1..L : fr2[m] = IF m = L THEN f ELSE fr[m]
  <2> HIDE DEF f
  <2>1. fr \in Seq(FrameRecords(g)) /\ f \in FrameRecords(g) /\ L \in 1..L
    BY <1>2, <1>4 DEF Ordered, Shape
  <2>2. /\ [fr EXCEPT ![L] = f] \in Seq(FrameRecords(g)) /\ Len([fr EXCEPT ![L] = f]) = Len(fr)
        /\ \A m \in 1..Len(fr) : [fr EXCEPT ![L] = f][m] = IF m = L THEN f ELSE fr[m]
    BY <2>1, ExceptSeq
  <2> QED BY <2>2, <1>5
<1>7. Stepped(fr, fr2)
  <2> HIDE DEF f
  <2> QED BY <1>4, <1>6 DEF Stepped
<1>8. rk \in [1..Len(g) -> 0..Top(g)] /\ rk2 \in [1..Len(g) -> 0..Top(g)]
  BY <1>2, <1>3 DEF Ordered, Shape
<1>9. Lowered(g, rk, x, c, rk2)
  BY <1>2, <1>8 DEF Lowered
<1> QED BY <1>6, <1>7, <1>8, <1>9 DEF Ordered, Shape

\* Taking a prefix of a list.
LEMMA PrefixFacts ==
  ASSUME NEW T, NEW s \in Seq(T), NEW n \in 0..Len(s)
  PROVE  /\ SubSeq(s, 1, n) \in Seq(T) /\ Len(SubSeq(s, 1, n)) = n
         /\ \A k \in 1..n : SubSeq(s, 1, n)[k] = s[k]
<1>1. Len(s) \in Nat /\ n \in Int /\ n \in Nat /\ 1 \in Int
  BY LenProperties
<1>2. \A k \in 1..n : s[k] \in T
  BY <1>1, ElementOfSeq
<1>3. /\ SubSeq(s, 1, n) \in Seq(T)
      /\ Len(SubSeq(s, 1, n)) = IF 1 <= n THEN n - 1 + 1 ELSE 0
      /\ \A k \in 1..(n - 1 + 1) : SubSeq(s, 1, n)[k] = s[1 + k - 1]
  BY <1>1, <1>2, SubSeqProperties
<1>4. n - 1 + 1 = n /\ (\A k \in 1..n : 1 + k - 1 = k) /\ (~ (1 <= n) => n = 0)
  BY <1>1
<1> QED BY <1>3, <1>4

LEMMA ReturnMakes ==
  ASSUME NEW g, NEW rk, NEW st, NEW fr, Ordered(g, rk, st, fr), Exhausted(g, fr)
  PROVE  /\ Shape(g, rk, st, SubSeq(fr, 1, Len(fr) - 1))
         /\ Returned(fr, SubSeq(fr, 1, Len(fr) - 1))
<1>1. fr # << >>
  BY DEF Exhausted
<1>2. Len(fr) \in 1..Len(fr) /\ fr \in Seq(FrameRecords(g)) /\ Len(fr) \in Nat
  BY <1>1, LastFrame, FrameFacts DEF Ordered, Shape
<1>3. Len(fr) - 1 \in 0..Len(fr)
  BY <1>2
<1>4. /\ SubSeq(fr, 1, Len(fr) - 1) \in Seq(FrameRecords(g))
      /\ Len(SubSeq(fr, 1, Len(fr) - 1)) = Len(fr) - 1
      /\ \A m \in 1..(Len(fr) - 1) : SubSeq(fr, 1, Len(fr) - 1)[m] = fr[m]
  BY <1>2, <1>3, PrefixFacts
<1> QED BY <1>4 DEF Ordered, Shape, Returned

LEMMA PopMakes ==
  ASSUME NEW g, NEW rk, NEW st, NEW fr, Ordered(g, rk, st, fr), NEW d \in 1..Len(st),
         NEW rk2, rk2 = [x \in 1..Len(g) |->
                           IF \E k \in d..Len(st) : st[k] = x THEN Top(g) ELSE rk[x]]
  PROVE  /\ Shape(g, rk2, SubSeq(st, 1, d - 1), fr)
         /\ CutAt(g, rk, st, d, rk2, SubSeq(st, 1, d - 1))
<1>1. Len(st) \in Nat /\ Len(g) \in Nat /\ st \in Seq(1..Len(g))
  BY StackFacts DEF Ordered, Shape
<1>2. d - 1 \in 0..Len(st)
  BY <1>1
<1>3. /\ SubSeq(st, 1, d - 1) \in Seq(1..Len(g))
      /\ Len(SubSeq(st, 1, d - 1)) = d - 1
      /\ \A k \in 1..(d - 1) : SubSeq(st, 1, d - 1)[k] = st[k]
  BY <1>1, <1>2, PrefixFacts
<1>4. \A y \in 1..Len(g) : rk2[y] = IF y \in Above(st, d) THEN Top(g) ELSE rk[y]
  BY DEF Above
<1>5. Top(g) \in 0..Top(g)
  BY <1>1 DEF Top
<1>6. rk2 \in [1..Len(g) -> 0..Top(g)]
  BY <1>5 DEF Ordered, Shape
<1> QED BY <1>3, <1>4, <1>6 DEF Ordered, Shape, CutAt

-----------------------------------------------------------------------------
(* The invariant is inductive.                                             *)

Now == Good(succ, rank, stack, frames, set)

LEMMA Restated == IInv <=> TypeOK /\ Now
<1>1. ASSUME TypeOK PROVE Shape(succ, rank, stack, frames)
  BY <1>1, GraphsAreRelations DEF TypeOK, Shape, Relation, Nodes, Infinity, Top
<1> QED BY <1>1 DEF IInv, Now, Good, Ordered

\* The part of TypeOK that Good does not have.
LEMMA TypesAgain ==
  ASSUME succ \in Graphs, set = [x \in Nodes |-> set[x]], i \in Nat,
         Shape(succ, rank, stack, frames)
  PROVE  TypeOK
BY DEF TypeOK, Shape, Nodes, Infinity, Top

LEMMA InitEstablishes == Init => IInv
<1> SUFFICES ASSUME Init PROVE IInv
  OBVIOUS
<1> DEFINE N == Len(succ)
<1>1. succ \in Graphs /\ Relation(succ) /\ N \in Nat /\ Nodes = 1..N
  BY GraphsAreRelations, ListFacts DEF Init, Relation, Nodes
<1>2. set = [x \in Nodes |-> Base(x)] /\ rank = [x \in Nodes |-> 0] /\ stack = << >> /\ frames = << >> /\ i = 1
  BY DEF Init, Clear
<1>3. Len(stack) = 0 /\ Len(frames) = 0
  BY <1>2, EmptySeq
<1>4. Shape(succ, rank, stack, frames)
  <2>1. rank \in [1..N -> 0..Top(succ)]
    BY <1>1, <1>2 DEF Top
  <2>2. stack \in Seq(1..N) /\ frames \in Seq(FrameRecords(succ))
    BY <1>2, EmptySeq
  <2> QED BY <2>1, <2>2, <1>1 DEF Shape
<1>5. TypeOK
  <2>1. set = [x \in Nodes |-> set[x]]
    BY <1>2
  <2>2. i \in Nat
    BY <1>2
  <2> QED BY <2>1, <2>2, <1>1, <1>4, TypesAgain
<1>6. \A x \in 1..N : rank[x] = 0 /\ set[x] = Base(x)
  BY <1>1, <1>2
<1>7. Stacked(succ, rank, stack)
  BY <1>1, <1>3, <1>6 DEF Stacked, NoRepeats, Occurs
<1>8. Called(succ, stack, frames)
  BY <1>2, <1>3 DEF Called
<1>9. Linked(succ, rank, stack, frames) /\ Gathered(succ, rank, stack, frames, set)
  BY <1>3 DEF Linked, Gathered
<1>10. ReadsKept(succ, rank, stack, frames, set)
  BY <1>3 DEF ReadsKept
<1>11. Popped(succ, rank, set)
  BY <1>1, <1>6 DEF Popped, Top
<1>12. Sets(succ, set)
  BY <1>1, <1>6, SolutionFacts DEF Sets
<1> QED BY <1>4, <1>5, <1>7, <1>8, <1>9, <1>10, <1>11, <1>12 DEF IInv

\* A call of traverse preserves the invariant.
LEMMA VisitPreserves ==
  ASSUME IInv, NEW x, Visitable(succ, rank, frames, x), Visit(x),
         succ' = succ, set' = set, i' \in Nat
  PROVE  IInv'
<1>1. TypeOK /\ Good(succ, rank, stack, frames, set) /\ Ordered(succ, rank, stack, frames)
  BY Restated DEF Now, Good
<1>2. x \in 1..Len(succ) /\ rank[x] = 0
  BY DEF Visitable
<1>3. Len(stack) < Len(succ) /\ Shape(succ, rank, stack, frames)
  BY <1>1, <1>2, StackHasRoom DEF Ordered
<1>4. /\ Shape(succ, rank', stack', frames')
      /\ Pushed(succ, rank, stack, x, rank', stack')
      /\ Entered(succ, stack, frames, x, frames')
  BY <1>2, <1>3, PushMakes DEF Visit
<1>5. Ordered(succ, rank', stack', frames')
  BY <1>1, <1>4, VisitKeepsOrder
<1>6. Linked(succ, rank', stack', frames')
  BY <1>1, <1>4, VisitKeepsLinks DEF Good
<1>7. /\ Gathered(succ, rank', stack', frames', set) /\ ReadsKept(succ, rank', stack', frames', set)
      /\ Popped(succ, rank', set)
  BY <1>1, <1>4, VisitKeepsSets
<1>8. Good(succ, rank', stack', frames', set)
  BY <1>1, <1>5, <1>6, <1>7 DEF Good
<1>9. TypeOK'
  BY <1>1, <1>4 DEF TypeOK, Shape, Nodes, Infinity, Top
<1> QED BY <1>8, <1>9, Restated DEF Now, IInv, Good, Ordered

LEMMA VisitNodeKeeps == IInv /\ VisitNode => IInv'
<1> SUFFICES ASSUME IInv, VisitNode PROVE IInv'
  OBVIOUS
<1>1. Visitable(succ, rank, frames, i)
  BY DEF VisitNode, Visitable, Nodes
<1>2. i' \in Nat
  BY DEF VisitNode, IInv, TypeOK
<1> QED BY <1>1, <1>2, VisitPreserves DEF VisitNode

LEMMA DescendKeeps == IInv /\ Descend => IInv'
<1> SUFFICES ASSUME IInv, Descend PROVE IInv'
  OBVIOUS
<1>1. frames # << >> /\ Frame.next <= Len(succ[Frame.node]) /\ rank[Child] = 0
  BY DEF Descend, Listing
<1>2. Ordered(succ, rank, stack, frames)
  BY Restated DEF Now, Good
<1>3. /\ Len(frames) \in 1..Len(frames) /\ Frame.node \in 1..Len(succ)
      /\ Frame.next \in 1..(Len(succ[Frame.node]) + 1)
  BY <1>1, <1>2, LastFrame, FrameFacts DEF Frame
<1>4. Child \in 1..Len(succ)
  <2>1. Relation(succ) /\ Len(succ[Frame.node]) \in Nat
    BY <1>2, <1>3, ListFacts DEF Ordered, Shape
  <2>2. Frame.next \in 1..Len(succ[Frame.node])
    BY <2>1, <1>1, <1>3
  <2> QED BY <2>1, <2>2, <1>3, ListFacts DEF Child
<1>5. Visitable(succ, rank, frames, Child)
  BY <1>1, <1>4 DEF Visitable, Child, Frame
<1>6. i' \in Nat
  BY DEF Descend, IInv, TypeOK
<1> QED BY <1>5, <1>6, VisitPreserves DEF Descend

LEMMA AbsorbKeeps == IInv /\ Absorb => IInv'
<1> SUFFICES ASSUME IInv, Absorb PROVE IInv'
  OBVIOUS
<1> DEFINE x == Frame.node  c == Child
<1>1. frames # << >> /\ Frame.next <= Len(succ[x]) /\ rank[c] # 0
  BY DEF Absorb, Listing
<1>2. Ordered(succ, rank, stack, frames) /\ Good(succ, rank, stack, frames, set) /\ TypeOK
  BY Restated DEF Now, Good
<1>3. Reads(succ, rank, frames, x, c)
  BY <1>1 DEF Reads, Frame, Child
<1>4. Shape(succ, rank', stack, frames') /\ Lowered(succ, rank, x, c, rank') /\ Stepped(frames, frames')
  <2>1. rank' = [rank EXCEPT ![x] = IF rank[c] < rank[x] THEN rank[c] ELSE rank[x]]
    BY DEF Absorb
  <2>2. frames' = [frames EXCEPT ![Len(frames)].next = frames[Len(frames)].next + 1]
    BY DEF Absorb, Advanced
  <2> HIDE DEF x, c
  <2> QED BY <2>1, <2>2, <1>2, <1>3, AbsorbMakes
<1>5. x \in Nodes /\ c \in Nodes
  <2> HIDE DEF x, c
  <2> QED BY <1>2, <1>3, <1>4, AbsorbFacts DEF Nodes
<1>6. set' = [set EXCEPT ![x] = set[x] \cup set[c]]
  BY DEF Absorb
<1> HIDE DEF x, c
<1>7. set' = [y \in Nodes |-> set'[y]] /\ Joined(succ, set, x, c, set')
  BY <1>2, <1>5, <1>6 DEF TypeOK, Joined, Nodes
<1>8. Ordered(succ, rank', stack, frames') /\ Linked(succ, rank', stack, frames')
  BY <1>2, <1>3, <1>4, AbsorbKeepsOrder DEF Good
<1>9. Gathered(succ, rank', stack, frames', set')
  BY <1>2, <1>3, <1>4, <1>7, AbsorbKeepsGathered
<1>10. ReadsKept(succ, rank', stack, frames', set')
  BY <1>2, <1>3, <1>4, <1>7, AbsorbKeepsReads
<1>11. Popped(succ, rank', set') /\ Sets(succ, set')
  BY <1>2, <1>3, <1>4, <1>7, AbsorbKeepsSets
<1>12. succ' = succ /\ stack' = stack /\ i' = i
  BY DEF Absorb
<1>13. TypeOK'
  BY <1>2, <1>4, <1>7, <1>12 DEF TypeOK, Shape, Nodes, Infinity, Top
<1> QED BY <1>8, <1>9, <1>10, <1>11, <1>12, <1>13 DEF IInv, Ordered

\* A call that may end is exhausted.
LEMMA MayLeave ==
  ASSUME IInv, Leave
  PROVE  /\ Ordered(succ, rank, stack, frames) /\ Good(succ, rank, stack, frames, set)
         /\ Exhausted(succ, frames)
         /\ Frame = frames[Len(frames)] /\ Frame.d \in 1..Len(stack)
<1>1. Ordered(succ, rank, stack, frames) /\ Good(succ, rank, stack, frames, set)
  BY Restated DEF Now, Good
<1>2. frames # << >> /\ ~ (Frame.next <= Len(succ[Frame.node]))
  BY DEF Leave, Listing
<1>3. /\ Len(frames) \in 1..Len(frames) /\ Frame.node \in 1..Len(succ) /\ Frame.d \in 1..Len(stack)
      /\ Frame.next \in 1..(Len(succ[Frame.node]) + 1)
  BY <1>1, <1>2, LastFrame, FrameFacts DEF Frame
<1>4. Len(succ[Frame.node]) \in Nat
  BY <1>1, <1>3, ListFacts DEF Ordered, Shape
<1>5. Exhausted(succ, frames)
  <2>1. Frame.next > Len(succ[Frame.node])
    BY <1>2, <1>3, <1>4
  <2> QED BY <2>1, <1>2 DEF Exhausted, Frame
<1> QED BY <1>1, <1>3, <1>5 DEF Frame

LEMMA LeaveKeeps == IInv /\ Leave => IInv'
<1> SUFFICES ASSUME IInv, Leave PROVE IInv'
  OBVIOUS
<1>1. /\ Ordered(succ, rank, stack, frames) /\ Good(succ, rank, stack, frames, set)
      /\ Exhausted(succ, frames)
      /\ Frame = frames[Len(frames)] /\ Frame.d \in 1..Len(stack)
  BY MayLeave
<1>2. frames' = SubSeq(frames, 1, Len(frames) - 1) /\ succ' = succ /\ set' = set /\ i' = i
  BY DEF Leave
<1>3. Shape(succ, rank, stack, frames') /\ Returned(frames, frames')
  BY <1>1, <1>2, ReturnMakes
<1>4. CASE ~ IsRoot
  <2>1. rank' = rank /\ stack' = stack
    BY <1>4 DEF Leave
  <2>2. rank[frames[Len(frames)].node] # frames[Len(frames)].d
    BY <1>1, <1>4 DEF IsRoot
  <2>3. Good(succ, rank', stack', frames', set)
    BY <2>1, <2>2, <1>1, <1>3, ReturnKeeps
  <2>4. TypeOK'
    BY <2>1, <1>2, <1>3 DEF IInv, TypeOK, Shape, Nodes, Infinity, Top
  <2> QED BY <2>3, <2>4, <1>2 DEF IInv, Good, Ordered
<1>5. CASE IsRoot
  <2>1. /\ rank' = [x \in 1..Len(succ) |->
                      IF \E k \in Frame.d .. Len(stack) : stack[k] = x
                      THEN Top(succ) ELSE rank[x]]
        /\ stack' = SubSeq(stack, 1, Frame.d - 1)
    BY <1>5 DEF Leave, Nodes, Infinity, Top
  <2>2. Shape(succ, rank', stack', frames) /\ CutAt(succ, rank, stack, Frame.d, rank', stack')
    BY <2>1, <1>1, PopMakes
  <2>3. Shape(succ, rank', stack', frames')
    BY <2>2, <1>3 DEF Shape
  <2>4. AtRoot(succ, rank, frames)
    BY <1>1, <1>5 DEF AtRoot, IsRoot
  <2>5. Good(succ, rank', stack', frames', set)
    BY <2>2, <2>3, <2>4, <1>1, <1>3, PopKeeps
  <2>6. TypeOK'
    BY <2>3, <1>2 DEF IInv, TypeOK, Shape, Nodes, Infinity, Top
  <2> QED BY <2>5, <2>6, <1>2 DEF IInv, Good, Ordered
<1> QED BY <1>4, <1>5

LEMMA NextKeeps == IInv /\ [Next]_vars => IInv'
<1> SUFFICES ASSUME IInv, [Next]_vars PROVE IInv'
  OBVIOUS
<1>1. CASE SkipNode \/ UNCHANGED vars
  <2>1. UNCHANGED <<succ, set, rank, stack, frames>> /\ i' \in Nat
    BY <1>1 DEF SkipNode, vars, IInv, TypeOK
  <2> QED BY <2>1 DEF IInv, TypeOK, Nodes, Infinity
<1> QED BY <1>1, VisitNodeKeeps, DescendKeeps, AbsorbKeeps, LeaveKeeps DEF Next

-----------------------------------------------------------------------------
(* Theorems.                                                               *)

\* Ranks, stack, call frames and sets fit together as IInv says in every state.
THEOREM InductiveInvariant == Spec => []IInv
<1>1. IInv /\ [Next]_vars => IInv'
  BY NextKeeps
<1> QED BY <1>1, InitEstablishes, PTL DEF Spec

\* The types of the variables: a rank is a stack position, 0 or Infinity.
THEOREM TypeCorrect == Spec => []TypeOK
<1>1. IInv => TypeOK
  BY DEF IInv
<1> QED BY <1>1, InductiveInvariant, PTL

(***************************************************************************)
(* The stack of digraph, an array with one entry per transition, is never  *)
(* overrun, holds exactly the nodes of the open components, and is empty   *)
(* at the assertion at the end of digraph.                                 *)
(***************************************************************************)
THEOREM StackDisciplined == Spec => []StackDiscipline
<1>1. ASSUME IInv PROVE StackDiscipline
  <2> DEFINE N == Len(succ)
  <2>1. Ordered(succ, rank, stack, frames)
    BY <1>1, Restated DEF Now, Good
  <2>2. N \in Nat /\ stack \in Seq(1..N) /\ NoRepeats(stack)
    BY <2>1, StackFacts DEF Ordered, Shape, Stacked
  <2>3. Len(stack) <= N
    <3>1. \A k \in 1..Len(stack) : stack[k] \in 1..N
      BY <2>2, ElementOfSeq
    <3>2. IsFiniteSet(1..N) /\ Cardinality(1..N) = N
      BY <2>2, CountUpTo
    <3>3. Len(stack) <= Cardinality(1..N)
      BY <2>2, <3>1, <3>2, NoLonger
    <3> QED BY <3>2, <3>3
  <2>4. /\ \A k, l \in 1..Len(stack) : stack[k] = stack[l] => k = l
        /\ \A k \in 1..Len(stack) : rank[stack[k]] <= k
    BY <2>1, StackFacts
  <2>5. \A x \in Nodes : rank[x] \in 1..N <=> \E k \in 1..Len(stack) : stack[k] = x
    BY <2>1 DEF Ordered, Stacked, Occurs, Nodes
  <2>6. \A k \in 1..Len(frames) : stack[frames[k].d] = frames[k].node
    BY <2>1, FrameFacts
  <2>7. Done => stack = << >>
    BY <2>1 DEF Done, Ordered, Called
  <2> QED BY <2>3, <2>4, <2>5, <2>6, <2>7 DEF StackDiscipline
<1> QED BY <1>1, InductiveInvariant, PTL

\* digraph never puts into a set what the relation does not put there.
THEOREM OnlyReachable == Spec => []Sound
<1>1. IInv => Sound
  BY DEF IInv, Sets, Sound, Nodes
<1> QED BY <1>1, InductiveInvariant, PTL

\* The nodes that get rank Infinity in a step; the end of a root's call is the only such step.
NewlyPopped == {x \in Nodes : rank[x] # Infinity /\ rank'[x] = Infinity}

LEMMA OnlyRootsPop ==
  ASSUME IInv, [Next]_vars, NewlyPopped # {}
  PROVE  Leave /\ IsRoot
<1>1. TypeOK /\ Ordered(succ, rank, stack, frames)
  BY Restated DEF Now, Good
<1>2. Len(succ) \in Nat /\ Len(stack) \in Nat /\ Shape(succ, rank, stack, frames)
  BY <1>1, StackFacts DEF Ordered
<1>3. PICK x \in Nodes : rank[x] # Infinity /\ rank'[x] = Infinity
  BY DEF NewlyPopped
<1>4. ASSUME NEW y \in Nodes, rank[y] = 0, Visit(y) PROVE FALSE
  <2>1. Len(stack) < Len(succ)
    BY <1>1, <1>4, StackHasRoom DEF Nodes
  <2>2. Pushed(succ, rank, stack, y, rank', stack')
    BY <2>1, <1>2, <1>4, PushMakes DEF Visit, Nodes
  <2> QED BY <2>1, <2>2, <1>2, <1>3 DEF Pushed, Nodes, Infinity
<1>5. CASE SkipNode \/ UNCHANGED vars
  BY <1>3, <1>5 DEF SkipNode, vars
<1>6. CASE VisitNode
  BY <1>4, <1>6 DEF VisitNode
<1>7. CASE Descend
  <2>1. Child \in Nodes
    <3>1. frames # << >> /\ Frame.next <= Len(succ[Frame.node])
      BY <1>7 DEF Descend, Listing
    <3>2. Len(frames) \in 1..Len(frames)
      BY <3>1, <1>1, LastFrame
    <3>3. Frame.node \in 1..Len(succ) /\ Frame.next \in 1..(Len(succ[Frame.node]) + 1)
      BY <3>2, <1>1, FrameFacts DEF Frame
    <3>4. Len(succ[Frame.node]) \in Nat
      BY <3>3, <1>2, ListFacts DEF Shape
    <3>5. Frame.next \in 1..Len(succ[Frame.node])
      BY <3>1, <3>3, <3>4
    <3> QED BY <3>3, <3>5, <1>2, ListFacts DEF Child, Shape, Nodes
  <2> QED BY <2>1, <1>4, <1>7 DEF Descend
<1>8. CASE Absorb
  <2> DEFINE z == Frame.node  c == Child
  <2>1. Reads(succ, rank, frames, z, c)
    BY <1>8 DEF Absorb, Listing, Reads, Frame, Child
  <2>2. /\ rank' = [rank EXCEPT ![z] = IF rank[c] < rank[z] THEN rank[c] ELSE rank[z]]
        /\ frames' = [frames EXCEPT ![Len(frames)].next = frames[Len(frames)].next + 1]
    BY <1>8 DEF Absorb, Advanced
  <2> HIDE DEF z, c
  <2>3. Lowered(succ, rank, z, c, rank')
    BY <1>1, <2>1, <2>2, AbsorbMakes
  <2>4. \A y \in 1..Len(succ) : rank'[y] = Top(succ) <=> rank[y] = Top(succ)
    BY <1>1, <2>1, <2>3, AbsorbFacts
  <2> QED BY <2>4, <1>3 DEF Nodes, Infinity, Top
<1>9. CASE Leave
  BY <1>3, <1>9 DEF Leave
<1> QED BY <1>5, <1>6, <1>7, <1>8, <1>9 DEF Next

(***************************************************************************)
(* Nodes are taken off the stack as whole strongly connected components of *)
(* the relation, and a root has its solution by then unless what it        *)
(* reaches below has cycles.                                               *)
(***************************************************************************)
THEOREM PopsComponents == Spec => PopsSolved
<1> DEFINE root == Frame.node
           Step == NewlyPopped # {} =>
                     /\ NewlyPopped = Component(succ, root)
                     /\ SimpleBelow(succ, root) => set[root] = Solution(succ, root)
<1>1. ASSUME IInv, [Next]_vars PROVE Step
  <2> SUFFICES ASSUME NewlyPopped # {}
               PROVE  /\ NewlyPopped = Component(succ, root)
                      /\ SimpleBelow(succ, root) => set[root] = Solution(succ, root)
    OBVIOUS
  <2>1. Leave /\ IsRoot
    BY <1>1, OnlyRootsPop
  <2>2. /\ Ordered(succ, rank, stack, frames) /\ Good(succ, rank, stack, frames, set)
        /\ Exhausted(succ, frames)
        /\ Frame = frames[Len(frames)] /\ Frame.d \in 1..Len(stack)
    BY <1>1, <2>1, MayLeave
  <2>3. AtRoot(succ, rank, frames)
    BY <2>1, <2>2 DEF AtRoot, IsRoot
  <2>4. rank' = [x \in 1..Len(succ) |->
                   IF \E k \in Frame.d .. Len(stack) : stack[k] = x
                   THEN Top(succ) ELSE rank[x]]
    BY <2>1 DEF Leave, Nodes, Infinity, Top
  <2>5. CutAt(succ, rank, stack, Frame.d, rank', SubSeq(stack, 1, Frame.d - 1))
    BY <2>2, <2>4, PopMakes
  <2>6. \A y \in 1..Len(succ) :
          rank'[y] = IF y \in Above(stack, Frame.d) THEN Top(succ) ELSE rank[y]
    BY <2>5 DEF CutAt
  <2>7. \A y \in Above(stack, Frame.d) : y \in 1..Len(succ) /\ rank[y] # Top(succ)
    BY <2>2, <2>5, CutFacts
  <2>8. NewlyPopped = Above(stack, Frame.d)
    BY <2>6, <2>7 DEF NewlyPopped, Nodes, Infinity, Top
  <2>9. Above(stack, Frame.d) = Component(succ, root)
    BY <2>2, <2>3, RootComponent
  <2>10. SimpleBelow(succ, root) => set[root] = Solution(succ, root)
    BY <2>2, <2>3, RootSolved
  <2> QED BY <2>8, <2>9, <2>10
<1> HIDE DEF Step
<1>2. Spec => [][Step]_vars
  BY <1>1, InductiveInvariant, PTL DEF Spec
<1>3. PopsSolved <=> [][Step]_vars
  BY DEF PopsSolved, Step, NewlyPopped
<1> QED BY <1>2, <1>3
=============================================================================
