------------------------------ MODULE Digraph ------------------------------
(***************************************************************************)
(* lalr.c: digraph and traverse, which are to give every node the union of *)
(* the sets of all nodes it reaches along a relation.  One depth-first     *)
(* search finds the strongly connected components on the way, with ranks   *)
(* and a stack as in Tarjan's algorithm.  The recursion is modelled with   *)
(* explicit call frames.                                                   *)
(*                                                                         *)
(* A node is an index into the array of transitions, counted from 1, and   *)
(* succ[x] is the linked list reads or includes of node x.                 *)
(***************************************************************************)
EXTENDS Integers, Sequences, FiniteSets

CONSTANTS
  Graphs,         \* the relations digraph may be run on
  Base(_)         \* the set a node has when digraph is called

ASSUME GraphsAreRelations == \A g \in Graphs : g \in Seq(Seq(1..Len(g)))

VARIABLES
  succ,           \* the relation; no action changes it
  set,            \* the set of each node
  rank,           \* 0: not visited; else a stack position, or Infinity
  stack,          \* Len(stack) is sp
  frames,         \* calls of traverse: node, its d, next position in its list
  i               \* digraph's loop counter

vars == <<succ, set, rank, stack, frames, i>>

Nodes == 1..Len(succ)

\* UINT_MAX, which is greater than every rank.
Infinity == Len(succ) + 1

\* digraph's preparation.
Clear ==
  /\ rank = [x \in Nodes |-> 0]
  /\ stack = << >> /\ frames = << >> /\ i = 1

Init ==
  /\ succ \in Graphs
  /\ set = [x \in Nodes |-> Base(x)]
  /\ Clear

Frame == frames[Len(frames)]
Listing == IF frames = << >> THEN FALSE ELSE Frame.next <= Len(succ[Frame.node])
Child == succ[Frame.node][Frame.next]

\* traverse up to its loop.
Visit(x) ==
  /\ stack' = Append(stack, x)
  /\ rank' = [rank EXCEPT ![x] = Len(stack) + 1]
  /\ frames' = Append(frames, [node |-> x, d |-> Len(stack) + 1, next |-> 1])

\* The next turn of digraph's second loop, on a node visited already or not.
SkipNode ==
  /\ frames = << >> /\ i \in Nodes /\ rank[i] # 0
  /\ i' = i + 1
  /\ UNCHANGED <<succ, set, rank, stack, frames>>

VisitNode ==
  /\ frames = << >> /\ i \in Nodes /\ rank[i] = 0
  /\ Visit(i)
  /\ i' = i + 1
  /\ UNCHANGED <<succ, set>>

Descend ==
  /\ Listing /\ rank[Child] = 0
  /\ Visit(Child)
  /\ UNCHANGED <<succ, set, i>>

Advanced == [frames EXCEPT ![Len(frames)].next = @ + 1]

\* Mutants: the arguments of set_union are swapped; the rank is not lowered;
\* the list is not advanced.
Absorb_Swapped ==
  /\ Listing /\ rank[Child] # 0
  /\ rank' = [rank EXCEPT ![Frame.node] = IF rank[Child] < @ THEN rank[Child] ELSE @]
  /\ set' = [set EXCEPT ![Child] = @ \cup set[Frame.node]]
  /\ frames' = Advanced
  /\ UNCHANGED <<succ, stack, i>>

Absorb_NoRank ==
  /\ Listing /\ rank[Child] # 0
  /\ set' = [set EXCEPT ![Frame.node] = @ \cup set[Child]]
  /\ frames' = Advanced
  /\ UNCHANGED <<succ, rank, stack, i>>

Absorb_Stuck == Listing /\ rank[Child] # 0 /\ UNCHANGED vars

\* The rest of a turn of traverse's loop, once the child has been visited.
Absorb ==
  /\ Listing /\ rank[Child] # 0
  /\ rank' = [rank EXCEPT ![Frame.node] = IF rank[Child] < @ THEN rank[Child] ELSE @]
  /\ set' = [set EXCEPT ![Frame.node] = @ \cup set[Child]]
  /\ frames' = Advanced
  /\ UNCHANGED <<succ, stack, i>>

IsRoot == rank[Frame.node] = Frame.d

\* Mutant: the root is left on the stack.
Leave_KeepsRoot ==
  /\ frames # << >> /\ ~ Listing
  /\ IF IsRoot
     THEN /\ rank' = [x \in Nodes |->
                        IF \E k \in Frame.d + 1 .. Len(stack) : stack[k] = x
                        THEN Infinity ELSE rank[x]]
          /\ stack' = SubSeq(stack, 1, Frame.d)
     ELSE UNCHANGED <<rank, stack>>
  /\ frames' = SubSeq(frames, 1, Len(frames) - 1)
  /\ UNCHANGED <<succ, set, i>>

\* The end of traverse: a root takes its component off the stack.
Leave ==
  /\ frames # << >> /\ ~ Listing
  /\ IF IsRoot
     THEN /\ rank' = [x \in Nodes |->
                        IF \E k \in Frame.d .. Len(stack) : stack[k] = x
                        THEN Infinity ELSE rank[x]]
          /\ stack' = SubSeq(stack, 1, Frame.d - 1)
     ELSE UNCHANGED <<rank, stack>>
  /\ frames' = SubSeq(frames, 1, Len(frames) - 1)
  /\ UNCHANGED <<succ, set, i>>

Done == frames = << >> /\ i \notin Nodes

Next == SkipNode \/ VisitNode \/ Descend \/ Absorb \/ Leave

\* The function runs to its end once called: nothing can stop its loops.
Spec == Init /\ [][Next]_vars /\ WF_vars(Next)

-----------------------------------------------------------------------------
(* What the relation asks for.                                             *)

Children(g, x) == {g[x][k] : k \in 1..Len(g[x])}
ClosedUnder(g, S) == \A x \in S : Children(g, x) \subseteq S
Reach(g, x) ==
  {y \in 1..Len(g) : \A S \in SUBSET (1..Len(g)) : x \in S /\ ClosedUnder(g, S) => y \in S}
Component(g, x) == {y \in Reach(g, x) : x \in Reach(g, y)}
Solution(g, x) == UNION {Base(y) : y \in Reach(g, x)}

\* Every component reachable from x, except its own, is a single node.
SimpleBelow(g, x) == \A y \in Reach(g, x) : x \in Reach(g, y) \/ Component(g, y) = {y}

-----------------------------------------------------------------------------
(* Properties.                                                             *)

(***************************************************************************)
(* No set ever gets an element that the relation does not give it: a wrong *)
(* lookahead is never invented, whatever the shape of the relation.        *)
(***************************************************************************)
Sound == \A x \in Nodes : set[x] \subseteq Solution(succ, x)

(***************************************************************************)
(* Each time nodes are taken off the stack they are exactly one strongly   *)
(* connected component of the relation, and the root has its whole         *)
(* solution, even if the component is a cycle, as long as those below are  *)
(* no cycles.                                                              *)
(***************************************************************************)
PopsSolved ==
  [][LET popped == {x \in Nodes : rank[x] # Infinity /\ rank'[x] = Infinity}
         root   == Frame.node
     IN popped # {} =>
          /\ popped = Component(succ, root)
          /\ SimpleBelow(succ, root) => set[root] = Solution(succ, root)]_vars

(***************************************************************************)
(* The stack array of ntrans entries is never overrun, holds exactly the   *)
(* nodes whose component is open, each above its rank, and is empty when   *)
(* digraph returns (the assertion sp == 0 at its end).                     *)
(***************************************************************************)
StackDiscipline ==
  /\ Len(stack) <= Len(succ)
  /\ \A k, l \in 1..Len(stack) : stack[k] = stack[l] => k = l
  /\ \A x \in Nodes :
       rank[x] \in 1..Len(succ) <=> \E k \in 1..Len(stack) : stack[k] = x
  /\ \A k \in 1..Len(stack) : rank[stack[k]] <= k
  /\ \A k \in 1..Len(frames) : stack[frames[k].d] = frames[k].node
  /\ Done => stack = << >>

\* digraph returns on every relation.
Terminates == <>Done
=============================================================================
