----------------------------- MODULE Generator -----------------------------
(***************************************************************************)
(* main.c and the end of grammar_complete: the passes over a completed     *)
(* grammar, one after the other.  nullable_find leaves the flags and nnl,  *)
(* lr0_build the automaton, lalr_reduce_search the reduce tables; each     *)
(* reads what the earlier ones left, and nothing is written twice.         *)
(***************************************************************************)
EXTENDS Output

CONSTANTS Grammars, MaxBuckets, AddrMaps(_)

\* What lr0.c assumes of the grammars, and nullable.c with it.
ASSUME MaxBucketsAssumption == MaxBuckets \in Nat \ {0}
ASSUME GrammarsAreGrammars ==
  \A g \in Grammars :
    /\ IsGrammar(g) /\ IsFiniteSet(RuleIds(g))
    /\ Length(g, 0) = 2
    /\ \A r \in RuleIds(g) : \A n \in 1..Length(g, r) : Rhs(g, r)[n] = Eof <=> r = 0 /\ n = 2

VARIABLES
  nullable, nnl,                                            \* shared, as gram, states
  npc, si, ri, ncur, rule, queue, relations,                \* nullable.c
  lpc, addr, buckets, scur, closure, ir, todo, go,          \* lr0.c
  apc, trans, itr, reads, includes, lookback,               \* lalr.c, with rtab
  set, rank, stack, frames, i                               \* digraph

nvars == <<npc, si, ri, ncur, rule, nullable, nnl, queue, relations>>
lvars == <<lpc, addr, states, buckets, scur, closure, ir, todo, go>>
avars == <<apc, trans, itr, reads, includes, lookback, rtab, set, rank, stack, frames, i>>
allvars == <<gram, nvars, lvars, avars, outputvars>>

N == INSTANCE Nullable WITH pc <- npc, cur <- ncur
L == INSTANCE LR0 WITH pc <- lpc, cur <- scur
R == INSTANCE LALR WITH pc <- apc

Init == N!Init /\ L!Begin /\ R!Begin /\ Begin

\* nullable_find, called at the end of grammar_complete.
NullablePass == N!Next /\ UNCHANGED <<lvars, avars, outputvars>>

\* lr0_build.
AutomatonPass == npc = "done" /\ L!Next /\ UNCHANGED <<nvars, avars, outputvars>>

\* lalr_reduce_search.
LookaheadPass == lpc = "done" /\ R!Next /\ UNCHANGED <<nvars, lvars, outputvars>>

\* conflicts, whose result is ignored, and codgen_c.
OutputPass == apc = "done" /\ Next /\ UNCHANGED <<nvars, lvars, avars>>

Done == pc = "written"

\* main returns.  Before that no pass may be stuck.
Finished == Done /\ UNCHANGED allvars

Pass == NullablePass \/ AutomatonPass \/ LookaheadPass \/ OutputPass \/ Finished

Spec == Init /\ [][Pass]_allvars

-----------------------------------------------------------------------------
(* Properties.                                                             *)

Ref == INSTANCE LalrReference

\* The lookaheads found for the reductions, as <<state, rule, terminal>>.
Found == UNION {{<<s, e[2], e[1]>> : e \in ToSet(rtab[s])} : s \in DOMAIN rtab}

\* The reductions of state s, in the order in which lalr_state meets them.
Completed(s) ==
  SelectSeq(ClosureOf(gram, states[s + 1].kernel), LAMBDA p : AtEnd(gram, p))

InOrder(s) ==
  \A k, l \in 1..Len(Completed(s)) : k < l => Completed(s)[k][1] < Completed(s)[l][1]

(***************************************************************************)
(* The program never reduces on a terminal that may not follow: every      *)
(* lookahead it finds is an LALR(1) lookahead, on every grammar.  And it   *)
(* leaves the tables as the passes behind need them: in the order of the   *)
(* symbol ids, without repetitions, and in step with the items.            *)
(***************************************************************************)
LookaheadsSound == Done => Tables /\ Found \subseteq Ref!Lookaheads(gram, states)

\* Every lookahead has been found.
LookaheadsFound == Ref!Lookaheads(gram, states) \subseteq Found

(***************************************************************************)
(* It finds all of them, provided that nnl is what its name says, neither  *)
(* relation has a cycle of two or more transitions, and no state completes *)
(* a rule after one of a greater id.  (Each proviso is a weakness of its   *)
(* own: see the hazards at nullable.c:34, lalr.c:220 and lalr.c:258.)      *)
(***************************************************************************)
LookaheadsComplete ==
  Done /\ N!NnlIsNonNullableLength /\ ~ Ref!Mutual(reads) /\ ~ Ref!Mutual(includes)
       /\ (\A s \in DOMAIN rtab : InOrder(s))
  => LookaheadsFound
=============================================================================
