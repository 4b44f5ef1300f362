------------------------------- MODULE System -------------------------------
(***************************************************************************)
(* The whole way from a grammar to its sentences: the generator runs on a  *)
(* grammar, the C compiler takes its output, and a caller hands tokens to  *)
(* the parser.  The tables are all that passes between the two programs.   *)
(***************************************************************************)
EXTENDS Parser

CONSTANTS Grammars, MaxBuckets, AddrMaps(_)

\* What Generator assumes.
ASSUME MaxBucketsAssumption == MaxBuckets \in Nat \ {0}
ASSUME GrammarsAreGrammars ==
  \A g \in Grammars :
    /\ IsGrammar(g) /\ IsFiniteSet(RuleIds(g))
    /\ Length(g, 0) = 2
    /\ \A r \in RuleIds(g) : \A n \in 1..Length(g, r) : Rhs(g, r)[n] = Eof <=> r = 0 /\ n = 2

\* The bound leaves room for a sentence of one token, and %eof.
ASSUME TokensAssumption == MaxTokens >= 2

VARIABLES
  nullable, nnl, states, npc, si, ri, ncur, rule, queue, relations,
  lpc, addr, buckets, scur, closure, ir, todo, go,
  apc, trans, itr, reads, includes, lookback, rtab, set, rank, stack, frames, i,
  opc, q, reports,          \* with gram, actions and gotos of Parser: see Generator
  \* Determined once for the properties: what the grammar derives within MaxTokens,
  \* and whether everything the generator is known to get wrong is absent.
  sentences, clean

G == INSTANCE Generator WITH pc <- opc

gvars == <<gram, nullable, nnl, states, npc, si, ri, ncur, rule, queue, relations,
           lpc, addr, buckets, scur, closure, ir, todo, go,
           apc, trans, itr, reads, includes, lookback, rtab, set, rank, stack, frames, i,
           opc, q, reports, actions, gotos>>
allvars == <<gvars, parservars, sentences, clean>>

Ref == INSTANCE LalrReference

Init == G!Init /\ Begin /\ sentences = Nil /\ clean = FALSE

\* The generator runs before there is a parser.
Generate == ~ G!Done /\ G!Pass /\ UNCHANGED <<parservars, sentences, clean>>

EpsilonFree == \A r \in RuleIds(gram) : Length(gram, r) > 0

(***************************************************************************)
(* The output is compiled.  A grammar is clean if the generator reported   *)
(* no conflict and found every lookahead, and no rule is empty.            *)
(***************************************************************************)
Compile ==
  /\ G!Done /\ sentences = Nil
  /\ sentences' = Ref!Sentences(gram, MaxTokens - 1)
  /\ clean' = (reports = {} /\ EpsilonFree /\ G!LookaheadsFound)
  /\ UNCHANGED <<gvars, parservars>>

\* The caller and the parser.
Parse == sentences # Nil /\ Next /\ UNCHANGED <<gvars, sentences, clean>>

Step == Generate \/ Compile \/ Parse

Spec == Init /\ [][Step]_allvars

\* parser_parse goes on until it returns.
FairSpec == Spec /\ WF_allvars(Parse /\ pc = "parsing")

-----------------------------------------------------------------------------
(* Properties.                                                             *)

Returned == pc = "idle" /\ fed # << >>
IsSentence(w) == w # << >> /\ Last(w) = Eof /\ Front(w) \in sentences

(***************************************************************************)
(* A fresh parser accepts every sentence of a clean grammar: the call that *)
(* hands over %eof returns true.                                           *)
(***************************************************************************)
AcceptsSentences == Returned /\ clean /\ IsSentence(fed) => state = 1

\* The same for every grammar without conflicts, as a user would expect it.
AcceptsWithoutConflicts == Returned /\ reports = {} /\ IsSentence(fed) => state = 1

(***************************************************************************)
(* A parser that accepts has just been given a sentence, conflicts or not, *)
(* unless a rule is empty.  It may not have been all it was given: a token *)
(* that does not fit is stacked and sends the parser to state 0, from      *)
(* where it reads on as if nothing were before.                            *)
(***************************************************************************)
AcceptsOnlySentences ==
  Returned /\ EpsilonFree /\ state = 1 =>
    \E k \in 1..Len(fed) : IsSentence(SubSeq(fed, k, Len(fed)))

\* Every call of parser_parse returns if the grammar is clean.
CallsReturn == (pc = "parsing" /\ clean) ~> (pc = "idle")
=============================================================================
