--------------------------- MODULE LalrReference ---------------------------
(***************************************************************************)
(* LALR(1) lookaheads by their definition: lookaheads are handed from item *)
(* to item inside a state and along the transitions of the automaton, from *)
(* the start item on, until nothing is new.  No transition relations, no   *)
(* components, no order of work.  Only for comparison.                     *)
(***************************************************************************)
EXTENDS Items

\* The least subset of U that contains S and its own consequences in U.
Least(U, S, Consequences(_)) ==
  LET grown[T \in SUBSET U] ==
        LET V == T \cup {x \in Consequences(T) : x \in U} IN IF V = T THEN T ELSE grown[V]
  IN grown[S]

\* Nonterminals that derive the empty string.
Empty(g) ==
  Least(Symbols(g), {}, LAMBDA S : {Lhs(g, r) : r \in {x \in RuleIds(g) :
                                      \A n \in 1..Length(g, x) : Rhs(g, x)[n] \in S}})

\* Place n of rule r is one at which what follows place m can begin.
Leading(g, empty, r, m, n) ==
  n \in (m + 1)..Length(g, r) /\ \A k \in (m + 1)..(n - 1) : Rhs(g, r)[k] \in empty

\* Pairs of a symbol and a terminal that something derived from it begins with.
FirstPairs(g) ==
  LET empty == Empty(g)
  IN Least(Symbols(g) \X g.terms, {<<t, t>> : t \in g.terms},
           LAMBDA P : UNION {{<<Lhs(g, r), p[2]>> :
                                p \in {x \in P : \E n \in 1..Length(g, r) :
                                         Leading(g, empty, r, 0, n) /\ x[1] = Rhs(g, r)[n]}} :
                             r \in RuleIds(g)})

(***************************************************************************)
(* All <<state, item, terminal>> such that the terminal may follow what    *)
(* the item's rule derives; with Nil, all items that the state has.        *)
(***************************************************************************)
Follows(g, sts) ==
  LET empty == Empty(g)
      first == FirstPairs(g)
      items == UNION {{r} \X (0..Length(g, r)) : r \in RuleIds(g)}
      open  == {p \in items : ~ AtEnd(g, p)}
      \* What may begin the right side of p[1] behind the symbol after the dot,
      \* and whether all of that may be empty.
      next == [p \in open |->
                 {x[2] : x \in {y \in first : \E n \in 1..Length(g, p[1]) :
                    Leading(g, empty, p[1], p[2] + 1, n) /\ y[1] = Rhs(g, p[1])[n]}}]
      rest == [p \in open |->
                 \A n \in (p[2] + 2)..Length(g, p[1]) : Rhs(g, p[1])[n] \in empty]
      Of(f) ==
        LET q == f[1]
            p == f[2]
        IN IF AtEnd(g, p) THEN {}
           ELSE {<<Goto(sts, q, AfterDot(g, p)), <<p[1], p[2] + 1>>, f[3]>>}
                \cup {<<q, <<r, 0>>, a>> :
                        r \in {x \in RuleIds(g) : Lhs(g, x) = AfterDot(g, p)},
                        a \in {Nil} \cup next[p] \cup (IF rest[p] THEN {f[3]} ELSE {})}
  IN Least((0..(Len(sts) - 1)) \X items \X (g.terms \cup {Nil}), {<<0, <<0, 0>>, Nil>>},
           LAMBDA F : UNION {Of(f) : f \in F})

\* The lookaheads: <<state, rule, terminal>>.
Lookaheads(g, sts) ==
  {<<f[1], f[2][1], f[3]>> :
     f \in {x \in Follows(g, sts) : AtEnd(g, x[2]) /\ x[2][1] # 0 /\ x[3] # Nil}}

(***************************************************************************)
(* The token sequences of at most n terminals that the grammar's start     *)
(* symbol derives, without %eof, from pairs of a symbol and what it        *)
(* derives.                                                                *)
(***************************************************************************)
Sentences(g, n) ==
  LET words == UNION {[1..k -> g.terms] : k \in 0..n}
      Of(P, x) == {p[2] : p \in {y \in P : y[1] = x}}
      \* The strings of right side rhs.
      Strings(P, rhs) ==
        LET upto[m \in 0..Len(rhs)] ==
              IF m = 0 THEN {<< >>}
              ELSE {w \in {u \o v : u \in upto[m - 1], v \in Of(P, rhs[m])} : Len(w) <= n}
        IN upto[Len(rhs)]
      derived == Least(Symbols(g) \X words, {<<t, <<t>>>> : t \in g.terms}, LAMBDA P :
                   UNION {{<<Lhs(g, r), w>> : w \in Strings(P, Rhs(g, r))} :
                            r \in RuleIds(g) \ {0}})
  IN Of(derived, Rhs(g, 0)[1])

\* Some two elements are related to each other by these lists, at first hand or not.
Mutual(succ) ==
  LET edges == UNION {{<<x, succ[x][k]>> : k \in 1..Len(succ[x])} : x \in DOMAIN succ}
      path  == Least((DOMAIN succ) \X (DOMAIN succ), edges, LAMBDA P :
                 UNION {{<<p[1], e[2]>> : e \in {x \in edges : x[1] = p[2]}} : p \in P})
  IN \E p \in path : p[1] # p[2] /\ <<p[2], p[1]>> \in path
=============================================================================
