--------------------------- MODULE StrHashProofs ---------------------------
(***************************************************************************)
(* The hash table is well formed and implements the map of strhash.h, for  *)
(* every set of names, number of buckets and hash function.                *)
(***************************************************************************)
EXTENDS StrHash, TLAPS

(***************************************************************************)
(* The inductive invariant.  That a name has one item follows only because *)
(* a search of its bucket's chain misses no item of that name, which is    *)
(* what ChainsExact says; that the address returned is that of the name    *)
(* asked for (Answered) is needed for the refinement.                      *)
(***************************************************************************)
Answered ==
  /\ asked = Nil <=> item = Nil
  /\ item # Nil => heap[item].key = asked

IInv == TypeOK /\ ChainsExact /\ OneItemPerKey /\ Answered

\* The table is empty at first.
LEMMA InitHolds == Init => IInv
BY DEF Init, IInv, TypeOK, ChainsExact, OneItemPerKey, Answered

\* An element of a sequence over S is in S.
LEMMA ElementOfSeq ==
  ASSUME NEW S, NEW s \in Seq(S), NEW i \in 1..Len(s)
  PROVE  s[i] \in S
OBVIOUS

\* A search that finds nothing means that there is no item of that name.
LEMMA NoPlaceNoItem ==
  ASSUME IInv, NEW k \in Keys, Places(k) = {}
  PROVE  \A x \in 1..Len(heap) : heap[x].key # k
<1>1. hash[k] \in Buckets
  BY DEF IInv, TypeOK
<1>2. SUFFICES ASSUME NEW x \in 1..Len(heap), heap[x].key = k PROVE FALSE
  OBVIOUS
<1>3. PICK n \in 1..Len(chains[hash[k]]) : chains[hash[k]][n] = x
  BY <1>1, <1>2 DEF IInv, ChainsExact
<1> QED
  BY <1>2, <1>3 DEF Places

\* Finding an item changes nothing that the invariant speaks of but item.
LEMMA FindItemKeeps == ASSUME IInv, NEW k \in Keys, FindItem(k) PROVE IInv'
<1>1. PICK n \in Places(k) : item' = chains[hash[k]][n] /\ asked' = k
  BY DEF FindItem
<1>2. UNCHANGED <<hash, heap, chains>>
  BY DEF FindItem
<1>3. /\ hash[k] \in Buckets /\ chains[hash[k]] \in Seq(1..Len(heap))
      /\ n \in 1..Len(chains[hash[k]])
      /\ heap[chains[hash[k]][n]].key = k
  BY <1>1 DEF IInv, TypeOK, Places
<1>4. item' \in 1..Len(heap)
  BY <1>1, <1>3
<1>5. k # Nil /\ \A x \in 1..Len(heap) : x # Nil
  BY NilAssumption
<1>6. Answered'
  BY <1>1, <1>2, <1>3, <1>4, <1>5 DEF Answered
<1>7. TypeOK' /\ ChainsExact' /\ OneItemPerKey'
  <2>1. TypeOK'
    BY <1>1, <1>2, <1>4 DEF IInv, TypeOK
  <2>2. ChainsExact' /\ OneItemPerKey'
    BY <1>2 DEF IInv, ChainsExact, OneItemPerKey
  <2> QED
    BY <2>1, <2>2
<1> QED
  BY <1>1, <1>2, <1>4, <1>6, <1>7 DEF IInv

\* A new item goes to the front of the chain it belongs to.
LEMMA AddItemKeeps == ASSUME IInv, NEW k \in Keys, AddItem(k) PROVE IInv'
<1> DEFINE new == Len(heap) + 1
           rec == [key |-> k, payload |-> Nil]
           h   == hash[k]
<1>1. /\ Places(k) = {} /\ UNCHANGED hash
      /\ heap' = Append(heap, rec)
      /\ chains' = [chains EXCEPT ![h] = <<new>> \o @]
      /\ asked' = k /\ item' = new
  BY DEF AddItem
<1>2. /\ heap \in Seq([key : Keys, payload : Payloads \cup {Nil}])
      /\ chains \in [Buckets -> Seq(1..Len(heap))]
      /\ h \in Buckets /\ rec \in [key : Keys, payload : Payloads \cup {Nil}]
      /\ Len(heap) \in Nat
  BY DEF IInv, TypeOK
<1>3. /\ heap' \in Seq([key : Keys, payload : Payloads \cup {Nil}])
      /\ Len(heap') = new /\ heap'[new] = rec
      /\ \A x \in 1..Len(heap) : heap'[x] = heap[x]
  BY <1>1, <1>2
<1>4. ASSUME NEW b \in Buckets
      PROVE  chains[b] \in Seq(1..new) /\ Len(chains[b]) \in Nat
  BY <1>2
<1>5. /\ chains'[h] = <<new>> \o chains[h]
      /\ \A b \in Buckets \ {h} : chains'[b] = chains[b]
  BY <1>1, <1>2
<1>6. /\ chains'[h] \in Seq(1..new)
      /\ Len(chains'[h]) = Len(chains[h]) + 1
      /\ chains'[h][1] = new
      /\ \A n \in 2..Len(chains'[h]) : n - 1 \in 1..Len(chains[h]) /\ chains'[h][n] = chains[h][n - 1]
  BY <1>2, <1>4, <1>5
<1>7. TypeOK'
  <2>1. chains' \in [Buckets -> Seq(1..new)]
    BY <1>1, <1>2, <1>4, <1>5, <1>6
  <2> QED
    BY <1>1, <1>2, <1>3, <2>1 DEF IInv, TypeOK
<1>8. \A x \in 1..Len(heap) : heap[x].key # k
  BY <1>1, NoPlaceNoItem
<1>9. OneItemPerKey'
  <2>1. SUFFICES ASSUME NEW x \in 1..new, NEW y \in 1..new, heap'[x].key = heap'[y].key
                 PROVE  x = y
    BY <1>3 DEF OneItemPerKey
  <2>2. CASE x \in 1..Len(heap) /\ y \in 1..Len(heap)
    BY <1>3, <2>1, <2>2 DEF IInv, OneItemPerKey
  <2>3. CASE x = new \/ y = new
    <3>1. heap'[new].key = k
      BY <1>3
    <3>2. \A z \in 1..Len(heap) : heap'[z].key # k
      BY <1>3, <1>8
    <3> QED
      BY <1>2, <2>1, <2>3, <3>1, <3>2
  <2> QED
    BY <1>2, <2>2, <2>3
<1>10. ChainsExact'
  <2>1. SUFFICES ASSUME NEW b \in Buckets
                 PROVE  /\ \A n, m \in 1..Len(chains'[b]) : chains'[b][n] = chains'[b][m] => n = m
                        /\ \A x \in 1..Len(heap') : hash'[heap'[x].key] = b
                                <=> \E n \in 1..Len(chains'[b]) : chains'[b][n] = x
    BY DEF ChainsExact
  <2>2. /\ \A n, m \in 1..Len(chains[b]) : chains[b][n] = chains[b][m] => n = m
        /\ \A x \in 1..Len(heap) : hash[heap[x].key] = b
                <=> \E n \in 1..Len(chains[b]) : chains[b][n] = x
        /\ \A n \in 1..Len(chains[b]) : chains[b][n] \in 1..Len(heap)
    <3>1. chains[b] \in Seq(1..Len(heap))
      BY <1>2
    <3>2. \A n \in 1..Len(chains[b]) : chains[b][n] \in 1..Len(heap)
      BY <3>1, ElementOfSeq
    <3> QED
      BY <3>2, Zenon DEF IInv, ChainsExact
  <2>3. CASE b = h
    <3>1. \A n, m \in 1..Len(chains'[b]) : chains'[b][n] = chains'[b][m] => n = m
      <4>1. SUFFICES ASSUME NEW n \in 1..Len(chains'[b]), NEW m \in 1..Len(chains'[b]),
                            chains'[b][n] = chains'[b][m]
                     PROVE  n = m
        OBVIOUS
      <4>2. CASE n = 1 /\ m = 1
        BY <4>2
      <4>3. CASE n # 1 /\ m # 1
        <5>1. n \in 2..Len(chains'[b]) /\ m \in 2..Len(chains'[b])
          BY <4>3
        <5>2. /\ n - 1 \in 1..Len(chains[b]) /\ m - 1 \in 1..Len(chains[b])
              /\ chains[b][n - 1] = chains[b][m - 1]
          BY <1>6, <2>3, <4>1, <5>1
        <5>3. n - 1 = m - 1
          BY <2>2, <5>2
        <5> QED
          BY <5>3
      <4>4. ASSUME NEW j \in 1..Len(chains'[b]), j # 1
            PROVE  chains'[b][j] # chains'[b][1]
        <5>1. j \in 2..Len(chains'[b])
          BY <4>4
        <5>2. j - 1 \in 1..Len(chains[b]) /\ chains'[b][j] = chains[b][j - 1]
          BY <1>6, <2>3, <5>1
        <5>3. chains'[b][j] \in 1..Len(heap)
          BY <2>2, <5>2
        <5>4. chains'[b][1] = new
          BY <1>6, <2>3
        <5> QED
          BY <1>2, <5>3, <5>4
      <4> QED
        BY <4>1, <4>2, <4>3, <4>4
    <3>2. ASSUME NEW x \in 1..Len(heap)
          PROVE  hash[heap'[x].key] = b <=> \E n \in 1..Len(chains'[b]) : chains'[b][n] = x
      <4>1. heap'[x] = heap[x] /\ x # new
        BY <1>2, <1>3
      <4>2. ASSUME NEW n \in 1..Len(chains[b]), chains[b][n] = x
            PROVE  \E m \in 1..Len(chains'[b]) : chains'[b][m] = x
        <5>1. n + 1 \in 2..Len(chains'[b]) /\ (n + 1) - 1 = n
          BY <1>4, <1>6, <2>3
        <5>2. n + 1 \in 1..Len(chains'[b])
          BY <5>1
        <5>3. chains'[b][n + 1] = x
          BY <1>6, <2>3, <4>2, <5>1
        <5> QED
          BY <5>2, <5>3
      <4>3. ASSUME NEW m \in 1..Len(chains'[b]), chains'[b][m] = x
            PROVE  \E n \in 1..Len(chains[b]) : chains[b][n] = x
        <5>1. m # 1
          BY <1>6, <2>3, <4>1, <4>3
        <5>2. m \in 2..Len(chains'[b])
          BY <5>1
        <5> QED
          BY <1>6, <2>3, <4>3, <5>2
      <4> QED
        BY <2>2, <4>1, <4>2, <4>3
    <3>3. hash[heap'[new].key] = b /\ 1 \in 1..Len(chains'[b]) /\ chains'[b][1] = new
      BY <1>3, <1>4, <1>6, <2>3
    <3>4. \A x \in 1..new : x \in 1..Len(heap) \/ x = new
      BY <1>2
    <3>5. ASSUME NEW x \in 1..new
          PROVE  hash[heap'[x].key] = b <=> \E n \in 1..Len(chains'[b]) : chains'[b][n] = x
      BY <3>2, <3>3, <3>4, Zenon
    <3> QED
      BY <1>1, <1>3, <3>1, <3>5
  <2>4. CASE b # h
    <3>1. chains'[b] = chains[b]
      BY <1>5, <2>4
    <3>2. hash[heap'[new].key] # b
      BY <1>3, <2>4
    <3>3. ~ \E n \in 1..Len(chains[b]) : chains[b][n] = new
      BY <1>2, <2>2
    <3>4. \A x \in 1..new : x \in 1..Len(heap) \/ x = new
      BY <1>2
    <3>5. ASSUME NEW x \in 1..Len(heap)
          PROVE  hash[heap'[x].key] = b <=> \E n \in 1..Len(chains'[b]) : chains'[b][n] = x
      BY <1>3, <2>2, <3>1
    <3>6. ASSUME NEW x \in 1..new
          PROVE  hash[heap'[x].key] = b <=> \E n \in 1..Len(chains'[b]) : chains'[b][n] = x
      BY <3>1, <3>2, <3>3, <3>4, <3>5, Zenon
    <3>7. \A n, m \in 1..Len(chains'[b]) : chains'[b][n] = chains'[b][m] => n = m
      BY <2>2, <3>1
    <3> QED
      BY <1>1, <1>3, <3>6, <3>7
  <2> QED
    BY <2>3, <2>4
<1>11. Answered'
  <2>1. k # Nil /\ new # Nil
    BY <1>2, NilAssumption
  <2>2. heap'[new].key = k
    BY <1>3
  <2> QED
    BY <1>1, <2>1, <2>2 DEF Answered
<1> QED
  BY <1>7, <1>9, <1>10, <1>11 DEF IInv

\* Filling an item leaves its name alone.
LEMMA FillKeeps == ASSUME IInv, NEW p \in Payloads, Fill(p) PROVE IInv'
<1>1. /\ item \in 1..Len(heap)
      /\ heap' = [heap EXCEPT ![item].payload = p]
      /\ UNCHANGED <<hash, chains, asked, item>>
  BY DEF Fill, IInv, TypeOK
<1>0. heap \in Seq([key : Keys, payload : Payloads \cup {Nil}])
  BY DEF IInv, TypeOK
<1>2. heap[item] \in [key : Keys, payload : Payloads \cup {Nil}]
  BY <1>0, <1>1, ElementOfSeq
<1> DEFINE rec == [heap[item] EXCEPT !.payload = p]
<1>a. rec \in [key : Keys, payload : Payloads \cup {Nil}] /\ rec.key = heap[item].key
  BY <1>2
<1>b. heap' = [heap EXCEPT ![item] = rec]
  BY <1>1
<1> HIDE DEF rec
<1>3. /\ heap' \in Seq([key : Keys, payload : Payloads \cup {Nil}])
      /\ Len(heap') = Len(heap)
      /\ \A x \in 1..Len(heap) : heap'[x].key = heap[x].key
  BY <1>0, <1>1, <1>a, <1>b
<1>4. TypeOK'
  BY <1>1, <1>3 DEF IInv, TypeOK
<1>5. ChainsExact'
  BY <1>1, <1>3 DEF IInv, ChainsExact
<1>6. OneItemPerKey'
  BY <1>1, <1>3 DEF IInv, OneItemPerKey
<1>7. Answered'
  BY <1>1, <1>3 DEF IInv, Answered
<1> QED
  BY <1>4, <1>5, <1>6, <1>7 DEF IInv

\* Every step of the table preserves the invariant.
LEMMA StepKeeps == IInv /\ [Next]_vars => IInv'
<1>1. SUFFICES ASSUME IInv, [Next]_vars PROVE IInv'
  OBVIOUS
<1>2. CASE UNCHANGED vars
  BY <1>1, <1>2 DEF IInv, TypeOK, ChainsExact, OneItemPerKey, Answered, vars
<1>3. CASE Next
  BY <1>1, <1>3, FindItemKeeps, AddItemKeeps, FillKeeps DEF Next
<1> QED
  BY <1>1, <1>2, <1>3

\* The invariant holds in every reachable state of the table.
THEOREM Inductive == Spec => []IInv
BY InitHolds, StepKeeps, PTL DEF Spec

(***************************************************************************)
(* strhash.c: items, chains and the address last returned are well typed.  *)
(***************************************************************************)
THEOREM TypeCorrect == Spec => []TypeOK
<1>1. IInv => TypeOK
  BY DEF IInv
<1> QED
  BY Inductive, <1>1, PTL

\* strhash_find never makes a second item for a name.
THEOREM Unique == Spec => []OneItemPerKey
<1>1. IInv => OneItemPerKey
  BY DEF IInv
<1> QED
  BY Inductive, <1>1, PTL

\* Every item hangs once in the chain in which it will be looked for.
THEOREM Chained == Spec => []ChainsExact
<1>1. IInv => ChainsExact
  BY DEF IInv
<1> QED
  BY Inductive, <1>1, PTL

-----------------------------------------------------------------------------
(* The refinement.                                                         *)

\* The map has the names of the items, and under each its payload.
LEMMA MapAt ==
  ASSUME NEW items,
         \A x, y \in 1..Len(items) : items[x].key = items[y].key => x = y
  PROVE  /\ DOMAIN MapOf(items) = {items[x].key : x \in 1..Len(items)}
         /\ \A x \in 1..Len(items) : MapOf(items)[items[x].key] = items[x].payload
         /\ MapOf(items) = [k \in DOMAIN MapOf(items) |-> MapOf(items)[k]]
<1>1. DOMAIN MapOf(items) = {items[x].key : x \in 1..Len(items)}
  BY DEF MapOf
<1>2. ASSUME NEW x \in 1..Len(items)
      PROVE  MapOf(items)[items[x].key] = items[x].payload
  <2> DEFINE c == CHOOSE z \in 1..Len(items) : items[z].key = items[x].key
  <2>1. c \in 1..Len(items) /\ items[c].key = items[x].key
    OBVIOUS
  <2>2. c = x
    BY <2>1
  <2>3. MapOf(items)[items[x].key] = items[c].payload
    BY DEF MapOf
  <2> QED
    BY <2>2, <2>3
<1>3. MapOf(items) = [k \in DOMAIN MapOf(items) |-> MapOf(items)[k]]
  BY DEF MapOf
<1> QED
  BY <1>1, <1>2, <1>3

\* MapAt for the items of a table that satisfies the invariant.
LEMMA MapOfHeap ==
  ASSUME IInv
  PROVE  /\ DOMAIN MapOf(heap) = {heap[x].key : x \in 1..Len(heap)}
         /\ \A x \in 1..Len(heap) : MapOf(heap)[heap[x].key] = heap[x].payload
         /\ MapOf(heap) = [k \in DOMAIN MapOf(heap) |-> MapOf(heap)[k]]
BY MapAt DEF IInv, OneItemPerKey

\* Finding an item is asking for a name that is in the map.
LEMMA FindItemAsks ==
  ASSUME IInv, NEW k \in Keys, FindItem(k)
  PROVE  Abs!Ask(k)
<1>1. PICK n \in Places(k) : TRUE
  BY DEF FindItem
<1>2. asked' = k /\ UNCHANGED heap
  BY DEF FindItem
<1>3. /\ chains[hash[k]][n] \in 1..Len(heap)
      /\ heap[chains[hash[k]][n]].key = k
  BY <1>1 DEF Places, IInv, TypeOK
<1>4. k \in DOMAIN MapOf(heap)
  BY <1>3, MapOfHeap
<1>5. MapOf(heap)' = MapOf(heap)
  BY <1>2
<1>6. DOMAIN MapOf(heap) \cup {k} = DOMAIN MapOf(heap)
  BY <1>4
<1>7. MapOf(heap) = [x \in DOMAIN MapOf(heap) \cup {k} |->
                       IF x \in DOMAIN MapOf(heap) THEN MapOf(heap)[x] ELSE Nil]
  BY <1>6, MapOfHeap
<1> QED
  BY <1>2, <1>5, <1>7 DEF Abs!Ask

\* Adding an item is asking for a name that is not in the map.
LEMMA AddItemAsks ==
  ASSUME IInv, NEW k \in Keys, AddItem(k)
  PROVE  Abs!Ask(k)
<1> DEFINE new == Len(heap) + 1
           rec == [key |-> k, payload |-> Nil]
<1>1. PICK h : h = Append(heap, rec)
  OBVIOUS
<1>2. heap' = h /\ asked' = k
  BY <1>1 DEF AddItem
<1>3. heap \in Seq([key : Keys, payload : Payloads \cup {Nil}]) /\ Len(heap) \in Nat
  BY DEF IInv, TypeOK
<1>4. /\ Len(h) = new /\ h[new] = rec
      /\ \A x \in 1..Len(heap) : h[x] = heap[x]
  BY <1>1, <1>3
<1>5. \A x, y \in 1..Len(h) : h[x].key = h[y].key => x = y
  BY <1>2, AddItemKeeps DEF IInv, OneItemPerKey
<1>6. /\ DOMAIN MapOf(h) = {h[x].key : x \in 1..Len(h)}
      /\ \A x \in 1..Len(h) : MapOf(h)[h[x].key] = h[x].payload
      /\ MapOf(h) = [x \in DOMAIN MapOf(h) |-> MapOf(h)[x]]
  BY <1>5, MapAt
<1>7. DOMAIN MapOf(h) = DOMAIN MapOf(heap) \cup {k}
  <2>1. \A x \in 1..Len(h) : x \in 1..Len(heap) \/ x = new
    BY <1>3, <1>4
  <2>2. new \in 1..Len(h) /\ \A x \in 1..Len(heap) : x \in 1..Len(h)
    BY <1>3, <1>4
  <2>3. h[new].key = k
    BY <1>4
  <2>4. DOMAIN MapOf(heap) = {heap[x].key : x \in 1..Len(heap)}
    BY MapOfHeap
  <2>5. \A x \in 1..Len(heap) : h[x].key = heap[x].key
    BY <1>4
  <2>6. DOMAIN MapOf(h) = {h[x].key : x \in 1..Len(h)}
    BY <1>6
  <2>7. ASSUME NEW y \in DOMAIN MapOf(h)
        PROVE  y \in DOMAIN MapOf(heap) \cup {k}
    <3>1. PICK x \in 1..Len(h) : y = h[x].key
      BY <2>6
    <3> QED
      BY <2>1, <2>3, <2>4, <2>5, <3>1
  <2>8. ASSUME NEW y \in DOMAIN MapOf(heap) \cup {k}
        PROVE  y \in DOMAIN MapOf(h)
    <3>1. CASE y = k
      BY <2>2, <2>3, <2>6, <3>1
    <3>2. CASE y \in DOMAIN MapOf(heap)
      <4>1. PICK x \in 1..Len(heap) : y = heap[x].key
        BY <2>4, <3>2
      <4> QED
        BY <2>2, <2>5, <2>6, <4>1
    <3> QED
      BY <3>1, <3>2
  <2> QED
    BY <2>7, <2>8
<1>8. ASSUME NEW key \in DOMAIN MapOf(heap)
      PROVE  MapOf(h)[key] = MapOf(heap)[key]
  <2>1. PICK x \in 1..Len(heap) : key = heap[x].key
    BY MapOfHeap
  <2>2. x \in 1..Len(h) /\ h[x] = heap[x]
    BY <1>3, <1>4
  <2> QED
    BY <1>6, <2>1, <2>2, MapOfHeap
<1>9. k \notin DOMAIN MapOf(heap)
  BY NoPlaceNoItem, MapOfHeap DEF AddItem
<1>10. MapOf(h)[k] = Nil
  BY <1>3, <1>4, <1>6
<1>11. MapOf(h) = [x \in DOMAIN MapOf(heap) \cup {k} |->
                     IF x \in DOMAIN MapOf(heap) THEN MapOf(heap)[x] ELSE Nil]
  BY <1>6, <1>7, <1>8, <1>9, <1>10
<1> QED
  BY <1>2, <1>11 DEF Abs!Ask

\* Filling an item is storing under the name asked for last.
LEMMA FillStores ==
  ASSUME IInv, NEW p \in Payloads, Fill(p)
  PROVE  Abs!Store(p)
<1>1. /\ item \in 1..Len(heap) /\ item # Nil /\ asked # Nil
      /\ heap[item].key = asked /\ heap[item].payload = Nil
  BY DEF Fill, IInv, TypeOK, Answered
<1>2. PICK h : h = [heap EXCEPT ![item].payload = p]
  OBVIOUS
<1>3. heap' = h /\ UNCHANGED asked
  BY <1>2 DEF Fill
<1>0. heap \in Seq([key : Keys, payload : Payloads \cup {Nil}])
  BY DEF IInv, TypeOK
<1>4. heap[item] \in [key : Keys, payload : Payloads \cup {Nil}]
  BY <1>0, <1>1, ElementOfSeq
<1>5. /\ Len(h) = Len(heap)
      /\ h[item].key = heap[item].key /\ h[item].payload = p
      /\ \A x \in 1..Len(heap) : x # item => h[x] = heap[x]
  BY <1>0, <1>1, <1>2, <1>4
<1>6. \A x \in 1..Len(heap) : h[x].key = heap[x].key
  BY <1>5
<1>7. \A x, y \in 1..Len(h) : h[x].key = h[y].key => x = y
  BY <1>5, <1>6 DEF IInv, OneItemPerKey
<1>8. /\ DOMAIN MapOf(h) = {h[x].key : x \in 1..Len(h)}
      /\ \A x \in 1..Len(h) : MapOf(h)[h[x].key] = h[x].payload
      /\ MapOf(h) = [k \in DOMAIN MapOf(h) |-> MapOf(h)[k]]
  BY <1>7, MapAt
<1>9. DOMAIN MapOf(h) = DOMAIN MapOf(heap)
  BY <1>5, <1>6, <1>8, MapOfHeap
<1>10. /\ asked \in DOMAIN MapOf(heap)
       /\ MapOf(heap)[asked] = Nil
       /\ MapOf(h)[asked] = p
  BY <1>1, <1>5, <1>8, MapOfHeap
<1>11. ASSUME NEW k \in DOMAIN MapOf(heap), k # asked
       PROVE  MapOf(h)[k] = MapOf(heap)[k]
  <2>1. PICK x \in 1..Len(heap) : k = heap[x].key
    BY MapOfHeap
  <2>2. x # item
    BY <1>1, <1>11, <2>1
  <2> QED
    BY <1>5, <1>8, <2>1, <2>2, MapOfHeap
<1>12. MapOf(h) = [MapOf(heap) EXCEPT ![asked] = p]
  BY <1>8, <1>9, <1>10, <1>11, MapOfHeap
<1> QED
  BY <1>1, <1>3, <1>10, <1>12 DEF Abs!Store

(***************************************************************************)
(* strhash.c implements the map of strhash.h, step by step.                *)
(***************************************************************************)
THEOREM Implements == Spec => Refines
<1>1. Init => Abs!MapInit
  <2>1. SUFFICES ASSUME Init PROVE Abs!MapInit
    OBVIOUS
  <2>2. MapOf(<< >>) = << >>
    BY DEF MapOf
  <2> QED
    BY <2>1, <2>2 DEF Init, Abs!MapInit
<1>2. IInv /\ [Next]_vars => [Abs!MapNext]_(Abs!mapvars)
  <2>1. SUFFICES ASSUME IInv, [Next]_vars PROVE [Abs!MapNext]_(Abs!mapvars)
    OBVIOUS
  <2>2. CASE UNCHANGED vars
    BY <2>2 DEF vars, Abs!mapvars
  <2>3. ASSUME NEW k \in Keys, FindItem(k) \/ AddItem(k)
        PROVE  Abs!MapNext
    BY <2>1, <2>3, FindItemAsks, AddItemAsks DEF Abs!MapNext
  <2>4. ASSUME NEW p \in Payloads, Fill(p)
        PROVE  Abs!MapNext
    BY <2>1, <2>4, FillStores DEF Abs!MapNext
  <2> QED
    BY <2>1, <2>2, <2>3, <2>4 DEF Next
<1> QED
  BY Inductive, <1>1, <1>2, PTL DEF Spec, Refines, Abs!MapSpec
=============================================================================
