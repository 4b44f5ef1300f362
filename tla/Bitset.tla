------------------------------- MODULE Bitset -------------------------------
(***************************************************************************)
(* bitset.c: sets of small numbers in arrays of machine words, the         *)
(* lookahead sets of lalr.c.  A word is the set of positions of its bits.  *)
(* The bit to set or test is computed as "1 << bit", an int shift, so its  *)
(* width IntBits matters and not only that of unsigned long, UnitSize.     *)
(***************************************************************************)
EXTENDS Integers, FiniteSets

CONSTANTS
  IntBits, UnitSize,  \* bits of int and of unsigned long
  Names,              \* the bit sets in use
  Universe,           \* set_alloc's argument: numbers below it may be added
  Numbers,            \* the numbers that callers add
  Asked               \* the numbers that callers test

ASSUME WidthAssumption ==
  /\ IntBits \in Nat \ {0} /\ UnitSize \in Nat /\ UnitSize >= IntBits
  /\ Universe \in Nat \ {0} /\ Numbers \cup Asked \subseteq Nat

VARIABLES
  data,     \* data[s][k] is word k of set s
  ret,      \* what the last call returned
  added     \* the numbers put into each set: what it is meant to hold

vars == <<data, ret, added>>

Max == ((Universe - 1) \div UnitSize) + 1
Fits(x) == x < Max * UnitSize

(***************************************************************************)
(* 1 << bit as int, then converted to unsigned long: a shift by IntBits or *)
(* more is undefined and the processor takes it modulo IntBits; the sign   *)
(* bit of int is extended to the left.                                     *)
(***************************************************************************)
Mask(x) ==
  LET b == (x % UnitSize) % IntBits
  IN IF b = IntBits - 1 THEN b..(UnitSize - 1) ELSE {b}

\* Mutant: it is tested whether any lower bit is set, too.
Has_Lower(s, x) == Fits(x) /\ data[s][x \div UnitSize] \cap (0..(x % UnitSize)) # {}

Has(s, x) == Fits(x) /\ data[s][x \div UnitSize] \cap Mask(x) # {}

(***************************************************************************)
(* set_size adds up neighbouring fields of 1, 2, 4, ... bits in a word.    *)
(***************************************************************************)
Fields(w) ==
  LET level[j \in Nat] ==
        IF j = 0 THEN [k \in 0..(UnitSize - 1) |-> IF k \in w THEN 1 ELSE 0]
        ELSE [k \in 0..((UnitSize \div 2^j) - 1) |-> level[j - 1][2 * k] + level[j - 1][2 * k + 1]]
  IN level

Levels == CHOOSE j \in 0..UnitSize : 2^j >= UnitSize /\ \A k \in 0..(j - 1) : 2^k < UnitSize

Size(s) ==
  LET sum[k \in 0..Max] == IF k = 0 THEN 0 ELSE sum[k - 1] + Fields(data[s][k - 1])[Levels][0]
  IN sum[Max]

-----------------------------------------------------------------------------

\* set_alloc.
Init ==
  /\ data = [s \in Names |-> [k \in 0..(Max - 1) |-> {}]]
  /\ ret = FALSE
  /\ added = [s \in Names |-> {}]

\* set_add: a number beyond the words of the set is refused.
Add(s, x) ==
  \/ /\ ~ Fits(x) /\ ret' = FALSE /\ UNCHANGED <<data, added>>
  \/ /\ Fits(x)
     /\ data' = [data EXCEPT ![s][x \div UnitSize] = @ \cup Mask(x)]
     /\ ret' = (data' # data)
     /\ added' = [added EXCEPT ![s] = @ \cup {x}]

\* Mutant: the result is that of the last word only.
Union_LastWord(s, t) ==
  /\ data' = [data EXCEPT ![s] = [k \in 0..(Max - 1) |-> data[s][k] \cup data[t][k]]]
  /\ ret' = (data'[s][Max - 1] # data[s][Max - 1])
  /\ added' = [added EXCEPT ![s] = @ \cup added[t]]

\* set_union, on sets of the same size as everywhere in lalr.c.
Union(s, t) ==
  /\ data' = [data EXCEPT ![s] = [k \in 0..(Max - 1) |-> data[s][k] \cup data[t][k]]]
  /\ ret' = (data' # data)
  /\ added' = [added EXCEPT ![s] = @ \cup added[t]]

Next ==
  \/ \E s \in Names, x \in Numbers : Add(s, x)
  \/ \E s, t \in Names : Union(s, t)

Spec == Init /\ [][Next]_vars

-----------------------------------------------------------------------------
(* Properties.                                                             *)

(***************************************************************************)
(* set_has answers for each number whether it was added, directly or by a  *)
(* union, over word boundaries too, if its bit is below the sign of int;   *)
(* and set_size, by its fields, is the number of elements put into the set.*)
(***************************************************************************)
BehavesAsSet ==
  \A s \in Names :
    /\ \A x \in Asked : Has(s, x) <=> x \in added[s]
    /\ Size(s) = Cardinality(added[s])

(***************************************************************************)
(* set_size is the number of symbols for which set_has holds: lalr_state   *)
(* allocates the reduce table by the one, fills it by the other for every  *)
(* symbol of the grammar, and asserts that they agree.                     *)
(***************************************************************************)
SizeCountsHas ==
  \A s \in Names : Size(s) = Cardinality({x \in Asked : Has(s, x)})

\* set_add and set_union report whether the set they were called on grew.
ReportsGrowth == [][ret' <=> added' # added]_vars
=============================================================================
