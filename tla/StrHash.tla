------------------------------ MODULE StrHash ------------------------------
(***************************************************************************)
(* strhash.c: the symbol table of the grammar, a hash table with chains.   *)
(* strhash_find gives the address of the payload for a name and makes an   *)
(* item if there is none; the caller fills it (grammar.c:133-140).         *)
(*                                                                         *)
(* An item is an index into heap, in the order of allocation, and a chain  *)
(* is the sequence of items in a bucket.                                   *)
(***************************************************************************)
EXTENDS Naturals, Sequences

CONSTANTS
  Keys,           \* the names
  Payloads,       \* what a caller may store
  Buckets,        \* MAX_BUCKETS of them in the code
  Nil             \* the null pointer

ASSUME NilAssumption == Nil \notin Keys /\ Nil \notin Payloads /\ Nil \notin Nat

VARIABLES
  hash,           \* hashfunc: any function will do; not changed
  heap,           \* the items: key and payload
  chains,         \* bucket |-> chain
  asked,          \* the name strhash_find was given last, or Nil
  item            \* what it returned, or Nil

vars == <<hash, heap, chains, asked, item>>

Init ==
  /\ hash \in [Keys -> Buckets]
  /\ heap = << >>
  /\ chains = [b \in Buckets |-> << >>]
  /\ asked = Nil /\ item = Nil

\* Mutants: only the first item of the chain is compared; names are not compared.
Places_First(k) ==
  {n \in 1..Len(chains[hash[k]]) : n = 1 /\ heap[chains[hash[k]][n]].key = k}

Places_Any(k) == 1..Len(chains[hash[k]])

\* The places in the chain of name k that hold it.
Places(k) == {n \in 1..Len(chains[hash[k]]) : heap[chains[hash[k]][n]].key = k}

\* strhash_find of a name that is in the table.
FindItem(k) ==
  \E n \in Places(k) :
    /\ \A m \in Places(k) : n <= m
    /\ asked' = k
    /\ item' = chains[hash[k]][n]
    /\ UNCHANGED <<hash, heap, chains>>

\* Mutant: the new item does not get the old chain behind it.
AddItem_Overwrites(k) ==
  /\ Places(k) = {}
  /\ heap' = Append(heap, [key |-> k, payload |-> Nil])
  /\ chains' = [chains EXCEPT ![hash[k]] = <<Len(heap) + 1>>]
  /\ asked' = k
  /\ item' = Len(heap) + 1
  /\ UNCHANGED hash

\* strhash_find of a name that is not.
AddItem(k) ==
  /\ Places(k) = {}
  /\ heap' = Append(heap, [key |-> k, payload |-> Nil])
  /\ chains' = [chains EXCEPT ![hash[k]] = <<Len(heap) + 1>> \o @]
  /\ asked' = k
  /\ item' = Len(heap) + 1
  /\ UNCHANGED hash

\* The caller fills an empty payload through the address it was given.
Fill(p) ==
  /\ item # Nil /\ heap[item].payload = Nil
  /\ heap' = [heap EXCEPT ![item].payload = p]
  /\ UNCHANGED <<hash, chains, asked, item>>

Next ==
  \/ \E k \in Keys : FindItem(k) \/ AddItem(k)
  \/ \E p \in Payloads : Fill(p)

Spec == Init /\ [][Next]_vars

-----------------------------------------------------------------------------
(* Properties.                                                             *)

TypeOK ==
  /\ hash \in [Keys -> Buckets]
  /\ heap \in Seq([key : Keys, payload : Payloads \cup {Nil}])
  /\ chains \in [Buckets -> Seq(1..Len(heap))]
  /\ asked \in Keys \cup {Nil}
  /\ item \in (1..Len(heap)) \cup {Nil}

(***************************************************************************)
(* A name has at most one item, so two symbols of one name cannot exist.   *)
(***************************************************************************)
OneItemPerKey ==
  \A x, y \in 1..Len(heap) : heap[x].key = heap[y].key => x = y

(***************************************************************************)
(* Every item is in the chain of its name's bucket, once, and in no other: *)
(* strhash_find can reach it, and strhash_free frees it, exactly once.     *)
(***************************************************************************)
ChainsExact ==
  \A b \in Buckets :
    /\ \A n, m \in 1..Len(chains[b]) : chains[b][n] = chains[b][m] => n = m
    /\ \A x \in 1..Len(heap) :
         hash[heap[x].key] = b <=> \E n \in 1..Len(chains[b]) : chains[b][n] = x

\* The table as a map, whatever the hash function and the order of the chains.
MapOf(items) ==
  [k \in {items[x].key : x \in 1..Len(items)} |->
     items[CHOOSE x \in 1..Len(items) : items[x].key = k].payload]

Abs == INSTANCE StrMapAbs WITH map <- MapOf(heap)

(***************************************************************************)
(* The table implements the map of strhash.h: the address strhash_find     *)
(* gives is the payload of the name it was asked for.                      *)
(***************************************************************************)
Refines == Abs!MapSpec
=============================================================================
