----------------------------- MODULE StrMapAbs -----------------------------
(***************************************************************************)
(* What strhash.h promises: a map from names to payloads that never        *)
(* forgets one.  Asking for a name that is not there puts it there with a  *)
(* null payload, for the caller to fill.                                   *)
(***************************************************************************)
CONSTANTS Keys, Payloads, Nil

VARIABLES map, asked    \* asked: the name asked for last, or Nil

mapvars == <<map, asked>>

MapInit == map = << >> /\ asked = Nil

Ask(k) ==
  /\ map' = [x \in DOMAIN map \cup {k} |-> IF x \in DOMAIN map THEN map[x] ELSE Nil]
  /\ asked' = k

Store(p) ==
  /\ asked # Nil /\ map[asked] = Nil
  /\ map' = [map EXCEPT ![asked] = p]
  /\ UNCHANGED asked

MapNext == (\E k \in Keys : Ask(k)) \/ (\E p \in Payloads : Store(p))
MapSpec == MapInit /\ [][MapNext]_mapvars
=============================================================================
