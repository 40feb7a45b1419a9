------------------------------- MODULE MCShop -------------------------------
(***************************************************************************)
(* Shop for TLC: a sword and a cursed sword for the same place, a ring     *)
(* that must be kept for another, and a bag of two slots.                  *)
(***************************************************************************)
EXTENDS Shop

CONSTANTS sword, cursed, ring, hero

PlaceMC == [i \in Items |-> IF i = ring THEN 2 ELSE 1]
WearersMC == [i \in Items |-> Members]
CuredMC == [i \in Cursed |-> sword]
GroupMC == [i \in Items |-> IF i = ring THEN 0 ELSE 1]
PriceMC == [i \in Items |-> 1]
=============================================================================
