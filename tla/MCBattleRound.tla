--------------------------- MODULE MCBattleRound ---------------------------
(***************************************************************************)
(* BattleRound for TLC: two members and an enemy that may summon another,  *)
(* actions that wound, revive, poison, confuse and put to sleep.           *)
(***************************************************************************)
EXTENDS BattleRound

CONSTANTS potion

BagMC == [i \in Items |-> 1]
PowersMC ==
    {[cures |-> {"down", "poison", "asleep"}, gives |-> {"confused"}],
     [cures |-> {"confused"}, gives |-> {"poison", "asleep"}]}
=============================================================================
