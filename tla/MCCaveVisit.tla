---------------------------- MODULE MCCaveVisit ----------------------------
(***************************************************************************)
(* CaveVisit for TLC with at most MaxVisits visits, MaxActs acts of the    *)
(* party and MaxMinutes minutes: a blue ring and a blue stone, a treasure, *)
(* and the potion, in a bag of three slots that is full at first.          *)
(***************************************************************************)
EXTENDS CaveVisit

CONSTANTS ring, stone, idol, potion, hero, friend, MaxVisits, MaxActs, MaxMinutes
VARIABLES visits, acts, passed

counts == <<visits, acts, passed>>
boundedVars == <<caveVars, counts>>

PlaceMC == [i \in Items |-> IF i = ring THEN 1 ELSE 0]
WearersMC == [i \in Items |-> Members]
CuredMC == [i \in Cursed |-> ring]
SeatMC == [m \in Party |-> 0]
RankMC == [m \in Members |-> IF m = hero THEN 0 ELSE 1]
GroupMC == [i \in Items |-> 0]
StartBagsMC == {<<Slot(potion, 1), Slot(idol, 1), Slot(stone, 1)>>,
                <<Slot(stone, 1), Slot(potion, 1), Slot(ring, 3)>>}

(* A menu is closed, and the party stays at home, without counting.         *)
ClosesMenu == PlayerActs /\ pending # None /\ pending' = None
Rests == at = "home" /\ pending = None /\ UNCHANGED caveVars

BoundedInit == CaveInit /\ visits = 0 /\ acts = 0 /\ passed = 0
BoundedNext ==
    \/ Enter /\ visits < MaxVisits /\ visits' = visits + 1 /\ UNCHANGED <<acts, passed>>
    \/ Proceed /\ UNCHANGED counts
    \/ PlayerActs /\ acts < MaxActs /\ acts' = acts + 1 /\ UNCHANGED <<visits, passed>>
    \/ ClosesMenu /\ UNCHANGED counts
    \/ Rests /\ UNCHANGED counts
    \/ TickMinute /\ passed < MaxMinutes /\ passed' = passed + 1 /\ UNCHANGED <<visits, acts>>
BoundedSpec == BoundedInit /\ [][BoundedNext]_boundedVars
=============================================================================
