----------------------------- MODULE Inventory -----------------------------
(***************************************************************************)
(* The party's goods: the bag of 96 packed slots, what the members wear,   *)
(* the stock of items the party gave up (shops sell them back) and a found *)
(* item that did not fit (item/, menu/menu_party_actions.c,                *)
(* menu/menu_list_actions.c, menu/menu_list_sort.c, menu_pending_item.c,   *)
(* party/capsule_feed_actions.c).                                          *)
(*                                                                         *)
(* A slot packs an item with a count of seven bits.  A script that takes   *)
(* more of an item than there are leaves a count above the limit, and one  *)
(* more on top of 127 makes it zero: then the slot still has its item, and *)
(* is not free, as the menus look at whole words.  The menu's operations   *)
(* run whole, but "take everything off" and "wear the strongest" walk over *)
(* the places with values read before the walk: the number of occupied     *)
(* slots, and the slots of the items to wear.  Each place is a step.       *)
(* Which item is strongest, and what food a capsule monster eats, are left *)
(* open; items that are only bits (keys) are left out.                     *)
(***************************************************************************)
EXTENDS Integers, FiniteSets

CONSTANTS
    Items, None,
    Capacity,       \* 96: slots of the bag
    Members,        \* the members of the party
    PlaceCount,     \* 6: places for equipment
    StrongPlaces,   \* 4: places "wear the strongest" fills
    Place,          \* item -> its place, 0 for what cannot be worn
    Wearers,        \* item -> members that can wear it
    Cursed,         \* items that cannot be taken off
    Cured,          \* cursed item -> what the church makes of it
    Kept,           \* items that cannot be given away
    Group,          \* item -> its bucket in the sorted bag
    Cap,            \* 99: most of an item
    FieldSize,      \* 128: values of the packed count
    StockCap        \* 15: most of an item in the stock

Slots == 1 .. Capacity
Places == 1 .. PlaceCount

ASSUME InventoryAssumption ==
    /\ None \notin Items
    /\ Capacity \in Nat \ {0} /\ PlaceCount \in Nat \ {0} /\ StrongPlaces \in Places
    /\ IsFiniteSet(Members)
    /\ Place \in [Items -> 0 .. PlaceCount]
    /\ Wearers \in [Items -> SUBSET Members]
    /\ Cursed \subseteq Items /\ Kept \subseteq Items
    /\ Cured \in [Cursed -> Items \ Cursed]
    /\ \A i \in Cursed : Place[Cured[i]] = Place[i] /\ Wearers[Cured[i]] = Wearers[i]
    /\ Group \in [Items -> Nat]
    /\ Cap \in Nat \ {0} /\ FieldSize \in Nat /\ Cap + 1 < FieldSize
    /\ StockCap \in Nat

VARIABLES
    bag,            \* WRAM_INVENTORY_PACKED_ITEMS: slot -> [item, n]
    worn,           \* the members' equipment: member -> place -> item
    stock,          \* WRAM_UNK_7FF080: item -> how many were given up
    pending,        \* WRAM_MENU_SELECTED_SPELL: a found item that did not fit
    work,           \* the walk over the places that is under way
    member, place,  \* its member and its next place
    full,           \* all slots were occupied when it began
    picks           \* place -> slot of the item to wear, 0 for none

goods == <<bag, worn, stock, pending>>
walk == <<work, member, place, full, picks>>
inventory == <<goods, walk>>

-----------------------------------------------------------------------------
(* Slots and counts.                                                        *)

Lesser(a, b) == IF a <= b THEN a ELSE b
FirstOf(S) == CHOOSE s \in S : \A t \in S : s <= t

Slot(i, n) == [item |-> i, n |-> n]
Empty == Slot(None, 0)
Free(b) == {s \in Slots : b[s] = Empty}
Holding(b, i) == {s \in Slots : b[s].item = i}
Count(b, i) == IF Holding(b, i) = {} THEN 0 ELSE b[FirstOf(Holding(b, i))].n
Worn(w, i) == Cardinality({m \in Members : Place[i] # 0 /\ w[m][Place[i]] = i})

(* InventoryIncreaseSlotQuantity, ItemSubtractSlotQuantity: in seven bits.  *)
Raised(n, q) == Lesser(Cap, (n + q) % FieldSize)
Lowered(b, s, q) ==
    [b EXCEPT ![s] = IF (b[s].n - q) % FieldSize = 0 THEN Empty
                     ELSE Slot(b[s].item, (b[s].n - q) % FieldSize)]

(* q of an item go to its slot, or else to the first free one.              *)
MutantStored(b, i, q) ==
    IF Free(b) # {} THEN [b EXCEPT ![FirstOf(Free(b))] = Slot(i, q % FieldSize)]
    ELSE IF Holding(b, i) # {}
    THEN LET s == FirstOf(Holding(b, i)) IN [b EXCEPT ![s] = Slot(i, Raised(b[s].n, q))]
    ELSE b
Stored(b, i, q) ==
    IF Holding(b, i) # {}
    THEN LET s == FirstOf(Holding(b, i)) IN [b EXCEPT ![s] = Slot(i, Raised(b[s].n, q))]
    ELSE IF Free(b) # {} THEN [b EXCEPT ![FirstOf(Free(b))] = Slot(i, q % FieldSize)]
    ELSE b
(* Taking off adds one to the word of the slot, without the limit.          *)
Topped(b, i) ==
    IF Holding(b, i) = {} THEN Stored(b, i, 1)
    ELSE [b EXCEPT ![FirstOf(Holding(b, i))] = Slot(i, (Count(b, i) + 1) % FieldSize)]

(* One more of an item fits: its slot is not at the limit, or one is free.  *)
MutantRoom(b, i) == Holding(b, i) # {} \/ Free(b) # {}
Room(b, i) == IF Holding(b, i) # {} THEN Count(b, i) # Cap ELSE Free(b) # {}

Restocked(st, i, q) ==
    [st EXCEPT ![i] = Lesser(StockCap, st[i] + Lesser(StockCap, q))]

Fits(m, p, i) == Place[i] = p /\ m \in Wearers[i]

-----------------------------------------------------------------------------
InventoryInit ==
    /\ bag = [s \in Slots |-> Empty]
    /\ worn \in [Members -> [Places -> Items \cup {None}]]
    /\ \A m \in Members, p \in Places : worn[m][p] # None => Fits(m, p, worn[m][p])
    /\ stock = [i \in Items |-> 0]
    /\ pending = None
    /\ work = "none" /\ member \in Members /\ place = 1 /\ full = FALSE
    /\ picks = [p \in 1 .. StrongPlaces |-> 0]

Resting == work = "none" /\ UNCHANGED walk

(* Battles and scripts give items; what is above the limit is dropped, and  *)
(* so is an item that has no slot.                                          *)
Receive(i, n) ==
    /\ Resting
    /\ bag' = IF Holding(bag, i) # {}
              THEN LET s == FirstOf(Holding(bag, i))
                   IN [bag EXCEPT ![s] = Slot(i, Lesser(Cap, bag[s].n + n))]
              ELSE IF Free(bag) # {} THEN [bag EXCEPT ![FirstOf(Free(bag))] = Slot(i, n)]
              ELSE bag
    /\ UNCHANGED <<worn, stock, pending>>

(* A found item goes into the bag; if it does not fit, the menu opens.      *)
FindItem(i) ==
    /\ Resting /\ pending = None
    /\ IF Room(bag, i) THEN bag' = Stored(bag, i, 1) /\ pending' = None
       ELSE bag' = bag /\ pending' = i
    /\ UNCHANGED <<worn, stock>>

(* The menu closes only when the found item fits, or was used.              *)
ClosePending ==
    /\ Resting /\ pending # None /\ Room(bag, pending)
    /\ bag' = Stored(bag, pending, 1) /\ pending' = None
    /\ UNCHANGED <<worn, stock>>
UsePending ==
    /\ Resting /\ pending # None
    /\ pending' = None
    /\ UNCHANGED <<bag, worn, stock>>

Lose(s, q) == bag' = Lowered(bag, s, q)

(* Using an item takes one, and what is not there is not used.  A script    *)
(* takes as many as it asks for, also more than there are.                  *)
Consume(s) ==
    /\ Resting /\ bag[s].n # 0
    /\ Lose(s, 1)
    /\ UNCHANGED <<worn, stock, pending>>
RemoveRequested(i, n) ==
    /\ Resting
    /\ Holding(bag, i) # {} /\ Lose(FirstOf(Holding(bag, i)), n)
    /\ UNCHANGED <<worn, stock, pending>>

(* Food that the capsule monster refuses goes to the stock.                 *)
Feed(s) ==
    /\ Resting /\ bag[s] # Empty /\ bag[s].item \notin Kept
    /\ Lose(s, 1)
    /\ \/ UNCHANGED stock
       \/ stock' = Restocked(stock, bag[s].item, 1)
    /\ UNCHANGED <<worn, pending>>

(* A slot that is thrown away goes to the stock.                            *)
Discard(s) ==
    /\ Resting /\ bag[s] # Empty /\ bag[s].item \notin Kept
    /\ stock' = Restocked(stock, bag[s].item, bag[s].n)
    /\ bag' = [bag EXCEPT ![s] = Empty]
    /\ UNCHANGED <<worn, pending>>

Swap(s, t) ==
    /\ Resting
    /\ bag' = [bag EXCEPT ![s] = bag[t], ![t] = bag[s]]
    /\ UNCHANGED <<worn, stock, pending>>

(* The sorted bag: by bucket, otherwise in the order it had, free slots last. *)
Order(b, s) == IF b[s] = Empty THEN <<1, 0, s>> ELSE <<0, Group[b[s].item], s>>
Before(x, y) ==
    \/ x[1] < y[1]
    \/ x[1] = y[1] /\ x[2] < y[2]
    \/ x[1] = y[1] /\ x[2] = y[2] /\ x[3] < y[3]
Sort ==
    /\ Resting
    /\ \E f \in [Slots -> Slots] :
        /\ \A s, t \in Slots : s < t => Before(Order(bag, f[s]), Order(bag, f[t]))
        /\ bag' = [s \in Slots |-> bag[f[s]]]
    /\ UNCHANGED <<worn, stock, pending>>

-----------------------------------------------------------------------------
(* Equipment.                                                               *)

Wear(m, p, i) == worn' = [worn EXCEPT ![m][p] = i]

(* InventoryUnequipItem: a cursed item stays, and so does one with no room. *)
CanTakeOff(m, p, f) ==
    /\ worn[m][p] # None /\ worn[m][p] \notin Cursed
    /\ Room(bag, worn[m][p])
    /\ f => Holding(bag, worn[m][p]) # {}
TakeOff(m, p) == bag' = Topped(bag, worn[m][p]) /\ Wear(m, p, None)

(* InventoryEquipItem: the old item goes back to the bag before the new one *)
(* leaves it; in a full bag the last of a kind changes places with the old. *)
Trades(m, p, s, f) ==
    worn[m][p] # None /\ Holding(bag, worn[m][p]) = {} /\ bag[s].n = 1 /\ f
CanPutOn(m, p, s, f) ==
    worn[m][p] = None \/ Trades(m, p, s, f) \/ Room(bag, worn[m][p])
PutOn(m, p, s, f) ==
    /\ Wear(m, p, bag[s].item)
    /\ bag' = IF Trades(m, p, s, f) THEN [bag EXCEPT ![s] = Slot(worn[m][p], 1)]
              ELSE Lowered(IF worn[m][p] = None THEN bag ELSE Stored(bag, worn[m][p], 1), s, 1)

Wearable(m, p, s) == bag[s] # Empty /\ Fits(m, p, bag[s].item)
Locked(m, p) == worn[m][p] \in Cursed
Full == Free(bag) = {}

Equip(m, p, s) ==
    /\ Resting /\ ~ Locked(m, p) /\ Wearable(m, p, s)
    /\ CanPutOn(m, p, s, Full) /\ PutOn(m, p, s, Full)
    /\ UNCHANGED <<stock, pending>>
Unequip(m, p) ==
    /\ Resting /\ CanTakeOff(m, p, Full) /\ TakeOff(m, p)
    /\ UNCHANGED <<stock, pending>>
DiscardEquipped(m, p) ==
    /\ Resting /\ worn[m][p] # None /\ worn[m][p] \notin Cursed \cup Kept
    /\ Wear(m, p, None)
    /\ stock' = Restocked(stock, worn[m][p], 1)
    /\ UNCHANGED <<bag, pending>>

(* The church lifts the curses of a member.                                 *)
LiftCurses(m) ==
    /\ Resting
    /\ worn' = [worn EXCEPT ![m] = [p \in Places |->
                    IF Locked(m, p) THEN Cured[worn[m][p]] ELSE worn[m][p]]]
    /\ UNCHANGED <<bag, stock, pending>>

-----------------------------------------------------------------------------
(* The walks over the places of a member.                                   *)

Begin(kind, m) == work' = kind /\ member' = m /\ place' = 1 /\ full' = Full
Walked(last) ==
    /\ IF place = last THEN work' = "none" /\ place' = 1
       ELSE work' = work /\ place' = place + 1
    /\ UNCHANGED <<member, full>>

BeginUnequipAll(m) ==
    /\ work = "none" /\ Begin("strip", m)
    /\ UNCHANGED <<goods, picks>>
UnequipNext ==
    /\ work = "strip" /\ Walked(PlaceCount)
    /\ IF CanTakeOff(member, place, full) THEN TakeOff(member, place)
       ELSE UNCHANGED <<bag, worn>>
    /\ UNCHANGED <<stock, pending, picks>>

(* The slots of the items to wear are chosen for all places first.          *)
BeginStrongest(m) ==
    /\ work = "none" /\ Begin("strongest", m)
    /\ picks' \in [1 .. StrongPlaces -> 0 .. Capacity]
    /\ \A p \in 1 .. StrongPlaces :
        picks'[p] # 0 => ~ Locked(m, p) /\ Wearable(m, p, picks'[p])
    /\ UNCHANGED goods
EquipStrongest ==
    /\ work = "strongest" /\ Walked(StrongPlaces)
    /\ LET s == picks[place] IN
        /\ IF s # 0 /\ CanPutOn(member, place, s, full) THEN PutOn(member, place, s, full)
           ELSE UNCHANGED <<bag, worn>>
        /\ picks' = [picks EXCEPT ![place] = 0]
    /\ UNCHANGED <<stock, pending>>
=============================================================================
