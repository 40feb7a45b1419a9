-------------------------------- MODULE Shop --------------------------------
(***************************************************************************)
(* Gold and the shops on top of the inventory: buying goods, buying back   *)
(* what the party gave up ("forfeit"), selling (menu/menu_shop_*.c), and   *)
(* the other ways gold changes: rewards, the church's fee, script commands *)
(* (battle/battle_results.c, system/gold.c).                               *)
(*                                                                         *)
(* A deal is prepared (the most that can be bought is worked out in a      *)
(* byte), its quantity adjusted, and accepted or given up.  While a deal   *)
(* is open the menu does nothing else.  Spells, and the prizes and coins   *)
(* of the casino, are left out.                                            *)
(***************************************************************************)
EXTENDS Inventory

CONSTANTS
    Offers,         \* items some shop sells
    BuyPrice,       \* item -> its price
    SellPrice,      \* item -> what a shop pays for it, a word: at most 65535
    GoldCap,        \* 9999999
    WordSize,       \* 65536: values of gold's low word
    GoldSize,       \* 2^24: values of gold
    ByteSize,       \* 256
    Leap,           \* 10: step of the up and down buttons
    Gifts,          \* how many of an item battles and scripts give
    Takes,          \* how many of an item scripts take, a byte
    Rewards,        \* gold battles give
    Payments,       \* gold scripts give and take
    CureFees,       \* fees of the church
    StartGold

ASSUME ShopAssumption ==
    /\ Offers \subseteq Items
    /\ BuyPrice \in [Items -> Nat] /\ SellPrice \in [Items -> Nat]
    /\ \A i \in Items : GoldCap + Cap * SellPrice[i] < GoldSize
    /\ GoldCap \in Nat /\ WordSize \in Nat \ {0} /\ GoldSize \in Nat /\ GoldCap < GoldSize
    /\ ByteSize = 2 * FieldSize /\ Leap \in Nat \ {0}
    /\ Cap + StockCap < FieldSize
    /\ Cardinality(Members) < Cap /\ Cardinality(Members) + Leap + 1 < FieldSize
    /\ Gifts \subseteq 1 .. Cap /\ Takes \subseteq 0 .. ByteSize - 1
    /\ Rewards \subseteq Nat /\ Payments \subseteq Nat /\ CureFees \subseteq Nat
    /\ StartGold \in 0 .. GoldCap

VARIABLES
    gold,           \* WRAM_GOLD
    deal            \* the open deal: [kind, item, slot, quantity, limit]

vars == <<inventory, gold, deal>>

-----------------------------------------------------------------------------
(* Gold.                                                                    *)

Capped(g) == Lesser(GoldCap, g % GoldSize)

(* AddGold looks at the high byte and at the low word one after the other.  *)
AddGold(amount) ==
    LET g == (gold + amount) % GoldSize IN
    IF g \div WordSize >= GoldCap \div WordSize /\ g % WordSize >= GoldCap % WordSize
    THEN GoldCap ELSE g

NoDeal == [kind |-> "none", item |-> None, slot |-> 0, quantity |-> 0, limit |-> 0]
Open(kind, i, s, q, l) ==
    deal' = [kind |-> kind, item |-> i, slot |-> s, quantity |-> q, limit |-> l]
Closed == deal = NoDeal /\ UNCHANGED deal

Reward(amount) == Closed /\ Resting /\ gold' = Capped(gold + amount) /\ UNCHANGED goods
TextGold(amount) ==
    /\ Closed /\ Resting /\ UNCHANGED goods
    /\ \/ gold' = AddGold(amount)
       \/ gold >= amount /\ gold' = gold - amount
Cure(m, fee) ==
    /\ Closed /\ LiftCurses(m)
    /\ \E p \in Places : Locked(m, p)
    /\ gold >= fee /\ gold' = gold - fee

-----------------------------------------------------------------------------
(* Deals.                                                                   *)

(* The most of an item that can be bought: what is missing to the limit,    *)
(* counting what is worn, in a byte; of forfeit goods no more than there are. *)
BuyLimit(kind, i) ==
    LET missing == (Cap - Count(bag, i) - Worn(worn, i)) % ByteSize IN
    IF kind = "forfeit" THEN Lesser(stock[i], missing) ELSE missing

PreparePurchase(kind, i) ==
    /\ deal = NoDeal /\ Resting /\ UNCHANGED <<goods, gold>>
    /\ Open(kind, i, 0, Lesser(1, BuyLimit(kind, i)), BuyLimit(kind, i))
PrepareSale(s) ==
    /\ deal = NoDeal /\ Resting /\ UNCHANGED <<goods, gold>>
    /\ bag[s] # Empty /\ bag[s].item \notin Kept
    /\ Open("sell", bag[s].item, s, 1, bag[s].n)

(* The quantity is compared with its bounds as a signed byte.  A purchase   *)
(* of nothing cannot be adjusted or accepted; a sale can.                   *)
Negative(x) == x % ByteSize >= FieldSize
UpBy(k) ==
    LET q == (deal.quantity + k) % ByteSize
    IN IF Negative(q - deal.limit) THEN q ELSE deal.limit
DownBy(k) ==
    LET q == (deal.quantity - k) % ByteSize
    IN IF Negative(q - 1) THEN 1 ELSE q
Live == deal.kind = "sell" \/ deal.limit # 0
AdjustQuantity ==
    /\ deal # NoDeal /\ Live
    /\ Resting /\ UNCHANGED <<goods, gold>>
    /\ \E k \in {1, Leap} : \E q \in {UpBy(k), DownBy(k)} : deal' = [deal EXCEPT !.quantity = q]

GiveUp == deal # NoDeal /\ Resting /\ deal' = NoDeal /\ UNCHANGED <<goods, gold>>

Cost == deal.quantity * BuyPrice[deal.item]
Accepting(kinds) ==
    /\ deal.kind \in kinds /\ Live
    /\ Resting /\ deal' = NoDeal

(* Paying takes forfeit goods out of the stock.                             *)
Pay ==
    /\ gold' = gold - Cost
    /\ stock' = IF deal.kind = "forfeit"
                THEN [stock EXCEPT ![deal.item] = @ - deal.quantity] ELSE stock

(* Buying is refused without the gold, and without a slot for a new item.   *)
MutantBagTakes == TRUE
BagTakes == Count(bag, deal.item) # 0 \/ Free(bag) # {}
BuyForBag ==
    /\ Accepting({"buy", "forfeit"}) /\ UNCHANGED <<worn, pending>>
    /\ IF gold >= Cost /\ BagTakes
       THEN bag' = Stored(bag, deal.item, deal.quantity) /\ Pay
       ELSE UNCHANGED <<bag, stock, gold>>

(* One piece of equipment can be put on at once; what was worn goes to the  *)
(* bag, and if it does not fit there is no deal.                            *)
BuyAndEquip(m) ==
    LET p == Place[deal.item] IN
    /\ Accepting({"buy", "forfeit"}) /\ deal.quantity = 1 /\ gold >= Cost
    /\ Fits(m, p, deal.item) /\ p # 0 /\ ~ Locked(m, p)
    /\ IF worn[m][p] = None \/ Room(bag, worn[m][p])
       THEN /\ bag' = IF worn[m][p] = None THEN bag ELSE Stored(bag, worn[m][p], 1)
            /\ Wear(m, p, deal.item) /\ Pay
       ELSE UNCHANGED <<bag, worn, stock, gold>>
    /\ UNCHANGED pending

SellItem ==
    /\ Accepting({"sell"})
    /\ stock' = Restocked(stock, deal.item, deal.quantity)
    /\ Lose(deal.slot, deal.quantity)
    /\ gold' = Capped(gold + deal.quantity * SellPrice[deal.item])
    /\ UNCHANGED <<worn, pending>>

-----------------------------------------------------------------------------
Init == InventoryInit /\ gold = StartGold /\ deal = NoDeal

Goods ==
    \/ \E i \in Items : FindItem(i)
    \/ \E i \in Items, n \in Gifts : Receive(i, n)
    \/ \E i \in Items, n \in Takes : RemoveRequested(i, n)
    \/ ClosePending \/ UsePending
    \/ \E s \in Slots : Consume(s) \/ Feed(s) \/ Discard(s)
    \/ \E s, t \in Slots : Swap(s, t)
    \/ Sort
    \/ \E m \in Members, p \in Places : Unequip(m, p) \/ DiscardEquipped(m, p)
    \/ \E m \in Members, p \in Places, s \in Slots : Equip(m, p, s)
    \/ \E m \in Members : BeginUnequipAll(m) \/ BeginStrongest(m)
    \/ UnequipNext \/ EquipStrongest
Money ==
    \/ \E a \in Rewards : Reward(a)
    \/ \E a \in Payments : TextGold(a)
    \/ \E m \in Members, fee \in CureFees : Cure(m, fee)
Deals ==
    \/ \E i \in Offers : PreparePurchase("buy", i)
    \/ \E i \in Items : PreparePurchase("forfeit", i)
    \/ \E s \in Slots : PrepareSale(s)
    \/ AdjustQuantity \/ GiveUp
    \/ BuyForBag \/ SellItem
    \/ \E m \in Members : BuyAndEquip(m)

Next == (Closed /\ Goods /\ UNCHANGED gold) \/ Money \/ Deals
Spec == Init /\ [][Next]_vars

-----------------------------------------------------------------------------
(* What the goods owe the party.                                            *)

GoodsTypeOK ==
    /\ bag \in [Slots -> [item : Items \cup {None}, n : 0 .. FieldSize - 1]]
    /\ worn \in [Members -> [Places -> Items \cup {None}]]
    /\ stock \in [Items -> 0 .. StockCap]
    /\ pending \in Items \cup {None}
    /\ work \in {"none", "strip", "strongest"}
    /\ member \in Members /\ place \in Places /\ full \in BOOLEAN
    /\ work = "strongest" => place <= StrongPlaces
    /\ picks \in [1 .. StrongPlaces -> 0 .. Capacity]
    /\ gold \in 0 .. GoldSize - 1
    /\ deal \in [kind : {"none", "buy", "forfeit", "sell"}, item : Items \cup {None},
                 slot : 0 .. Capacity, quantity : 0 .. ByteSize - 1, limit : 0 .. ByteSize - 1]

(* A slot without an item is free; no two slots hold the same item.         *)
OneSlotPerItem ==
    /\ \A s \in Slots : bag[s].item = None => bag[s].n = 0
    /\ \A s, t \in Slots : bag[s].item # None /\ bag[s].item = bag[t].item => s = t

EquipmentFits ==
    \A m \in Members, p \in Places : worn[m][p] # None => Fits(m, p, worn[m][p])

(* A slot chosen for a place holds, when its turn comes, an item that the   *)
(* member can wear there, and the place is not cursed.                      *)
PicksStand ==
    \A p \in 1 .. StrongPlaces :
        picks[p] # 0 =>
            /\ work = "strongest" /\ place <= p
            /\ ~ Locked(member, p) /\ Wearable(member, p, picks[p])

(* An item's count is within the limit.                                     *)
Sound(i) == \A s \in Slots : bag[s].item = i => bag[s].n \in 1 .. Cap

(* Quantities are within what can be sold, where of nothing one can be      *)
(* sold, and within what can be bought unless the party has more than the   *)
(* limit: then it has wrapped.                                              *)
DealStands ==
    LET i == deal.item IN
    CASE deal.kind = "none" -> deal = NoDeal
      [] deal.kind = "sell" ->
            /\ deal.slot \in Slots /\ bag[deal.slot] = Slot(i, deal.limit)
            /\ i \in Items \ Kept
            /\ deal.quantity \in (IF deal.limit = 0 THEN {0, 1} ELSE 1 .. deal.limit)
      [] OTHER ->
            /\ i \in Items /\ deal.limit = BuyLimit(deal.kind, i)
            /\ deal.quantity \in Lesser(1, deal.limit) .. deal.limit
            /\ Sound(i) /\ Negative(deal.limit) => deal.quantity \in {1, deal.limit}

(* The goods are consistent after every operation of the menus, battles,    *)
(* scripts and shops, whatever the counts: one slot an item, every worn     *)
(* item where it belongs, the slots "wear the strongest" chose still hold   *)
(* what they held, and an open deal is within its limits.                   *)
GoodsInv == GoodsTypeOK /\ OneSlotPerItem /\ EquipmentFits /\ PicksStand /\ DealStands

Total(b, w, f, i) == Count(b, i) + Worn(w, i) + (IF f = i THEN 1 ELSE 0)

(* A script takes more of an item than there are.                           *)
Overdraws(i) == \E n \in Takes : RemoveRequested(i, n) /\ n % FieldSize > Count(bag, i)

(* A count within the limit stays there, unless a script takes too many;    *)
(* and of such an item nothing is lost or gained when goods only change     *)
(* places: putting on and taking off, one at a time or all at once in a     *)
(* full bag or at the limit, swapping, sorting, and keeping a found item,   *)
(* which is one more of it.                                                 *)
Moves ==
    \/ ClosePending \/ Sort
    \/ \E s, t \in Slots : Swap(s, t)
    \/ \E m \in Members, p \in Places : Unequip(m, p)
    \/ \E m \in Members, p \in Places, s \in Slots : Equip(m, p, s)
    \/ UnequipNext \/ EquipStrongest
Now(i) == Total(bag, worn, pending, i)
After(i) == Total(bag', worn', pending', i)
MovesConserve ==
    [][\A i \in Items : Sound(i) =>
        /\ Sound(i)' \/ Overdraws(i)
        /\ Moves => After(i) = Now(i)
        /\ FindItem(i) => After(i) = Now(i) + 1]_vars

(* A deal that ends changed nothing, or moved exactly its quantity for      *)
(* exactly its price: bought goods are in the bag or on a member, the old   *)
(* equipment is in the bag, forfeit goods left the stock, sold goods are in *)
(* it.  Only when the party has more than the limit (what is worn counts,   *)
(* and found items only look at the bag) can a purchase do less.  A sale    *)
(* cuts the gold that a script left above the cap instead of raising it.    *)
(* It is said of items whose counts are within the limit.                   *)
Bought ==
    /\ deal.kind \in {"buy", "forfeit"}
    /\ gold' = gold - Cost
    /\ After(deal.item) = Now(deal.item) + deal.quantity
    /\ stock' = IF deal.kind = "buy" THEN stock
                ELSE [stock EXCEPT ![deal.item] = @ - deal.quantity]
Sold ==
    /\ deal.kind = "sell"
    /\ gold <= GoldCap => gold' = Lesser(GoldCap, gold + deal.quantity * SellPrice[deal.item])
    /\ After(deal.item) = Now(deal.item) - deal.quantity
    /\ stock' = Restocked(stock, deal.item, deal.quantity)
FairTrade ==
    [][deal # NoDeal /\ deal' = NoDeal =>
        \/ UNCHANGED <<goods, gold>>
        \/ ~ Sound(deal.item)
        \/ deal.kind # "sell" /\ Count(bag, deal.item) + Worn(worn, deal.item) > Cap
        \/ /\ Bought \/ Sold
           /\ \A i \in Items \ {deal.item} : Sound(i) => After(i) = Now(i)]_vars

(* Gold is capped, as metadata/memory_map.toml says.                        *)
GoldCapped == gold <= GoldCap
=============================================================================
