------------------------------ MODULE CaveVisit ------------------------------
(***************************************************************************)
(* A visit to the Ancient Cave on top of the inventory                     *)
(* (cave/cave_entry.c, cave/cave_reset.c, cave/cave_exit.c).               *)
(*                                                                         *)
(* Entering takes the blue items from bag and equipment into a list, backs *)
(* the party's state up, starts it afresh and gives it the listed items.   *)
(* Leaving collects what may be taken along, puts the backup back and      *)
(* gives the party what was collected; after a defeat it is the list made  *)
(* on entry.  The play clock is in the backup, so that leaving adds the    *)
(* time of the cave, with the NMI's tick (system/nmi.c) between any two of *)
(* its bytes.                                                              *)
(*                                                                         *)
(* The tables of ranges that are backed up and cleared are data of the     *)
(* cartridge: bag, equipment and clock are in both, as leaving needs them  *)
(* to be.  Seconds and frames, the party's levels, the counts of visits    *)
(* and the totals that only the cave's statistics show are left out.       *)
(***************************************************************************)
EXTENDS Inventory, Sequences

CONSTANTS
    Blue,           \* ROM_BLUE_ITEMS: items that go in and come out
    Iris,           \* $91:FFCA: treasures that come out
    Potion,         \* item 2: what the bag starts with
    Potions,        \* how many of it
    StartBags,      \* what the bag may hold at first
    Party,          \* the members that travel; the others wear things, too
    Seat,           \* member of the party -> its seat
    Rank,           \* member -> the number of its record
    MinuteCount,    \* 60: minutes of an hour
    HourSize        \* 256: values of the hours, and of the list's length in bytes

ASSUME CaveAssumption ==
    /\ Blue \subseteq Items /\ Iris \subseteq Items \ Blue
    /\ Potion \in Items \ (Blue \cup Iris) /\ Potions \in 1 .. Cap
    /\ \A i \in Iris : Place[i] = 0
    /\ Cardinality(Blue) < Capacity
    /\ IsFiniteSet(Blue) /\ IsFiniteSet(Iris)
    /\ Cardinality(Blue) + Cardinality(Iris) + Cardinality(Members) * PlaceCount
          < HourSize \div 2
    /\ StartBags \subseteq [Slots -> [item : Items \cup {None}, n : 0 .. Cap]]
    /\ \A b \in StartBags : \A s, t \in Slots :
        /\ (b[s].item = None) <=> (b[s].n = 0)
        /\ b[s].item # None /\ b[s].item = b[t].item => s = t
    /\ Party \subseteq Members
    /\ Seat \in [Party -> Nat] /\ Rank \in [Members -> Nat]
    /\ \A m, n \in Party : Seat[m] = Seat[n] => m = n
    /\ \A m, n \in Members : Rank[m] = Rank[n] => m = n
    /\ MinuteCount \in Nat \ {0} /\ HourSize \in Nat \ {0}

VARIABLES
    at,             \* what the program does next
    defeated,       \* WRAM_ANCIENT_CAVE_INVENTORY_MODE is not 0
    saved,          \* WRAM_ANCIENT_CAVE_SAVED_ITEMS
    carried,        \* WRAM_ANCIENT_CAVE_CARRY_ITEMS
    given,          \* items of the list that the party was given
    backup,         \* WRAM_ANCIENT_CAVE_STATE_BACKUP: goods and clock
    minutes, hours, stopped,    \* WRAM_PLAY_TIME_*; stopped is a bit of the frames
    staged,         \* WRAM_ANCIENT_CAVE_EXIT_MINUTES and _HOURS
    sum,            \* the accumulator
    ticked,         \* a minute began while the program works on the clock
    entered,        \* history: the time at which the party went in
    spent           \* history: minutes since then, or since a defeat

time == <<minutes, hours>>
lists == <<saved, carried, given>>
records == <<backup, staged, sum, defeated>>
past == <<entered, spent>>
caveVars == <<inventory, at, lists, records, time, stopped, ticked, past>>

-----------------------------------------------------------------------------
Clock(h, m) == h * MinuteCount + m
NoWorn == [m \in Members |-> [p \in Places |-> None]]
FreshBag == [s \in Slots |-> IF s = 1 THEN Slot(Potion, Potions) ELSE Empty]

(* The elements of a finite set by their keys.                              *)
InOrder(S, key) ==
    [k \in 1 .. Cardinality(S) |->
        CHOOSE x \in S : Cardinality({y \in S : key[y] <= key[x]}) = k]

(* The words of the bag in the order of the slots; one of each worn item in *)
(* the order of the members and their places.                               *)
Bagged(b, kinds) ==
    LET S == {s \in Slots : b[s].item \in kinds}
        slots == InOrder(S, [s \in S |-> s])
    IN [k \in DOMAIN slots |-> b[slots[k]]]
WornBy(order, w) ==
    LET S == {x \in (DOMAIN order) \X Places : w[x[1]][x[2]] \in Blue}
        places == InOrder(S, [x \in S |-> order[x[1]] * PlaceCount + x[2]])
    IN [k \in DOMAIN places |-> Slot(w[places[k][1]][places[k][2]], 1)]

(* CarryInventoryBlueItems, CarryEquippedBlueItems.                         *)
MutantEnter ==
    /\ at = "home" /\ pending = None
    /\ saved' = Bagged(bag, Blue) \o WornBy(Seat, worn)
    /\ bag' = [s \in Slots |-> IF bag[s].item \in Blue THEN Empty ELSE bag[s]]
    /\ at' = "backupHours" /\ defeated' = FALSE /\ ticked' = FALSE
    /\ entered' = Clock(hours, minutes) /\ spent' = 0
    /\ UNCHANGED <<worn, stock, pending, walk, carried, given, backup, staged, sum, time, stopped>>
Enter ==
    /\ at = "home" /\ pending = None
    /\ saved' = Bagged(bag, Blue) \o WornBy(Seat, worn)
    /\ bag' = [s \in Slots |-> IF bag[s].item \in Blue THEN Empty ELSE bag[s]]
    /\ worn' = [m \in Members |-> [p \in Places |->
                    IF m \in Party /\ worn[m][p] \in Blue THEN None ELSE worn[m][p]]]
    /\ at' = "backupHours" /\ defeated' = FALSE /\ ticked' = FALSE
    /\ entered' = Clock(hours, minutes) /\ spent' = 0
    /\ UNCHANGED <<stock, pending, walk, carried, given, backup, staged, sum, time, stopped>>

(* SaveCaveEntryState copies byte by byte, the hours before the minutes.    *)
BackupHours ==
    /\ at = "backupHours" /\ at' = "backupMinutes"
    /\ backup' = [bag |-> bag, worn |-> worn, hours |-> hours, minutes |-> 0]
    /\ UNCHANGED <<inventory, lists, staged, sum, defeated, time, stopped, ticked, past>>
BackupMinutes ==
    /\ at = "backupMinutes" /\ at' = "resetHours"
    /\ backup' = [backup EXCEPT !.minutes = minutes]
    /\ UNCHANGED <<inventory, lists, staged, sum, defeated, time, stopped, ticked, past>>

(* ClearCaveParty, on entry and after a defeat.                             *)
ResetHours ==
    /\ at = "resetHours" /\ at' = "resetMinutes"
    /\ bag' = FreshBag /\ worn' = NoWorn /\ hours' = 0
    /\ UNCHANGED <<stock, pending, walk, lists, records, minutes, stopped, ticked, past>>
ResetMinutes ==
    /\ at = "resetMinutes" /\ at' = IF defeated THEN "fallen" ELSE "grant"
    /\ minutes' = 0 /\ stopped' = FALSE /\ given' = 0
    /\ UNCHANGED <<inventory, saved, carried, records, hours, ticked, past>>

-----------------------------------------------------------------------------
(* The next item of a list is given like a found one: a single one without  *)
(* room opens the menu, more than one of it are dropped.                    *)
GiveNext(list) ==
    /\ pending = None /\ given < Len(list)
    /\ LET e == list[given + 1] IN
        IF Room(bag, e.item) THEN bag' = Stored(bag, e.item, e.n) /\ pending' = None
        ELSE bag' = bag /\ pending' = IF e.n = 1 THEN e.item ELSE None
    /\ given' = given + 1
    /\ UNCHANGED <<worn, stock, walk, at, saved, carried, records, time, stopped, ticked, past>>

(* GiveCaveInitialItems.  The empty word at the end of the list is given,   *)
(* too, which changes nothing while a slot is free.                         *)
Grant == at = "grant" /\ GiveNext(saved)
EnterCave ==
    /\ at = "grant" /\ pending = None /\ given = Len(saved)
    /\ at' = "cave"
    /\ UNCHANGED <<inventory, lists, records, time, stopped, ticked, past>>

(* Lufia2AncientCaveDefeat, up to the reset that follows.                   *)
Defeat ==
    /\ at = "cave" /\ pending = None
    /\ defeated' = TRUE /\ at' = "resetHours" /\ ticked' = FALSE /\ spent' = 0
    /\ UNCHANGED <<inventory, lists, backup, staged, sum, time, stopped, entered>>

-----------------------------------------------------------------------------
(* Lufia2AncientCaveExit.                                                   *)
Leave ==
    /\ at \in {"cave", "fallen"} /\ pending = None
    /\ staged' = [staged EXCEPT !.minutes = minutes]
    /\ at' = "stageHours" /\ ticked' = FALSE
    /\ UNCHANGED <<inventory, lists, backup, sum, defeated, time, stopped, past>>
StageHours ==
    /\ at = "stageHours" /\ at' = IF defeated THEN "restoreHours" ELSE "collect"
    /\ staged' = [staged EXCEPT !.hours = hours]
    /\ UNCHANGED <<inventory, lists, backup, sum, defeated, time, stopped, ticked, past>>

(* One of each treasure in the bag, then the blue items of bag and members. *)
CollectCaveCarryItems ==
    /\ at = "collect" /\ at' = "restoreHours"
    /\ carried' = LET found == Bagged(bag, Iris)
                  IN [k \in DOMAIN found |-> Slot(found[k].item, 1)]
                     \o Bagged(bag, Blue) \o WornBy(Rank, worn)
    /\ UNCHANGED <<inventory, saved, given, records, time, stopped, ticked, past>>

(* RestoreCaveBackup.                                                       *)
RestoreHours ==
    /\ at = "restoreHours" /\ at' = "restoreMinutes"
    /\ bag' = backup.bag /\ worn' = backup.worn /\ hours' = backup.hours
    /\ UNCHANGED <<stock, pending, walk, lists, records, minutes, stopped, ticked, past>>
RestoreMinutes ==
    /\ at = "restoreMinutes" /\ at' = "return"
    /\ minutes' = backup.minutes /\ stopped' = FALSE /\ given' = 0
    /\ UNCHANGED <<inventory, saved, carried, records, hours, ticked, past>>

(* ReturnCaveItems.                                                         *)
MutantReturning == IF saved = <<>> THEN carried ELSE saved
Returning == IF defeated THEN saved ELSE carried
ReturnItem == at = "return" /\ GiveNext(Returning)

(* The clock is stopped, the time of the cave is added, and it goes on.     *)
MutantStopClock ==
    /\ at = "return" /\ pending = None /\ given = Len(Returning)
    /\ at' = "readMinutes" /\ ticked' = FALSE
    /\ UNCHANGED <<inventory, lists, records, time, stopped, past>>
StopClock ==
    /\ at = "return" /\ pending = None /\ given = Len(Returning)
    /\ stopped' = TRUE /\ at' = "readMinutes" /\ ticked' = FALSE
    /\ UNCHANGED <<inventory, lists, records, time, past>>
ReadMinutes ==
    /\ at = "readMinutes" /\ at' = "writeMinutes"
    /\ sum' = minutes + staged.minutes
    /\ UNCHANGED <<inventory, lists, backup, staged, defeated, time, stopped, ticked, past>>
WriteMinutes ==
    /\ at = "writeMinutes" /\ at' = "addHours"
    /\ IF sum >= MinuteCount
       THEN minutes' = sum - MinuteCount /\ hours' = (hours + 1) % HourSize
       ELSE minutes' = sum /\ hours' = hours
    /\ UNCHANGED <<inventory, lists, records, stopped, ticked, past>>
AddHours ==
    /\ at = "addHours" /\ at' = "home"
    /\ hours' = Lesser(HourSize - 1, hours + staged.hours)
    /\ stopped' = FALSE
    /\ UNCHANGED <<inventory, lists, records, minutes, ticked, past>>

-----------------------------------------------------------------------------
(* NmiTickPlayTime, when a minute is full.  Entering, a defeat and leaving  *)
(* up to the restored clock each take less than a minute.                   *)
Brief == at \in {"backupHours", "backupMinutes", "resetHours", "resetMinutes",
                 "stageHours", "collect", "restoreHours", "restoreMinutes",
                 "readMinutes", "writeMinutes", "addHours"}
TickMinute ==
    /\ ~ stopped /\ (Brief => ~ ticked)
    /\ IF minutes + 1 >= MinuteCount
       THEN minutes' = 0 /\ hours' = (hours + 1) % HourSize
       ELSE minutes' = minutes + 1 /\ hours' = hours
    /\ ticked' = Brief
    /\ spent' = spent + 1
    /\ UNCHANGED <<inventory, at, lists, records, stopped, entered>>

(* The party finds, wears and uses things at home and in the cave, and in   *)
(* the menu that opens when a found or returned item has no room.           *)
PlayerActs ==
    /\ at \in {"home", "cave"} \/ pending # None
    /\ \/ at \in {"home", "cave"} /\ \E i \in Items : FindItem(i)
       \/ ClosePending \/ UsePending
       \/ \E s \in Slots : Consume(s)
       \/ \E m \in Party, p \in Places : Unequip(m, p)
       \/ \E m \in Party, p \in Places, s \in Slots : Equip(m, p, s)
    /\ UNCHANGED <<at, lists, records, time, stopped, ticked, past>>

CaveInit ==
    /\ bag \in StartBags
    /\ worn \in [Members -> [Places -> Items \cup {None}]]
    /\ \A m \in Members, p \in Places : worn[m][p] # None => Fits(m, p, worn[m][p])
    /\ stock = [i \in Items |-> 0] /\ pending = None
    /\ work = "none" /\ member = (CHOOSE m \in Members : TRUE) /\ place = 1 /\ full = FALSE
    /\ picks = [p \in 1 .. StrongPlaces |-> 0]
    /\ at = "home" /\ defeated = FALSE
    /\ saved = <<>> /\ carried = <<>> /\ given = 0
    /\ backup = [bag |-> bag, worn |-> worn, hours |-> 0, minutes |-> 0]
    /\ minutes \in 0 .. MinuteCount - 1 /\ hours = 0 /\ stopped = FALSE
    /\ staged = [minutes |-> 0, hours |-> 0] /\ sum = 0
    /\ ticked = FALSE /\ entered = minutes /\ spent = 0

Proceed ==
    \/ BackupHours \/ BackupMinutes \/ ResetHours \/ ResetMinutes
    \/ Grant \/ EnterCave \/ Defeat
    \/ Leave \/ StageHours \/ CollectCaveCarryItems \/ RestoreHours \/ RestoreMinutes
    \/ ReturnItem \/ StopClock \/ ReadMinutes \/ WriteMinutes \/ AddHours
CaveNext == Enter \/ Proceed \/ PlayerActs \/ TickMinute
CaveSpec == CaveInit /\ [][CaveNext]_caveVars

-----------------------------------------------------------------------------
Stages == {"home", "backupHours", "backupMinutes", "resetHours", "resetMinutes", "grant",
           "cave", "fallen", "stageHours", "collect", "restoreHours", "restoreMinutes",
           "return", "readMinutes", "writeMinutes", "addHours"}
Words == [item : Items, n : 1 .. Cap]
Bags == [Slots -> [item : Items \cup {None}, n : 0 .. Cap]]
Outfits == [Members -> [Places -> Items \cup {None}]]
CaveTypeOK ==
    /\ bag \in Bags /\ worn \in Outfits /\ pending \in Items \cup {None}
    /\ at \in Stages /\ defeated \in BOOLEAN
    /\ \A list \in {saved, carried} : list \in Seq(Words) /\ Len(list) < HourSize \div 2
    /\ given \in Nat
    /\ at = "grant" => given <= Len(saved)
    /\ at = "return" => given <= Len(Returning)
    /\ minutes \in 0 .. MinuteCount - 1 /\ hours \in 0 .. HourSize - 1
    /\ backup \in [bag : Bags, worn : Outfits,
                   hours : 0 .. HourSize - 1, minutes : 0 .. MinuteCount - 1]
    /\ staged \in [hours : 0 .. HourSize - 1, minutes : 0 .. MinuteCount - 1]
    /\ stopped \in BOOLEAN /\ ticked \in BOOLEAN /\ sum \in Nat
    /\ entered \in Nat /\ spent \in Nat

(* How many of an item are in a list behind a place.                        *)
Listed(list, from, i) ==
    Cardinality({c \in (1 .. Len(list)) \X (1 .. Cap) :
        c[1] > from /\ list[c[1]].item = i /\ c[2] <= list[c[1]].n})
InBackup == at \in Stages \ {"home", "backupHours", "restoreMinutes", "return",
                             "readMinutes", "writeMinutes", "addHours"}
Held(b, w, i) == Count(b, i) + Worn(w, i)
AtHand(i) == Held(bag, worn, i) + (IF pending = i THEN 1 ELSE 0)

(* A slot is free or holds at least one, and an item has one slot.          *)
Tidy(b) ==
    /\ \A s \in Slots : (b[s].item = None) <=> (b[s].n = 0)
    /\ \A s, t \in Slots : b[s].item # None /\ b[s].item = b[t].item => s = t
NoBlue(b, w) ==
    /\ \A s \in Slots : b[s].item \notin Blue
    /\ \A m \in Party, p \in Places : w[m][p] \notin Blue
GoodsStand ==
    /\ Tidy(bag) /\ Tidy(backup.bag)
    /\ \A w \in {worn, backup.worn} : \A m \in Members, p \in Places :
        w[m][p] # None => Fits(m, p, w[m][p])
    /\ at = "backupHours" => NoBlue(bag, worn)
    /\ InBackup \/ at = "restoreMinutes" => NoBlue(backup.bag, backup.worn)
    /\ at = "restoreMinutes" => bag = backup.bag /\ worn = backup.worn
    /\ at = "resetMinutes" => bag = FreshBag /\ worn = NoWorn

(* A list begins with the words of a bag, each of another item; single      *)
(* items follow.                                                            *)
BagPart(list) ==
    {n \in 0 .. Len(list) :
        /\ \A j, k \in 1 .. n : list[j].item = list[k].item => j = k
        /\ \A k \in n + 1 .. Len(list) : list[k].n = 1}
ListsStand ==
    /\ \A k \in 1 .. Len(saved) : saved[k].item \in Blue
    /\ \A k \in 1 .. Len(carried) :
        carried[k].item \in Blue \/ (carried[k].item \in Iris /\ carried[k].n = 1)
    /\ BagPart(carried) # {}
    /\ at = "backupHours" => \E n \in BagPart(saved) : n <= Cardinality(Free(bag))
    /\ InBackup \/ at = "restoreMinutes" =>
        \E n \in BagPart(saved) : n <= Cardinality(Free(backup.bag))

(* While the party is given what it brought it has nothing else but the     *)
(* potion, and no more than that.                                           *)
GrantStands ==
    at = "grant" =>
        /\ \A s \in Slots : bag[s].item \in Blue \cup {Potion, None}
        /\ \A m \in Members, p \in Places : worn[m][p] \in Blue \cup {Potion, None}
        /\ pending \in Blue \cup {None}
        /\ \A i \in Blue : AtHand(i) + Listed(saved, given, i) <= Listed(saved, 0, i)
        /\ pending # None => Listed(saved, 0, pending) > Cap

(* What is still to return of a bag is new to the party; after a defeat     *)
(* there are free slots for it.                                             *)
ReturnStands ==
    at = "return" =>
        \E n \in BagPart(Returning) :
            /\ \A k \in given + 1 .. n : Returning[k].item \in Blue =>
                /\ Holding(bag, Returning[k].item) = {} /\ pending # Returning[k].item
                /\ \A m \in Party, p \in Places : worn[m][p] # Returning[k].item
            /\ defeated /\ given < n => pending = None /\ n - given <= Cardinality(Free(bag))

(* The clock, as far as the hours do not overflow: the time of the game is  *)
(* on the clock; when it was cleared, on the clock and in the backup; when  *)
(* it was staged, in the staged time and the backup, or on the clock again. *)
(* Each copy can lose a minute or turn a carry into an hour.                *)
OnClock == Clock(hours, minutes)
BackedUp == Clock(backup.hours, backup.minutes)
Staged == Clock(staged.hours, staged.minutes)
Lasts(t) == t + 2 * MinuteCount <= HourSize * MinuteCount
Off(t, low, high) == entered + spent + low <= t /\ t <= entered + spent + high
AfterBackup == {"resetHours", "resetMinutes", "grant", "cave", "fallen", "stageHours", "collect",
          "restoreHours", "restoreMinutes"}
ClockInv ==
    /\ at \in {"backupHours", "backupMinutes", "resetHours", "resetMinutes"} =>
        spent = IF ticked THEN 1 ELSE 0
    /\ at \in AfterBackup /\ Lasts(entered) =>
        BackedUp \in entered + 1 - MinuteCount .. entered + 1
    /\ at = "writeMinutes" => sum = minutes + staged.minutes
    /\ at = "resetMinutes" => hours = 0 \/ (hours = 1 /\ ticked)
    /\ Lasts(entered) =>
        /\ at \in {"backupHours", "backupMinutes"} => OnClock = entered + spent
        /\ at = "backupMinutes" =>
            backup.hours = hours \/ (backup.hours = hours - 1 /\ ticked /\ minutes = 0)
    /\ Lasts(entered + spent) =>
        /\ at = "home" => Off(OnClock, - (MinuteCount + 1), 2 * MinuteCount - 1)
        /\ at \in {"grant", "cave", "fallen", "stageHours"} =>
            Off(BackedUp + OnClock, - MinuteCount, MinuteCount)
        /\ at = "stageHours" =>
            IF ticked THEN \/ minutes = staged.minutes + 1
                           \/ minutes = 0 /\ staged.minutes = MinuteCount - 1
            ELSE minutes = staged.minutes
        /\ at \in {"collect", "restoreHours", "restoreMinutes"} =>
            /\ Off(BackedUp + Staged, - (MinuteCount + 1), 2 * MinuteCount - 1)
            /\ ~ ticked => Off(BackedUp + Staged, - MinuteCount, MinuteCount)
        /\ at = "restoreMinutes" =>
            \/ hours = backup.hours
            \/ /\ hours = backup.hours + 1 /\ ticked
               /\ Off(BackedUp + Staged, - (MinuteCount + 1), MinuteCount - 1)
        /\ at \in {"return", "readMinutes", "writeMinutes"} =>
            Off(OnClock + Staged, - (MinuteCount + 1), 2 * MinuteCount - 1)
        /\ at = "addHours" =>
            Off(OnClock + staged.hours * MinuteCount, - (MinuteCount + 1), 2 * MinuteCount - 1)

(* A visit leaves nothing half done: an item has one slot, in the backup,   *)
(* too, where no blue item is but what a member left behind wears; the      *)
(* fresh bag has a slot for all that the party brought, so that entering    *)
(* opens the item menu only for more of an item than the limit; the clock   *)
(* stands only while the time of the cave is added to it, and wherever its  *)
(* parts are they make the time of the game.                                *)
CaveInv ==
    /\ CaveTypeOK
    /\ pending # None => at \in {"home", "grant", "cave", "return"}
    /\ stopped <=> at \in {"readMinutes", "writeMinutes", "addHours"}
    /\ at \in {"backupHours", "backupMinutes", "grant", "cave", "collect"} => ~ defeated
    /\ at = "fallen" => defeated
    /\ at \in {"readMinutes", "writeMinutes", "addHours"} => given = Len(Returning)
    /\ GoodsStand /\ ListsStand /\ GrantStands /\ ReturnStands /\ ClockInv

(* What the party has of an item, or will have when it is home again: what  *)
(* waits in the backup or is at hand, and what the lists and, of the items  *)
(* that may leave the cave, the cave's bag and equipment still hold.        *)
Home(i) == IF InBackup THEN Held(backup.bag, backup.worn, i) ELSE AtHand(i)
InCave == at = "cave" \/ (at \in {"stageHours", "collect"} /\ ~ defeated)
Takeable(i) ==
    IF i \in Blue THEN AtHand(i) ELSE IF i \in Iris /\ Holding(bag, i) # {} THEN 1 ELSE 0
Listing(i) ==
    CASE at \in {"home", "cave", "collect"} -> 0
      [] at = "grant" -> Listed(saved, given, i)
      [] at \in {"backupHours", "backupMinutes", "resetHours", "resetMinutes", "fallen"} ->
            Listed(saved, 0, i)
      [] at \in {"stageHours", "restoreHours", "restoreMinutes"} ->
            IF defeated THEN Listed(saved, 0, i)
            ELSE IF at = "stageHours" THEN 0 ELSE Listed(carried, 0, i)
      [] OTHER -> Listed(Returning, given, i)
Owned(i) == Home(i) + Listing(i)
            + (IF InCave THEN Takeable(i) ELSE IF at = "grant" /\ i \in Blue THEN AtHand(i) ELSE 0)

(* No step of entering, defeat and leaving loses or doubles an item, with   *)
(* the menus for items without room anywhere between: what was brought in   *)
(* comes home, also after a defeat, what was found comes with it, and no    *)
(* other item leaves the cave.  A defeat costs what was found, and leaving  *)
(* drops more than one of an item, when treasures or other finds took the   *)
(* last free slot.                                                          *)
Dropped(i) ==
    /\ at = "return" /\ ~ defeated /\ given < Len(carried)
    /\ carried[given + 1].item = i /\ carried[given + 1].n > 1 /\ ~ Room(bag, i)
ItemsComeHome ==
    [][at' # at \/ given' # given =>
        \A i \in Items :
            \/ Owned(i)' = Owned(i)
            \/ Dropped(i)
            \/ /\ ~ defeated /\ defeated' /\ i \in Blue \cup Iris
               /\ Owned(i)' = Home(i) + Listed(saved, 0, i)]_caveVars

(* The clock after a visit is the time of the game, off by the one minute   *)
(* each that entering, a defeat and leaving can lose, or by the hour that   *)
(* a carry between the copies of hours and minutes makes of it, as long as  *)
(* the hours do not overflow.                                               *)
TimeKept ==
    at = "home" /\ Lasts(entered + spent) =>
        /\ Clock(hours, minutes) >= entered + spent - (MinuteCount + 1)
        /\ Clock(hours, minutes) <= entered + spent + 2 * MinuteCount - 1
=============================================================================
