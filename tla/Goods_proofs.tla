---------------------------- MODULE Goods_proofs -----------------------------
(***************************************************************************)
(* The goods stay consistent for every bag, party, item and limit: each    *)
(* operation of Shop and Inventory preserves GoodsInv.  With it, moving    *)
(* goods about conserves them, and a deal moves them for its price.        *)
(* A visit to the Ancient Cave keeps its goods in order and brings what it *)
(* should home; and it keeps the time on the play clock, whatever lies     *)
(* between the copies of its two bytes.                                    *)
(***************************************************************************)
EXTENDS Shop, CaveVisit, FiniteSetTheorems, WellFoundedInduction, TLAPS

BagOK(b) ==
    /\ b \in [Slots -> [item : Items \cup {None}, n : 0 .. Cap]]
    /\ \A s \in Slots : (b[s].item = None) <=> (b[s].n = 0)
    /\ \A s, t \in Slots : b[s].item # None /\ b[s].item = b[t].item => s = t

(* A bag whatever its counts, and an item whose count is within the limit.  *)
Packed(b) ==
    /\ b \in [Slots -> [item : Items \cup {None}, n : 0 .. FieldSize - 1]]
    /\ \A s \in Slots : b[s].item = None => b[s].n = 0
    /\ \A s, t \in Slots : b[s].item # None /\ b[s].item = b[t].item => s = t
Within(b, i) == \A s \in Slots : b[s].item = i => b[s].n \in 1 .. Cap

(* One where a condition holds.                                             *)
One(c) == IF c THEN 1 ELSE 0

WornOK(w) ==
    /\ w \in [Members -> [Places -> Items \cup {None}]]
    /\ \A m \in Members, p \in Places : w[m][p] # None => Fits(m, p, w[m][p])

-----------------------------------------------------------------------------
(* Arithmetic.                                                              *)

LEMMA DivMod ==
    ASSUME NEW a \in Int, NEW b \in Nat \ {0}
    PROVE  /\ a \div b \in Int /\ a % b \in 0 .. b - 1
           /\ a = (a \div b) * b + (a % b)
BY SMTT(30)

(* What is left of a number is known by any way of taking it apart.         *)
LEMMA ModIs ==
    ASSUME NEW a \in Int, NEW b \in Nat \ {0}, NEW k \in Int, NEW r \in 0 .. b - 1,
           a = k * b + r
    PROVE  a % b = r
<1> DEFINE q == a \div b
           m == a % b
<1>1. q \in Int /\ m \in 0 .. b - 1 /\ a = q * b + m
    BY DivMod
<1> HIDE DEF q, m
<1>2. (q - k) * b = r - m
    BY <1>1
<1>3. q - k \in Int /\ b \in Nat /\ b >= 1
    BY <1>1
<1>4. q - k >= 1 => (q - k) * b >= b
    BY <1>3
<1>5. q - k <= -1 => (q - k) * b <= - b
    BY <1>3
<1>6. q - k = 0
    BY <1>1, <1>2, <1>3, <1>4, <1>5
<1>7. m = r
    BY <1>1, <1>2, <1>6
<1> QED
    BY <1>7 DEF m

LEMMA Mod ==
    ASSUME NEW b \in Nat \ {0}, NEW r \in 0 .. b - 1
    PROVE  r % b = r /\ (r + b) % b = r /\ (r - b) % b = r /\ (r + 2 * b) % b = r
<1>1. /\ r \in Int /\ r + b \in Int /\ r - b \in Int /\ r + 2 * b \in Int
      /\ 0 \in Int /\ 1 \in Int /\ -1 \in Int /\ 2 \in Int
    OBVIOUS
<1>2. /\ r = 0 * b + r /\ r + b = 1 * b + r
      /\ r - b = (-1) * b + r /\ r + 2 * b = 2 * b + r
    OBVIOUS
<1> QED
    BY <1>1, <1>2, ModIs

LEMMA Fields ==
    /\ FieldSize \in Nat \ {0} /\ Cap \in Nat \ {0} /\ StockCap \in Nat
    /\ Cap + 1 < FieldSize
    /\ Capacity \in Nat \ {0} /\ PlaceCount \in Nat \ {0} /\ StrongPlaces \in Places
    /\ None \notin Items
BY InventoryAssumption

LEMMA ShopFields ==
    /\ ByteSize \in Nat \ {0} /\ ByteSize = 2 * FieldSize
    /\ Leap \in Nat \ {0} /\ Cap + StockCap < FieldSize
BY InventoryAssumption, ShopAssumption

LEMMA PartyFits ==
    /\ Cardinality(Members) \in Nat /\ Cardinality(Members) < Cap
    /\ Cardinality(Members) + Leap + 1 < FieldSize
<1>1. IsFiniteSet(Members)
    BY InventoryAssumption
<1> QED
    BY <1>1, FS_CardinalityType, ShopAssumption

(* No more of an item is worn than there are members.                       *)
LEMMA WornCount ==
    ASSUME NEW w, NEW i
    PROVE  Worn(w, i) \in Nat /\ Worn(w, i) <= Cardinality(Members)
<1> DEFINE S == {m \in Members : Place[i] # 0 /\ w[m][Place[i]] = i}
<1>1. IsFiniteSet(Members) /\ S \subseteq Members
    BY InventoryAssumption
<1> HIDE DEF S
<1>2. IsFiniteSet(S) /\ Cardinality(S) <= Cardinality(Members)
    BY <1>1, FS_Subset
<1>3. Cardinality(S) \in Nat
    BY <1>2, FS_CardinalityType
<1> QED
    BY <1>2, <1>3 DEF S, Worn

-----------------------------------------------------------------------------
(* The bag.                                                                 *)

LEMMA FirstIn ==
    ASSUME NEW S, S \subseteq Slots, S # {}
    PROVE  FirstOf(S) \in S
<1> DEFINE Below == OpToRel(<, Nat)
<1>1. IsWellFoundedOn(Below, Nat)
    BY NatLessThanWellFounded
<1>2. S \subseteq Nat
    BY Fields DEF Slots
<1>3. PICK s \in S : \A t \in S : ~ (<<t, s>> \in Below)
    <2> HIDE DEF Below
    <2> QED
        BY <1>1, <1>2, WFMin
<1>4. \A t \in S : ~ (t < s)
    BY <1>2, <1>3 DEF OpToRel
<1>5. \A t \in S : s <= t
    BY <1>2, <1>4
<1> QED
    BY <1>5 DEF FirstOf

(* A bag is in order when all its counts are within the limit.              *)
LEMMA Whole ==
    ASSUME NEW b
    PROVE  BagOK(b) <=> Packed(b) /\ \A i \in Items : Within(b, i)
<1>1. ASSUME BagOK(b) PROVE Packed(b)
    <2>1. \A n \in 0 .. Cap : n \in 0 .. FieldSize - 1
        BY Fields
    <2> QED
        BY <1>1, <2>1 DEF BagOK, Packed
<1>2. ASSUME BagOK(b), NEW i \in Items, NEW s \in Slots, b[s].item = i PROVE b[s].n \in 1 .. Cap
    BY <1>2, Fields DEF BagOK
<1>3. ASSUME Packed(b), \A i \in Items : Within(b, i) PROVE BagOK(b)
    <2>1. ASSUME NEW s \in Slots
          PROVE  /\ b[s] \in [item : Items \cup {None}, n : 0 .. Cap]
                 /\ (b[s].item = None) <=> (b[s].n = 0)
        <3>1. b[s] \in [item : Items \cup {None}, n : 0 .. FieldSize - 1]
            BY <1>3 DEF Packed
        <3>2. b[s].item # None => b[s].n \in 1 .. Cap
            BY <1>3, <3>1 DEF Within
        <3>3. b[s].item = None => b[s].n = 0
            BY <1>3 DEF Packed
        <3> QED
            BY <3>1, <3>2, <3>3, Fields
    <2> QED
        BY <1>3, <2>1 DEF BagOK, Packed
<1> QED
    BY <1>1, <1>2, <1>3 DEF Within

LEMMA CountIn ==
    ASSUME NEW b, Packed(b), NEW i \in Items
    PROVE  /\ Count(b, i) \in 0 .. FieldSize - 1
           /\ Within(b, i) => Count(b, i) \in 0 .. Cap
           /\ Holding(b, i) # {} => /\ FirstOf(Holding(b, i)) \in Slots
                                    /\ b[FirstOf(Holding(b, i))].item = i
                                    /\ Count(b, i) = b[FirstOf(Holding(b, i))].n
                                    /\ Within(b, i) => Count(b, i) \in 1 .. Cap
           /\ Holding(b, i) = {} => Count(b, i) = 0
<1>1. CASE Holding(b, i) = {}
    BY <1>1, Fields DEF Count
<1>2. CASE Holding(b, i) # {}
    <2>1. FirstOf(Holding(b, i)) \in Holding(b, i)
        BY <1>2, FirstIn DEF Holding
    <2> QED
        BY <1>2, <2>1, Fields DEF Count, Holding, Packed, Within
<1> QED
    BY <1>1, <1>2

LEMMA CountType ==
    ASSUME NEW b, BagOK(b), NEW i \in Items
    PROVE  /\ Count(b, i) \in 0 .. Cap
           /\ Holding(b, i) # {} => /\ FirstOf(Holding(b, i)) \in Slots
                                    /\ b[FirstOf(Holding(b, i))].item = i
                                    /\ Count(b, i) = b[FirstOf(Holding(b, i))].n
                                    /\ Count(b, i) \in 1 .. Cap
           /\ Holding(b, i) = {} => Count(b, i) = 0
BY CountIn, Whole

(* The slot of an item says how many of it there are.                       *)
LEMMA SlotOf ==
    ASSUME NEW b, Packed(b), NEW i \in Items
    PROVE  /\ \A s \in Slots : b[s].item = i => Count(b, i) = b[s].n
           /\ (\A s \in Slots : b[s].item # i) => Count(b, i) = 0
<1>1. ASSUME NEW s \in Slots, b[s].item = i PROVE Count(b, i) = b[s].n
    <2>1. Holding(b, i) # {}
        BY <1>1 DEF Holding
    <2>2. /\ FirstOf(Holding(b, i)) \in Slots /\ b[FirstOf(Holding(b, i))].item = i
          /\ Count(b, i) = b[FirstOf(Holding(b, i))].n
        BY <2>1, CountIn
    <2>3. FirstOf(Holding(b, i)) = s
        BY <1>1, <2>2, Fields DEF Packed
    <2> QED
        BY <2>2, <2>3
<1>2. ASSUME \A s \in Slots : b[s].item # i PROVE Count(b, i) = 0
    <2>1. Holding(b, i) = {}
        BY <1>2 DEF Holding
    <2> QED
        BY <2>1, CountIn
<1> QED
    BY <1>1, <1>2

LEMMA CountAt ==
    ASSUME NEW b, BagOK(b), NEW i \in Items
    PROVE  /\ \A s \in Slots : b[s].item = i => Count(b, i) = b[s].n
           /\ (\A s \in Slots : b[s].item # i) => Count(b, i) = 0
BY SlotOf, Whole

(* A slot gets an item that no other slot holds, or becomes free: only the  *)
(* counts of that item and of what the slot held change.                    *)
IsPut(b, c, s, i, n) ==
    /\ Packed(c)
    /\ c[s].item = i /\ c[s].n = n /\ \A t \in Slots \ {s} : c[t] = b[t]
    /\ \A j \in Items :
        Count(c, j) = IF i = j THEN n ELSE IF b[s].item = j THEN 0 ELSE Count(b, j)
    /\ \A j \in Items : i # j /\ Within(b, j) => Within(c, j)
    /\ n \in 1 .. Cap => Within(c, i)
LEMMA Put ==
    ASSUME NEW b, Packed(b), NEW s \in Slots, NEW i \in Items \cup {None},
           NEW n \in 0 .. FieldSize - 1, i = None => n = 0,
           i # None => \A t \in Slots \ {s} : b[t].item # i,
           NEW c, c = [b EXCEPT ![s] = Slot(i, n)]
    PROVE  IsPut(b, c, s, i, n)
<1>1. c[s].item = i /\ c[s].n = n /\ \A t \in Slots \ {s} : c[t] = b[t]
    BY DEF Packed, Slot
<1>2. Packed(c)
    BY DEF Packed, Slot
<1>3. ASSUME NEW j \in Items
      PROVE  Count(c, j) = IF i = j THEN n ELSE IF b[s].item = j THEN 0 ELSE Count(b, j)
    <2>1. CASE i = j
        BY <1>1, <1>2, <2>1, SlotOf
    <2>2. CASE i # j /\ b[s].item = j
        <3>1. \A t \in Slots : c[t].item # j
            BY <1>1, <2>2, Fields DEF Packed
        <3> QED
            BY <1>2, <2>2, <3>1, SlotOf
    <2>3. CASE i # j /\ b[s].item # j
        <3>1. CASE \E t \in Slots : b[t].item = j
            <4>1. PICK t \in Slots : b[t].item = j
                BY <3>1
            <4>2. c[t] = b[t]
                BY <1>1, <2>3, <4>1
            <4>3. Count(c, j) = c[t].n /\ Count(b, j) = b[t].n
                BY <1>2, <4>1, <4>2, SlotOf
            <4> QED
                BY <2>3, <4>2, <4>3
        <3>2. CASE \A t \in Slots : b[t].item # j
            <4>1. \A t \in Slots : c[t].item # j
                BY <1>1, <2>3, <3>2
            <4>2. Count(c, j) = 0 /\ Count(b, j) = 0
                BY <1>2, <3>2, <4>1, SlotOf
            <4> QED
                BY <2>3, <4>2
        <3> QED
            BY <3>1, <3>2
    <2> QED
        BY <2>1, <2>2, <2>3
<1>4. \A j \in Items : i # j /\ Within(b, j) => Within(c, j)
    BY <1>1 DEF Within
<1>5. n \in 1 .. Cap /\ i # None => Within(c, i)
    BY <1>1 DEF Within
<1>6. i = None => ~ (n \in 1 .. Cap)
    BY Fields
<1> QED
    BY <1>1, <1>2, <1>3, <1>4, <1>5, <1>6 DEF IsPut

(* What is stored goes to the item's slot, or to the first free one; other  *)
(* items keep their counts, and all their slots.                            *)
LEMMA StoredIn ==
    ASSUME NEW b, Packed(b), NEW i \in Items, NEW q \in Nat,
           NEW c, c = Stored(b, i, q), NEW r, r = Raised(Count(b, i), q)
    PROVE  /\ Packed(c)
           /\ \A s \in Slots : b[s].item # None => c[s].item = b[s].item
           /\ \A j \in Items \ {i} : Count(c, j) = Count(b, j) /\ (Within(b, j) => Within(c, j))
           /\ Holding(b, i) # {} => Count(c, i) = r /\ (r \in 1 .. Cap => Within(c, i))
           /\ Holding(b, i) = {} /\ Free(b) # {} =>
                Count(c, i) = q % FieldSize /\ (q % FieldSize \in 1 .. Cap => Within(c, i))
           /\ Holding(b, i) = {} /\ Free(b) = {} => c = b
<1>1. CASE Holding(b, i) # {}
    <2> DEFINE f == FirstOf(Holding(b, i))
    <2>1. f \in Slots /\ b[f].item = i /\ Count(b, i) = b[f].n
        BY <1>1, CountIn
    <2>2. c = [b EXCEPT ![f] = Slot(i, r)]
        BY <1>1, <2>1 DEF Stored
    <2>3. r \in 0 .. FieldSize - 1
        <3>1. Count(b, i) + q \in Int
            BY CountIn, Fields
        <3>2. (Count(b, i) + q) % FieldSize \in 0 .. FieldSize - 1
            BY <3>1, DivMod, Fields
        <3> QED
            BY <3>2, Fields DEF Raised, Lesser
    <2>4. \A t \in Slots \ {f} : b[t].item # i
        BY <2>1, Fields DEF Packed
    <2> HIDE DEF f
    <2>5. i \in Items \cup {None} /\ i # None
        BY Fields
    <2>6. IsPut(b, c, f, i, r)
        BY <2>1, <2>2, <2>3, <2>4, <2>5, Put
    <2> QED
        BY <1>1, <2>1, <2>6 DEF IsPut
<1>2. CASE Holding(b, i) = {} /\ Free(b) # {}
    <2> DEFINE f == FirstOf(Free(b))
               n == q % FieldSize
    <2>1. f \in Free(b) /\ f \in Slots
        BY <1>2, FirstIn DEF Free
    <2>2. c = [b EXCEPT ![f] = Slot(i, n)]
        BY <1>2 DEF Stored
    <2>3. b[f].item = None /\ i # None
        BY <2>1, Fields DEF Free, Empty, Slot
    <2>4. n \in 0 .. FieldSize - 1
        BY DivMod, Fields
    <2>5. \A t \in Slots \ {f} : b[t].item # i
        BY <1>2 DEF Holding
    <2> HIDE DEF f, n
    <2>6. IsPut(b, c, f, i, n)
        BY <2>1, <2>2, <2>3, <2>4, <2>5, Put
    <2>7. \A s \in Slots : b[s].item # None => c[s].item = b[s].item
        BY <2>3, <2>6 DEF IsPut
    <2>8. \A j \in Items \ {i} : Count(c, j) = Count(b, j) /\ (Within(b, j) => Within(c, j))
        BY <2>3, <2>6, Fields DEF IsPut
    <2>9. Packed(c) /\ Count(c, i) = n /\ (n \in 1 .. Cap => Within(c, i))
        BY <2>6 DEF IsPut
    <2> QED
        BY <1>2, <2>7, <2>8, <2>9 DEF n
<1>3. CASE Holding(b, i) = {} /\ Free(b) = {}
    <2>1. c = b
        BY <1>3 DEF Stored
    <2> QED
        BY <1>3, <2>1
<1> QED
    BY <1>1, <1>2, <1>3

(* What is stored is there, if a slot takes it.                             *)
LEMMA StoredFits ==
    ASSUME NEW b, Packed(b), NEW i \in Items, NEW q \in Nat \ {0}, Count(b, i) + q <= Cap,
           Holding(b, i) # {} \/ Free(b) # {}, NEW c, c = Stored(b, i, q)
    PROVE  /\ Count(c, i) = Count(b, i) + q /\ Within(c, i)
           /\ Raised(Count(b, i), q) = Count(b, i) + q
<1> DEFINE n == Count(b, i)
           r == Raised(n, q)
<1>1. n \in 0 .. FieldSize - 1 /\ (Holding(b, i) = {} => n = 0)
    BY CountIn
<1>2. /\ Packed(b) /\ i \in Items /\ q \in Nat /\ q # 0 /\ n + q <= Cap /\ c = Stored(b, i, q)
      /\ Holding(b, i) # {} \/ Free(b) # {}
    OBVIOUS
<1> HIDE DEF n
<1>3. (n + q) % FieldSize = n + q /\ q % FieldSize = q
    <2>1. n + q \in 0 .. FieldSize - 1 /\ q \in 0 .. FieldSize - 1
        BY <1>1, <1>2, Fields
    <2> QED
        BY <2>1, Fields, Mod
<1>4. r = n + q /\ n + q \in 1 .. Cap
    BY <1>1, <1>2, <1>3, Fields DEF Raised, Lesser
<1>5. Holding(b, i) # {} => Count(c, i) = r /\ (r \in 1 .. Cap => Within(c, i))
    BY <1>2, StoredIn DEF n
<1>6. Holding(b, i) = {} /\ Free(b) # {} =>
            Count(c, i) = q % FieldSize /\ (q % FieldSize \in 1 .. Cap => Within(c, i))
    BY <1>2, StoredIn
<1>7. Count(c, i) = n + q /\ Within(c, i)
    <2>1. CASE Holding(b, i) # {}
        BY <1>4, <1>5, <2>1
    <2>2. CASE Holding(b, i) = {}
        <3>1. n = 0 /\ q \in 1 .. Cap
            BY <1>1, <1>2, <2>2
        <3> QED
            BY <1>2, <1>3, <1>6, <2>2, <3>1
    <2> QED
        BY <2>1, <2>2
<1> QED
    BY <1>4, <1>7 DEF n

LEMMA RoomFits ==
    ASSUME NEW b, Packed(b), NEW i \in Items, Within(b, i), Room(b, i)
    PROVE  Count(b, i) + 1 <= Cap /\ (Holding(b, i) # {} \/ Free(b) # {})
BY CountIn, Fields DEF Room

(* Taking off tops the item's slot up, or stores it.                        *)
LEMMA ToppedIn ==
    ASSUME NEW b, Packed(b), NEW i \in Items, NEW c, c = Topped(b, i)
    PROVE  /\ Packed(c)
           /\ \A s \in Slots : b[s].item # None => c[s].item = b[s].item
           /\ \A j \in Items \ {i} : Count(c, j) = Count(b, j) /\ (Within(b, j) => Within(c, j))
           /\ Within(b, i) /\ Room(b, i) => c = Stored(b, i, 1)
<1>1. CASE Holding(b, i) = {}
    <2>1. c = Stored(b, i, 1) /\ 1 \in Nat
        BY <1>1 DEF Topped
    <2> DEFINE r == Raised(Count(b, i), 1)
    <2>2. r = Raised(Count(b, i), 1)
        OBVIOUS
    <2> HIDE DEF r
    <2> QED
        BY <2>1, <2>2, StoredIn
<1>2. CASE Holding(b, i) # {}
    <2> DEFINE f == FirstOf(Holding(b, i))
               n == (Count(b, i) + 1) % FieldSize
    <2>1. f \in Slots /\ b[f].item = i /\ Count(b, i) = b[f].n /\ Count(b, i) \in Nat
        BY <1>2, CountIn
    <2>2. c = [b EXCEPT ![f] = Slot(i, n)]
        BY <1>2 DEF Topped
    <2>3. n \in 0 .. FieldSize - 1
        <3>1. Count(b, i) + 1 \in Int
            BY <2>1
        <3> QED
            BY <3>1, DivMod, Fields
    <2>4. \A t \in Slots \ {f} : b[t].item # i
        BY <2>1, Fields DEF Packed
    <2>5. Within(b, i) /\ Room(b, i) => c = Stored(b, i, 1)
        <3> SUFFICES ASSUME Within(b, i), Room(b, i) PROVE c = Stored(b, i, 1)
            OBVIOUS
        <3>1. Count(b, i) + 1 <= Cap /\ Count(b, i) + 1 \in 0 .. FieldSize - 1
            BY <2>1, RoomFits, Fields
        <3>2. n = Count(b, i) + 1
            BY <3>1, Mod, Fields
        <3>3. n = Raised(Count(b, i), 1)
            BY <2>1, <3>1, <3>2, Fields DEF Raised, Lesser
        <3>4. Stored(b, i, 1) = [b EXCEPT ![f] = Slot(i, Raised(Count(b, i), 1))]
            BY <1>2, <2>1 DEF Stored
        <3> QED
            BY <2>2, <3>3, <3>4
    <2> HIDE DEF f, n
    <2>6. i \in Items \cup {None} /\ i # None
        BY Fields
    <2>7. IsPut(b, c, f, i, n)
        BY <2>1, <2>2, <2>3, <2>4, <2>6, Put
    <2> QED
        BY <2>1, <2>5, <2>7 DEF IsPut
<1> QED
    BY <1>1, <1>2

(* Taking out of a slot leaves the others alone; no more than there is, and *)
(* it is gone.                                                              *)
LEMMA LoweredIn ==
    ASSUME NEW b, Packed(b), NEW s \in Slots, b[s].item # None, NEW q \in Nat,
           NEW c, c = Lowered(b, s, q), NEW i, i = b[s].item
    PROVE  /\ Packed(c) /\ \A t \in Slots \ {s} : c[t] = b[t]
           /\ \A j \in Items \ {i} : Count(c, j) = Count(b, j) /\ (Within(b, j) => Within(c, j))
           /\ Within(b, i) /\ q % FieldSize <= b[s].n =>
                Count(c, i) = Count(b, i) - (q % FieldSize) /\ Within(c, i)
<1> DEFINE n == b[s].n
           r == q % FieldSize
           m == (n - q) % FieldSize
           x == IF m = 0 THEN None ELSE i
<1>1. /\ i \in Items /\ i # None /\ n \in 0 .. FieldSize - 1 /\ r \in 0 .. FieldSize - 1
      /\ m \in 0 .. FieldSize - 1 /\ n - q \in Int
    <2>1. i \in Items /\ n \in 0 .. FieldSize - 1
        BY DEF Packed
    <2>2. n - q \in Int
        BY <2>1, Fields
    <2>3. q \in Int /\ FieldSize \in Nat \ {0}
        BY Fields
    <2>4. r \in 0 .. FieldSize - 1
        BY <2>3, DivMod
    <2> HIDE DEF n
    <2>5. m \in 0 .. FieldSize - 1
        BY <2>2, <2>3, DivMod
    <2> QED
        BY <2>1, <2>2, <2>4, <2>5, Fields
<1>2. c = [b EXCEPT ![s] = Slot(x, m)]
    BY DEF Lowered, Empty
<1>3. r <= n => m = n - r
    <2> SUFFICES ASSUME r <= n PROVE m = n - r
        OBVIOUS
    <2> DEFINE k == q \div FieldSize
    <2>1. k \in Int /\ q = k * FieldSize + r
        BY DivMod, Fields
    <2>2. n - r \in 0 .. FieldSize - 1
        BY <1>1, Fields
    <2> HIDE DEF n, r, k
    <2>3. n - q = (-k) * FieldSize + (n - r) /\ -k \in Int /\ FieldSize \in Nat \ {0}
        BY <1>1, <2>1, Fields
    <2> HIDE DEF m
    <2>4. (n - q) % FieldSize = n - r
        BY <1>1, <2>2, <2>3, ModIs
    <2> QED
        BY <2>4 DEF m
<1>4. \A t \in Slots \ {s} : b[t].item # i
    BY <1>1 DEF Packed
<1>5. x \in Items \cup {None} /\ (x = None => m = 0) /\ (x # None => x = i)
    BY <1>1
<1>6. /\ Packed(b) /\ s \in Slots /\ i = b[s].item
      /\ Within(b, i) => n \in 1 .. Cap
      /\ Count(b, i) = n
    BY <1>1, SlotOf DEF Within
<1> HIDE DEF n, r, m
<1>7. IsPut(b, c, s, x, m)
    <2> HIDE DEF x
    <2>1. x # None => \A t \in Slots \ {s} : b[t].item # x
        BY <1>4, <1>5
    <2> QED
        BY <1>1, <1>2, <1>5, <1>6, <2>1, Put
<1>8. ASSUME NEW j \in Items \ {i}
      PROVE  Count(c, j) = Count(b, j) /\ (Within(b, j) => Within(c, j))
    BY <1>1, <1>5, <1>6, <1>7, Fields DEF IsPut
<1>9. ASSUME Within(b, i), r <= n
      PROVE  Count(c, i) = n - r /\ Within(c, i)
    <2>1. m = n - r /\ n \in 1 .. Cap /\ m <= Cap
        BY <1>1, <1>3, <1>6, <1>9, Fields
    <2>2. CASE m = 0
        BY <1>1, <1>6, <1>7, <1>9, <2>1, <2>2 DEF IsPut
    <2>3. CASE m # 0
        <3>1. x = i /\ m \in 1 .. Cap
            BY <1>1, <2>1, <2>3
        <3> QED
            BY <1>1, <1>7, <2>1, <3>1 DEF IsPut
    <2> QED
        BY <2>2, <2>3
<1>10. Packed(c) /\ \A t \in Slots \ {s} : c[t] = b[t]
    BY <1>7 DEF IsPut
<1> QED
    BY <1>6, <1>8, <1>9, <1>10 DEF n, r

-----------------------------------------------------------------------------
(* The same of a bag whose counts are all within the limit.                 *)

LEMMA StoredCount ==
    ASSUME NEW b, BagOK(b), NEW i \in Items, NEW q \in Nat \ {0}, Count(b, i) + q <= Cap,
           Holding(b, i) # {} \/ Free(b) # {}
    PROVE  /\ BagOK(Stored(b, i, q))
           /\ \A j \in Items : Count(Stored(b, i, q), j) = Count(b, j) + (IF i = j THEN q ELSE 0)
<1> DEFINE c == Stored(b, i, q)
           r == Raised(Count(b, i), q)
<1>1. Packed(b) /\ \A j \in Items : Within(b, j)
    BY Whole
<1>2. c = Stored(b, i, q) /\ r = Raised(Count(b, i), q) /\ q \in Nat
    OBVIOUS
<1> HIDE DEF c, r
<1>3. /\ Packed(c)
      /\ \A j \in Items \ {i} : Count(c, j) = Count(b, j) /\ (Within(b, j) => Within(c, j))
    BY <1>1, <1>2, StoredIn
<1>4. Count(c, i) = Count(b, i) + q /\ Within(c, i)
    BY <1>1, <1>2, StoredFits
<1>5. BagOK(c)
    BY <1>1, <1>3, <1>4, Whole
<1>6. \A j \in Items : Count(b, j) \in Nat
    BY CountType
<1>7. \A j \in Items : Count(c, j) = Count(b, j) + (IF i = j THEN q ELSE 0)
    BY <1>3, <1>4, <1>6
<1> QED
    BY <1>2, <1>5, <1>7

(* One more, where there is room for it.                                    *)
LEMMA StoredOneCount ==
    ASSUME NEW b, BagOK(b), NEW i \in Items, Room(b, i)
    PROVE  /\ BagOK(Stored(b, i, 1))
           /\ \A j \in Items : Count(Stored(b, i, 1), j) = Count(b, j) + One(i = j)
<1>1. Count(b, i) + 1 <= Cap /\ (Holding(b, i) # {} \/ Free(b) # {})
    BY RoomFits, Whole
<1>2. 1 \in Nat \ {0}
    OBVIOUS
<1> QED
    BY <1>1, <1>2, StoredCount DEF One

(* At the limit one more leaves it there.                                   *)
LEMMA StoredOne ==
    ASSUME NEW b, BagOK(b), NEW i \in Items
    PROVE  /\ BagOK(Stored(b, i, 1))
           /\ \A s \in Slots : b[s].item # None => Stored(b, i, 1)[s].item = b[s].item
<1> DEFINE c == Stored(b, i, 1)
           r == Raised(Count(b, i), 1)
<1>1. Packed(b) /\ \A j \in Items : Within(b, j)
    BY Whole
<1>2. c = Stored(b, i, 1) /\ r = Raised(Count(b, i), 1) /\ 1 \in Nat
    OBVIOUS
<1>3. r \in 1 .. Cap
    <2>1. Count(b, i) + 1 \in 0 .. FieldSize - 1 /\ Count(b, i) \in 0 .. Cap
        BY CountType, Fields
    <2>2. (Count(b, i) + 1) % FieldSize = Count(b, i) + 1
        BY <2>1, Fields, Mod
    <2> QED
        BY <2>1, <2>2, Fields DEF Raised, Lesser
<1>4. 1 % FieldSize \in 1 .. Cap
    <2>1. 1 \in 0 .. FieldSize - 1
        BY Fields
    <2>2. 1 % FieldSize = 1
        BY <2>1, Fields, Mod
    <2> QED
        BY <2>2, Fields
<1> HIDE DEF c, r
<1>5. /\ Packed(c) /\ \A s \in Slots : b[s].item # None => c[s].item = b[s].item
      /\ \A j \in Items \ {i} : Within(b, j) => Within(c, j)
      /\ Holding(b, i) # {} => Within(c, i)
      /\ Holding(b, i) = {} /\ Free(b) # {} => Within(c, i)
      /\ Holding(b, i) = {} /\ Free(b) = {} => c = b
    BY <1>1, <1>2, <1>3, <1>4, StoredIn
<1>6. BagOK(c)
    BY <1>1, <1>5, Whole
<1> QED
    BY <1>2, <1>5, <1>6

(* Taking no more than there is.                                            *)
LEMMA LoweredCount ==
    ASSUME NEW b, BagOK(b), NEW s \in Slots, b[s].item # None, NEW q \in 1 .. b[s].n
    PROVE  /\ BagOK(Lowered(b, s, q)) /\ \A t \in Slots \ {s} : Lowered(b, s, q)[t] = b[t]
           /\ \A j \in Items :
                Count(Lowered(b, s, q), j) = Count(b, j) - (IF b[s].item = j THEN q ELSE 0)
<1> DEFINE c == Lowered(b, s, q)
           i == b[s].item
<1>1. Packed(b) /\ \A j \in Items : Within(b, j)
    BY Whole
<1>2. i \in Items /\ b[s].n \in 1 .. Cap
    BY Fields DEF BagOK
<1>3. c = Lowered(b, s, q) /\ i = b[s].item /\ q \in Nat /\ q # 0 /\ q <= b[s].n
    BY <1>2
<1>4. q % FieldSize = q
    <2>1. q \in 0 .. FieldSize - 1
        BY <1>2, Fields
    <2> QED
        BY <2>1, Fields, Mod
<1> HIDE DEF c, i
<1>5. /\ Packed(c) /\ \A t \in Slots \ {s} : c[t] = b[t]
      /\ \A j \in Items \ {i} : Count(c, j) = Count(b, j) /\ (Within(b, j) => Within(c, j))
      /\ Within(b, i) /\ q % FieldSize <= b[s].n =>
            Count(c, i) = Count(b, i) - (q % FieldSize) /\ Within(c, i)
    BY <1>1, <1>3, LoweredIn
<1>6. Count(c, i) = Count(b, i) - q /\ Within(c, i)
    BY <1>1, <1>2, <1>3, <1>4, <1>5
<1>7. BagOK(c)
    BY <1>1, <1>5, <1>6, Whole
<1>8. \A j \in Items : Count(b, j) \in Nat
    BY CountType
<1>9. \A j \in Items : Count(c, j) = Count(b, j) - (IF i = j THEN q ELSE 0)
    BY <1>3, <1>5, <1>6, <1>8
<1> QED
    BY <1>3, <1>5, <1>7, <1>9

(* A slot that is not free holds an item.                                   *)
LEMMA NotFree ==
    ASSUME NEW b, Packed(b), NEW s \in Slots, b[s] # Empty
    PROVE  b[s].item \in Items /\ b[s].item # None /\ b[s].n \in 0 .. FieldSize - 1
<1>1. b[s] \in [item : Items \cup {None}, n : 0 .. FieldSize - 1]
    BY DEF Packed
<1>2. b[s].item # None
    <2>1. SUFFICES ASSUME b[s].item = None PROVE b[s] = Empty
        BY DEF Empty
    <2>2. b[s].n = 0
        BY <2>1 DEF Packed
    <2> QED
        BY <1>1, <2>1, <2>2 DEF Empty, Slot
<1>3. b[s].item \in Items \cup {None} /\ b[s].n \in 0 .. FieldSize - 1
    BY <1>1
<1> QED
    BY <1>2, <1>3

LEMMA Occupied ==
    ASSUME NEW b, BagOK(b), NEW s \in Slots, b[s] # Empty
    PROVE  b[s].item \in Items /\ b[s].n \in 1 .. Cap /\ 1 \in 1 .. b[s].n
<1>1. Packed(b)
    BY Whole
<1>2. b[s].item \in Items /\ b[s].item # None
    BY <1>1, NotFree
<1> QED
    BY <1>2, Fields DEF BagOK

-----------------------------------------------------------------------------
(* One more and one less of an item.                                        *)

(* Counts within the limit stay there.                                      *)
Keeps(b, c) == \A j \in Items : Within(b, j) => Within(c, j)

OneMore(b, c, i) ==
    /\ Packed(c) /\ Keeps(b, c)
    /\ \A s \in Slots : b[s].item # None => c[s].item = b[s].item
    /\ \A j \in Items : Within(b, j) => Count(c, j) = Count(b, j) + One(i = j)

LEMMA StoredMore ==
    ASSUME NEW b, Packed(b), NEW i \in Items, Room(b, i), NEW c, c = Stored(b, i, 1)
    PROVE  OneMore(b, c, i)
<1> DEFINE r == Raised(Count(b, i), 1)
<1>1. r = Raised(Count(b, i), 1) /\ 1 \in Nat /\ 1 \in Nat \ {0}
    OBVIOUS
<1> HIDE DEF r
<1>2. /\ Packed(c)
      /\ \A s \in Slots : b[s].item # None => c[s].item = b[s].item
      /\ \A j \in Items \ {i} : Count(c, j) = Count(b, j) /\ (Within(b, j) => Within(c, j))
    BY <1>1, StoredIn
<1>3. Within(b, i) => Count(c, i) = Count(b, i) + 1 /\ Within(c, i)
    <2> SUFFICES ASSUME Within(b, i) PROVE Count(c, i) = Count(b, i) + 1 /\ Within(c, i)
        OBVIOUS
    <2>1. Count(b, i) + 1 <= Cap /\ (Holding(b, i) # {} \/ Free(b) # {})
        BY RoomFits
    <2> QED
        BY <1>1, <2>1, StoredFits
<1>4. \A j \in Items : Count(b, j) \in Nat
    BY CountIn
<1> QED
    BY <1>2, <1>3, <1>4 DEF OneMore, One, Keeps

LEMMA ToppedMore ==
    ASSUME NEW b, Packed(b), NEW i \in Items, Room(b, i), NEW c, c = Topped(b, i)
    PROVE  OneMore(b, c, i)
<1>1. /\ Packed(c)
      /\ \A s \in Slots : b[s].item # None => c[s].item = b[s].item
      /\ \A j \in Items \ {i} : Count(c, j) = Count(b, j) /\ (Within(b, j) => Within(c, j))
      /\ Within(b, i) /\ Room(b, i) => c = Stored(b, i, 1)
    BY ToppedIn
<1>2. CASE Within(b, i)
    BY <1>1, <1>2, StoredMore
<1>3. CASE ~ Within(b, i)
    <2>1. \A j \in Items : Count(b, j) \in Nat
        BY CountIn
    <2> QED
        BY <1>1, <1>3, <2>1 DEF OneMore, One, Keeps
<1> QED
    BY <1>2, <1>3

OneLess(b, c, s, i) ==
    /\ Packed(c) /\ Keeps(b, c)
    /\ \A t \in Slots \ {s} : c[t] = b[t]
    /\ \A j \in Items : Within(b, j) => Count(c, j) = Count(b, j) - One(i = j)

LEMMA LoweredLess ==
    ASSUME NEW b, Packed(b), NEW s \in Slots, b[s].item # None,
           NEW i, i = b[s].item, NEW c, c = Lowered(b, s, 1)
    PROVE  OneLess(b, c, s, i)
<1>1. 1 \in Nat /\ 1 % FieldSize = 1
    <2>1. 1 \in 0 .. FieldSize - 1
        BY Fields
    <2> QED
        BY <2>1, Fields, Mod
<1>2. /\ Packed(c) /\ \A t \in Slots \ {s} : c[t] = b[t]
      /\ \A j \in Items \ {i} : Count(c, j) = Count(b, j) /\ (Within(b, j) => Within(c, j))
      /\ Within(b, i) /\ 1 % FieldSize <= b[s].n =>
            Count(c, i) = Count(b, i) - (1 % FieldSize) /\ Within(c, i)
    BY <1>1, LoweredIn
<1>3. Within(b, i) => 1 <= b[s].n
    BY Fields DEF Within
<1>4. \A j \in Items : Count(b, j) \in Nat
    BY CountIn
<1> QED
    BY <1>1, <1>2, <1>3, <1>4 DEF OneLess, One, Keeps

(* Bags with the same slots in another order.                               *)
LEMMA CountSame ==
    ASSUME NEW b, Packed(b), NEW c, Packed(c),
           \A s \in Slots : \E t \in Slots : c[s] = b[t],
           \A t \in Slots : \E s \in Slots : c[s] = b[t]
    PROVE  Keeps(b, c) /\ \A i \in Items : Count(c, i) = Count(b, i)
<1>1. ASSUME NEW i \in Items PROVE Count(c, i) = Count(b, i)
    <2>1. CASE \E t \in Slots : b[t].item = i
        <3>1. PICK t \in Slots : b[t].item = i
            BY <2>1
        <3>2. PICK s \in Slots : c[s] = b[t]
            OBVIOUS
        <3> QED
            BY <3>1, <3>2, SlotOf
    <2>2. CASE \A t \in Slots : b[t].item # i
        <3>1. \A s \in Slots : c[s].item # i
            BY <2>2
        <3> QED
            BY <2>2, <3>1, SlotOf
    <2> QED
        BY <2>1, <2>2
<1>2. Keeps(b, c)
    BY DEF Keeps, Within
<1> QED
    BY <1>1, <1>2

-----------------------------------------------------------------------------
(* What members wear.                                                       *)

LEMMA WornSet ==
    ASSUME NEW w, WornOK(w), NEW m \in Members, NEW p \in Places, NEW i \in Items \cup {None},
           i # None => Fits(m, p, i)
    PROVE  /\ WornOK([w EXCEPT ![m][p] = i])
           /\ \A q \in Places \ {p} : [w EXCEPT ![m][p] = i][m][q] = w[m][q]
BY DEF WornOK

(* A member puts something on, or nothing, in the place of what was there.  *)
LEMMA WornPut ==
    ASSUME NEW w, WornOK(w), NEW m \in Members, NEW p \in Places, NEW x \in Items \cup {None},
           x # None => Fits(m, p, x), NEW v, v[m][p] = x,
           \A q \in Places \ {p} : v[m][q] = w[m][q],
           \A n \in Members \ {m} : v[n] = w[n], NEW i \in Items
    PROVE  Worn(v, i) = Worn(w, i) + One(x = i) - One(w[m][p] = i)
<1> DEFINE S == {n \in Members : Place[i] # 0 /\ w[n][Place[i]] = i}
           T == {n \in Members : Place[i] # 0 /\ v[n][Place[i]] = i}
<1>1. IsFiniteSet(S) /\ Cardinality(S) \in Nat
    <2>1. S \subseteq Members /\ IsFiniteSet(Members)
        BY InventoryAssumption
    <2> HIDE DEF S
    <2> QED
        BY <2>1, FS_Subset, FS_CardinalityType
<1>2. /\ v[m][p] = x /\ \A q \in Places \ {p} : v[m][q] = w[m][q]
      /\ \A n \in Members \ {m} : v[n] = w[n]
    OBVIOUS
<1>3. Place[i] \in 0 .. PlaceCount /\ (Place[i] # 0 => Place[i] \in Places)
    BY InventoryAssumption, Fields DEF Places
<1>4. (x = i => Place[i] = p) /\ (w[m][p] = i => Place[i] = p) /\ p # 0
    BY Fields DEF WornOK, Fits, Places
<1>9. Worn(w, i) = Cardinality(S) /\ Worn(v, i) = Cardinality(T)
    BY DEF Worn
<1>5. CASE x = i /\ w[m][p] # i
    <2>1. T = S \cup {m} /\ m \notin S
        BY <1>2, <1>3, <1>4, <1>5
    <2> HIDE DEF S, T
    <2>2. Cardinality(T) = Cardinality(S) + 1
        BY <1>1, <2>1, FS_AddElement
    <2> QED
        BY <1>1, <1>5, <2>2, <1>9 DEF One
<1>6. CASE x # i /\ w[m][p] = i
    <2>1. T = S \ {m} /\ m \in S
        BY <1>2, <1>3, <1>4, <1>6
    <2> HIDE DEF S, T
    <2>2. Cardinality(T) = Cardinality(S) - 1
        BY <1>1, <2>1, FS_RemoveElement
    <2> QED
        BY <1>1, <1>6, <2>2, <1>9 DEF One
<1>7. CASE x = i /\ w[m][p] = i
    <2>1. T = S
        BY <1>2, <1>3, <1>4, <1>7
    <2> HIDE DEF S, T
    <2> QED
        BY <1>1, <1>7, <2>1, <1>9 DEF One
<1>8. CASE x # i /\ w[m][p] # i
    <2>1. T = S
        BY <1>2, <1>3, <1>4, <1>8
    <2> HIDE DEF S, T
    <2> QED
        BY <1>1, <1>8, <2>1, <1>9 DEF One
<1> QED
    BY <1>5, <1>6, <1>7, <1>8

(* The same of the step that wears it.                                      *)
LEMMA WearCount ==
    ASSUME WornOK(worn), NEW m \in Members, NEW p \in Places, NEW x \in Items \cup {None},
           x # None => Fits(m, p, x), Wear(m, p, x), NEW i \in Items
    PROVE  Worn(worn', i) = Worn(worn, i) + One(x = i) - One(worn[m][p] = i)
<1> DEFINE w == worn
           v == worn'
<1>1. /\ v[m][p] = x /\ \A q \in Places \ {p} : v[m][q] = w[m][q]
      /\ \A n \in Members \ {m} : v[n] = w[n]
    BY DEF WornOK, Wear
<1>2. WornOK(w)
    OBVIOUS
<1> HIDE DEF v, w
<1>3. Worn(v, i) = Worn(w, i) + One(x = i) - One(w[m][p] = i)
    BY <1>1, <1>2, WornPut
<1> QED
    BY <1>3 DEF v, w

-----------------------------------------------------------------------------
(* Taking off and putting on.                                               *)

(* What is in the bag and on the members stays the same together, of every  *)
(* item whose count is within the limit.                                    *)
Same(b, w, c, v) ==
    /\ Keeps(b, c)
    /\ \A i \in Items : Within(b, i) => Count(c, i) + Worn(v, i) = Count(b, i) + Worn(w, i)

(* An item taken off goes to the bag.                                       *)
LEMMA TakeOffIn ==
    ASSUME Packed(bag), WornOK(worn), NEW m \in Members, NEW p \in Places, NEW f,
           CanTakeOff(m, p, f), TakeOff(m, p)
    PROVE  Packed(bag') /\ WornOK(worn') /\ Same(bag, worn, bag', worn')
<1> DEFINE x == worn[m][p]
           b == bag
           c == bag'
<1>1. /\ Packed(b) /\ x \in Items /\ Room(b, x) /\ c = Topped(b, x) /\ Wear(m, p, None)
    BY DEF WornOK, CanTakeOff, TakeOff
<1>2. WornOK(worn')
    BY WornSet DEF TakeOff, Wear
<1>3. \A i \in Items : Worn(worn', i) = Worn(worn, i) + One(None = i) - One(x = i)
    BY <1>1, WearCount
<1>4. \A i \in Items : Worn(worn, i) \in Nat /\ None # i
    BY WornCount, Fields
<1> HIDE DEF x, b, c
<1>5. OneMore(b, c, x)
    BY <1>1, ToppedMore
<1>6. \A i \in Items : Count(b, i) \in Nat
    BY <1>1, CountIn
<1>7. ASSUME NEW i \in Items, Within(b, i)
      PROVE  Count(c, i) + Worn(worn', i) = Count(b, i) + Worn(worn, i)
    <2>1. Count(c, i) = Count(b, i) + One(x = i)
        BY <1>5, <1>7 DEF OneMore
    <2> QED
        BY <1>3, <1>4, <1>6, <2>1 DEF One
<1>8. Packed(c) /\ Keeps(b, c)
    BY <1>5 DEF OneMore
<1> QED
    BY <1>2, <1>7, <1>8 DEF Same, b, c

(* An item put on leaves the bag, and what was worn goes there; what stays  *)
(* keeps its slot.                                                          *)
LEMMA PutOnIn ==
    ASSUME Packed(bag), WornOK(worn), NEW m \in Members, NEW p \in Places, NEW s \in Slots,
           NEW f, Wearable(m, p, s), CanPutOn(m, p, s, f), PutOn(m, p, s, f)
    PROVE  /\ Packed(bag') /\ WornOK(worn') /\ Same(bag, worn, bag', worn')
           /\ \A t \in Slots \ {s} : bag[t].item # None => bag'[t].item = bag[t].item
           /\ \A q \in Places \ {p} : worn'[m][q] = worn[m][q]
<1> DEFINE x == worn[m][p]
           y == bag[s].item
           b == bag
           c == bag'
<1>1. /\ y \in Items /\ y # None /\ Fits(m, p, y) /\ Wear(m, p, y) /\ x \in Items \cup {None}
      /\ Packed(b) /\ y = b[s].item /\ b[s].n \in 0 .. FieldSize - 1
    <2>1. y \in Items /\ y # None /\ bag[s].n \in 0 .. FieldSize - 1
        BY NotFree DEF Wearable
    <2> QED
        BY <2>1 DEF Wearable, PutOn, WornOK
<1>2. WornOK(worn') /\ \A q \in Places \ {p} : worn'[m][q] = worn[m][q]
    <2>1. worn' = [worn EXCEPT ![m][p] = y]
        BY DEF PutOn, Wear
    <2>2. /\ WornOK([worn EXCEPT ![m][p] = y])
          /\ \A q \in Places \ {p} : [worn EXCEPT ![m][p] = y][m][q] = worn[m][q]
        BY <1>1, WornSet
    <2> QED
        BY <2>1, <2>2
<1>3. \A i \in Items : Worn(worn', i) = Worn(worn, i) + One(y = i) - One(x = i)
    BY <1>1, WearCount
<1>4. \A i \in Items : Worn(worn, i) \in Nat /\ None # i /\ Count(b, i) \in Nat
    BY <1>1, WornCount, CountIn, Fields
<1>5. CASE Trades(m, p, s, f)
    <2>1. /\ x \in Items /\ b[s].n = 1 /\ c = [b EXCEPT ![s] = Slot(x, 1)]
          /\ \A t \in Slots : b[t].item # x
        BY <1>1, <1>5 DEF Trades, PutOn, Holding
    <2>2. 1 \in 0 .. FieldSize - 1 /\ 1 \in 1 .. Cap /\ x # None
        BY <2>1, Fields
    <2> HIDE DEF x, y, b, c
    <2>3. IsPut(b, c, s, x, 1)
        BY <1>1, <2>1, <2>2, Put
    <2>4. /\ Packed(c) /\ Within(c, x) /\ \A t \in Slots \ {s} : c[t] = b[t]
          /\ \A i \in Items : x # i /\ Within(b, i) => Within(c, i)
          /\ \A i \in Items : Count(c, i) = IF x = i THEN 1 ELSE IF y = i THEN 0 ELSE Count(b, i)
        BY <1>1, <2>2, <2>3 DEF IsPut
    <2>5. Count(b, y) = 1 /\ Count(b, x) = 0 /\ x # y
        BY <1>1, <2>1, SlotOf
    <2>6. ASSUME NEW i \in Items
          PROVE  Count(c, i) + Worn(worn', i) = Count(b, i) + Worn(worn, i)
        <3>1. /\ Count(c, i) = IF x = i THEN 1 ELSE IF y = i THEN 0 ELSE Count(b, i)
              /\ Worn(worn', i) = Worn(worn, i) + One(y = i) - One(x = i)
              /\ Worn(worn, i) \in Nat /\ Count(b, i) \in Nat
            BY <1>3, <1>4, <2>4
        <3>2. CASE x = i
            BY <2>5, <3>1, <3>2 DEF One
        <3>3. CASE y = i
            BY <2>5, <3>1, <3>3 DEF One
        <3>4. CASE x # i /\ y # i
            BY <3>1, <3>4 DEF One
        <3> QED
            BY <3>2, <3>3, <3>4
    <2>7. Same(b, worn, c, worn')
        BY <2>4, <2>6 DEF Same, Keeps
    <2> QED
        BY <1>2, <2>4, <2>7 DEF b, c
<1>6. CASE ~ Trades(m, p, s, f) /\ x = None
    <2>1. c = Lowered(b, s, 1)
        BY <1>6 DEF PutOn
    <2> HIDE DEF x, y, b, c
    <2>2. OneLess(b, c, s, y)
        BY <1>1, <2>1, LoweredLess
    <2>3. \A i \in Items : Within(b, i) =>
                Count(c, i) + Worn(worn', i) = Count(b, i) + Worn(worn, i)
        BY <1>3, <1>4, <1>6, <2>2 DEF One, OneLess
    <2>4. Packed(c) /\ Same(b, worn, c, worn') /\ \A t \in Slots \ {s} : c[t] = b[t]
        BY <2>2, <2>3 DEF Same, OneLess
    <2> QED
        BY <1>2, <2>4 DEF b, c
<1>7. CASE ~ Trades(m, p, s, f) /\ x # None
    <2> DEFINE d == Stored(b, x, 1)
    <2>1. x \in Items /\ Room(b, x) /\ c = Lowered(d, s, 1) /\ d = Stored(b, x, 1)
        BY <1>1, <1>7 DEF PutOn, CanPutOn
    <2> HIDE DEF x, y, b, c, d
    <2>2. OneMore(b, d, x)
        BY <1>1, <2>1, StoredMore
    <2>3. /\ Packed(d) /\ d[s].item = y
          /\ \A t \in Slots : b[t].item # None => d[t].item = b[t].item
        BY <1>1, <2>2 DEF OneMore
    <2>4. OneLess(d, c, s, y)
        BY <1>1, <2>1, <2>3, LoweredLess
    <2>5. Packed(c) /\ Keeps(b, c) /\ \A t \in Slots \ {s} : c[t] = d[t]
        BY <2>2, <2>4 DEF OneMore, OneLess, Keeps
    <2>6. ASSUME NEW i \in Items, Within(b, i)
          PROVE  Count(c, i) + Worn(worn', i) = Count(b, i) + Worn(worn, i)
        <3>1. Count(d, i) = Count(b, i) + One(x = i) /\ Within(d, i)
            BY <2>2, <2>6 DEF OneMore, Keeps
        <3>2. Count(c, i) = Count(d, i) - One(y = i)
            BY <2>4, <3>1 DEF OneLess
        <3> QED
            BY <1>3, <1>4, <3>1, <3>2 DEF One
    <2>7. Same(b, worn, c, worn')
        BY <2>5, <2>6 DEF Same
    <2>8. \A t \in Slots \ {s} : b[t].item # None => c[t].item = b[t].item
        BY <2>3, <2>5
    <2> QED
        BY <1>2, <2>5, <2>7, <2>8 DEF b, c
<1> QED
    BY <1>5, <1>6, <1>7

(* The same of a bag whose counts are all within the limit.                 *)
LEMMA TakeOffOK ==
    ASSUME BagOK(bag), WornOK(worn), NEW m \in Members, NEW p \in Places, NEW f,
           CanTakeOff(m, p, f), TakeOff(m, p)
    PROVE  BagOK(bag') /\ WornOK(worn')
<1>1. Packed(bag) /\ \A i \in Items : Within(bag, i)
    BY Whole
<1>2. Packed(bag') /\ WornOK(worn') /\ \A i \in Items : Within(bag', i)
    BY <1>1, TakeOffIn DEF Same, Keeps
<1> QED
    BY <1>2, Whole

LEMMA TakeOffMoves ==
    ASSUME BagOK(bag), WornOK(worn), NEW m \in Members, NEW p \in Places, NEW f,
           CanTakeOff(m, p, f), TakeOff(m, p), NEW i \in Items
    PROVE  Count(bag', i) + Worn(worn', i) = Count(bag, i) + Worn(worn, i)
<1>1. Packed(bag) /\ Within(bag, i)
    BY Whole
<1> QED
    BY <1>1, TakeOffIn DEF Same

LEMMA PutOnOK ==
    ASSUME BagOK(bag), WornOK(worn), NEW m \in Members, NEW p \in Places, NEW s \in Slots,
           NEW f, Wearable(m, p, s), CanPutOn(m, p, s, f), PutOn(m, p, s, f)
    PROVE  BagOK(bag') /\ WornOK(worn')
<1>1. Packed(bag) /\ \A i \in Items : Within(bag, i)
    BY Whole
<1>2. Packed(bag') /\ WornOK(worn') /\ \A i \in Items : Within(bag', i)
    BY <1>1, PutOnIn DEF Same, Keeps
<1> QED
    BY <1>2, Whole

LEMMA PutOnMoves ==
    ASSUME BagOK(bag), WornOK(worn), NEW m \in Members, NEW p \in Places, NEW s \in Slots,
           NEW f, Wearable(m, p, s), CanPutOn(m, p, s, f), PutOn(m, p, s, f), NEW i \in Items
    PROVE  Count(bag', i) + Worn(worn', i) = Count(bag, i) + Worn(worn, i)
<1>1. Packed(bag) /\ Within(bag, i)
    BY Whole
<1> QED
    BY <1>1, PutOnIn DEF Same

-----------------------------------------------------------------------------
(* What each operation of the menus does to the bag.                        *)

LEMMA ReceiveBag ==
    ASSUME Packed(bag), NEW i \in Items, NEW n \in Gifts, Receive(i, n)
    PROVE  Packed(bag') /\ Keeps(bag, bag')
<1> DEFINE b == bag
           c == bag'
<1>1. /\ n \in 1 .. Cap /\ i \in Items \cup {None} /\ i # None /\ Packed(b)
      /\ \A k \in 1 .. Cap : k \in 0 .. FieldSize - 1
    BY ShopAssumption, Fields
<1>2. CASE Holding(bag, i) # {}
    <2> DEFINE f == FirstOf(Holding(bag, i))
               k == Lesser(Cap, bag[f].n + n)
    <2>1. f \in Slots /\ b[f].item = i /\ b[f].n \in Nat
        <3>1. f \in Slots /\ b[f].item = i
            BY <1>2, CountIn
        <3> QED
            BY <3>1, Fields DEF Packed
    <2>2. k \in 1 .. Cap
        BY <1>1, <2>1, Fields DEF Lesser
    <2>3. c = [b EXCEPT ![f] = Slot(i, k)]
        BY <1>2 DEF Receive
    <2>4. \A t \in Slots \ {f} : b[t].item # i
        BY <1>1, <2>1 DEF Packed
    <2> HIDE DEF f, k, b, c
    <2>5. IsPut(b, c, f, i, k)
        BY <1>1, <2>1, <2>2, <2>3, <2>4, Put
    <2> QED
        BY <2>2, <2>5 DEF IsPut, Keeps, b, c
<1>3. CASE Holding(bag, i) = {} /\ Free(bag) # {}
    <2> DEFINE f == FirstOf(Free(bag))
    <2>1. f \in Slots
        BY <1>3, FirstIn DEF Free
    <2>2. c = [b EXCEPT ![f] = Slot(i, n)]
        BY <1>3 DEF Receive
    <2>3. \A t \in Slots \ {f} : b[t].item # i
        BY <1>3 DEF Holding
    <2> HIDE DEF f, b, c
    <2>4. IsPut(b, c, f, i, n)
        BY <1>1, <2>1, <2>2, <2>3, Put
    <2> QED
        BY <1>1, <2>4 DEF IsPut, Keeps, b, c
<1>4. CASE Holding(bag, i) = {} /\ Free(bag) = {}
    BY <1>4 DEF Receive, Keeps
<1> QED
    BY <1>2, <1>3, <1>4

LEMMA FoundBag ==
    ASSUME Packed(bag), pending \in Items \cup {None},
           (\E i \in Items : FindItem(i)) \/ ClosePending \/ UsePending
    PROVE  Packed(bag') /\ Keeps(bag, bag')
<1> DEFINE b == bag
           c == bag'
<1>1. c = b \/ \E i \in Items : Room(b, i) /\ c = Stored(b, i, 1)
    BY DEF FindItem, ClosePending, UsePending
<1>2. Packed(b)
    OBVIOUS
<1> HIDE DEF b, c
<1>3. \A i \in Items : Room(b, i) /\ c = Stored(b, i, 1) => OneMore(b, c, i)
    BY <1>2, StoredMore
<1>4. Packed(c) /\ Keeps(b, c)
    BY <1>1, <1>2, <1>3 DEF OneMore, Keeps
<1> QED
    BY <1>4 DEF b, c

LEMMA LoseBag ==
    ASSUME Packed(bag), NEW s \in Slots, Consume(s) \/ Feed(s) \/ Discard(s)
    PROVE  /\ Packed(bag') /\ Keeps(bag, bag')
           /\ bag[s].item \in Items /\ bag[s].n \in Nat
<1> DEFINE b == bag
           c == bag'
           i == bag[s].item
<1>1. b[s] # Empty /\ Packed(b)
    BY DEF Consume, Feed, Discard, Empty, Slot
<1>2. c = Lowered(b, s, 1) \/ c = [b EXCEPT ![s] = Slot(None, 0)]
    BY DEF Consume, Feed, Discard, Lose, Empty
<1>3. i = b[s].item /\ i \in Items /\ i # None /\ b[s].n \in 0 .. FieldSize - 1
    BY <1>1, NotFree
<1> HIDE DEF b, c, i
<1>4. CASE c = Lowered(b, s, 1)
    <2>1. OneLess(b, c, s, i)
        BY <1>1, <1>3, <1>4, LoweredLess
    <2> QED
        BY <1>3, <2>1, Fields DEF OneLess, b, c, i
<1>5. CASE c = [b EXCEPT ![s] = Slot(None, 0)]
    <2>1. 0 \in 0 .. FieldSize - 1 /\ None \in Items \cup {None} /\ None \notin Items
        BY Fields
    <2>2. IsPut(b, c, s, None, 0)
        BY <1>1, <1>5, <2>1, Put
    <2>3. Packed(c) /\ Keeps(b, c)
        BY <2>1, <2>2 DEF IsPut, Keeps
    <2> QED
        BY <1>3, <2>3, Fields DEF b, c, i
<1> QED
    BY <1>2, <1>4, <1>5

(* A script that takes more than there are takes an item over its limit.    *)
LEMMA RemoveBag ==
    ASSUME Packed(bag), NEW i \in Items, NEW n \in Takes, RemoveRequested(i, n)
    PROVE  Packed(bag') /\ \A j \in Items : Within(bag, j) => Within(bag', j) \/ Overdraws(j)
<1> DEFINE b == bag
           c == bag'
           f == FirstOf(Holding(bag, i))
           r == n % FieldSize
<1>1. /\ f \in Slots /\ i = b[f].item /\ Count(b, i) = b[f].n /\ b[f].item # None
      /\ Packed(b) /\ Count(b, i) \in Int
    <2>1. Holding(bag, i) # {} /\ Count(bag, i) \in 0 .. FieldSize - 1
        BY CountIn DEF RemoveRequested
    <2> QED
        BY <2>1, CountIn, Fields
<1>2. n \in Nat /\ r \in Int
    BY ShopAssumption, ShopFields, DivMod, Fields
<1>3. c = Lowered(b, f, n)
    BY DEF RemoveRequested, Lose
<1>4. r > Count(b, i) => Overdraws(i)
    BY DEF Overdraws
<1> HIDE DEF b, c, f
<1>5. /\ Packed(c)
      /\ \A j \in Items \ {i} : Count(c, j) = Count(b, j) /\ (Within(b, j) => Within(c, j))
      /\ Within(b, i) /\ r <= b[f].n => Within(c, i)
    BY <1>1, <1>2, <1>3, LoweredIn
<1>6. \A j \in Items : Within(b, j) => Within(c, j) \/ Overdraws(j)
    <2> HIDE DEF r
    <2> QED
        BY <1>1, <1>2, <1>4, <1>5
<1> QED
    BY <1>5, <1>6 DEF b, c

(* Two slots change places.                                                 *)
LEMMA SwapBag ==
    ASSUME Packed(bag), NEW s \in Slots, NEW t \in Slots, Swap(s, t)
    PROVE  /\ Packed(bag') /\ Keeps(bag, bag')
           /\ \A i \in Items : Count(bag', i) = Count(bag, i)
<1> DEFINE b == bag
           c == bag'
<1>1. c = [b EXCEPT ![s] = b[t], ![t] = b[s]] /\ Packed(b)
    BY DEF Swap
<1> HIDE DEF b, c
<1>2. /\ c[t] = b[s] /\ c[s] = b[t]
      /\ \A u \in Slots \ {s, t} : c[u] = b[u]
    BY <1>1 DEF Packed
<1>3. Packed(c)
    BY <1>1 DEF Packed
<1>4. /\ \A u \in Slots : \E v \in Slots : c[u] = b[v]
      /\ \A v \in Slots : \E u \in Slots : c[u] = b[v]
    BY <1>2
<1>5. Packed(b)
    BY <1>1
<1>6. Keeps(b, c) /\ \A i \in Items : Count(c, i) = Count(b, i)
    BY <1>3, <1>4, <1>5, CountSame
<1> QED
    BY <1>3, <1>6 DEF b, c

(* The slots of the sorted bag are those of the bag, each once.             *)
LEMMA SortBag ==
    ASSUME Packed(bag), Sort
    PROVE  /\ Packed(bag') /\ Keeps(bag, bag')
           /\ \A i \in Items : Count(bag', i) = Count(bag, i)
<1> DEFINE b == bag
           c == bag'
<1>1. PICK f \in [Slots -> Slots] :
        /\ \A s, t \in Slots : s < t => Before(Order(b, f[s]), Order(b, f[t]))
        /\ c = [s \in Slots |-> b[f[s]]]
    BY DEF Sort
<1>2. Packed(b)
    OBVIOUS
<1> HIDE DEF b, c
<1>3. ASSUME NEW s \in Slots PROVE ~ Before(Order(b, s), Order(b, s))
    <2>1. s \in Nat
        BY Fields DEF Slots
    <2>2. CASE b[s] = Empty
        BY <2>1, <2>2 DEF Before, Order
    <2>3. CASE b[s] # Empty
        <3>1. b[s].item \in Items
            BY <1>2, <2>3, NotFree
        <3>2. Group[b[s].item] \in Nat
            BY <3>1, InventoryAssumption
        <3> QED
            BY <2>1, <2>3, <3>2 DEF Before, Order
    <2> QED
        BY <2>2, <2>3
<1>4. ASSUME NEW s \in Slots, NEW t \in Slots, f[s] = f[t] PROVE s = t
    <2>1. s \in Nat /\ t \in Nat /\ f[s] \in Slots
        BY Fields DEF Slots
    <2>2. ~ (s < t) /\ ~ (t < s)
        BY <1>1, <1>3, <1>4, <2>1
    <2> QED
        BY <2>1, <2>2
<1>5. Packed(c)
    BY <1>1, <1>2, <1>4 DEF Packed
<1>6. \A t \in Slots : \E s \in Slots : f[s] = t
    <2>1. IsFiniteSet(Slots)
        BY Fields, FS_Interval DEF Slots
    <2>2. f \in Injection(Slots, Slots)
        BY <1>1, <1>4 DEF Injection, IsInjective
    <2>3. f \in Surjection(Slots, Slots)
        BY <2>1, <2>2, FS_Injection
    <2> QED
        BY <2>3 DEF Surjection
<1>7. /\ \A s \in Slots : \E t \in Slots : c[s] = b[t]
      /\ \A t \in Slots : \E s \in Slots : c[s] = b[t]
    BY <1>1, <1>6
<1>8. Keeps(b, c) /\ \A i \in Items : Count(c, i) = Count(b, i)
    BY <1>2, <1>5, <1>7, CountSame
<1> QED
    BY <1>5, <1>8 DEF b, c

-----------------------------------------------------------------------------
(* Steps of the menus, one operation at a time.                             *)

LEMMA Parts ==
    ASSUME GoodsInv
    PROVE  /\ Packed(bag) /\ WornOK(worn)
           /\ stock \in [Items -> 0 .. StockCap] /\ pending \in Items \cup {None}
           /\ gold \in 0 .. GoldSize - 1
BY DEF GoodsInv, GoodsTypeOK, OneSlotPerItem, EquipmentFits, Packed, WornOK

LEMMA RestStep ==
    ASSUME GoodsInv, Resting, deal' = NoDeal,
           Packed(bag'), WornOK(worn'), stock' \in [Items -> 0 .. StockCap],
           pending' \in Items \cup {None}, gold' \in 0 .. GoldSize - 1
    PROVE  GoodsInv'
<1>1. UNCHANGED walk /\ work = "none"
    BY DEF Resting
<1>2. GoodsTypeOK'
    <2>1. deal' \in [kind : {"none", "buy", "forfeit", "sell"}, item : Items \cup {None},
                     slot : 0 .. Capacity, quantity : 0 .. ByteSize - 1,
                     limit : 0 .. ByteSize - 1]
        BY Fields, ShopFields DEF NoDeal
    <2> QED
        BY <1>1, <2>1 DEF GoodsInv, GoodsTypeOK, walk, Packed, WornOK
<1>3. OneSlotPerItem' /\ EquipmentFits'
    BY DEF OneSlotPerItem, EquipmentFits, Packed, WornOK
<1>4. PicksStand'
    BY <1>1 DEF GoodsInv, PicksStand, walk
<1>5. DealStands'
    BY DEF DealStands, NoDeal
<1> QED
    BY <1>2, <1>3, <1>4, <1>5 DEF GoodsInv

LEMMA RestockedType ==
    ASSUME NEW i \in Items, NEW q \in Nat, stock \in [Items -> 0 .. StockCap]
    PROVE  Restocked(stock, i, q) \in [Items -> 0 .. StockCap]
BY Fields DEF Restocked, Lesser

LEMMA ReceiveStep ==
    ASSUME GoodsInv, Closed, UNCHANGED gold, NEW i \in Items, NEW n \in Gifts, Receive(i, n)
    PROVE  GoodsInv'
<1>1. Packed(bag')
    BY Parts, ReceiveBag
<1> QED
    BY <1>1, Parts, RestStep DEF Receive, Closed

LEMMA FoundStep ==
    ASSUME GoodsInv, Closed, UNCHANGED gold,
           (\E i \in Items : FindItem(i)) \/ ClosePending \/ UsePending
    PROVE  GoodsInv'
<1>1. Packed(bag')
    BY Parts, FoundBag
<1>2. /\ Resting /\ UNCHANGED <<worn, stock>> /\ pending' \in Items \cup {None}
      /\ deal' = NoDeal
    BY DEF FindItem, ClosePending, UsePending, Closed
<1> QED
    BY <1>1, <1>2, Parts, RestStep

LEMMA LoseStep ==
    ASSUME GoodsInv, Closed, UNCHANGED gold, NEW s \in Slots,
           Consume(s) \/ Feed(s) \/ Discard(s)
    PROVE  GoodsInv'
<1>1. Packed(bag') /\ bag[s].item \in Items /\ bag[s].n \in Nat
    BY Parts, LoseBag
<1>2. /\ Restocked(stock, bag[s].item, 1) \in [Items -> 0 .. StockCap]
      /\ Restocked(stock, bag[s].item, bag[s].n) \in [Items -> 0 .. StockCap]
    <2>1. 1 \in Nat
        OBVIOUS
    <2> QED
        BY <1>1, <2>1, RestockedType, Parts
<1> QED
    BY <1>1, <1>2, Parts, RestStep DEF Consume, Feed, Discard, Closed

LEMMA RemoveStep ==
    ASSUME GoodsInv, Closed, UNCHANGED gold, NEW i \in Items, NEW n \in Takes,
           RemoveRequested(i, n)
    PROVE  GoodsInv'
<1>1. Packed(bag')
    BY Parts, RemoveBag
<1> QED
    BY <1>1, Parts, RestStep DEF RemoveRequested, Closed

LEMMA OrderStep ==
    ASSUME GoodsInv, Closed, UNCHANGED gold, Sort \/ \E s, t \in Slots : Swap(s, t)
    PROVE  GoodsInv'
<1>1. Packed(bag')
    BY Parts, SortBag, SwapBag
<1> QED
    BY <1>1, Parts, RestStep DEF Sort, Swap, Closed

LEMMA EquipStep ==
    ASSUME GoodsInv, Closed, UNCHANGED gold, NEW m \in Members, NEW p \in Places,
           Unequip(m, p) \/ DiscardEquipped(m, p) \/ \E s \in Slots : Equip(m, p, s)
    PROVE  GoodsInv'
<1>1. CASE Unequip(m, p)
    <2>1. Packed(bag') /\ WornOK(worn')
        BY <1>1, Parts, TakeOffIn DEF Unequip
    <2> QED
        BY <1>1, <2>1, Parts, RestStep DEF Unequip, Closed
<1>2. CASE DiscardEquipped(m, p)
    <2>1. worn[m][p] \in Items /\ 1 \in Nat
        BY <1>2, Parts DEF DiscardEquipped, WornOK
    <2>2. WornOK(worn') /\ stock' \in [Items -> 0 .. StockCap]
        BY <1>2, <2>1, Parts, WornSet, RestockedType DEF DiscardEquipped, Wear
    <2> QED
        BY <1>2, <2>2, Parts, RestStep DEF DiscardEquipped, Closed
<1>3. CASE \E s \in Slots : Equip(m, p, s)
    <2>1. Packed(bag') /\ WornOK(worn')
        BY <1>3, Parts, PutOnIn DEF Equip
    <2> QED
        BY <1>3, <2>1, Parts, RestStep DEF Equip, Closed
<1> QED
    BY <1>1, <1>2, <1>3

LEMMA CureStep ==
    ASSUME GoodsInv, NEW m \in Members, NEW fee \in CureFees, Cure(m, fee)
    PROVE  GoodsInv'
<1>1. Resting /\ UNCHANGED <<bag, stock, pending>> /\ deal' = NoDeal
    BY DEF Cure, LiftCurses, Closed
<1>2. gold' \in 0 .. GoldSize - 1
    BY Parts, ShopAssumption DEF Cure
<1>3. WornOK(worn')
    <2> DEFINE row == [p \in Places |->
                          IF Locked(m, p) THEN Cured[worn[m][p]] ELSE worn[m][p]]
    <2>1. worn' = [worn EXCEPT ![m] = row]
        BY DEF Cure, LiftCurses
    <2>2. /\ row \in [Places -> Items \cup {None}]
          /\ \A p \in Places : row[p] # None => Fits(m, p, row[p])
        BY Parts, InventoryAssumption DEF Locked, WornOK, Fits
    <2> HIDE DEF row
    <2> QED
        BY <2>1, <2>2, Parts DEF WornOK
<1> QED
    BY <1>1, <1>2, <1>3, Parts, RestStep

-----------------------------------------------------------------------------
(* The walks over the places.                                               *)

LEMMA BeginStep ==
    ASSUME GoodsInv, Closed, UNCHANGED gold, NEW m \in Members,
           BeginUnequipAll(m) \/ BeginStrongest(m)
    PROVE  GoodsInv'
<1>1. /\ work = "none" /\ UNCHANGED <<goods, deal>> /\ deal' = NoDeal
      /\ member' = m /\ place' = 1 /\ full' \in BOOLEAN /\ work' \in {"strip", "strongest"}
    BY DEF BeginUnequipAll, BeginStrongest, Begin, Full, Closed
<1>2. picks' \in [1 .. StrongPlaces -> 0 .. Capacity]
    BY DEF GoodsInv, GoodsTypeOK, BeginUnequipAll, BeginStrongest
<1>3. GoodsTypeOK'
    <2>1. 1 \in Places /\ 1 <= StrongPlaces
        BY Fields DEF Places
    <2> QED
        BY <1>1, <1>2, <2>1 DEF GoodsInv, GoodsTypeOK, goods
<1>4. OneSlotPerItem' /\ EquipmentFits'
    BY <1>1 DEF GoodsInv, OneSlotPerItem, EquipmentFits, goods
<1>5. PicksStand'
    <2>1. CASE BeginUnequipAll(m)
        BY <1>1, <2>1 DEF GoodsInv, PicksStand, BeginUnequipAll
    <2>2. CASE BeginStrongest(m)
        <3>1. work' = "strongest"
            BY <2>2 DEF BeginStrongest, Begin
        <3> QED
            BY <1>1, <2>2, <3>1 DEF BeginStrongest, PicksStand, Locked, Wearable, goods
    <2> QED
        BY <2>1, <2>2
<1>6. DealStands'
    BY <1>1 DEF DealStands, NoDeal
<1> QED
    BY <1>3, <1>4, <1>5, <1>6 DEF GoodsInv

LEMMA WalkType ==
    ASSUME GoodsInv, NEW last \in {PlaceCount, StrongPlaces},
           work = "strip" => last = PlaceCount, work = "strongest" => last = StrongPlaces,
           work # "none", Walked(last)
    PROVE  /\ work' \in {"none", "strip", "strongest"} /\ member' = member /\ place' \in Places
           /\ full' = full /\ (work' = "strongest" => place' <= StrongPlaces)
           /\ \A p \in 1 .. last : p > place => work' = work /\ place' <= p
<1>1. /\ work \in {"none", "strip", "strongest"} /\ place \in 1 .. PlaceCount
      /\ (work = "strongest" => place <= StrongPlaces)
    BY DEF GoodsInv, GoodsTypeOK, Places
<1>2. PlaceCount \in Nat \ {0} /\ StrongPlaces \in 1 .. PlaceCount
    BY Fields DEF Places
<1>3. place <= last
    BY <1>1, <1>2
<1>4. CASE place = last
    BY <1>1, <1>2, <1>4 DEF Walked, Places
<1>5. CASE place # last
    BY <1>1, <1>2, <1>3, <1>5 DEF Walked, Places
<1> QED
    BY <1>4, <1>5

LEMMA UnequipNextStep ==
    ASSUME GoodsInv, Closed, UNCHANGED gold, UnequipNext
    PROVE  GoodsInv'
<1>1. member \in Members /\ place \in Places /\ work = "strip"
    BY DEF GoodsInv, GoodsTypeOK, UnequipNext
<1>2. Packed(bag') /\ WornOK(worn')
    <2>1. CASE CanTakeOff(member, place, full)
        BY <1>1, <2>1, Parts, TakeOffIn DEF UnequipNext
    <2>2. CASE ~ CanTakeOff(member, place, full)
        BY <2>2, Parts DEF UnequipNext
    <2> QED
        BY <2>1, <2>2
<1>3. /\ work' \in {"none", "strip", "strongest"} /\ member' = member /\ place' \in Places
      /\ full' = full /\ (work' = "strongest" => place' <= StrongPlaces)
    BY <1>1, WalkType DEF UnequipNext
<1>4. GoodsTypeOK'
    BY <1>2, <1>3 DEF GoodsInv, GoodsTypeOK, UnequipNext, Packed, WornOK, Closed
<1>5. OneSlotPerItem' /\ EquipmentFits'
    BY <1>2 DEF OneSlotPerItem, EquipmentFits, Packed, WornOK
<1>6. PicksStand'
    BY <1>1 DEF GoodsInv, PicksStand, UnequipNext
<1>7. DealStands'
    BY DEF DealStands, NoDeal, Closed
<1> QED
    BY <1>4, <1>5, <1>6, <1>7 DEF GoodsInv

LEMMA EquipStrongestStep ==
    ASSUME GoodsInv, Closed, UNCHANGED gold, EquipStrongest
    PROVE  GoodsInv'
<1> DEFINE s == picks[place]
<1>1. /\ member \in Members /\ place \in Places /\ place \in 1 .. StrongPlaces
      /\ work = "strongest" /\ picks \in [1 .. StrongPlaces -> 0 .. Capacity]
    BY Fields DEF GoodsInv, GoodsTypeOK, EquipStrongest, Places
<1>2. /\ picks' = [picks EXCEPT ![place] = 0] /\ Walked(StrongPlaces)
      /\ IF s # 0 /\ CanPutOn(member, place, s, full) THEN PutOn(member, place, s, full)
         ELSE UNCHANGED <<bag, worn>>
    BY DEF EquipStrongest
<1>3. s # 0 => s \in Slots /\ Wearable(member, place, s)
    BY <1>1 DEF GoodsInv, PicksStand, Slots
<1>4. \A p \in 1 .. StrongPlaces : p # place /\ picks[p] # 0 =>
            /\ p > place /\ picks[p] \in Slots /\ p \in Places
            /\ ~ Locked(member, p) /\ Wearable(member, p, picks[p])
    BY <1>1, Fields DEF GoodsInv, PicksStand, Slots, Places
<1> HIDE DEF s
<1>5. /\ Packed(bag') /\ WornOK(worn')
      /\ \A t \in Slots : bag[t].item # None /\ t # s => bag'[t].item = bag[t].item
      /\ \A q \in Places \ {place} : worn'[member][q] = worn[member][q]
    <2>1. CASE s # 0 /\ CanPutOn(member, place, s, full)
        BY <1>1, <1>2, <1>3, <2>1, Parts, PutOnIn
    <2>2. CASE ~ (s # 0 /\ CanPutOn(member, place, s, full))
        BY <1>2, <2>2, Parts
    <2> QED
        BY <2>1, <2>2
<1>6. /\ work' \in {"none", "strip", "strongest"} /\ member' = member /\ place' \in Places
      /\ full' = full /\ (work' = "strongest" => place' <= StrongPlaces)
      /\ \A p \in 1 .. StrongPlaces : p > place => work' = work /\ place' <= p
    BY <1>1, <1>2, WalkType
<1>7. picks' \in [1 .. StrongPlaces -> 0 .. Capacity]
    BY <1>1, <1>2, Fields
<1>8. GoodsTypeOK'
    BY <1>5, <1>6, <1>7 DEF GoodsInv, GoodsTypeOK, EquipStrongest, Packed, WornOK, Closed
<1>9. PicksStand'
    <2>1. SUFFICES ASSUME NEW p \in 1 .. StrongPlaces, picks'[p] # 0
                   PROVE  /\ work' = "strongest" /\ place' <= p
                          /\ worn'[member][p] \notin Cursed
                          /\ bag'[picks'[p]] # Empty
                          /\ Fits(member, p, bag'[picks'[p]].item)
        BY <1>6 DEF PicksStand, Locked, Wearable
    <2>2. p # place /\ picks'[p] = picks[p] /\ picks[p] # 0
        BY <1>1, <1>2, <2>1
    <2>3. /\ p > place /\ picks[p] \in Slots /\ p \in Places
          /\ ~ Locked(member, p) /\ Wearable(member, p, picks[p])
        BY <1>4, <2>2
    <2>4. work' = "strongest" /\ place' <= p
        BY <1>1, <1>6, <2>3
    <2>5. worn'[member][p] \notin Cursed
        BY <1>5, <2>2, <2>3 DEF Locked
    <2>6. picks[p] # s
        <3>1. s # 0 => Place[bag[s].item] = place
            BY <1>3 DEF Wearable, Fits
        <3>2. Place[bag[picks[p]].item] = p
            BY <2>3 DEF Wearable, Fits
        <3> QED
            BY <2>2, <3>1, <3>2
    <2>7. bag[picks[p]].item \in Items /\ bag[picks[p]].item # None
        BY <2>3, NotFree, Parts DEF Wearable
    <2>8. bag'[picks[p]].item = bag[picks[p]].item
        BY <1>5, <2>3, <2>6, <2>7
    <2>9. bag'[picks[p]] # Empty
        BY <2>7, <2>8 DEF Empty, Slot
    <2> QED
        BY <2>2, <2>3, <2>4, <2>5, <2>8, <2>9 DEF Wearable
<1>10. OneSlotPerItem' /\ EquipmentFits'
    BY <1>5 DEF OneSlotPerItem, EquipmentFits, Packed, WornOK
<1>11. DealStands'
    BY DEF DealStands, NoDeal, Closed
<1> QED
    BY <1>8, <1>9, <1>10, <1>11 DEF GoodsInv

-----------------------------------------------------------------------------
(* Gold.                                                                    *)

LEMMA CappedType ==
    ASSUME NEW g \in Nat
    PROVE  Capped(g) \in 0 .. GoldSize - 1
<1>1. GoldSize \in Nat \ {0} /\ GoldCap \in 0 .. GoldSize - 1
    BY ShopAssumption
<1>2. g % GoldSize \in 0 .. GoldSize - 1
    BY <1>1, DivMod
<1> QED
    BY <1>1, <1>2 DEF Capped, Lesser

LEMMA GoldStep ==
    ASSUME GoodsInv, NEW a \in Rewards \cup Payments, Reward(a) \/ TextGold(a)
    PROVE  GoodsInv'
<1>1. /\ a \in Nat /\ GoldSize \in Nat \ {0} /\ GoldCap \in 0 .. GoldSize - 1
      /\ gold \in 0 .. GoldSize - 1
    BY ShopAssumption, Parts
<1>2. gold + a \in Nat /\ (gold + a) % GoldSize \in 0 .. GoldSize - 1
    <2>1. gold + a \in Nat
        BY <1>1
    <2> QED
        BY <1>1, <2>1, DivMod
<1>3. Capped(gold + a) \in 0 .. GoldSize - 1
    BY <1>2, CappedType
<1>4. AddGold(a) \in 0 .. GoldSize - 1
    BY <1>1, <1>2 DEF AddGold
<1>5. gold' \in 0 .. GoldSize - 1
    BY <1>1, <1>3, <1>4 DEF Reward, TextGold
<1>6. Resting /\ UNCHANGED goods /\ deal' = NoDeal
    BY DEF Reward, TextGold, Closed
<1> QED
    BY <1>5, <1>6, Parts, RestStep DEF goods

-----------------------------------------------------------------------------
(* Opening a deal and changing its quantity.                                *)

LEMMA DealStep ==
    ASSUME GoodsInv, Resting, UNCHANGED <<goods, gold>>, DealStands',
           deal' \in [kind : {"none", "buy", "forfeit", "sell"}, item : Items \cup {None},
                      slot : 0 .. Capacity, quantity : 0 .. ByteSize - 1,
                      limit : 0 .. ByteSize - 1]
    PROVE  GoodsInv'
<1>1. UNCHANGED <<goods, gold, walk>>
    BY DEF Resting
<1>2. GoodsTypeOK' /\ OneSlotPerItem' /\ EquipmentFits' /\ PicksStand'
    BY <1>1 DEF GoodsInv, GoodsTypeOK, OneSlotPerItem, EquipmentFits, PicksStand, Locked,
                Wearable, goods, walk
<1> QED
    BY <1>2 DEF GoodsInv

LEMMA Wrap ==
    ASSUME NEW x \in Int
    PROVE  /\ 0 <= x /\ x < ByteSize => x % ByteSize = x
           /\ - ByteSize <= x /\ x < 0 => x % ByteSize = x + ByteSize
           /\ ByteSize <= x /\ x < 2 * ByteSize => x % ByteSize = x - ByteSize
<1>1. ByteSize \in Nat \ {0}
    BY Fields, ShopFields
<1>2. 0 <= x /\ x < ByteSize => x \in 0 .. ByteSize - 1
    BY <1>1
<1>3. - ByteSize <= x /\ x < 0 => /\ x + ByteSize \in 0 .. ByteSize - 1
                                  /\ (x + ByteSize) - ByteSize = x
    BY <1>1
<1>4. ByteSize <= x /\ x < 2 * ByteSize => /\ x - ByteSize \in 0 .. ByteSize - 1
                                           /\ (x - ByteSize) + ByteSize = x
    BY <1>1
<1>5. \A r \in 0 .. ByteSize - 1 :
        r % ByteSize = r /\ (r + ByteSize) % ByteSize = r /\ (r - ByteSize) % ByteSize = r
    BY <1>1, Mod
<1> QED
    BY <1>2, <1>3, <1>4, <1>5

LEMMA NegativeIs ==
    ASSUME NEW x \in Int, - ByteSize <= x, x < ByteSize
    PROVE  Negative(x) <=> (x >= FieldSize \/ (x < 0 /\ x >= - FieldSize))
BY Wrap, Fields, ShopFields DEF Negative

(* What is missing to the limit, or, when the party has more than it, what  *)
(* the byte makes of that.                                                  *)
LEMMA MissingIs ==
    ASSUME GoodsInv, NEW i \in Items,
           NEW n, n = Count(bag, i), NEW w, w = Worn(worn, i),
           NEW missing, missing = (Cap - n - w) % ByteSize
    PROVE  /\ missing \in 0 .. ByteSize - 1
           /\ Sound(i) =>
                /\ n \in 0 .. Cap /\ w \in 0 .. Cardinality(Members)
                /\ n + w <= Cap => missing = Cap - n - w
                /\ n + w > Cap => missing = Cap - n - w + ByteSize /\ missing >= FieldSize
<1>1. n \in 0 .. FieldSize - 1 /\ (Sound(i) => n \in 0 .. Cap)
    BY CountIn, Parts DEF Sound, Within
<1>2. w \in Nat /\ w <= Cardinality(Members)
    BY WornCount
<1>3. Cardinality(Members) \in Nat /\ Cardinality(Members) < Cap
    BY PartyFits
<1>4. Cap - n - w \in Int
    BY <1>1, <1>2, Fields
<1>5. missing \in 0 .. ByteSize - 1
    BY <1>4, DivMod, Fields, ShopFields
<1>6. /\ 0 <= Cap - n - w /\ Cap - n - w < ByteSize => missing = Cap - n - w
      /\ - ByteSize <= Cap - n - w /\ Cap - n - w < 0 => missing = Cap - n - w + ByteSize
    BY <1>4, Wrap
<1> QED
    BY <1>1, <1>2, <1>3, <1>5, <1>6, Fields, ShopFields

LEMMA BuyLimitIs ==
    ASSUME GoodsInv, NEW i \in Items, NEW kind \in {"buy", "forfeit"},
           NEW n, n = Count(bag, i), NEW w, w = Worn(worn, i),
           NEW l, l = BuyLimit(kind, i)
    PROVE  /\ l \in 0 .. ByteSize - 1
           /\ kind = "forfeit" => l <= stock[i] /\ stock[i] \in 0 .. StockCap
           /\ Sound(i) =>
                /\ n \in 0 .. Cap /\ w \in 0 .. Cardinality(Members)
                /\ n + w <= Cap => l <= Cap - n - w
                /\ n + w > Cap /\ kind = "buy" =>
                    l = Cap - n - w + ByteSize /\ l >= FieldSize
<1> DEFINE missing == (Cap - n - w) % ByteSize
<1>1. /\ missing \in 0 .. ByteSize - 1
      /\ Sound(i) =>
            /\ n \in 0 .. Cap /\ w \in 0 .. Cardinality(Members)
            /\ n + w <= Cap => missing = Cap - n - w
            /\ n + w > Cap => missing = Cap - n - w + ByteSize /\ missing >= FieldSize
    BY MissingIs
<1>2. l = IF kind = "forfeit" THEN Lesser(stock[i], missing) ELSE missing
    BY DEF BuyLimit
<1>3. stock[i] \in 0 .. StockCap
    BY Parts
<1> HIDE DEF missing
<1> QED
    BY <1>1, <1>2, <1>3, Fields, ShopFields DEF Lesser

LEMMA PurchaseStep ==
    ASSUME GoodsInv, NEW kind \in {"buy", "forfeit"}, NEW i \in Items,
           PreparePurchase(kind, i)
    PROVE  GoodsInv'
<1> DEFINE l == BuyLimit(kind, i)
<1>1. l \in 0 .. ByteSize - 1
    BY BuyLimitIs
<1>2. Resting /\ UNCHANGED <<goods, gold>>
    BY DEF PreparePurchase
<1>3. deal' = [kind |-> kind, item |-> i, slot |-> 0, quantity |-> Lesser(1, l), limit |-> l]
    BY DEF PreparePurchase, Open
<1>4. BuyLimit(kind, i)' = l
    BY <1>2 DEF BuyLimit, Count, Holding, Worn, goods
<1> HIDE DEF l
<1>5. Lesser(1, l) \in 0 .. l /\ Lesser(1, l) \in {1, l}
    BY <1>1, Fields DEF Lesser
<1>6. Lesser(1, l) \in Lesser(1, l) .. l /\ Lesser(1, l) \in 0 .. ByteSize - 1
    BY <1>1, <1>5, Fields, ShopFields
<1>7. DealStands'
    BY <1>3, <1>4, <1>5, <1>6 DEF DealStands, BuyLimit
<1>8. deal' \in [kind : {"none", "buy", "forfeit", "sell"}, item : Items \cup {None},
                 slot : 0 .. Capacity, quantity : 0 .. ByteSize - 1, limit : 0 .. ByteSize - 1]
    <2>1. 0 \in 0 .. Capacity
        BY Fields
    <2> QED
        BY <1>1, <1>3, <1>6, <2>1
<1> QED
    BY <1>2, <1>7, <1>8, DealStep

LEMMA SaleStep ==
    ASSUME GoodsInv, NEW s \in Slots, PrepareSale(s)
    PROVE  GoodsInv'
<1>1. /\ Resting /\ UNCHANGED <<goods, gold>> /\ bag' = bag
      /\ bag[s] # Empty /\ bag[s].item \notin Kept
      /\ deal' = [kind |-> "sell", item |-> bag[s].item, slot |-> s, quantity |-> 1,
                  limit |-> bag[s].n]
    BY DEF PrepareSale, Open, goods
<1>2. bag[s].item \in Items /\ bag[s].n \in 0 .. FieldSize - 1
    BY <1>1, NotFree, Parts
<1>3. bag[s] = Slot(bag[s].item, bag[s].n)
    BY Parts DEF Packed, Slot
<1>4. 1 \in IF bag[s].n = 0 THEN {0, 1} ELSE 1 .. bag[s].n
    BY <1>2, Fields
<1>5. DealStands'
    BY <1>1, <1>2, <1>3, <1>4 DEF DealStands
<1>6. deal' \in [kind : {"none", "buy", "forfeit", "sell"}, item : Items \cup {None},
                 slot : 0 .. Capacity, quantity : 0 .. ByteSize - 1, limit : 0 .. ByteSize - 1]
    <2>1. s \in 0 .. Capacity /\ 1 \in 0 .. ByteSize - 1 /\ bag[s].n \in 0 .. ByteSize - 1
        BY <1>2, Fields, ShopFields DEF Slots
    <2> QED
        BY <1>1, <1>2, <2>1
<1> QED
    BY <1>1, <1>5, <1>6, DealStep

(* A step of the buttons, as the signed byte sees it.                       *)
LEMMA StepIs ==
    ASSUME NEW q \in 0 .. ByteSize - 1, NEW k \in {1, Leap}
    PROVE  /\ k \in Nat /\ 1 <= k /\ k < FieldSize - 1
           /\ (q + k) % ByteSize = IF q + k < ByteSize THEN q + k ELSE q + k - ByteSize
           /\ (q - k) % ByteSize = IF q - k >= 0 THEN q - k ELSE q - k + ByteSize
<1>1. /\ k \in Nat /\ 1 <= k /\ k < FieldSize - 1 /\ q \in Nat /\ q < ByteSize
      /\ ByteSize \in Nat \ {0} /\ ByteSize = 2 * FieldSize /\ FieldSize \in Nat
    BY Fields, ShopFields, PartyFits
<1> DEFINE x == q + k
           y == q - k
<1>2. x \in Int /\ x = q + k /\ 0 <= x /\ x < 2 * ByteSize
    BY <1>1
<1>3. y \in Int /\ y = q - k /\ - ByteSize <= y /\ y < ByteSize
    BY <1>1
<1> HIDE DEF x, y
<1>4. x % ByteSize = IF x < ByteSize THEN x ELSE x - ByteSize
    BY <1>1, <1>2, Wrap
<1>5. y % ByteSize = IF y >= 0 THEN y ELSE y + ByteSize
    BY <1>1, <1>3, Wrap
<1> QED
    BY <1>1, <1>2, <1>3, <1>4, <1>5 DEF x, y

(* The quantity stays between one and the limit.                            *)
LEMMA AdjustWithin ==
    ASSUME deal.limit \in 1 .. ByteSize - 1, deal.quantity \in 1 .. deal.limit,
           NEW k \in {1, Leap}
    PROVE  UpBy(k) \in 1 .. deal.limit /\ DownBy(k) \in 1 .. deal.limit
<1> DEFINE q == deal.quantity
           l == deal.limit
           x == (q + k) % ByteSize
           y == (q - k) % ByteSize
<1>1. /\ q \in Nat /\ l \in Nat /\ 1 <= q /\ q <= l /\ l < ByteSize
      /\ ByteSize \in Nat /\ FieldSize \in Nat /\ ByteSize = 2 * FieldSize
    BY Fields, ShopFields
<1>2. UpBy(k) = (IF Negative(x - l) THEN x ELSE l) /\ DownBy(k) = IF Negative(y - 1) THEN 1 ELSE y
    BY DEF UpBy, DownBy
<1>3. /\ k \in Nat /\ 1 <= k /\ k < FieldSize - 1
      /\ x = IF q + k < ByteSize THEN q + k ELSE q + k - ByteSize
      /\ y = IF q - k >= 0 THEN q - k ELSE q - k + ByteSize
    <2>1. q \in 0 .. ByteSize - 1
        BY <1>1
    <2> QED
        BY <2>1, StepIs
<1> HIDE DEF q, l, x, y
<1>4. Negative(x - l) => x \in 1 .. l
    <2>1. x - l \in Int /\ - ByteSize <= x - l /\ x - l < ByteSize
        BY <1>1, <1>3
    <2>2. Negative(x - l) <=> (x - l >= FieldSize \/ (x - l < 0 /\ x - l >= - FieldSize))
        BY <2>1, NegativeIs
    <2>3. x - l < FieldSize
        BY <1>1, <1>3
    <2>4. x = 0 => x - l < - FieldSize
        BY <1>1, <1>3
    <2>5. x \in Nat
        BY <1>1, <1>3
    <2> QED
        BY <1>1, <2>1, <2>2, <2>3, <2>4, <2>5
<1>5. Negative(y - 1) \/ y \in 1 .. l
    <2>1. y - 1 \in Int /\ - ByteSize <= y - 1 /\ y - 1 < ByteSize
        BY <1>1, <1>3
    <2>2. Negative(y - 1) <=> (y - 1 >= FieldSize \/ (y - 1 < 0 /\ y - 1 >= - FieldSize))
        BY <2>1, NegativeIs
    <2>3. y = q - k \/ y >= FieldSize + 1
        BY <1>1, <1>3
    <2> QED
        BY <1>1, <1>3, <2>1, <2>2, <2>3
<1> QED
    BY <1>1, <1>2, <1>4, <1>5 DEF l

(* Of nothing, none or one is sold.                                         *)
LEMMA AdjustNothing ==
    ASSUME deal.limit = 0, deal.quantity \in {0, 1}, NEW k \in {1, Leap}
    PROVE  UpBy(k) \in {0, 1} /\ DownBy(k) \in {0, 1}
<1> DEFINE q == deal.quantity
           x == (q + k) % ByteSize
           y == (q - k) % ByteSize
<1>1. /\ (q = 0 \/ q = 1) /\ ByteSize \in Nat /\ FieldSize \in Nat /\ ByteSize = 2 * FieldSize
      /\ FieldSize > 2 /\ q \in 0 .. ByteSize - 1
    BY Fields, ShopFields
<1>2. UpBy(k) = (IF Negative(x - 0) THEN x ELSE 0) /\ DownBy(k) = IF Negative(y - 1) THEN 1 ELSE y
    BY DEF UpBy, DownBy
<1>3. /\ k \in Nat /\ 1 <= k /\ k < FieldSize - 1
      /\ x = IF q + k < ByteSize THEN q + k ELSE q + k - ByteSize
      /\ y = IF q - k >= 0 THEN q - k ELSE q - k + ByteSize
    <2>1. q \in 0 .. ByteSize - 1
        BY <1>1
    <2> HIDE DEF q
    <2> QED
        BY <2>1, StepIs
<1> HIDE DEF q, x, y
<1>4. ~ Negative(x - 0)
    <2>1. /\ x - 0 \in Int /\ - ByteSize <= x - 0 /\ x - 0 < ByteSize
          /\ 0 <= x - 0 /\ x - 0 < FieldSize
        BY <1>1, <1>3
    <2>2. Negative(x - 0) <=> (x - 0 >= FieldSize \/ (x - 0 < 0 /\ x - 0 >= - FieldSize))
        BY <2>1, NegativeIs
    <2> QED
        BY <1>1, <2>1, <2>2
<1>5. Negative(y - 1)
    <2>1. /\ y - 1 \in Int /\ - ByteSize <= y - 1 /\ y - 1 < ByteSize
          /\ y - 1 >= FieldSize \/ y - 1 = -1
        BY <1>1, <1>3
    <2>2. Negative(y - 1) <=> (y - 1 >= FieldSize \/ (y - 1 < 0 /\ y - 1 >= - FieldSize))
        BY <2>1, NegativeIs
    <2> QED
        BY <1>1, <2>1, <2>2
<1> QED
    BY <1>2, <1>4, <1>5

(* A wrapped limit leaves one or all of it.                                 *)
LEMMA AdjustWrapped ==
    ASSUME deal.limit \in FieldSize .. ByteSize - 1,
           deal.limit >= ByteSize - Cardinality(Members),
           deal.quantity \in {1, deal.limit}, NEW k \in {1, Leap}
    PROVE  UpBy(k) \in {1, deal.limit} /\ DownBy(k) \in {1, deal.limit}
<1> DEFINE q == deal.quantity
           l == deal.limit
           c == Cardinality(Members)
           x == (q + k) % ByteSize
           y == (q - k) % ByteSize
<1>1. /\ l \in Nat /\ FieldSize <= l /\ l < ByteSize /\ c \in Nat /\ l >= ByteSize - c
      /\ (q = 1 \/ q = l) /\ k \in Nat /\ 1 <= k /\ k <= Leap /\ c + Leap + 1 < FieldSize
      /\ Leap \in Nat
    BY Fields, ShopFields, PartyFits
<1>2. ByteSize \in Nat \ {0} /\ FieldSize \in Nat \ {0} /\ ByteSize = 2 * FieldSize
    BY Fields, ShopFields
<1>3. UpBy(k) = (IF Negative(x - l) THEN x ELSE l) /\ DownBy(k) = IF Negative(y - 1) THEN 1 ELSE y
    BY DEF UpBy, DownBy
<1>4. /\ x = IF q + k < ByteSize THEN q + k ELSE q + k - ByteSize
      /\ y = IF q - k >= 0 THEN q - k ELSE q - k + ByteSize
    <2>1. q \in 0 .. ByteSize - 1
        BY <1>1, <1>2
    <2> QED
        BY <2>1, StepIs
<1> HIDE DEF q, l, x, y, c
<1>6. ~ Negative(x - l)
    <2>1. /\ x - l \in Int /\ - ByteSize <= x - l /\ x - l < FieldSize
          /\ (x - l < 0 => x - l < - FieldSize) /\ x - l < ByteSize
        <3>1. CASE q = 1
            BY <1>1, <1>2, <1>4, <3>1
        <3>2. CASE q = l
            BY <1>1, <1>2, <1>4, <3>2
        <3> QED
            BY <1>1, <3>1, <3>2
    <2>2. Negative(x - l) <=> (x - l >= FieldSize \/ (x - l < 0 /\ x - l >= - FieldSize))
        BY <2>1, NegativeIs
    <2> QED
        BY <2>1, <2>2, <1>2
<1>7. Negative(y - 1)
    <2>1. /\ y - 1 \in Int /\ - ByteSize <= y - 1 /\ y - 1 < ByteSize
          /\ (y - 1 >= FieldSize \/ y - 1 = -1)
        <3>1. CASE q = 1
            BY <1>1, <1>2, <1>4, <3>1
        <3>2. CASE q = l
            BY <1>1, <1>2, <1>4, <3>2
        <3> QED
            BY <1>1, <3>1, <3>2
    <2>2. Negative(y - 1) <=> (y - 1 >= FieldSize \/ (y - 1 < 0 /\ y - 1 >= - FieldSize))
        BY <2>1, NegativeIs
    <2> QED
        BY <2>1, <2>2, <1>2
<1> QED
    BY <1>3, <1>6, <1>7 DEF l

(* What an open purchase says of the bag and the members.                   *)
LEMMA PurchaseIs ==
    ASSUME GoodsInv, deal.kind \in {"buy", "forfeit"}, Live,
           NEW n, n = Count(bag, deal.item), NEW w, w = Worn(worn, deal.item),
           NEW q, q = deal.quantity
    PROVE  /\ deal.item \in Items /\ q \in 1 .. deal.limit
           /\ deal.limit \in 1 .. ByteSize - 1
           /\ deal.kind = "forfeit" => /\ deal.limit <= stock[deal.item]
                                       /\ stock[deal.item] \in 0 .. StockCap
           /\ Sound(deal.item) =>
                /\ n \in 0 .. Cap /\ w \in 0 .. Cardinality(Members)
                /\ n + w <= Cap => deal.limit <= Cap - n - w
                /\ n + w > Cap /\ deal.kind = "buy" =>
                    /\ deal.limit = Cap - n - w + ByteSize /\ deal.limit >= FieldSize
                    /\ q = 1 \/ q = deal.limit
<1>1. /\ deal.item \in Items /\ deal.limit = BuyLimit(deal.kind, deal.item)
      /\ q \in Lesser(1, deal.limit) .. deal.limit
      /\ Sound(deal.item) /\ Negative(deal.limit) => q \in {1, deal.limit}
    BY DEF GoodsInv, DealStands
<1>2. /\ deal.limit \in 0 .. ByteSize - 1
      /\ deal.kind = "forfeit" => /\ deal.limit <= stock[deal.item]
                                  /\ stock[deal.item] \in 0 .. StockCap
      /\ Sound(deal.item) =>
            /\ n \in 0 .. Cap /\ w \in 0 .. Cardinality(Members)
            /\ n + w <= Cap => deal.limit <= Cap - n - w
            /\ n + w > Cap /\ deal.kind = "buy" =>
                deal.limit = Cap - n - w + ByteSize /\ deal.limit >= FieldSize
    BY <1>1, BuyLimitIs
<1>3. deal.limit \in 1 .. ByteSize - 1
    BY <1>2, Fields DEF Live
<1>4. q \in 1 .. deal.limit
    BY <1>1, <1>3, Fields DEF Lesser
<1>5. deal.limit >= FieldSize => Negative(deal.limit)
    <2>1. deal.limit \in Int /\ - ByteSize <= deal.limit /\ deal.limit < ByteSize
        BY <1>3, Fields, ShopFields
    <2> QED
        BY <2>1, NegativeIs
<1> QED
    BY <1>1, <1>2, <1>3, <1>4, <1>5

(* What an open sale says of its slot.                                      *)
LEMMA SaleIs ==
    ASSUME GoodsInv, deal.kind = "sell",
           NEW s, s = deal.slot, NEW i, i = deal.item, NEW q, q = deal.quantity
    PROVE  /\ s \in Slots /\ bag[s].item = i /\ bag[s].n = deal.limit
           /\ i \in Items /\ i # None /\ i \notin Kept
           /\ deal.limit \in 0 .. FieldSize - 1 /\ q \in Nat
           /\ deal.limit = 0 => q \in {0, 1}
           /\ deal.limit # 0 => q \in 1 .. deal.limit
           /\ Sound(i) => deal.limit # 0
<1>1. /\ s \in Slots /\ bag[s] = Slot(i, deal.limit) /\ i \in Items \ Kept
      /\ q \in IF deal.limit = 0 THEN {0, 1} ELSE 1 .. deal.limit
    BY DEF GoodsInv, DealStands
<1>2. bag[s].item = i /\ bag[s].n = deal.limit
    BY <1>1 DEF Slot
<1>3. bag[s].n \in 0 .. FieldSize - 1
    BY <1>1, Parts DEF Packed
<1> QED
    BY <1>1, <1>2, <1>3, Fields DEF Sound

LEMMA AdjustStep ==
    ASSUME GoodsInv, AdjustQuantity
    PROVE  GoodsInv'
<1>1. /\ deal # NoDeal /\ Live /\ Resting /\ UNCHANGED <<goods, gold>>
    BY DEF AdjustQuantity
<1>2. PICK k \in {1, Leap} : \E q \in {UpBy(k), DownBy(k)} : deal' = [deal EXCEPT !.quantity = q]
    BY DEF AdjustQuantity
<1>3. PICK q \in {UpBy(k), DownBy(k)} : deal' = [deal EXCEPT !.quantity = q]
    BY <1>2
<1>4. deal \in [kind : {"none", "buy", "forfeit", "sell"}, item : Items \cup {None},
                slot : 0 .. Capacity, quantity : 0 .. ByteSize - 1, limit : 0 .. ByteSize - 1]
    BY DEF GoodsInv, GoodsTypeOK
<1>5. deal' = [kind |-> deal.kind, item |-> deal.item, slot |-> deal.slot,
               quantity |-> q, limit |-> deal.limit]
    BY <1>3, <1>4
<1>6. bag' = bag /\ worn' = worn /\ stock' = stock
    BY <1>1 DEF goods
<1>7. deal.kind \in {"buy", "forfeit", "sell"}
    BY <1>1, <1>4 DEF GoodsInv, DealStands
<1>8. q \in 0 .. ByteSize - 1 /\ DealStands' => GoodsInv'
    <2> SUFFICES ASSUME q \in 0 .. ByteSize - 1, DealStands' PROVE GoodsInv'
        OBVIOUS
    <2>1. deal' \in [kind : {"none", "buy", "forfeit", "sell"}, item : Items \cup {None},
                     slot : 0 .. Capacity, quantity : 0 .. ByteSize - 1,
                     limit : 0 .. ByteSize - 1]
        BY <1>4, <1>5
    <2> QED
        BY <1>1, <2>1, DealStep
<1>9. CASE deal.kind = "sell"
    <2>1. /\ deal.slot \in Slots /\ bag[deal.slot] = Slot(deal.item, deal.limit)
          /\ deal.item \in Items \ Kept
        BY <1>9 DEF GoodsInv, DealStands
    <2>2. /\ deal.limit \in 0 .. FieldSize - 1
          /\ deal.limit = 0 => deal.quantity \in {0, 1}
          /\ deal.limit # 0 => deal.quantity \in 1 .. deal.limit
        BY <1>9, SaleIs
    <2>3. q \in IF deal.limit = 0 THEN {0, 1} ELSE 1 .. deal.limit
        <3>1. CASE deal.limit = 0
            BY <1>3, <2>2, <3>1, AdjustNothing
        <3>2. CASE deal.limit # 0
            <4>1. deal.limit \in 1 .. ByteSize - 1
                BY <2>2, <3>2, Fields, ShopFields
            <4> QED
                BY <1>3, <2>2, <3>2, <4>1, AdjustWithin
        <3> QED
            BY <3>1, <3>2
    <2>4. DealStands'
        BY <1>5, <1>6, <1>9, <2>1, <2>3 DEF DealStands
    <2>5. q \in 0 .. ByteSize - 1
        BY <2>2, <2>3, Fields, ShopFields
    <2> QED
        BY <1>8, <2>4, <2>5
<1>10. CASE deal.kind \in {"buy", "forfeit"}
    <2> DEFINE n == Count(bag, deal.item)
               w == Worn(worn, deal.item)
    <2>1. /\ deal.item \in Items /\ deal.quantity \in 1 .. deal.limit
          /\ deal.limit \in 1 .. ByteSize - 1
          /\ deal.kind = "forfeit" => /\ deal.limit <= stock[deal.item]
                                      /\ stock[deal.item] \in 0 .. StockCap
          /\ Sound(deal.item) =>
                /\ n \in 0 .. Cap /\ w \in 0 .. Cardinality(Members)
                /\ n + w <= Cap => deal.limit <= Cap - n - w
                /\ n + w > Cap /\ deal.kind = "buy" =>
                    /\ deal.limit = Cap - n - w + ByteSize /\ deal.limit >= FieldSize
                    /\ deal.quantity = 1 \/ deal.quantity = deal.limit
        BY <1>1, <1>10, PurchaseIs
    <2> HIDE DEF n, w
    <2>2. q \in 1 .. deal.limit
        BY <1>3, <2>1, AdjustWithin
    <2>3. Sound(deal.item) /\ deal.limit >= FieldSize =>
            /\ deal.limit \in FieldSize .. ByteSize - 1
            /\ deal.limit >= ByteSize - Cardinality(Members)
            /\ deal.quantity \in {1, deal.limit}
        BY <1>10, <2>1, Fields, ShopFields, PartyFits
    <2>4. Sound(deal.item) /\ deal.limit >= FieldSize => q \in {1, deal.limit}
        BY <1>3, <2>3, AdjustWrapped
    <2>5. Negative(deal.limit) => deal.limit >= FieldSize
        <3>1. deal.limit \in Int /\ - ByteSize <= deal.limit /\ deal.limit < ByteSize
              /\ deal.limit >= 0
            BY <2>1, Fields, ShopFields
        <3> QED
            BY <3>1, NegativeIs
    <2>6. Lesser(1, deal.limit) = 1
        BY <2>1, Fields DEF Lesser
    <2>7. /\ deal.limit = BuyLimit(deal.kind, deal.item)
          /\ BuyLimit(deal.kind, deal.item)' = BuyLimit(deal.kind, deal.item)
        <3>1. deal.limit = BuyLimit(deal.kind, deal.item)
            BY <1>10 DEF GoodsInv, DealStands
        <3>2. deal'.kind = deal.kind /\ deal'.item = deal.item
            BY <1>5
        <3> QED
            BY <1>6, <3>1, <3>2 DEF BuyLimit, Count, Holding, Worn
    <2>8. DealStands'
        BY <1>5, <1>6, <1>10, <2>1, <2>2, <2>4, <2>5, <2>6, <2>7
           DEF DealStands, BuyLimit, Negative, Sound
    <2>9. q \in 0 .. ByteSize - 1
        BY <2>1, <2>2, Fields, ShopFields
    <2> QED
        BY <1>8, <2>8, <2>9
<1> QED
    BY <1>7, <1>9, <1>10

-----------------------------------------------------------------------------
(* Closing a deal.                                                          *)

(* What is paid leaves gold and stock in their ranges.                      *)
LEMMA PayOK ==
    ASSUME GoodsInv, deal.kind \in {"buy", "forfeit"}, Live, gold >= Cost, Pay
    PROVE  gold' \in 0 .. GoldSize - 1 /\ stock' \in [Items -> 0 .. StockCap]
<1>1. /\ deal.item \in Items /\ deal.quantity \in 1 .. deal.limit
      /\ deal.limit \in 1 .. ByteSize - 1
      /\ deal.kind = "forfeit" => /\ deal.limit <= stock[deal.item]
                                  /\ stock[deal.item] \in 0 .. StockCap
    BY PurchaseIs
<1>2. Cost \in Nat
    <2>1. deal.quantity \in Nat /\ BuyPrice[deal.item] \in Nat
        BY <1>1, ShopAssumption
    <2> QED
        BY <2>1 DEF Cost
<1>3. gold' \in 0 .. GoldSize - 1
    <2> HIDE DEF Cost
    <2>1. gold \in 0 .. GoldSize - 1 /\ gold' = gold - Cost /\ GoldSize \in Nat
        BY Parts, ShopAssumption DEF Pay
    <2> QED
        BY <1>2, <2>1
<1>4. CASE deal.kind = "forfeit"
    <2>1. stock[deal.item] - deal.quantity \in 0 .. StockCap
        BY <1>1, <1>4, Fields
    <2>2. stock' = [stock EXCEPT ![deal.item] = stock[deal.item] - deal.quantity]
        BY <1>4 DEF Pay
    <2> QED
        BY <1>3, <2>1, <2>2, Parts
<1>5. CASE deal.kind # "forfeit"
    BY <1>3, <1>5, Parts DEF Pay
<1> QED
    BY <1>4, <1>5

(* Also what the byte made too much leaves a count within the limit.        *)
LEMMA BuyBag ==
    ASSUME GoodsInv, BuyForBag
    PROVE  Packed(bag') /\ Keeps(bag, bag')
<1> DEFINE i == deal.item
           q == deal.quantity
           n == Count(bag, i)
           w == Worn(worn, i)
           r == Raised(n, q)
           b == bag
           c == bag'
<1>1. deal.kind \in {"buy", "forfeit"} /\ Live
    BY DEF BuyForBag, Accepting
<1>2. /\ i \in Items /\ q \in 1 .. deal.limit
      /\ deal.limit \in 1 .. ByteSize - 1
      /\ deal.kind = "forfeit" => deal.limit <= stock[i] /\ stock[i] \in 0 .. StockCap
      /\ Sound(i) =>
            /\ n \in 0 .. Cap /\ w \in 0 .. Cardinality(Members)
            /\ n + w <= Cap => deal.limit <= Cap - n - w
            /\ n + w > Cap /\ deal.kind = "buy" =>
                /\ deal.limit = Cap - n - w + ByteSize /\ deal.limit >= FieldSize
                /\ q = 1 \/ q = deal.limit
    BY <1>1, PurchaseIs
<1>3. /\ Packed(b) /\ n = Count(b, i) /\ r = Raised(Count(b, i), q)
      /\ Sound(i) /\ Holding(b, i) # {} => n \in 1 .. Cap
      /\ Holding(b, i) = {} => n = 0
    BY <1>2, CountIn, Parts DEF Sound, Within
<1>4. c = b \/ c = Stored(b, i, q)
    BY DEF BuyForBag
<1>5. Sound(i) <=> Within(b, i)
    BY DEF Sound, Within
<1> HIDE DEF n, w, q, r, b, c, i
<1>6. q \in Nat /\ q >= 1
    BY <1>2
<1>7. Sound(i) /\ Holding(b, i) # {} => r \in 1 .. Cap
    <2> SUFFICES ASSUME Sound(i), Holding(b, i) # {} PROVE Raised(n, q) \in 1 .. Cap
        BY <1>3
    <2>1. n \in 1 .. Cap /\ n + q \in Int
        BY <1>3, <1>6
    <2>2. (n + q) % FieldSize \in 1 .. FieldSize - 1
        <3>1. CASE n + q < FieldSize
            <4>1. n + q \in 0 .. FieldSize - 1
                BY <1>6, <2>1, <3>1, Fields
            <4>2. (n + q) % FieldSize = n + q
                BY <4>1, Fields, Mod
            <4> QED
                BY <1>6, <2>1, <3>1, <4>2, Fields
        <3>2. CASE n + q >= FieldSize
            <4>1. /\ n + w > Cap /\ deal.kind = "buy" /\ q = deal.limit
                  /\ n + q = (Cap - w) + 2 * FieldSize
                BY <1>1, <1>2, <1>6, <2>1, <3>2, Fields, ShopFields, PartyFits
            <4>2. Cap - w \in 1 .. Cap /\ Cap - w \in 0 .. FieldSize - 1
                BY <1>2, Fields, PartyFits
            <4>3. ((Cap - w) + 2 * FieldSize) % FieldSize = Cap - w
                BY <4>2, Fields, Mod
            <4> QED
                BY <4>1, <4>2, <4>3, Fields
        <3> QED
            BY <1>6, <2>1, <3>1, <3>2, Fields
    <2> QED
        BY <2>2, Fields DEF Raised, Lesser
<1>8. Sound(i) /\ Holding(b, i) = {} => q % FieldSize \in 1 .. Cap
    <2> SUFFICES ASSUME Sound(i), Holding(b, i) = {} PROVE q % FieldSize \in 1 .. Cap
        OBVIOUS
    <2>1. q <= Cap /\ q \in 0 .. FieldSize - 1
        BY <1>2, <1>3, <1>6, Fields, PartyFits
    <2>2. q % FieldSize = q
        BY <2>1, Fields, Mod
    <2> QED
        BY <1>6, <2>1, <2>2
<1>9. CASE c = b
    BY <1>3, <1>9 DEF Keeps, b, c
<1>10. CASE c = Stored(b, i, q)
    <2>1. /\ Packed(c)
          /\ \A j \in Items \ {i} : Count(c, j) = Count(b, j) /\ (Within(b, j) => Within(c, j))
          /\ Holding(b, i) # {} => Count(c, i) = r /\ (r \in 1 .. Cap => Within(c, i))
          /\ Holding(b, i) = {} /\ Free(b) # {} =>
                Count(c, i) = q % FieldSize /\ (q % FieldSize \in 1 .. Cap => Within(c, i))
          /\ Holding(b, i) = {} /\ Free(b) = {} => c = b
        BY <1>2, <1>3, <1>6, <1>10, StoredIn
    <2>2. Within(b, i) => Within(c, i)
        BY <1>5, <1>7, <1>8, <2>1
    <2> QED
        BY <2>1, <2>2 DEF Keeps, b, c
<1> QED
    BY <1>4, <1>9, <1>10

LEMMA BuyStep ==
    ASSUME GoodsInv, BuyForBag
    PROVE  GoodsInv'
<1>1. /\ deal.kind \in {"buy", "forfeit"} /\ Live /\ Resting /\ deal' = NoDeal
      /\ UNCHANGED <<worn, pending>> /\ Packed(bag')
    BY BuyBag DEF BuyForBag, Accepting
<1>2. CASE gold >= Cost /\ BagTakes
    <2>1. Pay
        BY <1>2 DEF BuyForBag
    <2>2. gold' \in 0 .. GoldSize - 1 /\ stock' \in [Items -> 0 .. StockCap]
        BY <1>1, <1>2, <2>1, PayOK
    <2> QED
        BY <1>1, <2>2, Parts, RestStep
<1>3. CASE ~ (gold >= Cost /\ BagTakes)
    BY <1>1, <1>3, Parts, RestStep DEF BuyForBag
<1> QED
    BY <1>2, <1>3

(* What buying for a member does to the bag and the member.                 *)
LEMMA BuyWornIs ==
    ASSUME GoodsInv, NEW m \in Members, BuyAndEquip(m), NEW d, d = deal.item,
           NEW p, p = Place[d], NEW x, x = worn[m][p]
    PROVE  /\ d \in Items /\ p \in Places /\ Fits(m, p, d) /\ x \in Items \cup {None}
           /\ \/ UNCHANGED <<bag, worn, stock, gold>>
              \/ /\ IF x = None THEN bag' = bag ELSE OneMore(bag, bag', x)
                 /\ Wear(m, p, d) /\ Pay
<1>1. /\ deal.kind \in {"buy", "forfeit"} /\ Live /\ Fits(m, p, d) /\ p # 0
    BY DEF BuyAndEquip, Accepting
<1>2. d \in Items /\ p \in Places
    <2>1. d \in Items
        BY <1>1, PurchaseIs
    <2>2. p \in 0 .. PlaceCount
        BY <2>1, InventoryAssumption
    <2> QED
        BY <1>1, <2>1, <2>2, Fields DEF Places
<1>3. x \in Items \cup {None}
    BY <1>2, Parts DEF WornOK
<1>4. CASE ~ (x = None \/ Room(bag, x))
    <2>1. UNCHANGED <<bag, worn, stock, gold>>
        BY <1>4 DEF BuyAndEquip
    <2> QED
        BY <1>1, <1>2, <1>3, <2>1
<1>5. CASE x = None \/ Room(bag, x)
    <2>1. /\ bag' = IF x = None THEN bag ELSE Stored(bag, x, 1)
          /\ Wear(m, p, d) /\ Pay
        BY <1>5 DEF BuyAndEquip
    <2>2. x # None => OneMore(bag, bag', x)
        <3> DEFINE b == bag
                   c == bag'
        <3>1. x # None => x \in Items /\ Room(b, x) /\ c = Stored(b, x, 1) /\ Packed(b)
            BY <1>3, <1>5, <2>1, Parts
        <3> HIDE DEF b, c
        <3>2. x # None => OneMore(b, c, x)
            BY <3>1, StoredMore
        <3> QED
            BY <3>2 DEF b, c
    <2>3. IF x = None THEN bag' = bag ELSE OneMore(bag, bag', x)
        BY <2>1, <2>2
    <2> QED
        BY <1>1, <1>2, <1>3, <2>1, <2>3
<1> QED
    BY <1>4, <1>5

LEMMA BuyWornStep ==
    ASSUME GoodsInv, NEW m \in Members, BuyAndEquip(m)
    PROVE  GoodsInv'
<1> DEFINE d == deal.item
           p == Place[d]
           x == worn[m][p]
<1>1. /\ deal.kind \in {"buy", "forfeit"} /\ Live /\ Resting /\ deal' = NoDeal
      /\ UNCHANGED pending /\ gold >= Cost
    BY DEF BuyAndEquip, Accepting
<1>2. /\ d \in Items /\ p \in Places /\ Fits(m, p, d) /\ x \in Items \cup {None}
      /\ \/ UNCHANGED <<bag, worn, stock, gold>>
         \/ /\ IF x = None THEN bag' = bag ELSE OneMore(bag, bag', x)
            /\ Wear(m, p, d) /\ Pay
    BY BuyWornIs
<1> HIDE DEF d, p, x
<1>3. CASE UNCHANGED <<bag, worn, stock, gold>>
    BY <1>1, <1>3, Parts, RestStep
<1>4. CASE /\ IF x = None THEN bag' = bag ELSE OneMore(bag, bag', x)
           /\ Wear(m, p, d) /\ Pay
    <2>1. Packed(bag')
        BY <1>4, Parts DEF OneMore
    <2>2. worn' = [worn EXCEPT ![m][p] = d]
        BY <1>4 DEF Wear
    <2>3. WornOK(worn')
        BY <1>2, <2>2, Parts, WornSet
    <2>4. gold' \in 0 .. GoldSize - 1 /\ stock' \in [Items -> 0 .. StockCap]
        BY <1>1, <1>4, PayOK
    <2> QED
        BY <1>1, <2>1, <2>3, <2>4, Parts, RestStep
<1> QED
    BY <1>2, <1>3, <1>4

(* A sale takes what is there, and of nothing it takes nothing or wraps.    *)
LEMMA SellBag ==
    ASSUME GoodsInv, SellItem, NEW d, d = deal.item, NEW q, q = deal.quantity
    PROVE  /\ Packed(bag') /\ Keeps(bag, bag') /\ d \in Items /\ q \in Nat
           /\ \A j \in Items \ {d} : Count(bag', j) = Count(bag, j)
           /\ Sound(d) => Count(bag', d) = Count(bag, d) - q /\ q \in 0 .. Cap
<1> DEFINE s == deal.slot
           b == bag
           c == bag'
<1>1. deal.kind = "sell" /\ c = Lowered(b, s, q)
    BY DEF SellItem, Accepting, Lose
<1>2. /\ s \in Slots /\ b[s].item = d /\ b[s].n = deal.limit /\ d \in Items /\ d # None
      /\ deal.limit \in 0 .. FieldSize - 1 /\ q \in Nat
      /\ deal.limit # 0 => q \in 1 .. deal.limit
      /\ Sound(d) => deal.limit # 0
    BY <1>1, SaleIs
<1>3. /\ Packed(b) /\ Sound(d) => Within(b, d)
    BY DEF Sound, Within
<1>4. Packed(b)
    BY Parts
<1> HIDE DEF s, b, c
<1>5. /\ Packed(c)
      /\ \A j \in Items \ {d} : Count(c, j) = Count(b, j) /\ (Within(b, j) => Within(c, j))
      /\ Within(b, d) /\ q % FieldSize <= b[s].n =>
            Count(c, d) = Count(b, d) - (q % FieldSize) /\ Within(c, d)
    BY <1>1, <1>2, <1>4, LoweredIn
<1>6. Sound(d) <=> Within(b, d)
    BY DEF Sound, Within, b
<1>7. Sound(d) => q % FieldSize = q /\ q <= b[s].n /\ b[s].n <= Cap
    <2> SUFFICES ASSUME Sound(d) PROVE q % FieldSize = q /\ q <= b[s].n /\ b[s].n <= Cap
        OBVIOUS
    <2>1. q \in 0 .. FieldSize - 1 /\ q <= b[s].n
        BY <1>2, Fields
    <2>2. q % FieldSize = q
        BY <2>1, Fields, Mod
    <2>3. b[s].n \in 1 .. Cap
        BY <1>2, <1>6 DEF Within
    <2> QED
        BY <2>1, <2>2, <2>3, Fields
<1>8. Sound(d) => Count(c, d) = Count(b, d) - q /\ q \in 0 .. Cap /\ Within(c, d)
    BY <1>2, <1>5, <1>6, <1>7, Fields
<1>9. Keeps(b, c)
    BY <1>5, <1>6, <1>8 DEF Keeps
<1> QED
    BY <1>2, <1>5, <1>8, <1>9 DEF b, c

LEMMA SellStep ==
    ASSUME GoodsInv, SellItem
    PROVE  GoodsInv'
<1> DEFINE i == deal.item
           q == deal.quantity
<1>1. /\ Resting /\ deal' = NoDeal /\ UNCHANGED <<worn, pending>>
      /\ stock' = Restocked(stock, i, q)
      /\ gold' = Capped(gold + q * SellPrice[i])
    BY DEF SellItem, Accepting
<1>2. Packed(bag') /\ i \in Items /\ q \in Nat
    BY SellBag
<1> HIDE DEF i, q
<1>3. SellPrice[i] \in Nat /\ gold \in Nat
    BY <1>2, Parts, ShopAssumption
<1>4. gold + q * SellPrice[i] \in Nat
    BY <1>2, <1>3
<1>5. gold' \in 0 .. GoldSize - 1
    BY <1>1, <1>4, CappedType
<1>6. stock' \in [Items -> 0 .. StockCap]
    BY <1>1, <1>2, Parts, RestockedType
<1> QED
    BY <1>1, <1>2, <1>5, <1>6, Parts, RestStep

-----------------------------------------------------------------------------
(* The theorem.                                                             *)

LEMMA GoodsInit ==
    ASSUME Init
    PROVE  GoodsInv
<1>1. GoodsTypeOK
    <2>1. /\ 1 \in Places /\ 1 <= StrongPlaces /\ GoldCap < GoldSize /\ GoldCap \in Nat
          /\ StartGold \in 0 .. GoldCap /\ GoldSize \in Nat
        BY Fields, ShopAssumption DEF Places
    <2>2. NoDeal \in [kind : {"none", "buy", "forfeit", "sell"}, item : Items \cup {None},
                      slot : 0 .. Capacity, quantity : 0 .. ByteSize - 1,
                      limit : 0 .. ByteSize - 1]
        BY Fields, ShopFields DEF NoDeal
    <2>3. bag \in [Slots -> [item : Items \cup {None}, n : 0 .. FieldSize - 1]]
        <3>1. 0 \in 0 .. FieldSize - 1
            BY Fields
        <3> QED
            BY <3>1 DEF Init, InventoryInit, Empty, Slot
    <2>4. stock \in [Items -> 0 .. StockCap] /\ picks \in [1 .. StrongPlaces -> 0 .. Capacity]
        BY Fields DEF Init, InventoryInit
    <2>5. gold \in 0 .. GoldSize - 1
        BY <2>1 DEF Init
    <2> QED
        BY <2>1, <2>2, <2>3, <2>4, <2>5 DEF Init, InventoryInit, GoodsTypeOK
<1>2. OneSlotPerItem
    BY DEF Init, InventoryInit, OneSlotPerItem, Empty, Slot
<1>3. EquipmentFits /\ PicksStand
    BY DEF Init, InventoryInit, EquipmentFits, PicksStand
<1>4. DealStands
    BY DEF Init, DealStands, NoDeal
<1> QED
    BY <1>1, <1>2, <1>3, <1>4 DEF GoodsInv

LEMMA GoodsNext ==
    ASSUME GoodsInv, Next
    PROVE  GoodsInv'
<1>1. CASE Closed /\ Goods /\ UNCHANGED gold
    <2> USE <1>1
    <2>1. CASE (\E i \in Items : FindItem(i)) \/ ClosePending \/ UsePending
        BY <2>1, FoundStep
    <2>2. CASE \/ \E i \in Items, n \in Gifts : Receive(i, n)
               \/ \E i \in Items, n \in Takes : RemoveRequested(i, n)
        BY <2>2, ReceiveStep, RemoveStep
    <2>3. CASE \E s \in Slots : Consume(s) \/ Feed(s) \/ Discard(s)
        BY <2>3, LoseStep
    <2>4. CASE \E s, t \in Slots : Swap(s, t)
        BY <2>4, OrderStep
    <2>5. CASE Sort
        BY <2>5, OrderStep
    <2>6. CASE \E m \in Members, p \in Places : Unequip(m, p) \/ DiscardEquipped(m, p)
        BY <2>6, EquipStep
    <2>7. CASE \E m \in Members, p \in Places, s \in Slots : Equip(m, p, s)
        BY <2>7, EquipStep
    <2>8. CASE \E m \in Members : BeginUnequipAll(m) \/ BeginStrongest(m)
        BY <2>8, BeginStep
    <2>9. CASE UnequipNext
        BY <2>9, UnequipNextStep
    <2>10. CASE EquipStrongest
        BY <2>10, EquipStrongestStep
    <2> QED
        BY <2>1, <2>2, <2>3, <2>4, <2>5, <2>6, <2>7, <2>8, <2>9, <2>10 DEF Goods
<1>2. CASE Money
    BY <1>2, GoldStep, CureStep DEF Money
<1>3. CASE Deals
    <2>1. CASE \E i \in Offers : PreparePurchase("buy", i)
        BY <2>1, PurchaseStep, ShopAssumption
    <2>2. CASE \E i \in Items : PreparePurchase("forfeit", i)
        BY <2>2, PurchaseStep
    <2>3. CASE \E s \in Slots : PrepareSale(s)
        BY <2>3, SaleStep
    <2>4. CASE AdjustQuantity
        BY <2>4, AdjustStep
    <2>5. CASE GiveUp
        BY <2>5, Parts, RestStep DEF GiveUp, goods
    <2>6. CASE BuyForBag
        BY <2>6, BuyStep
    <2>7. CASE SellItem
        BY <2>7, SellStep
    <2>8. CASE \E m \in Members : BuyAndEquip(m)
        BY <2>8, BuyWornStep
    <2> QED
        BY <1>3, <2>1, <2>2, <2>3, <2>4, <2>5, <2>6, <2>7, <2>8 DEF Deals
<1> QED
    BY <1>1, <1>2, <1>3 DEF Next

LEMMA GoodsKept ==
    ASSUME GoodsInv, UNCHANGED vars
    PROVE  GoodsInv'
<1>1. UNCHANGED <<bag, worn, stock, pending, work, member, place, full, picks, gold, deal>>
    BY DEF vars, inventory, goods, walk
<1>2. GoodsTypeOK' /\ OneSlotPerItem' /\ EquipmentFits'
    BY <1>1 DEF GoodsInv, GoodsTypeOK, OneSlotPerItem, EquipmentFits
<1>3. PicksStand'
    BY <1>1 DEF GoodsInv, PicksStand, Locked, Wearable
<1>4. DealStands'
    BY <1>1 DEF GoodsInv, DealStands, BuyLimit, Count, Holding, Worn, Negative, Sound
<1> QED
    BY <1>2, <1>3, <1>4 DEF GoodsInv

(* For every bag, party, shop and every sequence of menu operations, walks  *)
(* over the equipment, battles, scripts, rewards and deals, whatever counts *)
(* scripts leave: no two slots hold the same item, every worn item belongs  *)
(* where it is, the slots chosen for the strongest equipment still hold it  *)
(* when their turn comes, and an open deal stays within what it was opened  *)
(* for.                                                                     *)
THEOREM GoodsInvariant == Spec => []GoodsInv
<1>1. Init => GoodsInv
    BY GoodsInit
<1>2. GoodsInv /\ [Next]_vars => GoodsInv'
    BY GoodsNext, GoodsKept
<1> QED
    BY <1>1, <1>2, PTL DEF Spec

-----------------------------------------------------------------------------
(* Moves.                                                                   *)

LEMMA SoundIs ==
    ASSUME NEW i \in Items
    PROVE  (Sound(i) <=> Within(bag, i)) /\ (Sound(i)' <=> Within(bag', i))
BY DEF Sound, Within

(* A found item fits or waits; when the menu closes it is in the bag.       *)
LEMMA FindGives ==
    ASSUME GoodsInv, NEW i \in Items, FindItem(i), Sound(i)
    PROVE  After(i) = Now(i) + 1
<1>1. /\ pending = None /\ worn' = worn /\ None # i /\ Within(bag, i)
      /\ Count(bag, i) \in Nat /\ Worn(worn, i) \in Nat
    BY Parts, CountIn, WornCount, SoundIs, Fields DEF FindItem
<1>2. CASE Room(bag, i)
    <2> DEFINE b == bag
               c == bag'
    <2>1. Packed(b) /\ Room(b, i) /\ c = Stored(b, i, 1) /\ pending' = None
        BY <1>2, Parts DEF FindItem
    <2> HIDE DEF b, c
    <2>2. OneMore(b, c, i)
        BY <2>1, StoredMore
    <2>3. Count(bag', i) = Count(bag, i) + 1
        BY <1>1, <2>2 DEF OneMore, One, b, c
    <2> QED
        BY <1>1, <2>1, <2>3 DEF After, Now, Total
<1>3. CASE ~ Room(bag, i)
    BY <1>1, <1>3 DEF FindItem, After, Now, Total
<1> QED
    BY <1>2, <1>3

(* The waiting item goes to the bag.                                        *)
LEMMA CloseMoves ==
    ASSUME GoodsInv, ClosePending, NEW i \in Items, Sound(i)
    PROVE  After(i) = Now(i)
<1> DEFINE x == pending
           b == bag
           c == bag'
<1>1. /\ Packed(b) /\ x \in Items /\ Room(b, x) /\ c = Stored(b, x, 1)
      /\ pending' = None /\ worn' = worn /\ None # i /\ Within(b, i)
      /\ Count(bag, i) \in Nat /\ Worn(worn, i) \in Nat
    BY Parts, CountIn, WornCount, SoundIs, Fields DEF ClosePending
<1> HIDE DEF b, c, x
<1>2. OneMore(b, c, x)
    BY <1>1, StoredMore
<1>3. Count(bag', i) = Count(bag, i) + One(x = i)
    BY <1>1, <1>2 DEF OneMore, b, c
<1> QED
    BY <1>1, <1>3 DEF After, Now, Total, One, x

(* What an operation on the equipment does to the bag and the members.      *)
LEMMA GearMoves ==
    ASSUME GoodsInv,
           \/ \E m \in Members, p \in Places : Unequip(m, p)
           \/ \E m \in Members, p \in Places, s \in Slots : Equip(m, p, s)
           \/ UnequipNext \/ EquipStrongest
    PROVE  Same(bag, worn, bag', worn') /\ pending' = pending
<1>1. CASE \E m \in Members, p \in Places : Unequip(m, p)
    BY <1>1, Parts, TakeOffIn DEF Unequip
<1>2. CASE \E m \in Members, p \in Places, s \in Slots : Equip(m, p, s)
    BY <1>2, Parts, PutOnIn DEF Equip
<1>3. UNCHANGED <<bag, worn>> => Same(bag, worn, bag', worn')
    BY DEF Same, Keeps
<1>4. CASE UnequipNext
    <2>1. member \in Members /\ place \in Places /\ pending' = pending
        BY <1>4 DEF GoodsInv, GoodsTypeOK, UnequipNext
    <2>2. CASE CanTakeOff(member, place, full)
        BY <1>4, <2>1, <2>2, Parts, TakeOffIn DEF UnequipNext
    <2>3. CASE ~ CanTakeOff(member, place, full)
        BY <1>3, <1>4, <2>1, <2>3 DEF UnequipNext
    <2> QED
        BY <2>2, <2>3
<1>5. CASE EquipStrongest
    <2> DEFINE s == picks[place]
    <2>1. /\ member \in Members /\ place \in Places /\ place \in 1 .. StrongPlaces
          /\ pending' = pending /\ picks \in [1 .. StrongPlaces -> 0 .. Capacity]
          /\ IF s # 0 /\ CanPutOn(member, place, s, full) THEN PutOn(member, place, s, full)
             ELSE UNCHANGED <<bag, worn>>
        BY <1>5, Fields DEF GoodsInv, GoodsTypeOK, EquipStrongest, Places
    <2>2. s # 0 => s \in Slots /\ Wearable(member, place, s)
        BY <2>1 DEF GoodsInv, PicksStand, Slots
    <2> HIDE DEF s
    <2>3. CASE s # 0 /\ CanPutOn(member, place, s, full)
        BY <2>1, <2>2, <2>3, Parts, PutOnIn
    <2>4. CASE ~ (s # 0 /\ CanPutOn(member, place, s, full))
        BY <1>3, <2>1, <2>4
    <2> QED
        BY <2>3, <2>4
<1> QED
    BY <1>1, <1>2, <1>4, <1>5

(* Whatever is moved, the party has as many of each item as before, if its  *)
(* count is within the limit.                                               *)
LEMMA MovesKeep ==
    ASSUME GoodsInv, Moves, NEW i \in Items, Sound(i)
    PROVE  After(i) = Now(i)
<1>1. CASE ClosePending
    BY <1>1, CloseMoves
<1>2. CASE Sort \/ \E s, t \in Slots : Swap(s, t)
    <2>1. Count(bag', i) = Count(bag, i)
        BY <1>2, Parts, SortBag, SwapBag
    <2> QED
        BY <1>2, <2>1 DEF Sort, Swap, After, Now, Total
<1>3. CASE \/ \E m \in Members, p \in Places : Unequip(m, p)
           \/ \E m \in Members, p \in Places, s \in Slots : Equip(m, p, s)
           \/ UnequipNext \/ EquipStrongest
    <2>1. Same(bag, worn, bag', worn') /\ pending' = pending /\ Within(bag, i)
        BY <1>3, GearMoves, SoundIs
    <2> QED
        BY <2>1 DEF Same, After, Now, Total
<1> QED
    BY <1>1, <1>2, <1>3 DEF Moves

(* Only a script takes a count over its limit.                              *)
LEMMA CountsKept ==
    ASSUME GoodsInv, Next
    PROVE  Keeps(bag, bag') \/ \E i \in Items, n \in Takes : RemoveRequested(i, n)
<1>1. bag' = bag => Keeps(bag, bag')
    BY DEF Keeps
<1>2. CASE Goods
    <2>1. CASE (\E i \in Items : FindItem(i)) \/ ClosePending \/ UsePending
        BY <2>1, Parts, FoundBag
    <2>2. CASE \E i \in Items, n \in Gifts : Receive(i, n)
        BY <2>2, Parts, ReceiveBag
    <2>3. CASE \E s \in Slots : Consume(s) \/ Feed(s) \/ Discard(s)
        BY <2>3, Parts, LoseBag
    <2>4. CASE Sort \/ \E s, t \in Slots : Swap(s, t)
        BY <2>4, Parts, SortBag, SwapBag
    <2>5. CASE \/ \E m \in Members, p \in Places : Unequip(m, p)
               \/ \E m \in Members, p \in Places, s \in Slots : Equip(m, p, s)
               \/ UnequipNext \/ EquipStrongest
        BY <2>5, GearMoves DEF Same
    <2>6. CASE \E m \in Members, p \in Places : DiscardEquipped(m, p)
        BY <1>1, <2>6 DEF DiscardEquipped
    <2>7. CASE \E m \in Members : BeginUnequipAll(m) \/ BeginStrongest(m)
        BY <1>1, <2>7 DEF BeginUnequipAll, BeginStrongest, goods
    <2> QED
        BY <1>2, <2>1, <2>2, <2>3, <2>4, <2>5, <2>6, <2>7 DEF Goods
<1>3. CASE Money
    BY <1>1, <1>3 DEF Money, Reward, TextGold, Cure, LiftCurses, goods
<1>4. CASE Deals
    <2>1. CASE BuyForBag
        BY <2>1, BuyBag
    <2>2. CASE SellItem
        BY <2>2, SellBag
    <2>3. CASE \E m \in Members : BuyAndEquip(m)
        BY <1>1, <2>3, BuyWornIs DEF OneMore
    <2>4. CASE ~ BuyForBag /\ ~ SellItem /\ ~ \E m \in Members : BuyAndEquip(m)
        BY <1>1, <1>4, <2>4
           DEF Deals, PreparePurchase, PrepareSale, AdjustQuantity, GiveUp, goods
    <2> QED
        BY <2>1, <2>2, <2>3, <2>4
<1> QED
    BY <1>2, <1>3, <1>4 DEF Next

LEMMA SoundKept ==
    ASSUME GoodsInv, Next, NEW i \in Items, Sound(i)
    PROVE  Sound(i)' \/ Overdraws(i)
<1>1. CASE Keeps(bag, bag')
    BY <1>1, SoundIs DEF Keeps
<1>2. CASE \E j \in Items, n \in Takes : RemoveRequested(j, n)
    <2>1. Within(bag, i)
        BY SoundIs
    <2>2. Within(bag', i) \/ Overdraws(i)
        BY <1>2, <2>1, Parts, RemoveBag
    <2> QED
        BY <2>2, SoundIs
<1> QED
    BY <1>1, <1>2, CountsKept

(* For every bag, party and limit: an item's count within the limit stays   *)
(* there, and such goods are neither lost nor doubled when they are put on, *)
(* taken off, swapped, sorted or kept, in a full bag and at the limit as    *)
(* well; a found item is one more of it.  Only a script that takes more     *)
(* than there are puts a count out of its limit.                            *)
THEOREM MovesKeepGoods == Spec => MovesConserve
<1>1. GoodsInv /\ [Next]_vars =>
        [\A i \in Items : Sound(i) =>
            /\ Sound(i)' \/ Overdraws(i)
            /\ Moves => After(i) = Now(i)
            /\ FindItem(i) => After(i) = Now(i) + 1]_vars
    BY MovesKeep, FindGives, SoundKept
<1> QED
    BY <1>1, GoodsInvariant, PTL DEF MovesConserve, Spec

-----------------------------------------------------------------------------
(* Deals.                                                                   *)

LEMMA PaidIs ==
    ASSUME deal.kind \in {"buy", "forfeit"}, Pay
    PROVE  /\ gold' = gold - Cost
           /\ stock' = IF deal.kind = "buy" THEN stock
                       ELSE [stock EXCEPT ![deal.item] = @ - deal.quantity]
BY DEF Pay

(* A deal within the limit puts its quantity into the bag.                  *)
LEMMA BuyIsFair ==
    ASSUME GoodsInv, BuyForBag, Sound(deal.item),
           Count(bag, deal.item) + Worn(worn, deal.item) <= Cap
    PROVE  \/ UNCHANGED <<goods, gold>>
           \/ Bought /\ \A i \in Items \ {deal.item} : After(i) = Now(i)
<1> DEFINE d == deal.item
           q == deal.quantity
           b == bag
           c == bag'
           r == Raised(Count(b, d), q)
<1>1. /\ deal.kind \in {"buy", "forfeit"} /\ Live /\ worn' = worn
      /\ pending' = pending /\ Packed(b)
    BY Parts DEF BuyForBag, Accepting
<1>2. CASE ~ (gold >= Cost /\ BagTakes)
    BY <1>1, <1>2 DEF BuyForBag, goods
<1>3. CASE gold >= Cost /\ BagTakes
    <2>1. c = Stored(b, d, q) /\ Pay
        BY <1>3 DEF BuyForBag
    <2>2. /\ d \in Items /\ q \in 1 .. deal.limit /\ deal.limit \in 1 .. ByteSize - 1
          /\ Count(b, d) \in 0 .. Cap /\ Worn(worn, d) \in Nat
          /\ deal.limit <= Cap - Count(b, d) - Worn(worn, d)
        BY <1>1, PurchaseIs, WornCount
    <2>3. q \in Nat \ {0} /\ q \in Nat /\ Count(b, d) + q <= Cap
        BY <2>2, Fields
    <2>4. Holding(b, d) # {} \/ Free(b) # {}
        BY <1>1, <1>3, <2>2, CountIn DEF BagTakes
    <2>5. r = Raised(Count(b, d), q)
        OBVIOUS
    <2>6. \A i \in Items : Count(b, i) \in Nat /\ Worn(worn, i) \in Nat
        BY <1>1, CountIn, WornCount, Fields
    <2>7. \A i \in Items : After(i) = Now(i) + (IF d = i THEN q ELSE 0)
        <3> HIDE DEF b, c, d, q, r
        <3>1. \A i \in Items \ {d} : Count(c, i) = Count(b, i)
            BY <1>1, <2>1, <2>2, <2>3, <2>5, StoredIn
        <3>2. Count(c, d) = Count(b, d) + q
            BY <1>1, <2>1, <2>2, <2>3, <2>4, StoredFits
        <3> QED
            BY <1>1, <2>3, <2>6, <3>1, <3>2 DEF After, Now, Total, b, c
    <2>8. Now(d) + q = After(d) /\ \A i \in Items \ {d} : After(i) = Now(i) + 0
        BY <2>2, <2>7
    <2>9. \A i \in Items : Now(i) \in Int
        BY <2>6 DEF Now, Total
    <2> QED
        BY <1>1, <2>1, <2>8, <2>9, PaidIs DEF Bought
<1> QED
    BY <1>2, <1>3

(* One piece is put on at once; what was worn is in the bag.                *)
LEMMA WearIsFair ==
    ASSUME GoodsInv, NEW m \in Members, BuyAndEquip(m), Sound(deal.item)
    PROVE  \/ UNCHANGED <<goods, gold>>
           \/ Bought /\ \A i \in Items \ {deal.item} : Sound(i) => After(i) = Now(i)
<1> DEFINE d == deal.item
           p == Place[d]
           x == worn[m][p]
<1>1. /\ deal.kind \in {"buy", "forfeit"} /\ pending' = pending /\ deal.quantity = 1
      /\ WornOK(worn) /\ Packed(bag) /\ None \notin Items /\ Sound(d)
    BY Parts, Fields DEF BuyAndEquip, Accepting
<1>2. /\ d \in Items /\ p \in Places /\ Fits(m, p, d) /\ x \in Items \cup {None}
      /\ \/ UNCHANGED <<bag, worn, stock, gold>>
         \/ /\ IF x = None THEN bag' = bag ELSE OneMore(bag, bag', x)
            /\ Wear(m, p, d) /\ Pay
    BY BuyWornIs
<1>3. CASE UNCHANGED <<bag, worn, stock, gold>>
    BY <1>1, <1>3 DEF goods
<1>4. CASE /\ IF x = None THEN bag' = bag ELSE OneMore(bag, bag', x)
           /\ Wear(m, p, d) /\ Pay
    <2>1. \A i \in Items : Worn(worn', i) = Worn(worn, i) + One(d = i) - One(x = i)
        BY <1>1, <1>2, <1>4, WearCount
    <2>2. \A i \in Items : Count(bag, i) \in Nat /\ Worn(worn, i) \in Nat
        BY <1>1, CountIn, WornCount, Fields
    <2>3. ASSUME NEW i \in Items, Within(bag, i)
          PROVE  Count(bag', i) = Count(bag, i) + One(x = i)
        <3> HIDE DEF x
        <3>1. CASE x = None
            BY <1>1, <1>4, <2>2, <3>1 DEF One
        <3>2. CASE x # None
            BY <1>4, <2>3, <3>2 DEF OneMore
        <3> QED
            BY <3>1, <3>2
    <2>4. \A i \in Items : Sound(i) => After(i) = Now(i) + One(d = i)
        <3> HIDE DEF d, x, p
        <3> QED
            BY <1>1, <2>1, <2>2, <2>3, SoundIs DEF After, Now, Total, One
    <2>5. \A i \in Items : Now(i) \in Int
        BY <2>2 DEF Now, Total
    <2>6. Now(d) + 1 = After(d) /\ \A i \in Items \ {d} : Sound(i) => After(i) = Now(i)
        BY <1>1, <1>2, <2>4, <2>5 DEF One
    <2> QED
        BY <1>1, <1>4, <2>6, PaidIs DEF Bought
<1> QED
    BY <1>2, <1>3, <1>4

(* The price of all that can be sold at once is less than gold can hold.    *)
LEMMA PriceFits ==
    ASSUME NEW i \in Items, NEW q \in 0 .. Cap, NEW g \in 0 .. GoldCap
    PROVE  Capped(g + q * SellPrice[i]) = Lesser(GoldCap, g + q * SellPrice[i])
<1> DEFINE p == SellPrice[i]
           t == g + q * p
<1>1. /\ p \in Nat /\ Cap \in Nat /\ GoldCap \in Nat /\ GoldSize \in Nat
      /\ GoldCap + Cap * p < GoldSize /\ q \in Nat /\ q <= Cap
    BY ShopAssumption, Fields
<1> HIDE DEF p
<1>2. q * p \in Nat /\ Cap * p \in Nat /\ q * p <= Cap * p
    <2>1. (Cap - q) * p \in Nat /\ (Cap - q) * p = Cap * p - q * p
        BY <1>1
    <2>2. q * p \in Nat /\ Cap * p \in Nat
        BY <1>1
    <2> QED
        BY <2>1, <2>2
<1>3. t \in 0 .. GoldSize - 1 /\ GoldSize \in Nat \ {0}
    BY <1>1, <1>2
<1> HIDE DEF t
<1>4. t % GoldSize = t
    BY <1>3, Mod
<1> QED
    BY <1>4 DEF Capped, t, p

(* What is sold leaves the bag for its price.                               *)
LEMMA SaleIsFair ==
    ASSUME GoodsInv, SellItem, Sound(deal.item)
    PROVE  Sold /\ \A i \in Items \ {deal.item} : After(i) = Now(i)
<1> DEFINE d == deal.item
           q == deal.quantity
<1>1. /\ deal.kind = "sell" /\ worn' = worn /\ pending' = pending
      /\ stock' = Restocked(stock, d, q)
      /\ gold' = Capped(gold + q * SellPrice[d]) /\ Packed(bag)
      /\ gold \in 0 .. GoldSize - 1
    BY Parts DEF SellItem, Accepting
<1>2. /\ d \in Items /\ \A j \in Items \ {d} : Count(bag', j) = Count(bag, j)
      /\ Count(bag', d) = Count(bag, d) - q /\ q \in 0 .. Cap
    BY SellBag
<1>3. \A i \in Items : Count(bag, i) \in Nat /\ Worn(worn, i) \in Nat
    BY <1>1, CountIn, WornCount, Fields
<1>4. After(d) = Now(d) - q /\ \A i \in Items \ {d} : After(i) = Now(i)
    <2> HIDE DEF d, q
    <2> QED
        BY <1>1, <1>2, <1>3 DEF After, Now, Total
<1>5. gold <= GoldCap => gold' = Lesser(GoldCap, gold + q * SellPrice[d])
    <2> SUFFICES ASSUME gold <= GoldCap
                 PROVE  gold' = Lesser(GoldCap, gold + q * SellPrice[d])
        OBVIOUS
    <2>1. gold \in 0 .. GoldCap
        BY <1>1, ShopAssumption
    <2> HIDE DEF d, q
    <2> QED
        BY <1>1, <1>2, <2>1, PriceFits
<1> QED
    BY <1>1, <1>4, <1>5 DEF Sold

(* Only giving it up, buying and selling close a deal.                      *)
LEMMA DealCloses ==
    ASSUME GoodsInv, Next, deal # NoDeal, deal' = NoDeal
    PROVE  GiveUp \/ BuyForBag \/ SellItem \/ \E m \in Members : BuyAndEquip(m)
<1>1. ~ Closed
    BY DEF Closed
<1>2. ~ Money
    BY <1>1 DEF Money, Reward, TextGold, Cure
<1>3. ~ AdjustQuantity
    <2> SUFFICES ASSUME AdjustQuantity PROVE FALSE
        OBVIOUS
    <2>1. PICK q : deal' = [deal EXCEPT !.quantity = q]
        BY DEF AdjustQuantity
    <2>2. deal'.kind = deal.kind /\ deal.kind # "none"
        BY <2>1 DEF AdjustQuantity, GoodsInv, GoodsTypeOK, DealStands
    <2> QED
        BY <2>2 DEF NoDeal
<1>4. \A kind, i : ~ PreparePurchase(kind, i)
    BY DEF PreparePurchase
<1>5. \A s \in Slots : ~ PrepareSale(s)
    BY DEF PrepareSale
<1> QED
    BY <1>1, <1>2, <1>3, <1>4, <1>5 DEF Next, Deals

(* For every price of a word, bag, party and stock: a deal that ends with   *)
(* the menus of the shop changed nothing, or moved its quantity for its     *)
(* price, unless the party had more than the limit before a purchase; of    *)
(* every item whose count is within the limit.                              *)
THEOREM DealsAreFair == Spec => FairTrade
<1>1. GoodsInv /\ [Next]_vars =>
        [deal # NoDeal /\ deal' = NoDeal =>
            \/ UNCHANGED <<goods, gold>>
            \/ ~ Sound(deal.item)
            \/ deal.kind # "sell" /\ Count(bag, deal.item) + Worn(worn, deal.item) > Cap
            \/ /\ Bought \/ Sold
               /\ \A i \in Items \ {deal.item} : Sound(i) => After(i) = Now(i)]_vars
    <2> SUFFICES ASSUME GoodsInv, Next, deal # NoDeal, deal' = NoDeal, Sound(deal.item)
                 PROVE  \/ UNCHANGED <<goods, gold>>
                        \/ /\ deal.kind # "sell"
                           /\ Count(bag, deal.item) + Worn(worn, deal.item) > Cap
                        \/ /\ Bought \/ Sold
                           /\ \A i \in Items \ {deal.item} : Sound(i) => After(i) = Now(i)
        OBVIOUS
    <2>1. CASE GiveUp
        BY <2>1 DEF GiveUp
    <2>2. CASE BuyForBag
        <3>1. deal.kind \in {"buy", "forfeit"} /\ Live
            BY <2>2 DEF BuyForBag, Accepting
        <3>2. Count(bag, deal.item) \in Nat /\ Worn(worn, deal.item) \in Nat /\ Cap \in Nat
            BY <3>1, PurchaseIs, WornCount, Fields
        <3> QED
            BY <2>2, <3>1, <3>2, BuyIsFair
    <2>3. CASE SellItem
        BY <2>3, SaleIsFair
    <2>4. CASE \E m \in Members : BuyAndEquip(m)
        BY <2>4, WearIsFair
    <2> QED
        BY <2>1, <2>2, <2>3, <2>4, DealCloses
<1> QED
    BY <1>1, GoodsInvariant, PTL DEF FairTrade, Spec

-----------------------------------------------------------------------------
(* What the lists of a visit to the cave hold.                              *)

(* As many of one as of the other.                                          *)
LEMMA SameNumber ==
    ASSUME NEW S, IsFiniteSet(S), NEW T, NEW f \in [S -> T],
           \A x, y \in S : f[x] = f[y] => x = y,
           \A t \in T : \E x \in S : f[x] = t
    PROVE  IsFiniteSet(T) /\ Cardinality(T) = Cardinality(S)
<1>1. f \in Surjection(S, T)
    BY DEF Surjection
<1>2. f \in Injection(S, T)
    BY DEF Injection, IsInjective
<1> QED
    BY <1>1, <1>2, FS_Surjection

(* No more of one than of the other.                                        *)
LEMMA NoMoreThan ==
    ASSUME NEW S, NEW T, IsFiniteSet(T), NEW f \in [S -> T],
           \A x, y \in S : f[x] = f[y] => x = y
    PROVE  IsFiniteSet(S) /\ Cardinality(S) <= Cardinality(T)
<1>1. f \in Injection(S, T)
    BY DEF Injection, IsInjective
<1> QED
    BY <1>1, FS_Injection

(* InOrder counts a set off: each number stands for one element.            *)
LEMMA InOrderIs ==
    ASSUME NEW S, IsFiniteSet(S), NEW key \in [S -> Nat],
           \A x, y \in S : key[x] = key[y] => x = y
    PROVE  /\ Cardinality(S) \in Nat
           /\ InOrder(S, key) \in [1 .. Cardinality(S) -> S]
           /\ \A j, k \in 1 .. Cardinality(S) :
                InOrder(S, key)[j] = InOrder(S, key)[k] => j = k
           /\ \A x \in S : \E k \in 1 .. Cardinality(S) : InOrder(S, key)[k] = x
<1> DEFINE N == Cardinality(S)
           Upto(x) == {y \in S : key[y] <= key[x]}
           rank == [x \in S |-> Cardinality(Upto(x))]
<1>1. N \in Nat
    BY FS_CardinalityType
<1>2. \A x \in S : rank[x] \in 1 .. N
    <2> SUFFICES ASSUME NEW x \in S PROVE rank[x] \in 1 .. N
        OBVIOUS
    <2> DEFINE U == Upto(x)
    <2>1. U \in SUBSET S /\ x \in U
        OBVIOUS
    <2>2. rank[x] = Cardinality(U)
        OBVIOUS
    <2> HIDE DEF U, rank
    <2>3. IsFiniteSet(U) /\ Cardinality(U) \in Nat /\ Cardinality(U) <= N
        BY <2>1, FS_Subset, FS_CardinalityType
    <2>4. Cardinality(U) # 0
        BY <2>1, <2>3, FS_EmptySet
    <2> QED
        BY <1>1, <2>2, <2>3, <2>4
<1>3. ASSUME NEW x \in S, NEW y \in S, rank[x] = rank[y] PROVE x = y
    <2>1. ASSUME NEW u \in S, NEW v \in S, key[u] < key[v] PROVE rank[u] # rank[v]
        <3> DEFINE U == Upto(u)
                   V == Upto(v)
        <3>1. V \in SUBSET S /\ U \in SUBSET V /\ v \in V /\ v \notin U
            BY <2>1
        <3>2. rank[u] = Cardinality(U) /\ rank[v] = Cardinality(V)
            OBVIOUS
        <3> HIDE DEF U, V, rank
        <3>3. IsFiniteSet(V)
            BY <3>1, FS_Subset
        <3> QED
            BY <3>1, <3>2, <3>3, FS_Subset
    <2>2. ~ (key[x] < key[y]) /\ ~ (key[y] < key[x])
        BY <1>3, <2>1
    <2> QED
        BY <2>2
<1>4. rank \in [S -> 1 .. N]
    BY <1>2
<1>5. \A k \in 1 .. N : \E x \in S : rank[x] = k
    <2> HIDE DEF rank
    <2>1. rank \in Injection(S, 1 .. N)
        BY <1>3, <1>4 DEF Injection, IsInjective
    <2>2. IsFiniteSet(1 .. N) /\ Cardinality(1 .. N) = N
        BY <1>1, FS_Interval
    <2>3. rank \in Surjection(S, 1 .. N)
        BY <2>1, <2>2, FS_Injection
    <2> QED
        BY <2>3 DEF Surjection
<1> DEFINE f == InOrder(S, key)
<1>6. f = [k \in 1 .. N |-> CHOOSE x \in S : Cardinality(Upto(x)) = k]
    BY DEF InOrder
<1>7. \A k \in 1 .. N : f[k] \in S /\ rank[f[k]] = k
    <2> SUFFICES ASSUME NEW k \in 1 .. N PROVE f[k] \in S /\ rank[f[k]] = k
        OBVIOUS
    <2>1. PICK x \in S : Cardinality(Upto(x)) = k
        BY <1>5
    <2>2. f[k] = CHOOSE y \in S : Cardinality(Upto(y)) = k
        BY <1>6
    <2> HIDE DEF Upto, f
    <2>3. f[k] \in S /\ Cardinality(Upto(f[k])) = k
        BY <2>1, <2>2
    <2> QED
        BY <2>3
<1> HIDE DEF f, rank, N
<1>8. f \in [1 .. N -> S]
    BY <1>6, <1>7
<1>9. \A j, k \in 1 .. N : f[j] = f[k] => j = k
    BY <1>7
<1>10. \A x \in S : \E k \in 1 .. N : f[k] = x
    BY <1>2, <1>3, <1>7
<1> QED
    BY <1>1, <1>8, <1>9, <1>10 DEF f, N

(* The single items of a kind that are in a list behind a place.            *)
Copies(list, from, i) ==
    {c \in (1 .. Len(list)) \X (1 .. Cap) :
        c[1] > from /\ list[c[1]].item = i /\ c[2] <= list[c[1]].n}

LEMMA ListedIs ==
    ASSUME NEW list \in Seq(Words), NEW from \in Nat, NEW i
    PROVE  /\ Listed(list, from, i) = Cardinality(Copies(list, from, i))
           /\ IsFiniteSet(Copies(list, from, i))
           /\ Listed(list, from, i) \in Nat
           /\ Copies(list, from, i) \subseteq (1 .. Len(list)) \X (1 .. Cap)
<1>1. Copies(list, from, i) \in SUBSET ((1 .. Len(list)) \X (1 .. Cap))
    BY DEF Copies
<1>2. IsFiniteSet(1 .. Len(list)) /\ IsFiniteSet(1 .. Cap)
    BY Fields, FS_Interval
<1>3. IsFiniteSet((1 .. Len(list)) \X (1 .. Cap))
    BY <1>2, FS_Product
<1>4. IsFiniteSet(Copies(list, from, i))
    BY <1>1, <1>3, FS_Subset
<1>5. Listed(list, from, i) = Cardinality(Copies(list, from, i))
    BY DEF Listed, Copies
<1> QED
    BY <1>1, <1>4, <1>5, FS_CardinalityType

LEMMA ListedNone ==
    ASSUME NEW list \in Seq(Words), NEW from \in Nat, NEW i,
           \A k \in 1 .. Len(list) : k > from => list[k].item # i
    PROVE  Listed(list, from, i) = 0
<1>1. Copies(list, from, i) = {}
    BY DEF Copies
<1> QED
    BY <1>1, ListedIs, FS_EmptySet

LEMMA ListedBehind ==
    ASSUME NEW list \in Seq(Words), NEW from \in Nat, NEW i,
           \A k \in 1 .. Len(list) : k <= from => list[k].item # i
    PROVE  Listed(list, from, i) = Listed(list, 0, i)
<1>1. Copies(list, from, i) = Copies(list, 0, i)
    BY DEF Copies
<1> QED
    BY <1>1, ListedIs

(* An entry adds its count to what is behind it.                            *)
LEMMA ListedStep ==
    ASSUME NEW list \in Seq(Words), NEW from \in 0 .. Len(list) - 1, NEW i
    PROVE  Listed(list, from, i) =
            Listed(list, from + 1, i)
            + (IF list[from + 1].item = i THEN list[from + 1].n ELSE 0)
<1> DEFINE e == list[from + 1]
           C == Copies(list, from, i)
           D == Copies(list, from + 1, i)
           E == {from + 1} \X (1 .. e.n)
<1>1. from + 1 \in 1 .. Len(list) /\ from \in Nat /\ from + 1 \in Nat
    OBVIOUS
<1>2. e \in Words
    BY <1>1
<1>3. e.n \in 1 .. Cap /\ Cap \in Nat
    BY <1>2, Fields DEF Words
<1>4. /\ Listed(list, from, i) = Cardinality(C) /\ Listed(list, from + 1, i) = Cardinality(D)
      /\ IsFiniteSet(D) /\ Cardinality(D) \in Nat
    BY <1>1, ListedIs
<1>5. CASE e.item # i
    <2>1. C = D
        BY <1>1, <1>5 DEF Copies
    <2> QED
        BY <1>4, <1>5, <2>1
<1>6. CASE e.item = i
    <2>1. C \subseteq D \cup E
        <3> SUFFICES ASSUME NEW c \in C, c \notin D PROVE c \in E
            OBVIOUS
        <3>1. /\ c[1] \in 1 .. Len(list) /\ c[2] \in 1 .. Cap /\ c = <<c[1], c[2]>>
              /\ c[1] > from /\ list[c[1]].item = i /\ c[2] <= list[c[1]].n
            BY DEF Copies
        <3>2. ~ (c[1] > from + 1)
            BY <3>1 DEF Copies
        <3>3. c[1] = from + 1
            BY <1>1, <3>1, <3>2
        <3>4. c[2] \in 1 .. e.n
            BY <1>3, <3>1, <3>3
        <3> QED
            BY <3>1, <3>3, <3>4
    <2>2. D \subseteq C
        BY <1>1 DEF Copies
    <2>3. E \subseteq C
        <3> SUFFICES ASSUME NEW c \in E PROVE c \in C
            OBVIOUS
        <3>1. c = <<c[1], c[2]>> /\ c[1] = from + 1 /\ c[2] \in 1 .. e.n
            OBVIOUS
        <3>2. c[2] \in 1 .. Cap /\ c[2] <= e.n
            BY <1>3, <3>1
        <3>3. c \in (1 .. Len(list)) \X (1 .. Cap)
            BY <1>1, <3>1, <3>2
        <3>4. c[1] > from /\ list[c[1]].item = i /\ c[2] <= list[c[1]].n
            BY <1>1, <1>6, <3>1, <3>2
        <3> QED
            BY <3>3, <3>4 DEF Copies
    <2>4. D \cap E = {}
        BY <1>1 DEF Copies
    <2>5. IsFiniteSet(E) /\ Cardinality(E) = e.n
        <3>1. IsFiniteSet({from + 1}) /\ Cardinality({from + 1}) = 1
            BY FS_Singleton
        <3>2. IsFiniteSet(1 .. e.n) /\ Cardinality(1 .. e.n) = e.n
            <4> DEFINE n == e.n
            <4>1. n \in Int /\ ~ (1 > n) /\ n - 1 + 1 = n /\ 1 \in Int
                BY <1>3
            <4> HIDE DEF n
            <4>2. IsFiniteSet(1 .. n) /\ Cardinality(1 .. n) = n
                BY <4>1, FS_Interval
            <4> QED
                BY <4>2 DEF n
        <3> HIDE DEF e
        <3>3. IsFiniteSet(E) /\ Cardinality(E) = 1 * Cardinality(1 .. e.n)
            BY <3>1, <3>2, FS_Product
        <3> QED
            BY <1>3, <3>2, <3>3
    <2> HIDE DEF C, D, E, e
    <2>6. C = D \cup E
        BY <2>1, <2>2, <2>3
    <2>7. Cardinality(C) = Cardinality(D) + Cardinality(E)
        <3>1. Cardinality(D \cap E) = 0
            BY <2>4, FS_EmptySet
        <3>2. Cardinality(D \cup E) = Cardinality(D) + Cardinality(E) - Cardinality(D \cap E)
            BY <1>4, <2>5, FS_Union
        <3> QED
            BY <1>3, <1>4, <2>5, <2>6, <3>1, <3>2
    <2> QED
        BY <1>4, <1>6, <2>5, <2>7 DEF e
<1> QED
    BY <1>5, <1>6

(* A list with one entry for an item.                                       *)
LEMMA ListedOnce ==
    ASSUME NEW list \in Seq(Words), NEW i, NEW k \in 1 .. Len(list), list[k].item = i,
           \A j \in 1 .. Len(list) : list[j].item = i => j = k
    PROVE  Listed(list, 0, i) = list[k].n
<1>1. k - 1 \in 0 .. Len(list) - 1 /\ k - 1 + 1 = k /\ k \in Nat /\ k - 1 \in Nat
    OBVIOUS
<1>2. Listed(list, k - 1, i) = Listed(list, 0, i)
    <2>1. \A j \in 1 .. Len(list) : j <= k - 1 => list[j].item # i
        OBVIOUS
    <2> QED
        BY <1>1, <2>1, ListedBehind
<1>3. Listed(list, k, i) = 0
    <2>1. \A j \in 1 .. Len(list) : j > k => list[j].item # i
        OBVIOUS
    <2> QED
        BY <1>1, <2>1, ListedNone
<1>4. Listed(list, k - 1, i) = Listed(list, k, i) + list[k].n
    BY <1>1, ListedStep
<1>5. list[k].n \in Nat
    <2>1. list[k] \in Words
        OBVIOUS
    <2> QED
        BY <2>1, Fields DEF Words
<1> QED
    BY <1>2, <1>3, <1>4, <1>5

(* A list behind a list.                                                    *)
LEMMA ListedBoth ==
    ASSUME NEW s \in Seq(Words), NEW t \in Seq(Words), NEW i
    PROVE  /\ s \o t \in Seq(Words)
           /\ Listed(s \o t, 0, i) = Listed(s, 0, i) + Listed(t, 0, i)
<1> DEFINE u == s \o t
           S == Copies(s, 0, i)
           T == Copies(t, 0, i)
           U == Copies(u, 0, i)
           W == U \ S
           f == [c \in T |-> <<c[1] + Len(s), c[2]>>]
<1>1. /\ u \in Seq(Words) /\ Len(u) = Len(s) + Len(t) /\ Len(s) \in Nat /\ Len(t) \in Nat
      /\ \A k \in 1 .. Len(s) : u[k] = s[k]
      /\ \A k \in 1 .. Len(t) : u[k + Len(s)] = t[k]
    OBVIOUS
<1> HIDE DEF u
<1>2. S \subseteq U
    <2> SUFFICES ASSUME NEW c \in S PROVE c \in U
        OBVIOUS
    <2>1. c \in (1 .. Len(s)) \X (1 .. Cap) /\ c[1] > 0 /\ s[c[1]].item = i /\ c[2] <= s[c[1]].n
        BY DEF Copies
    <2>2. c[1] \in 1 .. Len(s) /\ c \in (1 .. Len(u)) \X (1 .. Cap)
        BY <1>1, <2>1
    <2> QED
        BY <1>1, <2>1, <2>2 DEF Copies
<1>3. f \in [T -> W]
    <2> SUFFICES ASSUME NEW c \in T PROVE f[c] \in W
        OBVIOUS
    <2>1. c \in (1 .. Len(t)) \X (1 .. Cap) /\ c[1] > 0 /\ t[c[1]].item = i /\ c[2] <= t[c[1]].n
        BY DEF Copies
    <2>2. c[1] \in 1 .. Len(t) /\ c[1] + Len(s) \in 1 .. Len(u) /\ c[2] \in 1 .. Cap
          /\ c[1] + Len(s) > 0 /\ u[c[1] + Len(s)] = t[c[1]] /\ ~ (c[1] + Len(s) \in 1 .. Len(s))
        BY <1>1, <2>1
    <2> DEFINE d == <<c[1] + Len(s), c[2]>>
    <2>3. d \in U
        BY <2>1, <2>2 DEF Copies
    <2>4. d \notin S
        BY <2>2 DEF Copies
    <2> QED
        BY <2>3, <2>4
<1>4. \A x, y \in T : f[x] = f[y] => x = y
    <2> SUFFICES ASSUME NEW x \in T, NEW y \in T, f[x] = f[y] PROVE x = y
        OBVIOUS
    <2>1. x \in (1 .. Len(t)) \X (1 .. Cap) /\ y \in (1 .. Len(t)) \X (1 .. Cap)
        BY DEF Copies
    <2>2. x = <<x[1], x[2]>> /\ y = <<y[1], y[2]>> /\ x[1] \in Int /\ y[1] \in Int
        BY <2>1
    <2>3. x[1] + Len(s) = y[1] + Len(s) /\ x[2] = y[2]
        OBVIOUS
    <2>4. x[1] = y[1]
        BY <1>1, <2>2, <2>3
    <2> QED
        BY <2>2, <2>3, <2>4
<1>5. \A c \in W : \E x \in T : f[x] = c
    <2> SUFFICES ASSUME NEW c \in W PROVE \E x \in T : f[x] = c
        OBVIOUS
    <2>1. c \in (1 .. Len(u)) \X (1 .. Cap) /\ c[1] > 0 /\ u[c[1]].item = i /\ c[2] <= u[c[1]].n
        BY DEF Copies
    <2>2. c = <<c[1], c[2]>> /\ c[1] \in 1 .. Len(u) /\ c[2] \in 1 .. Cap
        BY <2>1
    <2>3. ~ (c[1] \in 1 .. Len(s))
        <3> SUFFICES ASSUME c[1] \in 1 .. Len(s) PROVE c \in S
            OBVIOUS
        <3>1. u[c[1]] = s[c[1]] /\ c \in (1 .. Len(s)) \X (1 .. Cap)
            BY <1>1, <2>2
        <3> QED
            BY <2>1, <3>1 DEF Copies
    <2> DEFINE k == c[1] - Len(s)
    <2>4. k \in 1 .. Len(t) /\ k + Len(s) = c[1] /\ k > 0
        BY <1>1, <2>2, <2>3
    <2> HIDE DEF k
    <2>5. u[c[1]] = t[k]
        BY <1>1, <2>4
    <2> DEFINE x == <<k, c[2]>>
    <2>6. x \in T
        BY <2>1, <2>2, <2>4, <2>5 DEF Copies
    <2>7. f[x] = c
        BY <2>2, <2>4, <2>6
    <2> QED
        BY <2>6, <2>7
<1>6. /\ Listed(s, 0, i) = Cardinality(S) /\ Listed(t, 0, i) = Cardinality(T)
      /\ Listed(u, 0, i) = Cardinality(U)
      /\ IsFiniteSet(S) /\ IsFiniteSet(T) /\ IsFiniteSet(U)
      /\ Cardinality(S) \in Nat /\ Cardinality(T) \in Nat /\ Cardinality(U) \in Nat
    BY <1>1, ListedIs
<1> HIDE DEF f, S, T, U
<1>7. Cardinality(W) = Cardinality(T)
    BY <1>3, <1>4, <1>5, <1>6, SameNumber
<1>8. Cardinality(W) = Cardinality(U) - Cardinality(U \cap S)
    BY <1>6, FS_Difference DEF W
<1>9. U \cap S = S
    BY <1>2
<1>10. Cardinality(U) = Cardinality(S) + Cardinality(T)
    <2>1. Cardinality(U \cap S) = Cardinality(S)
        BY <1>9
    <2> HIDE DEF W
    <2> QED
        BY <1>6, <1>7, <1>8, <2>1
<1>11. Listed(u, 0, i) = Listed(s, 0, i) + Listed(t, 0, i)
    BY <1>6, <1>10
<1> QED
    BY <1>1, <1>11 DEF u

(* The list of the words of a bag that are of some kinds.                   *)
LEMMA BaggedIs ==
    ASSUME NEW b, BagOK(b), NEW kinds, kinds \subseteq Items, NEW L, L = Bagged(b, kinds)
    PROVE  /\ L \in Seq(Words)
           /\ \A k \in 1 .. Len(L) : L[k].item \in kinds /\ \E s \in Slots : b[s] = L[k]
           /\ \A j, k \in 1 .. Len(L) : L[j].item = L[k].item => j = k
           /\ \A s \in Slots : b[s].item \in kinds => \E k \in 1 .. Len(L) : L[k] = b[s]
           /\ IsFiniteSet(kinds) => Len(L) <= Cardinality(kinds)
<1> DEFINE S == {s \in Slots : b[s].item \in kinds}
           key == [s \in S |-> s]
           f == InOrder(S, key)
           N == Cardinality(S)
<1>1. IsFiniteSet(S)
    <2>1. S \in SUBSET Slots /\ IsFiniteSet(Slots)
        BY Fields, FS_Interval DEF Slots
    <2> HIDE DEF S
    <2> QED
        BY <2>1, FS_Subset
<1>2. key \in [S -> Nat] /\ \A x, y \in S : key[x] = key[y] => x = y
    BY Fields DEF Slots
<1>3. DOMAIN f = 1 .. N /\ L = [k \in DOMAIN f |-> b[f[k]]]
    BY DEF Bagged, InOrder
<1>4. /\ N \in Nat /\ f \in [1 .. N -> S]
      /\ \A j, k \in 1 .. N : f[j] = f[k] => j = k
      /\ \A x \in S : \E k \in 1 .. N : f[k] = x
    <2> HIDE DEF S, key
    <2> QED
        BY <1>1, <1>2, InOrderIs
<1> HIDE DEF f, N, key
<1>5. \A k \in 1 .. N : L[k] = b[f[k]] /\ f[k] \in Slots /\ b[f[k]].item \in kinds
    BY <1>3, <1>4
<1>6. \A k \in 1 .. N : L[k] \in Words
    BY <1>5, Fields DEF BagOK, Words
<1>7. L \in [1 .. N -> Words] /\ DOMAIN L = 1 .. N
    BY <1>3, <1>6
<1>8. L \in Seq(Words) /\ Len(L) = N
    BY <1>4, <1>7
<1>9. \A j, k \in 1 .. N : L[j].item = L[k].item => j = k
    <2> SUFFICES ASSUME NEW j \in 1 .. N, NEW k \in 1 .. N, L[j].item = L[k].item PROVE j = k
        OBVIOUS
    <2>1. f[j] = f[k]
        BY <1>5, Fields DEF BagOK
    <2> QED
        BY <1>4, <2>1
<1>10. \A s \in Slots : b[s].item \in kinds => \E k \in 1 .. N : L[k] = b[s]
    <2> SUFFICES ASSUME NEW s \in Slots, b[s].item \in kinds PROVE \E k \in 1 .. N : L[k] = b[s]
        OBVIOUS
    <2>1. PICK k \in 1 .. N : f[k] = s
        BY <1>4
    <2> QED
        BY <1>5, <2>1
<1>11. IsFiniteSet(kinds) => N <= Cardinality(kinds)
    <2> SUFFICES ASSUME IsFiniteSet(kinds) PROVE N <= Cardinality(kinds)
        OBVIOUS
    <2> DEFINE g == [s \in S |-> b[s].item]
    <2>1. g \in [S -> kinds] /\ \A x, y \in S : g[x] = g[y] => x = y
        BY Fields DEF BagOK
    <2> HIDE DEF g, S
    <2> QED
        BY <2>1, NoMoreThan DEF N
<1> QED
    BY <1>5, <1>8, <1>9, <1>10, <1>11 DEF N

LEMMA BaggedListed ==
    ASSUME NEW b, BagOK(b), NEW kinds, kinds \subseteq Items, NEW i \in Items
    PROVE  Listed(Bagged(b, kinds), 0, i) = IF i \in kinds THEN Count(b, i) ELSE 0
<1> SUFFICES ASSUME NEW L, L = Bagged(b, kinds)
             PROVE  Listed(L, 0, i) = IF i \in kinds THEN Count(b, i) ELSE 0
    OBVIOUS
<1>1. /\ L \in Seq(Words)
      /\ \A k \in 1 .. Len(L) : L[k].item \in kinds /\ \E s \in Slots : b[s] = L[k]
      /\ \A j, k \in 1 .. Len(L) : L[j].item = L[k].item => j = k
      /\ \A s \in Slots : b[s].item \in kinds => \E k \in 1 .. Len(L) : L[k] = b[s]
    <2>1. L \in Seq(Words)
        BY BaggedIs
    <2>2. \A k \in 1 .. Len(L) : L[k].item \in kinds /\ \E s \in Slots : b[s] = L[k]
        BY BaggedIs
    <2>3. \A j, k \in 1 .. Len(L) : L[j].item = L[k].item => j = k
        BY BaggedIs
    <2>4. \A s \in Slots : b[s].item \in kinds => \E k \in 1 .. Len(L) : L[k] = b[s]
        BY BaggedIs
    <2> QED
        BY <2>1, <2>2, <2>3, <2>4
<1>2. CASE \E k \in 1 .. Len(L) : L[k].item = i
    <2>1. PICK k \in 1 .. Len(L) : L[k].item = i
        BY <1>2
    <2>2. Listed(L, 0, i) = L[k].n
        BY <1>1, <2>1, ListedOnce
    <2>3. PICK s \in Slots : b[s] = L[k]
        BY <1>1
    <2>4. Count(b, i) = L[k].n /\ i \in kinds
        BY <1>1, <2>1, <2>3, CountAt
    <2> QED
        BY <2>2, <2>4
<1>3. CASE \A k \in 1 .. Len(L) : L[k].item # i
    <2>1. Listed(L, 0, i) = 0
        BY <1>1, <1>3, ListedNone
    <2>2. i \in kinds => Count(b, i) = 0
        <3>1. i \in kinds => \A s \in Slots : b[s].item # i
            BY <1>1, <1>3
        <3> QED
            BY <3>1, CountAt
    <2> QED
        BY <2>1, <2>2
<1> QED
    BY <1>2, <1>3

(* Pairs of a member and a place by their keys.                             *)
LEMMA PairsApart ==
    ASSUME NEW a \in Nat, NEW c \in Nat, NEW p \in Places, NEW q \in Places,
           a * PlaceCount + p = c * PlaceCount + q
    PROVE  a = c /\ p = q
<1>1. PlaceCount \in Nat \ {0} /\ p - 1 \in 0 .. PlaceCount - 1 /\ q - 1 \in 0 .. PlaceCount - 1
    BY Fields DEF Places
<1>2. a * PlaceCount \in Nat /\ c * PlaceCount \in Nat /\ p \in Int /\ q \in Int
    BY <1>1 DEF Places
<1> DEFINE x == a * PlaceCount + (p - 1)
<1>3. x = c * PlaceCount + (q - 1)
    BY <1>2
<1>4. x = a * PlaceCount + (p - 1) /\ a \in Int /\ c \in Int
    BY <1>1, <1>2
<1>10. x \in Int
    BY <1>1, <1>2
<1> HIDE DEF x
<1>5. x % PlaceCount = p - 1
    BY <1>1, <1>4, <1>10, ModIs
<1>6. x % PlaceCount = q - 1
    <2>1. c \in Int
        OBVIOUS
    <2> QED
        BY <1>1, <1>3, <1>10, <2>1, ModIs
<1>7. p = q
    BY <1>2, <1>5, <1>6
<1>8. a * PlaceCount = c * PlaceCount
    BY <1>2, <1>7
<1>9. a = c
    BY <1>1, <1>8
<1> QED
    BY <1>7, <1>9

(* The members of a party that wear an item.                                *)
WornOf(P, w, i) == {m \in P : Place[i] # 0 /\ w[m][Place[i]] = i}

(* Single blue items, and of each as many as some members wear.             *)
SingleBlue(L) == \A k \in 1 .. Len(L) : L[k].item \in Blue /\ L[k].n = 1
ListsWorn(L, P, w) ==
    \A i \in Items : Listed(L, 0, i) = IF i \in Blue THEN Cardinality(WornOf(P, w, i)) ELSE 0

(* The list of the blue items that some members wear.                       *)
LEMMA WornByIs ==
    ASSUME NEW w, WornOK(w), NEW P, P \subseteq Members, NEW order \in [P -> Nat],
           \A m, n \in P : order[m] = order[n] => m = n, NEW L, L = WornBy(order, w)
    PROVE  /\ L \in Seq(Words)
           /\ SingleBlue(L) /\ ListsWorn(L, P, w)
           /\ Len(L) <= Cardinality(Members) * PlaceCount
<1> DEFINE S == {x \in (DOMAIN order) \X Places : w[x[1]][x[2]] \in Blue}
           key == [x \in S |-> order[x[1]] * PlaceCount + x[2]]
           f == InOrder(S, key)
           N == Cardinality(S)
<1>1. IsFiniteSet(S) /\ N <= Cardinality(Members) * PlaceCount
    <2>1. S \in SUBSET (Members \X Places)
        OBVIOUS
    <2>2. IsFiniteSet(Members) /\ IsFiniteSet(Places) /\ Cardinality(Places) = PlaceCount
        BY InventoryAssumption, FS_Interval DEF Places
    <2> HIDE DEF S
    <2>3. /\ IsFiniteSet(Members \X Places)
          /\ Cardinality(Members \X Places) = Cardinality(Members) * PlaceCount
        BY <2>2, FS_Product
    <2> QED
        BY <2>1, <2>3, FS_Subset
<1>2. \A x \in S : x = <<x[1], x[2]>> /\ x[1] \in P /\ x[2] \in Places /\ w[x[1]][x[2]] \in Blue
    OBVIOUS
<1>3. key \in [S -> Nat]
    <2> SUFFICES ASSUME NEW x \in S PROVE order[x[1]] * PlaceCount + x[2] \in Nat
        OBVIOUS
    <2>1. order[x[1]] \in Nat /\ x[2] \in Nat /\ PlaceCount \in Nat
        BY <1>2, Fields DEF Places
    <2> QED
        BY <2>1
<1>4. \A x, y \in S : key[x] = key[y] => x = y
    <2> SUFFICES ASSUME NEW x \in S, NEW y \in S, key[x] = key[y] PROVE x = y
        OBVIOUS
    <2>1. order[x[1]] * PlaceCount + x[2] = order[y[1]] * PlaceCount + y[2]
        OBVIOUS
    <2>2. order[x[1]] \in Nat /\ order[y[1]] \in Nat /\ x[2] \in Places /\ y[2] \in Places
        BY <1>2
    <2>3. order[x[1]] = order[y[1]] /\ x[2] = y[2]
        BY <2>1, <2>2, PairsApart
    <2> QED
        BY <1>2, <2>3
<1>5. /\ DOMAIN f = 1 .. N
      /\ L = [k \in DOMAIN f |-> Slot(w[f[k][1]][f[k][2]], 1)]
    BY DEF WornBy, InOrder
<1>6. /\ N \in Nat /\ f \in [1 .. N -> S]
      /\ \A j, k \in 1 .. N : f[j] = f[k] => j = k
      /\ \A x \in S : \E k \in 1 .. N : f[k] = x
    <2> HIDE DEF S, key
    <2> QED
        BY <1>1, <1>3, <1>4, InOrderIs
<1> HIDE DEF f, N, key
<1>7. \A k \in 1 .. N :
        /\ f[k] \in S /\ f[k] = <<f[k][1], f[k][2]>> /\ f[k][1] \in P /\ f[k][2] \in Places
        /\ L[k].item = w[f[k][1]][f[k][2]] /\ L[k].n = 1 /\ L[k].item \in Blue
        /\ L[k] = Slot(w[f[k][1]][f[k][2]], 1)
    BY <1>2, <1>5, <1>6 DEF Slot
<1>8. \A k \in 1 .. N : L[k] \in Words
    <2>1. Blue \subseteq Items /\ 1 \in 1 .. Cap
        BY CaveAssumption, Fields
    <2> QED
        <3> SUFFICES ASSUME NEW k \in 1 .. N PROVE L[k] \in Words
            OBVIOUS
        <3> DEFINE i == w[f[k][1]][f[k][2]]
        <3>1. L[k] = Slot(i, 1) /\ L[k].item = i /\ L[k].item \in Blue
            BY <1>7
        <3> HIDE DEF i
        <3>2. i \in Items
            BY <2>1, <3>1
        <3> QED
            BY <2>1, <3>1, <3>2 DEF Slot, Words
<1>9. L \in [1 .. N -> Words] /\ DOMAIN L = 1 .. N
    BY <1>5, <1>8
<1>10. L \in Seq(Words) /\ Len(L) = N
    BY <1>6, <1>9
<1>11. ASSUME NEW i \in Items, i \notin Blue
       PROVE  Listed(L, 0, i) = 0
    <2>1. \A k \in 1 .. Len(L) : k > 0 => L[k].item # i
        BY <1>7, <1>10, <1>11
    <2> QED
        BY <1>10, <2>1, ListedNone
<1>12. ASSUME NEW i \in Items, i \in Blue
       PROVE  Listed(L, 0, i) = Cardinality(WornOf(P, w, i))
    <2> DEFINE C == Copies(L, 0, i)
               M == {m \in P : Place[i] # 0 /\ w[m][Place[i]] = i}
               g == [c \in C |-> f[c[1]][1]]
    <2>1. \A m \in P, p \in Places : w[m][p] = i => Place[i] = p /\ p # 0
        BY Fields DEF WornOK, Fits, Places
    <2>2. \A c \in C : c = <<c[1], c[2]>> /\ c[1] \in 1 .. N /\ c[2] = 1 /\ L[c[1]].item = i
        <3> SUFFICES ASSUME NEW c \in C
                     PROVE  c = <<c[1], c[2]>> /\ c[1] \in 1 .. N /\ c[2] = 1 /\ L[c[1]].item = i
            OBVIOUS
        <3>1. /\ c = <<c[1], c[2]>> /\ c[1] \in 1 .. N /\ c[2] \in 1 .. Cap
              /\ L[c[1]].item = i /\ c[2] <= L[c[1]].n
            BY <1>10 DEF Copies
        <3> QED
            BY <1>7, <3>1, Fields
    <2>3. \A c \in C : f[c[1]] = <<f[c[1]][1], Place[i]>> /\ f[c[1]][1] \in M
        BY <1>7, <2>1, <2>2
    <2>4. g \in [C -> M]
        BY <2>3
    <2>5. \A x, y \in C : g[x] = g[y] => x = y
        <3> SUFFICES ASSUME NEW x \in C, NEW y \in C, g[x] = g[y] PROVE x = y
            OBVIOUS
        <3>1. f[x[1]][1] = f[y[1]][1]
            OBVIOUS
        <3> HIDE DEF C, g
        <3>2. f[x[1]] = f[y[1]]
            BY <2>3, <3>1
        <3>3. x[1] = y[1]
            BY <1>6, <2>2, <3>2
        <3> QED
            BY <2>2, <3>3
    <2>6. \A m \in M : \E c \in C : g[c] = m
        <3> SUFFICES ASSUME NEW m \in M PROVE \E c \in C : g[c] = m
            OBVIOUS
        <3>1. Place[i] \in Places
            BY InventoryAssumption, Fields DEF Places
        <3> DEFINE x == <<m, Place[i]>>
        <3>2. x \in S
            BY <1>12, <3>1
        <3>3. PICK k \in 1 .. N : f[k] = x
            BY <1>6, <3>2
        <3> DEFINE c == <<k, 1>>
        <3>4. L[k].item = i /\ L[k].n = 1
            BY <1>7, <3>3
        <3>5. c \in C
            <4>1. c \in (1 .. Len(L)) \X (1 .. Cap) /\ c[1] > 0 /\ c[2] <= L[c[1]].n
                  /\ L[c[1]].item = i
                BY <1>10, <3>4, Fields
            <4> QED
                BY <4>1 DEF Copies
        <3>6. g[c] = m
            BY <3>3, <3>5
        <3> QED
            BY <3>5, <3>6
    <2>7. IsFiniteSet(C) /\ Listed(L, 0, i) = Cardinality(C)
        BY <1>10, ListedIs
    <2> HIDE DEF C, M, g
    <2>8. Cardinality(M) = Cardinality(C)
        BY <2>4, <2>5, <2>6, <2>7, SameNumber
    <2> QED
        BY <2>7, <2>8 DEF M, WornOf
<1> QED
    BY <1>1, <1>7, <1>10, <1>11, <1>12 DEF N, SingleBlue, ListsWorn

(* The list needs no more slots than there are with such items.             *)
LEMMA BaggedFits ==
    ASSUME NEW b, BagOK(b), NEW kinds, kinds \subseteq Items, NEW L, L = Bagged(b, kinds),
           NEW F, IsFiniteSet(F), \A s \in Slots : b[s].item \in kinds => s \in F
    PROVE  Len(L) <= Cardinality(F)
<1>1. /\ L \in Seq(Words)
      /\ \A k \in 1 .. Len(L) : L[k].item \in kinds /\ \E s \in Slots : b[s] = L[k]
      /\ \A j, k \in 1 .. Len(L) : L[j].item = L[k].item => j = k
    BY BaggedIs
<1> DEFINE N == Len(L)
           g == [k \in 1 .. N |-> CHOOSE s \in Slots : b[s] = L[k]]
<1>2. \A k \in 1 .. N : g[k] \in Slots /\ b[g[k]] = L[k]
    BY <1>1
<1>3. g \in [1 .. N -> F] /\ \A j, k \in 1 .. N : g[j] = g[k] => j = k
    BY <1>1, <1>2
<1>4. N \in Nat
    BY <1>1
<1> HIDE DEF g, N
<1>5. Cardinality(1 .. N) <= Cardinality(F)
    BY <1>3, NoMoreThan
<1>6. Cardinality(1 .. N) = N
    BY <1>4, FS_Interval
<1> QED
    BY <1>5, <1>6 DEF N

LEMMA KindsAre ==
    /\ Blue \subseteq Items /\ Iris \subseteq Items /\ Blue \cap Iris = {}
    /\ Potion \in Items /\ Potion \notin Blue /\ Potion \notin Iris /\ None \notin Blue
    /\ None \notin Iris
    /\ IsFiniteSet(Blue) /\ IsFiniteSet(Iris) /\ Potions \in 1 .. Cap
    /\ Cardinality(Blue) \in Nat /\ Cardinality(Iris) \in Nat /\ Cardinality(Members) \in Nat
    /\ Cardinality(Blue) < Capacity /\ Party \subseteq Members
    /\ \A i \in Iris : Place[i] = 0
<1>1. Cardinality(Blue) \in Nat /\ Cardinality(Iris) \in Nat /\ Cardinality(Members) \in Nat
    BY CaveAssumption, InventoryAssumption, FS_CardinalityType
<1>2. Blue \subseteq Items /\ Iris \subseteq Items /\ Blue \cap Iris = {} /\ Potion \in Items
      /\ Potion \notin Blue /\ Potion \notin Iris /\ Cardinality(Blue) < Capacity
      /\ IsFiniteSet(Blue) /\ IsFiniteSet(Iris) /\ Potions \in 1 .. Cap /\ Party \subseteq Members
      /\ \A i \in Iris : Place[i] = 0
    BY CaveAssumption
<1> QED
    BY <1>1, <1>2, Fields

(* The lists are shorter than half the values of a byte.                    *)
LEMMA ListsFit ==
    /\ HourSize \div 2 \in Nat
    /\ Cardinality(Blue) + Cardinality(Iris) + Cardinality(Members) * PlaceCount
         < HourSize \div 2
    /\ Cardinality(Members) * PlaceCount \in Nat
BY CaveAssumption, KindsAre, Fields

LEMMA Seats ==
    /\ Seat \in [Party -> Nat] /\ \A m, n \in Party : Seat[m] = Seat[n] => m = n
    /\ Rank \in [Members -> Nat] /\ \A m, n \in Members : Rank[m] = Rank[n] => m = n
BY CaveAssumption

(* What Enter takes along is what it takes away.                            *)
LEMMA EnterTakes ==
    ASSUME BagOK(bag), WornOK(worn), Enter
    PROVE  /\ BagOK(bag') /\ WornOK(worn') /\ NoBlue(bag', worn')
           /\ saved' \in Seq(Words) /\ Len(saved') < HourSize \div 2
           /\ \A k \in 1 .. Len(saved') : saved'[k].item \in Blue
           /\ \E n \in BagPart(saved') : n <= Cardinality(Free(bag'))
           /\ \A i \in Items :
                Held(bag, worn, i) = Held(bag', worn', i) + Listed(saved', 0, i)
<1> DEFINE L == Bagged(bag, Blue)
           M == WornBy(Seat, worn)
<1>1. /\ saved' = L \o M
      /\ bag' = [s \in Slots |-> IF bag[s].item \in Blue THEN Empty ELSE bag[s]]
      /\ worn' = [m \in Members |-> [p \in Places |->
                    IF m \in Party /\ worn[m][p] \in Blue THEN None ELSE worn[m][p]]]
    BY DEF Enter
<1>2. L = Bagged(bag, Blue) /\ M = WornBy(Seat, worn)
    OBVIOUS
<1> HIDE DEF L, M
<1>3. BagOK(bag')
    BY <1>1, Fields DEF BagOK, Empty, Slot
<1>4. WornOK(worn')
    BY <1>1 DEF WornOK
<1>5. NoBlue(bag', worn')
    BY <1>1, KindsAre DEF NoBlue, Empty, Slot, BagOK
<1>6. /\ L \in Seq(Words) /\ Len(L) <= Cardinality(Blue)
      /\ \A k \in 1 .. Len(L) : L[k].item \in Blue
      /\ \A j, k \in 1 .. Len(L) : L[j].item = L[k].item => j = k
    BY <1>2, BaggedIs, KindsAre
<1>7. /\ M \in Seq(Words) /\ Len(M) <= Cardinality(Members) * PlaceCount
      /\ \A k \in 1 .. Len(M) : M[k].item \in Blue /\ M[k].n = 1
    <2>1. /\ Party \subseteq Members /\ Seat \in [Party -> Nat]
          /\ \A m, n \in Party : Seat[m] = Seat[n] => m = n
        BY KindsAre, Seats
    <2>2. M \in Seq(Words) /\ Len(M) <= Cardinality(Members) * PlaceCount /\ SingleBlue(M)
        BY <1>2, <2>1, WornByIs
    <2> QED
        BY <2>2 DEF SingleBlue
<1>8. /\ saved' \in Seq(Words) /\ Len(saved') = Len(L) + Len(M)
      /\ Len(L) \in Nat /\ Len(M) \in Nat
      /\ \A k \in 1 .. Len(L) : saved'[k] = L[k]
      /\ \A k \in Len(L) + 1 .. Len(L) + Len(M) : saved'[k] = M[k - Len(L)]
    BY <1>1, <1>6, <1>7
<1>9. Len(saved') < HourSize \div 2
    BY <1>6, <1>7, <1>8, ListsFit, KindsAre
<1>10. \A k \in 1 .. Len(saved') : saved'[k].item \in Blue
    <2> SUFFICES ASSUME NEW k \in 1 .. Len(saved') PROVE saved'[k].item \in Blue
        OBVIOUS
    <2>1. CASE k \in 1 .. Len(L)
        BY <1>6, <1>8, <2>1
    <2>2. CASE ~ (k \in 1 .. Len(L))
        <3>1. k \in Len(L) + 1 .. Len(L) + Len(M) /\ k - Len(L) \in 1 .. Len(M)
            BY <1>8, <2>2
        <3> QED
            BY <1>7, <1>8, <3>1
    <2> QED
        BY <2>1, <2>2
<1>11. Len(L) \in BagPart(saved')
    <2>1. \A j, k \in 1 .. Len(L) : saved'[j].item = saved'[k].item => j = k
        BY <1>6, <1>8
    <2>2. \A k \in Len(L) + 1 .. Len(saved') : saved'[k].n = 1
        <3> SUFFICES ASSUME NEW k \in Len(L) + 1 .. Len(saved') PROVE saved'[k].n = 1
            OBVIOUS
        <3>1. k \in Len(L) + 1 .. Len(L) + Len(M) /\ k - Len(L) \in 1 .. Len(M)
            BY <1>8
        <3> QED
            BY <1>7, <1>8, <3>1
    <2>3. Len(L) \in 0 .. Len(saved')
        BY <1>8
    <2> QED
        BY <2>1, <2>2, <2>3 DEF BagPart
<1>12. Len(L) <= Cardinality(Free(bag'))
    <2>1. IsFiniteSet(Slots) /\ Free(bag') \in SUBSET Slots
        BY Fields, FS_Interval DEF Slots, Free
    <2>2. IsFiniteSet(Free(bag'))
        BY <2>1, FS_Subset
    <2>3. \A s \in Slots : bag[s].item \in Blue => s \in Free(bag')
        BY <1>1 DEF Free
    <2> QED
        BY <1>2, <2>2, <2>3, BaggedFits, KindsAre
<1>13. ASSUME NEW i \in Items
       PROVE  Held(bag, worn, i) = Held(bag', worn', i) + Listed(saved', 0, i)
    <2> DEFINE A == WornOf(Members, worn, i)
               B == WornOf(Members, worn', i)
               C == WornOf(Party, worn, i)
    <2>1. Listed(saved', 0, i) = Listed(L, 0, i) + Listed(M, 0, i)
        BY <1>1, <1>6, <1>7, ListedBoth
    <2>2. Listed(L, 0, i) = IF i \in Blue THEN Count(bag, i) ELSE 0
        BY <1>2, BaggedListed, KindsAre
    <2>3. Listed(M, 0, i) = IF i \in Blue THEN Cardinality(C) ELSE 0
        <3>1. /\ Party \subseteq Members /\ Seat \in [Party -> Nat]
              /\ \A m, n \in Party : Seat[m] = Seat[n] => m = n
            BY KindsAre, Seats
        <3>2. ListsWorn(M, Party, worn)
            BY <1>2, <3>1, WornByIs
        <3> QED
            BY <3>2 DEF ListsWorn
    <2>4. Worn(worn, i) = Cardinality(A) /\ Worn(worn', i) = Cardinality(B)
        BY DEF Worn, WornOf
    <2>5. Place[i] \in 0 .. PlaceCount /\ (Place[i] # 0 => Place[i] \in Places) /\ i # None
        BY InventoryAssumption, Fields DEF Places
    <2>6. i \in Blue => B = A \ C
        BY <1>1, <2>5, KindsAre DEF WornOf
    <2>7. i \notin Blue => B = A
        BY <1>1, <2>5 DEF WornOf
    <2>8. C \in SUBSET A /\ A \in SUBSET Members
        BY KindsAre DEF WornOf
    <2>9. Count(bag', i) = IF i \in Blue THEN 0 ELSE Count(bag, i)
        <3>1. CASE i \in Blue
            <4>1. \A s \in Slots : bag'[s].item # i
                BY <1>1, <2>5, <3>1 DEF Empty, Slot
            <4> QED
                BY <1>3, <3>1, <4>1, CountAt
        <3>2. CASE i \notin Blue
            <4>1. Holding(bag', i) = Holding(bag, i)
                BY <1>1, <2>5, <3>2 DEF Holding, Empty, Slot
            <4>2. CASE \E s \in Slots : bag[s].item = i
                <5>1. PICK s \in Slots : bag[s].item = i
                    BY <4>2
                <5>2. bag'[s] = bag[s]
                    BY <1>1, <3>2, <5>1
                <5> QED
                    BY <1>3, <3>2, <5>1, <5>2, CountAt
            <4>3. CASE \A s \in Slots : bag[s].item # i
                <5>1. \A s \in Slots : bag'[s].item # i
                    BY <1>1, <2>5, <4>3 DEF Empty, Slot
                <5> QED
                    BY <1>3, <3>2, <4>3, <5>1, CountAt
            <4> QED
                BY <4>2, <4>3
        <3> QED
            BY <3>1, <3>2
    <2> HIDE DEF A, B, C
    <2>10. /\ IsFiniteSet(A) /\ IsFiniteSet(C) /\ Cardinality(A) \in Nat /\ Cardinality(C) \in Nat
           /\ Cardinality(A \ C) = Cardinality(A) - Cardinality(C)
        <3>1. IsFiniteSet(A)
            BY <2>8, InventoryAssumption, FS_Subset
        <3>2. IsFiniteSet(C)
            BY <2>8, <3>1, FS_Subset
        <3>3. Cardinality(A \ C) = Cardinality(A) - Cardinality(A \cap C)
            BY <3>1, FS_Difference
        <3>4. A \cap C = C
            BY <2>8
        <3>5. Cardinality(A \cap C) = Cardinality(C)
            BY <3>4
        <3> QED
            BY <3>1, <3>2, <3>3, <3>5, FS_CardinalityType
    <2>11. Count(bag, i) \in Nat
        BY CountType, Fields
    <2>12. CASE i \in Blue
        <3>1. Cardinality(B) = Cardinality(A) - Cardinality(C)
            BY <2>6, <2>10, <2>12
        <3> QED
            BY <2>1, <2>2, <2>3, <2>4, <2>9, <2>10, <2>11, <2>12, <3>1 DEF Held
    <2>13. CASE i \notin Blue
        <3>1. Cardinality(B) = Cardinality(A)
            BY <2>7, <2>13
        <3> QED
            BY <2>1, <2>2, <2>3, <2>4, <2>9, <2>10, <2>11, <2>13, <3>1 DEF Held
    <2> QED
        BY <2>12, <2>13
<1> QED
    BY <1>3, <1>4, <1>5, <1>8, <1>9, <1>10, <1>11, <1>12, <1>13

(* One of each kind of a list.                                              *)
LEMMA OneOfEach ==
    ASSUME NEW b, BagOK(b), NEW R,
           R = [k \in DOMAIN Bagged(b, Iris) |-> Slot(Bagged(b, Iris)[k].item, 1)]
    PROVE  /\ R \in Seq(Words) /\ Len(R) <= Cardinality(Iris)
           /\ \A k \in 1 .. Len(R) : R[k].item \in Iris /\ R[k].n = 1
           /\ \A j, k \in 1 .. Len(R) : R[j].item = R[k].item => j = k
           /\ \A i \in Items : Listed(R, 0, i) =
                IF i \in Iris /\ Holding(b, i) # {} THEN 1 ELSE 0
<1> DEFINE L == Bagged(b, Iris)
<1>1. L = Bagged(b, Iris) /\ R = [k \in DOMAIN L |-> Slot(L[k].item, 1)]
    OBVIOUS
<1> HIDE DEF L
<1>2. Iris \subseteq Items /\ IsFiniteSet(Iris)
    BY KindsAre
<1>3. L \in Seq(Words) /\ Len(L) <= Cardinality(Iris)
    BY <1>1, <1>2, BaggedIs
<1>4. /\ \A k \in 1 .. Len(L) : L[k].item \in Iris /\ \E s \in Slots : b[s] = L[k]
      /\ \A j, k \in 1 .. Len(L) : L[j].item = L[k].item => j = k
      /\ \A s \in Slots : b[s].item \in Iris => \E k \in 1 .. Len(L) : L[k] = b[s]
    BY <1>1, <1>2, BaggedIs
<1>5. DOMAIN R = 1 .. Len(L) /\ \A k \in 1 .. Len(L) : R[k] = Slot(L[k].item, 1)
    BY <1>1, <1>3
<1>6. \A k \in 1 .. Len(L) : R[k].item = L[k].item /\ R[k].n = 1 /\ R[k] \in Words
    <2> SUFFICES ASSUME NEW k \in 1 .. Len(L)
                 PROVE  R[k].item = L[k].item /\ R[k].n = 1 /\ R[k] \in Words
        OBVIOUS
    <2> DEFINE x == L[k].item
    <2>1. R[k] = Slot(x, 1) /\ x \in Items
        BY <1>2, <1>4, <1>5
    <2>2. 1 \in 1 .. Cap
        BY Fields
    <2> HIDE DEF x
    <2>3. R[k].item = x /\ R[k].n = 1 /\ R[k] \in Words
        BY <2>1, <2>2 DEF Slot, Words
    <2> QED
        BY <2>3 DEF x
<1>7. R \in [1 .. Len(L) -> Words] /\ Len(L) \in Nat
    BY <1>1, <1>3, <1>5, <1>6
<1>8. R \in Seq(Words) /\ Len(R) = Len(L)
    BY <1>5, <1>7
<1>9. ASSUME NEW i \in Items
      PROVE  Listed(R, 0, i) = IF i \in Iris /\ Holding(b, i) # {} THEN 1 ELSE 0
    <2>1. CASE \E k \in 1 .. Len(R) : R[k].item = i
        <3>1. PICK k \in 1 .. Len(R) : R[k].item = i
            BY <2>1
        <3>2. Listed(R, 0, i) = R[k].n
            <4>1. \A j \in 1 .. Len(R) : R[j].item = i => j = k
                BY <1>4, <1>6, <1>8, <3>1
            <4> QED
                BY <1>8, <3>1, <4>1, ListedOnce
        <3>3. PICK s \in Slots : b[s] = L[k]
            BY <1>4, <1>8
        <3>4. i \in Iris /\ s \in Holding(b, i)
            BY <1>4, <1>6, <1>8, <3>1, <3>3 DEF Holding
        <3> QED
            BY <1>6, <1>8, <3>2, <3>4
    <2>2. CASE \A k \in 1 .. Len(R) : R[k].item # i
        <3>1. Listed(R, 0, i) = 0
            BY <1>8, <2>2, ListedNone
        <3>2. ~ (i \in Iris /\ Holding(b, i) # {})
            <4> SUFFICES ASSUME i \in Iris, NEW s \in Slots, b[s].item = i PROVE FALSE
                BY DEF Holding
            <4>1. PICK k \in 1 .. Len(L) : L[k] = b[s]
                BY <1>4
            <4> QED
                BY <1>6, <1>8, <2>2, <4>1
        <3> QED
            BY <3>1, <3>2
    <2> QED
        BY <2>1, <2>2
<1> QED
    BY <1>3, <1>4, <1>6, <1>8, <1>9

(* What is collected is what may leave the cave.                            *)
LEMMA CollectTakes ==
    ASSUME BagOK(bag), WornOK(worn), CollectCaveCarryItems
    PROVE  /\ carried' \in Seq(Words) /\ Len(carried') < HourSize \div 2
           /\ \A k \in 1 .. Len(carried') : \/ carried'[k].item \in Blue
                                            \/ carried'[k].item \in Iris /\ carried'[k].n = 1
           /\ BagPart(carried') # {}
           /\ \A i \in Items : Listed(carried', 0, i) =
                IF i \in Blue THEN Held(bag, worn, i)
                ELSE IF i \in Iris /\ Holding(bag, i) # {} THEN 1 ELSE 0
<1> DEFINE R == [k \in DOMAIN Bagged(bag, Iris) |-> Slot(Bagged(bag, Iris)[k].item, 1)]
           L == Bagged(bag, Blue)
           M == WornBy(Rank, worn)
           B == R \o L
<1>1. carried' = B \o M
    BY DEF CollectCaveCarryItems
<1>2. /\ R = [k \in DOMAIN Bagged(bag, Iris) |-> Slot(Bagged(bag, Iris)[k].item, 1)]
      /\ L = Bagged(bag, Blue) /\ M = WornBy(Rank, worn) /\ B = R \o L
    OBVIOUS
<1> HIDE DEF R, L, M, B
<1>3. /\ R \in Seq(Words) /\ Len(R) <= Cardinality(Iris)
      /\ \A k \in 1 .. Len(R) : R[k].item \in Iris /\ R[k].n = 1
      /\ \A j, k \in 1 .. Len(R) : R[j].item = R[k].item => j = k
      /\ \A i \in Items : Listed(R, 0, i) = IF i \in Iris /\ Holding(bag, i) # {} THEN 1 ELSE 0
    BY <1>2, OneOfEach
<1>4. /\ L \in Seq(Words) /\ Len(L) <= Cardinality(Blue)
      /\ \A k \in 1 .. Len(L) : L[k].item \in Blue
      /\ \A j, k \in 1 .. Len(L) : L[j].item = L[k].item => j = k
    BY <1>2, BaggedIs, KindsAre
<1>5. /\ M \in Seq(Words) /\ Len(M) <= Cardinality(Members) * PlaceCount
      /\ SingleBlue(M) /\ ListsWorn(M, Members, worn)
    <2>1. /\ Members \subseteq Members /\ Rank \in [Members -> Nat]
          /\ \A m, n \in Members : Rank[m] = Rank[n] => m = n
        BY Seats
    <2> QED
        BY <1>2, <2>1, WornByIs
<1>6. /\ B \in Seq(Words) /\ Len(B) = Len(R) + Len(L) /\ Len(R) \in Nat /\ Len(L) \in Nat
      /\ \A k \in 1 .. Len(R) : B[k] = R[k]
      /\ \A k \in Len(R) + 1 .. Len(R) + Len(L) : B[k] = L[k - Len(R)]
    BY <1>2, <1>3, <1>4
<1>7. \A k \in 1 .. Len(B) :
        \/ k \in 1 .. Len(R) /\ B[k] = R[k]
        \/ k - Len(R) \in 1 .. Len(L) /\ B[k] = L[k - Len(R)]
    BY <1>6
<1>8. \A k \in 1 .. Len(B) : B[k].item \in Blue \/ (B[k].item \in Iris /\ B[k].n = 1)
    BY <1>3, <1>4, <1>7
<1>9. \A j, k \in 1 .. Len(B) : B[j].item = B[k].item => j = k
    <2> SUFFICES ASSUME NEW j \in 1 .. Len(B), NEW k \in 1 .. Len(B), B[j].item = B[k].item
                 PROVE  j = k
        OBVIOUS
    <2>1. CASE j \in 1 .. Len(R) /\ k \in 1 .. Len(R)
        BY <1>3, <1>6, <2>1
    <2>2. CASE j - Len(R) \in 1 .. Len(L) /\ k - Len(R) \in 1 .. Len(L)
        <3>1. /\ j \in Len(R) + 1 .. Len(R) + Len(L) /\ k \in Len(R) + 1 .. Len(R) + Len(L)
            BY <1>6, <2>2
        <3>2. L[j - Len(R)].item = L[k - Len(R)].item
            BY <1>6, <3>1
        <3>3. j - Len(R) = k - Len(R)
            BY <1>4, <2>2, <3>2
        <3> QED
            BY <1>6, <3>3
    <2>3. CASE j \in 1 .. Len(R) /\ k - Len(R) \in 1 .. Len(L)
        <3>1. B[k] = L[k - Len(R)]
            BY <1>6, <2>3
        <3>2. B[j].item \in Iris /\ B[k].item \in Blue
            BY <1>3, <1>4, <1>6, <2>3, <3>1
        <3> QED
            BY <3>2, KindsAre
    <2>4. CASE k \in 1 .. Len(R) /\ j - Len(R) \in 1 .. Len(L)
        <3>1. B[j] = L[j - Len(R)]
            BY <1>6, <2>4
        <3>2. B[k].item \in Iris /\ B[j].item \in Blue
            BY <1>3, <1>4, <1>6, <2>4, <3>1
        <3> QED
            BY <3>2, KindsAre
    <2> QED
        BY <1>7, <2>1, <2>2, <2>3, <2>4
<1>10. /\ carried' \in Seq(Words) /\ Len(carried') = Len(B) + Len(M)
       /\ Len(B) \in Nat /\ Len(M) \in Nat
       /\ \A k \in 1 .. Len(B) : carried'[k] = B[k]
       /\ \A k \in Len(B) + 1 .. Len(carried') :
            k - Len(B) \in 1 .. Len(M) /\ carried'[k] = M[k - Len(B)]
    <2>0. B \in Seq(Words) /\ M \in Seq(Words)
        BY <1>5, <1>6
    <2>1. /\ carried' \in Seq(Words) /\ Len(carried') = Len(B) + Len(M)
          /\ Len(B) \in Nat /\ Len(M) \in Nat
        BY <1>1, <2>0
    <2>2. \A k \in 1 .. Len(B) : carried'[k] = B[k]
        BY <1>1, <2>0
    <2>3. \A k \in Len(B) + 1 .. Len(carried') : k - Len(B) \in 1 .. Len(M)
        BY <2>1
    <2>4. \A k \in Len(B) + 1 .. Len(carried') : carried'[k] = M[k - Len(B)]
        BY <1>1, <2>0, <2>1
    <2> QED
        BY <2>1, <2>2, <2>3, <2>4
<1>11. Len(carried') < HourSize \div 2
    BY <1>3, <1>4, <1>5, <1>6, <1>10, ListsFit, KindsAre
<1>12. \A k \in Len(B) + 1 .. Len(carried') : carried'[k].item \in Blue /\ carried'[k].n = 1
    BY <1>5, <1>10 DEF SingleBlue
<1>13. \A k \in 1 .. Len(carried') : \/ carried'[k].item \in Blue
                                     \/ carried'[k].item \in Iris /\ carried'[k].n = 1
    <2> SUFFICES ASSUME NEW k \in 1 .. Len(carried')
                 PROVE  \/ carried'[k].item \in Blue
                        \/ carried'[k].item \in Iris /\ carried'[k].n = 1
        OBVIOUS
    <2>1. k \in 1 .. Len(B) \/ k \in Len(B) + 1 .. Len(carried')
        BY <1>10
    <2> QED
        BY <1>8, <1>10, <1>12, <2>1
<1>14. Len(B) \in BagPart(carried')
    <2>1. Len(B) \in 0 .. Len(carried')
        BY <1>10
    <2>2. \A j, k \in 1 .. Len(B) : carried'[j].item = carried'[k].item => j = k
        BY <1>9, <1>10
    <2> QED
        BY <1>12, <2>1, <2>2 DEF BagPart
<1>15. ASSUME NEW i \in Items
       PROVE  Listed(carried', 0, i) =
                IF i \in Blue THEN Held(bag, worn, i)
                ELSE IF i \in Iris /\ Holding(bag, i) # {} THEN 1 ELSE 0
    <2>1. Listed(carried', 0, i) = Listed(B, 0, i) + Listed(M, 0, i)
        BY <1>1, <1>5, <1>6, ListedBoth
    <2>2. Listed(B, 0, i) = Listed(R, 0, i) + Listed(L, 0, i)
        BY <1>2, <1>3, <1>4, ListedBoth
    <2>3. Listed(R, 0, i) = IF i \in Iris /\ Holding(bag, i) # {} THEN 1 ELSE 0
        BY <1>3
    <2>4. Listed(L, 0, i) = IF i \in Blue THEN Count(bag, i) ELSE 0
        BY <1>2, BaggedListed, KindsAre
    <2>5. Listed(M, 0, i) = IF i \in Blue THEN Worn(worn, i) ELSE 0
        BY <1>5 DEF ListsWorn, Worn, WornOf
    <2>6. Count(bag, i) \in Nat /\ Worn(worn, i) \in Nat /\ ~ (i \in Blue /\ i \in Iris)
        BY CountType, WornCount, Fields, KindsAre
    <2> QED
        BY <2>1, <2>2, <2>3, <2>4, <2>5, <2>6 DEF Held
<1> QED
    BY <1>10, <1>11, <1>13, <1>14, <1>15

-----------------------------------------------------------------------------
(* What the party does during a visit, and what it is given.                *)

(* Only the stored item comes to a bag by storing, and none by taking.      *)
LEMMA StoredItems ==
    ASSUME NEW b, BagOK(b), NEW i \in Items, NEW q
    PROVE  \A t \in Slots : Stored(b, i, q)[t].item \in {b[t].item, i}
<1>1. \A n : \A s, t \in Slots :
        [b EXCEPT ![s] = Slot(i, n)][t].item \in {b[t].item, i}
    BY DEF BagOK, Slot
<1>2. CASE Holding(b, i) # {}
    <2>1. FirstOf(Holding(b, i)) \in Slots
        BY <1>2, CountType
    <2> QED
        BY <1>1, <1>2, <2>1 DEF Stored
<1>3. CASE Holding(b, i) = {} /\ Free(b) # {}
    <2>1. FirstOf(Free(b)) \in Slots
        BY <1>3, FirstIn DEF Free
    <2> QED
        BY <1>1, <1>3, <2>1 DEF Stored
<1>4. CASE Holding(b, i) = {} /\ Free(b) = {}
    BY <1>4 DEF Stored
<1> QED
    BY <1>2, <1>3, <1>4

LEMMA ToppedItems ==
    ASSUME NEW b, BagOK(b), NEW i \in Items
    PROVE  \A t \in Slots : Topped(b, i)[t].item \in {b[t].item, i}
<1>1. CASE Holding(b, i) = {}
    BY <1>1, StoredItems DEF Topped
<1>2. CASE Holding(b, i) # {}
    <2>1. FirstOf(Holding(b, i)) \in Slots
        BY <1>2, CountType
    <2> QED
        BY <1>2, <2>1 DEF Topped, BagOK, Slot
<1> QED
    BY <1>1, <1>2

LEMMA LoweredItems ==
    ASSUME NEW b, BagOK(b), NEW s \in Slots, NEW q
    PROVE  \A t \in Slots : Lowered(b, s, q)[t].item \in {b[t].item, None}
BY DEF Lowered, BagOK, Empty, Slot

(* A new item in a free slot takes that slot.                               *)
LEMMA StoredNew ==
    ASSUME NEW b, BagOK(b), NEW i \in Items, NEW q \in 1 .. Cap,
           Holding(b, i) = {}, Free(b) # {}
    PROVE  /\ BagOK(Stored(b, i, q))
           /\ \A j \in Items : Count(Stored(b, i, q), j) = Count(b, j) + (IF i = j THEN q ELSE 0)
           /\ Cardinality(Free(b)) \in Nat /\ Cardinality(Free(Stored(b, i, q))) \in Nat
           /\ Cardinality(Free(Stored(b, i, q))) = Cardinality(Free(b)) - 1
<1>1. q \in Nat \ {0} /\ Count(b, i) = 0 /\ Count(b, i) + q <= Cap
    BY CountType, Fields
<1>2. /\ BagOK(Stored(b, i, q))
      /\ \A j \in Items : Count(Stored(b, i, q), j) = Count(b, j) + (IF i = j THEN q ELSE 0)
    BY <1>1, StoredCount
<1> DEFINE s == FirstOf(Free(b))
<1>3. s \in Free(b) /\ s \in Slots
    BY FirstIn DEF Free
<1>4. Stored(b, i, q) = [b EXCEPT ![s] = Slot(i, q % FieldSize)]
    BY DEF Stored
<1> HIDE DEF s
<1>5. Free(Stored(b, i, q)) = Free(b) \ {s}
    BY <1>3, <1>4, Fields DEF Free, BagOK, Empty, Slot
<1>6. IsFiniteSet(Free(b))
    <2>1. IsFiniteSet(Slots)
        BY Fields, FS_Interval DEF Slots
    <2> QED
        BY <2>1, FS_Subset DEF Free
<1>7. /\ Cardinality(Free(b)) \in Nat
      /\ Cardinality(Free(b) \ {s}) = Cardinality(Free(b)) - 1
      /\ Cardinality(Free(b) \ {s}) \in Nat
    <2>1. IsFiniteSet(Free(b) \ {s})
        BY <1>6, FS_RemoveElement
    <2> QED
        BY <1>3, <1>6, <2>1, FS_CardinalityType, FS_RemoveElement
<1> QED
    BY <1>2, <1>5, <1>7

(* A bag of blue items and the potion has a free slot for another blue item. *)
LEMMA FreshFits ==
    ASSUME NEW b, BagOK(b), \A s \in Slots : b[s].item \in Blue \cup {Potion, None},
           NEW i \in Blue, Holding(b, i) = {}
    PROVE  Free(b) # {}
<1> SUFFICES ASSUME Free(b) = {} PROVE FALSE
    OBVIOUS
<1> DEFINE T == (Blue \ {i}) \cup {Potion}
           f == [s \in Slots |-> b[s].item]
<1>1. \A s \in Slots : b[s].item \in T
    <2> SUFFICES ASSUME NEW s \in Slots PROVE b[s].item \in T
        OBVIOUS
    <2>1. b[s].item # None
        BY DEF Free, Empty, Slot, BagOK
    <2>2. b[s].item # i
        BY DEF Holding
    <2> QED
        BY <2>1, <2>2
<1>2. f \in [Slots -> T] /\ \A s, t \in Slots : f[s] = f[t] => s = t
    <2>1. \A s \in Slots : b[s].item # None
        BY <1>1, KindsAre, Fields
    <2> QED
        BY <1>1, <2>1 DEF BagOK
<1>3. IsFiniteSet(T) /\ Cardinality(T) <= Cardinality(Blue)
    <2>1. IsFiniteSet(Blue \ {i}) /\ Cardinality(Blue \ {i}) = Cardinality(Blue) - 1
        BY KindsAre, FS_RemoveElement
    <2>2. /\ IsFiniteSet((Blue \ {i}) \cup {Potion})
          /\ Cardinality((Blue \ {i}) \cup {Potion}) = Cardinality(Blue \ {i}) + 1
        BY <2>1, KindsAre, FS_AddElement
    <2> QED
        BY <2>1, <2>2, KindsAre
<1> HIDE DEF f, T
<1>4. Cardinality(Slots) <= Cardinality(T)
    BY <1>2, <1>3, NoMoreThan
<1>5. Cardinality(Slots) = Capacity
    BY Fields, FS_Interval DEF Slots
<1>6. Cardinality(T) \in Nat
    BY <1>3, FS_CardinalityType
<1> QED
    BY <1>3, <1>4, <1>5, <1>6, KindsAre, Fields

LEMMA HeldIs ==
    ASSUME NEW b, BagOK(b), NEW w, NEW i \in Items
    PROVE  /\ Held(b, w, i) = Count(b, i) + Worn(w, i) /\ Held(b, w, i) \in Nat
           /\ Count(b, i) \in Nat /\ Worn(w, i) \in Nat
<1>1. Count(b, i) \in Nat /\ Worn(w, i) \in Nat
    BY CountType, WornCount, Fields
<1> QED
    BY <1>1 DEF Held

(* The travelling party has none of an item.                                *)
Lacks(b, w, x, i) ==
    /\ Holding(b, i) = {} /\ x # i
    /\ \A m \in Party, p \in Places : w[m][p] # i

(* What the party does keeps bag and equipment in order; the menu that is   *)
(* open stays open or closes.                                               *)
LEMMA ActsKeep ==
    ASSUME BagOK(bag), WornOK(worn), pending \in Items \cup {None}, PlayerActs
    PROVE  /\ BagOK(bag') /\ WornOK(worn') /\ pending' \in Items \cup {None}
           /\ at \in {"home", "cave"} \/ pending # None
           /\ pending # None => pending' \in {pending, None}
           /\ UNCHANGED <<at, lists, records, time, stopped, ticked, past>>
<1>1. /\ at \in {"home", "cave"} \/ pending # None
      /\ UNCHANGED <<at, lists, records, time, stopped, ticked, past>>
    BY DEF PlayerActs
<1>2. CASE \E i \in Items : FindItem(i)
    <2>1. PICK i \in Items : FindItem(i)
        BY <1>2
    <2>2. pending = None /\ pending' \in {i, None} /\ worn' = worn
        BY <2>1 DEF FindItem
    <2>3. bag' = bag \/ bag' = Stored(bag, i, 1)
        BY <2>1 DEF FindItem
    <2>4. BagOK(Stored(bag, i, 1))
        BY StoredOne
    <2> QED
        BY <1>1, <2>2, <2>3, <2>4
<1>3. CASE ClosePending
    <2>1. pending \in Items /\ bag' = Stored(bag, pending, 1) /\ worn' = worn /\ pending' = None
        BY <1>3 DEF ClosePending
    <2>2. BagOK(Stored(bag, pending, 1))
        BY <2>1, StoredOne
    <2> QED
        BY <1>1, <2>1, <2>2
<1>4. CASE UsePending
    BY <1>1, <1>4 DEF UsePending
<1>5. CASE \E s \in Slots : Consume(s)
    <2>1. PICK s \in Slots : Consume(s)
        BY <1>5
    <2>2. /\ bag[s].n # 0 /\ bag' = Lowered(bag, s, 1)
          /\ worn' = worn /\ pending' = pending
        BY <2>1 DEF Consume, Lose
    <2>e. bag[s] # Empty
        BY <2>2 DEF Empty, Slot
    <2>3. bag[s].item # None /\ 1 \in 1 .. bag[s].n
        BY <2>e, Occupied, Fields
    <2>4. BagOK(Lowered(bag, s, 1))
        BY <2>3, LoweredCount
    <2> QED
        BY <1>1, <2>2, <2>4
<1>6. CASE \E m \in Party, p \in Places : Unequip(m, p)
    <2>1. PICK m \in Party, p \in Places : Unequip(m, p)
        BY <1>6
    <2>2. m \in Members /\ CanTakeOff(m, p, Full) /\ TakeOff(m, p) /\ pending' = pending
        BY <2>1, KindsAre DEF Unequip
    <2> QED
        BY <1>1, <2>2, TakeOffOK
<1>7. CASE \E m \in Party, p \in Places, s \in Slots : Equip(m, p, s)
    <2>1. PICK m \in Party, p \in Places, s \in Slots : Equip(m, p, s)
        BY <1>7
    <2>2. /\ m \in Members /\ Wearable(m, p, s) /\ CanPutOn(m, p, s, Full)
          /\ PutOn(m, p, s, Full) /\ pending' = pending
        BY <2>1, KindsAre DEF Equip
    <2>3. BagOK(bag') /\ WornOK(worn')
        BY <2>2, PutOnOK
    <2> QED
        BY <1>1, <2>2, <2>3
<1> QED
    BY <1>2, <1>3, <1>4, <1>5, <1>6, <1>7 DEF PlayerActs

(* While a menu is open, the party comes to nothing that it does not have.  *)
LEMMA ActsBring ==
    ASSUME BagOK(bag), WornOK(worn), pending \in Items, PlayerActs,
           NEW i \in Items, Lacks(bag, worn, pending, i)
    PROVE  /\ Lacks(bag', worn', pending', i)
           /\ \A m \in Members \ Party : worn'[m] = worn[m]
<1>1. pending # None /\ pending # i /\ None # i
    BY Fields DEF Lacks
<1>2. /\ \A s \in Slots : bag[s].item # i
      /\ \A m \in Party, p \in Places : worn[m][p] # i
    BY DEF Lacks, Holding
<1>3. ASSUME \A s \in Slots : bag'[s].item # i,
             \A m \in Party, p \in Places : worn'[m][p] # i, pending' # i
      PROVE  Lacks(bag', worn', pending', i)
    BY <1>3 DEF Lacks, Holding
<1>4. pending' # i
    BY <1>1, ActsKeep
<1>5. ASSUME NEW m \in Party, NEW p \in Places, NEW x, x # i, Wear(m, p, x)
      PROVE  /\ \A n \in Party, q \in Places : worn'[n][q] # i
             /\ \A n \in Members \ Party : worn'[n] = worn[n]
    BY <1>2, <1>5, KindsAre DEF Wear, WornOK
<1>6. CASE ClosePending
    <2>1. bag' = Stored(bag, pending, 1) /\ worn' = worn
        BY <1>6 DEF ClosePending
    <2>2. \A t \in Slots : bag'[t].item \in {bag[t].item, pending}
        BY <2>1, StoredItems
    <2> QED
        BY <1>1, <1>2, <1>3, <1>4, <2>1, <2>2
<1>7. CASE UsePending
    BY <1>2, <1>3, <1>4, <1>7 DEF UsePending
<1>8. CASE \E s \in Slots : Consume(s)
    <2>1. PICK s \in Slots : Consume(s)
        BY <1>8
    <2>2. bag' = Lowered(bag, s, 1) /\ worn' = worn
        BY <2>1 DEF Consume, Lose
    <2>3. \A t \in Slots : bag'[t].item \in {bag[t].item, None}
        BY <2>2, LoweredItems
    <2> QED
        BY <1>1, <1>2, <1>3, <1>4, <2>2, <2>3
<1>9. CASE \E m \in Party, p \in Places : Unequip(m, p)
    <2>1. PICK m \in Party, p \in Places : Unequip(m, p)
        BY <1>9
    <2>2. /\ bag' = Topped(bag, worn[m][p]) /\ Wear(m, p, None)
          /\ worn[m][p] \in Items /\ worn[m][p] # i
        BY <1>2, <2>1, KindsAre DEF Unequip, TakeOff, CanTakeOff, WornOK
    <2>3. \A t \in Slots : bag'[t].item \in {bag[t].item, worn[m][p]}
        BY <2>2, ToppedItems
    <2>4. \A t \in Slots : bag'[t].item # i
        BY <1>2, <2>2, <2>3
    <2> QED
        BY <1>1, <1>3, <1>4, <1>5, <2>2, <2>4
<1>10. CASE \E m \in Party, p \in Places, s \in Slots : Equip(m, p, s)
    <2>1. PICK m \in Party, p \in Places, s \in Slots : Equip(m, p, s)
        BY <1>10
    <2>2. /\ Wear(m, p, bag[s].item) /\ bag[s].item # i /\ worn[m][p] # i
          /\ worn[m][p] \in Items \cup {None}
        BY <1>2, <2>1, KindsAre DEF Equip, PutOn, WornOK
    <2>3. CASE bag' = [bag EXCEPT ![s] = Slot(worn[m][p], 1)]
        <3>1. \A t \in Slots : bag'[t].item # i
            BY <1>2, <2>2, <2>3 DEF Slot, BagOK
        <3> QED
            BY <1>3, <1>4, <1>5, <2>2, <3>1
    <2>4. CASE bag' = Lowered(bag, s, 1)
        <3>1. \A t \in Slots : bag'[t].item \in {bag[t].item, None}
            BY <2>4, LoweredItems
        <3>2. \A t \in Slots : bag'[t].item # i
            BY <1>1, <1>2, <3>1
        <3> QED
            BY <1>3, <1>4, <1>5, <2>2, <3>2
    <2>5. CASE worn[m][p] # None /\ bag' = Lowered(Stored(bag, worn[m][p], 1), s, 1)
        <3> DEFINE b == Stored(bag, worn[m][p], 1)
        <3>1. worn[m][p] \in Items
            BY <2>2, <2>5
        <3>2. BagOK(b) /\ bag' = Lowered(b, s, 1)
            BY <2>5, <3>1, StoredOne
        <3>3. \A t \in Slots : b[t].item \in {bag[t].item, worn[m][p]}
            BY <3>1, StoredItems
        <3> HIDE DEF b
        <3>4. \A t \in Slots : bag'[t].item \in {b[t].item, None}
            BY <3>2, LoweredItems
        <3>5. \A t \in Slots : bag'[t].item # i
            BY <1>1, <1>2, <2>2, <3>3, <3>4
        <3> QED
            BY <1>3, <1>4, <1>5, <2>2, <3>5
    <2> QED
        BY <2>1, <2>3, <2>4, <2>5 DEF Equip, PutOn
<1> QED
    BY <1>1, <1>6, <1>7, <1>8, <1>9, <1>10 DEF PlayerActs, FindItem

(* While a menu is open, the party comes to no more of an item.             *)
LEMMA ActsLose ==
    ASSUME BagOK(bag), WornOK(worn), pending \in Items, PlayerActs, NEW i \in Items
    PROVE  AtHand(i)' <= AtHand(i)
<1>1. BagOK(bag') /\ pending # None
    BY ActsKeep, Fields
<1>2. /\ Held(bag, worn, i) = Count(bag, i) + Worn(worn, i)
      /\ Held(bag', worn', i) = Count(bag', i) + Worn(worn', i)
      /\ Count(bag, i) \in Nat /\ Worn(worn, i) \in Nat
      /\ Count(bag', i) \in Nat /\ Worn(worn', i) \in Nat
    BY <1>1, HeldIs
<1>3. /\ AtHand(i) = Held(bag, worn, i) + One(pending = i)
      /\ AtHand(i)' = Held(bag', worn', i) + One(pending' = i)
    BY DEF AtHand, One
<1>4. ASSUME Count(bag', i) + Worn(worn', i) <= Count(bag, i) + Worn(worn, i),
             pending' = pending \/ pending' = None
      PROVE  AtHand(i)' <= AtHand(i)
    BY <1>1, <1>2, <1>3, <1>4, Fields DEF One
<1>5. CASE ClosePending
    <2>1. bag' = Stored(bag, pending, 1) /\ worn' = worn /\ Room(bag, pending) /\ pending' = None
        BY <1>5 DEF ClosePending
    <2>2. Count(bag', i) = Count(bag, i) + One(pending = i)
        BY <2>1, StoredOneCount
    <2> QED
        BY <1>2, <1>3, <2>1, <2>2, Fields DEF One
<1>6. CASE UsePending
    <2>1. bag' = bag /\ worn' = worn /\ pending' = None
        BY <1>6 DEF UsePending
    <2> QED
        BY <1>2, <1>4, <2>1
<1>7. CASE \E s \in Slots : Consume(s)
    <2>1. PICK s \in Slots : Consume(s)
        BY <1>7
    <2>2. /\ bag[s].n # 0 /\ bag' = Lowered(bag, s, 1)
          /\ worn' = worn /\ pending' = pending
        BY <2>1 DEF Consume, Lose
    <2>e. bag[s] # Empty
        BY <2>2 DEF Empty, Slot
    <2>3. bag[s].item # None /\ 1 \in 1 .. bag[s].n
        BY <2>e, Occupied, Fields
    <2>4. Count(bag', i) = Count(bag, i) - (IF bag[s].item = i THEN 1 ELSE 0)
        BY <2>2, <2>3, LoweredCount
    <2> QED
        BY <1>2, <1>4, <2>2, <2>4
<1>8. CASE \E m \in Party, p \in Places : Unequip(m, p)
    <2>1. PICK m \in Party, p \in Places : Unequip(m, p)
        BY <1>8
    <2>2. m \in Members /\ CanTakeOff(m, p, Full) /\ TakeOff(m, p) /\ pending' = pending
        BY <2>1, KindsAre DEF Unequip
    <2>3. Count(bag', i) + Worn(worn', i) = Count(bag, i) + Worn(worn, i)
        BY <2>2, TakeOffMoves
    <2> QED
        BY <1>2, <1>4, <2>2, <2>3
<1>9. CASE \E m \in Party, p \in Places, s \in Slots : Equip(m, p, s)
    <2>1. PICK m \in Party, p \in Places, s \in Slots : Equip(m, p, s)
        BY <1>9
    <2>2. /\ m \in Members /\ Wearable(m, p, s) /\ CanPutOn(m, p, s, Full)
          /\ PutOn(m, p, s, Full) /\ pending' = pending
        BY <2>1, KindsAre DEF Equip
    <2>3. Count(bag', i) + Worn(worn', i) = Count(bag, i) + Worn(worn, i)
        BY <2>2, PutOnMoves
    <2> QED
        BY <1>2, <1>4, <2>2, <2>3
<1> QED
    BY <1>1, <1>5, <1>6, <1>7, <1>8, <1>9 DEF PlayerActs, FindItem

(* The goods of a visit, without the clock.                                 *)
GoodsTypes ==
    /\ BagOK(bag) /\ WornOK(worn) /\ pending \in Items \cup {None}
    /\ BagOK(backup.bag) /\ WornOK(backup.worn)
    /\ backup = [bag |-> backup.bag, worn |-> backup.worn,
                  hours |-> backup.hours, minutes |-> backup.minutes]
    /\ at \in Stages /\ defeated \in BOOLEAN
    /\ saved \in Seq(Words) /\ Len(saved) < HourSize \div 2
    /\ carried \in Seq(Words) /\ Len(carried) < HourSize \div 2
    /\ given \in Nat
GoodsFlags ==
    /\ at = "grant" => given <= Len(saved)
    /\ at = "return" => given <= Len(Returning)
    /\ pending # None => at \in {"home", "grant", "cave", "return"}
    /\ at \in {"backupHours", "backupMinutes", "grant", "cave", "collect"} => ~ defeated
    /\ at = "fallen" => defeated
    /\ at \in {"readMinutes", "writeMinutes", "addHours"} => given = Len(Returning)
Copied ==
    /\ at = "backupHours" => NoBlue(bag, worn)
    /\ InBackup \/ at = "restoreMinutes" => NoBlue(backup.bag, backup.worn)
    /\ at = "restoreMinutes" => bag = backup.bag /\ worn = backup.worn
    /\ at = "resetMinutes" => bag = FreshBag /\ worn = NoWorn
CaveGoods ==
    /\ GoodsTypes /\ GoodsFlags /\ Copied /\ ListsStand /\ GrantStands /\ ReturnStands

(* The next item of a list is given whole, is dropped, or opens the menu.   *)
LEMMA GiveIs ==
    ASSUME GoodsTypes, NEW list \in Seq(Words), GiveNext(list), NEW e, e = list[given + 1],
           e.n > 1 => Holding(bag, e.item) = {}
    PROVE  /\ given + 1 \in 1 .. Len(list) /\ given' = given + 1 /\ e \in Words
           /\ e.item \in Items /\ e.n \in 1 .. Cap /\ e.item # None
           /\ pending = None /\ pending' \in {None, e.item} /\ worn' = worn
           /\ pending' # None => e.n = 1 /\ ~ Room(bag, e.item)
           /\ BagOK(bag') /\ \A t \in Slots : bag'[t].item \in {bag[t].item, e.item}
           /\ \A i \in Items : AtHand(i)' = AtHand(i)
                + (IF e.item = i /\ (Room(bag, i) \/ e.n = 1) THEN e.n ELSE 0)
           /\ Holding(bag, e.item) = {} /\ Free(bag) # {} =>
                /\ pending' = None /\ Cardinality(Free(bag')) = Cardinality(Free(bag)) - 1
                /\ Cardinality(Free(bag)) \in Nat /\ Cardinality(Free(bag')) \in Nat
<1>1. given + 1 \in 1 .. Len(list) /\ given' = given + 1 /\ pending = None /\ worn' = worn
    BY DEF GiveNext, GoodsTypes
<1>2. e \in Words
    BY <1>1
<1>3. e.item \in Items /\ e.n \in 1 .. Cap /\ e.item # None
    BY <1>2, Fields DEF Words
<1>4. IF Room(bag, e.item) THEN bag' = Stored(bag, e.item, e.n) /\ pending' = None
      ELSE bag' = bag /\ pending' = IF e.n = 1 THEN e.item ELSE None
    BY DEF GiveNext
<1>5. pending' \in {None, e.item} /\ (pending' # None => e.n = 1 /\ ~ Room(bag, e.item))
    BY <1>4
<1>6. BagOK(bag)
    BY DEF GoodsTypes
<1>7. CASE Room(bag, e.item)
    <2>1. bag' = Stored(bag, e.item, e.n) /\ pending' = None
        BY <1>4, <1>7
    <2>2. /\ BagOK(bag')
          /\ \A j \in Items : Count(bag', j) = Count(bag, j) + (IF e.item = j THEN e.n ELSE 0)
        <3>1. CASE e.n = 1
            <4>1. /\ BagOK(Stored(bag, e.item, 1))
                  /\ \A j \in Items :
                        Count(Stored(bag, e.item, 1), j) = Count(bag, j) + One(e.item = j)
                BY <1>3, <1>6, <1>7, StoredOneCount
            <4> QED
                BY <2>1, <3>1, <4>1 DEF One
        <3>2. CASE e.n # 1
            <4>1. Holding(bag, e.item) = {}
                BY <1>3, <3>2, Fields
            <4>2. Free(bag) # {}
                BY <1>7, <4>1 DEF Room
            <4> QED
                BY <1>3, <1>6, <2>1, <4>1, <4>2, StoredNew
        <3> QED
            BY <3>1, <3>2
    <2>3. \A t \in Slots : bag'[t].item \in {bag[t].item, e.item}
        BY <1>3, <1>6, <2>1, StoredItems
    <2>4. ASSUME NEW i \in Items
          PROVE  AtHand(i)' = AtHand(i)
                    + (IF e.item = i /\ (Room(bag, i) \/ e.n = 1) THEN e.n ELSE 0)
        <3>1. /\ Held(bag, worn, i) = Count(bag, i) + Worn(worn, i)
              /\ Held(bag', worn, i) = Count(bag', i) + Worn(worn, i)
              /\ Count(bag, i) \in Nat /\ Worn(worn, i) \in Nat /\ Count(bag', i) \in Nat
            BY <1>6, <2>2, HeldIs
        <3>2. AtHand(i) = Held(bag, worn, i) /\ AtHand(i)' = Held(bag', worn, i)
            BY <1>1, <1>3, <2>1, <3>1, Fields DEF AtHand
        <3>3. Count(bag', i) = Count(bag, i) + (IF e.item = i THEN e.n ELSE 0)
            BY <2>2
        <3> QED
            BY <1>3, <1>7, <3>1, <3>2, <3>3
    <2>5. ASSUME Holding(bag, e.item) = {}, Free(bag) # {}
          PROVE  /\ Cardinality(Free(bag')) = Cardinality(Free(bag)) - 1
                 /\ Cardinality(Free(bag)) \in Nat /\ Cardinality(Free(bag')) \in Nat
        BY <1>3, <1>6, <2>1, <2>5, StoredNew
    <2> QED
        BY <1>1, <1>2, <1>3, <1>5, <2>1, <2>2, <2>3, <2>4, <2>5
<1>8. CASE ~ Room(bag, e.item)
    <2>1. bag' = bag /\ pending' = IF e.n = 1 THEN e.item ELSE None
        BY <1>4, <1>8
    <2>2. ASSUME NEW i \in Items
          PROVE  AtHand(i)' = AtHand(i)
                    + (IF e.item = i /\ (Room(bag, i) \/ e.n = 1) THEN e.n ELSE 0)
        <3>1. Held(bag, worn, i) \in Nat
            BY <1>6, HeldIs
        <3> QED
            BY <1>1, <1>3, <1>8, <2>1, <3>1, Fields DEF AtHand
    <2>3. ~ (Holding(bag, e.item) = {} /\ Free(bag) # {})
        BY <1>8 DEF Room
    <2> QED
        BY <1>1, <1>2, <1>3, <1>5, <1>6, <2>1, <2>2, <2>3
<1> QED
    BY <1>7, <1>8

(* Where a word of a list holds more than one, only other items are before  *)
(* it.                                                                      *)
LEMMA ManyAreNew ==
    ASSUME NEW list \in Seq(Words), NEW n \in BagPart(list), NEW k \in 1 .. Len(list),
           list[k].n > 1
    PROVE  k <= n /\ \A j \in 1 .. n : list[j].item = list[k].item => j = k
<1>1. n \in 0 .. Len(list) /\ n \in Nat
    BY DEF BagPart
<1>2. \A j \in n + 1 .. Len(list) : list[j].n = 1
    BY DEF BagPart
<1>3. k <= n
    <2> SUFFICES ASSUME k > n PROVE FALSE
        BY <1>1
    <2>1. k \in n + 1 .. Len(list)
        BY <1>1
    <2> QED
        BY <1>2, <2>1
<1>4. k \in 1 .. n
    BY <1>1, <1>3
<1>5. \A j, m \in 1 .. n : list[j].item = list[m].item => j = m
    BY DEF BagPart
<1> QED
    BY <1>3, <1>4, <1>5

(* What the party was not given yet of an item, it does not have.           *)
LEMMA GrantNew ==
    ASSUME CaveGoods, at = "grant", NEW k \in 1 .. Len(saved), k = given + 1,
           saved[k].n > 1
    PROVE  Holding(bag, saved[k].item) = {}
<1> DEFINE i == saved[k].item
<1>1. saved \in Seq(Words) /\ BagOK(bag) /\ given \in Nat
    BY DEF CaveGoods, GoodsTypes
<1>2. i \in Blue /\ i \in Items /\ saved[k].n \in 1 .. Cap
    <2>1. i \in Blue
        BY DEF CaveGoods, ListsStand
    <2>2. saved[k] \in Words
        BY <1>1
    <2> QED
        BY <2>1, <2>2, KindsAre DEF Words
<1>3. PICK n \in BagPart(saved) : TRUE
    <2>1. InBackup
        BY DEF InBackup, Stages
    <2> QED
        BY <2>1 DEF CaveGoods, ListsStand
<1>4. k <= n /\ \A j \in 1 .. n : saved[j].item = i => j = k
    BY <1>1, <1>3, ManyAreNew
<1>5. \A j \in 1 .. Len(saved) : j <= given => saved[j].item # i
    <2>1. n \in Nat
        BY <1>3 DEF BagPart
    <2> QED
        BY <1>1, <1>4, <2>1
<1> HIDE DEF i
<1>6. Listed(saved, given, i) = Listed(saved, 0, i) /\ Listed(saved, 0, i) \in Nat
    BY <1>1, <1>5, ListedBehind, ListedIs
<1>7. AtHand(i) + Listed(saved, given, i) <= Listed(saved, 0, i)
    BY <1>2 DEF CaveGoods, GrantStands
<1>8. Held(bag, worn, i) = Count(bag, i) + Worn(worn, i)
      /\ Count(bag, i) \in Nat /\ Worn(worn, i) \in Nat
    BY <1>1, <1>2, HeldIs
<1>9. Count(bag, i) = 0
    BY <1>6, <1>7, <1>8 DEF AtHand
<1>10. Holding(bag, i) = {}
    BY <1>1, <1>2, <1>9, CountType
<1> QED
    BY <1>10 DEF i

(* Every word of the list is given; what has no room waits in the menu.     *)
LEMMA GrantGives ==
    ASSUME CaveGoods, Grant
    PROVE  /\ BagOK(bag') /\ worn' = worn /\ pending' \in Items \cup {None}
           /\ GrantStands' /\ given' <= Len(saved) /\ given' \in Nat /\ at = "grant"
           /\ \A i \in Items : AtHand(i)' + Listed(saved, given', i)
                                = AtHand(i) + Listed(saved, given, i)
<1> DEFINE k == given + 1
           e == saved[k]
<1>1. /\ saved \in Seq(Words) /\ BagOK(bag) /\ given \in Nat /\ at = "grant"
      /\ GiveNext(saved) /\ GoodsTypes /\ GrantStands /\ ListsStand
    BY DEF CaveGoods, GoodsTypes, Grant
<1>2. k \in 1 .. Len(saved)
    BY <1>1 DEF GiveNext
<1>3. e.n > 1 => Holding(bag, e.item) = {}
    BY <1>1, <1>2, GrantNew
<1>4. /\ given' = k /\ e.item \in Items /\ e.n \in 1 .. Cap /\ e.item # None
      /\ pending = None /\ pending' \in {None, e.item} /\ worn' = worn
      /\ pending' # None => e.n = 1 /\ ~ Room(bag, e.item)
      /\ BagOK(bag') /\ \A t \in Slots : bag'[t].item \in {bag[t].item, e.item}
      /\ \A i \in Items : AtHand(i)' = AtHand(i)
                + (IF e.item = i /\ (Room(bag, i) \/ e.n = 1) THEN e.n ELSE 0)
    BY <1>1, <1>3, GiveIs
<1>5. e.item \in Blue
    BY <1>1, <1>2 DEF ListsStand
<1>6. saved' = saved /\ at' = at
    BY <1>1 DEF GiveNext
<1>7. /\ \A s \in Slots : bag[s].item \in Blue \cup {Potion, None}
      /\ \A m \in Members, p \in Places : worn[m][p] \in Blue \cup {Potion, None}
      /\ \A i \in Blue : AtHand(i) + Listed(saved, given, i) <= Listed(saved, 0, i)
    BY <1>1 DEF GrantStands
<1>8. Holding(bag, e.item) = {} => Free(bag) # {}
    BY <1>1, <1>5, <1>7, FreshFits
<1>9. Room(bag, e.item) \/ e.n = 1
    BY <1>3, <1>4, <1>8, Fields DEF Room
<1>10. \A i \in Items :
        /\ Listed(saved, given, i) \in Nat /\ Listed(saved, k, i) \in Nat
        /\ Listed(saved, 0, i) \in Nat
        /\ Listed(saved, given, i) = Listed(saved, k, i) + (IF e.item = i THEN e.n ELSE 0)
    <2>1. given \in 0 .. Len(saved) - 1 /\ given \in Nat /\ k \in Nat
        BY <1>1, <1>2
    <2> HIDE DEF k
    <2>2. \A i \in Items : /\ Listed(saved, given, i) \in Nat /\ Listed(saved, k, i) \in Nat
                           /\ Listed(saved, 0, i) \in Nat
        BY <1>1, <2>1, ListedIs
    <2>3. \A i \in Items : Listed(saved, given, i) =
            Listed(saved, given + 1, i)
            + (IF saved[given + 1].item = i THEN saved[given + 1].n ELSE 0)
        BY <1>1, <2>1, ListedStep
    <2> QED
        BY <2>2, <2>3 DEF k
<1>11. \A i \in Items : AtHand(i) \in Nat
    <2> SUFFICES ASSUME NEW i \in Items PROVE AtHand(i) \in Nat
        OBVIOUS
    <2>1. Held(bag, worn, i) \in Nat
        BY <1>1, HeldIs
    <2> QED
        BY <2>1 DEF AtHand
<1> HIDE DEF e, k
<1>12. \A i \in Items : AtHand(i)' = AtHand(i) + (IF e.item = i THEN e.n ELSE 0)
    BY <1>4, <1>9
<1>13. \A i \in Items : /\ AtHand(i)' + Listed(saved, k, i) = AtHand(i) + Listed(saved, given, i)
                        /\ AtHand(i)' \in Nat
    BY <1>4, <1>10, <1>11, <1>12
<1>14. \A i \in Blue : AtHand(i)' + Listed(saved, k, i) <= Listed(saved, 0, i)
    BY <1>7, <1>13, KindsAre
<1>15. pending' # None => Listed(saved, 0, pending') > Cap
    <2> SUFFICES ASSUME pending' # None, NEW i \in Items, i = e.item
                 PROVE  Listed(saved, 0, i) > Cap
        BY <1>4
    <2>1. e.n = 1 /\ Count(bag, i) = Cap
        <3>1. e.n = 1 /\ ~ Room(bag, i)
            BY <1>4
        <3> QED
            BY <1>8, <3>1 DEF Room
    <2>2. AtHand(i) >= Cap
        <3>1. Held(bag, worn, i) = Count(bag, i) + Worn(worn, i) /\ Worn(worn, i) \in Nat
            BY <1>1, HeldIs
        <3> QED
            BY <1>4, <2>1, <3>1, Fields DEF AtHand
    <2>3. AtHand(i)' >= Cap + 1
        BY <1>11, <1>12, <2>1, <2>2, Fields
    <2>4. AtHand(i)' + Listed(saved, k, i) <= Listed(saved, 0, i)
        BY <1>5, <1>14
    <2>5. Listed(saved, k, i) \in Nat /\ Listed(saved, 0, i) \in Nat /\ AtHand(i)' \in Nat
        BY <1>10, <1>13
    <2> QED
        BY <2>3, <2>4, <2>5, Fields
<1>16. GrantStands'
    <2>1. \A s \in Slots : bag'[s].item \in Blue \cup {Potion, None}
        BY <1>4, <1>5, <1>7
    <2>2. \A m \in Members, p \in Places : worn'[m][p] \in Blue \cup {Potion, None}
        BY <1>4, <1>7
    <2>3. pending' \in Blue \cup {None}
        BY <1>4, <1>5
    <2>4. \A i \in Blue : AtHand(i)' + Listed(saved', given', i) <= Listed(saved', 0, i)
        BY <1>4, <1>6, <1>14
    <2>5. pending' # None => Listed(saved', 0, pending') > Cap
        BY <1>6, <1>15
    <2> QED
        BY <2>1, <2>2, <2>3, <2>4, <2>5 DEF GrantStands
<1>17. given' <= Len(saved) /\ given' \in Nat
    BY <1>1, <1>2, <1>4
<1>18. \A i \in Items : AtHand(i)' + Listed(saved, given', i) = AtHand(i) + Listed(saved, given, i)
    BY <1>4, <1>13
<1> QED
    BY <1>1, <1>4, <1>16, <1>17, <1>18

LEMMA ReturningIs ==
    ASSUME GoodsTypes
    PROVE  Returning \in Seq(Words) /\ Returning \in {saved, carried}
           /\ (defeated => Returning = saved) /\ (~ defeated => Returning = carried)
BY DEF GoodsTypes, Returning

(* What is still to return is given whole, opens the menu, or is dropped,   *)
(* more than one of it, when there was no defeat.                           *)
LEMMA ReturnGives ==
    ASSUME CaveGoods, ReturnItem
    PROVE  /\ BagOK(bag') /\ worn' = worn /\ pending' \in Items \cup {None}
           /\ ReturnStands' /\ given' <= Len(Returning) /\ given' \in Nat /\ at = "return"
           /\ \A i \in Items :
                \/ AtHand(i)' + Listed(Returning, given', i)
                    = AtHand(i) + Listed(Returning, given, i)
                \/ Dropped(i)
<1> DEFINE R == Returning
           k == given + 1
           e == R[k]
<1>1. /\ R \in Seq(Words) /\ BagOK(bag) /\ given \in Nat /\ at = "return"
      /\ GiveNext(R) /\ GoodsTypes /\ ReturnStands /\ ListsStand /\ defeated \in BOOLEAN
      /\ defeated => R = saved
      /\ ~ defeated => R = carried
    BY ReturningIs DEF CaveGoods, GoodsTypes, ReturnItem
<1>2. Returning' = R /\ defeated' = defeated /\ at' = "return"
    BY <1>1 DEF GiveNext, Returning, records, lists
<1>3. PICK n \in BagPart(R) :
        /\ \A j \in given + 1 .. n : R[j].item \in Blue =>
            /\ Holding(bag, R[j].item) = {} /\ pending # R[j].item
            /\ \A m \in Party, p \in Places : worn[m][p] # R[j].item
        /\ defeated /\ given < n => pending = None /\ n - given <= Cardinality(Free(bag))
    BY <1>1 DEF ReturnStands
<1> HIDE DEF R
<1>4. k \in 1 .. Len(R) /\ k \in Nat /\ k = given + 1 /\ k - 1 = given
    BY <1>1 DEF GiveNext
<1>5. n \in Nat /\ n <= Len(R) /\ \A j, m \in 1 .. n : R[j].item = R[m].item => j = m
    BY <1>3 DEF BagPart
<1>6. e.n > 1 => k <= n
    BY <1>1, <1>3, <1>4, ManyAreNew
<1>7. e.item \in Blue \/ (e.item \in Iris /\ e.n = 1 /\ ~ defeated)
    BY <1>1, <1>4 DEF ListsStand
<1>8. k <= n /\ e.item \in Blue => /\ Holding(bag, e.item) = {} /\ pending # e.item
                                  /\ \A m \in Party, p \in Places : worn[m][p] # e.item
    <2> SUFFICES ASSUME k <= n, e.item \in Blue
                 PROVE  /\ Holding(bag, e.item) = {} /\ pending # e.item
                        /\ \A m \in Party, p \in Places : worn[m][p] # e.item
        OBVIOUS
    <2>1. k \in given + 1 .. n
        BY <1>1, <1>4, <1>5
    <2> HIDE DEF k
    <2> QED
        BY <1>3, <2>1
<1>9. e.n > 1 => k <= n /\ Holding(bag, e.item) = {} /\ e.item \in Blue
    BY <1>6, <1>7, <1>8
<1>10. /\ given' = k /\ e.item \in Items /\ e.n \in 1 .. Cap /\ e.item # None
       /\ pending = None /\ pending' \in {None, e.item} /\ worn' = worn
       /\ BagOK(bag') /\ \A t \in Slots : bag'[t].item \in {bag[t].item, e.item}
       /\ \A i \in Items : AtHand(i)' = AtHand(i)
                + (IF e.item = i /\ (Room(bag, i) \/ e.n = 1) THEN e.n ELSE 0)
       /\ Holding(bag, e.item) = {} /\ Free(bag) # {} =>
            /\ pending' = None /\ Cardinality(Free(bag')) = Cardinality(Free(bag)) - 1
            /\ Cardinality(Free(bag)) \in Nat /\ Cardinality(Free(bag')) \in Nat
    BY <1>1, <1>9, GiveIs
<1>11. defeated /\ k <= n => /\ Holding(bag, e.item) = {} /\ Free(bag) # {} /\ Room(bag, e.item)
                            /\ n - given <= Cardinality(Free(bag))
    <2> SUFFICES ASSUME defeated, k <= n
                 PROVE  /\ Holding(bag, e.item) = {} /\ Free(bag) # {} /\ Room(bag, e.item)
                        /\ n - given <= Cardinality(Free(bag))
        OBVIOUS
    <2>1. Holding(bag, e.item) = {}
        BY <1>7, <1>8
    <2>2. n - given <= Cardinality(Free(bag)) /\ n - given >= 1
        BY <1>1, <1>3, <1>4, <1>5
    <2>3. Free(bag) # {}
        <3> SUFFICES ASSUME Free(bag) = {} PROVE FALSE
            OBVIOUS
        <3>1. Cardinality(Free(bag)) = 0
            BY FS_EmptySet
        <3> QED
            BY <1>1, <1>5, <2>2, <3>1
    <2> QED
        BY <2>1, <2>2, <2>3 DEF Room
<1>12. \A i \in Items :
        /\ Listed(R, given, i) \in Nat /\ Listed(R, k, i) \in Nat
        /\ Listed(R, given, i) = Listed(R, k, i) + (IF e.item = i THEN e.n ELSE 0)
    <2>1. given \in 0 .. Len(R) - 1 /\ given \in Nat /\ k \in Nat
        BY <1>1, <1>4
    <2> HIDE DEF k
    <2>2. \A i \in Items : Listed(R, given, i) \in Nat /\ Listed(R, k, i) \in Nat
        BY <1>1, <2>1, ListedIs
    <2>3. \A i \in Items : Listed(R, given, i) =
            Listed(R, given + 1, i)
            + (IF R[given + 1].item = i THEN R[given + 1].n ELSE 0)
        BY <1>1, <2>1, ListedStep
    <2> QED
        BY <2>2, <2>3 DEF k
<1>13. \A i \in Items : AtHand(i) \in Nat
    <2> SUFFICES ASSUME NEW i \in Items PROVE AtHand(i) \in Nat
        OBVIOUS
    <2>1. Held(bag, worn, i) \in Nat
        BY <1>1, HeldIs
    <2> QED
        BY <2>1 DEF AtHand
<1>14. k < n => \A j \in k + 1 .. n : R[j].item # e.item
    BY <1>4, <1>5
<1>15. ~ (Room(bag, e.item) \/ e.n = 1) => ~ defeated /\ e.n > 1
    BY <1>9, <1>10, <1>11
<1> HIDE DEF e, k
<1>16. ASSUME NEW i \in Items
       PROVE  \/ AtHand(i)' + Listed(R, k, i) = AtHand(i) + Listed(R, given, i)
              \/ Dropped(i)
    <2>1. CASE e.item = i /\ ~ (Room(bag, i) \/ e.n = 1)
        <3>1. ~ defeated /\ e.n > 1 /\ ~ Room(bag, i)
            BY <1>15, <2>1
        <3>2. carried[given + 1] = e /\ given < Len(carried)
            BY <1>1, <1>4, <3>1 DEF e, k
        <3> QED
            BY <1>1, <2>1, <3>1, <3>2 DEF Dropped
    <2>2. CASE ~ (e.item = i /\ ~ (Room(bag, i) \/ e.n = 1))
        BY <1>10, <1>12, <1>13, <2>2
    <2> QED
        BY <2>1, <2>2
<1>17. ReturnStands'
    <2>1. \A j \in k + 1 .. n : R[j].item \in Blue =>
            /\ Holding(bag', R[j].item) = {} /\ pending' # R[j].item
            /\ \A m \in Party, p \in Places : worn'[m][p] # R[j].item
        <3> SUFFICES ASSUME NEW j \in k + 1 .. n, R[j].item \in Blue
                     PROVE  /\ Holding(bag', R[j].item) = {} /\ pending' # R[j].item
                            /\ \A m \in Party, p \in Places : worn'[m][p] # R[j].item
            OBVIOUS
        <3>1. j \in given + 1 .. n /\ k < n
            BY <1>4, <1>5
        <3>2. /\ Holding(bag, R[j].item) = {}
              /\ \A m \in Party, p \in Places : worn[m][p] # R[j].item
            BY <1>3, <3>1
        <3>3. R[j].item # e.item /\ R[j].item # None
            BY <1>14, <3>1, KindsAre
        <3> QED
            BY <1>10, <3>2, <3>3 DEF Holding
    <2>2. defeated /\ k < n => pending' = None /\ n - k <= Cardinality(Free(bag'))
        <3> SUFFICES ASSUME defeated, k < n
                     PROVE  pending' = None /\ n - k <= Cardinality(Free(bag'))
            OBVIOUS
        <3>1. Holding(bag, e.item) = {} /\ Free(bag) # {} /\ n - given <= Cardinality(Free(bag))
            BY <1>4, <1>5, <1>11
        <3>2. /\ pending' = None /\ Cardinality(Free(bag')) = Cardinality(Free(bag)) - 1
              /\ Cardinality(Free(bag)) \in Nat /\ Cardinality(Free(bag')) \in Nat
            BY <1>10, <3>1
        <3> QED
            BY <1>1, <1>4, <1>5, <3>1, <3>2
    <2>3. /\ Returning' = R /\ defeated' = defeated /\ given' = k
        BY <1>2, <1>10
    <2>4. \E q \in BagPart(Returning') :
            /\ \A j \in given' + 1 .. q : Returning'[j].item \in Blue =>
                /\ Holding(bag', Returning'[j].item) = {} /\ pending' # Returning'[j].item
                /\ \A m \in Party, p \in Places : worn'[m][p] # Returning'[j].item
            /\ defeated' /\ given' < q => pending' = None /\ q - given' <= Cardinality(Free(bag'))
        BY <1>3, <2>1, <2>2, <2>3
    <2> QED
        BY <2>4 DEF ReturnStands
<1>18. given' <= Len(R) /\ given' \in Nat
    BY <1>4, <1>10
<1> QED
    BY <1>1, <1>10, <1>16, <1>17, <1>18 DEF R

-----------------------------------------------------------------------------
(* The goods during a visit, step by step.                                  *)

LEMMA RestGoods ==
    ASSUME CaveGoods, UNCHANGED <<bag, worn, pending, at, lists, backup, defeated>>
    PROVE  CaveGoods'
<1>1. GoodsTypes' /\ GoodsFlags' /\ Copied' /\ ListsStand'
    BY DEF CaveGoods, GoodsTypes, GoodsFlags, Copied, ListsStand, lists, Returning, InBackup,
        NoBlue, BagPart
<1>2. GrantStands'
    BY DEF CaveGoods, GrantStands, lists, AtHand
<1>3. ReturnStands'
    BY DEF CaveGoods, ReturnStands, lists, Returning
<1> QED
    BY <1>1, <1>2, <1>3 DEF CaveGoods

(* What the player does.                                                    *)
LEMMA ActsGoods ==
    ASSUME CaveGoods, PlayerActs
    PROVE  CaveGoods'
<1>1. /\ BagOK(bag) /\ WornOK(worn) /\ pending \in Items \cup {None}
      /\ GoodsTypes /\ GoodsFlags /\ Copied /\ ListsStand /\ GrantStands /\ ReturnStands
    BY DEF CaveGoods, GoodsTypes
<1>2. /\ BagOK(bag') /\ WornOK(worn') /\ pending' \in Items \cup {None}
      /\ at \in {"home", "cave"} \/ pending # None
      /\ pending # None => pending' \in {pending, None}
      /\ UNCHANGED <<at, lists, records, time, stopped, ticked, past>>
    BY <1>1, ActsKeep
<1>3. at \in {"home", "grant", "cave", "return"}
    BY <1>1, <1>2 DEF GoodsFlags
<1>4. UNCHANGED <<at, saved, carried, given, backup, defeated>>
    BY <1>2 DEF lists, records
<1>5. GoodsTypes'
    BY <1>1, <1>2, <1>4 DEF GoodsTypes
<1>6. GoodsFlags'
    BY <1>1, <1>3, <1>4 DEF GoodsFlags, Returning
<1>7. Copied' /\ ListsStand'
    BY <1>1, <1>3, <1>4 DEF Copied, ListsStand, InBackup
<1>8. GrantStands'
    <2> SUFFICES ASSUME at = "grant" PROVE GrantStands'
        BY <1>4 DEF GrantStands
    <2>1. /\ \A s \in Slots : bag[s].item \in Blue \cup {Potion, None}
          /\ \A m \in Members, p \in Places : worn[m][p] \in Blue \cup {Potion, None}
          /\ pending \in Blue \cup {None}
          /\ \A i \in Blue : AtHand(i) + Listed(saved, given, i) <= Listed(saved, 0, i)
          /\ pending # None => Listed(saved, 0, pending) > Cap
        BY <1>1 DEF GrantStands
    <2>2. pending \in Items /\ pending # None
        BY <1>1, <1>2, Fields
    <2>3. ASSUME NEW i \in Items, i \notin Blue \cup {Potion}
          PROVE  /\ \A s \in Slots : bag'[s].item # i
                 /\ \A m \in Members, p \in Places : worn'[m][p] # i
        <3>1. i # None
            BY Fields
        <3>2. Lacks(bag, worn, pending, i)
            BY <2>1, <2>2, <2>3, <3>1, KindsAre DEF Lacks, Holding
        <3>3. Lacks(bag', worn', pending', i) /\ \A m \in Members \ Party : worn'[m] = worn[m]
            BY <1>1, <2>2, <3>2, ActsBring
        <3> QED
            BY <2>1, <2>3, <3>1, <3>3 DEF Lacks, Holding
    <2>4. \A s \in Slots : bag'[s].item \in Items \cup {None}
        BY <1>2 DEF BagOK
    <2>5. \A m \in Members, p \in Places : worn'[m][p] \in Items \cup {None}
        BY <1>2 DEF WornOK
    <2>6. \A s \in Slots : bag'[s].item \in Blue \cup {Potion, None}
        BY <2>3, <2>4
    <2>7. \A m \in Members, p \in Places : worn'[m][p] \in Blue \cup {Potion, None}
        BY <2>3, <2>5
    <2>8. ASSUME NEW i \in Blue
          PROVE  AtHand(i)' + Listed(saved, given, i) <= Listed(saved, 0, i)
        <3>1. i \in Items
            BY KindsAre
        <3>2. AtHand(i)' <= AtHand(i)
            BY <1>1, <2>2, <3>1, ActsLose
        <3>3. AtHand(i) + Listed(saved, given, i) <= Listed(saved, 0, i)
            BY <2>1
        <3>4. Listed(saved, given, i) \in Nat /\ Listed(saved, 0, i) \in Nat
            BY <1>1, ListedIs DEF GoodsTypes
        <3>5. Held(bag, worn, i) \in Nat /\ Held(bag', worn', i) \in Nat
            BY <1>1, <1>2, <3>1, HeldIs
        <3>6. AtHand(i) \in Nat /\ AtHand(i)' \in Nat
            BY <3>5 DEF AtHand
        <3> QED
            BY <3>2, <3>3, <3>4, <3>6
    <2>9. pending' \in Blue \cup {None} /\ (pending' # None => Listed(saved, 0, pending') > Cap)
        BY <1>2, <2>1, <2>2
    <2> QED
        BY <1>4, <2>6, <2>7, <2>8, <2>9 DEF GrantStands
<1>9. ReturnStands'
    <2> SUFFICES ASSUME at = "return" PROVE ReturnStands'
        BY <1>4 DEF ReturnStands
    <2>1. pending \in Items /\ pending # None
        BY <1>1, <1>2, Fields
    <2>2. PICK n \in BagPart(Returning) :
        /\ \A k \in given + 1 .. n : Returning[k].item \in Blue =>
            /\ Holding(bag, Returning[k].item) = {} /\ pending # Returning[k].item
            /\ \A m \in Party, p \in Places : worn[m][p] # Returning[k].item
        /\ defeated /\ given < n => pending = None /\ n - given <= Cardinality(Free(bag))
        BY <1>1 DEF ReturnStands
    <2>3. ASSUME NEW k \in given + 1 .. n, Returning[k].item \in Blue
          PROVE  /\ Holding(bag', Returning[k].item) = {} /\ pending' # Returning[k].item
                 /\ \A m \in Party, p \in Places : worn'[m][p] # Returning[k].item
        <3> DEFINE i == Returning[k].item
        <3>1. Lacks(bag, worn, pending, i) /\ i \in Items
            BY <2>2, <2>3, KindsAre DEF Lacks
        <3> HIDE DEF i
        <3>2. Lacks(bag', worn', pending', i)
            BY <1>1, <2>1, <3>1, ActsBring
        <3> QED
            BY <3>2 DEF Lacks, i
    <2>4. ~ (defeated /\ given < n)
        BY <2>1, <2>2
    <2>5. Returning' = Returning /\ defeated' = defeated /\ given' = given
        BY <1>4 DEF Returning
    <2> QED
        BY <2>2, <2>3, <2>4, <2>5 DEF ReturnStands
<1> QED
    BY <1>5, <1>6, <1>7, <1>8, <1>9 DEF CaveGoods

LEMMA FreshOK ==
    /\ BagOK(FreshBag) /\ WornOK(NoWorn)
    /\ \A s \in Slots : FreshBag[s].item \in {Potion, None}
    /\ \A i \in Items \ {Potion} : Count(FreshBag, i) = 0
    /\ \A i \in Items : Worn(NoWorn, i) = 0
<1>1. BagOK(FreshBag) /\ \A s \in Slots : FreshBag[s].item \in {Potion, None}
    <2>1. /\ Potions \in 1 .. Cap /\ Cap \in Nat
          /\ Potion \in Items /\ None \notin Items /\ Potion # None
        BY KindsAre, Fields
    <2>2. FreshBag \in [Slots -> [item : Items \cup {None}, n : 0 .. Cap]]
        BY <2>1 DEF FreshBag, Slot, Empty
    <2>3. \A s \in Slots : (FreshBag[s].item = None) <=> (FreshBag[s].n = 0)
        BY <2>1 DEF FreshBag, Slot, Empty
    <2>4. \A s, t \in Slots :
            FreshBag[s].item # None /\ FreshBag[s].item = FreshBag[t].item => s = t
        BY <2>1 DEF FreshBag, Slot, Empty
    <2>5. \A s \in Slots : FreshBag[s].item \in {Potion, None}
        BY <2>1 DEF FreshBag, Slot, Empty
    <2> QED
        BY <2>2, <2>3, <2>4, <2>5 DEF BagOK
<1>2. WornOK(NoWorn)
    BY DEF WornOK, NoWorn
<1>3. ASSUME NEW i \in Items \ {Potion} PROVE Count(FreshBag, i) = 0
    BY <1>1, CountAt, Fields
<1>4. ASSUME NEW i \in Items PROVE Worn(NoWorn, i) = 0
    <2>1. {m \in Members : Place[i] # 0 /\ NoWorn[m][Place[i]] = i} = {}
        BY Fields, InventoryAssumption DEF NoWorn, Places
    <2> QED
        BY <2>1, FS_EmptySet DEF Worn
<1> QED
    BY <1>1, <1>2, <1>3, <1>4

LEMMA GoodsParts ==
    ASSUME CaveGoods
    PROVE  /\ BagOK(bag) /\ WornOK(worn) /\ pending \in Items \cup {None}
           /\ GoodsTypes /\ GoodsFlags /\ Copied /\ ListsStand /\ GrantStands /\ ReturnStands
BY DEF CaveGoods, GoodsTypes

(* Entering, up to the cave.                                                *)
LEMMA EnterGoods ==
    ASSUME CaveGoods, Enter
    PROVE  CaveGoods'
<1>1. /\ BagOK(bag') /\ WornOK(worn') /\ NoBlue(bag', worn')
      /\ saved' \in Seq(Words) /\ Len(saved') < HourSize \div 2
      /\ \A k \in 1 .. Len(saved') : saved'[k].item \in Blue
      /\ \E n \in BagPart(saved') : n <= Cardinality(Free(bag'))
    BY GoodsParts, EnterTakes
<1>2. /\ at' = "backupHours" /\ defeated' = FALSE /\ pending = None
      /\ UNCHANGED <<pending, carried, given, backup>>
    BY DEF Enter
<1>3. GoodsTypes'
    BY <1>1, <1>2, GoodsParts DEF GoodsTypes, Stages
<1>4. GoodsFlags' /\ Copied' /\ GrantStands' /\ ReturnStands'
    BY <1>1, <1>2 DEF GoodsFlags, Copied, GrantStands, ReturnStands, InBackup
<1>5. ListsStand'
    BY <1>1, <1>2, GoodsParts DEF ListsStand, InBackup
<1> QED
    BY <1>3, <1>4, <1>5 DEF CaveGoods

LEMMA BackupGoods ==
    ASSUME CaveGoods, BackupHours \/ BackupMinutes
    PROVE  CaveGoods'
<1>1. CASE BackupHours
    <2>1. /\ at = "backupHours" /\ at' = "backupMinutes"
          /\ backup'.bag = bag /\ backup'.worn = worn
          /\ backup' = [bag |-> backup'.bag, worn |-> backup'.worn,
                        hours |-> backup'.hours, minutes |-> backup'.minutes]
          /\ UNCHANGED <<bag, worn, pending, saved, carried, given, defeated>>
        BY <1>1 DEF BackupHours, inventory, goods, lists
    <2>2. GoodsTypes' /\ GoodsFlags'
        BY <2>1, GoodsParts DEF GoodsTypes, GoodsFlags, Stages
    <2>3. Copied' /\ GrantStands' /\ ReturnStands'
        BY <2>1, GoodsParts DEF Copied, GrantStands, ReturnStands, InBackup
    <2>4. ListsStand'
        BY <2>1, GoodsParts DEF ListsStand, InBackup
    <2> QED
        BY <2>2, <2>3, <2>4 DEF CaveGoods
<1>2. CASE BackupMinutes
    <2>1. /\ at = "backupMinutes" /\ at' = "resetHours"
          /\ backup' = [backup EXCEPT !.minutes = minutes]
          /\ UNCHANGED <<bag, worn, pending, saved, carried, given, defeated>>
        BY <1>2 DEF BackupMinutes, inventory, goods, lists
    <2>2. /\ backup'.bag = backup.bag /\ backup'.worn = backup.worn
          /\ backup' = [bag |-> backup'.bag, worn |-> backup'.worn,
                        hours |-> backup'.hours, minutes |-> backup'.minutes]
        <3>1. GoodsTypes
            BY GoodsParts
        <3>2. /\ backup'.bag = backup.bag /\ backup'.worn = backup.worn
              /\ backup'.hours = backup.hours /\ backup'.minutes = minutes
              /\ backup' = [bag |-> backup.bag, worn |-> backup.worn, hours |-> backup.hours,
                            minutes |-> minutes]
            BY <2>1, <3>1 DEF GoodsTypes
        <3> QED
            BY <3>2
    <2>3. GoodsTypes' /\ GoodsFlags'
        BY <2>1, <2>2, GoodsParts DEF GoodsTypes, GoodsFlags, Stages
    <2>4. Copied' /\ GrantStands' /\ ReturnStands'
        BY <2>1, <2>2, GoodsParts DEF Copied, GrantStands, ReturnStands, InBackup, Stages
    <2>5. ListsStand'
        BY <2>1, <2>2, GoodsParts DEF ListsStand, InBackup, Stages
    <2> QED
        BY <2>3, <2>4, <2>5 DEF CaveGoods
<1> QED
    BY <1>1, <1>2

(* The party starts afresh, with none of the blue items.                    *)
LEMMA ResetGoods ==
    ASSUME CaveGoods, ResetHours \/ ResetMinutes
    PROVE  CaveGoods'
<1>1. CASE ResetHours
    <2>1. /\ at = "resetHours" /\ at' = "resetMinutes" /\ bag' = FreshBag /\ worn' = NoWorn
          /\ UNCHANGED <<pending, saved, carried, given, backup, defeated>>
        BY <1>1 DEF ResetHours, lists, records
    <2>2. GoodsTypes' /\ GoodsFlags'
        BY <2>1, GoodsParts, FreshOK DEF GoodsTypes, GoodsFlags, Stages
    <2>3. Copied' /\ GrantStands' /\ ReturnStands'
        BY <2>1, GoodsParts DEF Copied, GrantStands, ReturnStands, InBackup, Stages
    <2>4. ListsStand'
        BY <2>1, GoodsParts DEF ListsStand, InBackup, Stages
    <2> QED
        BY <2>2, <2>3, <2>4 DEF CaveGoods
<1>2. CASE ResetMinutes
    <2>1. /\ at = "resetMinutes" /\ at' = (IF defeated THEN "fallen" ELSE "grant") /\ given' = 0
          /\ UNCHANGED <<bag, worn, pending, saved, carried, backup, defeated>>
        BY <1>2 DEF ResetMinutes, inventory, goods, records
    <2>2. bag = FreshBag /\ worn = NoWorn /\ pending = None
        BY <2>1, GoodsParts DEF Copied, GoodsFlags
    <2>3. GoodsTypes' /\ GoodsFlags'
        BY <2>1, <2>2, GoodsParts DEF GoodsTypes, GoodsFlags, Stages
    <2>4. Copied' /\ ReturnStands'
        BY <2>1, GoodsParts DEF Copied, ReturnStands, InBackup, Stages
    <2>5. ListsStand'
        BY <2>1, GoodsParts DEF ListsStand, InBackup, Stages
    <2>6. GrantStands'
        <3>1. ASSUME NEW i \in Blue
              PROVE  AtHand(i)' + Listed(saved, 0, i) <= Listed(saved, 0, i)
            <4>1. i \in Items /\ i # Potion /\ i # None
                BY KindsAre
            <4>2. Count(bag, i) = 0 /\ Worn(worn, i) = 0
                BY <2>2, <4>1, FreshOK
            <4>3. AtHand(i)' = 0
                BY <2>1, <2>2, <4>1, <4>2 DEF AtHand, Held
            <4>4. Listed(saved, 0, i) \in Nat
                BY GoodsParts, ListedIs DEF GoodsTypes
            <4> QED
                BY <4>3, <4>4
        <3>2. /\ \A s \in Slots : bag'[s].item \in Blue \cup {Potion, None}
              /\ \A m \in Members, p \in Places : worn'[m][p] \in Blue \cup {Potion, None}
            BY <2>1, <2>2, FreshOK DEF NoWorn
        <3> QED
            BY <2>1, <2>2, <3>1, <3>2 DEF GrantStands
    <2> QED
        BY <2>3, <2>4, <2>5, <2>6 DEF CaveGoods
<1> QED
    BY <1>1, <1>2

LEMMA GrantGoods ==
    ASSUME CaveGoods, Grant
    PROVE  CaveGoods'
<1>1. /\ BagOK(bag') /\ worn' = worn /\ pending' \in Items \cup {None}
      /\ GrantStands' /\ given' <= Len(saved) /\ given' \in Nat /\ at = "grant"
    BY GrantGives
<1>2. UNCHANGED <<at, saved, carried, backup, defeated>>
    BY DEF Grant, GiveNext, records
<1>3. GoodsTypes' /\ GoodsFlags'
    BY <1>1, <1>2, GoodsParts DEF GoodsTypes, GoodsFlags
<1>4. Copied' /\ ReturnStands'
    BY <1>1, <1>2, GoodsParts DEF Copied, ReturnStands, InBackup
<1>5. ListsStand'
    BY <1>1, <1>2, GoodsParts DEF ListsStand, InBackup
<1> QED
    BY <1>1, <1>3, <1>4, <1>5 DEF CaveGoods

(* In the cave, and out of it.                                              *)
LEMMA CaveStageGoods ==
    ASSUME CaveGoods, EnterCave \/ Defeat \/ Leave \/ StageHours
    PROVE  CaveGoods'
<1>1. /\ UNCHANGED <<bag, worn, pending, saved, carried, given, backup>>
      /\ \/ at = "grant" /\ at' = "cave" /\ pending = None /\ defeated' = defeated
         \/ at = "cave" /\ at' = "resetHours" /\ pending = None /\ defeated' = TRUE
         \/ at \in {"cave", "fallen"} /\ at' = "stageHours" /\ pending = None
            /\ defeated' = defeated
         \/ at = "stageHours" /\ at' = (IF defeated THEN "restoreHours" ELSE "collect")
            /\ defeated' = defeated
    BY DEF EnterCave, Defeat, Leave, StageHours, inventory, goods, lists, records
<1>2. pending = None
    BY <1>1, GoodsParts DEF GoodsFlags
<1>3. defeated \in BOOLEAN /\ GoodsTypes /\ GoodsFlags
    BY GoodsParts DEF GoodsTypes
<1>4. GoodsTypes'
    BY <1>1, <1>3 DEF GoodsTypes, Stages
<1>5. GoodsFlags'
    BY <1>1, <1>2, <1>3 DEF GoodsFlags
<1>6. Copied' /\ GrantStands' /\ ReturnStands'
    BY <1>1, GoodsParts DEF Copied, GrantStands, ReturnStands, InBackup, Stages
<1>7. ListsStand'
    BY <1>1, GoodsParts DEF ListsStand, InBackup, Stages
<1> QED
    BY <1>4, <1>5, <1>6, <1>7 DEF CaveGoods

LEMMA CollectGoods ==
    ASSUME CaveGoods, CollectCaveCarryItems
    PROVE  CaveGoods'
<1>1. /\ carried' \in Seq(Words) /\ Len(carried') < HourSize \div 2
      /\ \A k \in 1 .. Len(carried') : \/ carried'[k].item \in Blue
                                       \/ carried'[k].item \in Iris /\ carried'[k].n = 1
      /\ BagPart(carried') # {}
    BY GoodsParts, CollectTakes
<1>2. /\ at = "collect" /\ at' = "restoreHours"
      /\ UNCHANGED <<bag, worn, pending, saved, given, backup, defeated>>
    BY DEF CollectCaveCarryItems, inventory, goods, records
<1>3. GoodsTypes' /\ GoodsFlags'
    BY <1>1, <1>2, GoodsParts DEF GoodsTypes, GoodsFlags, Stages
<1>4. Copied' /\ GrantStands' /\ ReturnStands'
    BY <1>2, GoodsParts DEF Copied, GrantStands, ReturnStands, InBackup, Stages
<1>5. ListsStand'
    BY <1>1, <1>2, GoodsParts DEF ListsStand, InBackup, Stages
<1> QED
    BY <1>3, <1>4, <1>5 DEF CaveGoods

LEMMA RestoreGoods ==
    ASSUME CaveGoods, RestoreHours \/ RestoreMinutes
    PROVE  CaveGoods'
<1>1. CASE RestoreHours
    <2>1. /\ at = "restoreHours" /\ at' = "restoreMinutes"
          /\ bag' = backup.bag /\ worn' = backup.worn
          /\ UNCHANGED <<pending, saved, carried, given, backup, defeated>>
        BY <1>1 DEF RestoreHours, lists, records
    <2>2. GoodsTypes' /\ GoodsFlags'
        BY <2>1, GoodsParts DEF GoodsTypes, GoodsFlags, Stages
    <2>3. Copied' /\ GrantStands' /\ ReturnStands'
        BY <2>1, GoodsParts DEF Copied, GrantStands, ReturnStands, InBackup, Stages
    <2>4. ListsStand'
        BY <2>1, GoodsParts DEF ListsStand, InBackup, Stages
    <2> QED
        BY <2>2, <2>3, <2>4 DEF CaveGoods
<1>2. CASE RestoreMinutes
    <2>1. /\ at = "restoreMinutes" /\ at' = "return" /\ given' = 0
          /\ UNCHANGED <<bag, worn, pending, saved, carried, backup, defeated>>
        BY <1>2 DEF RestoreMinutes, inventory, goods, records
    <2>2. bag = backup.bag /\ worn = backup.worn /\ pending = None /\ NoBlue(bag, worn)
        BY <2>1, GoodsParts DEF Copied, GoodsFlags
    <2>3. Returning' = Returning /\ Returning \in Seq(Words)
        BY <2>1, GoodsParts, ReturningIs DEF Returning
    <2>4. GoodsTypes' /\ GoodsFlags'
        BY <2>1, <2>2, <2>3, GoodsParts DEF GoodsTypes, GoodsFlags, Stages
    <2>5. Copied' /\ GrantStands'
        BY <2>1, GoodsParts DEF Copied, GrantStands, InBackup
    <2>6. ListsStand'
        BY <2>1, GoodsParts DEF ListsStand, InBackup
    <2>7. PICK n \in BagPart(Returning) : defeated => n <= Cardinality(Free(bag))
        <3>1. CASE defeated
            BY <2>1, <2>2, <3>1, GoodsParts DEF ListsStand, Returning
        <3>2. CASE ~ defeated
            BY <2>1, <3>2, GoodsParts DEF ListsStand, Returning
        <3> QED
            BY <3>1, <3>2
    <2>8. n \in Nat
        BY <2>7 DEF BagPart
    <2>9. \A k \in 1 .. n : Returning[k].item \in Blue =>
            /\ Holding(bag, Returning[k].item) = {} /\ pending # Returning[k].item
            /\ \A m \in Party, p \in Places : worn[m][p] # Returning[k].item
        BY <2>2, KindsAre DEF NoBlue, Holding
    <2>10. ReturnStands'
        <3>1. given' + 1 = 1 /\ n - given' = n
            BY <2>1, <2>8
        <3> QED
            BY <2>1, <2>2, <2>3, <2>7, <2>9, <3>1 DEF ReturnStands
    <2> QED
        BY <2>4, <2>5, <2>6, <2>10 DEF CaveGoods
<1> QED
    BY <1>1, <1>2

LEMMA ReturnGoods ==
    ASSUME CaveGoods, ReturnItem
    PROVE  CaveGoods'
<1>1. /\ BagOK(bag') /\ worn' = worn /\ pending' \in Items \cup {None}
      /\ ReturnStands' /\ given' <= Len(Returning) /\ given' \in Nat /\ at = "return"
    BY ReturnGives
<1>2. UNCHANGED <<at, saved, carried, backup, defeated>> /\ Returning' = Returning
    BY DEF ReturnItem, GiveNext, records, Returning
<1>3. GoodsTypes' /\ GoodsFlags'
    BY <1>1, <1>2, GoodsParts DEF GoodsTypes, GoodsFlags
<1>4. Copied' /\ GrantStands'
    BY <1>1, <1>2, GoodsParts DEF Copied, GrantStands, InBackup
<1>5. ListsStand'
    BY <1>1, <1>2, GoodsParts DEF ListsStand, InBackup
<1> QED
    BY <1>1, <1>3, <1>4, <1>5 DEF CaveGoods

(* The clock after the visit.                                               *)
LEMMA ClockStageGoods ==
    ASSUME CaveGoods, StopClock \/ ReadMinutes \/ WriteMinutes \/ AddHours
    PROVE  CaveGoods'
<1>1. /\ UNCHANGED <<bag, worn, pending, saved, carried, given, backup, defeated>>
      /\ \/ at = "return" /\ at' = "readMinutes" /\ pending = None /\ given = Len(Returning)
         \/ at = "readMinutes" /\ at' = "writeMinutes"
         \/ at = "writeMinutes" /\ at' = "addHours"
         \/ at = "addHours" /\ at' = "home"
    BY DEF StopClock, ReadMinutes, WriteMinutes, AddHours, inventory, goods, lists, records
<1>2. Returning' = Returning /\ pending = None
    BY <1>1, GoodsParts DEF Returning, GoodsFlags
<1>3. GoodsTypes' /\ GoodsFlags'
    BY <1>1, <1>2, GoodsParts DEF GoodsTypes, GoodsFlags, Stages
<1>4. Copied' /\ GrantStands' /\ ReturnStands' /\ ListsStand'
    BY <1>1, GoodsParts DEF Copied, GrantStands, ReturnStands, ListsStand, InBackup
<1> QED
    BY <1>3, <1>4 DEF CaveGoods

-----------------------------------------------------------------------------
(* The play clock during a visit to the cave.                               *)

(* The parts of the clock and of its copies.                                *)
TimeOK ==
    /\ minutes \in 0 .. MinuteCount - 1 /\ hours \in 0 .. HourSize - 1
    /\ backup.minutes \in 0 .. MinuteCount - 1 /\ backup.hours \in 0 .. HourSize - 1
    /\ staged.minutes \in 0 .. MinuteCount - 1 /\ staged.hours \in 0 .. HourSize - 1
    /\ backup = [bag |-> backup.bag, worn |-> backup.worn,
                  hours |-> backup.hours, minutes |-> backup.minutes]
    /\ staged = [minutes |-> staged.minutes, hours |-> staged.hours]
    /\ ticked \in BOOLEAN /\ sum \in Nat /\ entered \in Nat /\ spent \in Nat

LEMMA ClockIs ==
    ASSUME NEW h \in Nat, NEW m \in Nat
    PROVE  /\ Clock(h, m) \in Nat /\ Clock(h, m) = h * MinuteCount + m
           /\ h * MinuteCount \in Nat
           /\ Clock(h + 1, m) = Clock(h, m) + MinuteCount
           /\ Clock(h, m + 1) = Clock(h, m) + 1
           /\ Clock(0, m) = m
           /\ MinuteCount \in Nat \ {0} /\ HourSize \in Nat \ {0}
           /\ HourSize * MinuteCount \in Nat
BY CaveAssumption, SMTT(30) DEF Clock

LEMMA ClockAdds ==
    ASSUME NEW h \in Nat, NEW m \in Nat, NEW k \in Nat
    PROVE  Clock(h + k, m) = Clock(h, m) + k * MinuteCount /\ k * MinuteCount \in Nat
<1>1. MinuteCount \in Nat
    BY ClockIs
<1>2. (h + k) * MinuteCount = h * MinuteCount + k * MinuteCount
    BY <1>1
<1>3. h * MinuteCount \in Nat /\ k * MinuteCount \in Nat
    BY <1>1
<1> QED
    BY <1>1, <1>2, <1>3 DEF Clock

(* A time that the clock can show has an hour that it can show.             *)
LEMMA HoursFit ==
    ASSUME NEW h \in Nat, NEW m \in Nat, Clock(h, m) < HourSize * MinuteCount
    PROVE  h < HourSize
<1>1. MinuteCount \in Nat \ {0} /\ HourSize \in Nat
    BY ClockIs
<1>2. SUFFICES ASSUME h >= HourSize PROVE FALSE
    BY <1>1
<1>3. h * MinuteCount >= HourSize * MinuteCount
    BY <1>1, <1>2
<1>4. Clock(h, m) = h * MinuteCount + m /\ h * MinuteCount \in Nat
    BY ClockIs
<1>5. HourSize * MinuteCount \in Nat
    BY <1>1
<1> QED
    BY <1>3, <1>4, <1>5

(* Short of the last minute the clock goes on by one.                       *)
LEMMA Ticks ==
    ASSUME NEW h \in 0 .. HourSize - 1, NEW m \in 0 .. MinuteCount - 1,
           Clock(h, m) + 1 < HourSize * MinuteCount,
           NEW k, NEW n,
           IF m + 1 >= MinuteCount THEN n = 0 /\ k = (h + 1) % HourSize
           ELSE n = m + 1 /\ k = h
    PROVE  /\ k \in 0 .. HourSize - 1 /\ n \in 0 .. MinuteCount - 1
           /\ Clock(k, n) = Clock(h, m) + 1
           /\ (k = h /\ n = m + 1) \/ (k = h + 1 /\ n = 0 /\ m = MinuteCount - 1)
<1>1. /\ MinuteCount \in Nat \ {0} /\ HourSize \in Nat \ {0} /\ h \in Nat /\ m \in Nat
      /\ Clock(h, m) = h * MinuteCount + m
    BY ClockIs, CaveAssumption
<1>2. CASE m + 1 >= MinuteCount
    <2>1. m + 1 = MinuteCount
        BY <1>1, <1>2
    <2>2. h + 1 < HourSize
        <3>1. h * MinuteCount + MinuteCount < HourSize * MinuteCount
            BY <1>1, <2>1
        <3>2. SUFFICES ASSUME h + 1 >= HourSize PROVE FALSE
            BY <1>1
        <3>3. h + 1 = HourSize
            BY <1>1, <3>2
        <3>4. HourSize * MinuteCount = h * MinuteCount + MinuteCount
            BY <1>1, <3>3
        <3> QED
            BY <1>1, <3>1, <3>4
    <2>3. h + 1 \in 0 .. HourSize - 1
        BY <1>1, <2>2
    <2>4. (h + 1) % HourSize = h + 1
        BY <1>1, <2>3, Mod
    <2>5. Clock(h + 1, 0) = Clock(h, m) + 1
        <3>1. Clock(h + 1, 0) = Clock(h, 0) + MinuteCount /\ Clock(h, 0) = h * MinuteCount + 0
            BY <1>1, ClockIs
        <3>2. h * MinuteCount \in Nat
            BY <1>1, ClockIs
        <3> QED
            BY <1>1, <2>1, <3>1, <3>2
    <2> QED
        BY <1>1, <1>2, <2>1, <2>3, <2>4, <2>5
<1>3. CASE ~ (m + 1 >= MinuteCount)
    BY <1>1, <1>3, ClockIs
<1> QED
    BY <1>2, <1>3

LEMMA TickKeeps ==
    ASSUME TimeOK, ClockInv, at \in Stages,
           stopped <=> at \in {"readMinutes", "writeMinutes", "addHours"}, TickMinute
    PROVE  ClockInv' /\ TimeOK'
<1> DEFINE C == Clock(hours, minutes)
           D == Clock(hours', minutes')
           B == Clock(backup.hours, backup.minutes)
           G == Clock(staged.hours, staged.minutes)
           T == entered + spent
           Short == C + 1 < HourSize * MinuteCount
<1>1. /\ MinuteCount \in Nat \ {0} /\ HourSize \in Nat \ {0} /\ HourSize * MinuteCount \in Nat
      /\ C \in Nat /\ B \in Nat /\ G \in Nat /\ T \in Nat /\ entered \in Nat /\ spent \in Nat
      /\ C = hours * MinuteCount + minutes /\ B = backup.hours * MinuteCount + backup.minutes
      /\ hours * MinuteCount \in Nat /\ backup.hours * MinuteCount \in Nat
    <2>1. /\ MinuteCount \in Nat \ {0} /\ HourSize \in Nat \ {0}
          /\ HourSize * MinuteCount \in Nat
        BY ClockIs
    <2>2. /\ hours \in Nat /\ minutes \in Nat /\ backup.hours \in Nat /\ backup.minutes \in Nat
          /\ staged.hours \in Nat /\ staged.minutes \in Nat /\ entered \in Nat /\ spent \in Nat
        BY <2>1 DEF TimeOK
    <2>3. /\ C \in Nat /\ C = hours * MinuteCount + minutes /\ hours * MinuteCount \in Nat
        BY <2>2, ClockIs
    <2>4. /\ B \in Nat /\ B = backup.hours * MinuteCount + backup.minutes
          /\ backup.hours * MinuteCount \in Nat
        BY <2>2, ClockIs
    <2>5. G \in Nat
        BY <2>2, ClockIs
    <2> QED
        BY <2>1, <2>2, <2>3, <2>4, <2>5
<1>2. /\ UNCHANGED <<at, backup, staged, sum, entered>> /\ spent' = spent + 1
      /\ ticked' = Brief /\ (Brief => ~ ticked)
      /\ at \notin {"readMinutes", "writeMinutes", "addHours"}
      /\ IF minutes + 1 >= MinuteCount THEN minutes' = 0 /\ hours' = (hours + 1) % HourSize
         ELSE minutes' = minutes + 1 /\ hours' = hours
    BY DEF TickMinute, records
<1>3. /\ minutes' \in 0 .. MinuteCount - 1 /\ hours' \in 0 .. HourSize - 1
    <2>1. hours + 1 \in Int /\ minutes \in Nat /\ hours \in 0 .. HourSize - 1
          /\ minutes \in 0 .. MinuteCount - 1
        BY DEF TimeOK
    <2>2. (hours + 1) % HourSize \in 0 .. HourSize - 1
        BY <1>1, <2>1, DivMod
    <2> QED
        BY <1>1, <1>2, <2>1, <2>2
<1>4. TimeOK'
    BY <1>2, <1>3 DEF TimeOK, Brief
<1>5. Short => /\ D = C + 1
               /\ \/ hours' = hours /\ minutes' = minutes + 1
                  \/ hours' = hours + 1 /\ minutes' = 0 /\ minutes = MinuteCount - 1
    BY <1>2, Ticks DEF TimeOK
<1>6. OnClock' = D /\ BackedUp' = B /\ Staged' = G /\ OnClock = C /\ BackedUp = B /\ Staged = G
      /\ (entered + spent)' = T + 1
    <2>1. (entered + spent)' = entered' + spent'
        OBVIOUS
    <2> QED
        BY <1>1, <1>2, <2>1 DEF OnClock, BackedUp, Staged
<1> HIDE DEF B, G
<1>7. at \in {"backupHours", "backupMinutes", "resetHours", "resetMinutes"} =>
        spent = 0 /\ ticked' /\ spent' = 1
    <2> SUFFICES ASSUME at \in {"backupHours", "backupMinutes", "resetHours", "resetMinutes"}
                 PROVE  spent = 0 /\ ticked' /\ spent' = 1
        OBVIOUS
    <2>1. Brief
        BY DEF Brief
    <2>2. ticked' /\ ~ ticked /\ spent' = spent + 1
        BY <1>2, <2>1
    <2>3. spent = IF ticked THEN 1 ELSE 0
        BY DEF ClockInv
    <2> QED
        BY <2>2, <2>3
<1>8. at = "resetMinutes" => (hours' = 0 \/ hours' = 1) /\ ticked'
    <2> SUFFICES ASSUME at = "resetMinutes" PROVE (hours' = 0 \/ hours' = 1) /\ ticked'
        OBVIOUS
    <2>1. ticked' /\ hours = 0
        BY <1>2 DEF Brief, ClockInv
    <2>2. (0 + 1) % HourSize \in {0, 1}
        <3>1. CASE HourSize = 1
            BY <3>1, DivMod
        <3>2. CASE HourSize # 1
            <4>1. 1 \in 0 .. HourSize - 1
                BY <1>1, <3>2
            <4> QED
                BY <1>1, <4>1, Mod
        <3> QED
            BY <3>1, <3>2
    <2> QED
        BY <1>2, <2>1, <2>2
<1>9. ASSUME Lasts(entered), at \in {"backupHours", "backupMinutes"}
      PROVE  /\ D = entered + spent'
             /\ at = "backupMinutes" =>
                backup.hours = hours' \/ (backup.hours = hours' - 1 /\ ticked' /\ minutes' = 0)
    <2>1. C = entered + spent /\ spent = 0 /\ ticked' /\ ~ ticked
        BY <1>2, <1>6, <1>7, <1>9 DEF ClockInv, Brief
    <2>2. Short
        BY <1>1, <1>9, <2>1 DEF Lasts
    <2>3. at = "backupMinutes" => backup.hours = hours
        BY <1>9, <2>1 DEF ClockInv
    <2> HIDE DEF C, D, Short
    <2> QED
        BY <1>1, <1>2, <1>5, <2>1, <2>2, <2>3 DEF TimeOK
<1> HIDE DEF D
<1>10. ASSUME T + 1 + 2 * MinuteCount <= HourSize * MinuteCount,
              at \notin {"backupHours", "backupMinutes", "resetHours", "resetMinutes"}
       PROVE  /\ at = "home" => T + 1 - (MinuteCount + 1) <= D /\ D <= T + 1 + 2 * MinuteCount - 1
              /\ at \in {"grant", "cave", "fallen", "stageHours"} =>
                    T + 1 - MinuteCount <= B + D /\ B + D <= T + 1 + MinuteCount
              /\ at = "stageHours" => \/ minutes' = staged.minutes + 1
                                      \/ minutes' = 0 /\ staged.minutes = MinuteCount - 1
              /\ at \in {"collect", "restoreHours", "restoreMinutes"} =>
                    /\ T + 1 - (MinuteCount + 1) <= B + G
                    /\ B + G <= T + 1 + MinuteCount - 1
              /\ at = "restoreMinutes" => hours' = backup.hours \/ hours' = backup.hours + 1
              /\ at = "return" => /\ T + 1 - (MinuteCount + 1) <= D + G
                                  /\ D + G <= T + 1 + 2 * MinuteCount - 1
    <2>1. T + 2 * MinuteCount <= HourSize * MinuteCount /\ Lasts(T) /\ Lasts(entered)
        BY <1>1, <1>10 DEF Lasts
    <2>2. CASE at = "home"
        <3>1. T - (MinuteCount + 1) <= C /\ C <= T + 2 * MinuteCount - 1
            BY <1>6, <2>1, <2>2 DEF ClockInv, Off
        <3> HIDE DEF C, T
        <3>2. Short
            BY <1>1, <1>10, <3>1
        <3> QED
            BY <1>1, <1>5, <2>2, <3>1, <3>2
    <2>3. CASE at \in {"grant", "cave", "fallen", "stageHours"}
        <3>1. T - MinuteCount <= B + C /\ B + C <= T + MinuteCount
            BY <1>1, <1>6, <2>1, <2>3 DEF ClockInv, Off
        <3>2. at = "stageHours" => minutes = staged.minutes
            BY <1>2, <2>1 DEF ClockInv, Brief
        <3> HIDE DEF C, T
        <3>3. Short
            BY <1>1, <1>10, <3>1
        <3> QED
            BY <1>1, <1>5, <2>3, <3>1, <3>2, <3>3
    <2>4. CASE at \in {"collect", "restoreHours", "restoreMinutes"}
        <3>1. T - MinuteCount <= B + G /\ B + G <= T + MinuteCount
            BY <1>1, <1>2, <1>6, <2>1, <2>4 DEF ClockInv, Off, Brief
        <3>2. ASSUME at = "restoreMinutes" PROVE hours' = backup.hours \/ hours' = backup.hours + 1
            <4>1. hours = backup.hours /\ B <= entered + 1
                BY <1>1, <1>2, <1>6, <2>1, <3>2 DEF ClockInv, Brief, AfterBackup
            <4>2. hours * MinuteCount <= B
                BY <1>1, <4>1 DEF TimeOK
            <4>3. minutes + 1 <= MinuteCount /\ minutes \in Nat /\ hours \in Nat
                BY <1>1 DEF TimeOK
            <4>4. C <= B + MinuteCount - 1
                BY <1>1, <4>2, <4>3
            <4>5. entered <= T
                BY <1>1
            <4> HIDE DEF C, T
            <4>6. Short
                BY <1>1, <1>10, <4>1, <4>4, <4>5
            <4> QED
                BY <1>5, <4>1, <4>6
        <3> HIDE DEF C, T
        <3> QED
            BY <1>1, <2>4, <3>1, <3>2
    <2>5. CASE at = "return"
        <3>1. T - (MinuteCount + 1) <= C + G /\ C + G <= T + 2 * MinuteCount - 1
            BY <1>1, <1>6, <2>1, <2>5 DEF ClockInv, Off
        <3> HIDE DEF C, T
        <3>2. Short
            BY <1>1, <1>10, <3>1
        <3> QED
            BY <1>1, <1>5, <2>5, <3>1, <3>2
    <2> QED
        BY <1>2, <1>10, <2>2, <2>3, <2>4, <2>5 DEF Stages
<1>11. Lasts(entered + spent)' <=> T + 1 + 2 * MinuteCount <= HourSize * MinuteCount
    BY <1>2, <1>6 DEF Lasts
<1>12. Lasts(entered)' <=> Lasts(entered)
    BY <1>2 DEF Lasts
<1> HIDE DEF C
<1>13. ClockInv'
    <2> USE DEF ClockInv
    <2>1. (at \in {"backupHours", "backupMinutes", "resetHours", "resetMinutes"})' =>
             spent' = IF ticked' THEN 1 ELSE 0
        BY <1>2, <1>7
    <2>2. (at \in AfterBackup /\ Lasts(entered))' =>
            BackedUp' \in entered' + 1 - MinuteCount .. entered' + 1
        BY <1>2, <1>6, <1>12
    <2>3. at' # "writeMinutes" /\ at' # "readMinutes" /\ at' # "addHours"
        BY <1>2
    <2>4. at' = "resetMinutes" => hours' = 0 \/ (hours' = 1 /\ ticked')
        BY <1>2, <1>8
    <2>5. Lasts(entered)' =>
        /\ at' \in {"backupHours", "backupMinutes"} => OnClock' = entered' + spent'
        /\ at' = "backupMinutes" =>
            backup'.hours = hours' \/ (backup'.hours = hours' - 1 /\ ticked' /\ minutes' = 0)
        BY <1>2, <1>6, <1>9, <1>12
    <2>6. ASSUME Lasts(entered + spent)'
          PROVE
            /\ at' = "home" => Off(OnClock, - (MinuteCount + 1), 2 * MinuteCount - 1)'
            /\ at' \in {"grant", "cave", "fallen", "stageHours"} =>
                Off(BackedUp + OnClock, - MinuteCount, MinuteCount)'
            /\ at' = "stageHours" =>
                ticked' /\ (\/ minutes' = staged'.minutes + 1
                            \/ minutes' = 0 /\ staged'.minutes = MinuteCount - 1)
            /\ at' \in {"collect", "restoreHours", "restoreMinutes"} =>
                /\ Off(BackedUp + Staged, - (MinuteCount + 1), 2 * MinuteCount - 1)'
                /\ ticked'
            /\ at' = "restoreMinutes" =>
                \/ hours' = backup'.hours
                \/ /\ hours' = backup'.hours + 1 /\ ticked'
                   /\ Off(BackedUp + Staged, - (MinuteCount + 1), MinuteCount - 1)'
            /\ at' = "return" =>
                Off(OnClock + Staged, - (MinuteCount + 1), 2 * MinuteCount - 1)'
        <3>1. at \in {"stageHours", "collect", "restoreHours", "restoreMinutes"} => ticked'
            BY <1>2 DEF Brief
        <3> HIDE DEF T
        <3> QED
            BY <1>1, <1>2, <1>6, <1>10, <1>11, <2>6, <3>1 DEF Off
    <2> QED
        BY <2>1, <2>2, <2>3, <2>4, <2>5, <2>6
<1> QED
    BY <1>4, <1>13

(* What the steps below speak of.                                           *)
LEMMA TimeFacts ==
    ASSUME TimeOK
    PROVE  /\ MinuteCount \in Nat \ {0} /\ HourSize \in Nat \ {0}
           /\ HourSize * MinuteCount \in Nat
           /\ hours \in Nat /\ minutes \in Nat /\ backup.hours \in Nat /\ backup.minutes \in Nat
           /\ staged.hours \in Nat /\ staged.minutes \in Nat /\ entered \in Nat /\ spent \in Nat
           /\ OnClock \in Nat /\ BackedUp \in Nat /\ Staged \in Nat
           /\ minutes < MinuteCount /\ staged.minutes < MinuteCount /\ backup.minutes < MinuteCount
<1>1. /\ MinuteCount \in Nat \ {0} /\ HourSize \in Nat \ {0} /\ HourSize * MinuteCount \in Nat
    BY ClockIs
<1>2. /\ hours \in Nat /\ minutes \in Nat /\ backup.hours \in Nat /\ backup.minutes \in Nat
      /\ staged.hours \in Nat /\ staged.minutes \in Nat /\ entered \in Nat /\ spent \in Nat
      /\ minutes < MinuteCount /\ staged.minutes < MinuteCount /\ backup.minutes < MinuteCount
    BY <1>1 DEF TimeOK
<1>3. OnClock \in Nat
    BY <1>2, ClockIs DEF OnClock
<1>4. BackedUp \in Nat
    BY <1>2, ClockIs DEF BackedUp
<1>5. Staged \in Nat
    BY <1>2, ClockIs DEF Staged
<1> QED
    BY <1>1, <1>2, <1>3, <1>4, <1>5

LEMMA LastsEarlier ==
    ASSUME TimeOK, Lasts(entered + spent)
    PROVE  Lasts(entered)
BY TimeFacts DEF Lasts

(* Steps that leave the clock and its copies alone.                         *)
LEMMA ClockUnmoved ==
    ASSUME TimeOK, ClockInv, UNCHANGED <<hours, minutes, backup, staged, sum, past, ticked>>,
           \/ at' = at
           \/ at = "grant" /\ at' = "cave"
           \/ at = "collect" /\ at' = "restoreHours"
    PROVE  ClockInv' /\ TimeOK'
<1>1. TimeOK' /\ OnClock' = OnClock /\ BackedUp' = BackedUp /\ Staged' = Staged
      /\ entered' = entered /\ spent' = spent /\ hours' = hours /\ minutes' = minutes
      /\ backup' = backup /\ staged' = staged /\ sum' = sum /\ ticked' = ticked
    BY DEF TimeOK, OnClock, BackedUp, Staged, past
<1>2. CASE at' = at
    BY <1>1, <1>2 DEF ClockInv, Off
<1>3. CASE at' # at
    BY <1>1, <1>3 DEF ClockInv, Off, AfterBackup
<1> QED
    BY <1>1, <1>2, <1>3

LEMMA EnterKeepsClock ==
    ASSUME TimeOK, ClockInv, Enter
    PROVE  ClockInv' /\ TimeOK'
<1>1. /\ at' = "backupHours" /\ ticked' = FALSE /\ entered' = OnClock /\ spent' = 0
      /\ UNCHANGED <<hours, minutes, backup, staged, sum>>
    BY DEF Enter, OnClock, time
<1>2. OnClock \in Nat
    BY TimeFacts
<1>3. TimeOK'
    BY <1>1, <1>2 DEF TimeOK
<1>4. OnClock' = OnClock
    BY <1>1 DEF OnClock
<1>5. OnClock' = entered' + spent'
    BY <1>1, <1>2, <1>4
<1> QED
    BY <1>1, <1>3, <1>5 DEF ClockInv, AfterBackup

LEMMA BackupHoursKeepsClock ==
    ASSUME TimeOK, ClockInv, BackupHours
    PROVE  ClockInv' /\ TimeOK'
<1>1. /\ at = "backupHours" /\ at' = "backupMinutes"
      /\ backup' = [bag |-> bag, worn |-> worn, hours |-> hours, minutes |-> 0]
      /\ UNCHANGED <<hours, minutes, staged, sum, ticked, entered, spent>>
    BY DEF BackupHours, time, past
<1>2. /\ backup'.bag = bag /\ backup'.worn = worn /\ backup'.hours = hours /\ backup'.minutes = 0
    BY <1>1
<1>3. TimeOK'
    <2>1. 0 \in 0 .. MinuteCount - 1
        BY TimeFacts
    <2> QED
        BY <1>1, <1>2, <2>1 DEF TimeOK
<1>4. OnClock' = OnClock
    BY <1>1 DEF OnClock
<1>5. Lasts(entered)' <=> Lasts(entered)
    BY <1>1 DEF Lasts
<1>6. Lasts(entered) => OnClock = entered + spent
    BY <1>1 DEF ClockInv
<1>7. spent = IF ticked THEN 1 ELSE 0
    BY <1>1 DEF ClockInv
<1> QED
    BY <1>1, <1>2, <1>3, <1>4, <1>5, <1>6, <1>7 DEF ClockInv, AfterBackup

LEMMA BackupMinutesKeepsClock ==
    ASSUME TimeOK, ClockInv, BackupMinutes
    PROVE  ClockInv' /\ TimeOK'
<1>1. /\ at = "backupMinutes" /\ at' = "resetHours"
      /\ backup' = [backup EXCEPT !.minutes = minutes]
      /\ UNCHANGED <<hours, minutes, staged, sum, ticked, entered, spent>>
    BY DEF BackupMinutes, time, past
<1>2. /\ backup'.bag = backup.bag /\ backup'.worn = backup.worn
      /\ backup'.hours = backup.hours /\ backup'.minutes = minutes
      /\ backup' = [bag |-> backup.bag, worn |-> backup.worn, hours |-> backup.hours,
                    minutes |-> minutes]
    BY <1>1 DEF TimeOK
<1>3. TimeOK'
    BY <1>1, <1>2 DEF TimeOK
<1>4. Lasts(entered)' <=> Lasts(entered)
    BY <1>1 DEF Lasts
<1>5. spent = IF ticked THEN 1 ELSE 0
    BY <1>1 DEF ClockInv
<1>6. BackedUp' = Clock(backup.hours, minutes)
    BY <1>1, <1>2 DEF BackedUp
<1>7. ASSUME Lasts(entered)
      PROVE  BackedUp' \in entered + 1 - MinuteCount .. entered + 1
    <2>1. OnClock = entered + spent
        BY <1>1, <1>7 DEF ClockInv
    <2>2. \/ backup.hours = hours
          \/ backup.hours = hours - 1 /\ ticked /\ minutes = 0
        BY <1>1, <1>7 DEF ClockInv
    <2>3. CASE backup.hours = hours
        <3>1. BackedUp' = OnClock
            BY <1>6, <2>3 DEF OnClock
        <3> QED
            BY <1>5, <2>1, <3>1, TimeFacts
    <2>4. CASE backup.hours = hours - 1 /\ ticked /\ minutes = 0
        <3>1. Clock(backup.hours + 1, minutes) = Clock(backup.hours, minutes) + MinuteCount
              /\ Clock(backup.hours, minutes) \in Nat
            BY TimeFacts, ClockIs
        <3>2. backup.hours + 1 = hours
            BY <2>4, TimeFacts
        <3>3. OnClock = BackedUp' + MinuteCount /\ BackedUp' \in Nat
            BY <1>6, <3>1, <3>2 DEF OnClock
        <3> QED
            BY <1>5, <2>1, <2>4, <3>3, TimeFacts
    <2> QED
        BY <2>2, <2>3, <2>4
<1> QED
    BY <1>1, <1>3, <1>4, <1>5, <1>7 DEF ClockInv

LEMMA ResetHoursKeepsClock ==
    ASSUME TimeOK, ClockInv, ResetHours
    PROVE  ClockInv' /\ TimeOK'
<1>1. /\ at = "resetHours" /\ at' = "resetMinutes" /\ hours' = 0
      /\ UNCHANGED <<minutes, backup, staged, sum, ticked, entered, spent>>
    BY DEF ResetHours, records, past
<1>2. TimeOK'
    <2>1. 0 \in 0 .. HourSize - 1
        BY TimeFacts
    <2> QED
        BY <1>1, <2>1 DEF TimeOK
<1>3. BackedUp' = BackedUp
    BY <1>1 DEF BackedUp
<1>4. Lasts(entered)' <=> Lasts(entered)
    BY <1>1 DEF Lasts
<1>5. spent = IF ticked THEN 1 ELSE 0
    BY <1>1 DEF ClockInv
<1>6. Lasts(entered) => BackedUp \in entered + 1 - MinuteCount .. entered + 1
    BY <1>1 DEF ClockInv, AfterBackup
<1> QED
    BY <1>1, <1>2, <1>3, <1>4, <1>5, <1>6 DEF ClockInv

LEMMA ResetMinutesKeepsClock ==
    ASSUME TimeOK, ClockInv, ResetMinutes
    PROVE  ClockInv' /\ TimeOK'
<1>1. /\ at = "resetMinutes" /\ at' \in {"fallen", "grant"} /\ minutes' = 0
      /\ UNCHANGED <<hours, backup, staged, sum, ticked, entered, spent>>
    BY DEF ResetMinutes, records, past
<1>2. TimeOK'
    <2>1. 0 \in 0 .. MinuteCount - 1
        BY TimeFacts
    <2> QED
        BY <1>1, <2>1 DEF TimeOK
<1>3. BackedUp' = BackedUp
    BY <1>1 DEF BackedUp
<1>4. Lasts(entered)' <=> Lasts(entered)
    BY <1>1 DEF Lasts
<1>5. (spent = IF ticked THEN 1 ELSE 0) /\ (hours = 0 \/ (hours = 1 /\ ticked))
    BY <1>1 DEF ClockInv
<1>6. Lasts(entered) => BackedUp \in entered + 1 - MinuteCount .. entered + 1
    BY <1>1 DEF ClockInv, AfterBackup
<1>7. OnClock' = 0 \/ (OnClock' = MinuteCount /\ ticked)
    <2>1. OnClock' = Clock(hours, 0)
        BY <1>1 DEF OnClock
    <2>2. Clock(0, 0) = 0 /\ Clock(0 + 1, 0) = Clock(0, 0) + MinuteCount
        BY ClockIs
    <2>3. MinuteCount \in Nat
        BY ClockIs
    <2> QED
        BY <1>5, <2>1, <2>2, <2>3
<1>8. ASSUME Lasts(entered + spent)
      PROVE  Off(BackedUp + OnClock, - MinuteCount, MinuteCount)'
    <2>1. BackedUp \in entered + 1 - MinuteCount .. entered + 1
        BY <1>6, <1>8, LastsEarlier
    <2>2. /\ (entered + spent) + - MinuteCount <= BackedUp + OnClock'
          /\ BackedUp + OnClock' <= (entered + spent) + MinuteCount
        BY <1>5, <1>7, <2>1, TimeFacts
    <2> QED
        BY <1>1, <1>3, <2>2 DEF Off
<1>9. Lasts(entered + spent)' <=> Lasts(entered + spent)
    BY <1>1 DEF Lasts
<1> QED
    BY <1>1, <1>2, <1>3, <1>4, <1>6, <1>8, <1>9 DEF ClockInv

LEMMA DefeatKeepsClock ==
    ASSUME TimeOK, ClockInv, Defeat
    PROVE  ClockInv' /\ TimeOK'
<1>1. /\ at = "cave" /\ at' = "resetHours" /\ ticked' = FALSE /\ spent' = 0
      /\ UNCHANGED <<hours, minutes, backup, staged, sum, entered>>
    BY DEF Defeat, time
<1>2. TimeOK'
    BY <1>1 DEF TimeOK
<1>3. BackedUp' = BackedUp
    BY <1>1 DEF BackedUp
<1>4. Lasts(entered)' <=> Lasts(entered)
    BY <1>1 DEF Lasts
<1>5. Lasts(entered) => BackedUp \in entered + 1 - MinuteCount .. entered + 1
    BY <1>1 DEF ClockInv, AfterBackup
<1> QED
    BY <1>1, <1>2, <1>3, <1>4, <1>5 DEF ClockInv

(* The backup, and the part of ClockInv that it and the hypotheses of the   *)
(* other parts are about, when only clock, staged time and sum change.      *)
LEMMA BackupStays ==
    ASSUME TimeOK, UNCHANGED <<backup, entered, spent>>
    PROVE  /\ BackedUp' = BackedUp
           /\ Lasts(entered)' <=> Lasts(entered)
           /\ Lasts(entered + spent)' <=> Lasts(entered + spent)
           /\ entered' + spent' = entered + spent
BY DEF BackedUp, Lasts

LEMMA LeaveKeepsClock ==
    ASSUME TimeOK, ClockInv, Leave
    PROVE  ClockInv' /\ TimeOK'
<1>1. /\ at \in {"cave", "fallen"} /\ at' = "stageHours" /\ ticked' = FALSE
      /\ staged' = [staged EXCEPT !.minutes = minutes]
      /\ UNCHANGED <<hours, minutes, backup, sum, entered, spent>>
    BY DEF Leave, time, past
<1>2. /\ staged'.minutes = minutes /\ staged'.hours = staged.hours
      /\ staged' = [minutes |-> minutes, hours |-> staged.hours]
    BY <1>1 DEF TimeOK
<1>3. TimeOK'
    BY <1>1, <1>2 DEF TimeOK
<1>4. /\ BackedUp' = BackedUp /\ OnClock' = OnClock
      /\ Lasts(entered)' <=> Lasts(entered)
      /\ Lasts(entered + spent)' <=> Lasts(entered + spent)
    BY <1>1, BackupStays DEF OnClock
<1>5. Lasts(entered) => BackedUp \in entered + 1 - MinuteCount .. entered + 1
    BY <1>1 DEF ClockInv, AfterBackup
<1>6. Lasts(entered + spent) => Off(BackedUp + OnClock, - MinuteCount, MinuteCount)
    BY <1>1 DEF ClockInv
<1>7. Off(BackedUp + OnClock, - MinuteCount, MinuteCount)'
        <=> Off(BackedUp + OnClock, - MinuteCount, MinuteCount)
    BY <1>1, <1>4 DEF Off
<1> QED
    BY <1>1, <1>2, <1>3, <1>4, <1>5, <1>6, <1>7 DEF ClockInv

LEMMA StageHoursKeepsClock ==
    ASSUME TimeOK, ClockInv, StageHours
    PROVE  ClockInv' /\ TimeOK'
<1>1. /\ at = "stageHours" /\ at' \in {"restoreHours", "collect"}
      /\ staged' = [staged EXCEPT !.hours = hours]
      /\ UNCHANGED <<hours, minutes, backup, sum, ticked, entered, spent>>
    BY DEF StageHours, time, past
<1>2. /\ staged'.minutes = staged.minutes /\ staged'.hours = hours
      /\ staged' = [minutes |-> staged.minutes, hours |-> hours]
    BY <1>1 DEF TimeOK
<1>3. TimeOK'
    BY <1>1, <1>2 DEF TimeOK
<1>4. /\ BackedUp' = BackedUp
      /\ Lasts(entered)' <=> Lasts(entered)
      /\ Lasts(entered + spent)' <=> Lasts(entered + spent)
      /\ entered' + spent' = entered + spent
    BY <1>1, BackupStays
<1>5. Lasts(entered) => BackedUp \in entered + 1 - MinuteCount .. entered + 1
    BY <1>1 DEF ClockInv, AfterBackup
<1>6. Staged' = Clock(hours, staged.minutes)
    BY <1>1, <1>2 DEF Staged
<1>7. ASSUME Lasts(entered + spent)
      PROVE  /\ Off(BackedUp + Staged, - (MinuteCount + 1), 2 * MinuteCount - 1)'
             /\ ~ ticked => Off(BackedUp + Staged, - MinuteCount, MinuteCount)'
    <2>1. /\ (entered + spent) + - MinuteCount <= BackedUp + OnClock
          /\ BackedUp + OnClock <= (entered + spent) + MinuteCount
        BY <1>1, <1>7 DEF ClockInv, Off
    <2>2. IF ticked THEN \/ minutes = staged.minutes + 1
                         \/ minutes = 0 /\ staged.minutes = MinuteCount - 1
          ELSE minutes = staged.minutes
        BY <1>1, <1>7 DEF ClockInv
    <2>3. /\ OnClock = hours * MinuteCount + minutes
          /\ Staged' = hours * MinuteCount + staged.minutes
          /\ hours * MinuteCount \in Nat
        BY <1>6, ClockIs, TimeFacts DEF OnClock
    <2>4. /\ (entered + spent) + - (MinuteCount + 1) <= BackedUp + Staged'
          /\ BackedUp + Staged' <= (entered + spent) + (2 * MinuteCount - 1)
          /\ ~ ticked => /\ (entered + spent) + - MinuteCount <= BackedUp + Staged'
                         /\ BackedUp + Staged' <= (entered + spent) + MinuteCount
        BY <2>1, <2>2, <2>3, TimeFacts
    <2> QED
        BY <1>4, <2>4 DEF Off
<1> QED
    BY <1>1, <1>3, <1>4, <1>5, <1>7 DEF ClockInv

LEMMA RestoreHoursKeepsClock ==
    ASSUME TimeOK, ClockInv, RestoreHours
    PROVE  ClockInv' /\ TimeOK'
<1>1. /\ at = "restoreHours" /\ at' = "restoreMinutes" /\ hours' = backup.hours
      /\ UNCHANGED <<minutes, backup, staged, sum, ticked, entered, spent>>
    BY DEF RestoreHours, records, past
<1>2. TimeOK'
    BY <1>1 DEF TimeOK
<1>3. /\ BackedUp' = BackedUp /\ Staged' = Staged
      /\ Lasts(entered)' <=> Lasts(entered)
      /\ Lasts(entered + spent)' <=> Lasts(entered + spent)
    BY <1>1, BackupStays DEF Staged
<1>4. Lasts(entered) => BackedUp \in entered + 1 - MinuteCount .. entered + 1
    BY <1>1 DEF ClockInv, AfterBackup
<1>5. Lasts(entered + spent) =>
        /\ Off(BackedUp + Staged, - (MinuteCount + 1), 2 * MinuteCount - 1)
        /\ ~ ticked => Off(BackedUp + Staged, - MinuteCount, MinuteCount)
    BY <1>1 DEF ClockInv
<1>6. /\ Off(BackedUp + Staged, - (MinuteCount + 1), 2 * MinuteCount - 1)'
            <=> Off(BackedUp + Staged, - (MinuteCount + 1), 2 * MinuteCount - 1)
      /\ Off(BackedUp + Staged, - MinuteCount, MinuteCount)'
            <=> Off(BackedUp + Staged, - MinuteCount, MinuteCount)
    BY <1>1, <1>3 DEF Off
<1> QED
    BY <1>1, <1>2, <1>3, <1>4, <1>5, <1>6 DEF ClockInv

LEMMA RestoreMinutesKeepsClock ==
    ASSUME TimeOK, ClockInv, RestoreMinutes
    PROVE  ClockInv' /\ TimeOK'
<1>1. /\ at = "restoreMinutes" /\ at' = "return" /\ minutes' = backup.minutes
      /\ UNCHANGED <<hours, backup, staged, sum, ticked, entered, spent>>
    BY DEF RestoreMinutes, records, past
<1>2. TimeOK'
    BY <1>1 DEF TimeOK
<1>3. /\ Staged' = Staged
      /\ Lasts(entered)' <=> Lasts(entered)
      /\ Lasts(entered + spent)' <=> Lasts(entered + spent)
      /\ entered' + spent' = entered + spent
    BY <1>1, BackupStays DEF Staged
<1>4. ASSUME Lasts(entered + spent)
      PROVE  Off(OnClock + Staged, - (MinuteCount + 1), 2 * MinuteCount - 1)'
    <2>1. /\ (entered + spent) + - (MinuteCount + 1) <= BackedUp + Staged
          /\ BackedUp + Staged <= (entered + spent) + (2 * MinuteCount - 1)
        BY <1>1, <1>4 DEF ClockInv, Off
    <2>2. \/ hours = backup.hours
          \/ /\ hours = backup.hours + 1
             /\ BackedUp + Staged <= (entered + spent) + (MinuteCount - 1)
        BY <1>1, <1>4 DEF ClockInv, Off
    <2>3. OnClock' = Clock(hours, backup.minutes)
        BY <1>1 DEF OnClock
    <2>4. Clock(backup.hours + 1, backup.minutes) = BackedUp + MinuteCount
        <3>1. backup.hours \in Nat /\ backup.minutes \in Nat
            BY TimeFacts
        <3> QED
            BY <3>1, ClockIs DEF BackedUp
    <2>5. \/ OnClock' = BackedUp
          \/ /\ OnClock' = BackedUp + MinuteCount
             /\ BackedUp + Staged <= (entered + spent) + (MinuteCount - 1)
        BY <2>2, <2>3, <2>4 DEF BackedUp
    <2>6. /\ (entered + spent) + - (MinuteCount + 1) <= OnClock' + Staged
          /\ OnClock' + Staged <= (entered + spent) + (2 * MinuteCount - 1)
        BY <2>1, <2>5, TimeFacts
    <2> QED
        BY <1>3, <2>6 DEF Off
<1> QED
    BY <1>1, <1>2, <1>3, <1>4 DEF ClockInv, AfterBackup

LEMMA StopKeepsClock ==
    ASSUME TimeOK, ClockInv, StopClock
    PROVE  ClockInv' /\ TimeOK'
<1>1. /\ at = "return" /\ at' = "readMinutes" /\ ticked' = FALSE
      /\ UNCHANGED <<hours, minutes, sum, backup, staged, entered, spent>>
    BY DEF StopClock, records, time, past
<1>2. TimeOK'
    BY <1>1 DEF TimeOK
<1>3. /\ OnClock' = OnClock /\ Staged' = Staged
      /\ Lasts(entered + spent)' <=> Lasts(entered + spent)
    BY <1>1, BackupStays DEF Staged, OnClock
<1>4. Lasts(entered + spent) => Off(OnClock + Staged, - (MinuteCount + 1), 2 * MinuteCount - 1)
    BY <1>1 DEF ClockInv
<1>5. Off(OnClock + Staged, - (MinuteCount + 1), 2 * MinuteCount - 1)'
        <=> Off(OnClock + Staged, - (MinuteCount + 1), 2 * MinuteCount - 1)
    BY <1>1, <1>3 DEF Off
<1> QED
    BY <1>1, <1>2, <1>3, <1>4, <1>5 DEF ClockInv, AfterBackup

LEMMA ReadMinutesKeepsClock ==
    ASSUME TimeOK, ClockInv, ReadMinutes
    PROVE  ClockInv' /\ TimeOK'
<1>1. /\ at = "readMinutes" /\ at' = "writeMinutes" /\ sum' = minutes + staged.minutes
      /\ UNCHANGED <<hours, minutes, backup, staged, ticked, entered, spent>>
    BY DEF ReadMinutes, time, past
<1>2. TimeOK'
    <2>1. sum' \in Nat
        BY <1>1, TimeFacts
    <2> QED
        BY <1>1, <2>1 DEF TimeOK
<1>3. /\ OnClock' = OnClock /\ Staged' = Staged
      /\ Lasts(entered + spent)' <=> Lasts(entered + spent)
    BY <1>1, BackupStays DEF Staged, OnClock
<1>4. Lasts(entered + spent) => Off(OnClock + Staged, - (MinuteCount + 1), 2 * MinuteCount - 1)
    BY <1>1 DEF ClockInv
<1>5. Off(OnClock + Staged, - (MinuteCount + 1), 2 * MinuteCount - 1)'
        <=> Off(OnClock + Staged, - (MinuteCount + 1), 2 * MinuteCount - 1)
    BY <1>1, <1>3 DEF Off
<1> QED
    BY <1>1, <1>2, <1>3, <1>4, <1>5 DEF ClockInv, AfterBackup

LEMMA WriteMinutesKeepsClock ==
    ASSUME TimeOK, ClockInv, WriteMinutes
    PROVE  ClockInv' /\ TimeOK'
<1>1. /\ at = "writeMinutes" /\ at' = "addHours"
      /\ IF sum >= MinuteCount
         THEN minutes' = sum - MinuteCount /\ hours' = (hours + 1) % HourSize
         ELSE minutes' = sum /\ hours' = hours
      /\ UNCHANGED <<sum, backup, staged, ticked, entered, spent>>
    BY DEF WriteMinutes, records, past
<1>2. sum = minutes + staged.minutes
    BY <1>1 DEF ClockInv
<1>3. TimeOK'
    <2>1. minutes' \in 0 .. MinuteCount - 1
        BY <1>1, <1>2, TimeFacts
    <2>2. (hours + 1) % HourSize \in 0 .. HourSize - 1
        <3>1. hours + 1 \in Int /\ HourSize \in Nat \ {0}
            BY TimeFacts
        <3> QED
            BY <3>1, DivMod
    <2>3. hours' \in 0 .. HourSize - 1
        BY <1>1, <2>2 DEF TimeOK
    <2> QED
        BY <1>1, <2>1, <2>3 DEF TimeOK
<1>4. /\ Lasts(entered + spent)' <=> Lasts(entered + spent)
      /\ entered' + spent' = entered + spent
    BY <1>1, BackupStays
<1>5. ASSUME Lasts(entered + spent)
      PROVE  OnClock' + staged.hours * MinuteCount = OnClock + Staged
    <2>1. OnClock + Staged <= (entered + spent) + (2 * MinuteCount - 1)
        BY <1>1, <1>5 DEF ClockInv, Off
    <2>2. OnClock + Staged < HourSize * MinuteCount
        BY <1>5, <2>1, TimeFacts DEF Lasts
    <2>3. /\ OnClock = hours * MinuteCount + minutes /\ hours * MinuteCount \in Nat
          /\ Staged = staged.hours * MinuteCount + staged.minutes
          /\ staged.hours * MinuteCount \in Nat
        BY ClockIs, TimeFacts DEF OnClock, Staged
    <2>4. OnClock' = Clock(hours', minutes')
        BY DEF OnClock
    <2>5. CASE sum >= MinuteCount
        <3>1. Clock(hours + 1, minutes') = Clock(hours, minutes') + MinuteCount
              /\ Clock(hours, minutes') = hours * MinuteCount + minutes'
              /\ minutes' \in Nat /\ minutes' = minutes + staged.minutes - MinuteCount
            <4>1. minutes' \in Nat /\ minutes' = minutes + staged.minutes - MinuteCount
                BY <1>1, <1>2, <2>5, TimeFacts
            <4>2. hours \in Nat
                BY TimeFacts
            <4> QED
                BY <4>1, <4>2, ClockIs
        <3>2. Clock(hours + 1, minutes') + staged.hours * MinuteCount = OnClock + Staged
            BY <2>3, <3>1, TimeFacts
        <3>3. Clock(hours + 1, minutes') \in Nat
            <4>1. hours + 1 \in Nat
                BY TimeFacts
            <4> QED
                BY <3>1, <4>1, ClockIs
        <3>4. Clock(hours + 1, minutes') < HourSize * MinuteCount
            BY <2>2, <2>3, <3>2, <3>3, TimeFacts
        <3>5. hours + 1 < HourSize
            BY <3>1, <3>4, HoursFit, TimeFacts
        <3>6. (hours + 1) % HourSize = hours + 1
            <4>1. hours + 1 \in 0 .. HourSize - 1
                BY <3>5, TimeFacts
            <4> QED
                BY <4>1, Mod, TimeFacts
        <3>7. OnClock' = Clock(hours + 1, minutes')
            BY <1>1, <2>4, <2>5, <3>6
        <3> QED
            BY <3>2, <3>7
    <2>6. CASE ~ (sum >= MinuteCount)
        <3>1. minutes' = minutes + staged.minutes /\ hours' = hours /\ minutes' \in Nat
            BY <1>1, <1>2, <2>6, TimeFacts
        <3>2. OnClock' = hours * MinuteCount + minutes'
            <4>1. hours \in Nat
                BY TimeFacts
            <4> QED
                BY <2>4, <3>1, <4>1, ClockIs
        <3> QED
            BY <2>3, <3>1, <3>2, TimeFacts
    <2> QED
        BY <2>5, <2>6
<1>6. Lasts(entered + spent) => Off(OnClock + Staged, - (MinuteCount + 1), 2 * MinuteCount - 1)
    BY <1>1 DEF ClockInv
<1>7. Lasts(entered + spent) =>
        Off(OnClock + staged.hours * MinuteCount, - (MinuteCount + 1), 2 * MinuteCount - 1)'
    BY <1>1, <1>4, <1>5, <1>6 DEF Off
<1> QED
    BY <1>1, <1>3, <1>4, <1>7 DEF ClockInv, AfterBackup

LEMMA AddHoursKeepsClock ==
    ASSUME TimeOK, ClockInv, AddHours
    PROVE  ClockInv' /\ TimeOK'
<1>1. /\ at = "addHours" /\ at' = "home" /\ hours' = Lesser(HourSize - 1, hours + staged.hours)
      /\ UNCHANGED <<minutes, sum, backup, staged, ticked, entered, spent>>
    BY DEF AddHours, records, past
<1>2. TimeOK'
    <2>1. hours' \in 0 .. HourSize - 1
        BY <1>1, TimeFacts DEF Lesser
    <2> QED
        BY <1>1, <2>1 DEF TimeOK
<1>3. /\ Lasts(entered + spent)' <=> Lasts(entered + spent)
      /\ entered' + spent' = entered + spent
    BY <1>1, BackupStays
<1>4. Lasts(entered + spent) =>
        Off(OnClock + staged.hours * MinuteCount, - (MinuteCount + 1), 2 * MinuteCount - 1)
    BY <1>1 DEF ClockInv
<1>5. ASSUME Lasts(entered + spent)
      PROVE  OnClock' = OnClock + staged.hours * MinuteCount
    <2>1. OnClock + staged.hours * MinuteCount <= (entered + spent) + (2 * MinuteCount - 1)
        BY <1>4, <1>5 DEF Off
    <2>2. Clock(hours + staged.hours, minutes) = OnClock + staged.hours * MinuteCount
          /\ staged.hours * MinuteCount \in Nat
        <3>1. hours \in Nat /\ minutes \in Nat /\ staged.hours \in Nat
            BY TimeFacts
        <3> QED
            BY <3>1, ClockAdds DEF OnClock
    <2>3. Clock(hours + staged.hours, minutes) < HourSize * MinuteCount
        BY <1>5, <2>1, <2>2, TimeFacts DEF Lasts
    <2>4. hours + staged.hours < HourSize
        BY <2>3, HoursFit, TimeFacts
    <2>5. hours' = hours + staged.hours
        BY <1>1, <2>4, TimeFacts DEF Lesser
    <2> QED
        BY <1>1, <2>2, <2>5 DEF OnClock
<1>6. Lasts(entered + spent) => Off(OnClock, - (MinuteCount + 1), 2 * MinuteCount - 1)'
    BY <1>3, <1>4, <1>5 DEF Off
<1> QED
    BY <1>1, <1>2, <1>3, <1>6 DEF ClockInv, AfterBackup

(* The clock and the steps of the program that move it, without the goods.  *)
ClockState ==
    /\ at \in Stages
    /\ stopped \in BOOLEAN
    /\ stopped <=> at \in {"readMinutes", "writeMinutes", "addHours"}
    /\ TimeOK /\ ClockInv

LEMMA ClockStarts == CaveInit => ClockState
<1> SUFFICES ASSUME CaveInit PROVE ClockState
    OBVIOUS
<1>1. /\ at = "home" /\ stopped = FALSE /\ hours = 0 /\ minutes \in 0 .. MinuteCount - 1
      /\ entered = minutes /\ spent = 0 /\ sum = 0 /\ ticked = FALSE
      /\ backup = [bag |-> bag, worn |-> worn, hours |-> 0, minutes |-> 0]
      /\ staged = [minutes |-> 0, hours |-> 0]
    BY DEF CaveInit
<1>2. MinuteCount \in Nat \ {0} /\ HourSize \in Nat \ {0}
    BY ClockIs
<1>3. minutes \in Nat /\ 0 \in 0 .. MinuteCount - 1 /\ 0 \in 0 .. HourSize - 1
    BY <1>1, <1>2
<1>4. OnClock = minutes
    BY <1>1, <1>3, ClockIs DEF OnClock
<1>5. TimeOK
    BY <1>1, <1>3 DEF TimeOK
<1>6. Off(OnClock, - (MinuteCount + 1), 2 * MinuteCount - 1)
    BY <1>1, <1>2, <1>3, <1>4 DEF Off
<1>7. ClockInv
    BY <1>1, <1>6 DEF ClockInv, AfterBackup
<1> QED
    BY <1>1, <1>5, <1>7 DEF ClockState, Stages

LEMMA ProceedKeepsClock ==
    ASSUME ClockState, Proceed
    PROVE  ClockInv' /\ TimeOK'
<1> USE DEF ClockState
<1>1. CASE BackupHours
    BY <1>1, BackupHoursKeepsClock
<1>2. CASE BackupMinutes
    BY <1>2, BackupMinutesKeepsClock
<1>3. CASE ResetHours
    BY <1>3, ResetHoursKeepsClock
<1>4. CASE ResetMinutes
    BY <1>4, ResetMinutesKeepsClock
<1>5. CASE Grant
    BY <1>5, ClockUnmoved DEF Grant, GiveNext, records, time, past
<1>6. CASE EnterCave
    BY <1>6, ClockUnmoved DEF EnterCave, records, time, past
<1>7. CASE Defeat
    BY <1>7, DefeatKeepsClock
<1>8. CASE Leave
    BY <1>8, LeaveKeepsClock
<1>9. CASE StageHours
    BY <1>9, StageHoursKeepsClock
<1>10. CASE CollectCaveCarryItems
    BY <1>10, ClockUnmoved DEF CollectCaveCarryItems, records, time, past
<1>11. CASE RestoreHours
    BY <1>11, RestoreHoursKeepsClock
<1>12. CASE RestoreMinutes
    BY <1>12, RestoreMinutesKeepsClock
<1>13. CASE ReturnItem
    BY <1>13, ClockUnmoved DEF ReturnItem, GiveNext, records, time, past
<1>14. CASE StopClock
    BY <1>14, StopKeepsClock
<1>15. CASE ReadMinutes
    BY <1>15, ReadMinutesKeepsClock
<1>16. CASE WriteMinutes
    BY <1>16, WriteMinutesKeepsClock
<1>17. CASE AddHours
    BY <1>17, AddHoursKeepsClock
<1> QED
    BY <1>1, <1>2, <1>3, <1>4, <1>5, <1>6, <1>7, <1>8, <1>9, <1>10, <1>11, <1>12, <1>13,
       <1>14, <1>15, <1>16, <1>17 DEF Proceed

(* Where the program is, and whether it has stopped the clock.              *)
LEMMA StagesFollow ==
    ASSUME at \in Stages, stopped \in BOOLEAN,
           stopped <=> at \in {"readMinutes", "writeMinutes", "addHours"},
           [CaveNext]_caveVars
    PROVE  /\ at' \in Stages /\ stopped' \in BOOLEAN
           /\ stopped' <=> at' \in {"readMinutes", "writeMinutes", "addHours"}
<1>1. CASE Enter
    BY <1>1 DEF Enter, Stages
<1>2. CASE Proceed
    BY <1>2 DEF Proceed, BackupHours, BackupMinutes, ResetHours, ResetMinutes, Grant, GiveNext,
        EnterCave, Defeat, Leave, StageHours, CollectCaveCarryItems, RestoreHours,
        RestoreMinutes, ReturnItem, StopClock, ReadMinutes, WriteMinutes, AddHours, Stages
<1>3. CASE PlayerActs
    BY <1>3 DEF PlayerActs
<1>4. CASE TickMinute
    BY <1>4 DEF TickMinute
<1>5. CASE UNCHANGED caveVars
    BY <1>5 DEF caveVars
<1> QED
    BY <1>1, <1>2, <1>3, <1>4, <1>5 DEF CaveNext

LEMMA ClockGoes == ClockState /\ [CaveNext]_caveVars => ClockState'
<1> SUFFICES ASSUME ClockState, [CaveNext]_caveVars PROVE ClockState'
    OBVIOUS
<1>1. /\ at' \in Stages /\ stopped' \in BOOLEAN
      /\ stopped' <=> at' \in {"readMinutes", "writeMinutes", "addHours"}
    BY StagesFollow DEF ClockState
<1>2. ClockInv' /\ TimeOK'
    <2>1. CASE Enter
        BY <2>1, EnterKeepsClock DEF ClockState
    <2>2. CASE Proceed
        BY <2>2, ProceedKeepsClock
    <2>3. CASE PlayerActs
        BY <2>3, ClockUnmoved DEF PlayerActs, records, time, past, ClockState
    <2>4. CASE TickMinute
        BY <2>4, TickKeeps DEF ClockState
    <2>5. CASE UNCHANGED caveVars
        BY <2>5, ClockUnmoved DEF caveVars, records, time, past, ClockState
    <2> QED
        BY <2>1, <2>2, <2>3, <2>4, <2>5 DEF CaveNext
<1> QED
    BY <1>1, <1>2 DEF ClockState

(* The clock after a visit is the time of the game: TimeKept.               *)
THEOREM CaveTimeKept == CaveSpec => []TimeKept
<1>1. ClockState => TimeKept
    BY TimeFacts DEF ClockState, ClockInv, TimeKept, Off, OnClock
<1> QED
    BY <1>1, ClockStarts, ClockGoes, PTL DEF CaveSpec

-----------------------------------------------------------------------------
(* The invariant of a visit, and what comes home.                           *)

LEMMA GoodsStart == CaveInit => CaveGoods
<1> SUFFICES ASSUME CaveInit PROVE CaveGoods
    OBVIOUS
<1>1. BagOK(bag)
    <2>1. bag \in StartBags
        BY DEF CaveInit
    <2>2. /\ StartBags \subseteq [Slots -> [item : Items \cup {None}, n : 0 .. Cap]]
          /\ \A b \in StartBags : \A s, t \in Slots :
                /\ (b[s].item = None) <=> (b[s].n = 0)
                /\ b[s].item # None /\ b[s].item = b[t].item => s = t
        BY CaveAssumption
    <2> QED
        BY <2>1, <2>2 DEF BagOK
<1>2. WornOK(worn)
    BY DEF CaveInit, WornOK
<1>3. /\ pending = None /\ at = "home" /\ defeated = FALSE
      /\ saved = <<>> /\ carried = <<>> /\ given = 0
      /\ backup = [bag |-> bag, worn |-> worn, hours |-> 0, minutes |-> 0]
    BY DEF CaveInit
<1>4. saved \in Seq(Words) /\ carried \in Seq(Words) /\ Len(saved) = 0 /\ Len(carried) = 0
    BY <1>3
<1>5. 0 < HourSize \div 2
    BY ListsFit, KindsAre
<1>6. GoodsTypes
    BY <1>1, <1>2, <1>3, <1>4, <1>5 DEF GoodsTypes, Stages
<1>7. GoodsFlags /\ Copied /\ GrantStands /\ ReturnStands
    BY <1>3 DEF GoodsFlags, Copied, GrantStands, ReturnStands, InBackup
<1>8. ListsStand
    <2>1. 0 \in BagPart(carried)
        BY <1>4 DEF BagPart
    <2> QED
        BY <1>3, <1>4, <2>1 DEF ListsStand, InBackup
<1> QED
    BY <1>6, <1>7, <1>8 DEF CaveGoods

LEMMA GoodsGo == CaveGoods /\ [CaveNext]_caveVars => CaveGoods'
<1> SUFFICES ASSUME CaveGoods, [CaveNext]_caveVars PROVE CaveGoods'
    OBVIOUS
<1>1. CASE Enter
    BY <1>1, EnterGoods
<1>2. CASE PlayerActs
    BY <1>2, ActsGoods
<1>3. CASE TickMinute
    <2>1. UNCHANGED <<bag, worn, pending, at, lists, backup, defeated>>
        BY <1>3 DEF TickMinute, inventory, goods, records
    <2> QED
        BY <2>1, RestGoods
<1>4. CASE UNCHANGED caveVars
    <2>1. UNCHANGED <<bag, worn, pending, at, lists, backup, defeated>>
        BY <1>4 DEF caveVars, inventory, goods, records
    <2> QED
        BY <2>1, RestGoods
<1>5. CASE Proceed
    BY <1>5, BackupGoods, ResetGoods, GrantGoods, CaveStageGoods, CollectGoods, RestoreGoods,
       ReturnGoods, ClockStageGoods DEF Proceed
<1> QED
    BY <1>1, <1>2, <1>3, <1>4, <1>5 DEF CaveNext

(* With the clock these are the invariant of the visit.                     *)
LEMMA CaveStands ==
    ASSUME CaveGoods, ClockState
    PROVE  CaveInv
<1>1. GoodsTypes /\ GoodsFlags /\ Copied /\ ListsStand /\ GrantStands /\ ReturnStands
    BY DEF CaveGoods
<1>2. TimeOK /\ ClockInv /\ stopped \in BOOLEAN
      /\ (stopped <=> at \in {"readMinutes", "writeMinutes", "addHours"})
    BY DEF ClockState
<1>3. /\ bag \in Bags /\ backup.bag \in Bags /\ Tidy(bag) /\ Tidy(backup.bag)
    BY <1>1 DEF GoodsTypes, BagOK, Bags, Tidy
<1>4. /\ worn \in Outfits /\ backup.worn \in Outfits
      /\ \A m \in Members, p \in Places : worn[m][p] # None => Fits(m, p, worn[m][p])
      /\ \A m \in Members, p \in Places :
            backup.worn[m][p] # None => Fits(m, p, backup.worn[m][p])
    BY <1>1 DEF GoodsTypes, WornOK, Outfits
<1>5. CaveTypeOK
    <2>1. backup \in [bag : Bags, worn : Outfits,
                      hours : 0 .. HourSize - 1, minutes : 0 .. MinuteCount - 1]
        BY <1>2, <1>3, <1>4 DEF TimeOK
    <2>2. staged \in [hours : 0 .. HourSize - 1, minutes : 0 .. MinuteCount - 1]
        BY <1>2 DEF TimeOK
    <2>3. /\ pending \in Items \cup {None} /\ at \in Stages /\ defeated \in BOOLEAN
          /\ saved \in Seq(Words) /\ Len(saved) < HourSize \div 2
          /\ carried \in Seq(Words) /\ Len(carried) < HourSize \div 2 /\ given \in Nat
        BY <1>1 DEF GoodsTypes
    <2>4. (at = "grant" => given <= Len(saved)) /\ (at = "return" => given <= Len(Returning))
        BY <1>1 DEF GoodsFlags
    <2>5. /\ minutes \in 0 .. MinuteCount - 1 /\ hours \in 0 .. HourSize - 1
          /\ ticked \in BOOLEAN /\ sum \in Nat /\ entered \in Nat /\ spent \in Nat
        BY <1>2 DEF TimeOK
    <2> QED
        BY <1>2, <1>3, <1>4, <2>1, <2>2, <2>3, <2>4, <2>5 DEF CaveTypeOK
<1>6. GoodsStand
    BY <1>1, <1>3, <1>4 DEF GoodsStand, Copied
<1> QED
    BY <1>1, <1>2, <1>5, <1>6 DEF CaveInv, GoodsFlags

LEMMA VisitStands == CaveSpec => [](CaveGoods /\ ClockState)
<1>1. CaveInit => CaveGoods /\ ClockState
    BY GoodsStart, ClockStarts
<1>2. CaveGoods /\ ClockState /\ [CaveNext]_caveVars => (CaveGoods /\ ClockState)'
    BY GoodsGo, ClockGoes
<1> QED
    BY <1>1, <1>2, PTL DEF CaveSpec

(* A visit to the cave leaves nothing half done.                            *)
THEOREM CaveInvariant == CaveSpec => []CaveInv
<1>1. CaveGoods /\ ClockState => CaveInv
    BY CaveStands
<1> QED
    BY <1>1, VisitStands, PTL

(* What the party owns, stage by stage.                                     *)
Backed(i) == Held(backup.bag, backup.worn, i)
Coming(i) == IF defeated THEN Listed(saved, 0, i) ELSE Listed(carried, 0, i)
OwnedAt(i) ==
    /\ AtHand(i) \in Nat /\ Held(bag, worn, i) \in Nat /\ Backed(i) \in Nat
    /\ Takeable(i) \in Nat
    /\ pending = None => AtHand(i) = Held(bag, worn, i)
    /\ Listed(saved, 0, i) \in Nat /\ Listed(carried, 0, i) \in Nat
    /\ Listed(saved, given, i) \in Nat /\ Listed(Returning, given, i) \in Nat
    /\ at = "home" => Owned(i) = AtHand(i)
    /\ at = "backupHours" => Owned(i) = AtHand(i) + Listed(saved, 0, i)
    /\ at \in {"backupMinutes", "resetHours", "resetMinutes", "fallen"} =>
        Owned(i) = Backed(i) + Listed(saved, 0, i)
    /\ at = "grant" => Owned(i) = Backed(i) + Listed(saved, given, i)
                                    + (IF i \in Blue THEN AtHand(i) ELSE 0)
    /\ at = "cave" => Owned(i) = Backed(i) + Takeable(i)
    /\ at \in {"stageHours", "collect"} /\ ~ defeated => Owned(i) = Backed(i) + Takeable(i)
    /\ at = "stageHours" /\ defeated => Owned(i) = Backed(i) + Listed(saved, 0, i)
    /\ at = "restoreHours" => Owned(i) = Backed(i) + Coming(i)
    /\ at = "restoreMinutes" => Owned(i) = AtHand(i) + Coming(i)
    /\ at \in {"return", "readMinutes", "writeMinutes", "addHours"} =>
        Owned(i) = AtHand(i) + Listed(Returning, given, i)
OwnedByStage == GoodsTypes => \A i \in Items : OwnedAt(i)

LEMMA OwnedIs == OwnedByStage
<1> SUFFICES ASSUME GoodsTypes, NEW i \in Items PROVE OwnedAt(i)
    BY DEF OwnedByStage
<1>1. Held(bag, worn, i) \in Nat /\ Backed(i) \in Nat
    BY HeldIs DEF GoodsTypes, Backed
<1>2. AtHand(i) \in Nat /\ (pending = None => AtHand(i) = Held(bag, worn, i))
    BY <1>1, Fields DEF AtHand
<1>3. Takeable(i) \in Nat
    BY <1>2 DEF Takeable
<1>4. /\ Listed(saved, 0, i) \in Nat /\ Listed(carried, 0, i) \in Nat
      /\ Listed(saved, given, i) \in Nat /\ Listed(Returning, given, i) \in Nat
    BY ReturningIs, ListedIs DEF GoodsTypes
<1>5. at = "home" => Owned(i) = AtHand(i)
    BY <1>2 DEF Owned, Home, Listing, InBackup, InCave, Stages
<1>6. at = "backupHours" => Owned(i) = AtHand(i) + Listed(saved, 0, i)
    BY <1>2, <1>4 DEF Owned, Home, Listing, InBackup, InCave, Stages
<1>7. at \in {"backupMinutes", "resetHours", "resetMinutes", "fallen"} =>
        Owned(i) = Backed(i) + Listed(saved, 0, i)
    BY <1>1, <1>4 DEF Owned, Home, Listing, InBackup, InCave, Stages, Backed
<1>8. at = "grant" => Owned(i) = Backed(i) + Listed(saved, given, i)
                                        + (IF i \in Blue THEN AtHand(i) ELSE 0)
    BY <1>1, <1>2, <1>4 DEF Owned, Home, Listing, InBackup, InCave, Stages, Backed
<1>9. at = "cave" => Owned(i) = Backed(i) + Takeable(i)
    BY <1>1, <1>3 DEF Owned, Home, Listing, InBackup, InCave, Stages, Backed
<1>10. at \in {"stageHours", "collect"} /\ ~ defeated => Owned(i) = Backed(i) + Takeable(i)
    BY <1>1, <1>3 DEF Owned, Home, Listing, InBackup, InCave, Stages, Backed
<1>11. at = "stageHours" /\ defeated => Owned(i) = Backed(i) + Listed(saved, 0, i)
    BY <1>1, <1>4 DEF Owned, Home, Listing, InBackup, InCave, Stages, Backed
<1>12. at = "restoreHours" => Owned(i) = Backed(i) + Coming(i)
    BY <1>1, <1>4 DEF Owned, Home, Listing, InBackup, InCave, Stages, Backed, Coming
<1>13. at = "restoreMinutes" => Owned(i) = AtHand(i) + Coming(i)
    BY <1>2, <1>4 DEF Owned, Home, Listing, InBackup, InCave, Stages, Coming
<1>14. at \in {"return", "readMinutes", "writeMinutes", "addHours"} =>
        Owned(i) = AtHand(i) + Listed(Returning, given, i)
    BY <1>2, <1>4 DEF Owned, Home, Listing, InBackup, InCave, Stages
<1> QED
    BY <1>1, <1>2, <1>3, <1>4, <1>5, <1>6, <1>7, <1>8, <1>9, <1>10, <1>11, <1>12, <1>13, <1>14
    DEF OwnedAt

LEMMA OwnedBoth ==
    ASSUME CaveGoods, CaveGoods', NEW i \in Items
    PROVE  OwnedAt(i) /\ OwnedAt(i)'
<1>1. OwnedByStage'
    BY OwnedIs, PTL
<1>2. GoodsTypes /\ GoodsTypes'
    BY DEF CaveGoods
<1> QED
    BY <1>1, <1>2, OwnedIs DEF OwnedByStage

LEMMA ListedTail ==
    ASSUME NEW list \in Seq(Words), NEW i
    PROVE  Listed(list, Len(list), i) = 0
BY ListedNone

(* The list made on entry has blue items only.                              *)
LEMMA SavedBlue ==
    ASSUME CaveGoods, NEW i, i \notin Blue, NEW from \in Nat
    PROVE  Listed(saved, from, i) = 0
<1>1. saved \in Seq(Words) /\ \A k \in 1 .. Len(saved) : saved[k].item # i
    BY DEF CaveGoods, GoodsTypes, ListsStand
<1> QED
    BY <1>1, ListedNone

LEMMA EnterOwned ==
    ASSUME CaveGoods, CaveGoods', Enter, NEW i \in Items
    PROVE  Owned(i)' = Owned(i)
<1>1. at = "home" /\ at' = "backupHours" /\ pending = None /\ pending' = None
    BY DEF Enter
<1>2. Held(bag, worn, i) = Held(bag', worn', i) + Listed(saved', 0, i)
    BY GoodsParts, EnterTakes
<1>3. OwnedAt(i) /\ OwnedAt(i)'
    BY OwnedBoth
<1>4. Owned(i) = AtHand(i) /\ AtHand(i) = Held(bag, worn, i)
    BY <1>1, <1>3 DEF OwnedAt
<1>5. Owned(i)' = AtHand(i)' + Listed(saved', 0, i) /\ AtHand(i)' = Held(bag', worn', i)
    BY <1>1, <1>3 DEF OwnedAt
<1> QED
    BY <1>2, <1>4, <1>5

LEMMA BackupOwned ==
    ASSUME CaveGoods, CaveGoods', BackupHours \/ BackupMinutes, NEW i \in Items
    PROVE  Owned(i)' = Owned(i)
<1>1. OwnedAt(i) /\ OwnedAt(i)'
    BY OwnedBoth
<1>2. CASE BackupHours
    <2>1. /\ at = "backupHours" /\ at' = "backupMinutes" /\ saved' = saved
          /\ backup'.bag = bag /\ backup'.worn = worn
        BY <1>2 DEF BackupHours, lists
    <2>2. pending = None
        BY <2>1, GoodsParts DEF GoodsFlags
    <2>3. Owned(i) = Held(bag, worn, i) + Listed(saved, 0, i)
        BY <1>1, <2>1, <2>2 DEF OwnedAt
    <2>4. Owned(i)' = Backed(i)' + Listed(saved', 0, i)
        BY <1>1, <2>1 DEF OwnedAt
    <2>5. Backed(i)' = Held(bag, worn, i)
        BY <2>1 DEF Backed
    <2> QED
        BY <2>1, <2>3, <2>4, <2>5
<1>3. CASE BackupMinutes
    <2>1. /\ at = "backupMinutes" /\ at' = "resetHours" /\ saved' = saved
          /\ backup' = [backup EXCEPT !.minutes = minutes]
        BY <1>3 DEF BackupMinutes, lists
    <2>2. backup'.bag = backup.bag /\ backup'.worn = backup.worn
        BY <2>1, GoodsParts DEF GoodsTypes
    <2>3. Owned(i) = Backed(i) + Listed(saved, 0, i)
        BY <1>1, <2>1 DEF OwnedAt
    <2>4. Owned(i)' = Backed(i)' + Listed(saved', 0, i)
        BY <1>1, <2>1 DEF OwnedAt
    <2>5. Backed(i)' = Backed(i)
        BY <2>2 DEF Backed
    <2> QED
        BY <2>1, <2>3, <2>4, <2>5
<1> QED
    BY <1>2, <1>3

LEMMA ResetOwned ==
    ASSUME CaveGoods, CaveGoods', ResetHours \/ ResetMinutes, NEW i \in Items
    PROVE  Owned(i)' = Owned(i)
<1>1. OwnedAt(i) /\ OwnedAt(i)'
    BY OwnedBoth
<1>2. at \in {"resetHours", "resetMinutes"} /\ saved' = saved /\ backup' = backup
    BY DEF ResetHours, ResetMinutes, lists, records
<1>3. Owned(i) = Backed(i) + Listed(saved, 0, i) /\ Backed(i)' = Backed(i)
      /\ Backed(i) \in Nat /\ Listed(saved, 0, i) \in Nat
    BY <1>1, <1>2 DEF OwnedAt, Backed
<1>4. CASE at' \in {"resetMinutes", "fallen"}
    BY <1>1, <1>2, <1>3, <1>4 DEF OwnedAt
<1>5. CASE at' = "grant"
    <2>1. /\ at = "resetMinutes" /\ given' = 0
          /\ UNCHANGED <<bag, worn, pending>>
        BY <1>5 DEF ResetHours, ResetMinutes, inventory, goods
    <2>2. bag = FreshBag /\ worn = NoWorn /\ pending = None
        BY <2>1, GoodsParts DEF Copied, GoodsFlags
    <2>3. Owned(i)' = Backed(i)' + Listed(saved', given', i)
                        + (IF i \in Blue THEN AtHand(i)' ELSE 0)
        BY <1>1, <1>5 DEF OwnedAt
    <2>4. i \in Blue => AtHand(i)' = 0
        <3> SUFFICES ASSUME i \in Blue PROVE AtHand(i)' = 0
            OBVIOUS
        <3>1. i # Potion /\ i # None
            BY KindsAre
        <3>2. Count(bag, i) = 0 /\ Worn(worn, i) = 0
            BY <2>2, <3>1, FreshOK
        <3> QED
            BY <2>1, <2>2, <3>1, <3>2 DEF AtHand, Held
    <2> QED
        BY <1>2, <1>3, <2>1, <2>3, <2>4
<1> QED
    BY <1>4, <1>5 DEF ResetHours, ResetMinutes

LEMMA GrantOwned ==
    ASSUME CaveGoods, CaveGoods', Grant \/ EnterCave, NEW i \in Items
    PROVE  Owned(i)' = Owned(i)
<1>1. OwnedAt(i) /\ OwnedAt(i)'
    BY OwnedBoth
<1>2. /\ at = "grant" /\ saved' = saved /\ backup' = backup
      /\ saved \in Seq(Words) /\ given \in Nat /\ given' \in Nat
    BY DEF Grant, GiveNext, EnterCave, lists, records, CaveGoods, GoodsTypes
<1>3. /\ Owned(i) = Backed(i) + Listed(saved, given, i) + (IF i \in Blue THEN AtHand(i) ELSE 0)
      /\ Backed(i)' = Backed(i) /\ Backed(i) \in Nat
      /\ AtHand(i) \in Nat /\ AtHand(i)' \in Nat
      /\ Listed(saved, given, i) \in Nat /\ Listed(saved, given', i) \in Nat
    <2>1. Backed(i)' = Backed(i)
        BY <1>2 DEF Backed
    <2>2. Listed(saved, given', i) \in Nat
        BY <1>2, ListedIs
    <2>3. AtHand(i)' \in Nat
        BY <1>1 DEF OwnedAt
    <2> QED
        BY <1>1, <1>2, <2>1, <2>2, <2>3 DEF OwnedAt
<1>4. CASE Grant
    <2>1. AtHand(i)' + Listed(saved, given', i) = AtHand(i) + Listed(saved, given, i)
        BY <1>4, GrantGives
    <2>2. at' = "grant"
        BY <1>2, <1>4 DEF Grant, GiveNext
    <2>3. Owned(i)' = Backed(i)' + Listed(saved', given', i)
                        + (IF i \in Blue THEN AtHand(i)' ELSE 0)
        BY <1>1, <2>2 DEF OwnedAt
    <2>4. CASE i \in Blue
        BY <1>2, <1>3, <2>1, <2>3, <2>4
    <2>5. CASE i \notin Blue
        <3>1. Listed(saved, given, i) = 0 /\ Listed(saved, given', i) = 0
            BY <1>2, <2>5, SavedBlue
        <3> QED
            BY <1>2, <1>3, <2>3, <2>5, <3>1
    <2> QED
        BY <2>4, <2>5
<1>5. CASE EnterCave
    <2>1. /\ at' = "cave" /\ given = Len(saved)
          /\ UNCHANGED <<bag, worn, pending>>
        BY <1>5 DEF EnterCave, inventory, goods
    <2>2. Listed(saved, given, i) = 0
        BY <1>2, <2>1, ListedTail
    <2>3. Owned(i)' = Backed(i)' + Takeable(i)'
        BY <1>1, <2>1 DEF OwnedAt
    <2>4. Takeable(i)' = IF i \in Blue THEN AtHand(i) ELSE 0
        <3>1. AtHand(i)' = AtHand(i)
            BY <2>1 DEF AtHand
        <3>2. i \in Iris => Holding(bag, i) = {}
            BY <1>2, GoodsParts, KindsAre DEF GrantStands, Holding
        <3> QED
            BY <2>1, <3>1, <3>2 DEF Takeable
    <2> QED
        BY <1>3, <2>2, <2>3, <2>4
<1> QED
    BY <1>4, <1>5

(* A defeat costs what was found, but not what was brought.                 *)
LEMMA DefeatCosts ==
    ASSUME CaveGoods, CaveGoods', Defeat, NEW i \in Items
    PROVE  IF i \in Blue \cup Iris
           THEN ~ defeated /\ defeated' /\ Owned(i)' = Home(i) + Listed(saved, 0, i)
           ELSE Owned(i)' = Owned(i)
<1>1. OwnedAt(i) /\ OwnedAt(i)'
    BY OwnedBoth
<1>2. /\ at = "cave" /\ at' = "resetHours" /\ defeated' = TRUE
      /\ saved' = saved /\ backup' = backup
    BY DEF Defeat, lists
<1>3. ~ defeated
    BY <1>2, GoodsParts DEF GoodsFlags
<1>4. /\ Owned(i) = Backed(i) + Takeable(i) /\ Owned(i)' = Backed(i)' + Listed(saved', 0, i)
      /\ Backed(i)' = Backed(i) /\ Backed(i) \in Nat
    BY <1>1, <1>2 DEF OwnedAt, Backed
<1>5. Home(i) = Backed(i)
    BY <1>2 DEF Home, InBackup, Backed, Stages
<1>6. i \notin Blue \cup Iris => Takeable(i) = 0 /\ Listed(saved, 0, i) = 0
    BY SavedBlue DEF Takeable
<1> QED
    BY <1>2, <1>3, <1>4, <1>5, <1>6

LEMMA LeaveOwned ==
    ASSUME CaveGoods, CaveGoods', Leave \/ StageHours, NEW i \in Items
    PROVE  Owned(i)' = Owned(i)
<1>1. OwnedAt(i) /\ OwnedAt(i)'
    BY OwnedBoth
<1>2. /\ UNCHANGED <<bag, worn, pending, saved, backup, defeated, carried>>
      /\ \/ at \in {"cave", "fallen"} /\ at' = "stageHours"
         \/ at = "stageHours" /\ at' = IF defeated THEN "restoreHours" ELSE "collect"
    BY DEF Leave, StageHours, inventory, goods, lists
<1>3. Takeable(i)' = Takeable(i) /\ Backed(i)' = Backed(i) /\ Coming(i)' = Coming(i)
    BY <1>2 DEF Takeable, Backed, AtHand, Coming
<1>4. (at = "cave" => ~ defeated) /\ (at = "fallen" => defeated)
    BY GoodsParts DEF GoodsFlags
<1>5. CASE defeated
    <2>1. Owned(i) = Backed(i) + Listed(saved, 0, i)
        BY <1>1, <1>2, <1>4, <1>5 DEF OwnedAt
    <2>2. Owned(i)' = Backed(i)' + Listed(saved', 0, i)
        BY <1>1, <1>2, <1>5 DEF OwnedAt, Coming
    <2> QED
        BY <1>2, <1>3, <2>1, <2>2
<1>6. CASE ~ defeated
    <2>1. Owned(i) = Backed(i) + Takeable(i)
        BY <1>1, <1>2, <1>4, <1>6 DEF OwnedAt
    <2>2. Owned(i)' = Backed(i)' + Takeable(i)'
        BY <1>1, <1>2, <1>6 DEF OwnedAt
    <2> QED
        BY <1>3, <2>1, <2>2
<1> QED
    BY <1>5, <1>6

LEMMA CollectOwned ==
    ASSUME CaveGoods, CaveGoods', CollectCaveCarryItems, NEW i \in Items
    PROVE  Owned(i)' = Owned(i)
<1>1. OwnedAt(i) /\ OwnedAt(i)'
    BY OwnedBoth
<1>2. /\ at = "collect" /\ at' = "restoreHours"
      /\ UNCHANGED <<bag, worn, pending, backup, defeated>>
    BY DEF CollectCaveCarryItems, inventory, goods, records
<1>3. ~ defeated /\ pending = None
    BY <1>2, GoodsParts DEF GoodsFlags
<1>4. Listed(carried', 0, i) = IF i \in Blue THEN Held(bag, worn, i)
                               ELSE IF i \in Iris /\ Holding(bag, i) # {} THEN 1 ELSE 0
    BY GoodsParts, CollectTakes
<1>5. AtHand(i) = Held(bag, worn, i)
    BY <1>1, <1>3 DEF OwnedAt
<1>6. Owned(i) = Backed(i) + Takeable(i) /\ Owned(i)' = Backed(i)' + Coming(i)'
    BY <1>1, <1>2, <1>3 DEF OwnedAt
<1>7. Takeable(i) = Listed(carried', 0, i)
    BY <1>4, <1>5 DEF Takeable
<1>8. Backed(i)' = Backed(i) /\ Coming(i)' = Listed(carried', 0, i)
    BY <1>2, <1>3 DEF Backed, Coming
<1> QED
    BY <1>6, <1>7, <1>8

LEMMA RestoreOwned ==
    ASSUME CaveGoods, CaveGoods', RestoreHours \/ RestoreMinutes, NEW i \in Items
    PROVE  Owned(i)' = Owned(i)
<1>1. OwnedAt(i) /\ OwnedAt(i)'
    BY OwnedBoth
<1>2. at \in {"restoreHours", "restoreMinutes"} /\ UNCHANGED <<pending, saved, carried, defeated>>
    BY DEF RestoreHours, RestoreMinutes, lists, records, inventory, goods
<1>3. pending = None /\ pending' = None
    BY <1>2, GoodsParts DEF GoodsFlags
<1>4. Coming(i)' = Coming(i)
    BY <1>2 DEF Coming
<1>5. CASE RestoreHours
    <2>1. /\ at = "restoreHours" /\ at' = "restoreMinutes"
          /\ bag' = backup.bag /\ worn' = backup.worn
        BY <1>5 DEF RestoreHours
    <2>2. Owned(i) = Backed(i) + Coming(i)
        BY <1>1, <2>1 DEF OwnedAt
    <2>3. Owned(i)' = AtHand(i)' + Coming(i)' /\ AtHand(i)' = Held(bag', worn', i)
        BY <1>1, <1>3, <2>1 DEF OwnedAt
    <2>4. Held(bag', worn', i) = Backed(i)
        BY <2>1 DEF Backed
    <2> QED
        BY <1>4, <2>2, <2>3, <2>4
<1>6. CASE RestoreMinutes
    <2>1. /\ at = "restoreMinutes" /\ at' = "return" /\ given' = 0 /\ UNCHANGED <<bag, worn>>
        BY <1>6 DEF RestoreMinutes, inventory, goods
    <2>2. Owned(i) = AtHand(i) + Coming(i)
        BY <1>1, <2>1 DEF OwnedAt
    <2>3. Owned(i)' = AtHand(i)' + Listed(Returning', given', i)
        BY <1>1, <2>1 DEF OwnedAt
    <2>4. AtHand(i)' = AtHand(i)
        BY <1>2, <2>1 DEF AtHand
    <2>5. Listed(Returning', given', i) = Coming(i)
        BY <1>2, <2>1 DEF Coming, Returning
    <2> QED
        BY <2>2, <2>3, <2>4, <2>5
<1> QED
    BY <1>5, <1>6

LEMMA ReturnOwned ==
    ASSUME CaveGoods, CaveGoods', ReturnItem, NEW i \in Items
    PROVE  Owned(i)' = Owned(i) \/ Dropped(i)
<1>1. OwnedAt(i) /\ OwnedAt(i)'
    BY OwnedBoth
<1>2. at = "return" /\ at' = "return" /\ Returning' = Returning
    BY DEF ReturnItem, GiveNext, Returning, records
<1>3. \/ AtHand(i)' + Listed(Returning, given', i) = AtHand(i) + Listed(Returning, given, i)
      \/ Dropped(i)
    BY ReturnGives
<1>4. Owned(i) = AtHand(i) + Listed(Returning, given, i)
    BY <1>1, <1>2 DEF OwnedAt
<1>5. Owned(i)' = AtHand(i)' + Listed(Returning', given', i)
    BY <1>1, <1>2 DEF OwnedAt
<1> QED
    BY <1>2, <1>3, <1>4, <1>5

LEMMA ClockOwned ==
    ASSUME CaveGoods, CaveGoods', StopClock \/ ReadMinutes \/ WriteMinutes \/ AddHours,
           NEW i \in Items
    PROVE  Owned(i)' = Owned(i)
<1>1. OwnedAt(i) /\ OwnedAt(i)'
    BY OwnedBoth
<1>2. /\ UNCHANGED <<bag, worn, pending, saved, carried, given, defeated>>
      /\ at \in {"return", "readMinutes", "writeMinutes", "addHours"}
      /\ at' \in {"readMinutes", "writeMinutes", "addHours"} \/ (at = "addHours" /\ at' = "home")
    BY DEF StopClock, ReadMinutes, WriteMinutes, AddHours, inventory, goods, lists, records
<1>3. AtHand(i)' = AtHand(i) /\ Returning' = Returning /\ AtHand(i) \in Nat
    BY <1>1, <1>2 DEF AtHand, Returning, OwnedAt
<1>4. Owned(i) = AtHand(i) + Listed(Returning, given, i)
    BY <1>1, <1>2 DEF OwnedAt
<1>5. CASE at' \in {"readMinutes", "writeMinutes", "addHours"}
    <2>1. Owned(i)' = AtHand(i)' + Listed(Returning', given', i)
        BY <1>1, <1>5 DEF OwnedAt
    <2> QED
        BY <1>2, <1>3, <1>4, <2>1
<1>6. CASE at = "addHours" /\ at' = "home"
    <2>1. Owned(i)' = AtHand(i)'
        BY <1>1, <1>6 DEF OwnedAt
    <2>2. given = Len(Returning) /\ Returning \in Seq(Words)
        BY <1>6, GoodsParts, ReturningIs DEF GoodsFlags
    <2>3. Listed(Returning, given, i) = 0
        BY <2>2, ListedTail
    <2> QED
        BY <1>3, <1>4, <2>1, <2>3
<1> QED
    BY <1>2, <1>5, <1>6

LEMMA VisitMoves ==
    ASSUME CaveGoods, CaveGoods', [CaveNext]_caveVars, at' # at \/ given' # given,
           NEW i \in Items
    PROVE  \/ Owned(i)' = Owned(i)
           \/ Dropped(i)
           \/ /\ ~ defeated /\ defeated' /\ i \in Blue \cup Iris
              /\ Owned(i)' = Home(i) + Listed(saved, 0, i)
<1>1. ~ PlayerActs /\ ~ TickMinute /\ ~ UNCHANGED caveVars
    BY DEF PlayerActs, TickMinute, caveVars, lists
<1>2. CASE Enter
    BY <1>2, EnterOwned
<1>3. CASE BackupHours \/ BackupMinutes \/ ResetHours \/ ResetMinutes
    BY <1>3, BackupOwned, ResetOwned
<1>4. CASE Grant \/ EnterCave
    BY <1>4, GrantOwned
<1>5. CASE Defeat
    BY <1>5, DefeatCosts
<1>6. CASE Leave \/ StageHours \/ CollectCaveCarryItems
    BY <1>6, LeaveOwned, CollectOwned
<1>7. CASE RestoreHours \/ RestoreMinutes
    BY <1>7, RestoreOwned
<1>8. CASE ReturnItem
    BY <1>8, ReturnOwned
<1>9. CASE StopClock \/ ReadMinutes \/ WriteMinutes \/ AddHours
    BY <1>9, ClockOwned
<1> QED
    BY <1>1, <1>2, <1>3, <1>4, <1>5, <1>6, <1>7, <1>8, <1>9 DEF CaveNext, Proceed

(* What was brought to the cave and what was found there come home.         *)
THEOREM CaveItemsComeHome == CaveSpec => ItemsComeHome
<1>1. CaveGoods /\ CaveGoods' /\ [CaveNext]_caveVars =>
        [at' # at \/ given' # given =>
            \A i \in Items :
                \/ Owned(i)' = Owned(i)
                \/ Dropped(i)
                \/ /\ ~ defeated /\ defeated' /\ i \in Blue \cup Iris
                   /\ Owned(i)' = Home(i) + Listed(saved, 0, i)]_caveVars
    BY VisitMoves
<1> QED
    BY <1>1, VisitStands, PTL DEF CaveSpec, ItemsComeHome
=============================================================================
