------------------------- MODULE SoundStream_proofs -------------------------
(***************************************************************************)
(* The stream of sound resources for every layout of residents, songs and  *)
(* effects that LayoutAssumption admits, and every size of banks, chunks   *)
(* and memory: what waits is what was asked for last, where a stream goes  *)
(* on after a frame, and what the sample memory holds.                     *)
(*                                                                         *)
(* Lists of uploads are counted by a set of numbers (CountedUp), since the *)
(* library's induction theorems take an operator.                          *)
(***************************************************************************)
EXTENDS SoundStream, WellFoundedInduction, TLAPS

-----------------------------------------------------------------------------
(* What lists of uploads leave in the sample memory.                        *)

(* A set of numbers with 0 and every next number has them all: induction    *)
(* over the natural numbers for one set.                                    *)
LEMMA CountedUp ==
    ASSUME NEW S, S \subseteq Nat, 0 \in S, \A n \in S : n + 1 \in S
    PROVE  S = Nat
<1> DEFINE Below == OpToRel(<, Nat)
           Missed == Nat \ S
<1> SUFFICES ASSUME Missed # {} PROVE FALSE
    OBVIOUS
<1>1. IsWellFoundedOn(Below, Nat)
    BY NatLessThanWellFounded
<1>2. PICK n \in Missed : \A m \in Missed : ~ (<<m, n>> \in Below)
    <2> HIDE DEF Below, Missed
    <2>1. Missed \subseteq Nat
        BY DEF Missed
    <2> QED
        BY <1>1, <2>1, WFMin
<1>3. n \in Nat /\ n # 0 /\ n - 1 \in Nat /\ n - 1 < n
    OBVIOUS
<1>4. n - 1 \notin Missed
    BY <1>2, <1>3 DEF OpToRel
<1>5. n - 1 \in S /\ (n - 1) + 1 = n
    BY <1>3, <1>4
<1> QED
    BY <1>5

(* The drivers after each of n uploads.                                     *)
IsAfter(after, d, list, n) ==
    after = [k \in 0 .. n |-> IF k = 0 THEN d ELSE UploadNext(after[k - 1], list, k)]

(* There are such drivers, for lists of every length.                       *)
LEMMA AfterExists ==
    ASSUME NEW d, NEW list, NEW m \in Nat
    PROVE  \E after : IsAfter(after, d, list, m)
<1> DEFINE S == {n \in Nat : \E after : IsAfter(after, d, list, n)}
<1>1. 0 \in S
    <2>1. IsAfter([k \in 0 .. 0 |-> d], d, list, 0)
        BY DEF IsAfter
    <2> QED
        BY <2>1
<1>2. ASSUME NEW n \in S PROVE n + 1 \in S
    <2> PICK f : IsAfter(f, d, list, n)
        OBVIOUS
    <2> DEFINE g == [k \in 0 .. n + 1 |-> IF k <= n THEN f[k] ELSE UploadNext(f[n], list, n + 1)]
    <2>1. ASSUME NEW k \in 0 .. n + 1
          PROVE  g[k] = IF k = 0 THEN d ELSE UploadNext(g[k - 1], list, k)
        <3>1. CASE k = 0
            BY <3>1 DEF IsAfter
        <3>2. CASE k \in 1 .. n
            <4>1. g[k] = f[k] /\ g[k - 1] = f[k - 1] /\ k \in 0 .. n
                BY <3>2
            <4>2. f[k] = UploadNext(f[k - 1], list, k)
                BY <3>2, <4>1 DEF IsAfter
            <4> QED
                BY <3>2, <4>1, <4>2
        <3>3. CASE k = n + 1
            <4>1. k # 0 /\ ~ (k <= n) /\ k - 1 = n
                BY <3>3
            <4>2. g[k] = UploadNext(f[n], list, k) /\ g[k - 1] = f[n]
                BY <3>3, <4>1
            <4> QED
                BY <4>1, <4>2
        <3> QED
            BY <3>1, <3>2, <3>3
    <2>2. IsAfter(g, d, list, n + 1)
        <3>1. g = [k \in 0 .. n + 1 |-> g[k]]
            OBVIOUS
        <3> HIDE DEF g
        <3> QED
            BY <2>1, <3>1 DEF IsAfter
    <2> QED
        BY <2>2
<1>3. S = Nat
    <2>1. S \subseteq Nat
        OBVIOUS
    <2> HIDE DEF S
    <2> QED
        BY <1>1, <1>2, <2>1, CountedUp
<1> QED
    BY <1>3

(* The drivers after each upload of a list.                                 *)
After(d, list) == CHOOSE after : IsAfter(after, d, list, Len(list))

(* WithUploads, one upload after the other.                                 *)
LEMMA Uploading ==
    ASSUME NEW d, NEW list, Len(list) \in Nat
    PROVE  /\ WithUploads(d, list) = After(d, list)[Len(list)]
           /\ After(d, list)[0] = d
           /\ \A k \in 1 .. Len(list) :
                After(d, list)[k] = UploadNext(After(d, list)[k - 1], list, k)
<1>1. WithUploads(d, list) = After(d, list)[Len(list)]
    BY DEF WithUploads, After, IsAfter, UploadNext
<1>2. IsAfter(After(d, list), d, list, Len(list))
    BY AfterExists DEF After
<1> QED
    BY <1>1, <1>2 DEF IsAfter

(* Places, lengths, slots and addresses are numbers.                        *)
LEMMA Numbers ==
    /\ Slots \in Nat \ {0} /\ FixedSlot \in Nat /\ RamEnd \in Nat /\ TableAddress \in Nat
    /\ Addresses = TableAddress .. RamEnd - 1
    /\ \A i \in Ids : DataAt(i) \in Nat /\ LengthOf(i) \in Nat
<1>1. ASSUME NEW i \in Ids PROVE DataAt(i) \in Nat /\ LengthOf(i) \in Nat
    <2>1. Resources[i].at \in Nat /\ Resources[i].length \in Nat /\ Header \in Nat
        BY StreamAssumption
    <2> QED
        BY <2>1 DEF DataAt, LengthOf
<1> QED
    BY <1>1, StreamAssumption DEF Addresses

(* The pairs sent of n bytes cover them, and two bytes more at the most.    *)
LEMMA SentCovers ==
    ASSUME NEW n \in Nat
    PROVE  Sent(n) \in Nat /\ Sent(n) >= n /\ Sent(n) <= n + 2 /\ (n > 0 => Sent(n) <= n + 1)
<1>1. (n + 1) \div 2 \in Nat /\ 2 * ((n + 1) \div 2) >= n /\ 2 * ((n + 1) \div 2) <= n + 1
    OBVIOUS
<1> QED
    BY <1>1 DEF Sent

(* An upload puts the resource where the memory was free, whole as far as the *)
(* memory goes, enters it in its slot, and leaves all below as it was.      *)
LEMMA OneUpload ==
    ASSUME NEW d \in Drivers, NEW s \in 0 .. Slots - 1, NEW i \in Ids
    PROVE  LET e == UploadSlot(SetSlot(d, s), i)
           IN  /\ e \in Drivers /\ e.alloc = d.alloc + LengthOf(i) /\ e.cursor = d.cursor
               /\ \A a \in Addresses : a < d.alloc => e.ram[a] = d.ram[a]
               /\ \A k \in 0 .. LengthOf(i) - 1 :
                    d.alloc + k \in Addresses => e.ram[d.alloc + k] = DataAt(i) + k
               /\ e.directory[s] = [id |-> i, start |-> d.alloc]
               /\ \A t \in 0 .. Slots - 1 : t # s => e.directory[t] = d.directory[t]
<1> DEFINE e == UploadSlot(SetSlot(d, s), i)
           n == LengthOf(i)
           m == Sent(n)
           new == Received(d.ram, d.alloc, DataAt(i), m)
<1>1. s % Slots = s /\ (s + 1) % Slots \in 0 .. Slots - 1
    BY Numbers
<1>2. n \in Nat /\ DataAt(i) \in Nat /\ d.alloc \in Nat
    BY Numbers DEF Drivers
<1>3. m \in Nat /\ m >= n
    BY <1>2, SentCovers
<1>4. e = [ram |-> new,
           directory |-> [d.directory EXCEPT ![s] = [id |-> i, start |-> d.alloc]],
           alloc |-> d.alloc + n, slot |-> (s + 1) % Slots, cursor |-> d.cursor]
    <2> DEFINE d1 == SetSlot(d, s)
               d2 == Define(d1, i)
    <2>1. d1 = [ram |-> d.ram, directory |-> d.directory, alloc |-> d.alloc,
                slot |-> s, cursor |-> d.cursor]
        BY <1>1 DEF SetSlot
    <2>2. d2 = [ram |-> d.ram,
                directory |-> [d.directory EXCEPT ![s] = [id |-> i, start |-> d.alloc]],
                alloc |-> d.alloc + n, slot |-> (s + 1) % Slots, cursor |-> d.cursor]
        <3>1. d1.slot = s /\ d1.alloc = d.alloc /\ d1.directory = d.directory
            BY <2>1
        <3>2. d2 = [d1 EXCEPT !.directory = [d.directory EXCEPT ![s] = [id |-> i, start |-> d.alloc]],
                              !.alloc = d.alloc + n, !.slot = (s + 1) % Slots]
            <4> HIDE DEF d1
            <4> QED
                BY <2>1, <3>1 DEF Define
        <3> HIDE DEF d1, d2
        <3> QED
            BY <2>1, <3>2
    <2>3. e = [d2 EXCEPT !.ram = Received(d1.ram, d1.alloc, DataAt(i), m)]
        BY DEF UploadSlot
    <2>4. Received(d1.ram, d1.alloc, DataAt(i), m) = new
        BY <2>1
    <2> HIDE DEF d1, d2, e, new
    <2> QED
        BY <2>2, <2>3, <2>4
<1>5. /\ DOMAIN new = Addresses
      /\ \A a \in Addresses : new[a] = IF a \in d.alloc .. d.alloc + m - 1
                                      THEN DataAt(i) + (a - d.alloc) ELSE d.ram[a]
    BY DEF Received, Drivers
<1>6. new \in [Addresses -> Nat \cup {Nothing}]
    <2>1. ASSUME NEW a \in Addresses PROVE new[a] \in Nat \cup {Nothing}
        <3>1. a \in Int
            BY Numbers
        <3>2. d.ram[a] \in Nat \cup {Nothing}
            BY DEF Drivers
        <3> QED
            BY <1>2, <1>3, <1>5, <3>1, <3>2
    <2>2. new = [a \in Addresses |-> new[a]]
        BY <1>5 DEF Received
    <2> HIDE DEF new
    <2> QED
        BY <2>1, <2>2
<1>7. e \in Drivers
    <2>1. [d.directory EXCEPT ![s] = [id |-> i, start |-> d.alloc]]
            \in [0 .. Slots - 1 -> [id : Ids \cup {Nothing}, start : Nat]]
        BY <1>2 DEF Drivers
    <2> HIDE DEF e, new
    <2> QED
        BY <1>1, <1>2, <1>4, <1>6, <2>1 DEF Drivers
<1>8. \A a \in Addresses : a < d.alloc => new[a] = d.ram[a]
    BY <1>2, <1>3, <1>5, Numbers
<1>9. ASSUME NEW k \in 0 .. n - 1, d.alloc + k \in Addresses
      PROVE  new[d.alloc + k] = DataAt(i) + k
    <2>1. d.alloc + k \in d.alloc .. d.alloc + m - 1 /\ (d.alloc + k) - d.alloc = k
        BY <1>2, <1>3
    <2> QED
        BY <1>5, <1>9, <2>1
<1>10. /\ e.directory[s] = [id |-> i, start |-> d.alloc]
       /\ \A t \in 0 .. Slots - 1 : t # s => e.directory[t] = d.directory[t]
    <2>1. e.directory = [d.directory EXCEPT ![s] = [id |-> i, start |-> d.alloc]]
        BY <1>4
    <2>2. d.directory \in [0 .. Slots - 1 -> [id : Ids \cup {Nothing}, start : Nat]]
        BY DEF Drivers
    <2> HIDE DEF e
    <2> QED
        BY <2>1, <2>2
<1>11. e.ram = new /\ e.alloc = d.alloc + n /\ e.cursor = d.cursor
    BY <1>4
<1> HIDE DEF e, new, n
<1> QED
    BY <1>7, <1>8, <1>9, <1>10, <1>11 DEF e, n

(* Lists of uploads: no slot is given to two samples.                       *)
ListOK(list) ==
    /\ Len(list) \in Nat
    /\ \A j \in 1 .. Len(list) : list[j].slot \in 0 .. Slots - 1 /\ list[j].id \in Ids
    /\ \A i, j \in 1 .. Len(list) : list[i].slot = list[j].slot => list[i] = list[j]

(* The sample of an upload is in a driver's memory, between two addresses,  *)
(* as far as the memory goes.                                               *)
Placed(d, upload, from, end) ==
    LET entry == d.directory[upload.slot]
    IN  /\ entry.id = upload.id /\ entry.start \in Nat
        /\ entry.start >= from /\ entry.start + LengthOf(upload.id) <= end
        /\ \A k \in 0 .. LengthOf(upload.id) - 1 :
            entry.start + k \in Addresses =>
                d.ram[entry.start + k] = DataAt(upload.id) + k

(* What the first k uploads of a list leave of a driver.                    *)
Loaded(d, e, list, k) ==
    /\ e \in Drivers /\ e.alloc >= d.alloc /\ e.cursor = d.cursor
    /\ \A a \in Addresses : a < d.alloc => e.ram[a] = d.ram[a]
    /\ \A t \in 0 .. Slots - 1 :
        (\A j \in 1 .. k : list[j].slot # t) => e.directory[t] = d.directory[t]
    /\ \A j \in 1 .. k : Placed(e, list[j], d.alloc, e.alloc)

(* What is placed stays so under what comes behind it to other slots.       *)
LEMMA StaysPlaced ==
    ASSUME NEW d, NEW e, NEW u, NEW from \in Nat, NEW end \in Nat, NEW end2 \in Nat,
           LengthOf(u.id) \in Nat,
           Placed(d, u, from, end), end <= end2,
           e.directory[u.slot] = d.directory[u.slot],
           \A a \in Addresses : a < end => e.ram[a] = d.ram[a]
    PROVE  Placed(e, u, from, end2)
<1>1. ASSUME NEW k \in 0 .. LengthOf(u.id) - 1,
             d.directory[u.slot].start + k \in Addresses
      PROVE  d.directory[u.slot].start + k < end
    BY <1>1 DEF Placed
<1> QED
    BY <1>1 DEF Placed

(* The next upload of a list leaves those before it in place.               *)
LEMMA NextLoaded ==
    ASSUME NEW d \in Drivers, NEW e, NEW list, ListOK(list),
           NEW k \in Nat, k + 1 \in 1 .. Len(list), Loaded(d, e, list, k)
    PROVE  Loaded(d, UploadNext(e, list, k + 1), list, k + 1)
<1> DEFINE n == k + 1
           u == list[n]
           f == UploadNext(e, list, n)
<1>0. d.alloc \in Nat /\ e \in Drivers /\ e.alloc \in Nat /\ e.alloc >= d.alloc
    BY DEF Drivers, Loaded
<1>1. n \in 1 .. Len(list) /\ n - 1 = k /\ 1 .. n = (1 .. k) \cup {n} /\ 1 .. k \subseteq 1 .. Len(list)
    BY DEF ListOK
<1>2. CASE \E j \in 1 .. k : list[j] = u
    <2>1. f = e
        BY <1>1, <1>2 DEF UploadNext
    <2>2. PICK j \in 1 .. k : list[j] = u
        BY <1>2
    <2>3. \A i \in 1 .. n : \E m \in 1 .. k : list[i] = list[m]
        BY <1>1, <2>2
    <2> HIDE DEF f, n, u
    <2> QED
        BY <1>1, <2>1, <2>3 DEF Loaded, f, n
<1>3. CASE ~ \E j \in 1 .. k : list[j] = u
    <2>1. f = UploadSlot(SetSlot(e, u.slot), u.id)
        BY <1>1, <1>3 DEF UploadNext
    <2>2. u.slot \in 0 .. Slots - 1 /\ u.id \in Ids
        BY <1>1 DEF ListOK
    <2>3. \A j \in 1 .. k : list[j].slot # u.slot /\ list[j].slot \in 0 .. Slots - 1 /\ list[j].id \in Ids
        BY <1>1, <1>3 DEF ListOK
    <2>4. /\ f \in Drivers /\ f.alloc = e.alloc + LengthOf(u.id) /\ f.cursor = e.cursor
          /\ \A a \in Addresses : a < e.alloc => f.ram[a] = e.ram[a]
          /\ \A i \in 0 .. LengthOf(u.id) - 1 :
               e.alloc + i \in Addresses => f.ram[e.alloc + i] = DataAt(u.id) + i
          /\ f.directory[u.slot] = [id |-> u.id, start |-> e.alloc]
          /\ \A t \in 0 .. Slots - 1 : t # u.slot => f.directory[t] = e.directory[t]
        <3> HIDE DEF u, f
        <3> QED
            BY <1>0, <2>1, <2>2, OneUpload
    <2> HIDE DEF f, u
    <2>5. LengthOf(u.id) \in Nat /\ f.alloc \in Nat /\ f.alloc >= e.alloc
        BY <1>0, <2>2, <2>4, Numbers
    <2>6. Placed(f, u, d.alloc, f.alloc)
        BY <1>0, <2>4, <2>5 DEF Placed
    <2>7. ASSUME NEW j \in 1 .. k PROVE Placed(f, list[j], d.alloc, f.alloc)
        <3>1. Placed(e, list[j], d.alloc, e.alloc) /\ LengthOf(list[j].id) \in Nat
            BY <2>3, Numbers DEF Loaded
        <3>2. f.directory[list[j].slot] = e.directory[list[j].slot]
            BY <2>3, <2>4
        <3> QED
            <4> DEFINE v == list[j]
            <4>1. \A a \in Addresses : a < e.alloc => f.ram[a] = e.ram[a]
                BY <2>4
            <4>2. /\ Placed(e, v, d.alloc, e.alloc) /\ LengthOf(v.id) \in Nat
                  /\ f.directory[v.slot] = e.directory[v.slot]
                BY <3>1, <3>2
            <4> HIDE DEF v
            <4>3. Placed(f, v, d.alloc, f.alloc)
                BY <1>0, <2>5, <4>1, <4>2, StaysPlaced
            <4> QED
                BY <4>3 DEF v
    <2>8. ASSUME NEW t \in 0 .. Slots - 1, \A j \in 1 .. n : list[j].slot # t
          PROVE  f.directory[t] = d.directory[t]
        <3>1. u.slot # t /\ \A j \in 1 .. k : list[j].slot # t
            BY <1>1, <2>8 DEF u
        <3> QED
            BY <2>4, <3>1 DEF Loaded
    <2>9. \A a \in Addresses : a < d.alloc => f.ram[a] = d.ram[a]
        <3>1. \A a \in Addresses : a < d.alloc => a < e.alloc
            BY <1>0, Numbers
        <3> QED
            BY <2>4, <3>1 DEF Loaded
    <2>10. f.alloc >= d.alloc /\ f.cursor = d.cursor
        BY <1>0, <2>4, <2>5 DEF Loaded
    <2>11. \A j \in 1 .. n : Placed(f, list[j], d.alloc, f.alloc)
        BY <1>1, <2>6, <2>7 DEF u
    <2> HIDE DEF n
    <2>12. Loaded(d, f, list, n)
        BY <2>4, <2>8, <2>9, <2>10, <2>11 DEF Loaded
    <2> QED
        BY <2>12 DEF f, n
<1> QED
    BY <1>2, <1>3

(* So all uploads of a list are in place when the last is done.             *)
LEMMA AllLoaded ==
    ASSUME NEW d \in Drivers, NEW list, ListOK(list)
    PROVE  Loaded(d, WithUploads(d, list), list, Len(list))
<1> DEFINE f == After(d, list)
           S == {k \in Nat : k <= Len(list) => Loaded(d, f[k], list, k)}
<1>1. Len(list) \in Nat
    BY DEF ListOK
<1>2. /\ WithUploads(d, list) = f[Len(list)] /\ f[0] = d
      /\ \A k \in 1 .. Len(list) : f[k] = UploadNext(f[k - 1], list, k)
    BY <1>1, Uploading
<1> HIDE DEF f
<1>3. 0 \in S
    <2>1. Loaded(d, d, list, 0)
        BY DEF Loaded, Drivers
    <2> QED
        BY <1>2, <2>1
<1>4. ASSUME NEW k \in S PROVE k + 1 \in S
    <2> SUFFICES ASSUME k + 1 <= Len(list) PROVE Loaded(d, f[k + 1], list, k + 1)
        OBVIOUS
    <2>1. k + 1 \in 1 .. Len(list) /\ (k + 1) - 1 = k /\ Loaded(d, f[k], list, k)
        BY <1>1
    <2>2. f[k + 1] = UploadNext(f[k], list, k + 1)
        BY <1>2, <2>1
    <2> QED
        BY <2>1, <2>2, NextLoaded
<1>5. S = Nat
    <2>1. S \subseteq Nat
        OBVIOUS
    <2> HIDE DEF S
    <2> QED
        BY <1>3, <1>4, <2>1, CountedUp
<1>6. Len(list) \in S
    BY <1>1, <1>5
<1> QED
    BY <1>1, <1>2, <1>6

(* Where the uploads end depends on where they begin alone.                 *)
LEMMA SameEnd ==
    ASSUME NEW d \in Drivers, NEW e \in Drivers, d.alloc = e.alloc, NEW list, ListOK(list)
    PROVE  WithUploads(d, list).alloc = WithUploads(e, list).alloc
<1> DEFINE f == After(d, list)
           g == After(e, list)
           S == {k \in Nat : k <= Len(list) =>
                    f[k] \in Drivers /\ g[k] \in Drivers /\ f[k].alloc = g[k].alloc}
<1>1. Len(list) \in Nat
    BY DEF ListOK
<1>2. /\ WithUploads(d, list) = f[Len(list)] /\ f[0] = d
      /\ \A k \in 1 .. Len(list) : f[k] = UploadNext(f[k - 1], list, k)
    BY <1>1, Uploading
<1>3. /\ WithUploads(e, list) = g[Len(list)] /\ g[0] = e
      /\ \A k \in 1 .. Len(list) : g[k] = UploadNext(g[k - 1], list, k)
    BY <1>1, Uploading
<1> HIDE DEF f, g
<1>4. 0 \in S
    BY <1>2, <1>3
<1>5. ASSUME NEW k \in S PROVE k + 1 \in S
    <2> SUFFICES ASSUME k + 1 <= Len(list)
                 PROVE  /\ f[k + 1] \in Drivers /\ g[k + 1] \in Drivers
                        /\ f[k + 1].alloc = g[k + 1].alloc
        OBVIOUS
    <2> DEFINE u == list[k + 1]
    <2>1. k + 1 \in 1 .. Len(list) /\ (k + 1) - 1 = k
        BY <1>1
    <2>2. f[k + 1] = UploadNext(f[k], list, k + 1) /\ g[k + 1] = UploadNext(g[k], list, k + 1)
        BY <1>2, <1>3, <2>1
    <2>3. f[k] \in Drivers /\ g[k] \in Drivers /\ f[k].alloc = g[k].alloc
        BY <1>1
    <2>4. u.slot \in 0 .. Slots - 1 /\ u.id \in Ids
        BY <2>1 DEF ListOK
    <2> DEFINE f1 == UploadSlot(SetSlot(f[k], u.slot), u.id)
               g1 == UploadSlot(SetSlot(g[k], u.slot), u.id)
    <2>5. /\ f1 \in Drivers /\ f1.alloc = f[k].alloc + LengthOf(u.id)
          /\ g1 \in Drivers /\ g1.alloc = g[k].alloc + LengthOf(u.id)
        <3> HIDE DEF u
        <3> QED
            BY <2>3, <2>4, OneUpload
    <2>6. \/ f[k + 1] = f[k] /\ g[k + 1] = g[k]
          \/ f[k + 1] = f1 /\ g[k + 1] = g1
        BY <2>2 DEF UploadNext
    <2> HIDE DEF f1, g1, u
    <2> QED
        BY <2>3, <2>5, <2>6
<1>6. S = Nat
    <2>1. S \subseteq Nat
        OBVIOUS
    <2> HIDE DEF S
    <2> QED
        BY <1>4, <1>5, <2>1, CountedUp
<1>7. Len(list) \in S
    BY <1>1, <1>6
<1> QED
    BY <1>1, <1>2, <1>3, <1>7

(* The lists of residents and of songs are of that kind.                    *)
LEMMA ListsOK ==
    /\ ListOK(ResidentUploads) /\ Len(ResidentUploads) = Len(Residents)
    /\ Len(Residents) \in Nat
    /\ DOMAIN ResidentUploads = 1 .. Len(Residents)
    /\ \A k \in 1 .. Len(Residents) : ResidentUploads[k].slot = k - 1
                                       /\ ResidentUploads[k].id \in Ids
    /\ \A s \in Songs :
        /\ ListOK(FixedUploads(s)) /\ ListOK(ExtraUploads(s))
        /\ Len(FixedUploads(s)) = Len(s.fixed) /\ Len(ExtraUploads(s)) = Len(s.extra)
        /\ Len(s.fixed) \in Nat /\ Len(s.extra) \in Nat
        /\ DOMAIN FixedUploads(s) = 1 .. Len(s.fixed)
        /\ DOMAIN ExtraUploads(s) = 1 .. Len(s.extra)
        /\ \A k \in 1 .. Len(s.fixed) : FixedUploads(s)[k].slot = FixedSlot + k - 1
                                         /\ FixedUploads(s)[k].id \in Ids
        /\ \A k \in 1 .. Len(s.extra) : ExtraUploads(s)[k].slot = s.extra[k]
                                         /\ ExtraUploads(s)[k].id \in Ids
<1>1. /\ ListOK(ResidentUploads) /\ Len(ResidentUploads) = Len(Residents)
      /\ Len(Residents) \in Nat
      /\ DOMAIN ResidentUploads = 1 .. Len(Residents)
      /\ \A k \in 1 .. Len(Residents) : ResidentUploads[k].slot = k - 1
                                         /\ ResidentUploads[k].id \in Ids
    <2>1. Residents \in Seq(Ids) /\ Len(Residents) \in Nat /\ Len(Residents) < Slots
        BY StreamAssumption, LayoutAssumption
    <2>2. \A k \in 1 .. Len(Residents) : Residents[k] \in Ids
        BY <2>1
    <2>3. /\ Len(ResidentUploads) = Len(Residents)
          /\ DOMAIN ResidentUploads = 1 .. Len(Residents)
          /\ \A k \in 1 .. Len(Residents) :
                ResidentUploads[k] = [slot |-> k - 1, id |-> Residents[k]]
        BY <2>1 DEF ResidentUploads
    <2>4. ListOK(ResidentUploads)
        BY <2>1, <2>2, <2>3, Numbers DEF ListOK
    <2> QED
        BY <2>1, <2>2, <2>3, <2>4
<1>2. ASSUME NEW s \in Songs
      PROVE  /\ ListOK(FixedUploads(s))
             /\ Len(FixedUploads(s)) = Len(s.fixed) /\ Len(s.fixed) \in Nat
             /\ DOMAIN FixedUploads(s) = 1 .. Len(s.fixed)
             /\ \A k \in 1 .. Len(s.fixed) : FixedUploads(s)[k].slot = FixedSlot + k - 1
                                              /\ FixedUploads(s)[k].id \in Ids
    <2>1. s.fixed \in Seq(Ids) /\ Len(s.fixed) \in Nat /\ FixedSlot + Len(s.fixed) <= Slots
        BY StreamAssumption, LayoutAssumption
    <2>2. \A k \in 1 .. Len(s.fixed) : s.fixed[k] \in Ids
        BY <2>1
    <2>3. /\ Len(FixedUploads(s)) = Len(s.fixed)
          /\ DOMAIN FixedUploads(s) = 1 .. Len(s.fixed)
          /\ \A k \in 1 .. Len(s.fixed) :
                FixedUploads(s)[k] = [slot |-> FixedSlot + k - 1, id |-> s.fixed[k]]
        BY <2>1 DEF FixedUploads
    <2> DEFINE L == FixedUploads(s)
               n == Len(s.fixed)
               id(k) == s.fixed[k]
               slot(k) == FixedSlot + k - 1
    <2>4. /\ n \in Nat /\ Len(L) = n /\ DOMAIN L = 1 .. n
          /\ \A k \in 1 .. n : L[k] = [slot |-> slot(k), id |-> id(k)]
          /\ \A k \in 1 .. n : id(k) \in Ids /\ slot(k) \in 0 .. Slots - 1
          /\ \A j, k \in 1 .. n : slot(j) = slot(k) => id(j) = id(k)
        <3>1. n \in Nat /\ Len(L) = n /\ DOMAIN L = 1 .. n
            BY <2>1, <2>3
        <3>2. \A k \in 1 .. n : L[k] = [slot |-> slot(k), id |-> id(k)]
            BY <2>3
        <3>3. \A k \in 1 .. n : id(k) \in Ids
            BY <2>2
        <3>4. \A k \in 1 .. n : slot(k) \in 0 .. Slots - 1
            BY <2>1, Numbers
        <3>5. ASSUME NEW j \in 1 .. n, NEW k \in 1 .. n, slot(j) = slot(k)
              PROVE  id(j) = id(k)
            <4>1. j = k
                BY <2>1, <3>5, Numbers
            <4> QED
                BY <4>1
        <3> QED
            BY <3>1, <3>2, <3>3, <3>4, <3>5
    <2> HIDE DEF L, n, id, slot
    <2>5. \A k \in 1 .. n : L[k].slot = slot(k) /\ L[k].id = id(k)
        BY <2>4
    <2>6. ListOK(L)
        BY <2>4, <2>5 DEF ListOK
    <2> QED
        BY <2>4, <2>5, <2>6 DEF L, n, id, slot
<1>3. ASSUME NEW s \in Songs
      PROVE  /\ ListOK(ExtraUploads(s))
             /\ Len(ExtraUploads(s)) = Len(s.extra) /\ Len(s.extra) \in Nat
             /\ DOMAIN ExtraUploads(s) = 1 .. Len(s.extra)
             /\ \A k \in 1 .. Len(s.extra) : ExtraUploads(s)[k].slot = s.extra[k]
                                              /\ ExtraUploads(s)[k].id \in Ids
    <2>1. s.extra \in Seq(Ids) /\ Len(s.extra) \in Nat
        BY StreamAssumption
    <2>2. \A k \in 1 .. Len(s.extra) : s.extra[k] \in Ids /\ s.extra[k] \in 0 .. Slots - 1
        BY <2>1, LayoutAssumption
    <2>3. /\ Len(ExtraUploads(s)) = Len(s.extra)
          /\ DOMAIN ExtraUploads(s) = 1 .. Len(s.extra)
          /\ \A k \in 1 .. Len(s.extra) :
                ExtraUploads(s)[k] = [slot |-> s.extra[k], id |-> s.extra[k]]
        BY <2>1 DEF ExtraUploads
    <2> DEFINE L == ExtraUploads(s)
               n == Len(s.extra)
               id(k) == s.extra[k]
               slot(k) == s.extra[k]
    <2>4. /\ n \in Nat /\ Len(L) = n /\ DOMAIN L = 1 .. n
          /\ \A k \in 1 .. n : L[k] = [slot |-> slot(k), id |-> id(k)]
          /\ \A k \in 1 .. n : id(k) \in Ids /\ slot(k) \in 0 .. Slots - 1
          /\ \A j, k \in 1 .. n : slot(j) = slot(k) => id(j) = id(k)
        BY <2>1, <2>2, <2>3, Numbers
    <2> HIDE DEF L, n, id, slot
    <2>5. \A k \in 1 .. n : L[k].slot = slot(k) /\ L[k].id = id(k)
        BY <2>4
    <2>6. ListOK(L)
        BY <2>4, <2>5 DEF ListOK
    <2> QED
        BY <2>4, <2>5, <2>6 DEF L, n, id, slot
<1> QED
    BY <1>1, <1>2, <1>3

(* Where samples are to go is all that commands $11 and $13 change.         *)
LEMMA StartDrivers ==
    ASSUME NEW d \in Drivers, NEW a \in Nat
    PROVE  /\ SetSampleEnd(d, a) \in Drivers /\ SetSampleEnd(d, a).alloc = a
           /\ SetSampleEnd(d, a).cursor = d.cursor /\ SetSampleEnd(d, a).ram = d.ram
           /\ SetSampleEnd(d, a).directory = d.directory
           /\ \A s \in Nat :
                /\ SetSlot(d, s) \in Drivers /\ SetSlot(d, s).alloc = d.alloc
                /\ SetSlot(d, s).cursor = d.cursor /\ SetSlot(d, s).ram = d.ram
                /\ SetSlot(d, s).directory = d.directory
                /\ SetSlot(d, s).slot = s % Slots
<1>1. \A s \in Nat : s % Slots \in 0 .. Slots - 1
    BY Numbers
<1> QED
    BY <1>1 DEF Drivers, SetSampleEnd, SetSlot

(* The driver before start-up.                                              *)
LEMMA EmptyDriver == Empty \in Drivers
<1>1. 0 \in 0 .. Slots - 1 /\ TableAddress \in Nat
    BY Numbers
<1>2. [a \in Addresses |-> Nothing] \in [Addresses -> Nat \cup {Nothing}]
    OBVIOUS
<1>3. [s \in 0 .. Slots - 1 |-> [id |-> Nothing, start |-> TableAddress]]
        \in [0 .. Slots - 1 -> [id : Ids \cup {Nothing}, start : Nat]]
    BY <1>1
<1> QED
    BY <1>1, <1>2, <1>3 DEF Empty, Drivers

(* InitializeSoundResourceTable leaves each resident in its slot, below the *)
(* same end whatever the driver held before.                                *)
LEMMA ResidentsLoaded ==
    ASSUME NEW d \in Drivers
    PROVE  LET e == Initialized(d)
           IN  /\ e \in Drivers /\ e.cursor = d.cursor /\ e.alloc = ResidentsEnd
               /\ ResidentsEnd \in Nat /\ ResidentsEnd >= TableAddress
               /\ \A k \in 1 .. Len(Residents) :
                    Placed(e, ResidentUploads[k], TableAddress, ResidentsEnd)
<1> DEFINE Start(c) == SetSlot(SetSampleEnd(c, TableAddress), 0)
           e == Initialized(d)
<1>1. ASSUME NEW c \in Drivers
      PROVE  Start(c) \in Drivers /\ Start(c).alloc = TableAddress /\ Start(c).cursor = c.cursor
    <2>1. SetSampleEnd(c, TableAddress) \in Drivers
          /\ SetSampleEnd(c, TableAddress).alloc = TableAddress
          /\ SetSampleEnd(c, TableAddress).cursor = c.cursor
        BY StartDrivers, Numbers
    <2> QED
        BY <2>1, StartDrivers, Numbers
<1>2. e = WithUploads(Start(d), ResidentUploads)
      /\ ResidentsEnd = WithUploads(Start(Empty), ResidentUploads).alloc
    BY DEF Initialized, ResidentsEnd
<1> HIDE DEF Start, e
<1>3. Loaded(Start(d), e, ResidentUploads, Len(Residents))
    BY <1>1, <1>2, ListsOK, AllLoaded
<1>4. e.alloc = ResidentsEnd
    BY <1>1, <1>2, EmptyDriver, ListsOK, SameEnd
<1>5. /\ e \in Drivers /\ e.alloc >= TableAddress /\ e.cursor = d.cursor
      /\ \A k \in 1 .. Len(Residents) : Placed(e, ResidentUploads[k], TableAddress, e.alloc)
    BY <1>1, <1>3 DEF Loaded
<1>6. ResidentsEnd \in Nat
    BY <1>4, <1>5 DEF Drivers
<1> QED
    BY <1>4, <1>5, <1>6 DEF e

(* The slots of a song's samples.                                           *)
SlotsOf(s) == FixedSlot .. FixedSlot + Len(s.fixed) - 1 \cup {s.extra[k] : k \in 1 .. Len(s.extra)}

(* The samples of a song are in place behind where they begin.              *)
LEMMA SamplesLoaded ==
    ASSUME NEW d \in Drivers, NEW s \in Songs
    PROVE  LET e == WithSamples(d, s)
           IN  /\ e \in Drivers /\ e.cursor = d.cursor /\ e.alloc >= d.alloc
               /\ \A a \in Addresses : a < d.alloc => e.ram[a] = d.ram[a]
               /\ \A t \in 0 .. Slots - 1 : t \notin SlotsOf(s) => e.directory[t] = d.directory[t]
               /\ \A k \in 1 .. Len(s.fixed) : Placed(e, FixedUploads(s)[k], d.alloc, e.alloc)
               /\ \A k \in 1 .. Len(s.extra) : Placed(e, ExtraUploads(s)[k], d.alloc, e.alloc)
<1> DEFINE m == WithUploads(d, FixedUploads(s))
           e == WithUploads(m, ExtraUploads(s))
<1>1. Loaded(d, m, FixedUploads(s), Len(s.fixed))
    BY ListsOK, AllLoaded
<1>2. m \in Drivers
    BY <1>1 DEF Loaded
<1>3. Loaded(m, e, ExtraUploads(s), Len(s.extra))
    <2> HIDE DEF m
    <2> QED
        BY <1>2, ListsOK, AllLoaded
<1>4. WithSamples(d, s) = e
    BY DEF WithSamples
<1> HIDE DEF m, e
<1>5. /\ e \in Drivers /\ e.cursor = d.cursor
      /\ d.alloc \in Nat /\ m.alloc \in Nat /\ e.alloc \in Nat
      /\ m.alloc >= d.alloc /\ e.alloc >= m.alloc /\ e.alloc >= d.alloc
    BY <1>1, <1>3 DEF Loaded, Drivers
<1>6. \A a \in Addresses : a < d.alloc => e.ram[a] = d.ram[a]
    <2>1. \A a \in Addresses : a < d.alloc => a < m.alloc
        BY <1>5, Numbers
    <2> QED
        BY <1>1, <1>3, <2>1 DEF Loaded
<1>7. ASSUME NEW t \in 0 .. Slots - 1, t \notin SlotsOf(s)
      PROVE  e.directory[t] = d.directory[t]
    <2>1. \A j \in 1 .. Len(s.fixed) : FixedUploads(s)[j].slot # t
        BY <1>7, ListsOK, Numbers DEF SlotsOf
    <2>2. \A j \in 1 .. Len(s.extra) : ExtraUploads(s)[j].slot # t
        BY <1>7, ListsOK DEF SlotsOf
    <2> QED
        BY <1>1, <1>3, <2>1, <2>2 DEF Loaded
<1>8. ASSUME NEW k \in 1 .. Len(s.fixed)
      PROVE  Placed(e, FixedUploads(s)[k], d.alloc, e.alloc)
    <2> DEFINE u == FixedUploads(s)[k]
    <2>1. u.slot = FixedSlot + k - 1 /\ u.id \in Ids
        BY ListsOK
    <2>2. u.slot \in 0 .. Slots - 1 /\ u.slot \in FixedSlot .. FixedSlot + Len(s.fixed) - 1
        <3> HIDE DEF u
        <3>1. FixedSlot + Len(s.fixed) <= Slots /\ Len(s.fixed) \in Nat
            BY LayoutAssumption, ListsOK
        <3> QED
            BY <2>1, <3>1, Numbers
    <2>3. Placed(m, u, d.alloc, m.alloc)
        BY <1>1 DEF Loaded
    <2> HIDE DEF u
    <2>4. e.directory[u.slot] = m.directory[u.slot]
        <3>1. \A j \in 1 .. Len(s.extra) : ExtraUploads(s)[j].slot # u.slot
            BY <2>2, ListsOK, LayoutAssumption
        <3> QED
            BY <1>3, <2>2, <3>1 DEF Loaded
    <2>5. \A a \in Addresses : a < m.alloc => e.ram[a] = m.ram[a]
        BY <1>3 DEF Loaded
    <2>6. LengthOf(u.id) \in Nat
        BY <2>1, Numbers
    <2>7. Placed(e, u, d.alloc, e.alloc)
        BY <1>5, <2>3, <2>4, <2>5, <2>6, StaysPlaced
    <2> QED
        BY <2>7 DEF u
<1>9. ASSUME NEW k \in 1 .. Len(s.extra)
      PROVE  Placed(e, ExtraUploads(s)[k], d.alloc, e.alloc)
    <2>1. Placed(e, ExtraUploads(s)[k], m.alloc, e.alloc)
        BY <1>3 DEF Loaded
    <2> DEFINE u == ExtraUploads(s)[k]
    <2> HIDE DEF u
    <2>2. Placed(e, u, m.alloc, e.alloc)
        BY <2>1 DEF u
    <2>3. Placed(e, u, d.alloc, e.alloc)
        BY <1>5, <2>2 DEF Placed
    <2> QED
        BY <2>3 DEF u
<1> QED
    BY <1>4, <1>5, <1>6, <1>7, <1>8, <1>9

(* The samples of a song end where LayoutAssumption says.                   *)
LEMMA SameSongEnd ==
    ASSUME NEW d \in Drivers, NEW s \in Songs,
           d.alloc = IF s.own THEN TableAddress ELSE ResidentsEnd
    PROVE  WithSamples(d, s).alloc = SongEnd(s)
<1> DEFINE start == IF s.own THEN TableAddress ELSE ResidentsEnd
           c == SetSampleEnd(Empty, start)
<1>1. start \in Nat
    BY ResidentsLoaded, EmptyDriver, Numbers
<1>2. c \in Drivers /\ c.alloc = start
    <2> HIDE DEF start
    <2> QED
        BY <1>1, EmptyDriver, StartDrivers
<1>3. SongEnd(s) = WithSamples(c, s).alloc
    BY DEF SongEnd
<1> HIDE DEF c
<1>4. WithUploads(d, FixedUploads(s)).alloc = WithUploads(c, FixedUploads(s)).alloc
    BY <1>2, ListsOK, SameEnd
<1>5. WithUploads(d, FixedUploads(s)) \in Drivers /\ WithUploads(c, FixedUploads(s)) \in Drivers
    BY <1>2, ListsOK, AllLoaded DEF Loaded
<1> QED
    BY <1>3, <1>4, <1>5, ListsOK, SameEnd DEF WithSamples

-----------------------------------------------------------------------------
(* The samples of songs and of the residents stand.                         *)

(* The sample of an upload is whole, below an address.                      *)
WholeIn(d, u, end) ==
    LET entry == d.directory[u.slot]
    IN  /\ entry.id = u.id
        /\ \A k \in 0 .. LengthOf(u.id) - 1 : d.ram[entry.start + k] = DataAt(u.id) + k
        /\ entry.start >= TableAddress /\ entry.start + LengthOf(u.id) <= end

(* What is placed below the end of the memory is whole.                     *)
LEMMA PlacedWhole ==
    ASSUME NEW d, NEW u, u.id \in Ids, NEW from \in Nat, NEW end \in Nat,
           from >= TableAddress, end <= RamEnd, Placed(d, u, from, end)
    PROVE  WholeIn(d, u, end)
<1> DEFINE start == d.directory[u.slot].start
           n == LengthOf(u.id)
<1>1. /\ start \in Nat /\ n \in Nat /\ TableAddress \in Nat /\ RamEnd \in Nat
      /\ start >= from /\ start + n <= end
    BY Numbers DEF Placed
<1>2. \A k \in 0 .. n - 1 : start + k \in Addresses
    <2> HIDE DEF start, n
    <2> QED
        BY <1>1, Numbers
<1>3. \A k \in 0 .. n - 1 : d.ram[start + k] = DataAt(u.id) + k
    BY <1>2 DEF Placed
<1>4. start >= TableAddress
    <2> HIDE DEF start, n
    <2> QED
        BY <1>1
<1> QED
    BY <1>1, <1>3, <1>4 DEF WholeIn, Placed

(* What is whole stays so under what comes behind it to other slots.        *)
LEMMA WholeStays ==
    ASSUME NEW d \in Drivers, NEW e, NEW u, u.id \in Ids, u.slot \in 0 .. Slots - 1,
           NEW end \in Nat, NEW end2 \in Nat, end <= end2, end <= RamEnd,
           WholeIn(d, u, end), e.directory[u.slot] = d.directory[u.slot],
           \A a \in Addresses : a < end => e.ram[a] = d.ram[a]
    PROVE  WholeIn(e, u, end2)
<1> DEFINE start == d.directory[u.slot].start
           n == LengthOf(u.id)
<1>1. /\ start \in Nat /\ n \in Nat /\ TableAddress \in Nat /\ RamEnd \in Nat
      /\ start >= TableAddress /\ start + n <= end
    BY Numbers DEF WholeIn, Drivers
<1>2. \A k \in 0 .. n - 1 : start + k \in Addresses /\ start + k < end
    <2> HIDE DEF start, n
    <2> SUFFICES ASSUME NEW k \in 0 .. n - 1
                 PROVE  start + k \in Addresses /\ start + k < end
        OBVIOUS
    <2>1. start + k < end /\ start + k \in Nat /\ start + k >= TableAddress
        BY <1>1
    <2>2. start + k < RamEnd
        BY <1>1, <2>1
    <2> QED
        BY <1>1, <2>1, <2>2, Numbers
<1>3. \A k \in 0 .. n - 1 : e.ram[start + k] = DataAt(u.id) + k
    BY <1>2 DEF WholeIn
<1>4. start + n <= end2
    <2> HIDE DEF start, n
    <2> QED
        BY <1>1
<1> QED
    BY <1>1, <1>3, <1>4 DEF WholeIn

(* Where the samples of a song begin.                                       *)
SongBegin(s) == IF s.own THEN TableAddress ELSE ResidentsEnd

(* Songs begin at or behind the table address and end inside the memory.    *)
LEMMA SongRoom ==
    /\ ResidentsEnd \in Nat /\ ResidentsEnd >= TableAddress
    /\ \A s \in Songs :
        /\ SongBegin(s) \in Nat /\ SongBegin(s) >= TableAddress
        /\ SongEnd(s) \in Nat /\ SongEnd(s) >= SongBegin(s) /\ SongEnd(s) <= RamEnd
<1>1. ResidentsEnd \in Nat /\ ResidentsEnd >= TableAddress
    BY EmptyDriver, ResidentsLoaded
<1>2. ASSUME NEW s \in Songs
      PROVE  /\ SongBegin(s) \in Nat /\ SongBegin(s) >= TableAddress
             /\ SongEnd(s) \in Nat /\ SongEnd(s) >= SongBegin(s) /\ SongEnd(s) <= RamEnd
    <2> DEFINE c == SetSampleEnd(Empty, SongBegin(s))
               e == WithSamples(c, s)
    <2>1. SongBegin(s) \in Nat /\ SongBegin(s) >= TableAddress
        BY <1>1, Numbers DEF SongBegin
    <2>2. c \in Drivers /\ c.alloc = SongBegin(s)
        BY <2>1, EmptyDriver, StartDrivers
    <2>3. SongEnd(s) = e.alloc
        BY DEF SongEnd, SongBegin
    <2> HIDE DEF c
    <2>4. e \in Drivers /\ e.alloc >= SongBegin(s)
        BY <2>2, SamplesLoaded
    <2> HIDE DEF e
    <2>5. e.alloc \in Nat
        BY <2>4 DEF Drivers
    <2> QED
        BY <2>1, <2>3, <2>4, <2>5, LayoutAssumption
<1> QED
    BY <1>1, <1>2

(* A song's samples stand in a driver that they were loaded into, and the   *)
(* residents stay as they were, if the song goes behind them.               *)
LEMMA SongStands ==
    ASSUME NEW d \in Drivers, NEW s \in Songs, d.alloc = SongBegin(s)
    PROVE  LET e == WithSamples(d, s)
           IN  /\ e \in Drivers /\ e.cursor = d.cursor /\ e.alloc = SongEnd(s)
               /\ \A k \in 1 .. Len(s.fixed) : WholeIn(e, FixedUploads(s)[k], SongEnd(s))
               /\ \A k \in 1 .. Len(s.extra) : WholeIn(e, ExtraUploads(s)[k], SongEnd(s))
               /\ ~ s.own => \A k \in 1 .. Len(Residents) :
                    WholeIn(d, ResidentUploads[k], ResidentsEnd) =>
                    WholeIn(e, ResidentUploads[k], ResidentsEnd)
<1> DEFINE e == WithSamples(d, s)
<1>1. /\ e \in Drivers /\ e.cursor = d.cursor
      /\ \A a \in Addresses : a < d.alloc => e.ram[a] = d.ram[a]
      /\ \A t \in 0 .. Slots - 1 : t \notin SlotsOf(s) => e.directory[t] = d.directory[t]
      /\ \A k \in 1 .. Len(s.fixed) : Placed(e, FixedUploads(s)[k], d.alloc, e.alloc)
      /\ \A k \in 1 .. Len(s.extra) : Placed(e, ExtraUploads(s)[k], d.alloc, e.alloc)
    BY SamplesLoaded
<1>2. e.alloc = SongEnd(s)
    BY SameSongEnd DEF SongBegin
<1>3. /\ SongBegin(s) \in Nat /\ SongBegin(s) >= TableAddress
      /\ SongEnd(s) \in Nat /\ SongEnd(s) <= RamEnd
    BY SongRoom
<1> HIDE DEF e
<1>4. \A k \in 1 .. Len(s.fixed) : WholeIn(e, FixedUploads(s)[k], SongEnd(s))
    <2> SUFFICES ASSUME NEW k \in 1 .. Len(s.fixed)
                 PROVE  WholeIn(e, FixedUploads(s)[k], SongEnd(s))
        OBVIOUS
    <2> DEFINE u == FixedUploads(s)[k]
    <2>1. u.id \in Ids /\ Placed(e, u, SongBegin(s), SongEnd(s))
        BY <1>1, <1>2, ListsOK
    <2> HIDE DEF u
    <2>2. WholeIn(e, u, SongEnd(s))
        BY <1>3, <2>1, PlacedWhole
    <2> QED
        BY <2>2 DEF u
<1>5. \A k \in 1 .. Len(s.extra) : WholeIn(e, ExtraUploads(s)[k], SongEnd(s))
    <2> SUFFICES ASSUME NEW k \in 1 .. Len(s.extra)
                 PROVE  WholeIn(e, ExtraUploads(s)[k], SongEnd(s))
        OBVIOUS
    <2> DEFINE u == ExtraUploads(s)[k]
    <2>1. u.id \in Ids /\ Placed(e, u, SongBegin(s), SongEnd(s))
        BY <1>1, <1>2, ListsOK
    <2> HIDE DEF u
    <2>2. WholeIn(e, u, SongEnd(s))
        BY <1>3, <2>1, PlacedWhole
    <2> QED
        BY <2>2 DEF u
<1>6. ASSUME ~ s.own, NEW k \in 1 .. Len(Residents),
             WholeIn(d, ResidentUploads[k], ResidentsEnd)
      PROVE  WholeIn(e, ResidentUploads[k], ResidentsEnd)
    <2> DEFINE u == ResidentUploads[k]
    <2>1. u.id \in Ids /\ u.slot = k - 1 /\ Len(Residents) \in Nat
        BY ListsOK
    <2>2. u.slot \in 0 .. Slots - 1 /\ u.slot \notin SlotsOf(s)
        <3>1. /\ Len(Residents) <= FixedSlot /\ FixedSlot < Slots
              /\ \A j \in 1 .. Len(s.extra) : s.extra[j] >= Len(Residents)
              /\ \A j \in 1 .. Len(s.extra) : s.extra[j] \in Int
            BY <1>6, LayoutAssumption
        <3>2. k - 1 \in 0 .. Slots - 1 /\ k - 1 < Len(Residents)
            BY <2>1, <3>1, Numbers
        <3>3. k - 1 \notin SlotsOf(s)
            <4>1. k - 1 \notin FixedSlot .. FixedSlot + Len(s.fixed) - 1
                BY <3>1, <3>2, Numbers
            <4>2. \A j \in 1 .. Len(s.extra) : k - 1 # s.extra[j]
                BY <2>1, <3>1, <3>2
            <4> QED
                BY <4>1, <4>2 DEF SlotsOf
        <3> QED
            BY <2>1, <3>2, <3>3
    <2>3. WholeIn(d, u, ResidentsEnd)
        BY <1>6
    <2> HIDE DEF u
    <2>4. /\ SongBegin(s) = ResidentsEnd /\ ResidentsEnd \in Nat /\ ResidentsEnd <= RamEnd
        <3>1. SongEnd(s) >= SongBegin(s)
            BY SongRoom
        <3> QED
            BY <1>3, <1>6, <3>1, Numbers DEF SongBegin
    <2>5. e.directory[u.slot] = d.directory[u.slot]
        BY <1>1, <2>2
    <2>6. WholeIn(e, u, ResidentsEnd)
        BY <1>1, <2>1, <2>2, <2>3, <2>4, <2>5, WholeStays
    <2> QED
        BY <2>6 DEF u
<1> QED
    BY <1>1, <1>2, <1>4, <1>5, <1>6 DEF e

(* Residents brought back are whole.                                        *)
LEMMA ResidentsStand ==
    ASSUME NEW d \in Drivers, NEW s \in Songs, ~ s.own
    PROVE  \A k \in 1 .. Len(Residents) : WholeIn(Initialized(d), ResidentUploads[k], ResidentsEnd)
<1> SUFFICES ASSUME NEW k \in 1 .. Len(Residents)
             PROVE  WholeIn(Initialized(d), ResidentUploads[k], ResidentsEnd)
    OBVIOUS
<1> DEFINE u == ResidentUploads[k]
           e == Initialized(d)
<1>1. u.id \in Ids /\ Placed(e, u, TableAddress, ResidentsEnd)
    BY ListsOK, ResidentsLoaded
<1>2. ResidentsEnd \in Nat /\ ResidentsEnd <= RamEnd
    BY SongRoom, Numbers DEF SongBegin
<1> HIDE DEF u, e
<1>3. WholeIn(e, u, ResidentsEnd)
    BY <1>1, <1>2, Numbers, PlacedWhole
<1> QED
    BY <1>3 DEF u, e

(* What the invariant says of the samples, in the state and in the next.    *)
Standing(d, m, hr, hs, s, b, r) ==
    /\ ~ m /\ ~ hr => \A k \in 1 .. Len(Residents) : WholeIn(d, ResidentUploads[k], b)
    /\ ~ hs => /\ \A k \in 1 .. Len(s.fixed) : WholeIn(d, FixedUploads(s)[k], r)
               /\ \A k \in 1 .. Len(s.extra) : WholeIn(d, ExtraUploads(s)[k], r)

(* Standing is the invariant's statement, of the state and of the next one. *)
LEMMA StandingMeans ==
    ASSUME song \in Songs
    PROVE  SamplesStand <=> Standing(spc, mode, hit.residents, hit.song, song, base, reply)
BY ListsOK DEF SamplesStand, Standing, Stands, Holds, WholeIn

(* The same of the next state.                                              *)
LEMMA StandingMeansNext ==
    ASSUME song' \in Songs
    PROVE  SamplesStand' <=> Standing(spc', mode', hit'.residents, hit'.song, song', base', reply')
BY ListsOK DEF SamplesStand, Standing, Stands, Holds, WholeIn

(* Start-up and the first song load their samples.                          *)
LEMMA InitMemory ==
    ASSUME Init
    PROVE  MemoryInv /\ spc \in Drivers /\ base \in Nat /\ reply \in Nat /\ song \in Songs
<1>1. PICK s \in Songs : ~ s.own /\ song = s /\ spc = WithSamples(Initialized(Empty), s)
    BY DEF Init
<1> DEFINE d == Initialized(Empty)
<1>2. d \in Drivers /\ d.alloc = ResidentsEnd /\ SongBegin(s) = ResidentsEnd
    BY <1>1, EmptyDriver, ResidentsLoaded DEF SongBegin
<1>3. \A k \in 1 .. Len(Residents) : WholeIn(d, ResidentUploads[k], ResidentsEnd)
    BY <1>1, EmptyDriver, ResidentsStand
<1>4. base = ResidentsEnd
    BY DEF Init, ResidentsEnd
<1>5. spc = WithSamples(d, s)
    BY <1>1
<1> HIDE DEF d
<1>6. /\ spc \in Drivers /\ spc.alloc = SongEnd(s)
      /\ \A k \in 1 .. Len(s.fixed) : WholeIn(spc, FixedUploads(s)[k], SongEnd(s))
      /\ \A k \in 1 .. Len(s.extra) : WholeIn(spc, ExtraUploads(s)[k], SongEnd(s))
      /\ \A k \in 1 .. Len(Residents) : WholeIn(spc, ResidentUploads[k], ResidentsEnd)
    BY <1>1, <1>2, <1>3, <1>5, SongStands
<1>7. reply = SongEnd(s) /\ mode = FALSE /\ transfer = "idle" /\ stream.id = Nothing /\ Queued = {}
    BY <1>6 DEF Init, NoStream, Queued
<1>8. SamplesStand
    BY <1>1, <1>4, <1>6, <1>7, StandingMeans DEF Standing
<1>9. BehindTheSong /\ SentSoFar /\ StreamBehind
    BY <1>1, <1>4, <1>7, StreamAssumption DEF BehindTheSong, SentSoFar, StreamBehind, Streaming
<1> QED
    BY <1>1, <1>4, <1>6, <1>7, <1>8, <1>9, SongRoom DEF MemoryInv

(* A song loaded later loads its own, and the residents if it needs them.   *)
LEMMA LoadMemory ==
    ASSUME TypeOK, MemoryInv, NEW s \in Songs, LoadSong(s)
    PROVE  MemoryInv' /\ spc' \in Drivers /\ base' \in Nat /\ reply' \in Nat
<1> DEFINE d0 == IF ~ s.own /\ mode THEN Initialized(spc) ELSE spc
           d == SetSampleEnd(d0, SongBegin(s))
<1>1. /\ base = ResidentsEnd /\ mode = song.own /\ spc \in Drivers /\ song \in Songs
    BY DEF MemoryInv, BehindTheSong, TypeOK
<1>2. /\ Initialized(spc) \in Drivers /\ Initialized(spc).alloc = ResidentsEnd
      /\ Initialized(spc).cursor = spc.cursor
    BY <1>1, ResidentsLoaded
<1>3. d0 \in Drivers /\ d0.cursor = spc.cursor
    BY <1>1, <1>2
<1>4. /\ d \in Drivers /\ d.alloc = SongBegin(s) /\ d.cursor = spc.cursor
      /\ d.ram = d0.ram /\ d.directory = d0.directory
    <2> HIDE DEF d0
    <2> QED
        BY <1>3, SongRoom, StartDrivers
<1>5. spc' = WithSamples(d, s)
    BY <1>1 DEF LoadSong, SongStart, SongBegin
<1>6. /\ base' = ResidentsEnd /\ mode' = s.own /\ song' = s /\ reply' = spc'.alloc
      /\ stream' = NoStream /\ UNCHANGED <<queue, transfer, source>>
      /\ asked' = [asked EXCEPT !.late = Queued # {}]
      /\ hit' = [song |-> Streaming,
                 residents |-> IF ~ s.own /\ mode THEN Streaming ELSE hit.residents]
    BY <1>1, <1>2 DEF LoadSong
<1>7. ASSUME ~ s.own, ~ hit'.residents, NEW k \in 1 .. Len(Residents)
      PROVE  WholeIn(d, ResidentUploads[k], ResidentsEnd)
    <2>1. CASE mode
        <3>1. WholeIn(Initialized(spc), ResidentUploads[k], ResidentsEnd)
            BY <1>1, <1>7, ResidentsStand
        <3> QED
            BY <1>4, <1>7, <2>1, <3>1 DEF WholeIn
    <2>2. CASE ~ mode
        <3>1. ~ hit.residents
            BY <1>6, <1>7, <2>2
        <3>2. WholeIn(spc, ResidentUploads[k], ResidentsEnd)
            BY <1>1, <2>2, <3>1, StandingMeans DEF MemoryInv, Standing
        <3> QED
            BY <1>4, <2>2, <3>2 DEF WholeIn
    <2> QED
        BY <2>1, <2>2
<1> HIDE DEF d0, d
<1>8. /\ spc' \in Drivers /\ spc'.cursor = spc.cursor /\ spc'.alloc = SongEnd(s)
      /\ \A k \in 1 .. Len(s.fixed) : WholeIn(spc', FixedUploads(s)[k], SongEnd(s))
      /\ \A k \in 1 .. Len(s.extra) : WholeIn(spc', ExtraUploads(s)[k], SongEnd(s))
      /\ ~ s.own => \A k \in 1 .. Len(Residents) :
            WholeIn(d, ResidentUploads[k], ResidentsEnd) =>
            WholeIn(spc', ResidentUploads[k], ResidentsEnd)
    BY <1>4, <1>5, SongStands
<1>9. SamplesStand'
    BY <1>6, <1>7, <1>8, StandingMeansNext DEF Standing
<1>10. BehindTheSong'
    BY <1>6, <1>8 DEF BehindTheSong, MemoryInv, TypeOK, Queued, Asked, NoStream
<1>11. SentSoFar'
    BY <1>6 DEF SentSoFar, NoStream
<1>12. StreamBehind'
    BY <1>1, <1>6, <1>8 DEF StreamBehind, MemoryInv, Streaming
<1> QED
    BY <1>6, <1>8, <1>9, <1>10, <1>11, <1>12, SongRoom DEF MemoryInv

-----------------------------------------------------------------------------
(* What one chunk leaves in the sample memory.                              *)

(* The bytes sent of a chunk: all of it, or all that is left.               *)
LEMMA ChunkBytes ==
    ASSUME NEW n \in Nat
    PROVE  LET m == IF n >= Chunk THEN Chunk ELSE n
           IN  /\ Sent(m) \in Nat /\ Sent(m) <= n + 2
               /\ n >= Chunk => Sent(m) = Chunk
               /\ n < Chunk => Sent(m) >= n
<1>1. Chunk \in Nat \ {0} /\ Chunk % 2 = 0
    BY StreamAssumption
<1>2. 2 * ((Chunk + 1) \div 2) = Chunk
    BY <1>1
<1>3. Sent(Chunk) = Chunk
    BY <1>1, <1>2 DEF Sent
<1> QED
    BY <1>1, <1>3, SentCovers

(* Bytes received behind the cursor change nothing else.                    *)
LEMMA ChunkStored ==
    ASSUME NEW b, SendChunk(b), b.driver \in Drivers,
           b.source \in [bank : Nat, pos : 0 .. BankSize - 1, length : Int],
           b.source.length >= 0
    PROVE  LET n == Sent(ChunkLength(b.source))
           IN  /\ n \in Nat /\ n <= b.source.length + 2
               /\ b.source.length >= Chunk => n = Chunk
               /\ b.source.length < Chunk => n >= b.source.length
               /\ spc' \in Drivers
               /\ spc'.directory = b.driver.directory /\ spc'.alloc = b.driver.alloc
               /\ spc'.slot = b.driver.slot
               /\ spc'.cursor = IF n = Chunk THEN b.driver.cursor + Chunk ELSE b.driver.cursor
               /\ \A a \in Addresses :
                    spc'.ram[a] = IF a \in b.driver.cursor .. b.driver.cursor + n - 1
                                  THEN Place(b.source) + (a - b.driver.cursor)
                                  ELSE b.driver.ram[a]
               /\ Place(b.source) \in Nat
<1> DEFINE d == b.driver
           n == Sent(ChunkLength(b.source))
           P == Place(b.source)
           new == Received(d.ram, d.cursor, P, n)
<1>1. n \in Nat /\ n <= b.source.length + 2
      /\ (b.source.length >= Chunk => n = Chunk)
      /\ (b.source.length < Chunk => n >= b.source.length)
    <2>1. b.source.length \in Nat
        OBVIOUS
    <2> QED
        BY <2>1, ChunkBytes DEF ChunkLength
<1>2. P \in Nat
    <2>1. b.source.bank \in Nat /\ b.source.pos \in Nat /\ BankSize \in Nat
        BY StreamAssumption
    <2> QED
        BY <2>1 DEF Place
<1>3. d \in Drivers /\ d.cursor \in Nat /\ Chunk \in Nat
    BY StreamAssumption DEF Drivers
<1>4. spc' = [d EXCEPT !.ram = new, !.cursor = IF n = Chunk THEN d.cursor + Chunk ELSE d.cursor]
    BY DEF SendChunk
<1>5. /\ DOMAIN new = Addresses
      /\ \A a \in Addresses : new[a] = IF a \in d.cursor .. d.cursor + n - 1
                                       THEN P + (a - d.cursor) ELSE d.ram[a]
    BY <1>3 DEF Received, Drivers
<1> HIDE DEF n, P, d
<1>6. new \in [Addresses -> Nat \cup {Nothing}]
    <2>1. ASSUME NEW a \in Addresses PROVE new[a] \in Nat \cup {Nothing}
        <3>1. a \in Int
            BY Numbers
        <3>2. d.ram[a] \in Nat \cup {Nothing}
            BY <1>3 DEF Drivers
        <3> QED
            BY <1>1, <1>2, <1>3, <1>5, <3>1, <3>2
    <2>2. new = [a \in Addresses |-> new[a]]
        BY <1>5 DEF Received
    <2> HIDE DEF new
    <2> QED
        BY <2>1, <2>2
<1> HIDE DEF new
<1>7. /\ spc' \in Drivers
      /\ spc'.directory = d.directory /\ spc'.alloc = d.alloc
      /\ spc'.slot = d.slot /\ spc'.ram = new
      /\ spc'.cursor = IF n = Chunk THEN d.cursor + Chunk ELSE d.cursor
    <2> DEFINE c == IF n = Chunk THEN d.cursor + Chunk ELSE d.cursor
    <2>1. c \in Nat
        BY <1>3
    <2> HIDE DEF c
    <2>2. spc' = [d EXCEPT !.ram = new, !.cursor = c]
        BY <1>4 DEF c
    <2>3. /\ spc' \in Drivers
          /\ spc'.directory = d.directory /\ spc'.alloc = d.alloc
          /\ spc'.slot = d.slot /\ spc'.ram = new /\ spc'.cursor = c
        BY <1>3, <1>6, <2>1, <2>2 DEF Drivers
    <2> QED
        BY <2>3 DEF c
<1> QED
    BY <1>1, <1>2, <1>5, <1>7 DEF d, n, P

(* A stream as far as it has come: what is sent lies before the cursor.     *)
Underway(d, src, st) ==
    LET sent == LengthOf(st.id) - src.length
    IN  /\ sent >= 0 /\ d.cursor = st.start + sent
        /\ ~ st.cut => \A k \in 0 .. sent - 1 : d.ram[st.start + k] = DataAt(st.id) + k

(* A chunk moves the cursor behind what it sent, in step with the source.   *)
LEMMA ChunkProgress ==
    ASSUME NEW b, SendChunk(b), b.driver \in Drivers,
           b.source \in [bank : Nat, pos : 0 .. BankSize - 1, length : Int],
           b.source.length >= 0,
           DOMAIN b.stream = {"id", "start", "slot", "asked", "cut"},
           b.stream.id \in Ids, b.stream.start \in Nat, b.stream.cut \in BOOLEAN,
           b.stream.start >= TableAddress,
           b.stream.start + LengthOf(b.stream.id) <= RamEnd,
           ~ b.stream.cut => Place(b.source) =
                DataAt(b.stream.id) + LengthOf(b.stream.id) - b.source.length,
           Underway(b.driver, b.source, b.stream)
    PROVE  /\ stream'.id = b.stream.id /\ stream'.start = b.stream.start
           /\ transfer' = "streaming" => Underway(spc', source', stream')
           /\ transfer' # "streaming" /\ ~ stream'.cut =>
                \A k \in 0 .. LengthOf(stream'.id) - 1 :
                    spc'.ram[stream'.start + k] = DataAt(stream'.id) + k
           /\ \A a \in Addresses : spc'.ram[a] # b.driver.ram[a] =>
                a \in stream'.start .. stream'.start + LengthOf(stream'.id) + 1
<1> DEFINE i == b.stream.id
           start == b.stream.start
           L == LengthOf(i)
           rest == b.source.length
           sent == L - rest
           cursor == b.driver.cursor
           n == Sent(ChunkLength(b.source))
           P == Place(b.source)
           cut2 == b.stream.cut \/ EndsInBankEnd(b.source, n)
<1>1. /\ L \in Nat /\ DataAt(i) \in Nat /\ rest \in Nat /\ start \in Nat /\ Chunk \in Nat \ {0}
      /\ TableAddress \in Nat /\ RamEnd \in Nat
    BY Numbers, StreamAssumption
<1>2. /\ sent >= 0 /\ cursor = start + sent
      /\ ~ b.stream.cut => \A k \in 0 .. sent - 1 : b.driver.ram[start + k] = DataAt(i) + k
    BY DEF Underway
<1>3. /\ n \in Nat /\ n <= rest + 2
      /\ rest >= Chunk => n = Chunk
      /\ rest < Chunk => n >= rest
      /\ spc'.cursor = IF n = Chunk THEN cursor + Chunk ELSE cursor
      /\ \A a \in Addresses :
            spc'.ram[a] = IF a \in cursor .. cursor + n - 1
                          THEN P + (a - cursor) ELSE b.driver.ram[a]
      /\ P \in Nat
    BY ChunkStored
<1>4. /\ stream' = [b.stream EXCEPT !.cut = cut2]
      /\ transfer' = IF rest >= Chunk THEN "streaming" ELSE "last"
      /\ source'.length = rest - Chunk
    BY DEF SendChunk, ReadAhead
<1>5. stream'.id = i /\ stream'.start = start /\ stream'.cut = cut2
    BY <1>4
<1>6. ~ stream'.cut => ~ b.stream.cut /\ P = DataAt(i) + sent
    <2>1. ~ stream'.cut => ~ b.stream.cut
        BY <1>5
    <2>2. ~ b.stream.cut => P = DataAt(i) + L - rest
        OBVIOUS
    <2> HIDE DEF i, L, rest, P
    <2> QED
        BY <1>1, <2>1, <2>2
<1>7. ASSUME ~ stream'.cut, NEW k \in 0 .. L - 1, k < sent + n
      PROVE  spc'.ram[start + k] = DataAt(i) + k
    <2>1. start + k \in Addresses
        <3>1. start + L <= RamEnd /\ start >= TableAddress
            OBVIOUS
        <3> HIDE DEF start, L
        <3> QED
            BY <1>1, <3>1, Numbers
    <2>2. ~ b.stream.cut /\ P = DataAt(i) + sent
        BY <1>6, <1>7
    <2>3. CASE k < sent
        <3>1. b.driver.ram[start + k] = DataAt(i) + k
            <4>1. k \in 0 .. sent - 1
                <5> HIDE DEF L, rest
                <5> QED
                    BY <1>1, <2>3
            <4> QED
                BY <1>2, <2>2, <4>1
        <3>2. start + k \notin cursor .. cursor + n - 1
            <4> HIDE DEF start, L, rest, cursor, n
            <4> QED
                BY <1>1, <1>2, <1>3, <2>3
        <3> QED
            BY <1>3, <2>1, <3>1, <3>2
    <2>4. CASE k >= sent
        <3>1. start + k \in cursor .. cursor + n - 1 /\ (start + k) - cursor = k - sent
            <4> HIDE DEF start, L, rest, cursor, n
            <4> QED
                BY <1>1, <1>2, <1>3, <1>7, <2>4
        <3>2. spc'.ram[start + k] = P + (k - sent)
            BY <1>3, <2>1, <3>1
        <3>3. P + (k - sent) = DataAt(i) + k
            <4> HIDE DEF L, rest, P, i
            <4> QED
                BY <1>1, <2>2
        <3> QED
            BY <3>2, <3>3
    <2>5. k \in Int /\ sent \in Int
        <3> HIDE DEF L, rest
        <3> QED
            BY <1>1
    <2> QED
        <3> HIDE DEF sent
        <3> QED
            BY <2>3, <2>4, <2>5
<1>8. ASSUME transfer' = "streaming"
      PROVE  Underway(spc', source', stream')
    <2>1. rest >= Chunk /\ n = Chunk /\ spc'.cursor = cursor + Chunk
        BY <1>3, <1>4, <1>8
    <2>2. /\ L - (rest - Chunk) = sent + Chunk /\ sent + Chunk >= 0
          /\ cursor + Chunk = start + (sent + Chunk) /\ sent + Chunk <= L
        <3> HIDE DEF L, rest, cursor, start
        <3> QED
            BY <1>1, <1>2, <2>1
    <2>3. ~ stream'.cut => \A k \in 0 .. (sent + Chunk) - 1 :
                                spc'.ram[start + k] = DataAt(i) + k
        <3> SUFFICES ASSUME ~ stream'.cut, NEW k \in 0 .. (sent + Chunk) - 1
                     PROVE  spc'.ram[start + k] = DataAt(i) + k
            OBVIOUS
        <3>1. k \in 0 .. L - 1 /\ k < sent + n
            <4> HIDE DEF L, rest, n
            <4> QED
                BY <1>1, <2>1, <2>2
        <3> QED
            BY <1>7, <3>1
    <2> HIDE DEF L, rest, sent, cursor, n
    <2>4. LengthOf(stream'.id) - source'.length = sent + Chunk
        BY <1>4, <1>5, <2>2 DEF L
    <2> HIDE DEF i, start
    <2> QED
        BY <1>5, <2>1, <2>2, <2>3, <2>4 DEF Underway
<1>9. ASSUME transfer' # "streaming", ~ stream'.cut, NEW k \in 0 .. L - 1
      PROVE  spc'.ram[start + k] = DataAt(i) + k
    <2>1. rest < Chunk /\ n >= rest
        BY <1>1, <1>3, <1>4, <1>9
    <2>2. k < sent + n
        <3> HIDE DEF L, rest, n
        <3> QED
            BY <1>1, <1>3, <2>1
    <2> QED
        BY <1>7, <1>9, <2>2
<1>10. ASSUME NEW a \in Addresses, spc'.ram[a] # b.driver.ram[a]
       PROVE  a \in start .. start + L + 1
    <2>1. a \in cursor .. cursor + n - 1
        BY <1>3, <1>10
    <2> HIDE DEF cursor, start, L, rest, n
    <2> QED
        BY <1>1, <1>2, <1>3, <2>1
<1> QED
    BY <1>5, <1>8, <1>9, <1>10

-----------------------------------------------------------------------------
(* The queue, and where a stream goes on after a frame.                     *)

(* Places taken apart into banks and positions.                             *)
LEMMA DivMod ==
    ASSUME NEW p \in Nat, NEW b \in Nat \ {0}
    PROVE  /\ p \div b \in Nat /\ p % b \in 0 .. b - 1
           /\ p = (p \div b) * b + (p % b)
BY SMTT(30)

(* A place beyond is in the same bank if the position has room for it, and  *)
(* in the next one if it has not.                                           *)
LEMMA NextBank ==
    ASSUME NEW p \in Nat, NEW b \in Nat \ {0, 1}
    PROVE  /\ p % b < b - 2 => (p + 2) \div b = p \div b
           /\ p % b >= b - 2 => (p + 2) \div b = p \div b + 1
<1> DEFINE q == p \div b
           r == p % b
           q2 == (p + 2) \div b
           r2 == (p + 2) % b
<1>1. q \in Nat /\ r \in 0 .. b - 1 /\ p = q * b + r
    BY DivMod
<1>2. q2 \in Nat /\ r2 \in 0 .. b - 1 /\ p + 2 = q2 * b + r2
    <2>1. p + 2 \in Nat /\ b \in Nat \ {0}
        OBVIOUS
    <2> QED
        BY <2>1, DivMod
<1> HIDE DEF q, r, q2, r2
<1>3. (q2 - q) * b = r + 2 - r2
    BY <1>1, <1>2
<1>4. q2 - q \in Int /\ b \in Nat /\ b >= 2
    BY <1>1, <1>2
<1>5. q2 - q >= 0
    <2>1. r + 2 - r2 > - b
        BY <1>1, <1>2
    <2>2. q2 - q <= -1 => (q2 - q) * b <= - b
        BY <1>4
    <2> QED
        BY <1>3, <1>4, <2>1, <2>2
<1>6. q2 - q >= 2 => (q2 - q) * b >= 2 * b
    BY <1>4
<1>7. q2 - q < 2
    BY <1>1, <1>2, <1>3, <1>4, <1>6
<1>8. q2 - q = 0 \/ q2 - q = 1
    BY <1>4, <1>5, <1>7
<1>9. CASE q2 - q = 0
    BY <1>1, <1>2, <1>3, <1>9 DEF q, r, q2
<1>10. CASE q2 - q = 1
    <2>1. r + 2 - r2 = b
        BY <1>3, <1>4, <1>10
    <2> QED
        BY <1>1, <1>2, <2>1, <1>10 DEF q, r, q2
<1> QED
    BY <1>8, <1>9, <1>10

(* Bytes are sent in pairs; a whole chunk is sent as it is.                 *)
LEMMA SentPairs ==
    /\ Sent(Chunk) = Chunk
    /\ \A n \in Nat : Sent(n) \in Nat
<1>1. Chunk \in Nat \ {0} /\ Chunk % 2 = 0
    BY StreamAssumption
<1>2. 2 * ((Chunk + 1) \div 2) = Chunk
    BY <1>1
<1>3. ASSUME NEW n \in Nat PROVE Sent(n) \in Nat
    <2>1. (n + 1) \div 2 \in Nat
        OBVIOUS
    <2> QED
        BY <2>1 DEF Sent
<1> QED
    BY <1>1, <1>2, <1>3 DEF Sent

(* What a chunk leaves of a source and of the stream that it belongs to.    *)
SourceOK(src, st) ==
    /\ src \in [bank : Nat, pos : 0 .. BankSize - 1, length : Int]
    /\ DOMAIN st = {"id", "start", "slot", "asked", "cut"}
    /\ st.id \in Ids \cup {Nothing}
    /\ st.cut \in BOOLEAN

(* The source of a stream is in step with it, or ahead from a cut on.       *)
InStep(src, st) ==
    st.id # Nothing =>
        LET next == DataAt(st.id) + LengthOf(st.id) - src.length
        IN  IF st.cut THEN Place(src) >= next + BankSize ELSE Place(src) = next

(* A chunk leaves the source in step, or a bank ahead from a cut on.        *)
LEMMA SendChunkInStep ==
    ASSUME NEW b, SendChunk(b), SourceOK(b.source, b.stream),
           b.source.length >= 0, InStep(b.source, b.stream)
    PROVE  /\ SourceOK(source', stream')
           /\ transfer' \in States
           /\ transfer' = "streaming" => source'.length >= 0 /\ InStep(source', stream')
           /\ stream'.id = b.stream.id
           /\ stream'.slot = b.stream.slot /\ stream'.asked = b.stream.asked
<1> DEFINE src == b.source
           length == src.length
           n == Sent(ChunkLength(src))
           P == Place(src)
           E == P + n
<1>1. /\ length \in Nat /\ src.bank \in Nat /\ src.pos \in 0 .. BankSize - 1
      /\ BankSize \in Nat \ {0, 1} /\ Chunk \in Nat \ {0}
    BY StreamAssumption DEF SourceOK
<1>2. P \in Nat
    BY <1>1 DEF Place
<1>3. n \in Nat
    <2>1. ChunkLength(src) \in Nat
        BY <1>1 DEF ChunkLength
    <2> QED
        BY <2>1, SentPairs
<1>4. E \in Nat /\ E + 2 = P + n + 2
    BY <1>2, <1>3
<1>5. /\ source' = [bank |-> (E + 2) \div BankSize, pos |-> E % BankSize,
                    length |-> length - Chunk]
      /\ stream' = [b.stream EXCEPT !.cut = @ \/ EndsInBankEnd(src, n)]
      /\ transfer' = IF length >= Chunk THEN "streaming" ELSE "last"
    BY <1>4 DEF SendChunk, ReadAhead
<1>6. /\ stream'.id = b.stream.id /\ stream'.slot = b.stream.slot
      /\ stream'.asked = b.stream.asked
      /\ stream'.cut = (b.stream.cut \/ EndsInBankEnd(src, n))
      /\ DOMAIN stream' = DOMAIN b.stream
    BY <1>5 DEF SourceOK
<1>7. EndsInBankEnd(src, n) <=> length >= Chunk /\ E % BankSize >= BankSize - 2
    BY DEF EndsInBankEnd
<1>8. /\ E \div BankSize \in Nat /\ E % BankSize \in 0 .. BankSize - 1
      /\ E = (E \div BankSize) * BankSize + (E % BankSize)
      /\ (E + 2) \div BankSize \in Nat
    <2> HIDE DEF E
    <2>1. E \in Nat /\ E + 2 \in Nat /\ BankSize \in Nat \ {0}
        BY <1>1, <1>4
    <2> QED
        BY <2>1, DivMod
<1>9. SourceOK(source', stream')
    <2>1. stream'.cut \in BOOLEAN
        BY <1>6, <1>7 DEF SourceOK
    <2>2. source' \in [bank : Nat, pos : 0 .. BankSize - 1, length : Int]
        BY <1>1, <1>5, <1>8
    <2> QED
        BY <1>6, <2>1, <2>2 DEF SourceOK
<1>10. ASSUME length >= Chunk, b.stream.id # Nothing
       PROVE  InStep(source', stream')
    <2> DEFINE next == DataAt(b.stream.id) + LengthOf(b.stream.id) - length
    <2>1. n = Chunk
        BY <1>10, SentPairs DEF ChunkLength
    <2>2. next \in Int
        <3>1. b.stream.id \in Ids
            BY <1>10 DEF SourceOK
        <3> QED
            BY <1>1, <3>1, Numbers
    <2>3. source'.length = length - Chunk
        BY <1>5
    <2>4. Place(source') = ((E + 2) \div BankSize) * BankSize + (E % BankSize)
        BY <1>5 DEF Place
    <2>5. E % BankSize >= BankSize - 2 => Place(source') = E + BankSize
        <3> HIDE DEF E
        <3>1. E % BankSize >= BankSize - 2 => (E + 2) \div BankSize = E \div BankSize + 1
            BY <1>1, <1>4, NextBank
        <3>2. ((E \div BankSize) + 1) * BankSize = (E \div BankSize) * BankSize + BankSize
            BY <1>1, <1>8
        <3> QED
            BY <1>1, <1>8, <2>4, <3>1, <3>2
    <2>6. E % BankSize < BankSize - 2 => Place(source') = E
        <3> HIDE DEF E
        <3>1. E % BankSize < BankSize - 2 => (E + 2) \div BankSize = E \div BankSize
            BY <1>1, <1>4, NextBank
        <3> QED
            BY <1>8, <2>4, <3>1
    <2>7. /\ b.stream.cut => P >= next + BankSize
          /\ ~ b.stream.cut => P = next
        BY <1>10 DEF InStep
    <2>8. DataAt(b.stream.id) + LengthOf(b.stream.id) - source'.length = next + Chunk
        <3>1. b.stream.id \in Ids
            BY <1>10 DEF SourceOK
        <3> QED
            BY <1>1, <2>3, <3>1, Numbers
    <2>9. E = P + Chunk
        BY <2>1
    <2>10. Place(source') \in Int /\ BankSize \in Nat /\ Chunk \in Nat
        <3>1. source' \in [bank : Nat, pos : 0 .. BankSize - 1, length : Int]
            BY <1>9 DEF SourceOK
        <3>2. source'.bank \in Nat /\ source'.pos \in Nat
            BY <1>1, <3>1
        <3> QED
            BY <1>1, <3>2 DEF Place
    <2>11. CASE stream'.cut
        <3>1. b.stream.cut \/ E % BankSize >= BankSize - 2
            BY <1>6, <1>7, <2>11
        <3>2. Place(source') >= next + Chunk + BankSize
            <4> HIDE DEF E, P, next
            <4> QED
                BY <1>1, <1>2, <1>8, <2>2, <2>5, <2>6, <2>7, <2>9, <2>10, <3>1
        <3> QED
            BY <1>6, <2>8, <2>11, <3>2 DEF InStep
    <2>12. CASE ~ stream'.cut
        <3>1. ~ b.stream.cut /\ E % BankSize < BankSize - 2
            <4>1. ~ (E % BankSize >= BankSize - 2)
                BY <1>6, <1>7, <1>10, <2>12
            <4>2. ~ b.stream.cut
                BY <1>6, <2>12
            <4> HIDE DEF E
            <4> QED
                BY <1>1, <1>8, <4>1, <4>2
        <3>2. Place(source') = next + Chunk
            BY <2>6, <2>7, <2>9, <3>1
        <3> QED
            BY <1>6, <2>8, <2>12, <3>2 DEF InStep
    <2> QED
        BY <2>11, <2>12
<1>11. transfer' = "streaming" => length >= Chunk
    BY <1>5
<1> QED
    BY <1>1, <1>5, <1>6, <1>9, <1>10, <1>11 DEF InStep, States

(* What an effect or a song brings into the state.                          *)
LEMMA InputTypes ==
    /\ \A e \in Effects : Last(e.ids) \in Ids /\ e.slot % Slots \in 0 .. Slots - 1
    /\ Slots \in Nat \ {0} /\ QueueSlots \in Nat \ {0}
<1>1. ASSUME NEW e \in Effects PROVE Last(e.ids) \in Ids
    <2>1. e.ids \in Seq(Ids) /\ e.ids # << >>
        BY StreamAssumption
    <2>2. Len(e.ids) \in 1 .. Len(e.ids)
        BY <2>1
    <2> QED
        BY <2>1, <2>2 DEF Last
<1>2. ASSUME NEW e \in Effects PROVE e.slot % Slots \in 0 .. Slots - 1
    BY StreamAssumption, DivMod
<1> QED
    BY <1>1, <1>2, StreamAssumption

(* Nothing is asked for when the game begins.                               *)
LEMMA InitQueue == Init => QueueInv
<1> SUFFICES ASSUME Init PROVE QueueInv
    OBVIOUS
<1>1. Queued = {} /\ ~ Streaming
    BY DEF Init, Queued, Streaming
<1>2. 0 \in 0 .. BankSize - 1 /\ 0 \in 0 .. Slots - 1
    BY StreamAssumption
<1>3. TypeOK
    <2>1. /\ queue = [q \in 0 .. QueueSlots - 1 |-> Free] /\ transfer = "idle"
          /\ source = [bank |-> 0, pos |-> 0, length |-> 0] /\ mode = FALSE
          /\ asked = [id |-> Nothing, slot |-> 0, late |-> FALSE]
          /\ stream = NoStream /\ hit = [song |-> FALSE, residents |-> FALSE]
        BY DEF Init, NoStream
    <2>2. source \in [bank : Nat, pos : 0 .. BankSize - 1, length : Int]
        BY <1>2, <2>1
    <2>3. asked \in [id : Ids \cup {Nothing}, slot : 0 .. Slots - 1, late : BOOLEAN]
        BY <1>2, <2>1
    <2> QED
        BY <1>1, <2>1, <2>2, <2>3, InitMemory DEF TypeOK, NoStream, States
<1> QED
    BY <1>1, <1>3 DEF QueueInv, QueueHoldsOne, CursorInStep, WaitsForLatest

(* An effect only tells the driver where its samples are to go.             *)
LEMMA PlayedDriver ==
    ASSUME StreamInv, NEW e \in Effects, PlaySoundResource(e)
    PROVE  /\ spc' \in Drivers /\ spc'.alloc = reply /\ spc'.slot = e.slot % Slots
           /\ spc'.cursor = spc.cursor /\ spc'.ram = spc.ram
           /\ spc'.directory = spc.directory
<1>1. spc' = SetSlot(SetSampleEnd(spc, reply), e.slot)
    BY DEF PlaySoundResource
<1>2. spc \in Drivers /\ reply \in Nat /\ e.slot \in Nat
    BY StreamAssumption DEF StreamInv, QueueInv, TypeOK
<1> DEFINE d == SetSampleEnd(spc, reply)
<1>3. /\ d \in Drivers /\ d.alloc = reply /\ d.cursor = spc.cursor
      /\ d.ram = spc.ram /\ d.directory = spc.directory
    BY <1>2, StartDrivers
<1> HIDE DEF d
<1>4. /\ SetSlot(d, e.slot) \in Drivers /\ SetSlot(d, e.slot).alloc = d.alloc
      /\ SetSlot(d, e.slot).cursor = d.cursor /\ SetSlot(d, e.slot).ram = d.ram
      /\ SetSlot(d, e.slot).directory = d.directory
      /\ SetSlot(d, e.slot).slot = e.slot % Slots
    BY <1>2, <1>3, StartDrivers
<1> QED
    BY <1>1, <1>3, <1>4 DEF d

(* An effect asked for is the one that waits.                               *)
LEMMA PlayQueue ==
    ASSUME StreamInv, NEW e \in Effects, PlaySoundResource(e) PROVE QueueInv'
<1>1. /\ queue' = [queue EXCEPT ![0] = Last(e.ids)]
      /\ asked' = [id |-> Last(e.ids), slot |-> e.slot % Slots, late |-> FALSE]
      /\ UNCHANGED <<transfer, source, stream, mode, base, reply, song, hit>>
    BY DEF PlaySoundResource
<1>2. TypeOK'
    BY <1>1, InputTypes, PlayedDriver DEF StreamInv, QueueInv, TypeOK, Streaming
<1>3. queue'[0] = Last(e.ids) /\ \A q \in 0 .. QueueSlots - 1 : q # 0 => queue'[q] = queue[q]
    BY <1>1, InputTypes DEF StreamInv, QueueInv, TypeOK
<1>4. QueueHoldsOne'
    BY <1>3 DEF StreamInv, QueueInv, QueueHoldsOne, Queued
<1>5. CursorInStep'
    BY <1>1 DEF StreamInv, QueueInv, CursorInStep, Streaming, Place
<1>6. WaitsForLatest'
    BY <1>1, <1>3, PlayedDriver DEF WaitsForLatest
<1> QED
    BY <1>2, <1>4, <1>5, <1>6 DEF StreamInv, QueueInv

(* A song leaves what waits, and marks it late.                             *)
LEMMA LoadQueue ==
    ASSUME StreamInv, NEW s \in Songs, LoadSong(s) PROVE QueueInv'
<1>1. /\ UNCHANGED <<queue, transfer, source>>
      /\ asked' = [asked EXCEPT !.late = Queued # {}]
      /\ stream' = NoStream /\ mode' = s.own /\ song' = s
      /\ hit' = [song |-> Streaming,
                 residents |-> IF ~ s.own /\ mode THEN Streaming ELSE hit.residents]
    BY DEF LoadSong
<1>2. TypeOK'
    <2>1. asked' \in [id : Ids \cup {Nothing}, slot : 0 .. Slots - 1, late : BOOLEAN]
        BY <1>1 DEF StreamInv, QueueInv, TypeOK
    <2>2. mode' \in BOOLEAN
        BY <1>1, StreamAssumption
    <2>3. hit' \in [song : BOOLEAN, residents : BOOLEAN]
        BY <1>1 DEF StreamInv, QueueInv, TypeOK, Streaming
    <2>4. spc' \in Drivers /\ base' \in Nat /\ reply' \in Nat
        BY LoadMemory DEF StreamInv, QueueInv
    <2> QED
        BY <1>1, <2>1, <2>2, <2>3, <2>4 DEF StreamInv, QueueInv, TypeOK, NoStream, Streaming
<1>3. QueueHoldsOne'
    BY <1>1 DEF StreamInv, QueueInv, QueueHoldsOne, Queued
<1>4. CursorInStep'
    BY <1>1 DEF CursorInStep, NoStream
<1>5. WaitsForLatest'
    BY <1>1 DEF StreamInv, QueueInv, TypeOK, WaitsForLatest, Queued
<1> QED
    BY <1>2, <1>3, <1>4, <1>5 DEF StreamInv, QueueInv

(* The invariant follows from what a chunk leaves, as long as the queue and *)
(* what was asked for are kept, or nothing waits.                           *)
LEMMA AfterChunk ==
    ASSUME StreamInv, UNCHANGED <<mode, asked, base, reply, song>>,
           hit' \in [song : BOOLEAN, residents : BOOLEAN], spc' \in Drivers, SourceOK(source', stream'),
           transfer' \in States,
           transfer' = "streaming" => source'.length >= 0 /\ InStep(source', stream'),
           queue' \in [0 .. QueueSlots - 1 -> Ids \cup {Free}],
           QueueHoldsOne', WaitsForLatest'
    PROVE  QueueInv'
<1>1. TypeOK'
    BY DEF StreamInv, QueueInv, TypeOK, SourceOK, Streaming
<1>2. CursorInStep'
    BY DEF InStep, CursorInStep, Streaming, Place
<1> QED
    BY <1>1, <1>2 DEF StreamInv, QueueInv

(* Going on with a stream changes nothing of what waits.                    *)
LEMMA ContinueQueue ==
    ASSUME StreamInv, ContinueStream PROVE QueueInv'
<1> DEFINE b == [driver |-> spc, source |-> source, stream |-> stream]
<1>1. SendChunk(b) /\ Streaming /\ UNCHANGED <<queue, mode, asked, base, reply, song, hit>>
    BY DEF ContinueStream
<1>2. SourceOK(b.source, b.stream) /\ b.source.length >= 0 /\ InStep(b.source, b.stream)
    BY <1>1 DEF StreamInv, QueueInv, TypeOK, CursorInStep, SourceOK, InStep
<1>3. /\ SourceOK(source', stream') /\ transfer' \in States
      /\ transfer' = "streaming" => source'.length >= 0 /\ InStep(source', stream')
    <2> HIDE DEF b
    <2> QED
        BY <1>1, <1>2, SendChunkInStep
<1>4. spc' \in Drivers /\ spc'.slot = spc.slot
    <2>1. b.driver = spc /\ spc \in Drivers
        BY DEF StreamInv, QueueInv, TypeOK
    <2> HIDE DEF b
    <2> QED
        BY <1>1, <1>2, <2>1, ChunkStored DEF SourceOK
<1>5. WaitsForLatest'
    BY <1>1, <1>4 DEF StreamInv, QueueInv, WaitsForLatest, Queued
<1>6. QueueHoldsOne' /\ queue' \in [0 .. QueueSlots - 1 -> Ids \cup {Free}]
    BY <1>1 DEF StreamInv, QueueInv, TypeOK, QueueHoldsOne, Queued
<1>7. hit' \in [song : BOOLEAN, residents : BOOLEAN]
    BY <1>1 DEF StreamInv, QueueInv, TypeOK
<1> QED
    BY <1>1, <1>3, <1>4, <1>5, <1>6, <1>7, AfterChunk

(* What begins is what was asked for last.                                  *)
LEMMA BeginsLatest ==
    ASSUME StreamInv, BeginStream
    PROVE  /\ SendChunk(Begun(asked.id)) /\ asked.id \in Ids
           /\ queue' = [queue EXCEPT ![0] = Free]
           /\ Queued # {} /\ Queued' = {}
           /\ UNCHANGED <<mode, asked, base, reply, song>>
           /\ hit' = [song |-> hit.song \/ asked.late,
                      residents |-> hit.residents
                                    \/ (asked.late /\ spc.slot < Len(Residents))]
<1> DEFINE q == CHOOSE i \in Queued : \A p \in Queued : i <= p
<1>1. Queued = {0}
    BY DEF StreamInv, QueueInv, QueueHoldsOne, BeginStream
<1>2. q = 0
    BY <1>1
<1>3. SendChunk(Begun(queue[0])) /\ queue' = [queue EXCEPT ![0] = Free]
    BY <1>2 DEF BeginStream
<1>4. queue[0] = asked.id /\ queue[0] \in Ids
    BY <1>1, InputTypes DEF StreamInv, QueueInv, TypeOK, WaitsForLatest, Queued
<1>5. Queued' = {}
    BY <1>1, <1>3 DEF StreamInv, QueueInv, TypeOK, Queued
<1> QED
    BY <1>3, <1>4, <1>5 DEF BeginStream

(* A stream begins behind what the driver holds, at its resource's data.    *)
LEMMA BegunInStep ==
    ASSUME NEW i \in Ids, spc \in Drivers
    PROVE  LET b == Begun(i)
           IN  /\ SourceOK(b.source, b.stream) /\ InStep(b.source, b.stream)
               /\ b.source.length = LengthOf(i) /\ LengthOf(i) \in Nat
               /\ Place(b.source) = DataAt(i) /\ DataAt(i) \in Nat
               /\ b.stream.id = i /\ b.stream.cut = FALSE
               /\ b.stream.start = spc.alloc /\ b.stream.slot = spc.slot
               /\ b.driver \in Drivers /\ b.driver.ram = spc.ram
               /\ b.driver.cursor = spc.alloc
               /\ \A t \in 0 .. Slots - 1 :
                    t # spc.slot => b.driver.directory[t] = spc.directory[t]
<1> DEFINE b == Begun(i)
<1>1. /\ b.source = [bank |-> DataAt(i) \div BankSize, pos |-> DataAt(i) % BankSize,
                     length |-> LengthOf(i)]
      /\ b.stream.id = i /\ b.stream.cut = FALSE
      /\ b.stream.start = spc.alloc /\ b.stream.slot = spc.slot
      /\ DOMAIN b.stream = {"id", "start", "slot", "asked", "cut"}
    BY DEF Begun
<1>2. DataAt(i) \in Nat /\ LengthOf(i) \in Nat /\ BankSize \in Nat \ {0}
    BY Numbers, StreamAssumption
<1>3. /\ DataAt(i) \div BankSize \in Nat /\ DataAt(i) % BankSize \in 0 .. BankSize - 1
      /\ DataAt(i) = (DataAt(i) \div BankSize) * BankSize + (DataAt(i) % BankSize)
    BY <1>2, DivMod
<1>4. Place(b.source) = DataAt(i) /\ b.source.length = LengthOf(i)
    BY <1>1, <1>3 DEF Place
<1>5. b.source \in [bank : Nat, pos : 0 .. BankSize - 1, length : Int]
    BY <1>1, <1>2, <1>3
<1>6. /\ b.driver \in Drivers /\ b.driver.ram = spc.ram /\ b.driver.cursor = spc.alloc
      /\ \A t \in 0 .. Slots - 1 : t # spc.slot => b.driver.directory[t] = spc.directory[t]
    <2> DEFINE dir == [spc.directory EXCEPT ![spc.slot] = [id |-> i, start |-> spc.alloc]]
               d == Define(spc, i)
    <2>1. /\ spc.directory \in [0 .. Slots - 1 -> [id : Ids \cup {Nothing}, start : Nat]]
          /\ spc.slot \in 0 .. Slots - 1 /\ spc.alloc \in Nat
          /\ spc.ram \in [Addresses -> Nat \cup {Nothing}]
          /\ DOMAIN spc = {"ram", "directory", "alloc", "slot", "cursor"}
        BY DEF Drivers
    <2>2. dir \in [0 .. Slots - 1 -> [id : Ids \cup {Nothing}, start : Nat]]
          /\ \A t \in 0 .. Slots - 1 : t # spc.slot => dir[t] = spc.directory[t]
        BY <2>1
    <2>3. spc.alloc + LengthOf(i) \in Nat /\ (spc.slot + 1) % Slots \in 0 .. Slots - 1
        BY <1>2, <2>1, Numbers
    <2>4. d = [spc EXCEPT !.directory = dir, !.alloc = spc.alloc + LengthOf(i),
                          !.slot = (spc.slot + 1) % Slots]
        BY DEF Define
    <2> HIDE DEF dir, d
    <2>5. /\ d \in Drivers /\ d.ram = spc.ram /\ d.directory = dir
        BY <2>1, <2>2, <2>3, <2>4 DEF Drivers
    <2>6. b.driver = [d EXCEPT !.cursor = spc.alloc]
        BY DEF Begun, d
    <2> HIDE DEF b
    <2>7. b.driver \in Drivers /\ b.driver.ram = d.ram /\ b.driver.directory = d.directory
          /\ b.driver.cursor = spc.alloc
        BY <2>1, <2>5, <2>6 DEF Drivers
    <2> QED
        BY <2>2, <2>5, <2>7
<1> HIDE DEF b
<1>7. SourceOK(b.source, b.stream)
    BY <1>1, <1>5 DEF SourceOK
<1>8. InStep(b.source, b.stream)
    BY <1>1, <1>2, <1>4 DEF InStep
<1> QED
    BY <1>1, <1>2, <1>4, <1>6, <1>7, <1>8 DEF b

(* A stream that begins takes the first place of the queue.                 *)
LEMMA BeginQueue ==
    ASSUME StreamInv, BeginStream PROVE QueueInv'
<1> DEFINE b == Begun(asked.id)
<1>1. /\ SendChunk(b) /\ asked.id \in Ids
      /\ queue' = [queue EXCEPT ![0] = Free] /\ Queued' = {}
      /\ UNCHANGED <<mode, asked, base, reply, song>>
      /\ hit' = [song |-> hit.song \/ asked.late,
                 residents |-> hit.residents
                               \/ (asked.late /\ spc.slot < Len(Residents))]
    BY BeginsLatest
<1>2. /\ SourceOK(b.source, b.stream) /\ InStep(b.source, b.stream)
      /\ b.source.length \in Nat /\ b.driver \in Drivers
    BY <1>1, BegunInStep DEF StreamInv, QueueInv, TypeOK
<1> HIDE DEF b
<1>3. /\ SourceOK(source', stream') /\ transfer' \in States
      /\ transfer' = "streaming" => source'.length >= 0 /\ InStep(source', stream')
    BY <1>1, <1>2, SendChunkInStep
<1>4. spc' \in Drivers
    BY <1>1, <1>2, ChunkStored DEF SourceOK
<1>5. QueueHoldsOne' /\ WaitsForLatest'
    BY <1>1 DEF QueueHoldsOne, WaitsForLatest
<1>6. queue' \in [0 .. QueueSlots - 1 -> Ids \cup {Free}]
    BY <1>1 DEF StreamInv, QueueInv, TypeOK
<1>7. hit' \in [song : BOOLEAN, residents : BOOLEAN]
    <2>1. asked.late \in BOOLEAN /\ hit.song \in BOOLEAN /\ hit.residents \in BOOLEAN
        BY DEF StreamInv, QueueInv, TypeOK
    <2> QED
        BY <1>1, <2>1
<1> QED
    BY <1>1, <1>3, <1>4, <1>5, <1>6, <1>7, AfterChunk

(* The end of a stream leaves the queue empty.                              *)
LEMMA EndQueue ==
    ASSUME StreamInv, EndStream PROVE QueueInv'
<1>1. transfer' = "idle" /\ UNCHANGED <<queue, source, base, reply, mode, spc, history>>
    BY DEF EndStream
<1>2. TypeOK' /\ CursorInStep'
    BY <1>1 DEF StreamInv, QueueInv, TypeOK, CursorInStep, Streaming, States, history
<1>3. QueueHoldsOne' /\ WaitsForLatest'
    BY <1>1 DEF StreamInv, QueueInv, QueueHoldsOne, WaitsForLatest, Queued, history
<1> QED
    BY <1>2, <1>3 DEF StreamInv, QueueInv

-----------------------------------------------------------------------------
(* The memory under every step.                                             *)

(* What stands below an address is not touched by what comes behind it.     *)
LEMMA ResidentsStay ==
    ASSUME NEW d \in Drivers, NEW e, NEW s \in Songs, ~ s.own,
           \A k \in 1 .. Len(Residents) : WholeIn(d, ResidentUploads[k], ResidentsEnd),
           \A a \in Addresses : a < ResidentsEnd => e.ram[a] = d.ram[a],
           \A t \in 0 .. Len(Residents) - 1 : e.directory[t] = d.directory[t]
    PROVE  \A k \in 1 .. Len(Residents) : WholeIn(e, ResidentUploads[k], ResidentsEnd)
<1>1. ResidentsEnd \in Nat /\ ResidentsEnd <= RamEnd
    <2>1. SongEnd(s) >= SongBegin(s) /\ SongEnd(s) \in Nat /\ SongEnd(s) <= RamEnd
          /\ ResidentsEnd \in Nat
        BY SongRoom
    <2> QED
        BY <2>1, Numbers DEF SongBegin
<1> SUFFICES ASSUME NEW k \in 1 .. Len(Residents)
             PROVE  WholeIn(e, ResidentUploads[k], ResidentsEnd)
    OBVIOUS
<1> DEFINE u == ResidentUploads[k]
<1>2. u.id \in Ids /\ u.slot \in 0 .. Len(Residents) - 1 /\ u.slot \in 0 .. Slots - 1
    <2>1. Len(Residents) \in Nat /\ Len(Residents) <= FixedSlot /\ FixedSlot < Slots
        BY ListsOK, LayoutAssumption
    <2>2. u.id \in Ids /\ u.slot = k - 1
        BY ListsOK
    <2> HIDE DEF u
    <2> QED
        BY <2>1, <2>2, Numbers
<1>3. WholeIn(d, u, ResidentsEnd)
    OBVIOUS
<1> HIDE DEF u
<1>4. e.directory[u.slot] = d.directory[u.slot]
    BY <1>2
<1>5. WholeIn(e, u, ResidentsEnd)
    BY <1>1, <1>2, <1>3, <1>4, WholeStays
<1> QED
    BY <1>5 DEF u

(* The samples of a song are whole.                                         *)
SongWhole(d, s) ==
    /\ \A k \in 1 .. Len(s.fixed) : WholeIn(d, FixedUploads(s)[k], SongEnd(s))
    /\ \A k \in 1 .. Len(s.extra) : WholeIn(d, ExtraUploads(s)[k], SongEnd(s))

(* They stay so under what comes behind them to other slots.                *)
LEMMA SongStays ==
    ASSUME NEW d \in Drivers, NEW e, NEW s \in Songs, SongWhole(d, s),
           \A a \in Addresses : a < SongEnd(s) => e.ram[a] = d.ram[a],
           \A t \in SlotsOf(s) : e.directory[t] = d.directory[t]
    PROVE  SongWhole(e, s)
<1>1. SongEnd(s) \in Nat /\ SongEnd(s) <= RamEnd
    BY SongRoom
<1>2. ASSUME NEW u, u.id \in Ids, u.slot \in SlotsOf(s), u.slot \in 0 .. Slots - 1,
             WholeIn(d, u, SongEnd(s))
      PROVE  WholeIn(e, u, SongEnd(s))
    <2>1. e.directory[u.slot] = d.directory[u.slot]
        BY <1>2
    <2> QED
        BY <1>1, <1>2, <2>1, WholeStays
<1>3. ASSUME NEW k \in 1 .. Len(s.fixed)
      PROVE  WholeIn(e, FixedUploads(s)[k], SongEnd(s))
    <2> DEFINE u == FixedUploads(s)[k]
    <2>1. u.id \in Ids /\ u.slot \in SlotsOf(s) /\ u.slot \in 0 .. Slots - 1
        <3>1. /\ Len(s.fixed) \in Nat /\ FixedSlot + Len(s.fixed) <= Slots
              /\ u.slot = FixedSlot + k - 1 /\ u.id \in Ids
            BY ListsOK, LayoutAssumption
        <3> HIDE DEF u
        <3> QED
            BY <3>1, Numbers DEF SlotsOf
    <2>2. WholeIn(d, u, SongEnd(s))
        BY DEF SongWhole
    <2> HIDE DEF u
    <2>3. WholeIn(e, u, SongEnd(s))
        BY <1>2, <2>1, <2>2
    <2> QED
        BY <2>3 DEF u
<1>4. ASSUME NEW k \in 1 .. Len(s.extra)
      PROVE  WholeIn(e, ExtraUploads(s)[k], SongEnd(s))
    <2> DEFINE u == ExtraUploads(s)[k]
    <2>1. u.id \in Ids /\ u.slot \in SlotsOf(s) /\ u.slot \in 0 .. Slots - 1
        BY ListsOK, LayoutAssumption DEF SlotsOf
    <2>2. WholeIn(d, u, SongEnd(s))
        BY DEF SongWhole
    <2> HIDE DEF u
    <2>3. WholeIn(e, u, SongEnd(s))
        BY <1>2, <2>1, <2>2
    <2> QED
        BY <2>3 DEF u
<1> QED
    BY <1>3, <1>4 DEF SongWhole

(* The invariant, as the steps use it.                                      *)
LEMMA MemoryFacts ==
    ASSUME StreamInv
    PROVE  /\ spc \in Drivers /\ song \in Songs /\ mode = song.own /\ mode \in BOOLEAN
           /\ base = ResidentsEnd /\ reply = SongEnd(song)
           /\ base \in Nat /\ reply \in Nat /\ reply >= TableAddress
           /\ ~ mode => base <= reply
           /\ hit.song \in BOOLEAN /\ hit.residents \in BOOLEAN
           /\ Standing(spc, mode, hit.residents, hit.song, song, base, reply)
<1>1. /\ spc \in Drivers /\ song \in Songs /\ mode = song.own /\ mode \in BOOLEAN
      /\ base = ResidentsEnd /\ reply = SongEnd(song)
      /\ hit.song \in BOOLEAN /\ hit.residents \in BOOLEAN
    BY DEF StreamInv, QueueInv, TypeOK, MemoryInv, BehindTheSong
<1>2. Standing(spc, mode, hit.residents, hit.song, song, base, reply)
    BY <1>1, StandingMeans DEF StreamInv, MemoryInv
<1>3. /\ base \in Nat /\ reply \in Nat /\ reply >= TableAddress
      /\ ~ mode => base <= reply
    BY <1>1, SongRoom, Numbers DEF SongBegin
<1> QED
    BY <1>1, <1>2, <1>3

(* What is asked for has room behind the song.                              *)
LEMMA AskedRoom ==
    ASSUME StreamInv, NEW i, Asked(i)
    PROVE  i \in Ids /\ reply + LengthOf(i) <= RamEnd
<1> PICK e \in Effects : i = Last(e.ids)
    BY DEF Asked
<1>1. i \in Ids
    BY InputTypes
<1>2. SongEnd(song) + LengthOf(Last(e.ids)) <= RamEnd
    BY MemoryFacts, LayoutAssumption
<1> QED
    BY <1>1, <1>2, MemoryFacts

(* Asking for an effect only moves where it is to go.                       *)
LEMMA PlayMemory ==
    ASSUME StreamInv, NEW e \in Effects, PlaySoundResource(e)
    PROVE  MemoryInv'
<1>1. /\ UNCHANGED <<transfer, source, base, reply, mode, song, stream, hit>>
      /\ asked' = [id |-> Last(e.ids), slot |-> e.slot % Slots, late |-> FALSE]
    BY DEF PlaySoundResource
<1>2. /\ spc' \in Drivers /\ spc'.alloc = reply
      /\ spc'.cursor = spc.cursor /\ spc'.ram = spc.ram /\ spc'.directory = spc.directory
    BY PlayedDriver
<1>3. SamplesStand'
    BY <1>1, <1>2, MemoryFacts, StandingMeansNext DEF Standing, WholeIn
<1>4. BehindTheSong'
    BY <1>1, <1>2 DEF StreamInv, MemoryInv, BehindTheSong, Asked
<1>5. SentSoFar' /\ StreamBehind'
    BY <1>1, <1>2 DEF StreamInv, MemoryInv, SentSoFar, StreamBehind, Streaming
<1> QED
    BY <1>3, <1>4, <1>5 DEF MemoryInv

(* The stream under way, whose song is still there.                         *)
LEMMA StreamFacts ==
    ASSUME StreamInv, Streaming, stream.id # Nothing
    PROVE  /\ stream.id \in Ids /\ stream.start = reply
           /\ reply + LengthOf(stream.id) <= RamEnd
           /\ Underway(spc, source, stream)
           /\ ~ stream.cut => Place(source) =
                DataAt(stream.id) + LengthOf(stream.id) - source.length
<1>1. stream.start = reply /\ Asked(stream.id)
    BY DEF StreamInv, MemoryInv, BehindTheSong
<1>2. Underway(spc, source, stream)
    BY DEF StreamInv, MemoryInv, SentSoFar, Underway
<1>3. ~ stream.cut => Place(source) =
            DataAt(stream.id) + LengthOf(stream.id) - source.length
    BY DEF StreamInv, QueueInv, CursorInStep
<1> QED
    BY <1>1, <1>2, <1>3, AskedRoom

(* A chunk of a stream under way, where it lies.                            *)
LEMMA ContinueData ==
    ASSUME StreamInv, ContinueStream, stream.id # Nothing
    PROVE  /\ stream'.id = stream.id /\ stream'.start = stream.start
           /\ transfer' = "streaming" => Underway(spc', source', stream')
           /\ transfer' # "streaming" /\ ~ stream'.cut =>
                \A k \in 0 .. LengthOf(stream'.id) - 1 :
                    spc'.ram[stream'.start + k] = DataAt(stream'.id) + k
           /\ \A a \in Addresses : spc'.ram[a] # spc.ram[a] =>
                a \in stream'.start .. stream'.start + LengthOf(stream'.id) + 1
<1> DEFINE b == [driver |-> spc, source |-> source, stream |-> stream]
<1>1. SendChunk(b) /\ Streaming
    BY DEF ContinueStream
<1>2. b.driver = spc /\ b.source = source /\ b.stream = stream
    OBVIOUS
<1>3. /\ spc \in Drivers /\ source.length >= 0
      /\ source \in [bank : Nat, pos : 0 .. BankSize - 1, length : Int]
      /\ DOMAIN stream = {"id", "start", "slot", "asked", "cut"} /\ stream.cut \in BOOLEAN
    BY <1>1 DEF StreamInv, QueueInv, TypeOK
<1>4. /\ stream.id \in Ids /\ stream.start = reply
      /\ reply + LengthOf(stream.id) <= RamEnd
      /\ Underway(spc, source, stream)
      /\ ~ stream.cut => Place(source) =
           DataAt(stream.id) + LengthOf(stream.id) - source.length
    BY <1>1, StreamFacts
<1>5. reply \in Nat /\ reply >= TableAddress
    BY MemoryFacts
<1> HIDE DEF b
<1> QED
    BY <1>1, <1>2, <1>3, <1>4, <1>5, ChunkProgress

(* It leaves the residents and the song whole.                              *)
LEMMA ContinueMemory ==
    ASSUME StreamInv, ContinueStream PROVE MemoryInv'
<1> DEFINE b == [driver |-> spc, source |-> source, stream |-> stream]
<1>1. SendChunk(b) /\ Streaming /\ UNCHANGED <<queue, base, reply, mode, song, asked, hit>>
    BY DEF ContinueStream
<1>2. b.driver = spc /\ b.source = source /\ b.stream = stream
    OBVIOUS
<1>3. /\ source.length >= 0
      /\ source \in [bank : Nat, pos : 0 .. BankSize - 1, length : Int]
      /\ DOMAIN stream = {"id", "start", "slot", "asked", "cut"}
    BY <1>1 DEF StreamInv, QueueInv, TypeOK
<1>4. /\ spc \in Drivers /\ song \in Songs /\ mode = song.own /\ mode \in BOOLEAN
      /\ base = ResidentsEnd /\ reply = SongEnd(song)
      /\ base \in Nat /\ reply \in Nat
      /\ hit.song \in BOOLEAN /\ hit.residents \in BOOLEAN
      /\ Standing(spc, mode, hit.residents, hit.song, song, base, reply)
    BY MemoryFacts
<1>5. stream'.id = stream.id /\ stream'.start = stream.start
    BY <1>1, <1>3 DEF SendChunk
<1> DEFINE n == Sent(ChunkLength(source))
<1> HIDE DEF b, n
<1>6. /\ n \in Nat /\ spc' \in Drivers
      /\ spc'.directory = spc.directory /\ spc'.alloc = spc.alloc
      /\ spc'.cursor = IF n = Chunk THEN spc.cursor + Chunk ELSE spc.cursor
      /\ \A a \in Addresses : spc'.ram[a] = IF a \in spc.cursor .. spc.cursor + n - 1
                                            THEN Place(source) + (a - spc.cursor)
                                            ELSE spc.ram[a]
    BY <1>1, <1>2, <1>3, <1>4, ChunkStored DEF n
<1>7. spc.cursor \in Nat /\ spc'.cursor >= spc.cursor
    BY <1>4, <1>6, StreamAssumption DEF Drivers
<1>8. \A a \in Addresses : a < spc.cursor => spc'.ram[a] = spc.ram[a]
    BY <1>6, <1>7, Numbers
<1>9. /\ ~ hit.song => spc.cursor >= reply
      /\ ~ mode /\ ~ hit.residents => spc.cursor >= base
    BY <1>1 DEF StreamInv, MemoryInv, StreamBehind
<1>10. /\ ~ mode /\ ~ hit.residents =>
            \A a \in Addresses : a < base => spc'.ram[a] = spc.ram[a]
       /\ ~ hit.song => \A a \in Addresses : a < reply => spc'.ram[a] = spc.ram[a]
    BY <1>4, <1>7, <1>8, <1>9, Numbers
<1>11. SamplesStand'
    <2>1. ASSUME ~ mode, ~ hit.residents
          PROVE  \A k \in 1 .. Len(Residents) : WholeIn(spc', ResidentUploads[k], base)
        <3>1. \A k \in 1 .. Len(Residents) : WholeIn(spc, ResidentUploads[k], ResidentsEnd)
            BY <1>4, <1>6, <1>10, <2>1 DEF Standing
        <3>2. \A a \in Addresses : a < ResidentsEnd => spc'.ram[a] = spc.ram[a]
            BY <1>4, <1>6, <1>10, <2>1
        <3>3. \A t \in 0 .. Len(Residents) - 1 : spc'.directory[t] = spc.directory[t]
            BY <1>4, <1>6, <1>10, <2>1
        <3> QED
            BY <1>4, <1>6, <1>10, <2>1, <3>1, <3>2, <3>3, ResidentsStay
    <2>2. ASSUME ~ hit.song PROVE SongWhole(spc', song)
        <3>1. SongWhole(spc, song)
            BY <1>4, <1>6, <1>10, <2>2 DEF Standing, SongWhole
        <3>2. /\ \A a \in Addresses : a < SongEnd(song) => spc'.ram[a] = spc.ram[a]
              /\ \A t \in SlotsOf(song) : spc'.directory[t] = spc.directory[t]
            BY <1>4, <1>6, <1>10, <2>2
        <3> QED
            BY <1>4, <1>6, <1>10, <3>1, <3>2, SongStays
    <2>3. Standing(spc', mode, hit.residents, hit.song, song, base, reply)
        BY <1>4, <1>6, <1>10, <2>1, <2>2 DEF Standing, SongWhole
    <2> QED
        BY <1>1, <1>4, <2>3, StandingMeansNext
<1>12. BehindTheSong'
    BY <1>1, <1>5, <1>6 DEF StreamInv, MemoryInv, BehindTheSong, Queued, Asked
<1>13. StreamBehind'
    <2>1. spc.cursor \in Nat /\ spc'.cursor \in Nat
        BY <1>4, <1>6 DEF Drivers
    <2> QED
        BY <1>1, <1>4, <1>7, <1>9, <2>1 DEF StreamBehind
<1>14. SentSoFar'
    <2>1. CASE stream.id = Nothing
        BY <1>5, <2>1 DEF SentSoFar
    <2>2. CASE stream.id # Nothing
        BY <2>2, ContinueData DEF SentSoFar, Underway, Streaming
    <2> QED
        BY <2>1, <2>2
<1> QED
    BY <1>11, <1>12, <1>13, <1>14 DEF MemoryInv

(* The first chunk of a stream begins behind the song, unless it is late.   *)
LEMMA BeginData ==
    ASSUME StreamInv, BeginStream
    PROVE  /\ stream'.id = asked.id /\ stream'.start = reply /\ Asked(asked.id)
           /\ transfer' = "streaming" => Underway(spc', source', stream')
           /\ transfer' # "streaming" /\ ~ stream'.cut =>
                \A k \in 0 .. LengthOf(stream'.id) - 1 :
                    spc'.ram[stream'.start + k] = DataAt(stream'.id) + k
           /\ \A a \in Addresses : spc'.ram[a] # spc.ram[a] =>
                a \in stream'.start .. stream'.start + LengthOf(stream'.id) + 1
<1> DEFINE i == asked.id
           b == Begun(i)
<1>1. SendChunk(b) /\ i \in Ids /\ Queued # {}
    BY BeginsLatest
<1>2. spc.alloc = reply /\ Asked(i)
    BY <1>1 DEF StreamInv, MemoryInv, BehindTheSong
<1>3. reply \in Nat /\ reply >= TableAddress /\ spc \in Drivers
    BY MemoryFacts
<1>4. reply + LengthOf(i) <= RamEnd
    BY <1>2, AskedRoom
<1>5. /\ SourceOK(b.source, b.stream)
      /\ b.source.length = LengthOf(i) /\ LengthOf(i) \in Nat
      /\ Place(b.source) = DataAt(i) /\ DataAt(i) \in Nat
      /\ b.stream.id = i /\ b.stream.cut = FALSE
      /\ b.stream.start = reply
      /\ b.driver \in Drivers /\ b.driver.ram = spc.ram /\ b.driver.cursor = reply
    BY <1>1, <1>2, <1>3, BegunInStep
<1> HIDE DEF b, i
<1>6. Underway(b.driver, b.source, b.stream)
    BY <1>3, <1>5 DEF Underway
<1>7. Place(b.source) = DataAt(b.stream.id) + LengthOf(b.stream.id) - b.source.length
    BY <1>5
<1>8. /\ stream'.id = b.stream.id /\ stream'.start = b.stream.start
      /\ transfer' = "streaming" => Underway(spc', source', stream')
      /\ transfer' # "streaming" /\ ~ stream'.cut =>
           \A k \in 0 .. LengthOf(stream'.id) - 1 :
               spc'.ram[stream'.start + k] = DataAt(stream'.id) + k
      /\ \A a \in Addresses : spc'.ram[a] # b.driver.ram[a] =>
           a \in stream'.start .. stream'.start + LengthOf(stream'.id) + 1
    BY <1>1, <1>3, <1>4, <1>5, <1>6, <1>7, ChunkProgress DEF SourceOK
<1> QED
    BY <1>2, <1>5, <1>8 DEF i

(* It leaves the residents and the song whole.                              *)
LEMMA BeginMemory ==
    ASSUME StreamInv, BeginStream PROVE MemoryInv'
<1> DEFINE i == asked.id
           b == Begun(i)
           n == Sent(ChunkLength(b.source))
<1>1. /\ SendChunk(b) /\ i \in Ids /\ Queued # {} /\ Queued' = {}
      /\ UNCHANGED <<mode, asked, base, reply, song>>
      /\ hit' = [song |-> hit.song \/ asked.late,
                 residents |-> hit.residents
                               \/ (asked.late /\ spc.slot < Len(Residents))]
    BY BeginsLatest
<1>2. spc.alloc = reply
    BY <1>1 DEF StreamInv, MemoryInv, BehindTheSong
<1>3. /\ spc \in Drivers /\ song \in Songs /\ mode = song.own /\ mode \in BOOLEAN
      /\ base = ResidentsEnd /\ reply = SongEnd(song)
      /\ base \in Nat /\ reply \in Nat
      /\ ~ mode => base <= reply
      /\ hit.song \in BOOLEAN /\ hit.residents \in BOOLEAN /\ asked.late \in BOOLEAN
      /\ Standing(spc, mode, hit.residents, hit.song, song, base, reply)
    BY MemoryFacts DEF StreamInv, QueueInv, TypeOK
<1>4. /\ SourceOK(b.source, b.stream) /\ b.source.length \in Nat
      /\ b.driver \in Drivers /\ b.driver.ram = spc.ram /\ b.driver.cursor = reply
      /\ \A t \in 0 .. Slots - 1 : t # spc.slot => b.driver.directory[t] = spc.directory[t]
    BY <1>1, <1>2, <1>3, BegunInStep
<1> HIDE DEF b, n, i
<1>5. /\ n \in Nat /\ spc' \in Drivers
      /\ spc'.directory = b.driver.directory
      /\ spc'.cursor = IF n = Chunk THEN reply + Chunk ELSE reply
      /\ \A a \in Addresses : spc'.ram[a] = IF a \in reply .. reply + n - 1
                                            THEN Place(b.source) + (a - reply)
                                            ELSE spc.ram[a]
    BY <1>1, <1>4, ChunkStored DEF SourceOK, n
<1>6. \A a \in Addresses : a < reply => spc'.ram[a] = spc.ram[a]
    BY <1>3, <1>5, Numbers
<1>7. hit'.song \in BOOLEAN /\ hit'.residents \in BOOLEAN
      /\ (hit.song => hit'.song) /\ (hit.residents => hit'.residents)
    BY <1>1, <1>3
<1>8. ASSUME ~ asked.late
      PROVE  /\ spc.slot >= Len(Residents) /\ spc.slot \notin SlotsOf(song)
    <2>1. PICK e \in Effects : asked.slot = e.slot % Slots
        BY <1>1, <1>8 DEF StreamInv, MemoryInv, BehindTheSong
    <2>2. spc.slot = asked.slot
        BY <1>1, <1>8 DEF StreamInv, QueueInv, WaitsForLatest
    <2> QED
        BY <1>3, <2>1, <2>2, LayoutAssumption DEF SlotsOf
<1>9. Len(Residents) \in Nat /\ Len(Residents) <= Slots /\ spc.slot \in 0 .. Slots - 1
      /\ Slots \in Nat
    BY <1>3, ListsOK, LayoutAssumption, Numbers DEF Drivers
<1>10. ASSUME ~ mode, ~ hit'.residents
       PROVE  /\ \A a \in Addresses : a < base => spc'.ram[a] = spc.ram[a]
              /\ \A t \in 0 .. Len(Residents) - 1 : spc'.directory[t] = spc.directory[t]
    <2>1. spc.slot >= Len(Residents)
        <3>1. ~ asked.late \/ ~ (spc.slot < Len(Residents))
            BY <1>1, <1>10
        <3> QED
            BY <1>8, <1>9, <3>1
    <2>2. \A a \in Addresses : a < base => a < reply
        BY <1>3, <1>10, Numbers
    <2>3. \A t \in 0 .. Len(Residents) - 1 : t \in 0 .. Slots - 1 /\ t # spc.slot
        BY <1>9, <2>1
    <2> QED
        BY <1>4, <1>5, <1>6, <2>2, <2>3
<1>11. ASSUME ~ hit'.song
       PROVE  /\ \A a \in Addresses : a < reply => spc'.ram[a] = spc.ram[a]
              /\ \A t \in SlotsOf(song) : spc'.directory[t] = spc.directory[t]
    <2>1. spc.slot \notin SlotsOf(song)
        BY <1>1, <1>8, <1>11
    <2>2. SlotsOf(song) \subseteq 0 .. Slots - 1
        <3>1. /\ FixedSlot + Len(song.fixed) <= Slots /\ Len(song.fixed) \in Nat
              /\ \A k \in 1 .. Len(song.extra) : song.extra[k] \in 0 .. Slots - 1
            BY <1>3, ListsOK, LayoutAssumption
        <3> QED
            BY <3>1, Numbers DEF SlotsOf
    <2> QED
        BY <1>4, <1>5, <1>6, <2>1, <2>2
<1>12. SamplesStand'
    <2>1. ASSUME ~ mode, ~ hit'.residents
          PROVE  \A k \in 1 .. Len(Residents) : WholeIn(spc', ResidentUploads[k], base)
        <3>1. \A k \in 1 .. Len(Residents) : WholeIn(spc, ResidentUploads[k], ResidentsEnd)
            BY <1>3, <1>7, <1>10, <2>1 DEF Standing
        <3>2. \A a \in Addresses : a < ResidentsEnd => spc'.ram[a] = spc.ram[a]
            BY <1>3, <1>7, <1>10, <2>1
        <3>3. \A t \in 0 .. Len(Residents) - 1 : spc'.directory[t] = spc.directory[t]
            BY <1>3, <1>7, <1>10, <2>1
        <3> QED
            BY <1>3, <1>7, <1>10, <2>1, <3>1, <3>2, <3>3, ResidentsStay
    <2>2. ASSUME ~ hit'.song PROVE SongWhole(spc', song)
        <3>1. SongWhole(spc, song)
            BY <1>3, <1>7, <1>11, <2>2 DEF Standing, SongWhole
        <3>2. /\ \A a \in Addresses : a < SongEnd(song) => spc'.ram[a] = spc.ram[a]
              /\ \A t \in SlotsOf(song) : spc'.directory[t] = spc.directory[t]
            BY <1>3, <1>7, <1>11, <2>2
        <3> QED
            BY <1>3, <1>7, <1>11, <3>1, <3>2, SongStays
    <2>3. Standing(spc', mode, hit'.residents, hit'.song, song, base, reply)
        BY <1>3, <1>7, <1>10, <2>1, <2>2 DEF Standing, SongWhole
    <2> QED
        BY <1>1, <1>3, <2>3, StandingMeansNext
<1>13. /\ stream'.id = asked.id /\ stream'.start = reply /\ Asked(asked.id)
       /\ transfer' = "streaming" => Underway(spc', source', stream')
    BY BeginData
<1>14. BehindTheSong'
    BY <1>1, <1>3, <1>13 DEF BehindTheSong, Asked
<1>15. SentSoFar'
    BY <1>13 DEF SentSoFar, Underway, Streaming
<1>16. StreamBehind'
    <2>1. spc'.cursor >= reply /\ spc'.cursor \in Nat
        BY <1>3, <1>5, StreamAssumption
    <2> QED
        BY <1>1, <1>3, <2>1 DEF StreamBehind
<1> QED
    BY <1>12, <1>14, <1>15, <1>16 DEF MemoryInv

(* The end of a stream touches no memory.                                   *)
LEMMA EndMemory ==
    ASSUME StreamInv, EndStream PROVE MemoryInv'
<1>1. /\ transfer' = "idle"
      /\ UNCHANGED <<queue, source, base, reply, mode, spc, song, asked, stream, hit>>
    BY DEF EndStream, history
<1>2. BehindTheSong' /\ SentSoFar' /\ StreamBehind'
    BY <1>1 DEF StreamInv, MemoryInv, BehindTheSong, SentSoFar, StreamBehind, Streaming,
        Queued, Asked
<1>3. SamplesStand'
    BY <1>1, MemoryFacts, StandingMeansNext
<1> QED
    BY <1>2, <1>3 DEF MemoryInv

-----------------------------------------------------------------------------
(* The theorems.                                                            *)

(* Every step keeps the invariant.                                          *)
LEMMA NextInv == StreamInv /\ [Next]_vars => StreamInv'
<1> SUFFICES ASSUME StreamInv, [Next]_vars PROVE QueueInv' /\ MemoryInv'
    BY DEF StreamInv
<1>1. CASE ContinueStream
    BY <1>1, ContinueQueue, ContinueMemory
<1>2. CASE BeginStream
    BY <1>2, BeginQueue, BeginMemory
<1>3. CASE EndStream
    BY <1>3, EndQueue, EndMemory
<1>4. CASE \E e \in Effects : PlaySoundResource(e)
    BY <1>4, PlayQueue, PlayMemory
<1>5. CASE \E s \in Songs : LoadSong(s)
    BY <1>5, LoadQueue, LoadMemory DEF StreamInv, QueueInv
<1>6. CASE UNCHANGED vars
    <2> USE DEF vars, game, history
    <2>1. QueueInv'
        BY <1>6 DEF StreamInv, QueueInv, TypeOK, QueueHoldsOne, CursorInStep,
            WaitsForLatest, Queued, Streaming, Place
    <2>2. BehindTheSong' /\ SentSoFar' /\ StreamBehind'
        BY <1>6 DEF StreamInv, MemoryInv, BehindTheSong, SentSoFar, StreamBehind,
            Queued, Asked, Streaming
    <2>3. SamplesStand'
        BY <1>6, MemoryFacts, StandingMeansNext
    <2> QED
        BY <2>1, <2>2, <2>3 DEF MemoryInv
<1> QED
    BY <1>1, <1>2, <1>3, <1>4, <1>5, <1>6 DEF Next, UpdateSoundResourceQueue

(* For every size of banks and chunks, all resources, songs and effects:    *)
(* one place of the queue is used, it holds what was asked for last, and    *)
(* between two frames of a stream the stored bank and cursor are right      *)
(* exactly until a chunk ends among the last two bytes of a bank.           *)
THEOREM StreamInvariant == Spec => []StreamInv
<1>1. Init => StreamInv
    BY InitQueue, InitMemory DEF StreamInv
<1>2. StreamInv /\ [Next]_vars => StreamInv'
    BY NextInv
<1> QED
    BY <1>1, <1>2, PTL DEF Spec

(* When nothing waits, the last stream is the one asked for last.  A song   *)
(* ends the claim, and begins it again with the next stream.                *)
LEMMA LatestNext ==
    StreamInv /\ LatestStreams /\ [Next]_vars => LatestStreams'
<1> SUFFICES ASSUME StreamInv, LatestStreams, [Next]_vars PROVE LatestStreams'
    OBVIOUS
<1>1. CASE ContinueStream
    <2> DEFINE b == [driver |-> spc, source |-> source, stream |-> stream]
    <2>1. SendChunk(b) /\ Streaming /\ UNCHANGED <<queue, asked>>
        BY <1>1 DEF ContinueStream
    <2>2. SourceOK(b.source, b.stream) /\ b.source.length >= 0 /\ InStep(b.source, b.stream)
        BY <2>1 DEF StreamInv, QueueInv, TypeOK, CursorInStep, SourceOK, InStep
    <2>3. stream'.id = b.stream.id /\ stream'.slot = b.stream.slot
          /\ stream'.asked = b.stream.asked
        <3> HIDE DEF b
        <3> QED
            BY <2>1, <2>2, SendChunkInStep
    <2> QED
        BY <2>1, <2>3 DEF LatestStreams, Queued
<1>2. CASE BeginStream
    <2> DEFINE b == Begun(asked.id)
    <2>1. SendChunk(b) /\ asked.id \in Ids /\ UNCHANGED asked
        BY <1>2, BeginsLatest
    <2>2. stream' = [b.stream EXCEPT !.cut = @ \/ EndsInBankEnd(b.source, Sent(ChunkLength(b.source)))]
        BY <2>1 DEF SendChunk
    <2>3. /\ stream'.id = asked.id /\ stream'.slot = spc.slot
          /\ stream'.asked = asked
        BY <2>2 DEF Begun
    <2>4. Queued # {}
        BY <1>2 DEF BeginStream
    <2> QED
        BY <2>1, <2>3, <2>4 DEF StreamInv, QueueInv, WaitsForLatest, LatestStreams
<1>3. CASE EndStream
    BY <1>3 DEF EndStream, LatestStreams, Queued, history
<1>4. CASE \E e \in Effects : PlaySoundResource(e)
    <2> PICK e \in Effects : PlaySoundResource(e)
        BY <1>4
    <2>1. queue'[0] = Last(e.ids) /\ Last(e.ids) # Free
        BY InputTypes, StreamAssumption DEF PlaySoundResource, StreamInv, QueueInv, TypeOK
    <2>2. 0 \in Queued'
        BY <2>1, InputTypes DEF Queued
    <2> QED
        BY <2>2 DEF LatestStreams
<1>5. CASE \E s \in Songs : LoadSong(s)
    BY <1>5 DEF LoadSong, LatestStreams, NoStream
<1>6. CASE UNCHANGED vars
    BY <1>6 DEF vars, game, history, LatestStreams, Queued
<1> QED
    BY <1>1, <1>2, <1>3, <1>4, <1>5, <1>6 DEF Next, UpdateSoundResourceQueue

(* For all effects and songs, in any order: what was asked for last is what *)
(* is streamed last, in its slot unless a song came in between.             *)
THEOREM LatestIsStreamed == Spec => []LatestStreams
<1>1. Init => LatestStreams
    BY DEF Init, LatestStreams, NoStream
<1> QED
    BY <1>1, LatestNext, StreamInvariant, PTL DEF Spec

(* What stands is whole.                                                    *)
LEMMA StandingIsWhole == StreamInv => LoadedWhole
<1> SUFFICES ASSUME StreamInv PROVE LoadedWhole
    OBVIOUS
<1>1. /\ song \in Songs
      /\ ~ mode /\ ~ hit.residents =>
            \A k \in 1 .. Len(Residents) : Stands(ResidentUploads[k], base)
      /\ ~ hit.song =>
            /\ \A k \in 1 .. Len(song.fixed) : Stands(FixedUploads(song)[k], reply)
            /\ \A k \in 1 .. Len(song.extra) : Stands(ExtraUploads(song)[k], reply)
    BY MemoryFacts, ListsOK DEF StreamInv, MemoryInv, SamplesStand
<1>2. /\ Residents \in Seq(Ids) /\ song.fixed \in Seq(Ids) /\ song.extra \in Seq(Ids)
    BY <1>1, StreamAssumption
<1>3. ASSUME NEW k \in DOMAIN Residents
      PROVE  /\ k \in 1 .. Len(Residents)
             /\ ResidentUploads[k] = [slot |-> k - 1, id |-> Residents[k]]
    BY <1>2 DEF ResidentUploads
<1>4. ASSUME NEW k \in DOMAIN song.fixed
      PROVE  /\ k \in 1 .. Len(song.fixed)
             /\ FixedUploads(song)[k] = [slot |-> FixedSlot + k - 1, id |-> song.fixed[k]]
    BY <1>2 DEF FixedUploads
<1>5. ASSUME NEW k \in DOMAIN song.extra
      PROVE  /\ k \in 1 .. Len(song.extra)
             /\ ExtraUploads(song)[k] = [slot |-> song.extra[k], id |-> song.extra[k]]
    BY <1>2 DEF ExtraUploads
<1>6. ASSUME NEW slot, NEW i, NEW end, Stands([slot |-> slot, id |-> i], end)
      PROVE  Holds(slot, i)
    BY <1>6 DEF Stands
<1>7. ASSUME ~ mode, ~ hit.residents, NEW k \in DOMAIN Residents
      PROVE  Holds(k - 1, Residents[k])
    BY <1>1, <1>3, <1>6, <1>7
<1>8. ASSUME ~ hit.song, NEW k \in DOMAIN song.fixed
      PROVE  Holds(FixedSlot + k - 1, song.fixed[k])
    BY <1>1, <1>4, <1>6, <1>8
<1>9. ASSUME ~ hit.song, NEW k \in DOMAIN song.extra
      PROVE  Holds(song.extra[k], song.extra[k])
    BY <1>1, <1>5, <1>6, <1>9
<1> QED
    BY <1>7, <1>8, <1>9 DEF LoadedWhole

(* For all residents, songs and effects whose samples fit the memory: the   *)
(* residents and the song's samples are whole, in their slots, unless a     *)
(* song was loaded while an effect was asked for or under way.              *)
THEOREM LoadedStaysWhole == Spec => []LoadedWhole
BY StreamInvariant, StandingIsWhole, PTL

(* A stream is whole when it ends, and stays so until the next or a song.   *)
LEMMA WholeNext ==
    StreamInv /\ StreamWhole /\ [Next]_vars => StreamWhole'
<1> SUFFICES ASSUME StreamInv, StreamWhole, [Next]_vars PROVE StreamWhole'
    OBVIOUS
<1>1. CASE ContinueStream
    <2>1. CASE stream.id = Nothing
        <3> DEFINE b == [driver |-> spc, source |-> source, stream |-> stream]
        <3>1. SendChunk(b) /\ DOMAIN stream = {"id", "start", "slot", "asked", "cut"}
            BY <1>1 DEF ContinueStream, StreamInv, QueueInv, TypeOK
        <3>2. stream'.id = Nothing
            BY <2>1, <3>1 DEF SendChunk
        <3> QED
            BY <3>2 DEF StreamWhole
    <2>2. CASE stream.id # Nothing
        BY <1>1, <2>2, ContinueData DEF StreamWhole, Streaming
    <2> QED
        BY <2>1, <2>2
<1>2. CASE BeginStream
    BY <1>2, BeginData DEF StreamWhole, Streaming
<1>3. CASE EndStream
    BY <1>3 DEF EndStream, StreamWhole, Streaming, history
<1>4. CASE \E e \in Effects : PlaySoundResource(e)
    <2> PICK e \in Effects : PlaySoundResource(e)
        BY <1>4
    <2>1. spc'.ram = spc.ram /\ UNCHANGED <<transfer, stream>>
        BY PlayedDriver DEF PlaySoundResource
    <2> QED
        BY <2>1 DEF StreamWhole, Streaming
<1>5. CASE \E s \in Songs : LoadSong(s)
    BY <1>5 DEF LoadSong, StreamWhole, NoStream
<1>6. CASE UNCHANGED vars
    BY <1>6 DEF vars, game, history, StreamWhole, Streaming
<1> QED
    BY <1>1, <1>2, <1>3, <1>4, <1>5, <1>6 DEF Next, UpdateSoundResourceQueue

(* For every size of banks and chunks, whatever is asked for meanwhile: a   *)
(* stream that has ended delivered all bytes of its resource, unless one of *)
(* its chunks ended among the last two bytes of a bank.                     *)
THEOREM StreamsArriveWhole == Spec => []StreamWhole
<1>1. Init => StreamWhole
    BY DEF Init, StreamWhole, NoStream
<1> QED
    BY <1>1, WholeNext, StreamInvariant, PTL DEF Spec

(* For every size of banks and chunks: a frame of a stream changes only the *)
(* memory of its own resource and the pair behind it.                       *)
THEOREM StreamsInPlace == Spec => StreamInPlace
<1> DEFINE InPlace ==
        UpdateSoundResourceQueue /\ stream'.id # Nothing =>
            \A a \in Addresses : spc'.ram[a] # spc.ram[a] =>
                a \in stream'.start .. stream'.start + LengthOf(stream'.id) + 1
<1>1. StreamInv /\ [Next]_vars => [InPlace]_vars
    <2> SUFFICES ASSUME StreamInv, UpdateSoundResourceQueue, stream'.id # Nothing
                 PROVE  \A a \in Addresses : spc'.ram[a] # spc.ram[a] =>
                            a \in stream'.start .. stream'.start + LengthOf(stream'.id) + 1
        OBVIOUS
    <2>1. CASE ContinueStream
        <3> DEFINE b == [driver |-> spc, source |-> source, stream |-> stream]
        <3>1. SendChunk(b) /\ DOMAIN stream = {"id", "start", "slot", "asked", "cut"}
            BY <2>1 DEF ContinueStream, StreamInv, QueueInv, TypeOK
        <3>2. stream'.id = stream.id
            BY <3>1 DEF SendChunk
        <3> QED
            BY <2>1, <3>2, ContinueData
    <2>2. CASE BeginStream
        BY <2>2, BeginData
    <2>3. CASE EndStream
        BY <2>3 DEF EndStream
    <2> QED
        BY <2>1, <2>2, <2>3 DEF UpdateSoundResourceQueue
<1> HIDE DEF InPlace
<1>2. Spec => [][InPlace]_vars
    BY <1>1, StreamInvariant, PTL DEF Spec
<1> QED
    BY <1>2 DEF StreamInPlace, InPlace
=============================================================================
