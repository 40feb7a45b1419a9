-------------------------- MODULE BattleRound_proofs -------------------------
(***************************************************************************)
(* The rounds of a battle for every party, every number of enemies, every  *)
(* length of the queue that has room for the battlers, all items and all   *)
(* conditions that actions give and take.                                  *)
(***************************************************************************)
EXTENDS BattleRound, FiniteSetTheorems, SequenceTheorems, TLAPS

Who == PartySide \cup Enemies \cup {Collective, Gone}
Entries == [actor : Who, priority : Priorities]

(* The indexes of battlers and of the things that stand in for them.        *)
LEMMA Indexes ==
    /\ Members \subseteq Nat /\ Enemies \subseteq Nat /\ PartySide \subseteq Nat
    /\ Members \subseteq PartySide /\ Members \cap Enemies = {} /\ PartySide \cap Enemies = {}
    /\ Capsule \notin Members /\ Capsule \notin Enemies
    /\ Collective \notin PartySide \cup Enemies /\ Gone \notin PartySide \cup Enemies
    /\ Collective # Gone /\ Collective # Capsule /\ PartySide \subseteq Members \cup {Capsule}
    /\ PartySize \in 1 .. 4 /\ EnemyCount \in 1 .. 6 /\ QueueCount \in Nat
    /\ PartySize + 1 + EnemyCount < QueueCount
    /\ \A m \in Members : m <= PartySize - 1
BY BattleAssumption
DEF Members, Enemies, PartySide, Capsule, Collective, Gone

-----------------------------------------------------------------------------
(* The queue.                                                               *)

Distinct(q) ==
    \A j, k \in DOMAIN q : q[j].actor = q[k].actor /\ q[j].actor # Gone => j = k

(* What is inserted is there once, next to all that was there.              *)
LEMMA Inserted ==
    ASSUME NEW q \in Seq(Entries), NEW a \in Who, NEW p \in Priorities
    PROVE  /\ Insert(q, a, p) \in Seq(Entries)
           /\ Actors(Insert(q, a, p)) = Actors(q) \cup {a}
           /\ Distinct(q) /\ a \notin Actors(q) => Distinct(Insert(q, a, p))
<1> DEFINE n == Cardinality(Leading(q, p))
           e == Entry(a, p)
           left == SubSeq(q, 1, n)
           right == SubSeq(q, n + 1, Len(q))
           r == Insert(q, a, p)
<1>1. n \in 0 .. Len(q)
    <2>1. Leading(q, p) \in SUBSET (1 .. Len(q)) /\ Len(q) \in Nat
        BY DEF Leading
    <2>2. IsFiniteSet(1 .. Len(q)) /\ Cardinality(1 .. Len(q)) = Len(q)
        <3>1. 1 \in Int /\ Len(q) \in Int /\ (IF 1 > Len(q) THEN 0 ELSE Len(q) - 1 + 1) = Len(q)
            BY <2>1
        <3>2. /\ IsFiniteSet(1 .. Len(q))
              /\ Cardinality(1 .. Len(q)) = IF 1 > Len(q) THEN 0 ELSE Len(q) - 1 + 1
            BY <3>1, FS_Interval, Zenon
        <3> QED
            BY <3>1, <3>2
    <2> QED
        BY <2>1, <2>2, FS_Subset, FS_CardinalityType
<1> HIDE DEF n
<1>2. e \in Entries /\ e.actor = a
    BY DEF Entry, Entries
<1> HIDE DEF e
<1>3. /\ left \in Seq(Entries) /\ Len(left) = n
      /\ \A i \in 1 .. n : left[i] = q[i]
    <2>1. \A i \in 1 .. n : q[i] \in Entries
        BY <1>1
    <2>2. /\ left \in Seq(Entries)
          /\ Len(left) = IF 1 <= n THEN n - 1 + 1 ELSE 0
          /\ \A i \in 1 .. n - 1 + 1 : left[i] = q[1 + i - 1]
        BY <1>1, <2>1, SubSeqProperties
    <2> QED
        BY <1>1, <2>2
<1>4. /\ right \in Seq(Entries) /\ Len(right) = Len(q) - n
      /\ \A i \in 1 .. Len(q) - n : right[i] = q[n + i]
    <2>1. \A i \in n + 1 .. Len(q) : q[i] \in Entries
        BY <1>1
    <2>2. /\ right \in Seq(Entries)
          /\ Len(right) = IF n + 1 <= Len(q) THEN Len(q) - (n + 1) + 1 ELSE 0
          /\ \A i \in 1 .. Len(q) - (n + 1) + 1 : right[i] = q[n + 1 + i - 1]
        BY <1>1, <2>1, SubSeqProperties
    <2> QED
        BY <1>1, <2>2
<1> HIDE DEF left, right
<1>5. r = left \o <<e>> \o right
    <2>1. (n + 1) - 1 = n
        BY <1>1
    <2>2. r = SubSeq(q, 1, (n + 1) - 1) \o <<e>> \o SubSeq(q, n + 1, Len(q))
        <3>1. r = InsertAt(q, n + 1, e)
            BY DEF Insert, n, e
        <3> HIDE DEF r
        <3> QED
            BY <3>1 DEF InsertAt
    <2> QED
        BY <2>1, <2>2 DEF left, right
<1>6. /\ r \in Seq(Entries) /\ Len(r) = Len(q) + 1
      /\ \A i \in 1 .. n : r[i] = q[i]
      /\ r[n + 1] = e
      /\ \A i \in n + 2 .. Len(q) + 1 : r[i] = q[i - 1]
    <2>1. /\ left \o <<e>> \in Seq(Entries) /\ Len(left \o <<e>>) = n + 1
          /\ \A i \in 1 .. n : (left \o <<e>>)[i] = q[i]
          /\ (left \o <<e>>)[n + 1] = e
        BY <1>1, <1>2, <1>3
    <2> DEFINE l == left \o <<e>>
    <2> HIDE DEF l
    <2>2. /\ r \in Seq(Entries) /\ Len(r) = n + 1 + (Len(q) - n)
          /\ \A i \in 1 .. n + 1 + (Len(q) - n) :
                 r[i] = IF i <= n + 1 THEN l[i] ELSE right[i - (n + 1)]
        <3>1. l \in Seq(Entries) /\ right \in Seq(Entries) /\ r = l \o right
            BY <1>4, <1>5, <2>1 DEF l
        <3>2. /\ l \o right \in Seq(Entries)
              /\ Len(l \o right) = Len(l) + Len(right)
              /\ \A i \in 1 .. Len(l) + Len(right) :
                    (l \o right)[i] = IF i <= Len(l) THEN l[i] ELSE right[i - Len(l)]
            BY <3>1, ConcatProperties, Zenon
        <3>3. Len(l) = n + 1 /\ Len(right) = Len(q) - n
            BY <1>4, <2>1 DEF l
        <3> QED
            BY <3>1, <3>2, <3>3
    <2>3. \A i \in n + 2 .. Len(q) + 1 :
              i - (n + 1) \in 1 .. Len(q) - n /\ n + (i - (n + 1)) = i - 1
        BY <1>1
    <2>4. ASSUME NEW i \in n + 2 .. Len(q) + 1 PROVE r[i] = q[i - 1]
        <3>1. i \in 1 .. n + 1 + (Len(q) - n) /\ ~ (i <= n + 1)
            BY <1>1
        <3>2. r[i] = right[i - (n + 1)]
            BY <2>2, <3>1
        <3>3. right[i - (n + 1)] = q[n + (i - (n + 1))]
            BY <1>4, <2>3
        <3> QED
            BY <2>3, <3>2, <3>3
    <2>5. n + 1 + (Len(q) - n) = Len(q) + 1 /\ n + 1 \in 1 .. Len(q) + 1
        BY <1>1
    <2>6. \A i \in 1 .. n + 1 : r[i] = l[i]
        BY <1>1, <2>2
    <2>7. (\A i \in 1 .. n : r[i] = q[i]) /\ r[n + 1] = e
        BY <1>1, <2>1, <2>6 DEF l
    <2> QED
        BY <2>2, <2>4, <2>5, <2>7
<1> HIDE DEF r
<1>7. Actors(r) = Actors(q) \cup {a}
    <2>1. ASSUME NEW k \in DOMAIN r PROVE r[k].actor \in Actors(q) \cup {a}
        <3>1. k \in 1 .. n \/ k = n + 1 \/ k \in n + 2 .. Len(q) + 1
            BY <1>1, <1>6
        <3>2. k \in n + 2 .. Len(q) + 1 => k - 1 \in DOMAIN q
            BY <1>1
        <3>3. k \in 1 .. n => k \in DOMAIN q
            BY <1>1
        <3> QED
            BY <1>2, <1>6, <3>1, <3>2, <3>3 DEF Actors
    <2>2. ASSUME NEW k \in DOMAIN q PROVE q[k].actor \in Actors(r)
        <3>1. CASE k <= n
            <4>1. k \in DOMAIN r /\ r[k] = q[k]
                BY <1>1, <1>6, <3>1
            <4> QED
                BY <4>1 DEF Actors
        <3>2. CASE k > n
            <4>1. k + 1 \in DOMAIN r /\ r[k + 1] = q[k]
                BY <1>1, <1>6, <3>2
            <4> QED
                BY <4>1 DEF Actors
        <3> QED
            BY <1>1, <3>1, <3>2
    <2>3. a \in Actors(r)
        BY <1>1, <1>2, <1>6 DEF Actors
    <2> QED
        BY <2>1, <2>2, <2>3 DEF Actors
<1>8. ASSUME Distinct(q), a \notin Actors(q) PROVE Distinct(r)
    <2> DEFINE from(k) == IF k <= n THEN k ELSE k - 1
    <2>1. ASSUME NEW k \in DOMAIN r, k # n + 1
          PROVE  from(k) \in DOMAIN q /\ r[k] = q[from(k)] /\ r[k].actor # a
        <3>1. from(k) \in DOMAIN q /\ r[k] = q[from(k)]
            BY <1>1, <1>6, <2>1
        <3> QED
            BY <1>8, <3>1 DEF Actors
    <2>2. \A j, k \in DOMAIN r : j # n + 1 /\ k # n + 1 /\ from(j) = from(k) => j = k
        BY <1>1, <1>6
    <2> HIDE DEF from
    <2> QED
        BY <1>2, <1>6, <1>8, <2>1, <2>2 DEF Distinct
<1> QED
    BY <1>6, <1>7, <1>8 DEF r

(* What is taken out was there once, and everything else stays.             *)
LEMMA Taken ==
    ASSUME NEW q \in Seq(Entries), NEW a, a # Gone, Distinct(q)
    PROVE  /\ Without(q, a) \in Seq(Entries)
           /\ Actors(Without(q, a)) = Actors(q) \ {a}
           /\ Distinct(Without(q, a))
<1>1. CASE a \notin Actors(q)
    BY <1>1 DEF Without
<1>2. CASE a \in Actors(q)
    <2> DEFINE k == CHOOSE k \in DOMAIN q : q[k].actor = a
               left == SubSeq(q, 1, k - 1)
               right == SubSeq(q, k + 1, Len(q))
               r == left \o right
    <2>1. k \in 1 .. Len(q) /\ q[k].actor = a
        BY <1>2 DEF Actors
    <2>2. Without(q, a) = r
        BY <1>2 DEF Without, RemoveAt
    <2> HIDE DEF k
    <2>3. /\ left \in Seq(Entries) /\ Len(left) = k - 1
          /\ \A i \in 1 .. k - 1 : left[i] = q[i]
        <3>1. \A i \in 1 .. k - 1 : q[i] \in Entries
            BY <2>1
        <3>2. /\ left \in Seq(Entries)
              /\ Len(left) = IF 1 <= k - 1 THEN (k - 1) - 1 + 1 ELSE 0
              /\ \A i \in 1 .. ((k - 1) - 1) + 1 : left[i] = q[(1 + i) - 1]
            BY <2>1, <3>1, SubSeqProperties
        <3> QED
            BY <2>1, <3>2
    <2>4. /\ right \in Seq(Entries) /\ Len(right) = Len(q) - k
          /\ \A i \in 1 .. Len(q) - k : right[i] = q[k + i]
        <3>1. \A i \in k + 1 .. Len(q) : q[i] \in Entries
            BY <2>1
        <3>2. /\ right \in Seq(Entries)
              /\ Len(right) = IF k + 1 <= Len(q) THEN (Len(q) - (k + 1)) + 1 ELSE 0
              /\ \A i \in 1 .. (Len(q) - (k + 1)) + 1 : right[i] = q[((k + 1) + i) - 1]
            BY <2>1, <3>1, SubSeqProperties
        <3> QED
            BY <2>1, <3>2
    <2> HIDE DEF left, right
    <2>5. /\ r \in Seq(Entries) /\ Len(r) = Len(left) + Len(right)
          /\ \A i \in 1 .. Len(left) + Len(right) :
                 r[i] = IF i <= Len(left) THEN left[i] ELSE right[i - Len(left)]
        BY <2>3, <2>4, ConcatProperties, Zenon
    <2> HIDE DEF r
    <2>11. Len(left) + Len(right) = Len(q) - 1 /\ Len(q) \in Nat /\ DOMAIN r = 1 .. Len(q) - 1
        BY <2>1, <2>3, <2>4, <2>5
    <2>12. ASSUME NEW i \in 1 .. Len(q) - 1, i < k PROVE r[i] = q[i]
        <3>1. i \in 1 .. k - 1 /\ i <= Len(left)
            BY <2>1, <2>3, <2>12
        <3>2. r[i] = left[i]
            BY <2>5, <2>11, <3>1
        <3> QED
            BY <2>3, <3>1, <3>2
    <2>13. ASSUME NEW i \in 1 .. Len(q) - 1, i >= k PROVE r[i] = q[i + 1]
        <3>1. /\ i - (k - 1) \in 1 .. Len(q) - k /\ k + (i - (k - 1)) = i + 1
              /\ ~ (i <= Len(left))
            BY <2>1, <2>3, <2>13
        <3>2. r[i] = right[i - (k - 1)]
            BY <2>3, <2>5, <2>11, <3>1
        <3> QED
            BY <2>4, <3>1, <3>2
    <2> DEFINE from(i) == IF i < k THEN i ELSE i + 1
    <2>6. ASSUME NEW i \in DOMAIN r
          PROVE  from(i) \in DOMAIN q /\ r[i] = q[from(i)] /\ from(i) # k
        <3>1. i \in 1 .. Len(q) - 1
            BY <2>11
        <3> QED
            BY <2>1, <2>12, <2>13, <3>1
    <2>7. ASSUME NEW j \in DOMAIN q, j # k
          PROVE  \E i \in DOMAIN r : from(i) = j
        <3>1. CASE j < k
            <4>1. j \in DOMAIN r
                BY <2>1, <2>11, <3>1
            <4> QED
                BY <3>1, <4>1
        <3>2. CASE j > k
            <4>1. j - 1 \in DOMAIN r /\ ~ (j - 1 < k) /\ (j - 1) + 1 = j
                BY <2>1, <2>11, <3>2
            <4> QED
                BY <4>1
        <3> QED
            BY <2>1, <2>7, <3>1, <3>2
    <2>8. \A i, j \in DOMAIN r : from(i) = from(j) => i = j
        BY <2>1, <2>11
    <2> HIDE DEF from
    <2>9. Actors(r) = Actors(q) \ {a}
        <3>1. \A j \in DOMAIN q : q[j].actor = a => j = k
            BY <2>1 DEF Distinct
        <3>2. Actors(r) \subseteq Actors(q) \ {a}
            BY <2>6, <3>1 DEF Actors
        <3>3. Actors(q) \ {a} \subseteq Actors(r)
            BY <2>1, <2>6, <2>7 DEF Actors
        <3> QED
            BY <3>2, <3>3
    <2>10. Distinct(r)
        BY <2>6, <2>8 DEF Distinct
    <2> QED
        BY <2>2, <2>5, <2>9, <2>10
<1> QED
    BY <1>1, <1>2

(* A fall changes no places, and takes no battler's turn but the fallen's.  *)
LEMMA Invalidated ==
    ASSUME NEW q \in Seq(Entries), NEW fallen, Distinct(q)
    PROVE  /\ Invalidate(q, fallen) \in Seq(Entries)
           /\ Len(Invalidate(q, fallen)) = Len(q)
           /\ Distinct(Invalidate(q, fallen))
           /\ Actors(Invalidate(q, fallen)) \subseteq Actors(q) \cup {Gone}
           /\ \A k \in DOMAIN q :
                 Invalidate(q, fallen)[k].actor \in {q[k].actor, Gone}
<1> DEFINE r == Invalidate(q, fallen)
<1>1. /\ DOMAIN r = 1 .. Len(q) /\ Len(q) \in Nat
      /\ \A k \in 1 .. Len(q) :
            r[k] = IF q[k].actor \in fallen THEN [q[k] EXCEPT !.actor = Gone] ELSE q[k]
    BY DEF Invalidate
<1>2. \A k \in 1 .. Len(q) :
         r[k] \in Entries /\ r[k].actor \in {q[k].actor, Gone}
    <2>1. Gone \in Who
        BY DEF Who
    <2>2. \A k \in 1 .. Len(q) : q[k] \in Entries
        OBVIOUS
    <2> QED
        BY <1>1, <2>1, <2>2 DEF Entries
<1>3. r \in [1 .. Len(q) -> Entries]
    <2>1. r = [k \in 1 .. Len(q) |-> r[k]]
        BY DEF Invalidate
    <2> QED
        BY <1>2, <2>1
<1>4. r \in Seq(Entries) /\ Len(r) = Len(q)
    BY <1>1, <1>3
<1> HIDE DEF r
<1> QED
    BY <1>1, <1>2, <1>4 DEF r, Distinct, Actors

(* Battlers with an entry each cannot have more entries than there are.     *)
LEMMA Short ==
    ASSUME NEW q \in Seq(Entries), Distinct(q), Gone \notin Actors(q),
           NEW S, IsFiniteSet(S), Actors(q) \subseteq S
    PROVE  Len(q) <= Cardinality(S)
<1> DEFINE f == [k \in 1 .. Len(q) |-> q[k].actor]
<1>1. f \in [1 .. Len(q) -> S]
    BY DEF Actors
<1>2. \A j, k \in 1 .. Len(q) : f[j] = f[k] => j = k
    BY DEF Distinct, Actors
<1>3. f \in Injection(1 .. Len(q), S)
    BY <1>1, <1>2 DEF Injection, IsInjective
<1> HIDE DEF f
<1>4. Cardinality(1 .. Len(q)) <= Cardinality(S)
    BY <1>3, FS_Injection
<1>5. Cardinality(1 .. Len(q)) = Len(q)
    <2>1. 1 \in Int /\ Len(q) \in Int /\ (IF 1 > Len(q) THEN 0 ELSE Len(q) - 1 + 1) = Len(q)
        OBVIOUS
    <2>2. Cardinality(1 .. Len(q)) = IF 1 > Len(q) THEN 0 ELSE Len(q) - 1 + 1
        BY <2>1, FS_Interval, Zenon
    <2> QED
        BY <2>1, <2>2
<1> QED
    BY <1>4, <1>5

(* All battlers, and one of the party replaced by the party as one actor,   *)
(* leave the queue a free entry.                                            *)
LEMMA Room ==
    ASSUME NEW q \in Seq(Entries), Distinct(q),
           \/ Actors(q) \subseteq PartySide \cup Enemies
           \/ \E m \in Members :
                 Actors(q) \subseteq {Collective} \cup ((PartySide \cup Enemies) \ {m})
    PROVE  Len(q) < QueueCount
<1> DEFINE all == Members \cup {Capsule} \cup Enemies
<1>1. IsFiniteSet(all) /\ Cardinality(all) <= PartySize + 1 + EnemyCount /\ Cardinality(all) \in Nat
    <2>1. PartySize \in Nat /\ EnemyCount \in Nat /\ PartySize >= 1 /\ EnemyCount >= 1
        BY Indexes
    <2>2. IsFiniteSet(Members) /\ Cardinality(Members) = PartySize
        <3>1. /\ 0 \in Int /\ PartySize - 1 \in Int
              /\ (IF 0 > PartySize - 1 THEN 0 ELSE (PartySize - 1) - 0 + 1) = PartySize
            BY <2>1
        <3>2. /\ IsFiniteSet(0 .. PartySize - 1)
              /\ Cardinality(0 .. PartySize - 1)
                     = IF 0 > PartySize - 1 THEN 0 ELSE (PartySize - 1) - 0 + 1
            BY <3>1, FS_Interval, Zenon
        <3> QED
            BY <3>1, <3>2 DEF Members
    <2>3. IsFiniteSet(Enemies) /\ Cardinality(Enemies) = EnemyCount
        <3>1. /\ 5 \in Int /\ 4 + EnemyCount \in Int
              /\ (IF 5 > 4 + EnemyCount THEN 0 ELSE (4 + EnemyCount) - 5 + 1) = EnemyCount
            BY <2>1
        <3>2. /\ IsFiniteSet(5 .. 4 + EnemyCount)
              /\ Cardinality(5 .. 4 + EnemyCount)
                     = IF 5 > 4 + EnemyCount THEN 0 ELSE (4 + EnemyCount) - 5 + 1
            BY <3>1, FS_Interval, Zenon
        <3> QED
            BY <3>1, <3>2 DEF Enemies
    <2>4. /\ IsFiniteSet(Members \cup {Capsule})
          /\ Cardinality(Members \cup {Capsule}) = PartySize + 1
        BY <2>2, FS_AddElement, Indexes
    <2>5. (Members \cup {Capsule}) \cap Enemies = {}
        BY Indexes
    <2>6. /\ IsFiniteSet(all)
          /\ Cardinality(all) = Cardinality(Members \cup {Capsule}) + Cardinality(Enemies)
                                - Cardinality((Members \cup {Capsule}) \cap Enemies)
        BY <2>3, <2>4, FS_Union, Zenon
    <2>7. Cardinality((Members \cup {Capsule}) \cap Enemies) = 0
        BY <2>5, FS_EmptySet, Zenon
    <2> QED
        BY <2>1, <2>3, <2>4, <2>6, <2>7
<1>2. Gone \notin Actors(q)
    <2>1. Actors(q) \subseteq {Collective} \cup PartySide \cup Enemies
        OBVIOUS
    <2>2. Gone # Collective /\ Gone \notin PartySide /\ Gone \notin Enemies
        BY Indexes
    <2> QED
        BY <2>1, <2>2
<1>3. CASE Actors(q) \subseteq PartySide \cup Enemies
    <2>1. Actors(q) \subseteq all
        BY <1>3, Indexes
    <2>2. Len(q) <= Cardinality(all)
        BY <1>1, <1>2, <2>1, Short
    <2> QED
        BY <1>1, <2>2, Indexes
<1>4. CASE \E m \in Members :
              Actors(q) \subseteq {Collective} \cup ((PartySide \cup Enemies) \ {m})
    <2>1. PICK m \in Members :
              Actors(q) \subseteq {Collective} \cup ((PartySide \cup Enemies) \ {m})
        BY <1>4
    <2> DEFINE rest == all \ {m}
    <2>2. IsFiniteSet(rest) /\ Cardinality(rest) = Cardinality(all) - 1
        BY <1>1, FS_RemoveElement
    <2>3. Collective \notin rest
        <3>1. Collective # Capsule /\ Collective \notin Members /\ Collective \notin Enemies
            BY Indexes
        <3> QED
            BY <3>1
    <2> HIDE DEF rest
    <2>4. IsFiniteSet(rest \cup {Collective}) /\ Cardinality(rest \cup {Collective}) = Cardinality(all)
        BY <1>1, <2>2, <2>3, FS_AddElement
    <2>5. Actors(q) \subseteq rest \cup {Collective}
        BY <2>1, Indexes DEF rest
    <2>6. Len(q) <= Cardinality(rest \cup {Collective})
        BY <1>2, <2>4, <2>5, Short
    <2> QED
        BY <1>1, <2>4, <2>6, Indexes
<1> QED
    BY <1>3, <1>4

-----------------------------------------------------------------------------
(* The queue has one entry for each battler; while it is filled its         *)
(* battlers are among those whose turn to be queued has come, and if the    *)
(* party acts as one, some member is left out, who is not confused.         *)
Orderly(m) == Free(m, NoCommand)
LeftOut == {m \in Members : "confused" \notin status[m] /\ m \notin Actors(queue)}
QueueInv ==
    /\ phase \in {"asking", "party"} => cursor \in Members
    /\ phase = "enemies" => cursor \in Enemies
    /\ phase = "turns" => cursor \in Nat \ {0}
    /\ Distinct(queue) /\ Len(queue) < QueueCount
    /\ Actors(queue) \cap Enemies \subseteq records
    /\ phase = "menu" => queue = <<>>
    /\ phase \in {"menu", "asking"} => \E m \in Members : Free(m, Blocked)
    /\ phase = "asking" => Actors(queue) \subseteq {m \in Members : m <= cursor /\ Orderly(m)}
    /\ phase = "party" =>
          Actors(queue) \subseteq
              {Collective} \cup {m \in Members : m < cursor \/ "confused" \notin status[m]}
    /\ phase = "capsule" => Actors(queue) \subseteq {Collective} \cup Members
    /\ phase = "enemies" =>
          Actors(queue) \subseteq {Collective} \cup PartySide \cup {e \in Enemies : e < cursor}
    /\ phase \in {"party", "capsule", "enemies"} /\ Collective \in Actors(queue) => LeftOut # {}

(* Commands are kept for members asked before, and for the one asked again; *)
(* none of them reserves an item in the menu.                               *)
ChoiceInv ==
    /\ phase = "menu" => /\ \A m \in Members : choice[m] = None
                         /\ \A i \in Items : bag[i] = saved[i]
    /\ phase = "asking" =>
          \A m \in Members : choice[m] # None => m <= cursor /\ Orderly(m)

(* Turns begin with nobody having acted.                                    *)
TurnInv ==
    /\ phase \in {"menu", "asking", "party", "capsule", "enemies"} => ~ acted
    /\ TargetsStand

(* Who was paid for is down and nothing else: poison cannot fell it again.  *)
PaidInv ==
    /\ PaidOnce
    /\ \A e \in Enemies : paid[e] # 0 => status[e] = {"down"} /\ e \in records

IInv == TypeOK /\ QueueInv /\ ChoiceInv /\ ItemsCovered /\ TurnInv /\ PaidInv

-----------------------------------------------------------------------------
(* Types.                                                                   *)

LEMMA ChoosersFinite ==
    ASSUME NEW i, NEW n
    PROVE  /\ IsFiniteSet(Choosers(i, n)) /\ IsFiniteSet(Users(i))
           /\ Cardinality(Choosers(i, n)) \in Nat /\ Cardinality(Users(i)) \in Nat
<1>1. IsFiniteSet(Members)
    <2>1. 0 \in Int /\ PartySize - 1 \in Int
        BY Indexes
    <2> QED
        BY <2>1, FS_Interval, Zenon DEF Members
<1>2. Choosers(i, n) \in SUBSET Members /\ Users(i) \in SUBSET Members
    BY DEF Choosers, Users
<1>3. IsFiniteSet(Choosers(i, n)) /\ IsFiniteSet(Users(i))
    BY <1>1, <1>2, FS_Subset, Zenon
<1> DEFINE C == Choosers(i, n)
           U == Users(i)
<1> HIDE DEF C, U
<1>4. Cardinality(C) \in Nat /\ Cardinality(U) \in Nat
    BY <1>3, FS_CardinalityType DEF C, U
<1> QED
    BY <1>3, <1>4 DEF C, U

LEMMA ReservedType ==
    ASSUME NEW n, saved \in [Items -> Nat]
    PROVE  Reserved(n) \in [Items -> Nat]
<1>1. ASSUME NEW i \in Items
      PROVE  (IF Cardinality(Choosers(i, n)) <= saved[i]
              THEN saved[i] - Cardinality(Choosers(i, n)) ELSE 0) \in Nat
    <2>1. Cardinality(Choosers(i, n)) \in Nat
        BY ChoosersFinite, Zenon
    <2>2. saved[i] \in Nat
        OBVIOUS
    <2> QED
        BY <2>1, <2>2
<1> QED
    BY <1>1 DEF Reserved

(* What a turn does to the conditions, the bag and the rewards.             *)
Battlers == PartySide \cup Enemies
Statuses == [Battlers -> SUBSET ({"down"} \cup Ailments)]

LEMMA TreatedType ==
    ASSUME NEW power \in Powers, NEW takers, NEW fallen, status \in Statuses
    PROVE  /\ Treated(power, takers) \in Statuses
           /\ Felled(Treated(power, takers), fallen) \in Statuses
           /\ Felled(status, fallen) \in Statuses
<1>1. power.gives \subseteq Ailments
    BY BattleAssumption
<1>2. Treated(power, takers) \in Statuses
    BY <1>1 DEF Treated, Statuses
<1>3. ASSUME NEW st \in Statuses PROVE Felled(st, fallen) \in Statuses
    BY DEF Felled, Statuses
<1> QED
    BY <1>2, <1>3

LEMMA OutcomeType ==
    ASSUME NEW st \in Statuses, NEW present, Outcome(st, present),
           result \in {"none", "won", "lost", "escaped", "left"}, cursor \in Nat
    PROVE  /\ status' \in Statuses /\ acted' = TRUE
           /\ result' \in {"none", "won", "lost", "escaped", "left"}
           /\ phase' \in {"turns", "over"} /\ cursor' \in Nat
           /\ phase' = "turns" => /\ status' = st /\ cursor' = cursor + 1
                                 /\ ~ PartyDown(st) /\ ~ EnemiesDown(st, present)
           /\ \A e \in Enemies : status'[e] = st[e]
<1>1. Cured(st) \in Statuses /\ \A e \in Enemies : Cured(st)[e] = st[e]
    BY Indexes DEF Cured, Statuses, Battlers
<1> QED
    BY <1>1 DEF Outcome, Go

LEMMA TurnTypes ==
    ASSUME TypeOK, NEW left \in Statuses, NEW fallen
    PROVE  BagUsed \in [Items -> Nat] /\ Payment(left, fallen) \in [Enemies -> Nat]
<1>1. BagUsed \in [Items -> Nat]
    <2>1. \A i \in Items : bag[i] \in Nat
        BY DEF TypeOK
    <2>2. ASSUME NEW i \in Items
          PROVE  (IF i = UsedItem /\ bag[i] > 0 THEN bag[i] - 1 ELSE bag[i]) \in Nat
        BY <2>1
    <2> QED
        BY <2>2 DEF BagUsed
<1>2. Payment(left, fallen) \in [Enemies -> Nat]
    <2>1. \A e \in Enemies : paid[e] \in Nat
        BY DEF TypeOK
    <2>2. ASSUME NEW e \in Enemies
          PROVE  ((IF "down" \in status[e] /\ "down" \notin left[e] THEN 0 ELSE paid[e])
                  + (IF e \in fallen THEN 1 ELSE 0)) \in Nat
        BY <2>1
    <2> QED
        BY <2>2 DEF Payment
<1> QED
    BY <1>1, <1>2

LEMMA QueueType == TypeOK => queue \in Seq(Entries)
BY DEF TypeOK, Entries, Who

(* An entry at the cursor is one of the battlers' or of their stand-ins.    *)
LEMMA ActorType ==
    ASSUME TypeOK, QueueInv, InTurns
    PROVE  Actor \in Who /\ cursor \in DOMAIN queue /\ Actor \in Actors(queue)
<1>1. queue \in Seq(Entries) /\ cursor \in Nat \ {0}
    BY QueueType DEF InTurns, QueueInv
<1>2. cursor \in 1 .. Len(queue)
    BY <1>1 DEF InTurns
<1>3. queue[cursor] \in Entries /\ cursor \in DOMAIN queue
    BY <1>1, <1>2
<1> QED
    BY <1>3 DEF Actor, Actors, Entries

(* The steps that change no conditions, and those that do.                  *)
Filling ==
    \/ BeginRound \/ ChooseMembers \/ Leave \/ PassMember \/ StepBack
    \/ \E p \in Priorities : ChooseCollective(p)
    \/ \E c \in Items \cup {Act}, p \in Priorities : CommandMember(c, p)
    \/ \E p \in Priorities : QueueParty(p) \/ QueueCapsule(p) \/ QueueEnemy(p)
Fighting ==
    \/ LoseTurn \/ Escape \/ SkipGone
    \/ \E side \in {PartySide, records} : SearchForever(side) \/ Flee(side) \/ Summon(side)
    \/ \E side \in {PartySide, records}, power \in Powers : TakeTurn(side, power)
Swapping == \E m, n \in Members : SwapPartyOrder(m, n)

LEMMA Steps == Next => Filling \/ Fighting \/ Swapping \/ PoisonTick \/ Recover \/ UNCHANGED vars
BY DEF Next, Commands, Queueing, Turns, Ended, Filling, Fighting, Swapping

-----------------------------------------------------------------------------
(* Rewards.                                                                 *)

(* A step that pays for nobody and leaves those paid for as they are.       *)
LEMMA PaidKept ==
    ASSUME PaidInv, paid' = paid, records \subseteq records',
           \A e \in Enemies : paid[e] # 0 => status'[e] = status[e]
    PROVE  PaidInv'
BY DEF PaidInv, PaidOnce

LEMMA TakeTurnPaid ==
    ASSUME TypeOK, QueueInv, PaidInv, NEW side \in {PartySide, records}, NEW power \in Powers,
           TakeTurn(side, power)
    PROVE  PaidInv'
<1>1. PICK targets \in SUBSET (side \cup {Actor}) : \E takers \in SUBSET targets :
          LET left == Treated(power, takers) IN
          \E fallen \in SUBSET Fallible(left, targets) :
              /\ Outcome(Felled(left, fallen), records)
              /\ queue' = Invalidate(queue, fallen)
              /\ paid' = Payment(left, fallen)
    BY DEF TakeTurn
<1>10. PICK takers \in SUBSET targets :
          LET left == Treated(power, takers) IN
          \E fallen \in SUBSET Fallible(left, targets) :
              /\ Outcome(Felled(left, fallen), records)
              /\ paid' = Payment(left, fallen)
    BY <1>1
<1> DEFINE left == Treated(power, takers)
<1>2. PICK fallen \in SUBSET Fallible(left, targets) :
          /\ Outcome(Felled(left, fallen), records)
          /\ paid' = Payment(left, fallen)
    BY <1>10
<1>3. status \in Statuses /\ left \in Statuses /\ Felled(left, fallen) \in Statuses
    BY TreatedType DEF TypeOK, Statuses, Battlers
<1>4. \A e \in Enemies : status'[e] = Felled(left, fallen)[e]
    BY <1>2, <1>3, OutcomeType DEF TypeOK
<1>5. InTurns /\ records' = records
    BY DEF TakeTurn, Aimed, Able
<1>6. Actor \in Enemies => Actor \in records
    BY <1>5, ActorType DEF QueueInv
<1>7. targets \cap Enemies \subseteq records
    <2>1. PartySide \cap Enemies = {}
        BY Indexes
    <2> QED
        BY <1>6, <2>1
<1>8. ASSUME NEW e \in Enemies
      PROVE  paid'[e] <= 1 /\ (paid'[e] # 0 => status'[e] = {"down"} /\ e \in records')
    <2>1. /\ paid'[e] = (IF "down" \in status[e] /\ "down" \notin left[e] THEN 0 ELSE paid[e])
                        + (IF e \in fallen THEN 1 ELSE 0)
          /\ paid[e] \in Nat /\ paid[e] <= 1
          /\ paid[e] # 0 => status[e] = {"down"} /\ e \in records
        BY <1>2 DEF Payment, PaidInv, PaidOnce, TypeOK
    <2>2. status'[e] = IF e \in fallen THEN {"down"} ELSE left[e]
        BY <1>3, <1>4 DEF Felled, Statuses, Battlers
    <2>3. e \in fallen => "down" \notin left[e] /\ e \in records
        BY <1>2, <1>7 DEF Fallible
    <2>4. status[e] = {"down"} /\ "down" \in left[e] => left[e] = {"down"}
        <3>1. left[e] = IF e \notin takers THEN status[e]
                        ELSE LET rest == status[e] \ power.cures
                             IN IF "down" \in rest THEN rest ELSE rest \cup power.gives
            BY <1>3 DEF Treated, Statuses, Battlers
        <3>2. "down" \notin power.gives
            BY BattleAssumption
        <3> QED
            BY <3>1, <3>2
    <2>5. CASE e \in fallen
        BY <1>5, <2>1, <2>2, <2>3, <2>5
    <2>6. CASE e \notin fallen
        BY <1>5, <2>1, <2>2, <2>4, <2>6
    <2> QED
        BY <2>5, <2>6
<1> QED
    BY <1>8 DEF PaidInv, PaidOnce

LEMMA PaidStep ==
    ASSUME TypeOK, QueueInv, PaidInv, [Next]_vars
    PROVE  PaidInv'
<1>1. CASE Filling
    <2>1. status' = status /\ records' = records /\ paid' = paid
        BY <1>1 DEF Filling, BeginRound, ChooseMembers, Leave, PassMember, StepBack, ChooseCollective,
               CommandMember, QueueParty, QueueCapsule, QueueEnemy, fighters
    <2> QED
        BY <2>1, PaidKept
<1>2. CASE Fighting
    <2> DEFINE Same == records' = records /\ paid' = paid /\ \A e \in Enemies : status'[e] = status[e]
    <2>1. status \in Statuses /\ cursor \in Nat /\ result \in {"none", "won", "lost", "escaped", "left"}
        BY DEF TypeOK, Statuses, Battlers
    <2>2. ASSUME Outcome(status, records) PROVE \A e \in Enemies : status'[e] = status[e]
        BY <2>1, <2>2, OutcomeType
    <2>3. CASE LoseTurn
        BY <2>2, <2>3, PaidKept DEF LoseTurn
    <2>4. CASE SkipGone
        BY <2>4, PaidKept DEF SkipGone, fighters
    <2>5. CASE Escape
        BY <2>2, <2>5, PaidKept DEF Escape
    <2>6. ASSUME NEW side \in {PartySide, records}, SearchForever(side) PROVE PaidInv'
        BY <2>6, PaidKept DEF SearchForever, fighters
    <2>7. ASSUME NEW side \in {PartySide, records}, Flee(side) PROVE PaidInv'
        <3> DEFINE st == [status EXCEPT ![Actor] = @ \cup {"down"}]
        <3>1. Outcome(st, records) /\ records' = records /\ paid' = paid /\ Actor \in Enemies \cup {Capsule}
            BY <2>7 DEF Flee
        <3>2. st \in Statuses
            BY <2>1 DEF Statuses
        <3>3. \A e \in Enemies : status'[e] = st[e]
            BY <2>1, <3>1, <3>2, OutcomeType
        <3>4. Actor # Collective /\ Actor \in Enemies => "down" \notin status[Actor]
            BY <2>7 DEF Flee, Aimed, Able, Unable, Free, NoTurn
        <3>5. \A e \in Enemies : e # Collective
            BY Indexes
        <3>6. \A e \in Enemies : paid[e] # 0 => status[e] = {"down"}
            BY DEF PaidInv
        <3>7. \A e \in Enemies : paid[e] # 0 => e # Actor
            BY <3>4, <3>5, <3>6
        <3> QED
            BY <2>1, <3>1, <3>3, <3>7, PaidKept DEF Statuses, Battlers
    <2>8. ASSUME NEW side \in {PartySide, records}, Summon(side) PROVE PaidInv'
        <3>1. PICK f \in Enemies \ records :
                 /\ records' = records \cup {f}
                 /\ Outcome([status EXCEPT ![f] = {}], records \cup {f})
            BY <2>8 DEF Summon
        <3> DEFINE st == [status EXCEPT ![f] = {}]
        <3>2. st \in Statuses
            BY <2>1 DEF Statuses
        <3>3. \A e \in Enemies : status'[e] = st[e]
            BY <2>1, <3>1, <3>2, OutcomeType
        <3>4. paid' = paid /\ \A e \in Enemies : paid[e] # 0 => e # f
            BY <2>8 DEF Summon, PaidInv
        <3> QED
            BY <2>1, <3>1, <3>3, <3>4, PaidKept DEF Statuses, Battlers
    <2>9. ASSUME NEW side \in {PartySide, records}, NEW power \in Powers, TakeTurn(side, power)
          PROVE  PaidInv'
        BY <2>9, TakeTurnPaid
    <2> QED
        BY <1>2, <2>3, <2>4, <2>5, <2>6, <2>7, <2>8, <2>9 DEF Fighting
<1>3. CASE Swapping
    <2>1. PICK m, n \in Members : SwapPartyOrder(m, n)
        BY <1>3 DEF Swapping
    <2>2. status' = [status EXCEPT ![m] = status[n], ![n] = status[m]]
        BY <2>1 DEF SwapPartyOrder
    <2>3. \A e \in Enemies : e # m /\ e # n
        BY Indexes
    <2> QED
        BY <2>1, <2>2, <2>3, PaidKept DEF SwapPartyOrder, TypeOK
<1>4. CASE PoisonTick
    <2>1. PICK fallen \in SUBSET {b \in PartySide \cup records : "poison" \in status[b]} :
              /\ status' = Poisoned(fallen)
              /\ paid' = [e \in Enemies |-> IF e \in fallen THEN paid[e] + 1 ELSE paid[e]]
        BY <1>4 DEF PoisonTick
    <2>2. ASSUME NEW e \in Enemies
          PROVE  paid'[e] <= 1 /\ (paid'[e] # 0 => status'[e] = {"down"} /\ e \in records')
        <3>1. /\ paid[e] \in Nat /\ paid[e] <= 1
              /\ paid[e] # 0 => status[e] = {"down"} /\ e \in records
            BY DEF PaidInv, PaidOnce, TypeOK
        <3>2. status'[e] = IF e \in fallen THEN {"down"} ELSE status[e]
            BY <2>1 DEF Poisoned, Felled, TypeOK
        <3>3. e \in fallen => e \in records /\ paid[e] = 0
            <4>1. e \in fallen => e \in PartySide \cup records /\ "poison" \in status[e]
                BY <2>1
            <4>2. e \notin PartySide
                BY Indexes
            <4> QED
                BY <3>1, <4>1, <4>2
        <3>4. records' = records
            BY <1>4 DEF PoisonTick
        <3> QED
            BY <2>1, <3>1, <3>2, <3>3, <3>4
    <2> QED
        BY <2>2 DEF PaidInv, PaidOnce
<1>5. CASE Recover
    <2>1. PICK cures :
              status' = [b \in DOMAIN status |->
                            IF b \in Afflicted THEN status[b] \ cures[b] ELSE status[b]]
        BY <1>5 DEF Recover
    <2>2. ASSUME NEW e \in Enemies, paid[e] # 0 PROVE status'[e] = status[e]
        <3>1. e \notin Afflicted
            BY <2>2 DEF PaidInv, Afflicted
        <3>2. e \in DOMAIN status
            BY DEF TypeOK
        <3> QED
            BY <2>1, <3>1, <3>2
    <2> QED
        BY <1>5, <2>2, PaidKept DEF Recover
<1>6. CASE UNCHANGED vars
    BY <1>6, PaidKept DEF vars
<1> QED
    BY <1>1, <1>2, <1>3, <1>4, <1>5, <1>6, Steps

-----------------------------------------------------------------------------
(* Targets.                                                                 *)

(* What the outcome lets go on has somebody standing on each side.          *)
LEMMA OutcomeTurns ==
    ASSUME TypeOK, NEW st \in Statuses, Outcome(st, records')
    PROVE  TurnInv'
<1>1. /\ phase' \in {"turns", "over"}
      /\ phase' = "turns" => /\ status' = st
                            /\ ~ PartyDown(st) /\ ~ EnemiesDown(st, records')
    BY OutcomeType DEF TypeOK
<1>2. phase' = "turns" => ~ PartyDown(status') /\ ~ EnemiesDown(status', records')
    BY <1>1
<1> QED
    BY <1>1, <1>2 DEF TurnInv, TargetsStand, PartyDown, EnemiesDown, Standing

LEMMA TurnStep ==
    ASSUME TypeOK, TurnInv, [Next]_vars
    PROVE  TurnInv'
<1> DEFINE Before == phase \in {"menu", "asking", "party", "capsule", "enemies"}
<1>1. CASE Filling
    <2>1. CASE BeginRound
        BY <2>1 DEF BeginRound, EnemyPhase, Go, TurnInv, TargetsStand
    <2>2. CASE \/ ChooseMembers \/ Leave \/ PassMember \/ StepBack
               \/ \E p \in Priorities : ChooseCollective(p)
               \/ \E c \in Items \cup {Act}, p \in Priorities : CommandMember(c, p)
               \/ \E p \in Priorities : QueueParty(p) \/ QueueCapsule(p) \/ QueueEnemy(p)
        <3>1. Before /\ acted' = acted /\ phase' # "searching"
            BY <2>2 DEF ChooseMembers, Leave, PassMember, StepBack, ChooseCollective, CommandMember,
                   QueueParty, QueueCapsule, QueueEnemy, NextMember, EnemyPhase, Go
        <3> QED
            BY <3>1 DEF TurnInv, TargetsStand
    <2> QED
        BY <1>1, <2>1, <2>2 DEF Filling
<1>2. CASE Fighting
    <2>1. status \in Statuses
        BY DEF TypeOK, Statuses, Battlers
    <2>2. CASE LoseTurn
        BY <2>1, <2>2, OutcomeTurns DEF LoseTurn
    <2>3. CASE SkipGone
        BY <2>3 DEF SkipGone, InTurns, Go, fighters, TurnInv, TargetsStand, PartyDown, EnemiesDown,
               Standing
    <2>4. CASE Escape
        <3>1. CASE Outcome(status, records)
            BY <2>1, <2>4, <3>1, OutcomeTurns DEF Escape
        <3>2. CASE phase' = "over"
            BY <3>2 DEF TurnInv, TargetsStand
        <3> QED
            BY <2>4, <3>1, <3>2 DEF Escape, Go
    <2>5. ASSUME NEW side \in {PartySide, records}, SearchForever(side) PROVE TurnInv'
        <3>1. phase = "turns" /\ phase' = "searching" /\ acted' = acted /\ Standing(status, side) = {}
            BY <2>5 DEF SearchForever, Able, InTurns, Go
        <3>2. Members \subseteq PartySide
            BY Indexes
        <3>3. ~ acted
            BY <3>1, <3>2 DEF TurnInv, TargetsStand, PartyDown, EnemiesDown, Standing
        <3> QED
            BY <3>1, <3>3 DEF TurnInv, TargetsStand
    <2>6. ASSUME NEW side \in {PartySide, records}, Flee(side) PROVE TurnInv'
        <3> DEFINE st == [status EXCEPT ![Actor] = @ \cup {"down"}]
        <3>1. Outcome(st, records') /\ st \in Statuses
            BY <2>1, <2>6 DEF Flee, Statuses
        <3> QED
            BY <3>1, OutcomeTurns
    <2>7. ASSUME NEW side \in {PartySide, records}, Summon(side) PROVE TurnInv'
        <3>1. PICK f \in Enemies \ records :
                 /\ records' = records \cup {f}
                 /\ Outcome([status EXCEPT ![f] = {}], records \cup {f})
            BY <2>7 DEF Summon
        <3> DEFINE st == [status EXCEPT ![f] = {}]
        <3>2. Outcome(st, records') /\ st \in Statuses
            BY <2>1, <3>1 DEF Statuses
        <3> QED
            BY <3>2, OutcomeTurns
    <2>8. ASSUME NEW side \in {PartySide, records}, NEW power \in Powers, TakeTurn(side, power)
          PROVE  TurnInv'
        <3>1. PICK takers, fallen :
                 Outcome(Felled(Treated(power, takers), fallen), records)
            BY <2>8 DEF TakeTurn
        <3>2. records' = records /\ Felled(Treated(power, takers), fallen) \in Statuses
            BY <2>1, <2>8, TreatedType DEF TakeTurn
        <3> QED
            BY <3>1, <3>2, OutcomeTurns
    <2> QED
        BY <1>2, <2>2, <2>3, <2>4, <2>5, <2>6, <2>7, <2>8 DEF Fighting
<1>3. CASE Swapping \/ PoisonTick \/ Recover
    <2>1. /\ phase' \in {"menu", "recovery", "frame"}
          /\ phase' = "menu" => phase = "menu" /\ acted' = acted
        BY <1>3 DEF Swapping, SwapPartyOrder, PoisonTick, Recover, Go
    <2> QED
        BY <2>1 DEF TurnInv, TargetsStand
<1>4. CASE UNCHANGED vars
    BY <1>4 DEF vars, TurnInv, TargetsStand, PartyDown, EnemiesDown, Standing
<1> QED
    BY <1>1, <1>2, <1>3, <1>4, Steps

-----------------------------------------------------------------------------
(* The types again.                                                         *)

LEMMA FillingType ==
    ASSUME TypeOK, QueueInv, Filling
    PROVE  TypeOK'
<1>1. queue \in Seq(Entries) /\ Distinct(queue)
    BY QueueType DEF QueueInv
<1>2. /\ Members \cup {Capsule} \subseteq Nat /\ Enemies \subseteq Nat /\ PartySide \subseteq Who
      /\ Collective \in Who /\ Enemies \subseteq Who /\ Members \subseteq PartySide
    BY Indexes DEF Who, Capsule
<1>3. choice \in [Members -> Items \cup {None, Act}] /\ bag \in [Items -> Nat] /\ saved \in [Items -> Nat]
    BY DEF TypeOK
<1>4. /\ status' = status /\ records' = records /\ modes' = modes /\ paid' = paid
      /\ acted' \in BOOLEAN /\ result' \in {result, "left"}
      /\ phase' \in Phases /\ cursor' \in Nat
    <2>1. cursor \in Nat /\ cursor + 1 \in Nat /\ acted \in BOOLEAN
        BY DEF TypeOK
    <2>5. result' \in {result, "left"}
        BY DEF Filling, BeginRound, ChooseMembers, Leave, PassMember, StepBack,
               ChooseCollective, CommandMember, QueueParty, QueueCapsule, QueueEnemy, fighters
    <2>2. status' = status /\ records' = records /\ modes' = modes /\ paid' = paid
        BY DEF Filling, BeginRound, ChooseMembers, Leave, PassMember, StepBack, ChooseCollective,
               CommandMember, QueueParty, QueueCapsule, QueueEnemy, fighters
    <2>3. acted' \in BOOLEAN
        BY <2>1 DEF Filling, BeginRound, ChooseMembers, Leave, PassMember, StepBack, ChooseCollective,
               CommandMember, QueueParty, QueueCapsule, QueueEnemy
    <2>4. phase' \in Phases /\ cursor' \in Nat
        <3>1. \A m \in Members : m \in Nat
            BY <1>2
        <3>2. CASE StepBack
            BY <3>1, <3>2 DEF StepBack, Go, Phases
        <3>3. CASE BeginRound \/ ChooseMembers \/ Leave \/ PassMember
            BY <2>1, <3>3 DEF BeginRound, ChooseMembers, Leave, PassMember, NextMember, EnemyPhase,
                   Go, Phases
        <3>4. ASSUME NEW p \in Priorities,
                     \/ ChooseCollective(p) \/ QueueParty(p) \/ QueueCapsule(p) \/ QueueEnemy(p)
              PROVE  phase' \in Phases /\ cursor' \in Nat
            BY <2>1, <3>4 DEF ChooseCollective, QueueParty, QueueCapsule, QueueEnemy,
                   EnemyPhase, Go, Phases
        <3>5. ASSUME NEW c \in Items \cup {Act}, NEW p \in Priorities, CommandMember(c, p)
              PROVE  phase' \in Phases /\ cursor' \in Nat
            BY <2>1, <3>5 DEF CommandMember, NextMember, Go, Phases
        <3> QED
            BY <3>2, <3>3, <3>4, <3>5 DEF Filling
    <2> QED
        BY <2>2, <2>3, <2>4, <2>5
<1>5. queue' \in Seq(Entries)
    <2>1. CASE BeginRound \/ ChooseMembers \/ Leave \/ PassMember
        <3>1. queue' = <<>> \/ queue' = queue
            BY <2>1 DEF BeginRound, ChooseMembers, Leave, PassMember
        <3>2. <<>> \in Seq(Entries)
            OBVIOUS
        <3> QED
            BY <1>1, <3>1, <3>2, Zenon
    <2>2. cursor \in Nat /\ Gone \notin Members
        BY Indexes DEF TypeOK
    <2>3. phase = "asking" => Asked \in Seq(Entries)
        BY <1>1, <2>2, Taken DEF Asked, QueueInv
    <2>4. CASE StepBack
        BY <2>3, <2>4 DEF StepBack
    <2>5. ASSUME NEW p \in Priorities, ChooseCollective(p) PROVE queue' \in Seq(Entries)
        BY <1>1, <1>2, <2>5, Inserted DEF ChooseCollective
    <2>6. ASSUME NEW c \in Items \cup {Act}, NEW p \in Priorities, CommandMember(c, p)
          PROVE  queue' \in Seq(Entries)
        <3>1. Asked \in Seq(Entries) /\ cursor \in Who /\ queue' = Insert(Asked, cursor, p)
            BY <1>2, <2>3, <2>6 DEF CommandMember, QueueInv
        <3> QED
            BY <3>1, Inserted
    <2>7. ASSUME NEW p \in Priorities, QueueParty(p) PROVE queue' \in Seq(Entries)
        <3>1. cursor \in Who /\ queue' \in {queue, Insert(queue, cursor, p)}
            BY <1>2, <2>7 DEF QueueParty, QueueInv
        <3> QED
            BY <1>1, <3>1, Inserted
    <2>8. ASSUME NEW p \in Priorities, QueueCapsule(p) PROVE queue' \in Seq(Entries)
        <3>1. queue' = queue \/ (Capsule \in Who /\ queue' = Insert(queue, Capsule, p))
            <4>1. CASE HasCapsule
                <5>1. Capsule \in Who
                    BY <4>1 DEF PartySide, Who
                <5> QED
                    BY <2>8, <5>1, Zenon DEF QueueCapsule
            <4>2. CASE ~ HasCapsule
                BY <2>8, <4>2, Zenon DEF QueueCapsule
            <4> QED
                BY <4>1, <4>2
        <3> QED
            BY <1>1, <3>1, Inserted
    <2>9. ASSUME NEW p \in Priorities, QueueEnemy(p) PROVE queue' \in Seq(Entries)
        <3>1. cursor \in Who /\ queue' \in {queue, Insert(queue, cursor, p)}
            BY <1>2, <2>9 DEF QueueEnemy, QueueInv
        <3> QED
            BY <1>1, <3>1, Inserted
    <2> QED
        BY <2>1, <2>4, <2>5, <2>6, <2>7, <2>8, <2>9 DEF Filling
<1>6. /\ choice' \in [Members -> Items \cup {None, Act}]
      /\ bag' \in [Items -> Nat] /\ saved' \in [Items -> Nat]
    <2>1. Cleared(choice) \in [Members -> Items \cup {None, Act}]
        BY DEF Cleared
    <2>2. \A m \in Members : Reserved(m) \in [Items -> Nat]
        BY <1>3, ReservedType
    <2>3. CASE StepBack
        BY <1>3, <2>1, <2>2, <2>3 DEF StepBack
    <2>4. ASSUME NEW c \in Items \cup {Act}, NEW p \in Priorities, CommandMember(c, p)
          PROVE  /\ choice' \in [Members -> Items \cup {None, Act}]
                 /\ bag' \in [Items -> Nat] /\ saved' \in [Items -> Nat]
        <3> DEFINE b == IF c \in Items THEN [bag EXCEPT ![c] = @ - 1] ELSE bag
        <3>1. b \in [Items -> Nat]
            BY <1>3, <2>4 DEF CommandMember
        <3>2. NextMember(b) /\ choice' = [choice EXCEPT ![cursor] = c] /\ saved' = saved
            BY <2>4 DEF CommandMember
        <3> HIDE DEF b
        <3> QED
            BY <1>3, <3>1, <3>2 DEF NextMember, BagAfter
    <2> QED
        BY <1>3, <2>1, <2>3, <2>4
        DEF Filling, BeginRound, ChooseMembers, Leave, PassMember, ChooseCollective,
            QueueParty, QueueCapsule, QueueEnemy, NextMember, BagAfter, choosing
<1> QED
    BY <1>4, <1>5, <1>6 DEF TypeOK, Entries, Who

LEMMA FightingType ==
    ASSUME TypeOK, QueueInv, Fighting
    PROVE  TypeOK'
<1> DEFINE Results == {"none", "won", "lost", "escaped", "left"}
<1>1. /\ status \in Statuses /\ cursor \in Nat /\ result \in Results
      /\ queue \in Seq(Entries) /\ Distinct(queue) /\ acted \in BOOLEAN
    BY QueueType DEF TypeOK, QueueInv, Statuses, Battlers
<1>2. ASSUME NEW st \in Statuses, NEW present, Outcome(st, present)
      PROVE  /\ status' \in Statuses /\ acted' \in BOOLEAN /\ result' \in Results
             /\ phase' \in Phases /\ cursor' \in Nat
    BY <1>1, <1>2, OutcomeType DEF Phases
<1> DEFINE Rest == /\ records' \in SUBSET Enemies /\ records' # {} /\ modes' = modes
                   /\ queue' \in Seq(Entries) /\ choice' = choice /\ bag' \in [Items -> Nat]
                   /\ saved' = saved /\ paid' \in [Enemies -> Nat]
           Changed == /\ status' \in Statuses /\ acted' \in BOOLEAN /\ result' \in Results
                      /\ phase' \in Phases /\ cursor' \in Nat
<1>3. records \in SUBSET Enemies /\ records # {} /\ bag \in [Items -> Nat] /\ paid \in [Enemies -> Nat]
    BY DEF TypeOK
<1>4. ASSUME Rest, Changed PROVE TypeOK'
    BY <1>4 DEF TypeOK, Statuses, Battlers, Entries, Who
<1>5. CASE LoseTurn
    <2>1. Rest
        BY <1>1, <1>3, <1>5 DEF LoseTurn, choosing
    <2> HIDE DEF Rest
    <2> QED
        BY <1>1, <1>2, <1>4, <1>5, <2>1 DEF LoseTurn
<1>6. CASE Escape
    <2>1. Rest
        BY <1>1, <1>3, <1>6 DEF Escape, choosing
    <2>2. Changed
        <3>1. CASE Outcome(status, records)
            BY <1>1, <1>2, <3>1
        <3>2. CASE ~ Outcome(status, records)
            BY <1>1, <1>6, <3>2 DEF Escape, Go, Phases
        <3> QED
            BY <3>1, <3>2
    <2> QED
        BY <1>4, <2>1, <2>2
<1>7. CASE SkipGone
    <2>1. Rest
        BY <1>1, <1>3, <1>7 DEF SkipGone, fighters, choosing
    <2>2. Changed
        BY <1>1, <1>7 DEF SkipGone, fighters, Go, Phases
    <2> QED
        BY <1>4, <2>1, <2>2
<1>8. ASSUME NEW side \in {PartySide, records}, SearchForever(side) PROVE TypeOK'
    <2>1. Rest
        BY <1>1, <1>3, <1>8 DEF SearchForever, fighters, choosing
    <2>2. Changed
        BY <1>1, <1>8 DEF SearchForever, fighters, Go, Phases
    <2> QED
        BY <1>4, <2>1, <2>2
<1>9. ASSUME NEW side \in {PartySide, records}, Flee(side) PROVE TypeOK'
    <2>1. Rest
        <3>1. queue' \in Seq(Entries)
            BY <1>1, <1>9, Invalidated DEF Flee
        <3> QED
            BY <1>3, <1>9, <3>1 DEF Flee, choosing
    <2>2. Changed
        <3> DEFINE st == [status EXCEPT ![Actor] = @ \cup {"down"}]
        <3>1. Outcome(st, records) /\ st \in Statuses
            BY <1>1, <1>9 DEF Flee, Statuses
        <3> QED
            BY <1>2, <3>1
    <2> QED
        BY <1>4, <2>1, <2>2
<1>10. ASSUME NEW side \in {PartySide, records}, Summon(side) PROVE TypeOK'
    <2>1. PICK f \in Enemies \ records :
             /\ records' = records \cup {f}
             /\ Outcome([status EXCEPT ![f] = {}], records \cup {f})
        BY <1>10 DEF Summon
    <2>2. Rest
        BY <1>1, <1>3, <1>10, <2>1 DEF Summon, choosing
    <2>3. Changed
        <3> DEFINE st == [status EXCEPT ![f] = {}]
        <3>1. Outcome(st, records \cup {f}) /\ st \in Statuses
            BY <1>1, <2>1 DEF Statuses
        <3> QED
            BY <1>2, <3>1
    <2> QED
        BY <1>4, <2>2, <2>3
<1>11. ASSUME NEW side \in {PartySide, records}, NEW power \in Powers, TakeTurn(side, power)
       PROVE  TypeOK'
    <2>1. PICK takers, fallen :
              /\ Outcome(Felled(Treated(power, takers), fallen), records)
              /\ queue' = Invalidate(queue, fallen)
              /\ paid' = Payment(Treated(power, takers), fallen)
        BY <1>11 DEF TakeTurn
    <2>2. Treated(power, takers) \in Statuses /\ Felled(Treated(power, takers), fallen) \in Statuses
        BY <1>1, TreatedType
    <2>3. Rest
        <3>1. queue' \in Seq(Entries)
            BY <1>1, <2>1, Invalidated
        <3>2. BagUsed \in [Items -> Nat] /\ paid' \in [Enemies -> Nat]
            BY <2>1, <2>2, TurnTypes
        <3> QED
            BY <1>3, <1>11, <3>1, <3>2 DEF TakeTurn
    <2>4. Changed
        BY <1>2, <2>1, <2>2
    <2> QED
        BY <1>4, <2>3, <2>4
<1> QED
    BY <1>5, <1>6, <1>7, <1>8, <1>9, <1>10, <1>11 DEF Fighting

LEMMA TypeStep ==
    ASSUME TypeOK, QueueInv, [Next]_vars
    PROVE  TypeOK'
<1>1. status \in Statuses /\ cursor \in Nat
    BY DEF TypeOK, Statuses, Battlers
<1>2. CASE Swapping
    <2>1. PICK m, n \in Members : SwapPartyOrder(m, n)
        BY <1>2 DEF Swapping
    <2>2. status' \in Statuses
        <3>1. m \in Battlers /\ n \in Battlers
            BY Indexes DEF Battlers
        <3> QED
            BY <1>1, <2>1, <3>1 DEF SwapPartyOrder, Statuses
    <2> QED
        BY <2>1, <2>2 DEF SwapPartyOrder, TypeOK, choosing, Statuses, Battlers
<1>3. CASE PoisonTick
    <2>1. PICK fallen :
              /\ status' = Poisoned(fallen)
              /\ paid' = [e \in Enemies |-> IF e \in fallen THEN paid[e] + 1 ELSE paid[e]]
        BY <1>3 DEF PoisonTick
    <2>2. status' \in Statuses
        BY <1>1, <2>1 DEF Poisoned, Felled, Statuses
    <2>3. paid' \in [Enemies -> Nat]
        BY <2>1 DEF TypeOK
    <2>4. phase' \in Phases /\ cursor' \in Nat
        BY <1>3 DEF PoisonTick, Go, Phases
    <2> QED
        BY <1>3, <2>2, <2>3, <2>4 DEF PoisonTick, TypeOK, choosing, Statuses, Battlers
<1>4. CASE Recover
    <2>1. PICK cures :
              status' = [b \in DOMAIN status |->
                            IF b \in Afflicted THEN status[b] \ cures[b] ELSE status[b]]
        BY <1>4 DEF Recover
    <2>2. status' \in Statuses
        BY <1>1, <2>1 DEF Statuses
    <2>3. phase' \in Phases /\ cursor' \in Nat
        BY <1>4 DEF Recover, Go, Phases
    <2> QED
        BY <1>4, <2>2, <2>3 DEF Recover, TypeOK, choosing, Statuses, Battlers
<1>5. CASE UNCHANGED vars
    BY <1>5 DEF vars, TypeOK
<1> QED
    BY <1>2, <1>3, <1>4, <1>5, Steps, FillingType, FightingType

-----------------------------------------------------------------------------
(* The queue: while it is filled.                                           *)

(* Entries of battlers that are asked or queued once leave a free entry.    *)
LEMMA RoomLeft ==
    ASSUME NEW q \in Seq(Entries), Distinct(q), Actors(q) \subseteq {Collective} \cup PartySide \cup Enemies,
           Collective \in Actors(q) => \E m \in Members : m \notin Actors(q)
    PROVE  Len(q) < QueueCount
<1>1. CASE Collective \in Actors(q)
    BY <1>1, Room
<1>2. CASE Collective \notin Actors(q)
    <2>1. Actors(q) \subseteq PartySide \cup Enemies
        BY <1>2
    <2> QED
        BY <2>1, Room
<1> QED
    BY <1>1, <1>2

LEMMA EmptyQueue ==
    /\ <<>> \in Seq(Entries) /\ Actors(<<>>) = {} /\ Distinct(<<>>) /\ Len(<<>>) < QueueCount
<1>1. <<>> \in Seq(Entries) /\ DOMAIN <<>> = {} /\ Len(<<>>) = 0
    OBVIOUS
<1> QED
    BY <1>1, Indexes DEF Actors, Distinct

LEMMA BeginRoundQueue ==
    ASSUME TypeOK, QueueInv, BeginRound
    PROVE  QueueInv'
<1>1. queue' = <<>> /\ status' = status
    BY DEF BeginRound, fighters
<1>2. /\ phase' \in {"enemies", "turns", "menu", "party"}
      /\ phase' = "enemies" => cursor' = 5
      /\ phase' = "turns" => cursor' = 1
      /\ phase' = "party" => cursor' = 0
      /\ phase' = "menu" => \E m \in Members : Free(m, Blocked)
    BY DEF BeginRound, EnemyPhase, Go
<1>3. 0 \in Members /\ 5 \in Enemies
    BY BattleAssumption DEF Members, Enemies
<1>4. phase' = "menu" => \E m \in Members : Free(m, Blocked)'
    BY <1>1, <1>2 DEF Free
<1> QED
    BY <1>1, <1>2, <1>3, <1>4, EmptyQueue DEF QueueInv

LEMMA MenuQueue ==
    ASSUME TypeOK, QueueInv, NEW p,
           (p \in Priorities /\ ChooseCollective(p)) \/ ChooseMembers \/ Leave
    PROVE  QueueInv'
<1>1. queue = <<>> /\ status' = status /\ records' = records
    BY DEF QueueInv, ChooseCollective, ChooseMembers, Leave, fighters
<1>2. 0 \in Members /\ Collective \in Who /\ Collective \notin Enemies /\ Collective \notin Members
    BY BattleAssumption, Indexes DEF Members, Who
<1>3. PICK m \in Members : Free(m, Blocked)
    BY DEF QueueInv, ChooseCollective, ChooseMembers, Leave
<1>4. CASE p \in Priorities /\ ChooseCollective(p)
    <2>1. phase' = "party" /\ cursor' = 0 /\ queue' = Insert(<<>>, Collective, p)
        BY <1>1, <1>4 DEF ChooseCollective, Go
    <2>2. queue' \in Seq(Entries) /\ Actors(queue') = {Collective} /\ Distinct(queue')
        <3> DEFINE q == <<>>
        <3>1. q \in Seq(Entries) /\ Actors(q) = {} /\ Distinct(q) /\ queue' = Insert(q, Collective, p)
            BY <2>1, EmptyQueue
        <3> HIDE DEF q
        <3>2. Collective \notin Actors(q)
            BY <3>1
        <3>3. /\ Insert(q, Collective, p) \in Seq(Entries)
              /\ Actors(Insert(q, Collective, p)) = Actors(q) \cup {Collective}
              /\ Distinct(Insert(q, Collective, p))
            BY <1>2, <1>4, <3>1, <3>2, Inserted
        <3> QED
            BY <3>1, <3>3
    <2>3. m \notin Actors(queue') /\ "confused" \notin status[m]
        BY <1>2, <1>3, <2>2 DEF Free, Blocked
    <2>4. Len(queue') < QueueCount
        BY <2>2, <2>3, RoomLeft
    <2>5. m \in LeftOut'
        BY <1>1, <2>3 DEF LeftOut
    <2> QED
        BY <1>2, <2>1, <2>2, <2>4, <2>5 DEF QueueInv
<1>5. CASE ChooseMembers
    <2>1. phase' = "asking" /\ cursor' = 0 /\ queue' = <<>>
        BY <1>1, <1>5 DEF ChooseMembers, Go
    <2>2. \E k \in Members : Free(k, Blocked)'
        BY <1>1, <1>3 DEF Free
    <2> QED
        BY <1>2, <2>1, <2>2, EmptyQueue DEF QueueInv
<1>6. CASE Leave
    BY <1>1, <1>6, EmptyQueue DEF QueueInv, Leave, Go
<1> QED
    BY <1>4, <1>5, <1>6

(* The next member is asked, or all are queued, with the commands given.    *)
LEMMA NextMemberQueue ==
    ASSUME TypeOK, QueueInv, phase = "asking", NEW b, NextMember(b), status' = status,
           queue' \in Seq(Entries), Distinct(queue'),
           Actors(queue') \subseteq {m \in Members : m <= cursor /\ Orderly(m)}
    PROVE  QueueInv'
<1>1. /\ Members \subseteq PartySide /\ Members \cap Enemies = {} /\ Collective \notin Members
      /\ cursor \in Members /\ \A m \in Members : m \in Nat
    BY Indexes DEF QueueInv
<1>2. Len(queue') < QueueCount
    <2>1. Actors(queue') \subseteq {Collective} \cup PartySide \cup Enemies /\ Collective \notin Actors(queue')
        BY <1>1
    <2> QED
        BY <2>1, RoomLeft
<1>3. \A m \in Members : (Free(m, Blocked)' <=> Free(m, Blocked)) /\ (Orderly(m)' <=> Orderly(m))
    BY DEF Free, Orderly
<1>4. Actors(queue') \cap Enemies \subseteq records' /\ Collective \notin Actors(queue')
    BY <1>1
<1>5. CASE cursor + 1 = PartySize
    <2>1. phase' = "party" /\ cursor' = 0 /\ 0 \in Members
        BY <1>5, BattleAssumption DEF NextMember, Go, Members
    <2>2. \A m \in Actors(queue') : m \in Members /\ "confused" \notin status'[m]
        BY DEF Orderly, Free, NoCommand
    <2> QED
        BY <1>2, <1>4, <2>1, <2>2 DEF QueueInv
<1>6. CASE cursor + 1 # PartySize
    <2>1. phase' = "asking" /\ cursor' = cursor + 1
        BY <1>6 DEF NextMember, Go
    <2>2. cursor' \in Members
        BY <1>1, <1>6, <2>1, BattleAssumption DEF Members
    <2>3. Actors(queue') \subseteq {m \in Members : m <= cursor' /\ Orderly(m)'}
        BY <1>1, <1>3, <2>1
    <2>4. \E m \in Members : Free(m, Blocked)'
        BY <1>3 DEF QueueInv
    <2> QED
        BY <1>2, <1>4, <2>1, <2>2, <2>3, <2>4 DEF QueueInv, Orderly, Free
<1> QED
    BY <1>5, <1>6

LEMMA AskingQueue ==
    ASSUME TypeOK, QueueInv, NEW c, NEW p,
           (p \in Priorities /\ CommandMember(c, p)) \/ PassMember \/ StepBack
    PROVE  QueueInv'
<1>1. /\ phase = "asking" /\ status' = status /\ records' = records
      /\ queue \in Seq(Entries) /\ Distinct(queue) /\ cursor \in Members
      /\ Actors(queue) \subseteq {m \in Members : m <= cursor /\ Orderly(m)}
    BY QueueType DEF QueueInv, PassMember, CommandMember, StepBack, fighters
<1>2. cursor \in Who /\ cursor # Gone /\ \A m \in Members : m \in Nat
    BY <1>1, Indexes DEF Who
<1>3. /\ Asked \in Seq(Entries) /\ Distinct(Asked)
      /\ Actors(Asked) = Actors(queue) \ {cursor}
    BY <1>1, <1>2, Taken DEF Asked
<1>4. CASE PassMember
    BY <1>1, <1>4, NextMemberQueue DEF PassMember
<1>5. CASE p \in Priorities /\ CommandMember(c, p)
    <2>1. /\ queue' = Insert(Asked, cursor, p) /\ Orderly(cursor)
          /\ NextMember(IF c \in Items THEN [bag EXCEPT ![c] = @ - 1] ELSE bag)
        BY <1>5 DEF CommandMember, Orderly
    <2>2. cursor \notin Actors(Asked)
        BY <1>3
    <2>3. /\ queue' \in Seq(Entries) /\ Distinct(queue')
          /\ Actors(queue') = Actors(Asked) \cup {cursor}
        BY <1>2, <1>3, <1>5, <2>1, <2>2, Inserted
    <2>4. Actors(queue') \subseteq {m \in Members : m <= cursor /\ Orderly(m)}
        BY <1>1, <1>2, <1>3, <2>1, <2>3
    <2> QED
        BY <1>1, <2>1, <2>3, <2>4, NextMemberQueue
<1>6. CASE StepBack
    <2> DEFINE earlier == {m \in Members : m < cursor /\ Free(m, NoCommand)}
    <2>1. queue' = Asked /\ Free(cursor, NoCommand)
        BY <1>6 DEF StepBack
    <2>2. Actors(queue') \subseteq earlier
        <3>1. ASSUME NEW a \in Actors(queue') PROVE a \in earlier
            <4>1. a \in Members /\ a <= cursor /\ Orderly(a) /\ a # cursor
                BY <1>1, <1>3, <2>1, <3>1
            <4> QED
                BY <1>1, <1>2, <4>1 DEF Orderly
        <3> QED
            BY <3>1
    <2>3. /\ Members \subseteq PartySide /\ Members \cap Enemies = {} /\ Collective \notin Members
        BY Indexes
    <2>4. Len(queue') < QueueCount /\ Distinct(queue')
        <3>1. Actors(queue') \subseteq {Collective} \cup PartySide \cup Enemies
              /\ Collective \notin Actors(queue')
            BY <2>2, <2>3
        <3> QED
            BY <1>3, <2>1, <3>1, RoomLeft
    <2>5. \E m \in Members : Free(m, Blocked)'
        <3>1. cursor \in Members /\ Free(cursor, Blocked)
            BY <1>1, <2>1 DEF Free, Blocked, NoCommand
        <3>2. \A m \in Members : Free(m, Blocked) => Free(m, Blocked)'
            BY <1>1 DEF Free
        <3> QED
            BY <3>1, <3>2
    <2>6. Actors(queue') \cap Enemies \subseteq records'
        BY <2>2, <2>3
    <2>7. CASE earlier = {}
        <3>1. phase' = "menu"
            BY <1>6, <2>7 DEF StepBack, Go
        <3>2. Actors(queue') = {}
            BY <2>2, <2>7
        <3>3. queue' = <<>>
            <4>1. \A k \in DOMAIN queue' : queue'[k].actor \in Actors(queue')
                BY DEF Actors
            <4>2. queue' \in Seq(Entries) /\ DOMAIN queue' = {}
                BY <1>3, <2>1, <3>2, <4>1
            <4> QED
                BY <4>2
        <3> QED
            BY <2>4, <2>5, <2>6, <3>1, <3>3 DEF QueueInv
    <2>8. CASE earlier # {}
        <3>1. PICK last \in earlier :
                  (\A m \in earlier : m <= last) /\ phase' = "asking" /\ cursor' = last
            BY <1>6, <2>8 DEF StepBack, Go
        <3>2. Actors(queue') \subseteq {m \in Members : m <= cursor' /\ Orderly(m)'}
            BY <1>1, <2>2, <3>1 DEF Orderly, Free
        <3> QED
            BY <2>4, <2>5, <2>6, <3>1, <3>2 DEF QueueInv, Orderly
    <2> QED
        BY <2>7, <2>8
<1> QED
    BY <1>4, <1>5, <1>6

LEMMA QueuePartyQueue ==
    ASSUME TypeOK, QueueInv, NEW p \in Priorities, QueueParty(p)
    PROVE  QueueInv'
<1>1. /\ phase = "party" /\ status' = status /\ records' = records
      /\ queue \in Seq(Entries) /\ Distinct(queue) /\ cursor \in Members /\ Len(queue) < QueueCount
      /\ Actors(queue) \subseteq
             {Collective} \cup {m \in Members : m < cursor \/ "confused" \notin status[m]}
      /\ Collective \in Actors(queue) => LeftOut # {}
    BY QueueType DEF QueueInv, QueueParty, fighters
<1>2. /\ Members \subseteq PartySide /\ Members \cap Enemies = {} /\ Collective \notin Members
      /\ cursor \in Who /\ Collective \notin Enemies /\ \A m \in Members : m \in Nat
    BY <1>1, Indexes DEF Who
<1>3. /\ queue' \in Seq(Entries) /\ Distinct(queue') /\ Actors(queue) \subseteq Actors(queue')
      /\ Actors(queue') \subseteq Actors(queue) \cup {cursor}
      /\ cursor \in Actors(queue') => cursor \in Actors(queue) \/ "confused" \in status[cursor]
    <2>1. CASE "confused" \in status[cursor]
        <3>1. queue' = Insert(queue, cursor, p)
            BY <2>1 DEF QueueParty
        <3>2. cursor \notin Actors(queue)
            BY <1>1, <1>2, <2>1
        <3> QED
            BY <1>1, <1>2, <2>1, <3>1, <3>2, Inserted
    <2>2. CASE "confused" \notin status[cursor]
        <3>1. queue' = queue
            BY <2>2 DEF QueueParty
        <3> QED
            BY <1>1, <3>1
    <2> QED
        BY <2>1, <2>2
<1>4. Collective \in Actors(queue') => LeftOut' # {}
    <2>1. SUFFICES ASSUME Collective \in Actors(queue') PROVE LeftOut' # {}
        OBVIOUS
    <2>2. Collective \in Actors(queue)
        BY <1>1, <1>2, <1>3, <2>1
    <2>3. PICK m \in LeftOut : TRUE
        BY <1>1, <2>2
    <2>4. m \in Members /\ "confused" \notin status[m] /\ m \notin Actors(queue)
        BY <2>3 DEF LeftOut
    <2>5. m \notin Actors(queue')
        BY <1>3, <2>4
    <2> QED
        BY <1>1, <2>4, <2>5 DEF LeftOut
<1>5. Len(queue') < QueueCount
    <2>1. Actors(queue') \subseteq {Collective} \cup PartySide \cup Enemies
        BY <1>1, <1>2, <1>3
    <2>2. Collective \in Actors(queue') => \E m \in Members : m \notin Actors(queue')
        BY <1>4 DEF LeftOut
    <2> QED
        BY <1>3, <2>1, <2>2, RoomLeft
<1>6. Actors(queue') \cap Enemies \subseteq records'
    BY <1>1, <1>2, <1>3
<1>7. CASE cursor + 1 = PartySize
    <2>1. phase' = "capsule"
        BY <1>7 DEF QueueParty, Go
    <2>2. Actors(queue') \subseteq {Collective} \cup Members
        BY <1>1, <1>3
    <2> QED
        BY <1>3, <1>4, <1>5, <1>6, <2>1, <2>2 DEF QueueInv
<1>8. CASE cursor + 1 # PartySize
    <2>1. phase' = "party" /\ cursor' = cursor + 1
        BY <1>8 DEF QueueParty, Go
    <2>2. cursor' \in Members
        BY <1>1, <1>8, <2>1, BattleAssumption DEF Members
    <2>3. ASSUME NEW a \in Actors(queue'), a # Collective
          PROVE  a \in Members /\ (a < cursor' \/ "confused" \notin status'[a])
        <3>1. CASE a \in Actors(queue)
            <4>1. a \in Members /\ (a < cursor \/ "confused" \notin status[a])
                BY <1>1, <2>3, <3>1
            <4> QED
                BY <1>1, <1>2, <2>1, <4>1
        <3>2. CASE a = cursor
            BY <1>1, <1>2, <2>1, <3>2
        <3> QED
            BY <1>3, <3>1, <3>2
    <2>4. Actors(queue') \subseteq
              {Collective} \cup {m \in Members : m < cursor' \/ "confused" \notin status'[m]}
        BY <2>3
    <2> QED
        BY <1>3, <1>4, <1>5, <1>6, <2>1, <2>2, <2>4 DEF QueueInv
<1> QED
    BY <1>7, <1>8

(* Filling the rest of the queue leaves those out that were left out.       *)
LEMMA QueueOthers ==
    ASSUME TypeOK, QueueInv, status' = status, records' = records,
           phase \in {"capsule", "enemies"}, phase' \in {"enemies", "turns"},
           phase' = "turns" => cursor' = 1, phase' = "enemies" => cursor' \in Enemies,
           NEW a \in PartySide \cup records, a \notin Members, a \notin Actors(queue),
           phase' = "enemies" => a \in PartySide \/ a < cursor',
           phase' = "enemies" => Actors(queue) \subseteq
                                    {Collective} \cup PartySide \cup {e \in Enemies : e < cursor'},
           NEW p \in Priorities, queue' = queue \/ queue' = Insert(queue, a, p)
    PROVE  QueueInv'
<1>1. /\ queue \in Seq(Entries) /\ Distinct(queue) /\ Actors(queue) \cap Enemies \subseteq records
      /\ Actors(queue) \subseteq {Collective} \cup PartySide \cup Enemies
      /\ Collective \in Actors(queue) => LeftOut # {}
    BY QueueType, Indexes DEF QueueInv
<1>2. a \in Who /\ a # Collective /\ records \subseteq Enemies /\ Collective \notin Enemies
    BY Indexes DEF Who, TypeOK
<1>3. /\ queue' \in Seq(Entries) /\ Distinct(queue')
      /\ Actors(queue') \subseteq Actors(queue) \cup {a}
    BY <1>1, <1>2, Inserted
<1>4. Collective \in Actors(queue') => LeftOut' # {}
    <2>1. SUFFICES ASSUME Collective \in Actors(queue') PROVE LeftOut' # {}
        OBVIOUS
    <2>2. PICK m \in LeftOut : TRUE
        BY <1>1, <1>2, <1>3, <2>1
    <2>3. m \in Members /\ "confused" \notin status[m] /\ m \notin Actors(queue')
        BY <1>3, <2>2 DEF LeftOut
    <2> QED
        BY <2>3 DEF LeftOut
<1>5. Len(queue') < QueueCount
    <2>1. Actors(queue') \subseteq {Collective} \cup PartySide \cup Enemies
        BY <1>1, <1>2, <1>3
    <2>2. Collective \in Actors(queue') => \E m \in Members : m \notin Actors(queue')
        BY <1>4 DEF LeftOut
    <2> QED
        BY <1>3, <2>1, <2>2, RoomLeft
<1>6. Actors(queue') \cap Enemies \subseteq records'
    <2>1. PartySide \cap Enemies = {}
        BY Indexes
    <2> QED
        BY <1>1, <1>3, <2>1
<1>7. phase' = "enemies" =>
          Actors(queue') \subseteq {Collective} \cup PartySide \cup {e \in Enemies : e < cursor'}
    BY <1>2, <1>3
<1> QED
    BY <1>3, <1>4, <1>5, <1>6, <1>7 DEF QueueInv

LEMMA QueueCapsuleQueue ==
    ASSUME TypeOK, QueueInv, NEW p \in Priorities, QueueCapsule(p)
    PROVE  QueueInv'
<1>1. /\ phase = "capsule" /\ status' = status /\ records' = records
      /\ phase' \in {"enemies", "turns"}
      /\ phase' = "turns" => cursor' = 1
      /\ phase' = "enemies" => cursor' = 5
      /\ Actors(queue) \subseteq {Collective} \cup Members
    BY DEF QueueInv, QueueCapsule, EnemyPhase, Go, fighters
<1>2. 5 \in Enemies /\ Capsule \notin Members /\ Capsule # Collective /\ Members \subseteq PartySide
    BY BattleAssumption, Indexes DEF Enemies
<1>3. CASE HasCapsule
    <2>1. Capsule \in PartySide
        BY <1>3 DEF PartySide
    <2>2. queue' = queue \/ queue' = Insert(queue, Capsule, p)
        BY Zenon DEF QueueCapsule
    <2>3. Capsule \notin Actors(queue) /\ Actors(queue) \subseteq {Collective} \cup PartySide
        BY <1>1, <1>2
    <2> QED
        BY <1>1, <1>2, <2>1, <2>2, <2>3, QueueOthers
<1>4. CASE ~ HasCapsule
    <2>1. queue' = queue
        BY <1>4, Zenon DEF QueueCapsule
    <2>2. PICK r \in records : TRUE
        BY DEF TypeOK
    <2>3. r \in Enemies
        BY <2>2 DEF TypeOK
    <2>4. LeftOut' = LeftOut /\ Actors(queue') = Actors(queue)
        BY <1>1, <2>1 DEF LeftOut
    <2>5. Actors(queue') \subseteq {Collective} \cup PartySide \cup {e \in Enemies : e < cursor'}
        BY <1>1, <1>2, <2>4
    <2> QED
        BY <1>1, <1>2, <2>1, <2>4, <2>5 DEF QueueInv
<1> QED
    BY <1>3, <1>4

LEMMA QueueEnemyQueue ==
    ASSUME TypeOK, QueueInv, NEW p \in Priorities, QueueEnemy(p)
    PROVE  QueueInv'
<1>1. /\ phase = "enemies" /\ status' = status /\ records' = records /\ cursor \in Enemies
      /\ Actors(queue) \subseteq {Collective} \cup PartySide \cup {e \in Enemies : e < cursor}
    BY DEF QueueInv, QueueEnemy, fighters
<1>2. /\ cursor \notin PartySide /\ cursor # Collective /\ cursor \notin Members /\ cursor \in Nat
      /\ \A e \in Enemies : e \in Nat
    BY <1>1, Indexes
<1>3. cursor \notin Actors(queue)
    BY <1>1, <1>2
<1>4. CASE cursor = 4 + EnemyCount
    <2>1. phase' = "turns" /\ cursor' = 1
        BY <1>4 DEF QueueEnemy, Go
    <2>2. CASE cursor \in records
        <3>1. queue' = queue \/ queue' = Insert(queue, cursor, p)
            BY DEF QueueEnemy
        <3> QED
            BY <1>1, <1>2, <1>3, <2>1, <2>2, <3>1, QueueOthers
    <2>3. CASE cursor \notin records
        <3>1. queue' = queue
            BY <2>3 DEF QueueEnemy
        <3> QED
            BY <1>1, <2>1, <3>1 DEF QueueInv
    <2> QED
        BY <2>2, <2>3
<1>5. CASE cursor # 4 + EnemyCount
    <2>1. phase' = "enemies" /\ cursor' = cursor + 1
        BY <1>5 DEF QueueEnemy, Go
    <2>2. cursor' \in Enemies /\ cursor < cursor'
        BY <1>1, <1>2, <1>5, <2>1, BattleAssumption DEF Enemies
    <2>3. Actors(queue) \subseteq {Collective} \cup PartySide \cup {e \in Enemies : e < cursor'}
        <3>1. \A e \in Enemies : e < cursor => e < cursor'
            BY <1>2, <2>1
        <3> QED
            BY <1>1, <3>1
    <2>4. CASE cursor \in records
        <3>1. queue' = queue \/ queue' = Insert(queue, cursor, p)
            BY DEF QueueEnemy
        <3> QED
            BY <1>1, <1>2, <1>3, <2>1, <2>2, <2>3, <2>4, <3>1, QueueOthers
    <2>5. CASE cursor \notin records
        <3>1. queue' = queue
            BY <2>5 DEF QueueEnemy
        <3>2. LeftOut' = LeftOut
            BY <1>1, <3>1 DEF LeftOut
        <3> QED
            BY <1>1, <2>1, <2>2, <2>3, <3>1, <3>2 DEF QueueInv
    <2> QED
        BY <2>4, <2>5
<1> QED
    BY <1>4, <1>5

-----------------------------------------------------------------------------
(* The queue: while it is executed, nothing is added.                       *)

LEMMA ExecutedQueue ==
    ASSUME TypeOK, QueueInv, records \subseteq records', NEW fallen,
           phase' \in {"turns", "over", "searching", "recovery", "frame"},
           phase' = "turns" => cursor' \in Nat \ {0},
           queue' = queue \/ queue' = Invalidate(queue, fallen)
    PROVE  QueueInv'
<1>1. /\ queue \in Seq(Entries) /\ Distinct(queue) /\ Len(queue) < QueueCount
      /\ Actors(queue) \cap Enemies \subseteq records
    BY QueueType DEF QueueInv
<1>2. /\ Distinct(queue') /\ Len(queue') < QueueCount
      /\ Actors(queue') \subseteq Actors(queue) \cup {Gone}
    BY <1>1, Invalidated
<1>3. Gone \notin Enemies
    BY Indexes
<1>4. Actors(queue') \cap Enemies \subseteq records'
    BY <1>1, <1>2, <1>3
<1> QED
    BY <1>2, <1>4 DEF QueueInv

LEMMA FightingQueue ==
    ASSUME TypeOK, QueueInv, Fighting
    PROVE  QueueInv'
<1>1. cursor \in Nat /\ status \in Statuses /\ cursor + 1 \in Nat \ {0}
      /\ result \in {"none", "won", "lost", "escaped", "left"}
    BY DEF TypeOK, Statuses, Battlers
<1>2. ASSUME NEW st, NEW present, Outcome(st, present)
      PROVE  phase' \in {"turns", "over"} /\ (phase' = "turns" => cursor' = cursor + 1)
    BY <1>2 DEF Outcome, Go
<1>3. CASE LoseTurn
    BY <1>1, <1>2, <1>3, ExecutedQueue DEF LoseTurn
<1>4. CASE Escape
    <2>1. phase' \in {"turns", "over"} /\ (phase' = "turns" => cursor' = cursor + 1)
        BY <1>2, <1>4 DEF Escape, Go
    <2> QED
        BY <1>1, <1>4, <2>1, ExecutedQueue DEF Escape
<1>5. CASE SkipGone
    BY <1>1, <1>5, ExecutedQueue DEF SkipGone, Go, fighters
<1>6. ASSUME NEW side \in {PartySide, records}, SearchForever(side) PROVE QueueInv'
    BY <1>6, ExecutedQueue DEF SearchForever, Go, fighters
<1>7. ASSUME NEW side \in {PartySide, records}, Flee(side) PROVE QueueInv'
    BY <1>1, <1>2, <1>7, ExecutedQueue DEF Flee
<1>8. ASSUME NEW side \in {PartySide, records}, Summon(side) PROVE QueueInv'
    <2>1. PICK f : /\ records' = records \cup {f}
                   /\ Outcome([status EXCEPT ![f] = {}], records \cup {f})
        BY <1>8 DEF Summon
    <2> QED
        BY <1>1, <1>2, <1>8, <2>1, ExecutedQueue DEF Summon
<1>9. ASSUME NEW side \in {PartySide, records}, NEW power \in Powers, TakeTurn(side, power)
      PROVE  QueueInv'
    <2>1. PICK takers, fallen :
              /\ Outcome(Felled(Treated(power, takers), fallen), records)
              /\ queue' = Invalidate(queue, fallen)
        BY <1>9 DEF TakeTurn
    <2> QED
        BY <1>1, <1>2, <1>9, <2>1, ExecutedQueue DEF TakeTurn
<1> QED
    BY <1>3, <1>4, <1>5, <1>6, <1>7, <1>8, <1>9 DEF Fighting

LEMMA QueueStep ==
    ASSUME TypeOK, QueueInv, [Next]_vars
    PROVE  QueueInv'
<1>1. CASE Filling
    <2>1. CASE \E p \in Priorities : QueueParty(p) \/ QueueCapsule(p) \/ QueueEnemy(p)
        BY <2>1, QueuePartyQueue, QueueCapsuleQueue, QueueEnemyQueue
    <2>2. ASSUME NEW p \in Priorities, ChooseCollective(p) PROVE QueueInv'
        BY <2>2, MenuQueue
    <2>3. ASSUME NEW c \in Items \cup {Act}, NEW p \in Priorities, CommandMember(c, p)
          PROVE  QueueInv'
        BY <2>3, AskingQueue
    <2>4. CASE BeginRound
        BY <2>4, BeginRoundQueue
    <2>5. CASE ChooseMembers \/ Leave
        BY <2>5, MenuQueue
    <2>6. CASE PassMember \/ StepBack
        BY <2>6, AskingQueue
    <2> QED
        BY <1>1, <2>1, <2>2, <2>3, <2>4, <2>5, <2>6 DEF Filling
<1>2. CASE Fighting
    BY <1>2, FightingQueue
<1>3. CASE Swapping
    <2>1. PICK m, n \in Members : SwapPartyOrder(m, n)
        BY <1>3 DEF Swapping
    <2>2. /\ phase = "menu" /\ phase' = "menu" /\ queue' = queue /\ records' = records
          /\ status' = [status EXCEPT ![m] = status[n], ![n] = status[m]]
        BY <2>1 DEF SwapPartyOrder
    <2>3. PICK k \in Members : Free(k, Blocked)
        BY <2>2 DEF QueueInv
    <2>4. \A b \in Members : b \in DOMAIN status
        BY Indexes DEF TypeOK
    <2>5. \E b \in Members : Free(b, Blocked)'
        <3>1. CASE k = m
            <4>1. status'[n] = status[k]
                BY <2>2, <2>4, <3>1
            <4> QED
                BY <2>3, <4>1 DEF Free
        <3>2. CASE k = n /\ k # m
            <4>1. status'[m] = status[k]
                BY <2>2, <2>4, <3>2
            <4> QED
                BY <2>3, <4>1 DEF Free
        <3>3. CASE k # m /\ k # n
            <4>1. status'[k] = status[k]
                BY <2>2, <2>4, <3>3
            <4> QED
                BY <2>3, <4>1 DEF Free
        <3> QED
            BY <3>1, <3>2, <3>3
    <2> QED
        BY <2>2, <2>5 DEF QueueInv
<1>4. CASE PoisonTick
    BY <1>4, ExecutedQueue DEF PoisonTick, Go
<1>5. CASE Recover
    BY <1>5, ExecutedQueue DEF Recover, Go
<1>6. CASE UNCHANGED vars
    BY <1>6 DEF vars, QueueInv, Orderly, Free, LeftOut
<1> QED
    BY <1>1, <1>2, <1>3, <1>4, <1>5, <1>6, Steps

-----------------------------------------------------------------------------
(* Items.                                                                   *)

(* One set of members in another has no more of them.                       *)
LEMMA Fewer ==
    ASSUME NEW S, NEW T, IsFiniteSet(T), S \subseteq T
    PROVE  Cardinality(S) \in Nat /\ Cardinality(T) \in Nat /\ Cardinality(S) <= Cardinality(T)
<1>1. S \in SUBSET T
    OBVIOUS
<1>2. IsFiniteSet(S) /\ Cardinality(S) <= Cardinality(T)
    BY <1>1, FS_Subset, Zenon
<1> QED
    BY <1>2, FS_CardinalityType

LEMMA FiniteChoosers ==
    \A i, n : IsFiniteSet(Choosers(i, n)) /\ IsFiniteSet(Users(i))
BY ChoosersFinite

(* The members asked so far and the bag, once the asked one has its command.*)
Reserves(b, n) ==
    \A i \in Items : b[i] \in Nat /\ b[i] + Cardinality(Choosers(i, n)') = saved[i]

LEMMA PassReserves ==
    ASSUME TypeOK, QueueInv, ChoiceInv, ItemsCovered, PassMember, NEW n, n = cursor + 1
    PROVE  Reserves(bag, n)
<1>1. phase = "asking" /\ cursor \in Members /\ choice' = choice /\ choice[cursor] = None
    BY DEF PassMember, QueueInv, ChoiceInv, Orderly
<1>2. \A m \in Members : m \in Nat
    BY Indexes
<1>3. ASSUME NEW i \in Items PROVE bag[i] \in Nat /\ bag[i] + Cardinality(Choosers(i, n)') = saved[i]
    <2>1. Choosers(i, n)' = Choosers(i, cursor)
        <3>1. i # None
            BY BattleAssumption
        <3> QED
            BY <1>1, <1>2, <3>1 DEF Choosers
    <2> QED
        BY <1>1, <2>1 DEF ItemsCovered, TypeOK
<1> QED
    BY <1>3 DEF Reserves

LEMMA CommandReserves ==
    ASSUME TypeOK, QueueInv, ChoiceInv, ItemsCovered,
           NEW c \in Items \cup {Act}, NEW p, CommandMember(c, p), NEW n, n = cursor + 1
    PROVE  Reserves(IF c \in Items THEN [bag EXCEPT ![c] = @ - 1] ELSE bag, n)
<1> DEFINE b == IF c \in Items THEN [bag EXCEPT ![c] = @ - 1] ELSE bag
<1>1. /\ phase = "asking" /\ cursor \in Members /\ choice' = [choice EXCEPT ![cursor] = c]
      /\ c \in Items => bag[c] > 0
    BY DEF CommandMember, QueueInv
<1>2. \A m \in Members : m \in Nat
    BY Indexes
<1>3. \A m \in Members : choice'[m] = IF m = cursor THEN c ELSE choice[m]
    BY <1>1 DEF TypeOK
<1>4. ASSUME NEW i \in Items PROVE b[i] \in Nat /\ b[i] + Cardinality(Choosers(i, n)') = saved[i]
    <2> DEFINE C == Choosers(i, cursor)
    <2>1. IsFiniteSet(C) /\ cursor \notin C /\ Cardinality(C) \in Nat
        <3>1. IsFiniteSet(C)
            BY FiniteChoosers
        <3>2. cursor \notin C
            BY <1>1, <1>2 DEF Choosers
        <3> HIDE DEF C
        <3> QED
            BY <3>1, <3>2, FS_CardinalityType
    <2>2. bag[i] \in Nat /\ saved[i] \in Nat /\ bag[i] + Cardinality(C) = saved[i]
        BY <1>1 DEF ItemsCovered, TypeOK
    <2>3. CASE i = c
        <3>1. Choosers(i, n)' = C \cup {cursor}
            BY <1>1, <1>2, <1>3, <2>3 DEF Choosers
        <3>2. b[i] = bag[i] - 1 /\ bag[i] > 0
            BY <1>1, <2>3 DEF TypeOK
        <3> DEFINE D == Choosers(i, n)'
        <3> HIDE DEF C, D, b
        <3>3. Cardinality(D) = Cardinality(C) + 1
            BY <2>1, <3>1, FS_AddElement DEF D
        <3>4. b[i] \in Nat /\ b[i] + Cardinality(D) = saved[i]
            BY <2>1, <2>2, <3>2, <3>3
        <3> QED
            BY <3>4 DEF D
    <2>4. CASE i # c
        <3>1. Choosers(i, n)' = C
            BY <1>1, <1>2, <1>3, <2>4 DEF Choosers
        <3>2. b[i] = bag[i]
            BY <2>4 DEF TypeOK
        <3> QED
            BY <2>2, <3>1, <3>2
    <2> QED
        BY <2>3, <2>4
<1> HIDE DEF b
<1>5. Reserves(b, n)
    BY <1>4 DEF Reserves
<1> QED
    BY <1>5 DEF b

(* After the last member the bag is whole again, and covers all commands.   *)
LEMMA NextMemberItems ==
    ASSUME TypeOK, QueueInv, phase = "asking", NEW b, NextMember(b), saved' = saved,
           NEW n, n = cursor + 1, Reserves(b, n)
    PROVE  ItemsCovered'
<1>1. \A i \in Items : saved[i] \in Nat
    BY DEF TypeOK
<1>2. CASE cursor + 1 = PartySize
    <2>1. phase' = "party" /\ bag' = saved
        BY <1>2 DEF NextMember, Go, BagAfter
    <2>2. ASSUME NEW i \in Items PROVE Cardinality(Users(i)') <= bag'[i]
        <3>1. Users(i)' \subseteq Choosers(i, n)'
            <4>1. \A m \in Members : m < n
                BY <1>2, Indexes DEF Members
            <4> QED
                BY <4>1 DEF Users, Choosers
        <3>2. IsFiniteSet(Choosers(i, n)')
            <4>1. IsFiniteSet(Members)
                BY FS_Interval, Indexes DEF Members
            <4>2. Choosers(i, n)' \in SUBSET Members
                BY DEF Choosers
            <4> QED
                BY <4>1, <4>2, FS_Subset, Zenon
        <3> DEFINE U == Users(i)'
                   C == Choosers(i, n)'
        <3> HIDE DEF U, C
        <3>3. Cardinality(U) \in Nat /\ Cardinality(C) \in Nat /\ Cardinality(U) <= Cardinality(C)
            BY <3>1, <3>2, Fewer DEF U, C
        <3>4. b[i] \in Nat /\ b[i] + Cardinality(C) = saved[i]
            BY DEF Reserves, C
        <3> QED
            BY <1>1, <2>1, <3>3, <3>4 DEF U
    <2> QED
        BY <2>1, <2>2 DEF ItemsCovered
<1>3. CASE cursor + 1 # PartySize
    <2>1. phase' = "asking" /\ cursor' = n /\ bag' = b
        BY <1>3 DEF NextMember, Go
    <2>2. \A i \in Items : Choosers(i, cursor)' = Choosers(i, n)'
        BY <2>1 DEF Choosers
    <2> QED
        BY <2>1, <2>2 DEF ItemsCovered, Reserves
<1> QED
    BY <1>2, <1>3

(* Stepping back, the members before the one that is asked again keep what  *)
(* they have chosen.                                                        *)
LEMMA StepBackItems ==
    ASSUME TypeOK, QueueInv, ChoiceInv, ItemsCovered, StepBack
    PROVE  ChoiceInv' /\ ItemsCovered'
<1> DEFINE earlier == {m \in Members : m < cursor /\ Free(m, NoCommand)}
<1>1. /\ phase = "asking" /\ cursor \in Members /\ saved' = saved /\ status' = status
      /\ \A m \in Members : choice[m] # None => m <= cursor /\ Orderly(m)
    BY DEF StepBack, QueueInv, ChoiceInv, fighters
<1>2. \A m \in Members : m \in Nat
    BY Indexes
<1>3. \A i \in Items : bag[i] \in Nat /\ saved[i] \in Nat /\ i # None
    BY BattleAssumption DEF TypeOK
<1>4. CASE earlier = {}
    <2>1. phase' = "menu" /\ choice' = Cleared(choice) /\ bag' = bag
        BY <1>4 DEF StepBack, Go
    <2>2. ASSUME NEW i \in Items PROVE bag[i] = saved[i]
        <3>1. Choosers(i, cursor) = {}
            BY <1>1, <1>2, <1>3, <1>4 DEF Choosers, Orderly
        <3>2. bag[i] + Cardinality(Choosers(i, cursor)) = saved[i]
            BY <1>1 DEF ItemsCovered
        <3>3. Cardinality({}) = 0
            BY FS_EmptySet
        <3> QED
            BY <1>3, <3>1, <3>2, <3>3
    <2> QED
        BY <1>1, <2>1, <2>2 DEF ChoiceInv, ItemsCovered, Cleared
<1>5. CASE earlier # {}
    <2>1. PICK last \in earlier :
              /\ \A m \in earlier : m <= last
              /\ phase' = "asking" /\ cursor' = last
              /\ choice' = [choice EXCEPT ![cursor] = None] /\ bag' = Reserved(last)
        BY <1>5 DEF StepBack, Go
    <2>2. \A m \in Members : choice'[m] = IF m = cursor THEN None ELSE choice[m]
        BY <1>1, <2>1 DEF TypeOK
    <2>3. \A m \in Members : choice'[m] # None => m <= cursor' /\ Orderly(m)'
        <3>1. ASSUME NEW m \in Members, choice'[m] # None PROVE m <= last /\ Orderly(m)
            <4>1. m # cursor /\ m <= cursor /\ Orderly(m)
                BY <1>1, <2>2, <3>1
            <4>2. m \in earlier
                BY <1>1, <1>2, <4>1 DEF Orderly
            <4> QED
                BY <2>1, <4>1, <4>2
        <3> QED
            BY <1>1, <2>1, <3>1 DEF Orderly, Free
    <2>4. ASSUME NEW i \in Items
          PROVE  bag'[i] + Cardinality(Choosers(i, cursor)') = saved'[i]
        <3> DEFINE C == Choosers(i, cursor)
                   L == Choosers(i, last)
        <3>1. IsFiniteSet(C) /\ L \subseteq C
            <4>1. IsFiniteSet(C)
                BY FiniteChoosers
            <4>2. \A m \in Members : m < last => m < cursor
                BY <1>1, <1>2
            <4> QED
                BY <4>1, <4>2 DEF Choosers
        <3>2. Choosers(i, cursor)' = L
            <4>1. \A m \in Members : m < last => m # cursor
                BY <1>1, <1>2
            <4> QED
                BY <2>1, <2>2, <4>1 DEF Choosers
        <3>3. bag[i] + Cardinality(C) = saved[i]
            BY <1>1 DEF ItemsCovered
        <3>4. bag'[i] = IF Cardinality(L) <= saved[i] THEN saved[i] - Cardinality(L) ELSE 0
            BY <2>1 DEF Reserved
        <3> HIDE DEF C, L
        <3>5. Cardinality(L) \in Nat /\ Cardinality(C) \in Nat /\ Cardinality(L) <= Cardinality(C)
            BY <3>1, Fewer
        <3> QED
            BY <1>1, <1>3, <3>2, <3>3, <3>4, <3>5
    <2> QED
        BY <2>1, <2>3, <2>4 DEF ChoiceInv, ItemsCovered
<1> QED
    BY <1>4, <1>5

(* Steps that leave the bag alone and bring no turn with an item nearer.    *)
LEMMA UsersKept ==
    ASSUME TypeOK, ItemsCovered, bag' = bag,
           phase \in {"party", "capsule", "enemies", "turns"}, phase' # "asking",
           \A i \in Items : Users(i)' \subseteq Users(i)
    PROVE  ItemsCovered'
<1>1. ASSUME NEW i \in Items PROVE Cardinality(Users(i)') <= bag'[i]
    <2> DEFINE U == Users(i)
               V == Users(i)'
    <2>1. IsFiniteSet(U) /\ V \subseteq U
        BY FiniteChoosers
    <2>2. Cardinality(U) <= bag[i] /\ bag[i] \in Nat
        BY DEF ItemsCovered, TypeOK
    <2> HIDE DEF U, V
    <2>3. Cardinality(V) \in Nat /\ Cardinality(U) \in Nat /\ Cardinality(V) <= Cardinality(U)
        BY <2>1, Fewer
    <2> QED
        BY <2>2, <2>3 DEF V
<1> QED
    BY <1>1 DEF ItemsCovered

(* Nobody's turn is to come in an empty queue, or in one with the party as  *)
(* one actor only.                                                          *)
LEMMA NoUsers ==
    ASSUME TypeOK', phase' # "asking", Actors(queue') \cap Members = {}
    PROVE  ItemsCovered'
<1>1. ASSUME NEW i \in Items PROVE Cardinality(Users(i)') <= bag'[i]
    <2>1. Users(i)' = {}
        BY DEF Users, ToCome, Actors
    <2>2. bag'[i] \in Nat /\ Cardinality({}) = 0
        BY FS_EmptySet DEF TypeOK
    <2> QED
        BY <2>1, <2>2
<1> QED
    BY <1>1 DEF ItemsCovered

LEMMA FillingItems ==
    ASSUME TypeOK, QueueInv, ChoiceInv, ItemsCovered, TypeOK', Filling
    PROVE  ChoiceInv' /\ ItemsCovered'
<1>1. Collective \notin Members /\ Capsule \notin Members /\ Members \cap Enemies = {}
    BY Indexes
<1>2. CASE BeginRound
    <2>1. ChoiceInv'
        BY <1>2 DEF BeginRound, EnemyPhase, Go, ChoiceInv, Cleared
    <2>2. phase' # "asking" /\ queue' = <<>>
        BY <1>2 DEF BeginRound, EnemyPhase, Go
    <2>3. Actors(queue') \cap Members = {}
        BY <2>2, EmptyQueue
    <2> QED
        BY <2>1, <2>2, <2>3, NoUsers
<1>3. ASSUME NEW p \in Priorities, ChooseCollective(p) PROVE ChoiceInv' /\ ItemsCovered'
    <2>1. phase' = "party" /\ queue' = Insert(queue, Collective, p)
        BY <1>3 DEF ChooseCollective, Go
    <2>2. queue \in Seq(Entries) /\ Actors(queue) = {} /\ Collective \in Who
        BY <1>3, EmptyQueue DEF ChooseCollective, QueueInv, Who
    <2>3. Actors(queue') = {Collective}
        BY <2>1, <2>2, Inserted
    <2> QED
        BY <1>1, <2>1, <2>3, NoUsers DEF ChoiceInv
<1>4. CASE ChooseMembers
    <2>1. /\ phase = "menu" /\ phase' = "asking" /\ cursor' = 0
          /\ choice' = choice /\ bag' = bag /\ saved' = saved
        BY <1>4 DEF ChooseMembers, Go, choosing
    <2>2. ASSUME NEW i \in Items PROVE bag'[i] + Cardinality(Choosers(i, cursor)') = saved'[i]
        <3>1. \A m \in Members : m \in Nat
            BY Indexes
        <3>2. Choosers(i, cursor)' = {}
            BY <2>1, <3>1 DEF Choosers
        <3>3. bag[i] = saved[i] /\ bag[i] \in Nat /\ Cardinality({}) = 0
            BY <2>1, FS_EmptySet DEF ChoiceInv, TypeOK
        <3> QED
            BY <2>1, <3>2, <3>3
    <2>3. ChoiceInv'
        BY <2>1 DEF ChoiceInv
    <2> QED
        BY <2>1, <2>2, <2>3 DEF ItemsCovered
<1>5. CASE Leave
    BY <1>5 DEF Leave, Go, ChoiceInv, ItemsCovered
<1>6. CASE PassMember
    <2>1. PICK n : n = cursor + 1
        OBVIOUS
    <2>2. /\ phase = "asking" /\ NextMember(bag) /\ saved' = saved /\ status' = status
          /\ choice' = choice
        BY <1>6 DEF PassMember, fighters
    <2>3. ItemsCovered'
        BY <1>6, <2>1, <2>2, PassReserves, NextMemberItems
    <2>4. ChoiceInv'
        <3>1. cursor \in Nat /\ \A m \in Members : m \in Nat
            BY Indexes DEF TypeOK
        <3>2. phase' # "menu" /\ (phase' = "asking" => cursor' = cursor + 1)
            BY <2>2 DEF NextMember, Go
        <3> QED
            BY <2>2, <3>1, <3>2 DEF ChoiceInv, Orderly, Free
    <2> QED
        BY <2>3, <2>4
<1>7. ASSUME NEW c \in Items \cup {Act}, NEW p \in Priorities, CommandMember(c, p)
      PROVE  ChoiceInv' /\ ItemsCovered'
    <2> DEFINE b == IF c \in Items THEN [bag EXCEPT ![c] = @ - 1] ELSE bag
    <2>1. PICK n : n = cursor + 1
        OBVIOUS
    <2>2. /\ phase = "asking" /\ NextMember(b) /\ saved' = saved /\ status' = status
          /\ choice' = [choice EXCEPT ![cursor] = c] /\ Orderly(cursor) /\ cursor \in Members
        BY <1>7 DEF CommandMember, fighters, Orderly, QueueInv
    <2>3. Reserves(b, n)
        BY <1>7, <2>1, CommandReserves
    <2> HIDE DEF b
    <2>4. ItemsCovered'
        BY <2>1, <2>2, <2>3, NextMemberItems
    <2>5. ChoiceInv'
        <3>1. cursor \in Nat /\ \A m \in Members : m \in Nat
            BY Indexes DEF TypeOK
        <3>2. phase' # "menu" /\ (phase' = "asking" => cursor' = cursor + 1)
            BY <2>2 DEF NextMember, Go
        <3>3. \A m \in Members : choice'[m] # None => m <= cursor /\ Orderly(m)
            BY <2>2, <3>1 DEF ChoiceInv, TypeOK
        <3> QED
            BY <2>2, <3>1, <3>2, <3>3 DEF ChoiceInv, Orderly, Free
    <2> QED
        BY <2>4, <2>5
<1>8. CASE StepBack
    BY <1>8, StepBackItems
<1>9. ASSUME NEW p \in Priorities, QueueParty(p) PROVE ChoiceInv' /\ ItemsCovered'
    <2>1. /\ phase = "party" /\ phase' \in {"party", "capsule"} /\ bag' = bag
          /\ cursor \in Members /\ cursor \in Who /\ queue \in Seq(Entries)
        BY <1>9, QueueType, Indexes DEF QueueParty, Go, QueueInv, Who
    <2>2. ASSUME NEW i \in Items PROVE Users(i)' \subseteq Users(i)
        <3>1. ToCome = Actors(queue) /\ ToCome' = Actors(queue')
            BY <2>1 DEF ToCome, Actors
        <3>2. CASE "confused" \in status[cursor]
            <4>1. /\ Actors(queue') = Actors(queue) \cup {cursor}
                  /\ choice' = [choice EXCEPT ![cursor] = Act]
                BY <1>9, <2>1, <3>2, Inserted DEF QueueParty
            <4>2. i # Act
                BY BattleAssumption
            <4>3. \A m \in Members : choice'[m] = IF m = cursor THEN Act ELSE choice[m]
                BY <4>1 DEF TypeOK
            <4> QED
                BY <3>1, <4>1, <4>2, <4>3 DEF Users
        <3>3. CASE "confused" \notin status[cursor]
            <4>1. queue' = queue /\ choice' = choice
                BY <1>9, <3>3 DEF QueueParty
            <4> QED
                BY <3>1, <4>1 DEF Users
        <3> QED
            BY <3>2, <3>3
    <2>3. ItemsCovered'
        BY <2>1, <2>2, UsersKept
    <2> QED
        BY <2>1, <2>3 DEF ChoiceInv
<1>10. ASSUME NEW p \in Priorities, QueueCapsule(p) \/ QueueEnemy(p)
       PROVE  ChoiceInv' /\ ItemsCovered'
    <2>1. /\ phase \in {"capsule", "enemies"} /\ phase' \in {"enemies", "turns"}
          /\ bag' = bag /\ choice' = choice /\ queue \in Seq(Entries)
        BY <1>10, QueueType DEF QueueCapsule, QueueEnemy, EnemyPhase, Go, choosing
    <2>2. Actors(queue') \cap Members \subseteq Actors(queue)
        <3>1. CASE QueueCapsule(p)
            <4>1. CASE queue' = queue
                BY <4>1
            <4>2. CASE queue' # queue
                <5>1. HasCapsule /\ queue' = Insert(queue, Capsule, p)
                    BY <3>1, <4>2, Zenon DEF QueueCapsule
                <5>2. Capsule \in Who
                    BY <5>1 DEF Who, PartySide
                <5>3. Actors(queue') = Actors(queue) \cup {Capsule}
                    BY <2>1, <5>1, <5>2, Inserted
                <5> QED
                    BY <1>1, <5>3
            <4> QED
                BY <4>1, <4>2
        <3>2. CASE QueueEnemy(p)
            <4>1. cursor \in Enemies /\ cursor \in Who /\ queue' \in {queue, Insert(queue, cursor, p)}
                BY <3>2 DEF QueueEnemy, QueueInv, Who
            <4>2. Actors(queue') \subseteq Actors(queue) \cup {cursor}
                BY <2>1, <4>1, Inserted
            <4> QED
                BY <1>1, <4>1, <4>2
        <3> QED
            BY <1>10, <3>1, <3>2
    <2>3. ToCome = Actors(queue) /\ ToCome' \subseteq Actors(queue')
        BY <2>1 DEF ToCome, Actors
    <2>4. \A i \in Items : Users(i)' \subseteq Users(i)
        BY <2>1, <2>2, <2>3 DEF Users
    <2>5. ItemsCovered'
        BY <2>1, <2>4, UsersKept
    <2> QED
        BY <2>1, <2>5 DEF ChoiceInv
<1> QED
    BY <1>2, <1>3, <1>4, <1>5, <1>6, <1>7, <1>8, <1>9, <1>10 DEF Filling

(* The battler at the cursor has had its turn.                              *)
LEMMA TurnOver ==
    ASSUME TypeOK, QueueInv, InTurns, phase' = "turns", cursor' = cursor + 1, NEW fallen,
           queue' = queue \/ queue' = Invalidate(queue, fallen)
    PROVE  ToCome' \cap Members \subseteq ToCome \ {Actor}
<1>1. queue \in Seq(Entries) /\ Distinct(queue) /\ cursor \in DOMAIN queue /\ cursor \in Nat
    BY QueueType, ActorType DEF QueueInv, TypeOK
<1>2. DOMAIN queue' = DOMAIN queue /\ \A k \in DOMAIN queue : queue'[k].actor \in {queue[k].actor, Gone}
    BY <1>1, Invalidated
<1>3. ASSUME NEW a \in ToCome', a \in Members PROVE a \in ToCome /\ a # Actor
    <2>1. PICK j \in DOMAIN queue' : cursor' <= j /\ queue'[j].actor = a
        BY DEF ToCome
    <2>2. a # Gone
        BY <1>3, Indexes
    <2>3. j \in DOMAIN queue /\ queue[j].actor = a /\ cursor <= j /\ cursor # j
        BY <1>1, <1>2, <2>1, <2>2
    <2>4. a \in ToCome
        BY <2>3 DEF ToCome
    <2>5. a # Actor
        BY <1>1, <2>2, <2>3 DEF Distinct, Actor
    <2> QED
        BY <2>4, <2>5
<1> QED
    BY <1>3

LEMMA FightingItems ==
    ASSUME TypeOK, QueueInv, ItemsCovered, Fighting
    PROVE  ChoiceInv' /\ ItemsCovered'
<1>1. /\ InTurns /\ phase = "turns" /\ choice' = choice /\ saved' = saved
      /\ phase' \in {"turns", "over", "searching"}
      /\ phase' = "turns" => cursor' = cursor + 1
    <2>1. InTurns /\ choice' = choice /\ saved' = saved
        BY DEF Fighting, LoseTurn, Escape, SkipGone, SearchForever, Flee, Summon, TakeTurn, Aimed,
               Able, choosing
    <2>2. ASSUME NEW st, NEW present, Outcome(st, present)
          PROVE  phase' \in {"turns", "over"} /\ (phase' = "turns" => cursor' = cursor + 1)
        BY <2>2 DEF Outcome, Go
    <2>3. /\ phase' \in {"turns", "over", "searching"}
          /\ phase' = "turns" => cursor' = cursor + 1
        <3>1. CASE LoseTurn \/ Escape \/ SkipGone
            BY <2>2, <3>1 DEF LoseTurn, Escape, SkipGone, Go
        <3>2. ASSUME NEW side, SearchForever(side) \/ Flee(side) \/ Summon(side)
              PROVE  /\ phase' \in {"turns", "over", "searching"}
                     /\ phase' = "turns" => cursor' = cursor + 1
            BY <2>2, <3>2 DEF SearchForever, Flee, Summon, Go
        <3>3. ASSUME NEW side, NEW power, TakeTurn(side, power)
              PROVE  /\ phase' \in {"turns", "over", "searching"}
                     /\ phase' = "turns" => cursor' = cursor + 1
            BY <2>2, <3>3 DEF TakeTurn
        <3> QED
            BY <3>1, <3>2, <3>3 DEF Fighting
    <2> QED
        BY <2>1, <2>3 DEF InTurns
<1>2. ChoiceInv'
    BY <1>1 DEF ChoiceInv
<1>3. CASE phase' # "turns"
    <2>1. phase' \notin {"asking", "party", "capsule", "enemies", "turns"}
        BY <1>1, <1>3
    <2> QED
        BY <1>2, <2>1 DEF ItemsCovered
<1>4. CASE phase' = "turns"
    <2>1. PICK fallen : queue' = queue \/ queue' = Invalidate(queue, fallen)
        BY DEF Fighting, LoseTurn, Escape, SkipGone, SearchForever, Flee, Summon, TakeTurn
    <2>2. ToCome' \cap Members \subseteq ToCome \ {Actor}
        BY <1>1, <1>4, <2>1, TurnOver
    <2>3. \A i \in Items : Users(i)' \subseteq Users(i) \ {Actor}
        BY <1>1, <2>2 DEF Users
    <2>4. CASE bag' = bag
        <3>1. phase' # "asking" /\ \A i \in Items : Users(i)' \subseteq Users(i)
            BY <1>4, <2>3
        <3> QED
            BY <1>1, <1>2, <2>4, <3>1, UsersKept
    <2>5. CASE bag' = BagUsed
        <3>1. ASSUME NEW i \in Items PROVE Cardinality(Users(i)') <= bag'[i]
            <4> DEFINE U == Users(i)
                       V == Users(i)'
            <4>1. IsFiniteSet(U) /\ V \subseteq U \ {Actor}
                BY <2>3, FiniteChoosers
            <4>2. Cardinality(U) <= bag[i] /\ bag[i] \in Nat
                BY <1>1 DEF ItemsCovered, TypeOK
            <4>3. bag'[i] = IF i = UsedItem /\ bag[i] > 0 THEN bag[i] - 1 ELSE bag[i]
                BY <2>5 DEF BagUsed
            <4>4. i = UsedItem => Actor \in U
                <5>1. SUFFICES ASSUME i = UsedItem PROVE Actor \in U
                    OBVIOUS
                <5>2. Actor \in Members /\ choice[Actor] = i
                    BY <5>1, BattleAssumption DEF UsedItem
                <5>3. cursor \in DOMAIN queue /\ cursor \in Nat
                    BY <1>1, ActorType DEF TypeOK
                <5>4. Actor \in ToCome
                    BY <5>3 DEF ToCome, Actor
                <5> QED
                    BY <5>2, <5>4 DEF Users
            <4> HIDE DEF U, V
            <4>5. Cardinality(V) \in Nat /\ Cardinality(U) \in Nat /\ Cardinality(V) <= Cardinality(U)
                BY <4>1, Fewer
            <4>6. CASE Actor \in U
                <5>1. IsFiniteSet(U \ {Actor}) /\ Cardinality(U \ {Actor}) = Cardinality(U) - 1
                    BY <4>1, <4>6, FS_RemoveElement
                <5>2. Cardinality(V) <= Cardinality(U \ {Actor})
                    BY <4>1, <5>1, Fewer
                <5> QED
                    BY <4>2, <4>3, <4>5, <5>1, <5>2 DEF V
            <4>7. CASE Actor \notin U
                BY <4>2, <4>3, <4>4, <4>5, <4>7 DEF V
            <4> QED
                BY <4>6, <4>7
        <3>2. phase' # "asking"
            BY <1>4
        <3> QED
            BY <1>2, <3>1, <3>2 DEF ItemsCovered
    <2> QED
        BY <2>4, <2>5 DEF Fighting, LoseTurn, Escape, SkipGone, SearchForever, Flee, Summon, TakeTurn, choosing
<1> QED
    BY <1>2, <1>3, <1>4

LEMMA ItemStep ==
    ASSUME TypeOK, QueueInv, ChoiceInv, ItemsCovered, TypeOK', [Next]_vars
    PROVE  ChoiceInv' /\ ItemsCovered'
<1>1. CASE Filling
    BY <1>1, FillingItems
<1>2. CASE Fighting
    BY <1>2, FightingItems
<1>3. CASE Swapping
    BY <1>3 DEF Swapping, SwapPartyOrder, choosing, ChoiceInv, ItemsCovered
<1>4. CASE PoisonTick \/ Recover
    BY <1>4 DEF PoisonTick, Recover, Go, ChoiceInv, ItemsCovered
<1>5. CASE UNCHANGED vars
    BY <1>5 DEF vars, ChoiceInv, ItemsCovered, Orderly, Free, Choosers, Users, ToCome
<1> QED
    BY <1>1, <1>2, <1>3, <1>4, <1>5, Steps

-----------------------------------------------------------------------------
(* The invariant.                                                           *)

LEMMA InitInv == Init => IInv
<1> SUFFICES ASSUME Init PROVE IInv
    OBVIOUS
<1>1. TypeOK
    <2>1. status \in Statuses
        <3>1. {"poison"} \cap Ailments \subseteq Ailments
            OBVIOUS
        <3> QED
            BY <3>1 DEF Init, Statuses, Battlers
    <2>2. <<>> \in Seq([actor : PartySide \cup Enemies \cup {Collective, Gone}, priority : Priorities])
        OBVIOUS
    <2>3. records \in SUBSET Enemies /\ records # {} /\ StartBag \in [Items -> Nat]
        BY BattleAssumption DEF Init
    <2>4. choice \in [Members -> Items \cup {None, Act}] /\ paid \in [Enemies -> Nat]
        BY DEF Init
    <2> QED
        BY <2>1, <2>2, <2>3, <2>4 DEF Init, TypeOK, Phases, Statuses, Battlers
<1>2. QueueInv
    BY EmptyQueue DEF Init, QueueInv
<1>3. ChoiceInv /\ ItemsCovered /\ TurnInv /\ PaidInv
    BY DEF Init, ChoiceInv, ItemsCovered, TurnInv, TargetsStand, PaidInv, PaidOnce
<1> QED
    BY <1>1, <1>2, <1>3 DEF IInv

LEMMA StepInv == IInv /\ [Next]_vars => IInv'
BY TypeStep, QueueStep, ItemStep, TurnStep, PaidStep DEF IInv

LEMMA Invariance == Spec => []IInv
BY InitInv, StepInv, PTL DEF Spec

(* The queue of turns fits and has one entry for each battler, whatever is  *)
(* commanded, taken back and queued, and once the outcome of a turn has     *)
(* been looked at there is somebody to act on.                              *)
THEOREM Rounds == Spec => []RoundInv
<1>1. IInv => RoundInv
    BY DEF IInv, RoundInv, QueueInv, QueueFits, Distinct, TurnInv
<1> QED
    BY <1>1, Invariance, PTL

(* Every item that a turn still to come will use is in the bag, however     *)
(* often commands are taken back and given again.                           *)
THEOREM ItemsAreThere == Spec => []ItemsCovered
BY Invariance, PTL DEF IInv

(* No enemy is paid for twice unless it stood up in between.                *)
THEOREM RewardedOnce == Spec => []PaidOnce
<1>1. IInv => PaidOnce
    BY DEF IInv, PaidInv
<1> QED
    BY <1>1, Invariance, PTL
=============================================================================
