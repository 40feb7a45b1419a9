---------------------------- MODULE BattleRound ----------------------------
(***************************************************************************)
(* The rounds of a battle (battle/battle_loop_internal.c): the player's    *)
(* commands, taken back and given again, the bag they reserve items in,    *)
(* the queue of turns, the turns themselves with falls, revivals, flight   *)
(* and summons, what the fallen pay, the outcome, and the end of a round,  *)
(* where poison acts.                                                      *)
(*                                                                         *)
(* A battler is the index of its record: the party's places, the capsule   *)
(* monster at 4, enemies from 5 on.  Hit points are left out: an action    *)
(* may fell any target it has, and poison any battler that has it.  The    *)
(* conditions an action gives and takes come from data (Powers) and each   *)
(* target takes all of them or none.                                       *)
(***************************************************************************)
EXTENDS Integers, Sequences, FiniteSets, SequencesExt

CONSTANTS
    PartySize,      \* WRAM_BATTLE_PARTY_COUNT
    HasCapsule,     \* a capsule monster fights
    EnemyCount,     \* records for enemies
    FirstEnemies,   \* the records filled when the battle begins
    QueueCount,     \* WRAM_BATTLE_TURN_QUEUE_COUNT
    Items,          \* items that can be used in battle
    StartBag,       \* item -> how many the party brings
    Ailments,       \* conditions other than being down
    Powers,         \* what actions do: [cures, gives]
    Priorities,     \* values of a turn's priority
    CanLeave,       \* the battle may be left from the menu
    None

Members == 0 .. PartySize - 1
Capsule == 4
Enemies == 5 .. 4 + EnemyCount
PartySide == Members \cup (IF HasCapsule THEN {Capsule} ELSE {})
Collective == 5 + EnemyCount    \* the party as one actor
Gone == 6 + EnemyCount          \* an entry whose battler fell
Act == 7 + EnemyCount           \* any command but an item
Conditions == {"poison", "down", "asleep", "confused", "stopped"}

ASSUME BattleAssumption ==
    /\ PartySize \in 1 .. 4 /\ HasCapsule \in BOOLEAN
    /\ EnemyCount \in 1 .. 6 /\ FirstEnemies \in SUBSET Enemies /\ FirstEnemies # {}
    /\ QueueCount \in Nat /\ PartySize + 1 + EnemyCount < QueueCount
    /\ StartBag \in [Items -> Nat] /\ IsFiniteSet(Items)
    /\ Ailments \subseteq Conditions \ {"down"}
    /\ Powers \subseteq [cures : SUBSET Conditions, gives : SUBSET Ailments]
    /\ Priorities \subseteq Nat /\ CanLeave \in BOOLEAN
    /\ None \notin Items /\ Act \notin Items /\ None # Act

VARIABLES
    status,     \* battler -> its conditions
    records,    \* enemies that have a record
    modes,      \* sides that take turns this round
    phase,      \* where BattleRunFrame is
    cursor,     \* the member asked, the record queued, or the entry executed
    queue,      \* the turn queue up to its first free entry
    choice,     \* member -> its command record: None, Act or an item
    bag,        \* the party's items
    saved,      \* their copy, taken before the commands
    result,     \* how the battle ended
    acted,      \* history: a turn of this round is over
    paid        \* history: enemy -> rewards for it since it last stood up

choosing == <<choice, bag, saved>>
fighters == <<status, records, result, paid>>
vars == <<status, records, modes, phase, cursor, queue, choice, bag, saved, result, acted, paid>>

-----------------------------------------------------------------------------
(* The turn queue: an entry goes before the first of smaller priority.      *)

Entry(a, p) == [actor |-> a, priority |-> p]
Leading(q, p) == {j \in DOMAIN q : \A i \in 1 .. j : q[i].priority >= p}
Insert(q, a, p) == InsertAt(q, Cardinality(Leading(q, p)) + 1, Entry(a, p))

Actors(q) == {q[k].actor : k \in DOMAIN q}
Without(q, a) ==
    IF a \notin Actors(q) THEN q
    ELSE RemoveAt(q, CHOOSE k \in DOMAIN q : q[k].actor = a)

(* The entries of those who fell are skipped when their turn comes.         *)
Invalidate(q, fallen) ==
    [k \in DOMAIN q |-> IF q[k].actor \in fallen THEN [q[k] EXCEPT !.actor = Gone] ELSE q[k]]

-----------------------------------------------------------------------------
(* Who can do what.                                                         *)

NoTurn == {"down", "asleep", "stopped"}
NoCommand == {"down", "asleep", "confused", "stopped"}
Blocked == {"down", "confused", "stopped"}
Free(b, conditions) == status[b] \cap conditions = {}

Standing(st, S) == {b \in S : "down" \notin st[b]}
PartyDown(st) == Standing(st, Members) = {}
EnemiesDown(st, present) == Standing(st, present) = {}

-----------------------------------------------------------------------------
(* A round begins; when no member can be asked there are no commands.       *)

Go(p, c) == phase' = p /\ cursor' = c
EnemyPhase == IF "enemies" \in modes THEN Go("enemies", 5) ELSE Go("turns", 1)
Cleared(ch) == [m \in Members |-> None]

BeginRound ==
    /\ phase = "frame"
    /\ queue' = <<>> /\ acted' = FALSE
    /\ IF "party" \notin modes THEN EnemyPhase /\ UNCHANGED choosing
       ELSE IF \E m \in Members : Free(m, Blocked)
       THEN Go("menu", 0) /\ saved' = bag /\ choice' = Cleared(choice) /\ UNCHANGED bag
       ELSE Go("party", 0) /\ UNCHANGED choosing
    /\ UNCHANGED <<fighters, modes>>

(* The command menu.  Members change places before any command is given.    *)
ChooseCollective(p) ==
    /\ phase = "menu" /\ Go("party", 0)
    /\ queue' = Insert(queue, Collective, p)
    /\ bag' = saved
    /\ UNCHANGED <<fighters, modes, choice, saved, acted>>
ChooseMembers ==
    /\ phase = "menu" /\ Go("asking", 0)
    /\ UNCHANGED <<fighters, modes, queue, choosing, acted>>
SwapPartyOrder(m, n) ==
    /\ phase = "menu" /\ m < n
    /\ status' = [status EXCEPT ![m] = status[n], ![n] = status[m]]
    /\ UNCHANGED <<records, modes, phase, cursor, queue, choosing, result, acted, paid>>
Leave ==
    /\ phase = "menu" /\ CanLeave
    /\ Go("over", 0) /\ result' = "left"
    /\ UNCHANGED <<status, records, modes, queue, choosing, acted, paid>>

(* The members' commands.  After the last one the bag gets back what the    *)
(* commands reserved.                                                       *)
BagAfter(b) == saved
NextMember(b) ==
    IF cursor + 1 = PartySize THEN Go("party", 0) /\ bag' = BagAfter(b)
    ELSE Go("asking", cursor + 1) /\ bag' = b
PassMember ==
    /\ phase = "asking" /\ ~ Free(cursor, NoCommand)
    /\ NextMember(bag)
    /\ UNCHANGED <<fighters, modes, queue, choice, saved, acted>>

(* A member that is asked again loses its entry and its record; an item it  *)
(* chooses leaves the bag, so that the next member cannot choose it too.    *)
MutantAsked == queue
Asked == Without(queue, cursor)
CommandMember(c, p) ==
    /\ phase = "asking" /\ Free(cursor, NoCommand)
    /\ c \in Items => bag[c] > 0
    /\ NextMember(IF c \in Items THEN [bag EXCEPT ![c] = @ - 1] ELSE bag)
    /\ choice' = [choice EXCEPT ![cursor] = c]
    /\ queue' = Insert(Asked, cursor, p)
    /\ UNCHANGED <<fighters, modes, saved, acted>>

(* Stepping back to the last member before that can be asked: the bag is    *)
(* restored and the members before that one reserve their items again.      *)
Choosers(i, n) == {m \in Members : m < n /\ choice[m] = i}
MutantReserved(n) == [i \in Items |-> saved[i] - Cardinality(Choosers(i, n + 1))]
Reserved(n) ==
    [i \in Items |-> LET k == Cardinality(Choosers(i, n))
                     IN IF k <= saved[i] THEN saved[i] - k ELSE 0]
StepBack ==
    /\ phase = "asking" /\ Free(cursor, NoCommand)
    /\ queue' = Asked
    /\ LET earlier == {m \in Members : m < cursor /\ Free(m, NoCommand)} IN
       IF earlier = {}
       THEN Go("menu", 0) /\ choice' = Cleared(choice) /\ UNCHANGED bag
       ELSE \E last \in earlier :
                /\ \A m \in earlier : m <= last
                /\ Go("asking", last)
                /\ choice' = [choice EXCEPT ![cursor] = None]
                /\ bag' = Reserved(last)
    /\ UNCHANGED <<fighters, modes, saved, acted>>

-----------------------------------------------------------------------------
(* Turns nobody is asked for: confused members, the capsule, the enemies.   *)

QueueParty(p) ==
    /\ phase = "party"
    /\ IF "confused" \in status[cursor]
       THEN /\ queue' = Insert(queue, cursor, p)
            /\ choice' = [choice EXCEPT ![cursor] = Act]
       ELSE UNCHANGED <<queue, choice>>
    /\ IF cursor + 1 = PartySize THEN Go("capsule", 0) ELSE Go("party", cursor + 1)
    /\ UNCHANGED <<fighters, modes, bag, saved, acted>>
QueueCapsule(p) ==
    /\ phase = "capsule" /\ EnemyPhase
    /\ queue' = IF HasCapsule /\ Free(Capsule, NoTurn) THEN Insert(queue, Capsule, p) ELSE queue
    /\ UNCHANGED <<fighters, modes, choosing, acted>>
QueueEnemy(p) ==
    /\ phase = "enemies"
    /\ queue' = IF cursor \in records /\ Free(cursor, NoTurn)
                THEN Insert(queue, cursor, p) ELSE queue
    /\ IF cursor = 4 + EnemyCount THEN Go("turns", 1) ELSE Go("enemies", cursor + 1)
    /\ UNCHANGED <<fighters, modes, choosing, acted>>

-----------------------------------------------------------------------------
(* The turns.                                                               *)

Actor == queue[cursor].actor
InTurns == phase = "turns" /\ cursor <= Len(queue)
Unable == Actor # Collective /\ ~ Free(Actor, NoTurn)

(* After every turn the outcome is looked at; enemies come first, and a     *)
(* party that lost is stood up again.                                       *)
Cured(st) == [b \in DOMAIN st |-> IF b \in Members THEN {} ELSE st[b]]
Outcome(st, present) ==
    /\ acted' = TRUE
    /\ IF EnemiesDown(st, present) THEN Go("over", 0) /\ result' = "won" /\ status' = st
       ELSE IF PartyDown(st) THEN Go("over", 0) /\ result' = "lost" /\ status' = Cured(st)
       ELSE Go("turns", cursor + 1) /\ UNCHANGED result /\ status' = st

SkipGone ==
    /\ InTurns /\ Actor = Gone /\ Go("turns", cursor + 1)
    /\ UNCHANGED <<fighters, modes, queue, choosing, acted>>
LoseTurn ==
    /\ InTurns /\ Actor # Gone /\ Unable
    /\ Outcome(status, records)
    /\ UNCHANGED <<records, modes, queue, choosing, paid>>

(* An action looks for its targets first; with nobody standing on their     *)
(* side it goes on looking forever.                                         *)
Able == InTurns /\ Actor # Gone /\ ~ Unable
Aimed(side) == Able /\ Standing(status, side) # {}
SearchForever(side) ==
    /\ Able /\ Standing(status, side) = {}
    /\ Actor = Collective => side = PartySide
    /\ Go("searching", 0)
    /\ UNCHANGED <<fighters, modes, queue, choosing, acted>>

(* A target that takes the action loses and gets conditions; one that is    *)
(* still down then is left alone, and the others can fall.                  *)
Treated(power, takers) ==
    [b \in DOMAIN status |->
        IF b \notin takers THEN status[b]
        ELSE LET left == status[b] \ power.cures
             IN IF "down" \in left THEN left ELSE left \cup power.gives]
Felled(left, fallen) == [b \in DOMAIN left |-> IF b \in fallen THEN {"down"} ELSE left[b]]
Fallible(left, targets) == {b \in targets : "down" \notin left[b]}

(* Experience and gold for every enemy that falls.                          *)
Payment(left, fallen) ==
    [e \in Enemies |->
        (IF "down" \in status[e] /\ "down" \notin left[e] THEN 0 ELSE paid[e])
        + (IF e \in fallen THEN 1 ELSE 0)]

(* Whoever uses an item takes it from the bag, and acts even if it is not   *)
(* there; the confused do something else.                                   *)
UsedItem ==
    IF Actor \in Members /\ "confused" \notin status[Actor] /\ choice[Actor] \in Items
    THEN choice[Actor] ELSE None
BagUsed == [i \in Items |-> IF i = UsedItem /\ bag[i] > 0 THEN bag[i] - 1 ELSE bag[i]]

TakeTurn(side, power) ==
    /\ Aimed(side) /\ Actor # Collective
    /\ \E targets \in SUBSET (side \cup {Actor}) : \E takers \in SUBSET targets :
          LET left == Treated(power, takers) IN
          \E fallen \in SUBSET Fallible(left, targets) :
              /\ Outcome(Felled(left, fallen), records)
              /\ queue' = Invalidate(queue, fallen)
              /\ paid' = Payment(left, fallen)
    /\ bag' = BagUsed
    /\ UNCHANGED <<records, modes, choice, saved>>

(* Enemies and the capsule flee: down without a fall, and nobody is paid.   *)
Flee(side) ==
    /\ Aimed(side) /\ Actor \in Enemies \cup {Capsule}
    /\ Outcome([status EXCEPT ![Actor] = @ \cup {"down"}], records)
    /\ queue' = Invalidate(queue, {Actor})
    /\ UNCHANGED <<records, modes, choosing, paid>>

(* A summoned enemy takes the first record that is free.                    *)
Summon(side) ==
    /\ Aimed(side) /\ Actor \in Enemies /\ records # Enemies
    /\ \E e \in Enemies \ records :
          /\ \A f \in Enemies \ records : e <= f
          /\ records' = records \cup {e}
          /\ Outcome([status EXCEPT ![e] = {}], records \cup {e})
    /\ UNCHANGED <<modes, queue, choosing, paid>>

(* The party's collective command is escape, which may fail.                *)
Escape ==
    /\ Aimed(PartySide) /\ Actor = Collective
    /\ \/ Go("over", 0) /\ result' = "escaped" /\ UNCHANGED <<status, acted>>
       \/ Outcome(status, records)
    /\ UNCHANGED <<records, modes, queue, choosing, paid>>

-----------------------------------------------------------------------------
(* The end of a round: poison, without a look at the outcome; then those    *)
(* that stand may come round.                                               *)

MutantPoisoned(fallen) ==
    [b \in DOMAIN status |-> IF b \in fallen THEN status[b] \cup {"down"} ELSE status[b]]
Poisoned(fallen) == Felled(status, fallen)
PoisonTick ==
    /\ phase = "turns" /\ cursor > Len(queue) /\ Go("recovery", 0)
    /\ \E fallen \in SUBSET {b \in PartySide \cup records : "poison" \in status[b]} :
          /\ status' = Poisoned(fallen)
          /\ paid' = [e \in Enemies |-> IF e \in fallen THEN paid[e] + 1 ELSE paid[e]]
    /\ UNCHANGED <<records, modes, queue, choosing, result, acted>>
Afflicted ==
    {b \in PartySide \cup records :
        "down" \notin status[b] /\ ~ Free(b, Conditions \ {"poison"})}
Recover ==
    /\ phase = "recovery" /\ Go("frame", 0)
    /\ \E cures \in [Afflicted -> SUBSET ({"asleep", "confused", "stopped"} \cap Ailments)] :
          status' = [b \in DOMAIN status |->
                        IF b \in Afflicted THEN status[b] \ cures[b] ELSE status[b]]
    /\ modes' = {"party", "enemies"}
    /\ UNCHANGED <<records, queue, choosing, result, acted, paid>>

-----------------------------------------------------------------------------
(* The party may come to a battle poisoned or with members down; the first  *)
(* round may belong to one side.                                            *)
Init ==
    /\ status \in [PartySide \cup Enemies -> {{}, {"poison"} \cap Ailments, {"down"}}]
    /\ \A b \in PartySide \cup Enemies : b \notin Members => status[b] = {}
    /\ Standing(status, Members) # {}
    /\ records = FirstEnemies
    /\ modes \in {{"party", "enemies"}, {"party"}, {"enemies"}}
    /\ phase = "frame" /\ cursor = 0 /\ queue = <<>>
    /\ choice = [m \in Members |-> None] /\ bag = StartBag /\ saved = StartBag
    /\ result = "none" /\ acted = FALSE /\ paid = [e \in Enemies |-> 0]

Commands ==
    \/ BeginRound
    \/ \E p \in Priorities : ChooseCollective(p)
    \/ ChooseMembers \/ Leave \/ PassMember \/ StepBack
    \/ \E m, n \in Members : SwapPartyOrder(m, n)
    \/ \E c \in Items \cup {Act}, p \in Priorities : CommandMember(c, p)
Queueing ==
    \/ \E p \in Priorities : QueueParty(p)
    \/ \E p \in Priorities : QueueCapsule(p)
    \/ \E p \in Priorities : QueueEnemy(p)
Turns ==
    \/ SkipGone \/ LoseTurn \/ Escape
    \/ \E side \in {PartySide, records} : SearchForever(side)
    \/ \E side \in {PartySide, records} : Flee(side)
    \/ \E side \in {PartySide, records} : Summon(side)
    \/ \E side \in {PartySide, records}, power \in Powers : TakeTurn(side, power)
Ended == phase \in {"over", "searching"} /\ UNCHANGED vars

Next == Commands \/ Queueing \/ Turns \/ PoisonTick \/ Recover \/ Ended
Spec == Init /\ [][Next]_vars

-----------------------------------------------------------------------------
(* What a round owes its fighters.                                          *)

Phases == {"frame", "menu", "asking", "party", "capsule", "enemies", "turns",
           "recovery", "over", "searching"}
TypeOK ==
    /\ status \in [PartySide \cup Enemies -> SUBSET ({"down"} \cup Ailments)]
    /\ records \in SUBSET Enemies /\ records # {}
    /\ modes \in SUBSET {"party", "enemies"}
    /\ phase \in Phases /\ cursor \in Nat
    /\ queue \in Seq([actor : PartySide \cup Enemies \cup {Collective, Gone},
                      priority : Priorities])
    /\ choice \in [Members -> Items \cup {None, Act}]
    /\ bag \in [Items -> Nat] /\ saved \in [Items -> Nat]
    /\ result \in {"none", "won", "lost", "escaped", "left"}
    /\ acted \in BOOLEAN /\ paid \in [Enemies -> Nat]

(* The queue always has a free entry at its end (inserting into a full one  *)
(* would never stop copying), and no battler has two.                       *)
QueueFits ==
    /\ Len(queue) < QueueCount
    /\ \A j, k \in DOMAIN queue :
            queue[j].actor = queue[k].actor /\ queue[j].actor # Gone => j = k

(* An action may only be without targets in the first turn of a round, when *)
(* poison has felled a whole side at the end of the last one.               *)
TargetsStand ==
    /\ phase = "searching" => ~ acted
    /\ phase = "turns" /\ acted => ~ PartyDown(status) /\ ~ EnemiesDown(status, records)

(* Commands taken back and given again, confusion, falls and revivals leave *)
(* a queue of turns that fits, one for each battler, and turns that find    *)
(* somebody to act on once the outcome has been looked at.                  *)
RoundInv == TypeOK /\ QueueFits /\ TargetsStand

(* The items chosen are there: while commands are given, the bag and what   *)
(* the members before the asked one have chosen make up the bag they began  *)
(* with; afterwards the bag has an item for everybody whose turn with it is *)
(* still to come, although using it does not look.                          *)
ToCome == {queue[k].actor : k \in {j \in DOMAIN queue : phase # "turns" \/ cursor <= j}}
Users(i) == {m \in Members : m \in ToCome /\ choice[m] = i}
ItemsCovered ==
    /\ phase = "asking" =>
            \A i \in Items : bag[i] + Cardinality(Choosers(i, cursor)) = saved[i]
    /\ phase \in {"party", "capsule", "enemies", "turns"} =>
            \A i \in Items : Cardinality(Users(i)) <= bag[i]

(* Experience and gold of an enemy are counted once until it stands up      *)
(* again, for enemies that fled while poisoned too: poison fells them once. *)
PaidOnce == \A e \in Enemies : paid[e] <= 1
=============================================================================
