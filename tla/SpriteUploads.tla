--------------------------- MODULE SpriteUploads ---------------------------
(***************************************************************************)
(* How the frames of field sprites reach video memory: while it draws a    *)
(* frame, the main program puts an upload into a queue of eight places for *)
(* each sprite whose graphics changed (field/field_sprites.c), and the     *)
(* field's NMI callback serves the whole queue (NmiBlockUploads in         *)
(* field/field_nmi.c).                                                     *)
(*                                                                         *)
(* The main program fills a place with several instructions, and the NMI   *)
(* fits between any two of them; the NMI runs whole and is one action.     *)
(* Which sprites are visible, in which order they are drawn, and what      *)
(* changes their frames (object scripts, events, the player) is left open. *)
(***************************************************************************)
EXTENDS Integers, FiniteSets

CONSTANTS
    Actors,         \* slots of ordinary actors: redrawn when the frame differs
    Objects,        \* slots of field objects: redrawn when flagged
    Frames,         \* the frames a sprite can have
    Slots,          \* places of the queue
    ActorSlots,     \* places that uploads of actors may take
    NoFrame,        \* 0xff: the frame shown by an actor is not known
    Nothing         \* an empty place; graphics that belong to no frame

Sprites == Actors \cup Objects
Uploads == [of : Sprites, frame : Frames]
Upload(t, f) == [of |-> t, frame |-> f]
Places == 0 .. Slots - 1

ASSUME SpriteAssumption ==
    /\ Actors \cap Objects = {}
    /\ Slots \in Nat
    /\ ActorSlots \in 0 .. Slots
    /\ NoFrame \notin Frames
    /\ Nothing \notin Sprites /\ Nothing \notin Uploads

VARIABLES
    wanted,         \* WRAM_UNK_7E066A: the frame each actor should show
    shown,          \* $1471: the frame its graphics were last asked for
    frame,          \* the frame each object should show
    reload,         \* bit $20 of an object's state: its graphics are to be loaded
    target,         \* $11E9 and $11F9: where in video memory, and how much
    bank,           \* $11D9: bank of the graphics
    source,         \* $05C2: their address; a place with an address is served
    cursor,         \* $0732: the next place
    graphics,       \* what video memory holds where each sprite's graphics go
    pc,             \* where the main program is
    todo,           \* the visible sprites still to be drawn
    slot,           \* Y: the place being filled
    upload          \* the upload being put into it

queue == <<target, bank, source, cursor>>
frames == <<wanted, shown, frame, reload>>
main == <<pc, todo, slot, upload>>
vars == <<frames, queue, graphics, main>>

Filling == {"indexed", "aimed", "banked", "sourced"}
Steps == {"frame", "waiting", "woken", "drawing", "found"} \cup Filling

TypeOK ==
    /\ wanted \in [Actors -> Frames]
    /\ shown \in [Actors -> Frames \cup {NoFrame}]
    /\ frame \in [Objects -> Frames]
    /\ reload \in [Objects -> BOOLEAN]
    /\ target \in [Places -> Sprites \cup {Nothing}]
    /\ bank \in [Places -> Uploads \cup {Nothing}]
    /\ source \in [Places -> Uploads \cup {Nothing}]
    /\ cursor \in 0 .. Slots
    /\ graphics \in [Sprites -> Uploads \cup {Nothing}]
    /\ pc \in Steps
    /\ todo \in SUBSET Sprites
    /\ slot \in 0 .. Slots
    /\ upload \in Uploads \cup {Nothing}
    /\ pc \in Filling \cup {"found"} => upload \in Uploads

(* The graphics that the wanted frames ask for.                             *)
WantedGraphics(w, f) ==
    [t \in Sprites |-> Upload(t, IF t \in Actors THEN w[t] ELSE f[t])]

EmptyQueue ==
    /\ target = [i \in Places |-> Nothing]
    /\ bank = [i \in Places |-> Nothing]
    /\ source = [i \in Places |-> Nothing]
    /\ cursor = 0

(* A field starts with its scene loaded.                                    *)
Init ==
    /\ wanted \in [Actors -> Frames]
    /\ shown = wanted
    /\ frame \in [Objects -> Frames]
    /\ reload \in [Objects -> BOOLEAN]
    /\ EmptyQueue
    /\ graphics = WantedGraphics(wanted, frame)
    /\ pc = "frame" /\ todo = {} /\ slot = 0 /\ upload = Nothing

-----------------------------------------------------------------------------
(* The NMI: NmiBlockUploads.                                                *)

Pending == {i \in Places : source[i] # Nothing}

(* A transfer whose address, bank and target are not of one upload leaves   *)
(* nothing of use.                                                          *)
Transfer(i) ==
    IF target[i] = source[i].of /\ bank[i] = source[i] THEN source[i] ELSE Nothing

(* Places are served in their order: the last transfer to a sprite stays.   *)
Served(t) ==
    LET to == {i \in Pending : target[i] = t}
    IN  IF to = {} THEN graphics[t]
        ELSE Transfer(CHOOSE i \in to : \A j \in to : j <= i)

(* What the other arrays hold for a place that was served is never used.    *)
Cleared(array) == [i \in Places |-> IF i \in Pending THEN Nothing ELSE array[i]]

(* The cursor is left where it was.                                         *)
MutantBlockUploads ==
    /\ graphics' = [t \in Sprites |-> Served(t)]
    /\ target' = Cleared(target)
    /\ bank' = Cleared(bank)
    /\ source' = Cleared(source)
    /\ cursor' = cursor
    /\ pc' = IF pc = "waiting" THEN "woken" ELSE pc
    /\ UNCHANGED <<frames, todo, slot, upload>>

BlockUploads ==
    /\ graphics' = [t \in Sprites |-> Served(t)]
    /\ target' = Cleared(target)
    /\ bank' = Cleared(bank)
    /\ source' = Cleared(source)
    /\ cursor' = 0
    /\ pc' = IF pc = "waiting" THEN "woken" ELSE pc
    /\ UNCHANGED <<frames, todo, slot, upload>>

-----------------------------------------------------------------------------
(* The main program between two frames.                                     *)

(* The frame wait ends when the NMI has counted a frame.                    *)
Wait ==
    /\ pc = "frame"
    /\ pc' = "waiting"
    /\ UNCHANGED <<frames, queue, graphics, todo, slot, upload>>

EndWait ==
    /\ pc = "woken"
    /\ pc' = "frame"
    /\ UNCHANGED <<frames, queue, graphics, todo, slot, upload>>

(* The scene is left and loaded again, with the NMI off: every sprite is    *)
(* uploaded at once and the queue is empty.  The fade-out before it waits   *)
(* for frames.                                                              *)
ReloadMap ==
    /\ pc = "woken"
    /\ wanted' \in [Actors -> Frames]
    /\ shown' = wanted'
    /\ frame' \in [Objects -> Frames]
    /\ reload' \in [Objects -> BOOLEAN]
    /\ target' = [i \in Places |-> Nothing]
    /\ bank' = [i \in Places |-> Nothing]
    /\ source' = [i \in Places |-> Nothing]
    /\ cursor' = 0
    /\ graphics' = WantedGraphics(wanted', frame')
    /\ pc' = "frame"
    /\ UNCHANGED <<todo, slot, upload>>

(* An actor turns, walks or is animated.                                    *)
ChangeFrame(a, f) ==
    /\ pc = "frame"
    /\ wanted' = [wanted EXCEPT ![a] = f]
    /\ UNCHANGED <<shown, frame, reload, queue, graphics, main>>

(* An actor gets another sprite.                                            *)
ForgetFrame(a) ==
    /\ pc = "frame"
    /\ shown' = [shown EXCEPT ![a] = NoFrame]
    /\ UNCHANGED <<wanted, frame, reload, queue, graphics, main>>

(* An object's script selects a frame and flags its graphics.               *)
ObjectSelectFrame(o, f) ==
    /\ pc = "frame"
    /\ frame' = [frame EXCEPT ![o] = f]
    /\ reload' = [reload EXCEPT ![o] = TRUE]
    /\ UNCHANGED <<wanted, shown, queue, graphics, main>>

(* Drawing goes through the visible sprites; an object may stand for the    *)
(* one whose graphics it shares.  Events draw too, so that there may be     *)
(* more than one drawing between two waits.                                 *)
StartDrawing(visible) ==
    /\ pc = "frame"
    /\ visible # {}
    /\ pc' = "drawing"
    /\ todo' = visible
    /\ UNCHANGED <<frames, queue, graphics, slot, upload>>

EndDrawing ==
    /\ pc = "drawing" /\ todo = {}
    /\ pc' = "frame"
    /\ UNCHANGED <<frames, queue, graphics, todo, slot, upload>>

-----------------------------------------------------------------------------
(* Drawing one sprite: FieldActorSetup and FieldObjectActorSetup.           *)

(* Nothing changed, or the queue has no room for it this time.              *)
SkipActor(a) ==
    /\ pc = "drawing" /\ a \in todo
    /\ wanted[a] = shown[a] \/ cursor >= ActorSlots
    /\ todo' = todo \ {a}
    /\ UNCHANGED <<frames, queue, graphics, pc, slot, upload>>

ShowActor(a) ==
    /\ pc = "drawing" /\ a \in todo
    /\ wanted[a] # shown[a] /\ cursor < ActorSlots
    /\ shown' = [shown EXCEPT ![a] = wanted[a]]
    /\ upload' = Upload(a, wanted[a])
    /\ pc' = "found"
    /\ todo' = todo \ {a}
    /\ UNCHANGED <<wanted, frame, reload, queue, graphics, slot>>

SkipObject(o) ==
    /\ pc = "drawing" /\ o \in todo
    /\ ~reload[o] \/ cursor >= Slots
    /\ todo' = todo \ {o}
    /\ UNCHANGED <<frames, queue, graphics, pc, slot, upload>>

LoadObject(o) ==
    /\ pc = "drawing" /\ o \in todo
    /\ reload[o] /\ cursor < Slots
    /\ reload' = [reload EXCEPT ![o] = FALSE]
    /\ upload' = Upload(o, frame[o])
    /\ pc' = "found"
    /\ todo' = todo \ {o}
    /\ UNCHANGED <<wanted, shown, frame, queue, graphics, slot>>

-----------------------------------------------------------------------------
(* Filling a place: FieldActorFrameUpload and FieldObjectSpriteUpload.      *)

(* Every upload goes into the first place.                                  *)
MutantReadCursor ==
    /\ pc = "found"
    /\ slot' = 0
    /\ pc' = "indexed"
    /\ UNCHANGED <<frames, queue, graphics, todo, upload>>

ReadCursor ==
    /\ pc = "found"
    /\ slot' = cursor
    /\ pc' = "indexed"
    /\ UNCHANGED <<frames, queue, graphics, todo, upload>>

StoreTarget ==
    /\ pc = "indexed"
    /\ target' = [target EXCEPT ![slot] = upload.of]
    /\ pc' = "aimed"
    /\ UNCHANGED <<frames, bank, source, cursor, graphics, todo, slot, upload>>

StoreBank ==
    /\ pc = "aimed"
    /\ bank' = [bank EXCEPT ![slot] = upload]
    /\ pc' = "banked"
    /\ UNCHANGED <<frames, target, source, cursor, graphics, todo, slot, upload>>

(* From here on the NMI serves the place.                                   *)
StoreSource ==
    /\ pc = "banked"
    /\ source' = [source EXCEPT ![slot] = upload]
    /\ pc' = "sourced"
    /\ UNCHANGED <<frames, target, bank, cursor, graphics, todo, slot, upload>>

(* What Y and the direct page still hold is not used again.                 *)
StoreCursor ==
    /\ pc = "sourced"
    /\ cursor' = slot + 1
    /\ slot' = 0 /\ upload' = Nothing
    /\ pc' = "drawing"
    /\ UNCHANGED <<frames, target, bank, source, graphics, todo>>

(* The address before the bank.                                             *)
SourceFirst ==
    \/ ReadCursor
    \/ StoreTarget
    \/ /\ pc = "aimed"
       /\ source' = [source EXCEPT ![slot] = upload]
       /\ pc' = "banked"
       /\ UNCHANGED <<frames, target, bank, cursor, graphics, todo, slot, upload>>
    \/ /\ pc = "banked"
       /\ bank' = [bank EXCEPT ![slot] = upload]
       /\ pc' = "sourced"
       /\ UNCHANGED <<frames, target, source, cursor, graphics, todo, slot, upload>>
    \/ StoreCursor

(* The cursor before the address.                                           *)
CursorFirst ==
    \/ ReadCursor
    \/ StoreTarget
    \/ StoreBank
    \/ /\ pc = "banked"
       /\ cursor' = slot + 1
       /\ pc' = "sourced"
       /\ UNCHANGED <<frames, target, bank, source, graphics, todo, slot, upload>>
    \/ /\ pc = "sourced"
       /\ source' = [source EXCEPT ![slot] = upload]
       /\ slot' = 0 /\ upload' = Nothing
       /\ pc' = "drawing"
       /\ UNCHANGED <<frames, target, bank, cursor, graphics, todo>>

FillPlace == ReadCursor \/ StoreTarget \/ StoreBank \/ StoreSource \/ StoreCursor

-----------------------------------------------------------------------------
Draw ==
    \/ EndDrawing
    \/ \E a \in Actors : SkipActor(a) \/ ShowActor(a)
    \/ \E o \in Objects : SkipObject(o) \/ LoadObject(o)
    \/ FillPlace

Play ==
    \/ Wait
    \/ ReloadMap
    \/ \E a \in Actors : ForgetFrame(a) \/ \E f \in Frames : ChangeFrame(a, f)
    \/ \E o \in Objects, f \in Frames : ObjectSelectFrame(o, f)
    \/ \E visible \in SUBSET Sprites : StartDrawing(visible)

Next == BlockUploads \/ EndWait \/ Draw \/ Play

Spec == Init /\ [][Next]_vars

(* The NMI comes every frame, and what has begun goes on.                   *)
FairSpec ==
    /\ Spec
    /\ WF_vars(BlockUploads)
    /\ WF_vars(EndWait)
    /\ WF_vars(Draw)

-----------------------------------------------------------------------------
(* Properties.                                                              *)

(* Wherever the NMI falls into the filling of a place, it transfers whole   *)
(* uploads only: where a sprite's graphics belong there are graphics of     *)
(* that sprite, never the address of one upload with the bank or the target *)
(* of another.                                                              *)
GraphicsWhole == \A t \in Sprites : graphics[t] \in Uploads /\ graphics[t].of = t

(* Upload u is on its way to its sprite, or there: it is being put into the *)
(* queue, or it is the last one of the sprite in the queue, or nothing of   *)
(* the sprite is in the queue and its graphics are those of u.              *)
Coming(u) ==
    LET places == {i \in Pending : source[i].of = u.of}
    IN  IF pc \in {"found", "indexed", "aimed", "banked"} /\ upload.of = u.of
        THEN upload = u
        ELSE IF places # {}
        THEN \A i \in places : (\A j \in places : j <= i) => source[i] = u
        ELSE graphics[u.of] = u

(* The frame an actor is noted to show, and the frame of an object whose    *)
(* flag is gone, were not lost, overtaken by an older frame or overwritten  *)
(* in the queue: nothing else would ever load them.                         *)
ShownIsComing ==
    /\ \A a \in Actors : shown[a] # NoFrame => Coming(Upload(a, shown[a]))
    /\ \A o \in Objects : ~reload[o] => Coming(Upload(o, frame[o]))

(* The room was checked before the cursor was read again, and the NMI may   *)
(* come in between: still no place beyond the queue is filled.              *)
PlaceInQueue == pc \in Filling => slot \in Places

(* Once frames and flags are left alone, a sprite that is drawn again and   *)
(* again gets its graphics, however full the queue was.                     *)
Disturbed ==
    \/ wanted' # wanted \/ frame' # frame
    \/ \E a \in Actors : shown'[a] = NoFrame /\ shown[a] # NoFrame
    \/ \E o \in Objects : reload'[o] /\ ~reload[o]

FrameArrives ==
    \A t \in Sprites :
        (<>[][~Disturbed]_vars /\ []<>(t \in todo))
            => <>[](graphics[t] = WantedGraphics(wanted, frame)[t])

-----------------------------------------------------------------------------
(* The inductive invariant.                                                 *)

(* The three parts of a place that is to be served are of one upload.       *)
PendingWhole ==
    \A i \in Pending : target[i] = source[i].of /\ bank[i] = source[i]

(* Places from the cursor on are free, but for the one just filled.         *)
PendingBelowCursor ==
    \A i \in Pending : i < cursor \/ (pc = "sourced" /\ i = slot)

(* The place being filled: the cursor is there, or the NMI reset it.        *)
FillingInv ==
    /\ pc = "found" => cursor < Slots
    /\ pc \in Filling => cursor <= slot /\ slot < Slots
    /\ pc \in {"aimed", "banked"} => target[slot] = upload.of
    /\ pc = "banked" => bank[slot] = upload

SpriteInv ==
    /\ TypeOK
    /\ PendingWhole
    /\ PendingBelowCursor
    /\ FillingInv
    /\ GraphicsWhole
    /\ ShownIsComing

=============================================================================
