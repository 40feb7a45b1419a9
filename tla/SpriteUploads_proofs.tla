------------------------ MODULE SpriteUploads_proofs ------------------------
(***************************************************************************)
(* The queue of sprite uploads for every number of places and for all      *)
(* sprites and frames: whichever step of filling a place the NMI falls     *)
(* into, it transfers whole uploads, and none is lost or overtaken.        *)
(***************************************************************************)
EXTENDS SpriteUploads, WellFoundedInduction, TLAPS

(* A set of places has a last one, which is the one served last.            *)
LEMMA LastPlace ==
    ASSUME NEW S, S \subseteq Places, S # {}
    PROVE  \E i \in S : \A j \in S : j <= i
<1> DEFINE Below == OpToRel(<, Nat)
           FromEnd == {n \in Nat : Slots - n \in S}
<1>1. IsWellFoundedOn(Below, Nat)
    BY NatLessThanWellFounded
<1>2. FromEnd # {}
    <2>1. PICK i \in S : i \in 0 .. Slots - 1
        BY DEF Places
    <2>2. Slots - i \in Nat /\ Slots - (Slots - i) = i
        BY <2>1, SpriteAssumption
    <2> QED
        BY <2>1, <2>2
<1>3. PICK n \in FromEnd : \A m \in FromEnd : ~ (<<m, n>> \in Below)
    <2> HIDE DEF Below, FromEnd
    <2>1. FromEnd \subseteq Nat
        BY DEF FromEnd
    <2> QED
        BY <1>1, <1>2, <2>1, WFMin
<1>4. \A m \in FromEnd : ~ (m < n)
    BY <1>3 DEF OpToRel
<1>5. ASSUME NEW j \in S PROVE j <= Slots - n
    <2>1. j \in 0 .. Slots - 1
        BY DEF Places
    <2>2. Slots - j \in Nat /\ Slots - (Slots - j) = j
        BY <2>1, SpriteAssumption
    <2>3. ~ (Slots - j < n)
        BY <1>4, <2>2
    <2> QED
        BY <2>1, <2>3, SpriteAssumption
<1> QED
    BY <1>3, <1>5

(* An upload is known by its sprite and its frame.                          *)
LEMMA UploadParts ==
    ASSUME NEW t \in Sprites, NEW f \in Frames
    PROVE  Upload(t, f) \in Uploads /\ Upload(t, f).of = t
BY DEF Upload, Uploads

(* Whatever an actor shows or an object has is an upload of its own.        *)
LEMMA ShownUploads ==
    ASSUME TypeOK
    PROVE  /\ \A a \in Actors : shown[a] # NoFrame =>
                Upload(a, shown[a]) \in Uploads /\ Upload(a, shown[a]).of = a
           /\ \A a \in Actors :
                Upload(a, wanted[a]) \in Uploads /\ Upload(a, wanted[a]).of = a
           /\ \A o \in Objects :
                Upload(o, frame[o]) \in Uploads /\ Upload(o, frame[o]).of = o
BY UploadParts DEF TypeOK, Sprites

(* The place being filled is after every place that is to be served.        *)
LEMMA FilledIsFree ==
    ASSUME SpriteInv, pc \in Filling, pc # "sourced"
    PROVE  /\ slot \in Places
           /\ source[slot] = Nothing
           /\ \A i \in Pending : i < slot
BY SpriteAssumption DEF SpriteInv, TypeOK, FillingInv, PendingBelowCursor, Pending, Places, Filling

LEMMA InitInv == Init => SpriteInv
<1> SUFFICES ASSUME Init PROVE SpriteInv
    OBVIOUS
<1>1. Pending = {}
    BY DEF Init, EmptyQueue, Pending
<1>2. \A t \in Sprites : graphics[t] \in Uploads /\ graphics[t].of = t
    BY UploadParts DEF Init, WantedGraphics, Sprites
<1>3. TypeOK
    <2>1. graphics \in [Sprites -> Uploads \cup {Nothing}]
        BY <1>2 DEF Init, WantedGraphics
    <2> QED
        BY <2>1, SpriteAssumption DEF Init, EmptyQueue, TypeOK, Steps, Filling
<1>4. ShownIsComing
    BY <1>1, SpriteAssumption DEF Init, ShownIsComing, Coming, WantedGraphics, Upload, Sprites
<1> QED
    BY <1>1, <1>2, <1>3, <1>4
    DEF SpriteInv, PendingWhole, PendingBelowCursor, FillingInv, GraphicsWhole, Init, Filling

-----------------------------------------------------------------------------
(* The NMI.                                                                 *)

(* A sprite with places in the queue gets the upload in the last of them,   *)
(* any other keeps its graphics.                                            *)
LEMMA ServedLast ==
    ASSUME SpriteInv, NEW t \in Sprites
    PROVE  LET places == {i \in Pending : source[i].of = t}
           IN  /\ places = {} => Served(t) = graphics[t]
               /\ places # {} => \E i \in places :
                    (\A j \in places : j <= i) /\ Served(t) = source[i]
<1> DEFINE places == {i \in Pending : source[i].of = t}
           to == {i \in Pending : target[i] = t}
           last == CHOOSE i \in to : \A j \in to : j <= i
<1>1. to = places
    BY DEF SpriteInv, PendingWhole
<1>2. ASSUME places # {} PROVE last \in places /\ \A j \in places : j <= last
    <2>1. places \subseteq Places
        BY DEF Pending
    <2>2. \E i \in to : \A j \in to : j <= i
        BY <1>1, <1>2, <2>1, LastPlace
    <2>3. last \in to /\ \A j \in to : j <= last
        BY <2>2
    <2> QED
        BY <1>1, <2>3
<1>3. \A i \in Pending : Transfer(i) = source[i]
    BY DEF SpriteInv, PendingWhole, Transfer
<1>4. to # {} => Served(t) = Transfer(last)
    BY DEF Served
<1> QED
    BY <1>1, <1>2, <1>3, <1>4 DEF Served

(* The NMI serves every upload on its way and spoils none that is being put *)
(* into the queue.                                                          *)
LEMMA BlockUploadsInv ==
    ASSUME SpriteInv, BlockUploads
    PROVE  SpriteInv'
<1> USE DEF SpriteInv
<1>1. \A i \in Places : source'[i] = Nothing
    BY DEF BlockUploads, Cleared, Pending, TypeOK
<1>2. Pending' = {}
    BY <1>1 DEF Pending
<1>3. GraphicsWhole'
    <2> SUFFICES ASSUME NEW t \in Sprites
                 PROVE  Served(t) \in Uploads /\ Served(t).of = t
        BY DEF GraphicsWhole, BlockUploads
    <2>1. \A i \in Pending : source[i] \in Uploads
        BY DEF TypeOK, Pending
    <2> QED
        BY <2>1, ServedLast DEF GraphicsWhole
<1>4. TypeOK'
    <2>1. graphics' \in [Sprites -> Uploads \cup {Nothing}]
        BY <1>3 DEF BlockUploads, GraphicsWhole
    <2>2. /\ target' \in [Places -> Sprites \cup {Nothing}]
          /\ bank' \in [Places -> Uploads \cup {Nothing}]
          /\ source' \in [Places -> Uploads \cup {Nothing}]
        BY DEF BlockUploads, Cleared, TypeOK
    <2> QED
        BY <2>1, <2>2, SpriteAssumption DEF BlockUploads, TypeOK, frames, Steps, Filling
<1>5. FillingInv'
    <2>1. pc \in Filling => slot \in Places /\ (pc # "sourced" => slot \notin Pending)
        BY FilledIsFree, SpriteAssumption DEF Pending, FillingInv, TypeOK, Places, Filling
    <2>2. pc \in Filling /\ pc # "sourced" => target'[slot] = target[slot] /\ bank'[slot] = bank[slot]
        BY <2>1 DEF BlockUploads, Cleared
    <2>3. pc' = pc \/ pc' = "woken"
        BY DEF BlockUploads
    <2> QED
        BY <2>1, <2>2, <2>3, SpriteAssumption DEF BlockUploads, FillingInv, Filling, TypeOK, Places
<1>6. ASSUME NEW u \in Uploads, Coming(u) PROVE Coming(u)'
    <2>1. u.of \in Sprites
        BY DEF Uploads
    <2>2. /\ pc' = pc \/ (pc = "waiting" /\ pc' = "woken")
          /\ upload' = upload
          /\ graphics'[u.of] = Served(u.of)
        BY <2>1 DEF BlockUploads
    <2>3. CASE pc \in {"found", "indexed", "aimed", "banked"} /\ upload.of = u.of
        BY <2>2, <2>3, <1>6 DEF Coming
    <2>4. CASE ~ (pc \in {"found", "indexed", "aimed", "banked"} /\ upload.of = u.of)
        <3>1. Served(u.of) = u
            BY <1>6, <2>1, <2>4, ServedLast DEF Coming
        <3> QED
            BY <1>2, <2>2, <2>4, <3>1 DEF Coming
    <2> QED
        BY <2>3, <2>4
<1>7. ShownIsComing'
    BY <1>6, ShownUploads DEF ShownIsComing, BlockUploads, frames
<1> QED
    BY <1>2, <1>3, <1>4, <1>5, <1>7 DEF PendingWhole, PendingBelowCursor

-----------------------------------------------------------------------------
(* The main program between two frames.                                     *)

(* Steps that leave the queue alone and are not filling a place.            *)
LEMMA QueueLeftAlone ==
    ASSUME SpriteInv, UNCHANGED <<queue, graphics>>, pc \notin Filling, pc' \notin Filling
    PROVE  /\ PendingWhole' /\ PendingBelowCursor' /\ GraphicsWhole'
           /\ pc' # "found" => FillingInv'
BY DEF SpriteInv, queue, PendingWhole, PendingBelowCursor, GraphicsWhole, FillingInv, Pending, Filling

(* Then what is on its way stays on its way.                                *)
LEMMA ComingLeftAlone ==
    ASSUME UNCHANGED <<queue, graphics>>, pc \notin Filling, pc' \notin Filling,
           pc # "found", pc' # "found",
           NEW u, Coming(u)
    PROVE  Coming(u)'
BY DEF Coming, queue, Pending, Filling

(* Waiting, waking and going through the visible sprites.                   *)
LEMMA WalkInv ==
    ASSUME SpriteInv, UNCHANGED <<frames, queue, graphics, slot, upload>>,
           pc \in Steps \ (Filling \cup {"found"}), pc' \in Steps \ (Filling \cup {"found"}),
           todo' \subseteq Sprites
    PROVE  SpriteInv'
<1>1. TypeOK'
    BY DEF SpriteInv, TypeOK, frames, queue
<1>2. ShownIsComing'
    <2>1. \A u \in Uploads : Coming(u) => Coming(u)'
        BY ComingLeftAlone
    <2> QED
        BY <2>1, ShownUploads DEF SpriteInv, ShownIsComing, frames
<1> QED
    BY <1>1, <1>2, QueueLeftAlone DEF SpriteInv

(* The scene is loaded again: the queue is empty and every sprite is there. *)
LEMMA ReloadMapInv ==
    ASSUME SpriteInv, ReloadMap
    PROVE  SpriteInv'
<1>1. Pending' = {}
    BY DEF ReloadMap, Pending
<1>2. GraphicsWhole' /\ graphics' \in [Sprites -> Uploads]
    <2>1. \A t \in Sprites : graphics'[t] \in Uploads /\ graphics'[t].of = t
        BY UploadParts DEF ReloadMap, WantedGraphics, Sprites
    <2> QED
        BY <2>1 DEF ReloadMap, WantedGraphics, GraphicsWhole
<1>3. TypeOK'
    BY <1>2, SpriteAssumption DEF SpriteInv, TypeOK, ReloadMap, Steps, Filling
<1>4. ShownIsComing'
    BY <1>1, SpriteAssumption
    DEF ReloadMap, ShownIsComing, Coming, WantedGraphics, Upload, Sprites
<1> QED
    BY <1>1, <1>2, <1>3, <1>4
    DEF SpriteInv, PendingWhole, PendingBelowCursor, FillingInv, ReloadMap, Filling

(* Actors and objects change: an object's flag is set with its frame.       *)
LEMMA ChangesInv ==
    ASSUME SpriteInv,
           \/ \E a \in Actors : ForgetFrame(a) \/ \E f \in Frames : ChangeFrame(a, f)
           \/ \E o \in Objects, f \in Frames : ObjectSelectFrame(o, f)
    PROVE  SpriteInv'
<1>1. /\ UNCHANGED <<queue, graphics, main>> /\ pc = "frame"
      /\ \A a \in Actors : shown'[a] = shown[a] \/ shown'[a] = NoFrame
      /\ \A o \in Objects : reload'[o] \/ (reload'[o] = reload[o] /\ frame'[o] = frame[o])
    BY DEF ForgetFrame, ChangeFrame, ObjectSelectFrame, main, SpriteInv, TypeOK
<1>2. pc' = "frame" /\ UNCHANGED <<todo, slot, upload>>
    BY <1>1 DEF main
<1>3. TypeOK'
    <2>1. /\ wanted' \in [Actors -> Frames]
          /\ shown' \in [Actors -> Frames \cup {NoFrame}]
          /\ frame' \in [Objects -> Frames]
          /\ reload' \in [Objects -> BOOLEAN]
        BY DEF ForgetFrame, ChangeFrame, ObjectSelectFrame, SpriteInv, TypeOK
    <2> QED
        BY <1>1, <1>2, <2>1 DEF SpriteInv, TypeOK, queue
<1>4. ShownIsComing'
    <2>1. \A u \in Uploads : Coming(u) => Coming(u)'
        BY <1>1, <1>2, ComingLeftAlone DEF Filling
    <2> QED
        BY <1>1, <2>1, ShownUploads DEF SpriteInv, ShownIsComing
<1> QED
    BY <1>1, <1>2, <1>3, <1>4, QueueLeftAlone DEF SpriteInv, Filling

-----------------------------------------------------------------------------
(* Drawing one sprite.                                                      *)

(* The upload that was found is the newest of its sprite.                   *)
LEMMA ShowActorInv ==
    ASSUME SpriteInv, NEW a \in Actors, ShowActor(a)
    PROVE  SpriteInv'
<1> DEFINE new == Upload(a, wanted[a])
<1>1. new \in Uploads /\ new.of = a
    BY ShownUploads DEF SpriteInv
<1>2. /\ UNCHANGED <<queue, graphics, wanted>> /\ pc = "drawing" /\ pc' = "found"
      /\ upload' = new
    BY DEF ShowActor
<1>3. TypeOK'
    BY <1>1 DEF SpriteInv, TypeOK, ShowActor, queue, Steps, Filling
<1>4. FillingInv'
    <2>1. cursor' < Slots
        BY SpriteAssumption DEF ShowActor, queue, SpriteInv, TypeOK
    <2> QED
        BY <1>2, <2>1 DEF FillingInv, Filling
<1>5. Coming(new)'
    BY <1>1, <1>2 DEF Coming
<1>6. ASSUME NEW u \in Uploads, Coming(u), u.of # a PROVE Coming(u)'
    BY <1>1, <1>2, <1>6 DEF Coming, queue, Pending
<1>7. ShownIsComing'
    <2>1. ASSUME NEW b \in Actors, shown'[b] # NoFrame PROVE Coming(Upload(b, shown[b]))'
        <3>1. CASE b = a
            <4>1. Upload(b, shown'[b]) = new
                BY <3>1 DEF ShowActor, SpriteInv, TypeOK
            <4> QED
                BY <1>2, <1>5, <3>1, <4>1 DEF Coming
        <3>2. CASE b # a
            BY <1>6, <2>1, <3>2, ShownUploads DEF ShowActor, SpriteInv, TypeOK, ShownIsComing
        <3> QED
            BY <3>1, <3>2
    <2>2. ASSUME NEW o \in Objects, ~reload'[o] PROVE Coming(Upload(o, frame[o]))'
        BY <1>6, <2>2, ShownUploads, SpriteAssumption DEF ShowActor, SpriteInv, ShownIsComing
    <2> QED
        BY <2>1, <2>2 DEF ShownIsComing
<1> QED
    BY <1>2, <1>3, <1>4, <1>7, QueueLeftAlone DEF SpriteInv, Filling

LEMMA LoadObjectInv ==
    ASSUME SpriteInv, NEW o \in Objects, LoadObject(o)
    PROVE  SpriteInv'
<1> DEFINE new == Upload(o, frame[o])
<1>1. new \in Uploads /\ new.of = o
    BY ShownUploads DEF SpriteInv
<1>2. /\ UNCHANGED <<queue, graphics, frame>> /\ pc = "drawing" /\ pc' = "found"
      /\ upload' = new
    BY DEF LoadObject
<1>3. TypeOK'
    BY <1>1 DEF SpriteInv, TypeOK, LoadObject, queue, Steps, Filling
<1>4. FillingInv'
    BY <1>2 DEF LoadObject, queue, FillingInv, Filling
<1>5. Coming(new)'
    BY <1>1, <1>2 DEF Coming
<1>6. ASSUME NEW u \in Uploads, Coming(u), u.of # o PROVE Coming(u)'
    BY <1>1, <1>2, <1>6 DEF Coming, queue, Pending
<1>7. ShownIsComing'
    <2>1. ASSUME NEW a \in Actors, shown'[a] # NoFrame PROVE Coming(Upload(a, shown[a]))'
        BY <1>6, <2>1, ShownUploads, SpriteAssumption DEF LoadObject, SpriteInv, ShownIsComing
    <2>2. ASSUME NEW p \in Objects, ~reload'[p] PROVE Coming(Upload(p, frame[p]))'
        <3>1. CASE p = o
            BY <1>2, <1>5, <3>1
        <3>2. CASE p # o
            BY <1>2, <1>6, <2>2, <3>2, ShownUploads DEF LoadObject, SpriteInv, TypeOK, ShownIsComing
        <3> QED
            BY <3>1, <3>2
    <2> QED
        BY <2>1, <2>2 DEF ShownIsComing
<1> QED
    BY <1>2, <1>3, <1>4, <1>7, QueueLeftAlone DEF SpriteInv, Filling

-----------------------------------------------------------------------------
(* Filling a place.                                                         *)

(* Until the address is stored, what is on its way does not change.         *)
LEMMA FillingLeftAlone ==
    ASSUME SpriteInv, UNCHANGED <<frames, source, graphics, upload>>,
           pc \in {"found", "indexed", "aimed"},
           pc' \in {"indexed", "aimed", "banked"}
    PROVE  /\ Pending' = Pending
           /\ GraphicsWhole'
           /\ ShownIsComing'
<1>1. \A u \in Uploads : Coming(u) => Coming(u)'
    BY DEF Coming, Pending
<1> QED
    BY <1>1, ShownUploads DEF SpriteInv, GraphicsWhole, ShownIsComing, frames, Pending

(* The room that was checked is still there: the NMI only lowers the cursor. *)
LEMMA ReadCursorInv ==
    ASSUME SpriteInv, ReadCursor
    PROVE  SpriteInv'
<1>1. TypeOK'
    BY DEF SpriteInv, TypeOK, ReadCursor, frames, queue, Steps, Filling
<1>2. PendingWhole' /\ PendingBelowCursor' /\ FillingInv'
    BY SpriteAssumption DEF SpriteInv, TypeOK, ReadCursor, queue, Pending, Filling,
        PendingWhole, PendingBelowCursor, FillingInv
<1>3. Pending' = Pending /\ GraphicsWhole' /\ ShownIsComing'
    BY FillingLeftAlone DEF ReadCursor, queue
<1> QED
    BY <1>1, <1>2, <1>3 DEF SpriteInv

LEMMA StoreTargetInv ==
    ASSUME SpriteInv, StoreTarget
    PROVE  SpriteInv'
<1>1. TypeOK'
    BY DEF SpriteInv, TypeOK, StoreTarget, frames, Uploads, Steps, Filling
<1>2. Pending' = Pending /\ GraphicsWhole' /\ ShownIsComing'
    BY FillingLeftAlone DEF StoreTarget
<1>3. slot \in Places /\ slot \notin Pending
    BY FilledIsFree DEF StoreTarget, Filling, Pending
<1>4. PendingWhole' /\ PendingBelowCursor' /\ FillingInv'
    BY <1>2, <1>3 DEF SpriteInv, TypeOK, StoreTarget, Filling,
        PendingWhole, PendingBelowCursor, FillingInv
<1> QED
    BY <1>1, <1>2, <1>4 DEF SpriteInv

LEMMA StoreBankInv ==
    ASSUME SpriteInv, StoreBank
    PROVE  SpriteInv'
<1>1. TypeOK'
    BY DEF SpriteInv, TypeOK, StoreBank, frames, Steps, Filling
<1>2. Pending' = Pending /\ GraphicsWhole' /\ ShownIsComing'
    BY FillingLeftAlone DEF StoreBank
<1>3. slot \in Places /\ slot \notin Pending
    BY FilledIsFree DEF StoreBank, Filling, Pending
<1>4. PendingWhole' /\ PendingBelowCursor' /\ FillingInv'
    BY <1>2, <1>3 DEF SpriteInv, TypeOK, StoreBank, Filling,
        PendingWhole, PendingBelowCursor, FillingInv
<1> QED
    BY <1>1, <1>2, <1>4 DEF SpriteInv

(* The address makes the place one that is served, after all others.        *)
LEMMA StoreSourceInv ==
    ASSUME SpriteInv, StoreSource
    PROVE  SpriteInv'
<1>1. TypeOK'
    BY DEF SpriteInv, TypeOK, StoreSource, frames, Steps, Filling
<1>2. /\ slot \in Places /\ slot \notin Pending
      /\ \A i \in Pending : i < slot
      /\ upload \in Uploads /\ upload # Nothing
      /\ target[slot] = upload.of /\ bank[slot] = upload
    BY FilledIsFree, SpriteAssumption
    DEF StoreSource, Filling, Pending, SpriteInv, TypeOK, FillingInv
<1>3. /\ Pending' = Pending \cup {slot}
      /\ source'[slot] = upload
      /\ \A i \in Pending : source'[i] = source[i]
    BY <1>2 DEF StoreSource, Pending, SpriteInv, TypeOK
<1>4. PendingWhole' /\ PendingBelowCursor' /\ FillingInv' /\ GraphicsWhole'
    BY <1>2, <1>3 DEF SpriteInv, TypeOK, StoreSource, Filling,
        PendingWhole, PendingBelowCursor, FillingInv, GraphicsWhole
<1>5. ASSUME NEW u \in Uploads, Coming(u) PROVE Coming(u)'
    <2> DEFINE places == {i \in Pending : source[i].of = u.of}
    <2>1. pc = "banked" /\ pc' = "sourced" /\ UNCHANGED graphics
        BY DEF StoreSource
    <2>2. CASE upload.of = u.of
        <3>1. upload = u
            BY <1>5, <2>1, <2>2 DEF Coming
        <3>2. slot \in Pending' /\ source'[slot] = u
            BY <1>3, <3>1
        <3>3. \A i \in Pending' : slot <= i => i = slot
            BY <1>2, <1>3 DEF Places, Pending
        <3> QED
            BY <2>1, <3>2, <3>3 DEF Coming
    <2>3. CASE upload.of # u.of
        <3>1. {i \in Pending' : source'[i].of = u.of} = places
            BY <1>3, <2>3
        <3>2. \A i \in places : source'[i] = source[i]
            BY <1>3
        <3> QED
            BY <1>5, <2>1, <2>3, <3>1, <3>2 DEF Coming
    <2> QED
        BY <2>2, <2>3
<1>6. ShownIsComing'
    BY <1>5, ShownUploads DEF SpriteInv, ShownIsComing, StoreSource, frames
<1> QED
    BY <1>1, <1>4, <1>6 DEF SpriteInv

(* The place is kept even if the NMI has served it in between.              *)
LEMMA StoreCursorInv ==
    ASSUME SpriteInv, StoreCursor
    PROVE  SpriteInv'
<1>1. TypeOK'
    BY SpriteAssumption DEF SpriteInv, TypeOK, StoreCursor, frames, FillingInv, Steps, Filling
<1>2. PendingWhole' /\ FillingInv' /\ GraphicsWhole' /\ PendingBelowCursor'
    BY SpriteAssumption DEF SpriteInv, TypeOK, StoreCursor, Filling, Pending, Places,
        PendingWhole, FillingInv, GraphicsWhole, PendingBelowCursor
<1>3. \A u \in Uploads : Coming(u) => Coming(u)'
    BY DEF StoreCursor, Coming, Pending
<1>4. ShownIsComing'
    BY <1>3, ShownUploads DEF SpriteInv, ShownIsComing, StoreCursor, frames
<1> QED
    BY <1>1, <1>2, <1>4 DEF SpriteInv

-----------------------------------------------------------------------------
LEMMA NextInv == SpriteInv /\ [Next]_vars => SpriteInv'
<1> SUFFICES ASSUME SpriteInv, [Next]_vars PROVE SpriteInv'
    OBVIOUS
<1>1. CASE BlockUploads
    BY <1>1, BlockUploadsInv
<1>2. CASE \/ EndWait \/ Wait \/ EndDrawing
           \/ \E a \in Actors : SkipActor(a)
           \/ \E o \in Objects : SkipObject(o)
           \/ \E visible \in SUBSET Sprites : StartDrawing(visible)
    BY <1>2, WalkInv DEF EndWait, Wait, EndDrawing, SkipActor, SkipObject, StartDrawing,
        SpriteInv, TypeOK, Steps, Filling
<1>3. CASE ReloadMap
    BY <1>3, ReloadMapInv
<1>4. CASE \/ \E a \in Actors : ForgetFrame(a) \/ \E f \in Frames : ChangeFrame(a, f)
           \/ \E o \in Objects, f \in Frames : ObjectSelectFrame(o, f)
    BY <1>4, ChangesInv
<1>5. CASE \E a \in Actors : ShowActor(a)
    BY <1>5, ShowActorInv
<1>6. CASE \E o \in Objects : LoadObject(o)
    BY <1>6, LoadObjectInv
<1>7. CASE FillPlace
    BY <1>7, ReadCursorInv, StoreTargetInv, StoreBankInv, StoreSourceInv, StoreCursorInv
    DEF FillPlace
<1>8. CASE UNCHANGED vars
    <2>1. UNCHANGED <<wanted, shown, frame, reload, target, bank, source, cursor,
                      graphics, pc, todo, slot, upload>>
        BY <1>8 DEF vars, frames, queue, main
    <2>2. TypeOK' /\ PendingWhole' /\ PendingBelowCursor' /\ FillingInv' /\ GraphicsWhole'
        BY <2>1 DEF SpriteInv, TypeOK, PendingWhole, PendingBelowCursor, FillingInv,
            GraphicsWhole, Pending
    <2>3. ShownIsComing'
        BY <2>1 DEF SpriteInv, ShownIsComing, Coming, Pending
    <2> QED
        BY <2>2, <2>3 DEF SpriteInv
<1> QED
    BY <1>1, <1>2, <1>3, <1>4, <1>5, <1>6, <1>7, <1>8 DEF Next, Draw, Play

(* The inductive invariant: places from the cursor on are free, so that the *)
(* place being filled has no address until its other parts are stored, and  *)
(* is served after every older one.                                         *)
THEOREM Invariance == Spec => []SpriteInv
<1> QED
    BY InitInv, NextInv, PTL DEF Spec

(* Whichever two instructions the NMI falls between, it transfers whole     *)
(* uploads to the sprites they belong to.                                   *)
THEOREM Whole == Spec => []GraphicsWhole
<1>1. SpriteInv => GraphicsWhole
    BY DEF SpriteInv
<1> QED
    BY <1>1, Invariance, PTL

(* A frame noted as shown is in video memory or on its way there, behind    *)
(* every older frame of its sprite.                                         *)
THEOREM NothingLost == Spec => []ShownIsComing
<1>1. SpriteInv => ShownIsComing
    BY DEF SpriteInv
<1> QED
    BY <1>1, Invariance, PTL

(* No upload is written beyond the queue, although the room is checked      *)
(* before the cursor is read again.                                         *)
THEOREM InsideQueue == Spec => []PlaceInQueue
<1>1. SpriteInv => PlaceInQueue
    BY SpriteAssumption DEF SpriteInv, TypeOK, FillingInv, PlaceInQueue, Places
<1> QED
    BY <1>1, Invariance, PTL

=============================================================================
