----------------------------- MODULE SpcVoices -----------------------------
(***************************************************************************)
(* The voices of the SPC-700's DSP, shared by the music tracks and the     *)
(* effect tracks of the driver (spc/spc_effects.c, spc/spc_music.c,        *)
(* spc/spc_voice.c, spc/spc_driver.c).  An effect takes the voices of its  *)
(* channels from the music and gives each back when its track has ended.   *)
(*                                                                         *)
(* The driver is one loop: the commands of the game and the ticks of two   *)
(* timers never overlap, and each is an action.  A tick goes over its      *)
(* tracks and sends the keys it collected at its end.  What a track's      *)
(* pattern holds is left open: in a tick it may read events or not, set an *)
(* instrument, play a note or end, and the gate of its last note may run   *)
(* out.  Pitch, volume, echo and noise are left out.                       *)
(*                                                                         *)
(* $FD, the end of a pattern, counts the patterns of a music track.  On an *)
(* effect track it adds one to a byte behind the counters, which means     *)
(* something else: keys that wait to be sent, the voices the music may key *)
(* or the status.                                                          *)
(***************************************************************************)
EXTENDS Integers, FiniteSets, FiniteSetsExt

CONSTANTS
    VoiceCount,     \* 8
    Groups,         \* the channels of each effect
    Landing,        \* what $FD on the effect track of a voice counts up
    PatternEnds,    \* how many $FD a track may read in a tick
    Songs,          \* tracks of each song, and those of them that play drums
    Instruments,    \* numbers of instruments; a song begins with 0
    Drum, Fx,       \* sources set by a drum note, by an effect
    IdLimit,        \* 16
    FadeStep,       \* what a tick takes from or adds to the level
    FadeMax         \* 255

Voices == 0 .. VoiceCount - 1
(* pending_key_on, pending_key_off, music_voice_enable, status; and others. *)
Bytes == {"on", "off", "enable", "status", "other"}
(* Bits of status.                                                          *)
MusicBit == 0
EffectsBit == 1
FadingOut == 2
FadingIn == 3

ASSUME VoicesAssumption ==
    /\ VoiceCount \in Nat \ {0}
    /\ Groups \subseteq (SUBSET Voices) \ {{}}
    /\ Landing \in [Voices -> SUBSET Bytes]
    /\ \A v, w \in Voices : v # w => Landing[v] \cap Landing[w] \subseteq {"other"}
    /\ PatternEnds \subseteq Nat /\ 0 \in PatternEnds
    /\ Songs \subseteq [active : (SUBSET Voices) \ {{}}, percussion : SUBSET Voices]
    /\ 0 \in Instruments /\ Drum \notin Instruments /\ Fx \notin Instruments \cup {Drum}
    /\ IdLimit \in Nat /\ VoiceCount < IdLimit
    /\ FadeStep \in Nat \ {0} /\ FadeMax \in Nat

VARIABLES
    playing, drums, \* music tracks: SPC_TRACK_ACTIVE, SPC_TRACK_PERCUSSION
    muted,          \* music tracks: SPC_TRACK_MUTED_BY_EFFECT
    effect,         \* effect tracks: SPC_TRACK_ACTIVE, by voice
    ids, finished,  \* effect_ids: their number, their mark EFFECT_FINISHED
    owned,          \* music_owned_voices
    restore,        \* instrument_restore_voices
    musicPlaying, effectsPlaying,   \* bits of status
    fade, level,    \* the other bits of status that are set, music_fade
    enabled,        \* music_voice_enable
    keyOff,         \* pending_key_off; pending_key_on is empty between ticks
    keyed,          \* keyed_voices, which the game can read
    instrument,     \* the music tracks' instruments
    source,         \* DSP: instrument of a voice
    sound,          \* DSP: what a voice was keyed on for
    change,         \* the game's change of song: what comes next
    part,           \* channels an effect track was started with (history)
    own, toned,     \* tracks that have set their instrument (history)
    dropped,        \* keys of effects that were never sent (history)
    astray,         \* voices whose last key $FD changed (history)
    struck          \* bits of status that $FD changed (history)

tracks == <<playing, drums, muted, effect, part>>
marks == <<ids, finished>>
status == <<owned, restore, musicPlaying, effectsPlaying, struck>>
fading == <<fade, level, enabled>>
tones == <<instrument, source, own, toned>>
keys == <<keyOff, keyed, dropped, astray, sound>>
vars == <<tracks, marks, status, fading, tones, keys, change>>

-----------------------------------------------------------------------------
(* Keys.                                                                    *)

(* SpcQueueKeyOff.                                                          *)
QueueKeyOff(offs) ==
    /\ keyOff' = keyOff \cup offs
    /\ keyed' = keyed \ offs
    /\ dropped' = dropped \ offs
    /\ UNCHANGED <<astray, sound>>

(* SpcFlushKeys: releases first, then the new notes.                        *)
Flushed(offs, ons, by) ==
    [v \in Voices |-> IF v \in ons THEN by ELSE IF v \in offs THEN "none" ELSE sound[v]]

(* A tick queues releases and notes, and sends what the two bytes hold.     *)
Unlike(S, T) == (S \ T) \cup (T \ S)
SendKeys(offs, ons, by, sentOffs, sentOns) ==
    LET due == keyOff \cup offs IN
    /\ keyOff' = {}
    /\ keyed' = (keyed \ offs) \cup ons
    /\ dropped' = dropped \ (offs \cup ons)
    /\ sound' = Flushed(sentOffs, sentOns, by)
    /\ astray' = (astray \ (due \cup ons)) \cup Unlike(sentOns, ons)
                  \cup (Unlike(sentOffs, due) \ sentOns)

-----------------------------------------------------------------------------
Init ==
    /\ playing = {} /\ drums = {} /\ muted = {} /\ effect = {}
    /\ ids = [v \in Voices |-> 0] /\ finished = {}
    /\ owned = Voices /\ restore = {}
    /\ musicPlaying = FALSE /\ effectsPlaying = FALSE /\ struck = {}
    /\ fade = {} /\ level = FadeMax /\ enabled = Voices
    /\ keyOff = {} /\ keyed = {} /\ dropped = {} /\ astray = {}
    /\ sound = [v \in Voices |-> "none"]
    /\ \E i \in Instruments : instrument = [v \in Voices |-> i]
    /\ source = [v \in Voices |-> 0]
    /\ change = "none"
    /\ part = [v \in Voices |-> {}] /\ own = {} /\ toned = {}

(* SpcStopMusic at the end of a tick that queued offs and ons, or outside   *)
(* of one; the notes that wait to be sent are given up.                     *)
StopMusic(offs, ons, sentOffs) ==
    LET due == keyOff \cup offs
        stopped == playing \ muted'
    IN
    /\ playing' = {} /\ drums' = {}
    /\ musicPlaying' = FALSE /\ fade' = {} /\ enabled' = Voices /\ toned' = {}
    /\ keyOff' = {}
    /\ keyed' = ((keyed \ offs) \cup ons) \ stopped
    /\ dropped' = (dropped \ (offs \cup stopped)) \cup ons
    /\ sound' = Flushed(sentOffs \cup stopped, {}, "none")
    /\ astray' = ((astray \ due) \cup Unlike(sentOffs, due)) \ stopped

RequestStopMusic ==
    /\ change = "none"
    /\ change' \in {"none", "effects"}
    /\ UNCHANGED <<muted, effect, part>> /\ StopMusic({}, {}, keyOff)
    /\ struck' = struck \ {"music"}
    /\ UNCHANGED <<marks, owned, restore, effectsPlaying, level, instrument, source, own>>

(* SpcStartSong, with or without a fade; a change of song may also fail.    *)
StartSong ==
    /\ change = "load" /\ change' = "none"
    /\ \E song \in Songs :
        playing' = song.active /\ drums' = song.percussion \cap song.active
    /\ musicPlaying' = TRUE /\ struck' = struck \ {"music"}
    /\ \/ fade' = {} /\ level' = FadeMax
       \/ fade' = {FadingIn} /\ level' = 0
    /\ source' = [v \in Voices |-> 0] /\ toned' = {}
    /\ UNCHANGED <<muted, effect, part, marks, owned, restore, effectsPlaying, enabled>>
    /\ UNCHANGED <<instrument, own, keys>>
FailSong ==
    /\ change = "load" /\ change' = "none"
    /\ UNCHANGED <<tracks, marks, status, fading, tones, keys>>

FadeOut ==
    /\ change = "none" /\ change' = "none"
    /\ fade' = {FadingOut}
    /\ UNCHANGED <<tracks, marks, status, level, enabled, tones, keys>>

-----------------------------------------------------------------------------
(* Effects.                                                                 *)

(* ReleaseEffectTrack for each of a set of tracks; the one that gives back  *)
(* the last voice clears the bit of status.                                 *)
StillPlaying(S) == S = {} \/ owned \cup S # Voices
MutantRelease(S) ==
    /\ owned' = owned \cup S
    /\ restore' = restore
    /\ muted' = muted \ S
    /\ effect' = effect \ S
    /\ part' = [v \in Voices |-> IF v \in S THEN {} ELSE part[v]]
Release(S) ==
    /\ owned' = owned \cup S
    /\ restore' = restore \cup (S \cap playing)
    /\ muted' = muted \ S
    /\ effect' = effect \ S
    /\ part' = [v \in Voices |-> IF v \in S THEN {} ELSE part[v]]

(* The tracks that share the id of one of the channels: SpcStopEffectGroup. *)
MutantSharing(g) == {v \in effect : v \in g}
Sharing(g) ==
    {v \in effect : \E c \in g \ finished : ids[c] # 0 /\ ids[v] = ids[c]}

StopEffectGroup(g) ==
    LET S == Sharing(g) IN
    /\ change = "none" /\ change' = "none"
    /\ Release(S) /\ own' = own \ S
    /\ effectsPlaying' = (effectsPlaying /\ StillPlaying(S))
    /\ ids' = [v \in Voices |-> IF v \in S THEN 0 ELSE ids[v]]
    /\ finished' = finished \ S
    /\ IF S = {} THEN UNCHANGED keys
       ELSE SendKeys(S, {}, "none", keyOff \cup S, {})
    /\ UNCHANGED <<playing, drums, musicPlaying, struck, fading, instrument, source, toned>>

(* FreeEffectId: the least number that no channel holds.                    *)
Held(n) == \E c \in Voices \ finished : ids[c] = n
FreeEffectId ==
    CHOOSE n \in 0 .. IdLimit :
        /\ n = IdLimit \/ ~ Held(n)
        /\ \A m \in 0 .. n - 1 : Held(m)

StartEffect(g) ==
    LET S == Sharing(g)
        taken == g \cap playing
    IN
    /\ change = "none" /\ change' = "none"
    /\ effect' = (effect \ S) \cup g
    /\ muted' = (muted \ S) \cup g
    /\ owned' = (owned \cup S) \ g
    /\ restore' = restore \cup (S \cap playing)
    /\ ids' = [v \in Voices |-> IF v \in g THEN FreeEffectId
                                ELSE IF v \in S THEN 0 ELSE ids[v]]
    /\ finished' = finished \ (S \cup g)
    /\ part' = [v \in Voices |-> IF v \in g THEN g ELSE IF v \in S THEN {} ELSE part[v]]
    /\ own' = own \ (S \cup g)
    /\ effectsPlaying' = TRUE /\ struck' = struck \ {"effects"}
    /\ keyed' = keyed \ (S \cup taken) /\ dropped' = dropped \ (S \cup taken)
    /\ IF S = {} THEN keyOff' = keyOff \cup taken /\ UNCHANGED <<astray, sound>>
       ELSE /\ keyOff' = taken /\ astray' = astray \ (keyOff \cup S)
            /\ sound' = Flushed(keyOff \cup S, {}, "none")
    /\ UNCHANGED <<playing, drums, musicPlaying, fading, instrument, source, toned>>

(* SpcStopAllEffects; the ids stay.                                         *)
RequestStopEffects ==
    /\ change \in {"none", "effects"}
    /\ change' = IF change = "effects" THEN "load" ELSE "none"
    /\ Release(effect) /\ own' = {}
    /\ effectsPlaying' = FALSE /\ struck' = struck \ {"effects"}
    /\ QueueKeyOff(effect)
    /\ UNCHANGED <<playing, drums, marks, musicPlaying, fading, instrument, source, toned>>

-----------------------------------------------------------------------------
(* Ticks.                                                                   *)

(* What a track does in a tick: it may read events that set an instrument   *)
(* and play a note or end the track; or the gate of its note runs out,      *)
(* which makes no difference before another note or the end.                *)
Lasts == {"wait", "gate", "note", "end"}
MusicEvents ==
    {e \in [read : BOOLEAN, set : BOOLEAN, to : Instruments, last : Lasts] :
        (e.set \/ e.to = 0) /\ (e.read \/ (~ e.set /\ e.last \in {"wait", "gate"}))}
(* An effect track may also read $FD.                                       *)
EffectEvents == [set : BOOLEAN, last : Lasts, ends : PatternEnds]
Reads(e) == {v \in DOMAIN e : e[v].read}
Sets(e) == {v \in DOMAIN e : e[v].set}
Notes(e) == {v \in DOMAIN e : e[v].last = "note"}
Ends(e) == {v \in DOMAIN e : e[v].last = "end"}
Releases(e) == {v \in DOMAIN e : e[v].last \in {"gate", "end"}}

(* A voice an effect gave back gets its instrument again when its track has *)
(* read events; not a track of drums, unless it ended.                      *)
Back(e) == {v \in Reads(e) \ muted : v \notin drums \/ v \in Ends(e)}

(* The instrument is set on the voice unless an effect has it.              *)
MusicSource(e, v) ==
    IF v \in muted THEN source[v]
    ELSE IF v \in drums \cap Notes(e) THEN Drum
    ELSE IF v \in Sets(e) \cup (restore \cap Back(e)) THEN instrument'[v]
    ELSE source[v]

(* NextPattern releases the voice of a track that ended; the last one ends  *)
(* the song.  A note that is tied, or comes while an effect has the voice,  *)
(* has no key.                                                              *)
MutantMusicReleases(e) == Releases(e)
MusicReleases(e) == Releases(e) \ muted

(* SpcQueueKeyOn: only voices that are enabled have music keys, and a note  *)
(* clears the marks of all others.                                          *)
SendMusicKeys(offs, ons) ==
    LET lost == IF ons = {} THEN {} ELSE (keyed \ offs) \ enabled IN
    /\ keyOff' = {}
    /\ keyed' = ((keyed \ offs) \ lost) \cup (ons \cap enabled)
    /\ dropped' = dropped \ (offs \cup lost)
    /\ sound' = Flushed(keyOff \cup offs, ons \cap enabled, "music")
    /\ astray' = (astray \ (keyOff \cup offs \cup (ons \cap enabled))) \cup lost

MusicTick ==
    /\ musicPlaying
    /\ UNCHANGED <<muted, effect, part, marks, owned, effectsPlaying, struck, fading, own, change>>
    /\ \E e \in [playing -> MusicEvents] :
        /\ instrument' = [v \in Voices |-> IF v \in Sets(e) THEN e[v].to ELSE instrument[v]]
        /\ source' = [v \in Voices |-> MusicSource(e, v)]
        /\ toned' = (toned \cup Sets(e)) \ Ends(e)
        /\ restore' = restore \ Back(e)
        /\ playing' = playing \ Ends(e) /\ drums' = drums \ Ends(e)
        /\ musicPlaying' = (Ends(e) = {} \/ playing' # {})
        /\ SendMusicKeys(MusicReleases(e), Notes(e) \ muted)

(* FinishEffectChannel: the id is free once the last of the effect's        *)
(* channels has ended.  Channels freed before hold the number 0.            *)
Completes(n, ends) ==
    /\ \E v \in ends : ids[v] = n
    /\ \A c \in Voices : ids[c] = n => c \in finished \cup ends
Freed(ends) ==
    {c \in finished \cup ends :
        /\ Completes(ids[c], ends)
        /\ ids[c] = 0 => \A n \in 1 .. IdLimit : Completes(n, ends) =>
            \E v \in ends : ids[v] = n /\ \A w \in ends : ids[w] = 0 => w < v}

(* FadeTick, with the bits f, when the level stays above zero.              *)
FadeGoesOn(f) ==
    \/ f = {} /\ fade' = f /\ level' = level
    \/ FadingOut \in f /\ level >= FadeStep /\ level' = level - FadeStep /\ fade' = f
    \/ f = {FadingIn} /\ level + FadeStep <= FadeMax
        /\ level' = level + FadeStep /\ fade' = f
    \/ f = {FadingIn} /\ level + FadeStep > FadeMax /\ level' = FadeMax /\ fade' = {}

(* A byte as the set of its bits, counted up.                               *)
Number(S) == MapThenSumSet(LAMBDA b : 2 ^ b, S)
CountedUp(S, n, bits) == {b \in bits : ((Number(S) + n) \div (2 ^ b)) % 2 = 1}

(* The bytes that the tracks of a tick count up.                            *)
Counters(e) ==
    {b \in [{v \in DOMAIN e : e[v].ends # 0} -> Bytes] : \A v \in DOMAIN b : b[v] \in Landing[v]}
Counting(b, byte) == {v \in DOMAIN b : b[v] = byte}

(* What a byte holds after the tick: what the tracks have put in before the *)
(* one that counts it up, and what they put in later.                       *)
Ons(e, b) ==
    IF Counting(b, "on") = {} THEN {Notes(e)}
    ELSE {CountedUp({w \in Notes(e) : w < v}, e[v].ends, Voices) \cup {w \in Notes(e) : w >= v}
            : v \in Counting(b, "on")}

(* The gate of the track's own last note may have run out before.           *)
Gates(e, v) ==
    {S \in SUBSET {v} : (e[v].last = "gate" => S = {v}) /\ (e[v].last = "wait" => S = {})}
Offs(e, b) ==
    IF Counting(b, "off") = {} THEN {keyOff \cup Releases(e)}
    ELSE UNION {{CountedUp(keyOff \cup {w \in Releases(e) : w < v} \cup gate, e[v].ends, Voices)
                    \cup {w \in Releases(e) : w > v} \cup (Ends(e) \cap {v})
                        : gate \in Gates(e, v)} : v \in Counting(b, "off")}
Enabled(e, b) ==
    IF Counting(b, "enable") = {} THEN {enabled}
    ELSE {CountedUp(enabled, e[v].ends, Voices) : v \in Counting(b, "enable")}

(* An effect track that ends by its $FD while no music track is active      *)
(* clears the music's bit.                                                  *)
Cleared(e, B) ==
    B \cup {S \ {MusicBit} : S \in {T \in B : playing = {} /\ \E v \in Ends(e) : e[v].ends # 0}}
StatusBits(e, b) ==
    LET bits == fade \cup {n \in {MusicBit} : musicPlaying} \cup {n \in {EffectsBit} : effectsPlaying}
    IN IF Counting(b, "status") = {} THEN Cleared(e, {bits})
       ELSE Cleared(e, {CountedUp(S, e[v].ends, MusicBit .. FadingIn)
                          : v \in Counting(b, "status"), S \in Cleared(e, {bits})})

RunEffects(e) ==
    /\ Release(Ends(e))
    /\ \E b \in Counters(e) : \E bits \in StatusBits(e, b), offs \in Offs(e, b) :
        /\ effectsPlaying' = (EffectsBit \in bits /\ StillPlaying(Ends(e)))
        /\ struck' = IF Counting(b, "status") = {} THEN struck ELSE {"music", "effects"}
        /\ \/ /\ FadeGoesOn(bits \cap {FadingOut, FadingIn})
              /\ UNCHANGED <<playing, drums, toned>>
              /\ musicPlaying' = (MusicBit \in bits)
              /\ enabled' \in Enabled(e, b)
              /\ \E ons \in Ons(e, b) : SendKeys(Releases(e), Notes(e), "effect", offs, ons)
           \/ /\ FadingOut \in bits /\ level < FadeStep /\ level' = 0
              /\ StopMusic(Releases(e), Notes(e), offs)
    /\ own' = (own \cup Sets(e)) \ Ends(e)
    /\ source' = [v \in Voices |-> IF v \in Sets(e) THEN Fx ELSE source[v]]
    /\ ids' = [c \in Voices |-> IF c \in Freed(Ends(e)) THEN 0 ELSE ids[c]]
    /\ finished' = (finished \cup Ends(e)) \ Freed(Ends(e))
    /\ UNCHANGED <<instrument, change>>
EffectsTick == \E e \in [IF effectsPlaying THEN effect ELSE {} -> EffectEvents] : RunEffects(e)

-----------------------------------------------------------------------------
Commands ==
    \/ RequestStopMusic \/ RequestStopEffects
    \/ StartSong \/ FailSong \/ FadeOut
    \/ \E g \in Groups : StartEffect(g) \/ StopEffectGroup(g)

Next == MusicTick \/ EffectsTick \/ Commands
Spec == Init /\ [][Next]_vars

-----------------------------------------------------------------------------
(* Types: flags and masks are sets of voices.                               *)
TypeOK ==
    /\ drums \subseteq playing /\ playing \subseteq Voices
    /\ effect \subseteq Voices /\ finished \subseteq Voices
    /\ ids \in [Voices -> 0 .. IdLimit]
    /\ part \in [Voices -> SUBSET Voices]
    /\ restore \subseteq Voices
    /\ musicPlaying \in BOOLEAN /\ effectsPlaying \in BOOLEAN
    /\ fade \subseteq {FadingOut, FadingIn} /\ level \in 0 .. FadeMax
    /\ enabled \subseteq Voices /\ keyOff \subseteq Voices
    /\ keyed \subseteq Voices /\ dropped \subseteq Voices
    /\ astray \subseteq Voices /\ struck \subseteq {"music", "effects"}
    /\ instrument \in [Voices -> Instruments]
    /\ source \in [Voices -> Instruments \cup {Drum, Fx}]
    /\ sound \in [Voices -> {"none", "music", "effect"}]
    /\ change \in {"none", "effects", "load"}

(* Three records of who has a voice say the same: the mask of the music's   *)
(* voices, the mark on the music track, and the effect track itself; and so *)
(* does the status, until $FD changes it and the command that sets it next. *)
VoicesOwned ==
    /\ owned = Voices \ effect
    /\ muted = effect
    /\ "effects" \notin struck => effectsPlaying = (effect # {})
    /\ "music" \notin struck => musicPlaying = (playing # {})
    /\ change # "none" => playing = {}
    /\ change = "load" => effect = {}

SameEffect(v, w) == v \in part[w] /\ w \in part[v]

(* Ids tell the effects under way apart.                                    *)
IdsTellApart ==
    /\ finished \cap effect = {}
    /\ \A v \in effect : v \in part[v] /\ ids[v] < IdLimit
    /\ \A v, w \in effect : (ids[v] = ids[w]) <=> SameEffect(v, w)

Sounding(by) == {v \in Voices : sound[v] = by}

(* A voice sounds for its owner, or is about to be released; the game is    *)
(* told of the voices that sound, but for the keys a fade gave up.  What    *)
(* $FD does to a key is set right by the voice's next one.                  *)
KeysInStep ==
    /\ Sounding("effect") \ (keyOff \cup astray) \subseteq effect
    /\ Sounding("music") \ (keyOff \cup astray) \subseteq playing \ effect
    /\ dropped \subseteq effect \ keyOff /\ dropped \cap Sounding("music") \subseteq astray
    /\ keyOff \cap keyed = {}
    /\ \A v \in Voices \ astray :
            v \in keyed <=> (sound[v] # "none" /\ v \notin keyOff) \/ v \in dropped

(* An effect plays with the instrument it set, whatever the music does; and *)
(* a music track that has set its instrument plays with it, although an     *)
(* effect had its voice and set another one, or the music changed it        *)
(* meanwhile.                                                               *)
InstrumentsInPlace ==
    /\ own \subseteq effect /\ toned \subseteq playing
    /\ \A v \in own : source[v] = Fx
    /\ \A v \in toned \ (drums \cup effect \cup restore) :
            source[v] = instrument[v]
    /\ \A v \in Sounding("music") \ (keyOff \cup astray) :
            v \in playing \ (drums \cup effect) => v \notin restore

(* The voices between music and effects, in every state.                    *)
VoicesInv == TypeOK /\ VoicesOwned /\ IdsTellApart /\ KeysInStep /\ InstrumentsInPlace

(* An effect that takes a channel from another effect stops the whole of    *)
(* it, unless the other has number 0, which also means none.                *)
Taking(g) ==
    \/ \A c \in g \cap effect, v \in effect \cap effect' :
            SameEffect(c, v) /\ ids[c] # 0 => v \in g /\ part'[v] = g
    \/ ~ (StartEffect(g) \/ StopEffectGroup(g))
TakenEffectStops == [][\A g \in Groups : Taking(g)]_vars

(* No step of the music, its end included, releases a voice an effect has   *)
(* or sets the instrument of one.                                           *)
MusicStep == MusicTick \/ RequestStopMusic \/ StartSong
EffectsUndisturbed ==
    [][\/ \A v \in effect \ keyOff :
            sound'[v] = sound[v] /\ (v \in own => source'[v] = source[v])
       \/ ~ MusicStep]_vars

(* "Stops every effect that plays on one of the channels a group uses":     *)
(* the comment of SpcStopEffectGroup, of a start and of a stop.             *)
GroupStops ==
    [][\A g \in Groups : StopEffectGroup(g) => effect' \cap g = {}]_vars
=============================================================================
