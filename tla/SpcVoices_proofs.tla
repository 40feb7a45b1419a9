-------------------------- MODULE SpcVoices_proofs --------------------------
(***************************************************************************)
(* Voices stay with one owner, effects with one number, keys and           *)
(* instruments in step, for any number of voices and any effects: each     *)
(* action of SpcVoices preserves VoicesInv.                                *)
(***************************************************************************)
EXTENDS SpcVoices, FiniteSetTheorems, WellFoundedInduction, TLAPS

(* There is a free number: fewer channels than numbers can hold one.        *)
LEMMA SomeNumberIsFree ==
    ASSUME TypeOK
    PROVE  \E n \in 0 .. IdLimit - 1 : ~ Held(n)
<1> SUFFICES ASSUME \A n \in 0 .. IdLimit - 1 : Held(n)
             PROVE  FALSE
    OBVIOUS
<1> DEFINE f == [n \in 0 .. IdLimit - 1 |-> CHOOSE c \in Voices : ids[c] = n]
<1>1. \A n \in 0 .. IdLimit - 1 : \E c \in Voices : ids[c] = n
    BY DEF Held
<1>2. \A n \in 0 .. IdLimit - 1 : f[n] \in Voices /\ ids[f[n]] = n
    BY <1>1
<1>3. f \in [0 .. IdLimit - 1 -> Voices]
    BY <1>2
<1>4. /\ IsFiniteSet(0 .. IdLimit - 1) /\ Cardinality(0 .. IdLimit - 1) = IdLimit
      /\ IsFiniteSet(Voices) /\ Cardinality(Voices) = VoiceCount
    BY FS_Interval, VoicesAssumption DEF Voices
<1> HIDE DEF f
<1>5. Cardinality(Voices) < Cardinality(0 .. IdLimit - 1)
    BY <1>4, VoicesAssumption
<1>6. \E x, y \in 0 .. IdLimit - 1 : x # y /\ f[x] = f[y]
    BY <1>3, <1>4, <1>5, FS_PigeonHole
<1> QED
    BY <1>2, <1>6

LEMMA FreeNumber ==
    ASSUME TypeOK
    PROVE  FreeEffectId \in 0 .. IdLimit - 1 /\ ~ Held(FreeEffectId)
<1> DEFINE Free == {n \in 0 .. IdLimit - 1 : ~ Held(n)}
           Below == OpToRel(<, Nat)
<1>1. Free # {} /\ Free \subseteq Nat
    BY SomeNumberIsFree, VoicesAssumption
<1>2. IsWellFoundedOn(Below, Nat)
    BY NatLessThanWellFounded
<1>3. PICK n \in Free : \A m \in Free : ~ (<<m, n>> \in Below)
    <2> HIDE DEF Free, Below
    <2> QED
        BY <1>1, <1>2, WFMin
<1>4. \A m \in Free : ~ (m < n)
    BY <1>1, <1>3 DEF OpToRel
<1>5. n \in 0 .. IdLimit - 1 /\ ~ Held(n) /\ \A m \in 0 .. n - 1 : Held(m)
    BY <1>4, VoicesAssumption
<1>6. /\ FreeEffectId \in 0 .. IdLimit
      /\ FreeEffectId = IdLimit \/ ~ Held(FreeEffectId)
      /\ \A m \in 0 .. FreeEffectId - 1 : Held(m)
    BY <1>5, VoicesAssumption DEF FreeEffectId
<1>7. FreeEffectId # IdLimit
    BY <1>5, <1>6, VoicesAssumption
<1> QED
    BY <1>6, <1>7, VoicesAssumption

-----------------------------------------------------------------------------
LEMMA InitInv == Init => VoicesInv
<1> SUFFICES ASSUME Init PROVE VoicesInv
    OBVIOUS
<1> USE VoicesAssumption DEF Init
<1>1. TypeOK
    <2>1. PICK i \in Instruments : instrument = [v \in Voices |-> i]
        OBVIOUS
    <2>2. 0 \in Instruments /\ 0 \in 0 .. VoiceCount /\ 0 \in 0 .. IdLimit /\ FadeMax \in 0 .. FadeMax
        OBVIOUS
    <2> QED
        BY <2>1, <2>2 DEF TypeOK
<1>2. VoicesOwned /\ IdsTellApart
    BY DEF VoicesOwned, IdsTellApart
<1>3. KeysInStep /\ InstrumentsInPlace
    BY DEF KeysInStep, InstrumentsInPlace, Sounding
<1> QED
    BY <1>1, <1>2, <1>3 DEF VoicesInv

(* What ReleaseEffectTrack leaves of the records of who has a voice.        *)
LEMMA Ownership ==
    ASSUME TypeOK, VoicesOwned, NEW S, S \subseteq effect, Release(S)
    PROVE  /\ owned' = Voices \ effect' /\ muted' = effect' /\ effect' = effect \ S
           /\ "effects" \notin struck => (effectsPlaying /\ StillPlaying(S)) = (effect' # {})
<1>1. owned \cup S = Voices <=> effect \ S = {}
    BY DEF TypeOK, VoicesOwned
<1>2. "effects" \notin struck => (effectsPlaying <=> effect # {})
    BY DEF VoicesOwned
<1>3. owned' = Voices \ effect' /\ muted' = effect' /\ effect' = effect \ S
    BY DEF Release, TypeOK, VoicesOwned
<1>4. StillPlaying(S) <=> S = {} \/ effect' # {}
    BY <1>1, <1>3 DEF StillPlaying
<1> QED
    BY <1>2, <1>3, <1>4

LEMMA RequestStopMusicInv ==
    ASSUME VoicesInv, RequestStopMusic
    PROVE  VoicesInv'
<1> USE VoicesAssumption DEF VoicesInv, RequestStopMusic, StopMusic, marks
<1>1. TypeOK'
    <2>1. sound' \in [Voices -> {"none", "music", "effect"}]
        BY DEF TypeOK, Flushed
    <2>2. astray' \subseteq Voices
        BY DEF TypeOK, Unlike
    <2>3. keyOff' \subseteq Voices /\ keyed' \subseteq Voices /\ dropped' \subseteq Voices
        BY DEF TypeOK
    <2> QED
        BY <2>1, <2>2, <2>3 DEF TypeOK
<1>2. VoicesOwned'
    BY DEF VoicesOwned, TypeOK
<1>3. IdsTellApart'
    BY DEF IdsTellApart, SameEffect
<1>4. KeysInStep'
    BY DEF KeysInStep, Sounding, Flushed, VoicesOwned, TypeOK
<1>5. InstrumentsInPlace'
    BY DEF InstrumentsInPlace, Sounding, Flushed, TypeOK
<1> QED
    BY <1>1, <1>2, <1>3, <1>4, <1>5

LEMMA StartSongInv ==
    ASSUME VoicesInv, StartSong
    PROVE  VoicesInv'
<1> USE VoicesAssumption DEF VoicesInv, StartSong, marks, keys
<1>1. TypeOK'
    BY DEF TypeOK
<1>2. VoicesOwned'
    <2>1. playing' # {} /\ musicPlaying' = TRUE
        <3>1. PICK song \in Songs : playing' = song.active
            BY Zenon
        <3>2. musicPlaying' = TRUE
            BY Zenon
        <3> QED
            BY <3>1, <3>2
    <2>2. /\ owned' = Voices \ effect' /\ muted' = effect'
          /\ "effects" \notin struck' => effectsPlaying' = (effect' # {})
        BY DEF VoicesOwned
    <2>3. change' = "none"
        OBVIOUS
    <2> QED
        BY <2>1, <2>2, <2>3 DEF VoicesOwned
<1>3. IdsTellApart'
    BY DEF IdsTellApart, SameEffect
<1>4. KeysInStep'
    BY DEF KeysInStep, Sounding, VoicesOwned, TypeOK
<1>5. InstrumentsInPlace'
    BY DEF InstrumentsInPlace, Sounding, VoicesOwned, KeysInStep, TypeOK
<1> QED
    BY <1>1, <1>2, <1>3, <1>4, <1>5

LEMMA FailSongInv ==
    ASSUME VoicesInv, FailSong \/ FadeOut
    PROVE  VoicesInv'
<1> USE DEF VoicesInv, FailSong, FadeOut, tracks, marks, status, fading, tones, keys
<1>1. TypeOK'
    BY DEF TypeOK
<1>2. VoicesOwned'
    BY DEF VoicesOwned
<1>3. IdsTellApart'
    BY DEF IdsTellApart, SameEffect
<1>4. KeysInStep'
    BY DEF KeysInStep, Sounding
<1>5. InstrumentsInPlace'
    BY DEF InstrumentsInPlace, Sounding
<1> QED
    BY <1>1, <1>2, <1>3, <1>4, <1>5

LEMMA StopEffectGroupInv ==
    ASSUME VoicesInv, NEW g \in Groups, StopEffectGroup(g)
    PROVE  VoicesInv'
<1> USE VoicesAssumption DEF VoicesInv, StopEffectGroup, Release
<1> DEFINE S == Sharing(g)
<1>0. S \subseteq effect /\ effect \subseteq Voices
    BY DEF Sharing, TypeOK
<1> HIDE DEF S
<1>a. /\ Release(S) /\ own' = own \ S
      /\ ids' = [v \in Voices |-> IF v \in S THEN 0 ELSE ids[v]]
      /\ finished' = finished \ S
      /\ S = {} => UNCHANGED keys
      /\ S # {} => SendKeys(S, {}, "none", keyOff \cup S, {})
      /\ effectsPlaying' = (effectsPlaying /\ StillPlaying(S))
      /\ UNCHANGED <<playing, drums, musicPlaying, struck, fading, instrument, source, toned, change>>
    BY DEF S
<1>1. TypeOK'
    <2>1. /\ sound' \in [Voices -> {"none", "music", "effect"}]
          /\ keyOff' \subseteq Voices /\ keyed' \subseteq Voices /\ dropped' \subseteq Voices
        BY <1>0, <1>a DEF TypeOK, SendKeys, Flushed, keys
    <2>2. astray' \subseteq Voices
        BY <1>0, <1>a DEF TypeOK, SendKeys, Unlike, keys
    <2>3. effectsPlaying' \in BOOLEAN
        BY <1>a DEF TypeOK, StillPlaying
    <2>4. /\ ids' \in [Voices -> 0 .. IdLimit] /\ finished' \subseteq Voices
          /\ effect' \subseteq Voices /\ restore' \subseteq Voices
          /\ part' \in [Voices -> SUBSET Voices]
        BY <1>0, <1>a DEF TypeOK
    <2> QED
        BY <1>a, <2>1, <2>2, <2>3, <2>4 DEF TypeOK, fading
<1>2. VoicesOwned'
    BY <1>0, <1>a, Ownership DEF VoicesOwned, TypeOK, Release
<1>3. IdsTellApart'
    BY <1>0, <1>a DEF IdsTellApart, SameEffect, TypeOK
<1>4. KeysInStep'
    BY <1>0, <1>a DEF KeysInStep, Sounding, SendKeys, Flushed, TypeOK, keys
<1>5. InstrumentsInPlace'
    BY <1>0, <1>a DEF InstrumentsInPlace, KeysInStep, Sounding, SendKeys, Flushed, TypeOK, keys
<1> QED
    BY <1>1, <1>2, <1>3, <1>4, <1>5

LEMMA StartEffectInv ==
    ASSUME VoicesInv, NEW g \in Groups, StartEffect(g)
    PROVE  VoicesInv'
<1> USE VoicesAssumption DEF VoicesInv
<1> DEFINE S == Sharing(g)
           n == FreeEffectId
<1>0. S \subseteq effect /\ effect \subseteq Voices /\ g \subseteq Voices /\ g # {}
    <2>1. g \in (SUBSET Voices) \ {{}}
        OBVIOUS
    <2>2. effect \subseteq Voices
        BY DEF TypeOK
    <2>3. S \subseteq effect
        BY DEF Sharing
    <2> QED
        BY <2>1, <2>2, <2>3
<1>n. n \in 0 .. IdLimit - 1 /\ \A v \in effect : ids[v] # n
    <2>1. n \in 0 .. IdLimit - 1 /\ ~ Held(n)
        BY FreeNumber
    <2> HIDE DEF n
    <2> QED
        BY <2>1 DEF Held, IdsTellApart, TypeOK
<1>a. /\ effect' = (effect \ S) \cup g
      /\ muted' = (muted \ S) \cup g
      /\ owned' = (owned \cup S) \ g
      /\ restore' = restore \cup (S \cap playing)
      /\ ids' = [v \in Voices |-> IF v \in g THEN n ELSE IF v \in S THEN 0 ELSE ids[v]]
      /\ finished' = finished \ (S \cup g)
      /\ part' = [v \in Voices |-> IF v \in g THEN g ELSE IF v \in S THEN {} ELSE part[v]]
      /\ own' = own \ (S \cup g)
      /\ effectsPlaying' = TRUE /\ struck' = struck \ {"effects"}
      /\ keyed' = keyed \ (S \cup (g \cap playing))
      /\ dropped' = dropped \ (S \cup (g \cap playing))
      /\ S = {} => keyOff' = keyOff \cup (g \cap playing) /\ UNCHANGED <<astray, sound>>
      /\ S # {} => /\ keyOff' = g \cap playing /\ astray' = astray \ (keyOff \cup S)
                   /\ sound' = Flushed(keyOff \cup S, {}, "none")
      /\ UNCHANGED <<playing, drums, musicPlaying, fading, instrument, source, toned>>
      /\ change = "none" /\ change' = "none"
    BY DEF StartEffect
<1> HIDE DEF S, n
<1>1. TypeOK'
    BY <1>0, <1>a, <1>n DEF TypeOK, Flushed, fading
<1>2. VoicesOwned'
    BY <1>0, <1>a DEF VoicesOwned, TypeOK
<1>3. IdsTellApart'
    BY <1>0, <1>a, <1>n DEF IdsTellApart, SameEffect, TypeOK
<1>4. KeysInStep'
    BY <1>0, <1>a DEF KeysInStep, Sounding, Flushed, TypeOK
<1>5. InstrumentsInPlace'
    BY <1>0, <1>a DEF InstrumentsInPlace, KeysInStep, Sounding, Flushed, TypeOK
<1> QED
    BY <1>1, <1>2, <1>3, <1>4, <1>5

LEMMA RequestStopEffectsInv ==
    ASSUME VoicesInv, RequestStopEffects
    PROVE  VoicesInv'
<1> USE VoicesAssumption DEF VoicesInv, RequestStopEffects, Release, QueueKeyOff, marks, fading
<1>1. TypeOK'
    BY DEF TypeOK
<1>2. VoicesOwned'
    BY DEF VoicesOwned, TypeOK
<1>3. IdsTellApart'
    BY DEF IdsTellApart, SameEffect
<1>4. KeysInStep'
    BY DEF KeysInStep, Sounding, TypeOK
<1>5. InstrumentsInPlace'
    BY DEF InstrumentsInPlace, KeysInStep, Sounding, TypeOK
<1> QED
    BY <1>1, <1>2, <1>3, <1>4, <1>5

LEMMA MusicTickInv ==
    ASSUME VoicesInv, MusicTick
    PROVE  VoicesInv'
<1> USE VoicesAssumption DEF VoicesInv
<1>a. PICK e \in [playing -> MusicEvents] :
        /\ instrument' = [v \in Voices |-> IF v \in Sets(e) THEN e[v].to ELSE instrument[v]]
        /\ source' = [v \in Voices |-> MusicSource(e, v)]
        /\ toned' = (toned \cup Sets(e)) \ Ends(e)
        /\ restore' = restore \ Back(e)
        /\ playing' = playing \ Ends(e) /\ drums' = drums \ Ends(e)
        /\ musicPlaying' = (Ends(e) = {} \/ playing' # {})
        /\ SendMusicKeys(MusicReleases(e), Notes(e) \ muted)
    BY DEF MusicTick
<1>b. /\ musicPlaying
      /\ UNCHANGED <<muted, effect, part, ids, finished, owned, effectsPlaying, struck, fade, level, enabled, own, change>>
    BY DEF MusicTick, marks, fading
<1>c. /\ Reads(e) \subseteq playing /\ Sets(e) \subseteq Reads(e)
      /\ Notes(e) \cup Ends(e) \subseteq Reads(e) /\ Notes(e) \cap Ends(e) = {}
      /\ Ends(e) \subseteq Releases(e) /\ Releases(e) \subseteq playing
      /\ Releases(e) \cap Notes(e) = {}
      /\ \A v \in Sets(e) : e[v].to \in Instruments
    BY DEF MusicEvents, Lasts, Reads, Sets, Notes, Ends, Releases
<1>d. playing \subseteq Voices /\ muted = effect /\ effect \subseteq Voices
    BY <1>b DEF TypeOK, VoicesOwned
<1>1. TypeOK'
    BY <1>a, <1>b, <1>c, <1>d DEF TypeOK, SendMusicKeys, Flushed, MusicReleases, MusicSource
<1>2. VoicesOwned'
    BY <1>a, <1>b, <1>d DEF VoicesOwned
<1>3. IdsTellApart'
    BY <1>b DEF IdsTellApart, SameEffect
<1> DEFINE offs == MusicReleases(e)
           ons == Notes(e) \ muted
           lost == IF ons = {} THEN {} ELSE (keyed \ offs) \ enabled
<1>o. /\ offs \subseteq playing \ effect /\ ons \subseteq playing \ effect /\ offs \cap ons = {}
      /\ Ends(e) \ effect \subseteq offs
    BY <1>c, <1>d DEF MusicReleases
<1>k. /\ keyOff' = {} /\ keyed' = ((keyed \ offs) \ lost) \cup (ons \cap enabled)
      /\ dropped' = dropped \ (offs \cup lost)
      /\ astray' = (astray \ (keyOff \cup offs \cup (ons \cap enabled))) \cup lost
      /\ \A v \in Voices : sound'[v] = IF v \in ons \cap enabled THEN "music"
                                      ELSE IF v \in keyOff \cup offs THEN "none" ELSE sound[v]
    BY <1>a DEF SendMusicKeys, Flushed
<1>l. lost \subseteq (keyed \ offs) \ enabled
    OBVIOUS
<1> HIDE DEF offs, ons, lost
<1>4. KeysInStep'
    <2>1. Sounding("effect")' \ (keyOff' \cup astray') \subseteq effect'
        BY <1>b, <1>d, <1>k DEF KeysInStep, Sounding
    <2>2. Sounding("music")' \ (keyOff' \cup astray') \subseteq playing' \ effect'
        BY <1>a, <1>b, <1>d, <1>k, <1>o DEF KeysInStep, Sounding
    <2>3. /\ dropped' \subseteq effect' \ keyOff'
          /\ dropped' \cap Sounding("music")' \subseteq astray'
        BY <1>b, <1>d, <1>k, <1>o DEF KeysInStep, Sounding
    <2>4. keyOff' \cap keyed' = {}
        BY <1>k
    <2>5. \A v \in Voices \ astray' :
            v \in keyed' <=> (sound'[v] # "none" /\ v \notin keyOff') \/ v \in dropped'
        BY <1>d, <1>k, <1>l, <1>o DEF KeysInStep
    <2> QED
        BY <2>1, <2>2, <2>3, <2>4, <2>5 DEF KeysInStep, Sounding
<1>5. InstrumentsInPlace'
    <2>1. own' \subseteq effect' /\ toned' \subseteq playing'
        BY <1>a, <1>b, <1>c DEF InstrumentsInPlace
    <2>2. \A v \in own' : source'[v] = Fx
        BY <1>a, <1>b DEF InstrumentsInPlace, MusicSource, VoicesOwned, TypeOK
    <2>3. \A v \in toned' \ (drums' \cup effect' \cup restore') : source'[v] = instrument'[v]
        BY <1>a, <1>b, <1>c, <1>d DEF InstrumentsInPlace, MusicSource, VoicesOwned, TypeOK, Back
    <2>4. ASSUME NEW v \in Sounding("music")' \ (keyOff' \cup astray'),
                 v \in playing' \ (drums' \cup effect')
          PROVE  v \notin restore'
        <3>1. v \in Voices /\ v \in playing /\ v \notin Ends(e) /\ v \notin drums /\ v \notin effect
            BY <1>a, <1>b, <1>d, <2>4
        <3>2. CASE v \in ons
            BY <1>a, <1>c, <1>d, <3>1, <3>2 DEF ons, Back
        <3>3. CASE v \notin ons
            <4>1. v \in Sounding("music") \ (keyOff \cup astray)
                BY <1>k, <2>4, <3>1, <3>3 DEF Sounding
            <4> QED
                BY <1>a, <3>1, <4>1 DEF InstrumentsInPlace
        <3> QED
            BY <3>2, <3>3
    <2> QED
        BY <2>1, <2>2, <2>3, <2>4 DEF InstrumentsInPlace, Sounding
<1> QED
    BY <1>1, <1>2, <1>3, <1>4, <1>5

(* What $FD leaves in a byte is a value of that byte; and the status stays  *)
(* unless it is the byte.                                                   *)
LEMMA BytesHold ==
    ASSUME TypeOK, NEW S, S \subseteq effect, NEW e \in [S -> EffectEvents], NEW b
    PROVE  /\ \A offs \in Offs(e, b) : offs \subseteq Voices
           /\ \A ons \in Ons(e, b) : ons \subseteq Voices
           /\ \A on \in Enabled(e, b) : on \subseteq Voices
<1>1. \A T, n : CountedUp(T, n, Voices) \subseteq Voices
    BY DEF CountedUp
<1>2. Notes(e) \subseteq Voices /\ Releases(e) \subseteq Voices /\ Ends(e) \subseteq Voices
    BY DEF TypeOK, Notes, Releases, Ends
<1>3. keyOff \subseteq Voices /\ enabled \subseteq Voices
    BY DEF TypeOK
<1> HIDE DEF TypeOK
<1>4. ASSUME NEW offs \in Offs(e, b) PROVE offs \subseteq Voices
    <2>1. CASE Counting(b, "off") = {}
        BY <1>2, <1>3, <2>1 DEF Offs
    <2>2. CASE Counting(b, "off") # {}
        <3>1. \E v \in Counting(b, "off") : \E gate \in Gates(e, v) :
                offs = CountedUp(keyOff \cup {w \in Releases(e) : w < v} \cup gate, e[v].ends, Voices)
                        \cup {w \in Releases(e) : w > v} \cup (Ends(e) \cap {v})
            <4> DEFINE Of(v) == {CountedUp(keyOff \cup {w \in Releases(e) : w < v} \cup gate, e[v].ends, Voices)
                        \cup {w \in Releases(e) : w > v} \cup (Ends(e) \cap {v}) : gate \in Gates(e, v)}
            <4>1. offs \in UNION {Of(v) : v \in Counting(b, "off")}
                BY <2>2, Zenon DEF Offs
            <4>2. PICK v \in Counting(b, "off") : offs \in Of(v)
                <5> HIDE DEF Of
                <5> QED
                    BY <4>1
            <4> QED
                BY <4>2, Zenon
        <3> QED
            BY <1>1, <1>2, <3>1
    <2> QED
        BY <2>1, <2>2
<1>5. \A ons \in Ons(e, b) : ons \subseteq Voices
    BY <1>1, <1>2 DEF Ons
<1>6. \A on \in Enabled(e, b) : on \subseteq Voices
    BY <1>1, <1>3 DEF Enabled
<1> QED
    BY <1>4, <1>5, <1>6

LEMMA StatusStays ==
    ASSUME TypeOK, NEW e, NEW b, Counting(b, "status") = {}, NEW bits \in StatusBits(e, b)
    PROVE  /\ (EffectsBit \in bits) = effectsPlaying
           /\ playing # {} => (MusicBit \in bits) = musicPlaying
           /\ MusicBit \in bits => musicPlaying
<1> DEFINE all == fade \cup {n \in {MusicBit} : musicPlaying} \cup {n \in {EffectsBit} : effectsPlaying}
<1>1. bits \in Cleared(e, {all})
    BY DEF StatusBits
<1>2. bits = all \/ (bits = all \ {MusicBit} /\ playing = {})
    BY <1>1 DEF Cleared
<1>3. /\ EffectsBit \in all <=> effectsPlaying
      /\ MusicBit \in all <=> musicPlaying
    BY DEF TypeOK, MusicBit, EffectsBit, FadingOut, FadingIn
<1>4. MusicBit # EffectsBit /\ effectsPlaying \in BOOLEAN /\ musicPlaying \in BOOLEAN
    BY DEF TypeOK, MusicBit, EffectsBit
<1> HIDE DEF all
<1> QED
    BY <1>2, <1>3, <1>4

LEMMA EffectsTickInv ==
    ASSUME VoicesInv, EffectsTick
    PROVE  VoicesInv'
<1> USE VoicesAssumption DEF VoicesInv
<1> DEFINE S == IF effectsPlaying THEN effect ELSE {}
<1>s. S \subseteq effect
    OBVIOUS
<1>a. PICK e \in [S -> EffectEvents] : RunEffects(e)
    BY DEF EffectsTick
<1> HIDE DEF S
<1>b. PICK b \in Counters(e) : \E bits \in StatusBits(e, b), offs \in Offs(e, b) :
        /\ effectsPlaying' = (EffectsBit \in bits /\ StillPlaying(Ends(e)))
        /\ struck' = IF Counting(b, "status") = {} THEN struck ELSE {"music", "effects"}
        /\ \/ /\ FadeGoesOn(bits \cap {FadingOut, FadingIn})
              /\ UNCHANGED <<playing, drums, toned>>
              /\ musicPlaying' = (MusicBit \in bits)
              /\ enabled' \in Enabled(e, b)
              /\ \E ons \in Ons(e, b) : SendKeys(Releases(e), Notes(e), "effect", offs, ons)
           \/ /\ FadingOut \in bits /\ level < FadeStep /\ level' = 0
              /\ StopMusic(Releases(e), Notes(e), offs)
    BY <1>a DEF RunEffects
<1>c. PICK bits \in StatusBits(e, b), offs \in Offs(e, b) :
        /\ effectsPlaying' = (EffectsBit \in bits /\ StillPlaying(Ends(e)))
        /\ struck' = IF Counting(b, "status") = {} THEN struck ELSE {"music", "effects"}
        /\ \/ /\ FadeGoesOn(bits \cap {FadingOut, FadingIn})
              /\ UNCHANGED <<playing, drums, toned>>
              /\ musicPlaying' = (MusicBit \in bits)
              /\ enabled' \in Enabled(e, b)
              /\ \E ons \in Ons(e, b) : SendKeys(Releases(e), Notes(e), "effect", offs, ons)
           \/ /\ FadingOut \in bits /\ level < FadeStep /\ level' = 0
              /\ StopMusic(Releases(e), Notes(e), offs)
    BY <1>b
<1>d. /\ Release(Ends(e))
      /\ own' = (own \cup Sets(e)) \ Ends(e)
      /\ source' = [v \in Voices |-> IF v \in Sets(e) THEN Fx ELSE source[v]]
      /\ ids' = [c \in Voices |-> IF c \in Freed(Ends(e)) THEN 0 ELSE ids[c]]
      /\ finished' = (finished \cup Ends(e)) \ Freed(Ends(e))
      /\ UNCHANGED <<instrument, change>>
    BY <1>a DEF RunEffects
<1>e. /\ Sets(e) \subseteq effect /\ Notes(e) \subseteq effect /\ Releases(e) \subseteq effect
      /\ Ends(e) \subseteq Releases(e) /\ Releases(e) \cap Notes(e) = {}
      /\ Freed(Ends(e)) \subseteq finished \cup Ends(e)
    BY <1>s DEF EffectEvents, Lasts, Sets, Notes, Ends, Releases, Freed
<1>f. effect \subseteq Voices /\ effect' = effect \ Ends(e) /\ offs \subseteq Voices
    BY <1>d, <1>s, BytesHold DEF TypeOK, Release
<1>i. /\ owned' = Voices \ effect' /\ muted' = effect'
      /\ "effects" \notin struck' => effectsPlaying' = (effect' # {})
    <2>1. Ends(e) \subseteq effect
        BY <1>e
    <2>2. /\ owned' = Voices \ effect' /\ muted' = effect'
          /\ "effects" \notin struck => (effectsPlaying /\ StillPlaying(Ends(e))) = (effect' # {})
        BY <1>d, <2>1, Ownership
    <2>3. ASSUME "effects" \notin struck'
          PROVE  effectsPlaying' = (effect' # {})
        <3>1. Counting(b, "status") = {} /\ "effects" \notin struck
            BY <1>c, <2>3
        <3>2. (EffectsBit \in bits) = effectsPlaying
            BY <3>1, StatusStays
        <3> QED
            BY <1>c, <2>2, <3>1, <3>2
    <2> QED
        BY <2>2, <2>3
<1>j. IdsTellApart'
    <2>1. \A v \in effect \ Ends(e) :
            v \notin Freed(Ends(e)) /\ v \in Voices /\ ids'[v] = ids[v] /\ part'[v] = part[v]
        BY <1>d, <1>e, <1>f DEF IdsTellApart, Release
    <2>2. finished' \cap effect' = {}
        BY <1>d, <1>f DEF IdsTellApart
    <2> QED
        BY <1>f, <2>1, <2>2 DEF IdsTellApart, SameEffect
<1>t. /\ ids' \in [Voices -> 0 .. IdLimit] /\ finished' \subseteq Voices
      /\ source' \in [Voices -> Instruments \cup {Drum, Fx}]
      /\ effect' \subseteq Voices /\ restore' \subseteq Voices
      /\ part' \in [Voices -> SUBSET Voices]
      /\ effectsPlaying' \in BOOLEAN /\ struck' \subseteq {"music", "effects"}
      /\ instrument' \in [Voices -> Instruments] /\ change' \in {"none", "effects", "load"}
    <2>1. /\ ids' \in [Voices -> 0 .. IdLimit] /\ finished' \subseteq Voices
          /\ source' \in [Voices -> Instruments \cup {Drum, Fx}]
          /\ effect' \subseteq Voices /\ restore' \subseteq Voices
          /\ part' \in [Voices -> SUBSET Voices]
        BY <1>d, <1>e, <1>f DEF TypeOK, Release
    <2>2. effectsPlaying' \in BOOLEAN /\ struck' \subseteq {"music", "effects"}
        BY <1>c DEF TypeOK, StillPlaying
    <2>3. instrument' \in [Voices -> Instruments] /\ change' \in {"none", "effects", "load"}
        BY <1>d DEF TypeOK
    <2> QED
        BY <2>1, <2>2, <2>3
<1>g. CASE /\ FadeGoesOn(bits \cap {FadingOut, FadingIn})
           /\ UNCHANGED <<playing, drums, toned>>
           /\ musicPlaying' = (MusicBit \in bits)
           /\ enabled' \in Enabled(e, b)
           /\ \E ons \in Ons(e, b) : SendKeys(Releases(e), Notes(e), "effect", offs, ons)
    <2>a. PICK ons \in Ons(e, b) : SendKeys(Releases(e), Notes(e), "effect", offs, ons)
        BY <1>g
    <2>b. ons \subseteq Voices /\ enabled' \subseteq Voices
        BY <1>g, <1>s, BytesHold
    <2>k. /\ keyOff' = {} /\ keyed' = (keyed \ Releases(e)) \cup Notes(e)
          /\ dropped' = dropped \ (Releases(e) \cup Notes(e))
          /\ \A v \in Voices : sound'[v] = IF v \in ons THEN "effect"
                                          ELSE IF v \in offs THEN "none" ELSE sound[v]
          /\ \A v \in Voices : v \notin astray' =>
                /\ v \in ons <=> v \in Notes(e)
                /\ v \in ons \/ (v \in offs <=> v \in keyOff \cup Releases(e))
                /\ v \in astray => v \in keyOff \cup Releases(e) \cup Notes(e)
        BY <2>a DEF SendKeys, Flushed, Unlike
    <2>1. TypeOK'
        <3>1. /\ sound' \in [Voices -> {"none", "music", "effect"}]
              /\ keyed' \subseteq Voices /\ dropped' \subseteq Voices /\ keyOff' \subseteq Voices
            BY <1>e, <1>f, <2>a DEF TypeOK, SendKeys, Flushed
        <3>2. astray' \subseteq Voices
            BY <1>e, <1>f, <2>a, <2>b DEF TypeOK, SendKeys, Unlike
        <3>3. drums' \subseteq playing' /\ playing' \subseteq Voices /\ musicPlaying' \in BOOLEAN
            BY <1>g DEF TypeOK
        <3>4. fade' \subseteq {FadingOut, FadingIn} /\ level' \in 0 .. FadeMax
            BY <1>g DEF TypeOK, FadeGoesOn
        <3> QED
            BY <1>t, <2>b, <3>1, <3>2, <3>3, <3>4 DEF TypeOK
    <2>2. VoicesOwned'
        <3>1. ASSUME "music" \notin struck'
              PROVE  musicPlaying' = (playing' # {})
            <4>1. Counting(b, "status") = {} /\ "music" \notin struck
                BY <1>c, <3>1
            <4>2. /\ playing # {} => (MusicBit \in bits) = musicPlaying
                  /\ MusicBit \in bits => musicPlaying
                BY <4>1, StatusStays
            <4>3. musicPlaying = (playing # {})
                BY <4>1 DEF VoicesOwned
            <4>4. musicPlaying' = (MusicBit \in bits) /\ playing' = playing
                BY <1>g
            <4>5. CASE playing = {}
                <5>1. ~ musicPlaying
                    BY <4>3, <4>5
                <5>2. MusicBit \notin bits
                    BY <4>2, <5>1
                <5>3. (MusicBit \in bits) = FALSE
                    BY <5>2
                <5>4. (playing' # {}) = FALSE
                    BY <4>4, <4>5
                <5> QED
                    BY <4>4, <5>3, <5>4
            <4>6. CASE playing # {}
                BY <4>2, <4>3, <4>4, <4>6
            <4> QED
                BY <4>5, <4>6
        <3> QED
            BY <1>d, <1>f, <1>g, <1>i, <3>1 DEF VoicesOwned
    <2>3. KeysInStep'
        <3>1. Sounding("effect")' \ (keyOff' \cup astray') \subseteq effect'
            BY <1>e, <1>f, <2>k DEF KeysInStep, Sounding
        <3>2. Sounding("music")' \ (keyOff' \cup astray') \subseteq playing' \ effect'
            BY <1>e, <1>f, <1>g, <2>k DEF KeysInStep, Sounding
        <3>3. /\ dropped' \subseteq effect' \ keyOff'
              /\ dropped' \cap Sounding("music")' \subseteq astray'
            BY <1>e, <1>f, <2>k DEF KeysInStep, Sounding
        <3>4. keyOff' \cap keyed' = {}
            BY <2>k
        <3>5. \A v \in Voices \ astray' :
                v \in keyed' <=> (sound'[v] # "none" /\ v \notin keyOff') \/ v \in dropped'
            BY <1>e, <1>f, <2>k DEF KeysInStep
        <3> QED
            BY <3>1, <3>2, <3>3, <3>4, <3>5 DEF KeysInStep, Sounding
    <2>4. InstrumentsInPlace'
        <3>1. \A v \in toned \ (drums \cup effect \cup restore) : v \notin Sets(e)
            BY <1>e
        <3>2. own' \subseteq effect' /\ toned' \subseteq playing' /\ \A v \in own' : source'[v] = Fx
            BY <1>d, <1>e, <1>f, <1>g DEF InstrumentsInPlace
        <3>3. ASSUME NEW v \in toned' \ (drums' \cup effect' \cup restore')
              PROVE  source'[v] = instrument'[v]
            BY <1>d, <1>e, <1>f, <1>g, <3>3 DEF InstrumentsInPlace, Release, TypeOK
        <3>4. ASSUME NEW v \in Sounding("music")' \ (keyOff' \cup astray'),
                     v \in playing' \ (drums' \cup effect')
              PROVE  v \notin restore'
            <4>1. v \in Sounding("music") \ (keyOff \cup astray) /\ v \notin effect
                BY <1>e, <1>f, <2>k, <3>4 DEF Sounding, KeysInStep
            <4> QED
                BY <1>d, <1>e, <1>f, <1>g, <3>4, <4>1 DEF InstrumentsInPlace, Release
        <3> QED
            BY <3>2, <3>3, <3>4 DEF InstrumentsInPlace, Sounding
    <2> QED
        BY <1>j, <2>1, <2>2, <2>3, <2>4
<1>h. CASE /\ FadingOut \in bits /\ level < FadeStep /\ level' = 0
           /\ StopMusic(Releases(e), Notes(e), offs)
    <2> DEFINE due == keyOff \cup Releases(e)
               stopped == playing \ muted'
    <2>k. /\ playing' = {} /\ drums' = {} /\ musicPlaying' = FALSE /\ fade' = {}
          /\ enabled' = Voices /\ toned' = {} /\ keyOff' = {}
          /\ keyed' = ((keyed \ Releases(e)) \cup Notes(e)) \ stopped
          /\ dropped' = (dropped \ (Releases(e) \cup stopped)) \cup Notes(e)
          /\ sound' = Flushed(offs \cup stopped, {}, "none")
          /\ astray' = ((astray \ due) \cup Unlike(offs, due)) \ stopped
        BY <1>h DEF StopMusic
    <2>p. stopped \subseteq Voices /\ stopped = playing \ effect'
        BY <1>i DEF TypeOK
    <2> HIDE DEF due, stopped
    <2>1. TypeOK'
        <3>1. /\ sound' \in [Voices -> {"none", "music", "effect"}]
              /\ keyed' \subseteq Voices /\ dropped' \subseteq Voices /\ keyOff' \subseteq Voices
            BY <1>e, <1>f, <2>k DEF TypeOK, Flushed
        <3>2. astray' \subseteq Voices
            BY <1>e, <1>f, <2>k DEF TypeOK, Unlike, due
        <3>3. fade' \subseteq {FadingOut, FadingIn} /\ level' \in 0 .. FadeMax /\ enabled' \subseteq Voices
            BY <1>h, <2>k
        <3> QED
            BY <1>t, <2>k, <3>1, <3>2, <3>3 DEF TypeOK
    <2>2. VoicesOwned'
        BY <1>d, <1>f, <1>i, <2>k DEF VoicesOwned
    <2>s. /\ \A v \in Voices : sound'[v] = IF v \in offs \cup stopped THEN "none" ELSE sound[v]
          /\ \A v \in Voices : v \notin astray' /\ v \notin stopped =>
                (v \in offs <=> v \in due) /\ (v \in astray => v \in due)
        BY <2>k DEF Flushed, Unlike
    <2>3. KeysInStep'
        <3>1. Sounding("effect")' \ (keyOff' \cup astray') \subseteq effect'
            BY <1>e, <1>f, <2>s DEF KeysInStep, Sounding, due
        <3>2. Sounding("music")' \ (keyOff' \cup astray') \subseteq playing' \ effect'
            BY <1>e, <1>f, <2>k, <2>s, <2>p DEF KeysInStep, Sounding, due
        <3>3. /\ dropped' \subseteq effect' \ keyOff'
              /\ dropped' \cap Sounding("music")' \subseteq astray'
            <4>1. dropped' \subseteq effect' \ keyOff'
                BY <1>e, <1>f, <2>k DEF KeysInStep
            <4>2. \A v \in Sounding("music")' \ astray' : v \notin effect'
                BY <1>e, <1>f, <2>k, <2>s DEF KeysInStep, Sounding, due
            <4> QED
                BY <1>e, <1>f, <4>1, <4>2 DEF Sounding
        <3>4. keyOff' \cap keyed' = {}
            BY <2>k
        <3>5. ASSUME NEW v \in Voices \ astray'
              PROVE  v \in keyed' <=> (sound'[v] # "none" /\ v \notin keyOff') \/ v \in dropped'
            <4>1. CASE v \in stopped
                BY <1>e, <1>f, <2>k, <2>s, <2>p, <4>1
            <4>2. CASE v \notin stopped
                <5>1. (v \in offs <=> v \in due) /\ (v \in astray => v \in due)
                    BY <2>s, <4>2
                <5>2. CASE v \in due
                    BY <1>e, <1>f, <2>k, <2>s, <4>2, <5>1, <5>2 DEF due, KeysInStep
                <5>3. CASE v \notin due
                    BY <1>e, <1>f, <2>k, <2>s, <4>2, <5>1, <5>3 DEF due, KeysInStep
                <5> QED
                    BY <5>2, <5>3
            <4> QED
                BY <4>1, <4>2
        <3> QED
            BY <3>1, <3>2, <3>3, <3>4, <3>5 DEF KeysInStep, Sounding
    <2>4. InstrumentsInPlace'
        BY <1>d, <1>e, <1>f, <2>k DEF InstrumentsInPlace
    <2> QED
        BY <1>j, <2>1, <2>2, <2>3, <2>4
<1> QED
    BY <1>c, <1>g, <1>h

-----------------------------------------------------------------------------
LEMMA StepInv == VoicesInv /\ [Next]_vars => VoicesInv'
<1> SUFFICES ASSUME VoicesInv, [Next]_vars
             PROVE  VoicesInv'
    OBVIOUS
<1>1. CASE MusicTick
    BY <1>1, MusicTickInv
<1>2. CASE EffectsTick
    BY <1>2, EffectsTickInv
<1>3. CASE Commands
    BY <1>3, RequestStopMusicInv, RequestStopEffectsInv, StartSongInv, FailSongInv,
       StartEffectInv, StopEffectGroupInv DEF Commands
<1>4. CASE UNCHANGED vars
    <2> USE <1>4 DEF VoicesInv, vars, tracks, marks, status, fading, tones, keys
    <2>1. TypeOK' /\ VoicesOwned'
        BY DEF TypeOK, VoicesOwned
    <2>2. IdsTellApart' /\ KeysInStep'
        BY DEF IdsTellApart, SameEffect, KeysInStep, Sounding
    <2>3. InstrumentsInPlace'
        BY DEF InstrumentsInPlace, Sounding
    <2> QED
        BY <2>1, <2>2, <2>3
<1> QED
    BY <1>1, <1>2, <1>3, <1>4 DEF Next

(* VoicesInv holds for any number of voices, effects and instruments: every *)
(* voice has one owner in all three records (spc_effects.c ReleaseEffect-   *)
(* Track, SpcStartEffect), numbers tell effects apart, the game is told     *)
(* which voices sound, and instruments are given back; all of it whatever   *)
(* bytes the $FD of effect tracks count up (spc_music.c NextPattern).       *)
THEOREM VoicesInvariant == Spec => []VoicesInv
<1> QED
    BY InitInv, StepInv, PTL DEF Spec

(* SpcStopEffectGroup stops the whole of an effect that loses a channel,    *)
(* but for the one with number 0, at every start and stop.                  *)
THEOREM TakenEffectsStop == Spec => TakenEffectStops
<1>1. ASSUME VoicesInv, NEW g \in Groups, StartEffect(g) \/ StopEffectGroup(g),
             NEW c \in g \cap effect, NEW v \in effect \cap effect',
             SameEffect(c, v), ids[c] # 0
      PROVE  v \in g /\ part'[v] = g
    <2>1. v \in Sharing(g)
        BY <1>1 DEF VoicesInv, IdsTellApart, Sharing
    <2>2. CASE StartEffect(g)
        BY <1>1, <2>1, <2>2 DEF VoicesInv, TypeOK, StartEffect
    <2>3. CASE StopEffectGroup(g)
        BY <1>1, <2>1, <2>3 DEF StopEffectGroup, Release
    <2> QED
        BY <1>1, <2>2, <2>3
<1>2. VoicesInv => [\A g \in Groups : Taking(g)]_vars
    BY <1>1 DEF Taking
<1> QED
    BY <1>2, VoicesInvariant, PTL DEF TakenEffectStops

(* Nothing the music does reaches the voice of an effect: neither a tick of *)
(* SpcMusicTick nor SpcStopMusic nor SpcStartSong.                          *)
THEOREM MusicLeavesEffects == Spec => EffectsUndisturbed
<1> DEFINE Same ==
        \A v \in effect \ keyOff :
            sound'[v] = sound[v] /\ (v \in own => source'[v] = source[v])
<1>1. ASSUME VoicesInv, MusicStep
      PROVE  Same
    <2> SUFFICES ASSUME NEW v \in effect \ keyOff
                 PROVE  sound'[v] = sound[v] /\ source'[v] = source[v]
        OBVIOUS
    <2>0. v \in Voices /\ v \in muted
        BY <1>1 DEF VoicesInv, TypeOK, VoicesOwned
    <2>t. sound \in [Voices -> {"none", "music", "effect"}]
        BY <1>1 DEF VoicesInv, TypeOK
    <2>1. CASE MusicTick
        BY <2>0, <2>1, <2>t DEF MusicTick, MusicSource, SendMusicKeys, Flushed, MusicReleases
    <2>2. CASE RequestStopMusic
        BY <2>0, <2>2, <2>t DEF RequestStopMusic, StopMusic, Flushed
    <2>3. CASE StartSong
        BY <1>1, <2>3 DEF StartSong, VoicesInv, VoicesOwned
    <2> QED
        BY <1>1, <2>1, <2>2, <2>3 DEF MusicStep
<1>2. VoicesInv => [Same \/ ~ MusicStep]_vars
    BY <1>1
<1> QED
    BY <1>2, VoicesInvariant, PTL DEF EffectsUndisturbed
=============================================================================
