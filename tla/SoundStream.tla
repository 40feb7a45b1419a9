---------------------------- MODULE SoundStream ----------------------------
(***************************************************************************)
(* Sample memory of the SPC-700 as the game fills it: the resident samples *)
(* of start-up, the samples of the song (system/music.c), and the sound    *)
(* resources that are streamed behind them, one chunk a frame, while the   *)
(* game goes on (system/sound_queue.c, system/sound_upload.c).             *)
(*                                                                         *)
(* Each routine runs whole over the sound link (SoundLink shows that what  *)
(* it sends arrives), so that each is one action; a stream spans many      *)
(* frames, and effects and songs are asked for between them.  A byte of    *)
(* sound data is known by its place in the ROM, a number that counts banks *)
(* one after the other.  The deferred command is left out: start-up sets   *)
(* it to none and nothing in the repository changes it.                    *)
(***************************************************************************)
EXTENDS Integers, Sequences, SequencesExt

CONSTANTS
    Resources,      \* id -> [at : place of its header, length : bytes]
    Residents,      \* the resources of slots 0, 1, ... since start-up
    Songs,          \* [own : BOOLEAN, fixed : Seq(ids), extra : Seq(ids)]
    Effects,        \* [slot : slot of the instrument, ids : resources to stream]
    Chunk,          \* 256: bytes of a frame
    BankSize,       \* $8000: bytes of a bank of the ROM
    Header,         \* 8: bytes before the data of a resource
    TableAddress,   \* $5800: where samples begin
    FixedSlot,      \* $20: slot of the first fixed sample of a song
    Slots,          \* 64: slots of the directory
    RamEnd,         \* addresses of sample memory are below it
    QueueSlots,     \* 4: places of the queue of resources
    Free,           \* 0xff: a free place of the queue
    Nothing         \* no data, no resource

Ids == DOMAIN Resources
Addresses == TableAddress .. RamEnd - 1

ASSUME StreamAssumption ==
    /\ \A i \in Ids : Resources[i].at \in Nat /\ Resources[i].length \in Nat
    /\ Residents \in Seq(Ids)
    /\ \A s \in Songs : s.own \in BOOLEAN /\ s.fixed \in Seq(Ids) /\ s.extra \in Seq(Ids)
    /\ \A e \in Effects : e.slot \in Nat /\ e.ids \in Seq(Ids) /\ e.ids # << >>
    /\ Chunk \in Nat \ {0} /\ Chunk % 2 = 0
    /\ BankSize \in Nat \ {0, 1} /\ Header \in Nat
    /\ TableAddress \in Nat /\ RamEnd \in Nat
    /\ FixedSlot \in Nat /\ Slots \in Nat \ {0} /\ QueueSlots \in Nat \ {0}
    /\ Free \notin Ids /\ Nothing \notin Ids

VARIABLES
    queue,          \* WRAM_SOUND_RESOURCE_OUTPUT: resources to stream
    transfer,       \* WRAM_SOUND_PARAMETER_INHIBIT: 0, 0xff or 0x7f
    source,         \* [bank, pos, length]: the stream's source between frames
    spc,            \* the driver: sample memory, directory and its cursors
    base,           \* WRAM_MUSIC_APU_UPLOAD_ADDRESS: the residents' end
    reply,          \* WRAM_MUSIC_APU_REPLY: the end of the song's samples
    mode,           \* WRAM_MUSIC_SAMPLE_UPLOAD_MODE: the song replaced residents
    song,           \* the song loaded last (history)
    asked,          \* the effect asked for last: [id, slot, late] (history)
    stream,         \* the resource streamed last: [id, start, slot, asked, cut] (history)
    hit             \* what a stream that a song overtook may have overwritten (history)

game == <<queue, transfer, source, base, reply, mode>>
history == <<song, asked, stream, hit>>
vars == <<game, spc, history>>

States == {"idle", "streaming", "last"}

-----------------------------------------------------------------------------
(* The sample memory of the driver.                                         *)

DataAt(i) == Resources[i].at + Header
LengthOf(i) == Resources[i].length

(* Bytes go in pairs, and at least one pair is sent.                        *)
Sent(n) == IF n = 0 THEN 2 ELSE 2 * ((n + 1) \div 2)

(* n bytes from a place of the ROM, received at an address.                 *)
Received(ram, to, from, n) ==
    [a \in DOMAIN ram |-> IF a \in to .. to + n - 1 THEN from + (a - to) ELSE ram[a]]

(* A header defines the sample of the instrument slot and allocates it.     *)
Define(d, i) ==
    [d EXCEPT !.directory[d.slot] = [id |-> i, start |-> d.alloc],
              !.alloc = d.alloc + LengthOf(i),
              !.slot = (d.slot + 1) % Slots]

(* Commands $13 and $11, and $14 with its payload.                          *)
SetSlot(d, s) ==
    [ram |-> d.ram, directory |-> d.directory, alloc |-> d.alloc,
     slot |-> s % Slots, cursor |-> d.cursor]
SetSampleEnd(d, a) == [d EXCEPT !.alloc = a]
UploadSlot(d, i) ==
    [Define(d, i) EXCEPT
        !.ram = Received(d.ram, d.alloc, DataAt(i), Sent(LengthOf(i)))]

(* Samples one after the other, each to its slot; one that went there       *)
(* before is not sent again.                                                *)
UploadNext(d, list, k) ==
    IF \E j \in 1 .. k - 1 : list[j] = list[k] THEN d
    ELSE UploadSlot(SetSlot(d, list[k].slot), list[k].id)
WithUploads(d, list) ==
    LET after[k \in 0 .. Len(list)] ==
            IF k = 0 THEN d ELSE UploadNext(after[k - 1], list, k)
    IN  after[Len(list)]

(* InitializeSoundResourceTable: the residents in slots 0, 1, ..., to which *)
(* the driver steps by itself.                                              *)
ResidentUploads ==
    [k \in 1 .. Len(Residents) |-> [slot |-> k - 1, id |-> Residents[k]]]
Initialized(d) ==
    WithUploads(SetSlot(SetSampleEnd(d, TableAddress), 0), ResidentUploads)

(* The fixed samples go to the slots from FixedSlot on, the extra ones to   *)
(* the slot of their number, each only once.                                *)
FixedUploads(s) ==
    [k \in 1 .. Len(s.fixed) |-> [slot |-> FixedSlot + k - 1, id |-> s.fixed[k]]]
ExtraUploads(s) ==
    [k \in 1 .. Len(s.extra) |-> [slot |-> s.extra[k], id |-> s.extra[k]]]
WithSamples(d, s) == WithUploads(WithUploads(d, FixedUploads(s)), ExtraUploads(s))

(* LoadSong: a song of its own bank begins at the table address, any other  *)
(* behind the residents, which are brought back if they were replaced.      *)
MutantSongStart(s) ==
    IF s.own THEN SetSampleEnd(spc, TableAddress) ELSE SetSampleEnd(spc, base)
SongStart(s) ==
    IF s.own THEN SetSampleEnd(spc, TableAddress)
    ELSE SetSampleEnd(IF mode THEN Initialized(spc) ELSE spc, base)

-----------------------------------------------------------------------------
NoStream == [id |-> Nothing, start |-> TableAddress, slot |-> 0,
             asked |-> [id |-> Nothing, slot |-> 0, late |-> FALSE], cut |-> FALSE]
Empty ==
    [ram |-> [a \in Addresses |-> Nothing],
     directory |-> [s \in 0 .. Slots - 1 |-> [id |-> Nothing, start |-> TableAddress]],
     alloc |-> TableAddress, slot |-> 0, cursor |-> TableAddress]

(* Where the samples of the residents and of a song end.                    *)
ResidentsEnd == Initialized(Empty).alloc
SongEnd(s) ==
    WithSamples(SetSampleEnd(Empty, IF s.own THEN TableAddress ELSE ResidentsEnd), s).alloc

(* What songs and effects need of the data, which is in the ROM: a slot for *)
(* each sample, where nothing replaces it (songs among the residents do not *)
(* send residents again), and room behind each song for any effect.         *)
ASSUME LayoutAssumption ==
    /\ Len(Residents) <= FixedSlot /\ FixedSlot < Slots
    /\ \A s \in Songs :
        /\ FixedSlot + Len(s.fixed) <= Slots
        /\ SongEnd(s) <= RamEnd
        /\ \A k \in 1 .. Len(s.extra) :
            /\ s.extra[k] \in 0 .. Slots - 1
            /\ s.extra[k] \notin FixedSlot .. FixedSlot + Len(s.fixed) - 1
            /\ ~ s.own => s.extra[k] >= Len(Residents)
    /\ \A e \in Effects :
        /\ e.slot % Slots >= Len(Residents)
        /\ \A s \in Songs :
            /\ SongEnd(s) + LengthOf(Last(e.ids)) <= RamEnd
            /\ e.slot % Slots \notin FixedSlot .. FixedSlot + Len(s.fixed) - 1
            /\ \A k \in 1 .. Len(s.extra) : e.slot % Slots # s.extra[k]

(* Start-up loads the residents; the game begins with a song.               *)
Init ==
    /\ queue = [q \in 0 .. QueueSlots - 1 |-> Free]
    /\ transfer = "idle"
    /\ source = [bank |-> 0, pos |-> 0, length |-> 0]
    /\ base = Initialized(Empty).alloc
    /\ mode = FALSE
    /\ \E s \in Songs :
        /\ ~ s.own
        /\ song = s
        /\ spc = WithSamples(Initialized(Empty), s)
    /\ reply = spc.alloc
    /\ asked = NoStream.asked
    /\ stream = NoStream
    /\ hit = [song |-> FALSE, residents |-> FALSE]

Queued == {q \in 0 .. QueueSlots - 1 : queue[q] # Free}
Streaming == transfer = "streaming"

(* LoadSoundResource: the samples of an effect are to go behind the song.   *)
(* The list is copied without a step of the destination.                    *)
MutantPlaySoundResource(e) ==
    /\ spc' = SetSlot(SetSampleEnd(spc, reply), e.slot)
    /\ queue' = [q \in DOMAIN queue |-> IF q < Len(e.ids) THEN e.ids[q + 1] ELSE queue[q]]
    /\ asked' = [id |-> Last(e.ids), slot |-> e.slot % Slots, late |-> FALSE]
    /\ UNCHANGED <<transfer, source, base, reply, mode, song, stream, hit>>

PlaySoundResource(e) ==
    /\ spc' = SetSlot(SetSampleEnd(spc, reply), e.slot)
    /\ queue' = [queue EXCEPT ![0] = Last(e.ids)]
    /\ asked' = [id |-> Last(e.ids), slot |-> e.slot % Slots, late |-> FALSE]
    /\ UNCHANGED <<transfer, source, base, reply, mode, song, stream, hit>>

(* LoadSong of a valid song; nothing stops it while a stream is under way.  *)
LoadSong(s) ==
    /\ spc' = WithSamples(SongStart(s), s)
    /\ reply' = spc'.alloc
    /\ base' = IF ~ s.own /\ mode THEN Initialized(spc).alloc ELSE base
    /\ mode' = s.own
    /\ song' = s
    /\ asked' = [asked EXCEPT !.late = Queued # {}]
    /\ stream' = NoStream
    /\ hit' = [song |-> Streaming,
               residents |-> IF ~ s.own /\ mode THEN Streaming ELSE hit.residents]
    /\ UNCHANGED <<queue, transfer, source>>

-----------------------------------------------------------------------------
(* UpdateSoundResourceQueue, once a frame.                                  *)

(* BeginQueuedSoundResource: the address behind the samples is read before  *)
(* the header moves it.                                                     *)
MutantBegun(i) ==
    [driver |-> Define(spc, i),
     source |-> [bank |-> DataAt(i) \div BankSize, pos |-> DataAt(i) % BankSize,
                 length |-> LengthOf(i)],
     stream |-> [id |-> i, start |-> spc.alloc, slot |-> spc.slot, asked |-> asked,
                 cut |-> FALSE]]
Begun(i) ==
    [driver |-> [Define(spc, i) EXCEPT !.cursor = spc.alloc],
     source |-> [bank |-> DataAt(i) \div BankSize, pos |-> DataAt(i) % BankSize,
                 length |-> LengthOf(i)],
     stream |-> [id |-> i, start |-> spc.alloc, slot |-> spc.slot, asked |-> asked,
                 cut |-> FALSE]]

Place(s) == s.bank * BankSize + s.pos

(* SendQueuedSoundChunk: the cursor is stored before the next pair is read  *)
(* ahead, the bank by reading ahead.                                        *)
ChunkLength(s) == IF s.length >= Chunk THEN Chunk ELSE s.length
MutantReadAhead(s, n) ==
    [bank |-> (Place(s) + n) \div BankSize, pos |-> (Place(s) + n + 2) % BankSize,
     length |-> s.length - Chunk]
ReadAhead(s, n) ==
    [bank |-> (Place(s) + n + 2) \div BankSize, pos |-> (Place(s) + n) % BankSize,
     length |-> s.length - Chunk]

(* More follows a chunk whose end is among the last two bytes of a bank.    *)
EndsInBankEnd(s, n) == s.length >= Chunk /\ (Place(s) + n) % BankSize >= BankSize - 2

(* SendQueuedSoundChunk after what Begun or an earlier frame left.          *)
MutantSendChunk(b) ==
    LET n == Sent(ChunkLength(b.source))
    IN  /\ transfer' = IF b.source.length >= Chunk THEN "streaming" ELSE "last"
        /\ source' = ReadAhead(b.source, n)
        /\ spc' = [b.driver EXCEPT
                !.ram = Received(@, b.driver.cursor, Place(b.source), n)]
        /\ stream' = [b.stream EXCEPT !.cut = @ \/ EndsInBankEnd(b.source, n)]
SendChunk(b) ==
    LET n == Sent(ChunkLength(b.source))
    IN  /\ transfer' = IF b.source.length >= Chunk THEN "streaming" ELSE "last"
        /\ source' = ReadAhead(b.source, n)
        /\ spc' = [b.driver EXCEPT
                !.ram = Received(@, b.driver.cursor, Place(b.source), n),
                !.cursor = IF n = Chunk THEN @ + Chunk ELSE @]
        /\ stream' = [b.stream EXCEPT !.cut = @ \/ EndsInBankEnd(b.source, n)]

ContinueStream ==
    /\ Streaming
    /\ SendChunk([driver |-> spc, source |-> source, stream |-> stream])
    /\ UNCHANGED <<queue, base, reply, mode, song, asked, hit>>

MutantBeginStream ==
    /\ ~ Streaming /\ Queued # {}
    /\ LET q == CHOOSE q \in Queued : \A p \in Queued : q <= p
       IN  SendChunk(Begun(queue[q])) /\ queue' = queue
    /\ hit' = [song |-> hit.song \/ asked.late,
               residents |-> hit.residents
                             \/ (asked.late /\ spc.slot < Len(Residents))]
    /\ UNCHANGED <<base, reply, mode, song, asked>>
BeginStream ==
    /\ ~ Streaming /\ Queued # {}
    /\ LET q == CHOOSE q \in Queued : \A p \in Queued : q <= p
       IN  SendChunk(Begun(queue[q])) /\ queue' = [queue EXCEPT ![q] = Free]
    /\ hit' = [song |-> hit.song \/ asked.late,
               residents |-> hit.residents
                             \/ (asked.late /\ spc.slot < Len(Residents))]
    /\ UNCHANGED <<base, reply, mode, song, asked>>

(* Tracks' volumes are inhibited up to here.                                *)
EndStream ==
    /\ transfer = "last" /\ Queued = {}
    /\ transfer' = "idle"
    /\ UNCHANGED <<queue, source, base, reply, mode, spc, history>>

UpdateSoundResourceQueue == ContinueStream \/ BeginStream \/ EndStream

Next ==
    \/ UpdateSoundResourceQueue
    \/ \E e \in Effects : PlaySoundResource(e)
    \/ \E s \in Songs : LoadSong(s)

Spec == Init /\ [][Next]_vars

(* The game runs its frames.                                                *)
FairSpec == Spec /\ WF_vars(UpdateSoundResourceQueue)

-----------------------------------------------------------------------------
Drivers ==
    [ram : [Addresses -> Nat \cup {Nothing}],
     directory : [0 .. Slots - 1 -> [id : Ids \cup {Nothing}, start : Nat]],
     alloc : Nat, slot : 0 .. Slots - 1, cursor : Nat]
Asked(i) == \E e \in Effects : i = Last(e.ids)

(* Types: the queue, the transfer state and the source of a stream, and the *)
(* driver's memory.                                                         *)
TypeOK ==
    /\ queue \in [0 .. QueueSlots - 1 -> Ids \cup {Free}]
    /\ transfer \in States
    /\ source \in [bank : Nat, pos : 0 .. BankSize - 1, length : Int]
    /\ mode \in BOOLEAN
    /\ asked \in [id : Ids \cup {Nothing}, slot : 0 .. Slots - 1, late : BOOLEAN]
    /\ base \in Nat /\ reply \in Nat /\ song \in Songs
    /\ hit \in [song : BOOLEAN, residents : BOOLEAN]
    /\ DOMAIN stream = {"id", "start", "slot", "asked", "cut"}
    /\ stream.id \in Ids \cup {Nothing} /\ stream.cut \in BOOLEAN
    /\ Streaming => source.length >= 0
    /\ spc \in Drivers

(* Of the four places of the queue only the first is ever used, whatever    *)
(* number of resources an effect lists.                                     *)
QueueHoldsOne == Queued \subseteq {0}

(* Between two frames the stored bank and cursor name the next byte of the  *)
(* stream exactly as long as no chunk ended among the last two bytes of a   *)
(* bank: from such a chunk on the stream reads a bank too far.              *)
CursorInStep ==
    Streaming /\ stream.id # Nothing =>
        LET next == DataAt(stream.id) + LengthOf(stream.id) - source.length
        IN  IF stream.cut THEN Place(source) >= next + BankSize
            ELSE Place(source) = next

(* What waits is what was asked for last, and the driver's slot is the one  *)
(* asked for as long as no song came in between.                            *)
WaitsForLatest ==
    Queued # {} =>
        /\ queue[0] = asked.id
        /\ ~ asked.late => spc.slot = asked.slot

(* The end of the song's samples is where effects go: what waits will be    *)
(* put there, and what was streamed last was.                               *)
BehindTheSong ==
    /\ mode = song.own /\ base = ResidentsEnd /\ reply = SongEnd(song)
    /\ Queued # {} => spc.alloc = reply /\ Asked(asked.id)
    /\ Queued # {} /\ ~ asked.late => \E e \in Effects : asked.slot = e.slot % Slots
    /\ stream.id # Nothing => stream.start = reply /\ Asked(stream.id)

(* What has been sent of a stream lies before the cursor.                   *)
SentSoFar ==
    Streaming /\ stream.id # Nothing =>
        LET sent == LengthOf(stream.id) - source.length
        IN  /\ sent >= 0 /\ spc.cursor = stream.start + sent
            /\ ~ stream.cut => \A k \in 0 .. sent - 1 :
                                spc.ram[stream.start + k] = DataAt(stream.id) + k

(* A stream is behind all that it may not overwrite.                        *)
StreamBehind ==
    Streaming =>
        /\ ~ hit.song => spc.cursor >= reply
        /\ ~ mode /\ ~ hit.residents => spc.cursor >= base

(* The samples of the slot are those of a resource.                         *)
Holds(slot, i) ==
    LET entry == spc.directory[slot]
    IN  /\ entry.id = i
        /\ \A k \in 0 .. LengthOf(i) - 1 : spc.ram[entry.start + k] = DataAt(i) + k

(* The residents are whole during every song that is not of its own bank,   *)
(* and the song's samples during every song: streams stay behind them and   *)
(* replaced residents are brought back.  A stream may overwrite them only   *)
(* when the song was loaded while it was asked for or under way.            *)
LoadedWhole ==
    /\ ~ mode /\ ~ hit.residents =>
        \A k \in DOMAIN Residents : Holds(k - 1, Residents[k])
    /\ ~ hit.song =>
        /\ \A k \in DOMAIN song.fixed : Holds(FixedSlot + k - 1, song.fixed[k])
        /\ \A k \in DOMAIN song.extra : Holds(song.extra[k], song.extra[k])

(* They are whole before the end of the residents and of the song.          *)
Stands(upload, end) ==
    LET entry == spc.directory[upload.slot]
    IN  /\ Holds(upload.slot, upload.id)
        /\ entry.start >= TableAddress /\ entry.start + LengthOf(upload.id) <= end
SamplesStand ==
    /\ ~ mode /\ ~ hit.residents =>
        \A k \in DOMAIN ResidentUploads : Stands(ResidentUploads[k], base)
    /\ ~ hit.song =>
        /\ \A k \in DOMAIN FixedUploads(song) : Stands(FixedUploads(song)[k], reply)
        /\ \A k \in DOMAIN ExtraUploads(song) : Stands(ExtraUploads(song)[k], reply)

QueueInv == TypeOK /\ QueueHoldsOne /\ CursorInStep /\ WaitsForLatest
MemoryInv == BehindTheSong /\ SentSoFar /\ StreamBehind /\ SamplesStand
StreamInv == QueueInv /\ MemoryInv

(* A stream that has ended delivered its resource whole, whatever was asked *)
(* for meanwhile, unless one of its chunks ended among the last two bytes   *)
(* of a bank.                                                               *)
StreamWhole ==
    ~ Streaming /\ stream.id # Nothing /\ ~ stream.cut =>
        \A k \in 0 .. LengthOf(stream.id) - 1 :
            spc.ram[stream.start + k] = DataAt(stream.id) + k

(* When nothing waits, the resource streamed last is the one that was asked *)
(* for last, in the slot it was asked for, unless a song came in between.   *)
LatestStreams ==
    Queued = {} /\ stream.id # Nothing =>
        /\ stream.id = asked.id
        /\ ~ stream.asked.late => stream.slot = asked.slot

(* A frame of a stream changes no sample memory but the resource's own and  *)
(* the pair behind it: the pair that is sent of an empty rest, or the       *)
(* second byte of the last pair.                                            *)
StreamInPlace ==
    [][UpdateSoundResourceQueue /\ stream'.id # Nothing =>
        \A a \in Addresses : spc'.ram[a] # spc.ram[a] =>
            a \in stream'.start .. stream'.start + LengthOf(stream'.id) + 1]_vars

(* What was asked for is begun, and a stream ends, whatever is asked for    *)
(* and loaded meanwhile: the track volumes cannot stay inhibited by one     *)
(* stream for ever.                                                         *)
StreamsEnd ==
    /\ Queued # {} ~> Queued = {}
    /\ Streaming ~> ~ Streaming
=============================================================================
