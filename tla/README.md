# Lufia II: verification development

TLA+ specifications of the recovered game program under `src/`, model-checked
with TLC and, where stated, proved with TLAPS. All paths below are relative to
the repository, whose C files are in `src/`.

The program is the recovered 65816 code of the game, split into C functions
that work on a memory and a processor state, and a port of the SPC-700 sound
driver. Functions end by returning or by handing over an address at which
execution goes on; a loop that waits for hardware gives up after a number of
reads and hands over its own address, so it is resumed, not left.

## Inventory

| component | state | operations | interacts by | hard behaviour |
|---|---|---|---|---|
| sound link (`system/sound_*`, `spc/spc_driver.c`) | 4+4 byte ports, step queue, counters, sample directory | ~30 commands with handshakes, header and block transfers | ports only, two processors | every interleaving of port accesses, stale bytes, mutual waits, 8-bit wraps |
| sound queue and music (`system/sound_queue.c`, `music.c`) | queue of 4, transfer state, cursor, sample table | ask for an effect, begin, chunk, end; load a song | calls of the sound link, one sample memory | a stream that spans frames while songs are loaded |
| SPC music, effects, voices (`spc/spc_*.c`) | tracks, effect numbers, key masks, voices | ticks of two timers, commands | shared voices | an effect takes a voice from the music and gives it back; effects take voices from each other |
| save files (`system/save*.c`, `boot.c`, save menus) | battery RAM, work buffer, live game, snapshot | save, load, validate, clear, erase, test, preview, confirm, cancel | shared buffer and live game | power loss or soft reset between any two stores |
| NMI and frame (`system/nmi*.c`, `frame_wait.c`, `scene_uploads.c`) | callbacks, upload requests, counters, play clock | interrupt, frame wait, install, request upload | shared work RAM | interrupt between any two instructions |
| joypad (`system/nmi_uploads.c`, `core/joypad.h`) | held, last and pressed words, repeat countdown, repeat mask | sample, take, forget, force | words of work RAM, NMI against main program | interrupt between the two instructions of a take |
| sprite uploads (`field/field_sprites.c`, `field_nmi.c`) | queue of eight places, cursor, shown frames, reload flags, video memory | draw, fill a place, serve, change a frame, reload the scene | arrays in work RAM, NMI against main program | interrupt between any two stores of a place, a full queue |
| arithmetic (`system/math.c`, `random.c`, `gold.c`, `decompress.c`) | random table, gold | pure algorithms | calls | widths, wraps, limits |
| actors (`actor/`) | slots, script positions | allocate, free, run a script step | shared slots, field state | slot exhaustion, scripts that start and stop others |
| battle (`battle/`) | turn queue, conditions, command records, a copy of the bag | ask for commands, take them back, queue, act, fall, revive, flee, summon, pay, end a round | party, items | commands given, taken back and given again; falls before a turn; a side that poison fells between rounds |
| cave (`cave/`) | list of items, backup of the party, mode, floor grid | enter, fall, leave; generate and place | inventory, play clock, NMI | a bag that is full again when items come back, a defeat between, the clock's bytes; reachability of a floor |
| field (`field/`) | scene, events, animation queue | load, update, trigger | nearly everything | order of effects in one frame |
| items, party, capsule (`item/`, `party/`) | 96 packed slots, equipment, stock | add, remove, use, swap, sort, equip, strip, feed | menus, battle, scripts | a full bag, counts at the limit, walks with values read before |
| menus (`menu/`) | cursors, lists, card table, shop deals | select, buy, sell, play | items, gold, party | byte arithmetic of limits, deals that fail half-way |
| text, title, world (`text/`, `title/`, `world/`) | script position, scene | draw, schedule | field, menu | mostly presentation |
| processor helpers (`core/`) | registers, flags | one function per instruction form | called by all | - |

The correctness properties by component: the link never mistakes a byte, loses
one, or stops; a completed save outlives everything but the player's own
decision, and what the menu offers is a game somebody saved; an interrupt finds
the main program's requests whole; counters respect their limits; queues and
slots neither leak nor serve twice. `PROJECT.json` lists the hazards line by line.

## Plan

1. Sound link: done, with proofs. Abstract specification `SoundService`, refinement checked,
   and proved step by step; delivery of data proved.
2. Save files: done, with an inductive invariant and its proofs.
3. Frame: NMI against main program. Joypad words and sprite
   uploads: done, with proofs. The play clock is part of the cave visit. Callbacks, screen fade and the other
   uploads are left.
4. Sound queue and music loading over the link: done, with proofs. SPC voices and
   effects: done, with proofs.
5. Arithmetic: gold is part of the shop. Random table, division and decompression, as
   operators against reference definitions, are left.
6. Inventory, equipment, capsule feeding and shops: done, with proofs. Card table and
   casino are left.
7. Battle rounds: done, with proofs. Visits to the cave: done, with
   proofs. Actor slots, the cave's floors and the field animation queue are left.

## Modules

| module | what it is |
|---|---|
| `SoundProtocol` | protocol codes, byte arithmetic, the two tables of handshakes (game side, driver side) |
| `SoundLink` | both processors, one action per port access, all properties of the link |
| `SoundService` | what a caller is promised: calls carried out once, in order |
| `SoundLinkInvariant` | the inductive invariant of the link: the two program counters, and the bytes of a transfer |
| `SoundLink_proofs` | its proofs, and those of the steps of the refinement |
| `MCSoundLink`, `MCSoundLinkCalls` | instances for TLC, the second with a bound on calls |
| `SaveFile` | battery RAM, boot validation, save menus, crashes, all properties |
| `SaveFileInvariant` | the inductive invariant of the save files |
| `SaveFile_proofs` | its proofs |
| `MCSaveFile` | instance for TLC with a bound on turns |
| `Joypad` | the words of one joypad, the NMI's sampling and the main program's takes, all properties and the inductive invariant |
| `Joypad_proofs` | their proofs |
| `MCJoypad` | instance for TLC |
| `SpriteUploads` | the upload queue between drawing and the field's NMI, all properties and the inductive invariant |
| `SpriteUploads_proofs` | their proofs |
| `MCSpriteUploads` | instance for TLC |
| `SoundStream` | sample memory: effects' samples streamed over frames, songs, all properties and the inductive invariant |
| `SoundStream_proofs` | their proofs |
| `MCSoundStream` | instance for TLC |
| `Inventory` | the bag, the equipment and the stock, one action per operation |
| `Shop` | gold, deals and scripts on top of it, all properties and the inductive invariant |
| `Goods_proofs` | its proofs, and those of `CaveVisit` |
| `MCShop` | instance for TLC |
| `SpcVoices` | the eight voices between music and effects, all properties and the inductive invariant |
| `SpcVoices_proofs` | their proofs |
| `MCSpcVoices` | instance for TLC with a bound on commands |
| `CaveVisit` | a visit to the Ancient Cave on top of `Inventory`, with the play clock, all properties |
| `MCCaveVisit` | instance for TLC with bounds on visits, acts and minutes |
| `BattleRound` | the rounds of a battle: commands, turn queue, turns, rewards, all properties |
| `BattleRound_proofs` | the inductive invariant and the proofs |
| `MCBattleRound` | instance for TLC |

### Sound link

The game and the driver share four byte ports in each direction (`toSpc`,
`toCpu`) and no clock, so a step is one access to one port. `cpuPc` and `spcPc`
name the access each side makes next. A request of the game
(`Lufia2WriteSoundDriverMode` after its argument writes) runs through the phases
that `CpuPhases` lists for its command; the driver's `RunCommand` queues the
steps that `SpcSteps` lists. Both tables are translated from their own side of
the link and nothing but the protocol makes them agree. `CpuMark` is the marker
that the queue routines write while no call is under way. The memory
of the SPC-700 is the function `aram` of the bytes that transfers stored.

A pass of the driver's main loop (`RunMainLoop`) is a step for each port it reads: the two
that post a command (`SpcPoll`, `SpcCheck`), the two data ports (`SpcReadsFirst`,
`SpcReadsLast`, in either order, which the C leaves open), then those that the command
itself reads. Of the timer ticks at its start, which change no port and no other variable of
the model, only `worked` is kept, whether there was one. It matters to `$1A`, which nothing
acknowledges and every pass runs again: a pass without a tick skips the command if it equals
the one that ran last (`repeat`). The comparison is of the bytes the pass read first, not of
those the command applied, so that a volume changed to another and back within a pass is taken for the
one in force and skipped; `VolumeSettles` says that this lasts until the next tick at most.

`Bit7` scales a data byte down (a byte has `2 * Bit7` values) while protocol
codes keep their values; the proofs hold for the real width of 128, too.
`Slack` stands for the values of a driver status that read commands return and
the model does not compute.

### Save files

A file in battery RAM is its header (occupied or empty), its seed, its checksum
and two blocks of data (field and party). Each store group of
`Lufia2WriteGameFile` is an action, so that a crash fits between any two:
`WriteSeed`, `WriteField`, `WriteParty`, `WriteSum`, `WriteHeader`, and for a
clear `WriteEmpty`. A cell remembers the seed it was encrypted with; read with
another seed it is `Garbage`. The checksum of the file is the data it was taken
of, and that of the party record rejects `Blank` and `Garbage`: both are taken
as perfect. The sum of a file covers its data alone, as in the code, neither
seed nor header.

`Crash` is a power loss, after which work RAM is as after a boot, or the soft
reset of the NMI handler (`nmi.c`, Start+Select+L+R), after which it survives. The next step
is the validation of all files. The variables `kept`, `packed`, `exposed` and
`played` are history that no action reads; `kept[f]` is set when the last store
of a save is done, and already when its checksum is written if the header was
that of an occupied file, because from there on a crash cannot undo the save.

Four windows leave a file with a valid checksum that no save wrote as it now
reads: between seed and data, between the two header writes of a clear, between
the first zeros of an erasure and its checksum, and inside the memory test.
No code protects them; `exposed` names the files a crash hit there,
`OccupiedIsWhole` excludes them, and `PartySound` shows what still holds: the
record's own checksum keeps the party sound.

### Joypad

Once a frame the NMI samples the pad (`ReadPads`: `SampleUnchanged`,
`SampleRepeats`, `SampleChanged`); in between the main program takes presses
(`MaskHeld`, then `ClearPressed`: AND with the held word, TRB on the pressed
word). The NMI fits between these two instructions, and it runs whole, so it is
one action. A word is the set of its buttons.

The pressed word does not say what was pressed. A changed sample sets the bits
of the buttons that are *up*; when one of them goes down its bit is waiting.
`takes`, `unseen`, `quiet` and `repeating` are history. `takes[b]` counts since
`b` went down, was armed again by a repeat, or was forced by a screen that sets
all bits of the word.

### Sprite uploads

Drawing goes through the visible sprites. An actor whose frame is not the one
noted in `shown`, or an object whose `reload` bit is set, gets a place in the queue if
there is room (five places are open to actors, eight to objects); the NMI later
transfers the graphics of every place that has an address. The frame is noted, or the
bit cleared, first (`ShowActor`, `LoadObject`), then the place is filled store by
store: `ReadCursor`, `StoreTarget`, `StoreBank`, `StoreSource`, `StoreCursor`.
`BlockUploads` is the NMI; it may come between any two of these and it resets the cursor.

Nothing locks the queue. That it works rests on an order nobody states: the
address, by which the NMI recognises a place, is stored last but for the cursor, and
`slot` is never below a place in use. After an NMI in the middle, the stored cursor
is the old one plus one, so that places before it stay empty; that is harmless,
because the NMI looks at all of them. `target`, `bank` and `source` hold the upload
they are part of, and a transfer of parts that do not belong together leaves
`Nothing`. `graphics` is what video memory holds where a sprite's graphics go.

Size and target are one store in the model: the NMI looks at neither before the
address is there. Which sprites are visible and in which order they are drawn is left
open, and so is what changes their frames. An event may draw several times between two
frame waits. `ReloadMap` follows a wait, since the fade-out before it waits for frames:
it stands for the rebuilding of the scene with the NMI off, where each upload is
served at once by `Lufia2SpriteGraphicsUpload`, which also resets the cursor.

### Sound streams

`SoundStream` stands above the link: what `SoundLink` shows (a transfer arrives whole,
calls are carried out in order) lets each routine of the game be one action. The
driver's side is `spc`: sample memory, directory, and the two cursors the commands move.
A byte of sound data is known by its place in the ROM, so that a byte that arrives at
the wrong address, or the wrong byte, is seen.

`PlaySoundResource` is `LoadSoundResource`; its loop writes every id of the list to the first
place of the queue, so only the last one is streamed. That is what the code does, and
`LatestStreams` states it. `UpdateSoundResourceQueue` is the call of each frame: it begins a
stream (`BeginStream`), sends the next chunk (`ContinueStream`) or ends the transfer
(`EndStream`). Two stores of the source are where a stream can go wrong (`ReadAhead`): the
position is stored before the next pair is read, the bank after it, so that a chunk that ends
among the last two bytes of a bank leaves a bank one too far and everything behind it is read
from there. `stream.cut` marks such a stream; `CursorInStep` says exactly what the source then
is, and `StreamWhole` excludes it. Lists of samples are uploaded one after the other by
`WithUploads`: the residents, a song's fixed samples and its extra ones. `LayoutAssumption` is
what songs and effects need of the data, which is not in the repository: no slot is given to two
samples of one song, no effect's instrument takes a resident's or a song's slot, songs among the
residents do not send residents again, and any effect's resource has room behind any song.
`LoadSong` may come at any time and defines its own samples over the same memory, while a stream
under way goes on: `hit` records what it may overwrite, and `LoadedWhole` says what is whole for
certain. `song`, `asked`, `stream` and `hit` are history.

### Inventory and shops

A slot of the bag packs an item with a count of seven bits. The limit of 99 is kept by
what adds items, not by what takes them: a script takes as many as it asks for
(`RemoveRequested`) and neither `RemoveItem` (`text_party_commands.c`) nor
`Lufia2ItemRemoveRequested` looks whether they are there, so that two taken of one leave 127.
Such a count is then a state like any other: taking equipment off adds one to the word
without the limit (`Topped`) and makes a slot with an item and none of it, which an
opened sale can show with a limit of zero. `GoodsInv` says what holds whatever the counts are;
`MovesConserve` and `FairTrade` speak of an item while its count is within the limit
(`Sound`), and `MovesConserve` says that only a script that takes more than there are
(`Overdraws`) ends that. `CaveVisit` has no scripts that take items, and its bag stays within
the limit.

Most operations of the menu run whole. Two walk over the places of a member with values that
were read before the walk: taking everything off reads the number of free slots once, and
wearing the strongest chooses the slots for all places first. Each place is a step
(`UnequipNext`, `EquipStrongest`), `full` and `picks` are the values read before. A found item
that does not fit is `pending` until the player has made room or used it.

`Shop` adds gold and deals. A deal is prepared, adjusted, and accepted or given up.
What can still be bought is `BuyLimit`: what is missing to 99, worn items included, in a
byte. A party that has 99 in the bag and wears one more wraps below zero; the quantity,
compared as a signed byte, is then 1 or the whole limit and never so much that the sum
of seven bits becomes 0. Such a party pays for goods it does not get: `FairTrade`
excepts it, and items whose count is beyond the limit, and states for every other deal that
it does nothing or moves its quantity for its price.

### Voices

The driver's loop runs commands and the ticks of two timers one after the other, so
each is one action: `MusicTick`, `EffectsTick`, and one action per command. What a
track's pattern holds is left open: in a tick it may read events or not, set an
instrument, play a note, end, or let a gate run out. A tick collects keys and sends them
at its end (`SendKeys`); a command may leave releases queued (`keyOff`).

Who has a voice is written in three places (`owned`, `muted`, `effect`), the voices of
one effect are known by a number (`ids`, `finished`), and the instrument of a voice in
two (`instrument`, `source`, with `restore` between them). `part` holds the channels an
effect was started with, `own` and `toned` the tracks that have set
their instrument, `dropped` the keys of effects that a fade gave up.

`$FD` ends a pattern and counts it in `$8D + track`, which is meant for music tracks. On an
effect track it adds one to a byte behind the counters (`spc_music.c:92`): with the real eight
voices to `pending_key_on` (voice 0), `pending_key_off` (1), `music_voice_enable` (5) or
`status` (6). `Landing` says which voice's track reaches which byte, and `RunEffects` carries it
out: `CountedUp` is the byte as a number plus what was added, and `Ons`, `Offs`, `Enabled` and
`StatusBits` are the values the four bytes can have at the end of the tick, with what earlier
tracks of the same tick had put in before and what later ones put in after. So a key can be lost
or invented, the music's keys can be disabled, a fade can begin by itself, and the driver can
think that music or effects play that do not, or the other way round. `VoicesInv` says what is
still true then. Who has a voice, which effects belong together and whose instrument is set do
not depend on these bytes. For keys, `astray` are the voices whose last key `$FD` changed: what
`KeysInStep` says of a voice holds again from its next key on. For the status, `struck` are the
bits that `$FD` may have changed: a command that starts or stops the music, starts an effect or
stops all sets its bit, and from there on it is right again. The other four voices' tracks reach
bytes that none of this reads (an unused one, the phase of the echo, the output options) or that
belong to the sound link: the low byte of `sample_alloc` (voice 7), of which `SoundLink` and
`SoundStream` assume that no effect counts it up.

`part`, `own`, `toned`, `dropped`, `astray` and `struck` are history.

Assumed of the data, which is not in the repository: an effect's channels are distinct,
a song has at least one track, a drum note is in its table, notes have a length, and
music tracks end by `$FD` (`$FE` on a music track would clear the mark of an effect's
voice). The game never sends `$10`, so that only `$FD` and the end of the music change
`music_voice_enable` (`enabled`).
The game changes songs in the order stop the music, stop the effects, load, start;
`change` says how far it is. A music track that uses the instrument its predecessor
left is outside `toned`: it plays with the old number, and nothing restores it.

### Battle rounds

`BattleRound` follows `BattleRunFrame` and what it calls. A battler is the index of its
record: the party's places from 0, the capsule monster at 4, enemies from 5 on. Hit points
are left out: an action may fell any target it has, and poison any battler that has it.
What actions cure and give comes from ROM data and is the constant `Powers`. `acted` and
`paid` are history. At the end of a round each battler that is not down rolls for each of its
conditions but poison (`Recover`).

Each member is asked in turn (`CommandMember`, `PassMember`). An item that is chosen leaves
the bag, so that the next member cannot choose it too; `StepBack` goes to the last
member that can be asked, restores the bag from its copy `saved`, and lets the members
before that one reserve their items again. After the last member the bag is restored: the
items are taken when they are used, and `UsedItem` does not look whether one is there.
The queue of turns is kept in order of priority while it is filled. When a battler falls its
entry is marked (`Gone`), so a revived one has no turn until the next round.

`Outcome` is looked at after every turn but not after the poison at the end of a round. If
poison fells the last of a side, the next round begins all the same, and the first action on
that side looks for a target among nobody (`SearchForever`: the selection loop at
`0x81B24C` has no other way out). `TargetsStand` says that this is the only way to get
there. A poisoned enemy that fled keeps its poison and may still be felled by it and paid for.

### Ancient Cave visits

`CaveVisit` puts a visit on top of the operations of `Inventory`. `at` is the place in the
program: `Enter` takes the blue items out of bag and equipment into `saved`, `backup` is the
copy of the party's state, `ResetHours` and `ResetMinutes` clear it, and `Grant` gives the
listed items to the fresh party. `Leave` up to `AddHours` are `Lufia2AncientCaveExit`.
Two tables of ROM data name the ranges that are copied and those that are cleared
(`$84:8B20`, `$84:8B59`); the model assumes that bag, equipment and clock are in both,
without which leaving could not bring anything back. `PlayerActs` may come between any two
items when one without room has opened the menu. `entered` and `spent` are history.
A list holds the words of the bag in the order of the slots, then one of each worn item in
the order of seats (`Seat`, on entry) or of the members' records (`Rank`, on leaving) and
places; `InOrder` orders a set by such keys. That a list is shorter than half the values of a
byte (`CaveAssumption`) rests on the tables of blue items and treasures: the code doubles its
length in a byte (`cave_exit.c:262`).

The play clock is advanced by the NMI (`TickMinute`) between any two of its bytes, so each
copy of it is two actions. The copies go from the lower address up: hours, then minutes;
only the read-modify-write at the end is protected, by the bit that stops the clock.
A minute that carries between the two copies leaves an hour too much or too little. Phases
without a menu (`Brief`) last less than a minute and see one tick at most. `TimeKept` gives the
resulting bounds, and says that a defeat forgets the time before it: it clears the clock, as
it does everything else the party had in the cave. The hours wrap when the minutes carry at
255, and are held at 255 only when the hours are added; `TimeKept` is about times two hours
below that and earlier (`Lasts`), and the bounds of the run stay below.

What comes out is given one item after the other to the bag that was restored.
If it is full, a single item opens the menu and several of one are dropped without a word;
the blue items left their slots free when they went in, so it takes treasures or new kinds
of blue items to get there. `ItemsComeHome` names this loss (`Dropped`), and the one of a defeat, as
the only ones.

## Runs

| run | bounds | shows |
|---|---|---|
| `link` | any 3 calls, out of one request of every kind, out of two volumes and a plain command, or out of long ones: blocks over the wrap of the counter, the last instrument slot, a full sample memory; a byte of 32 values; 293,982 states | handshakes and transfers stay paired (`DispatchOnlyPosted`, `AcksMatch`, `TransfersInStep`), the inductive invariant (`LinkInv`) holds, uploads, samples and read values arrive whole (`Delivered`), `SoundService` is implemented (`ImplementsService`), calls return (`CallsReturn`), an unacknowledged volume settles, skipped repeats included (`VolumeSettles`) |
| `save_crash` | 2 files, 2 games, 2 seeds, 5 turns (menus, direct saves and loads, erasures, crashes) | completed saves survive (`SavesKept`), what is offered is whole (`OccupiedIsWhole`, `PartySound`), the right game is saved and loaded (`SavesPlayed`, `LoadsKept`), the inductive invariant (`IInv`) |
| `joypad` | 2 buttons, one of them repeating, every mask, the source's repeat times, a countdown of 64 values | presses are not taken twice (`TakenOnceWhileDown`), repeats keep their pace (`PacedRepeats`) and go on for ever (`HeldButtonKeepsRepeating`), the inductive invariant (`JoypadInv`) |
| `joypad_pending` | the same | violation of `UnconsumedPressIsPending`: a press whose bit was not armed is never pending |
| `sprites` | 2 actors, 1 object, 2 frames, 2 places, 1 of them open to actors; 143,232 states | uploads are whole and in order (`GraphicsWhole`, `ShownIsComing`), a sprite drawn again and again gets its frame (`FrameArrives`), the inductive invariant (`SpriteInv`), which holds every write inside the queue |
| `sound_stream` | 2 effects, one with two resources, 2 songs, one in the residents' place, chunks of 2, banks of 8 bytes, 5 slots, a queue of 2 | what is loaded is whole (`LoadedWhole`), what is streamed is whole (`StreamWhole`), in its place (`StreamInPlace`) and the last asked for (`LatestStreams`), every stream ends (`StreamsEnd`), the inductive invariant (`StreamInv`) |
| `shop` | a bag of 2 slots, 1 hero, sword, cursed sword and ring, counts to 2, stock to 1, a count field of 4 values, scripts that take 1 or 2 of what may be one, gold to 2; 896,352 states | the goods are consistent whatever the counts (`GoodsInv`), moves lose and double nothing of an item within its limit, which only an overdrawing script takes beyond it (`MovesConserve`), deals are fair (`FairTrade`) |
| `shop_gold` | 1 item, gold to 6, a word of 4 values | violation of `GoldCapped` by the script commands |
| `voices` | 2 voices, every effect they can make, 3 songs, 3 commands or `$FD` of effect tracks, which add 1 or 3 to any of the four bytes, between any ticks; 92,772 states | one owner a voice in all records, keys and instruments follow it, numbers tell effects apart (`VoicesInv`), a taken effect stops whole (`TakenEffectStops`), music leaves effects alone (`EffectsUndisturbed`) |
| `cave_visit` | 2 visits, a ring and a stone that go in and out, a treasure, a potion, a full bag of 3 slots, a member that travels and one that does not, 1 act of the player, 3 minutes, hours of 2 minutes; 1,193,090 states | lists, backup and clock are consistent (`CaveInv`), items come home (`ItemsComeHome`), the clock keeps the time (`TimeKept`) |
| `battle_round` | 2 members, 1 potion, 1 enemy and one it may summon, poison, sleep and confusion, two powers, one priority, a queue of 6; 704,601 states | the queue fits and holds nobody twice, targets stand (`RoundInv`), chosen items are there (`ItemsCovered`), the fallen are paid for once (`PaidOnce`) |
| `voices_group` | the same as `voices` with 5 commands | violation of `GroupStops`: an effect whose number is 0 goes on (no `$FD` takes part in it) |

Three calls are enough for a volume to change and change back, and for every kind to follow
every other with a predecessor of its own, which is as far as a stale byte survives: each
handshake ends with both command ports at zero. Two files are enough for work on one to disturb
another, and for the offset that clears the wrong part of work RAM. Five turns hold a save over
a save with two crashes and a load; the proofs have no bound. Two buttons are enough for a
sample in which one changes while the other is held, the case in which arming goes wrong; the
countdown's real 16 bits are covered by the proof. A queue of two places fills up, and with one
place open to actors two of them compete for it; the real sizes (eight and five) differ in
nothing the properties tell apart, and the proofs hold for any. Banks of eight bytes end inside
a chunk, at the end of one, and in the middle of a resource. A bag of two slots is full with two
of the three items, a limit of 2 is reached and passed with what is worn; a script that takes
two of one leaves 3, which is above the limit, and one more on top makes 0. Two voices are
enough for two effects to compete and for one effect to lose part of its channels; an effect's
`$FD` on voice 0 reaches the keys to be sent, and on voice 1 the other three bytes in turn, so
that two tracks can count up two bytes in one tick; the run has one instrument for the music
beside those of drums and effects, the proof any number. A queue of six is the least that two
members, the party as one actor, two enemies and the free entry need; a capsule monster would be
one more battler that only acts, and is left to the proof, which has one or none; two members
are enough for one to step back over the other's item. Two visits let a second one begin with
what the first brought home and left in the lists; a bag of three slots that a treasure has
refilled has no room for a blue item; three minutes fall into entering, the cave and leaving,
and with hours of two minutes they carry. Deadlock is checked in every run: however many calls,
turns or commands a bounded instance has spent, the game may still mark a transfer, play on,
press a button, draw, open a deal, stay at home, or tick; a battle that is over, or searches for
ever, stays so (`Ended`).

Three runs record disagreements. `core/joypad.h` calls the words "held
buttons and unconsumed presses", but a press sets no bit, and one that comes
while its bit is clear is never seen: the first press after power-on if no other
change came before it, or the first A after `world_scene.c` cleared the bit of an
A that was up. `metadata/memory_map.toml` calls gold "capped at 9,999,999 by text opcodes
$22/$26", but `AddGold` compares the high byte and the low word one after the other:
9,999,999 and 36,865 more make 10,036,864, whose low word is small, and it stays.
The comment of `SpcStopEffectGroup` says it stops every effect on one of the channels
a group uses; the loop skips the number 0, which also means none, and `FreeEffectId`
hands out 0 once every channel holds another number, which `SpcStopAllEffects` leaves
behind.

Each property has a mutant: a changed form of one mapped definition
(`Mutant...`, beside the original) for which TLC finds the property violated
under the same configuration.

## Fairness

`SoundLink` assumes weak fairness of each processor's next port access
(`WF_vars(CpuStep)`, `WF_vars(SpcStepNext)`): both run on their own crystal and
never stop, and a poll loop that reads the awaited value goes on; and that a main loop
that keeps finding a command posted has passes with a tick again and again
(`SF_vars(SpcReadsLast(TRUE))`): the effects timer is started at the end of the start-up
(`spc_driver.c:300-304`) and runs from then on. Nothing
makes the game begin a call. `SaveFile` assumes no fairness; all its properties
are safety properties. `Joypad` assumes that the NMI comes again and again
(`WF_vars(ReadPads)`: it is a timer interrupt and stays enabled while a screen
runs), that a take under way ends, and, for a screen that waits for a button, that
it asks for it again and again (`SF_vars(MaskHeld({b}))`: it does so once a frame,
between other takes).
`SpriteUploads` assumes that
the NMI comes (`WF_vars(BlockUploads)`), that a wait ends after it, and that a drawing
that was begun goes on (`WF_vars(Draw)`). That a sprite is drawn again and again, and that
frames are left alone at last, are hypotheses of `FrameArrives`: the game promises
neither. `SoundStream` assumes that the game runs its frames
(`WF_vars(UpdateSoundResourceQueue)`), since the queue is updated once in each. `Shop`,
`SpcVoices`, `CaveVisit` and `BattleRound` assume no fairness.

## Proofs

`SoundLink_proofs` and `SaveFile_proofs` prove for every value of the constants
(any byte width allowed by `Bit7Assumption`, any requests and sample data; any
number of files, games and seeds) that the inductive invariant (`LinkInv`, `IInv`) holds and
that it implies type correctness and the safety properties: for the link
`OnlyPostedIsDispatched`, `AcknowledgementsMatch`, `TransfersStayInStep` and `DeliversWhole`; for the
files `CompletedSavesAreKept`, `OccupiedFilesAreWhole`, `PartyStaysSound`,
`SavesWhatWasPlayed` and the action property `LoadsWhatWasKept`.

Why an invariant is needed for the link: whether the game may take a byte for an
acknowledgement depends on where the driver is, and what the port can still hold
from earlier. The invariant is a relation of the two program counters: for each
place of the game side, the places of the driver that are possible with it, the
values of the ports that decide the next polls, and that both are in the same
phase (`IInv`). The proof takes each action of either side and shows the relation for the
place it goes to.

`LinkInv` adds the data. `LateIsOwn` says that the arguments a driver reads late are still those
of the call it dispatched. `DataInv` follows the bytes of a transfer: where the game reads next
(`CpuPosition`), what stands on the ports (`BytesStand`), the header and the sample it defined
(`HeaderTaken`, `DefinedSample`), the driver's cursor (`CursorInPlace`), the bytes already
stored (`PayloadHeld`), and the end of sample memory a read command returns (`SampleEndStands`).
The cursor and the addresses wrap, so `CursorInPlace` and `PayloadHeld` hold modulo the size of
the memory; a byte that is stored cannot land on one stored before, because a length is the
value of a 16-bit register (`RequestAssumption`) and so a payload is shorter than the memory
(`LessThanATurn`). `DeliversWhole` is what is left of `PayloadHeld` when the game has the last
reply.

`ImplementsServiceSteps` is the refinement without its fairness: `SoundLink` implies the initial
state and the steps of `SoundService` under the mapping the run `link` checks. The game's access
that posts a request places the call, the driver's that dispatches it, or for the calls in
`Late` the one behind its acknowledgement, performs it, and the end of the game's last phase
returns it; every other access stutters. `LateIsOwn` shows that what is performed late is the
caller's.

Why one is needed for the files: a completed save is kept because nobody is
writing to the file, the other files match their checksums, a file's checksum
was taken of one encryption and of a packed game, and the buffer written is
the game played because the snapshot held it while the menu showed another file.
`TaskInv` ties places to tasks, `PartyInv` and `PlayInv` follow the game from
play to file, `WriteInv` says how far the file being written has come, `KeptInv`,
`MatchInv` and `SumInv` say what is true of all files.

`Joypad_proofs` proves `JoypadInv` for any set of buttons, masks, repeat times and
word size, and from it `TakenOnceWhileDown` and `PacedRepeats`. The invariant is
needed because the count of takes alone says nothing about the next one: `TakesLeft`
adds what the pressed word still offers while the button is down, and what a take
under way could still get while it is up; `CountdownIsPaced` relates the countdown to
the samples since the last change, which holds from the first change on and not
before, when the countdown wraps freely.

`SpriteUploads_proofs` proves `SpriteInv` for any sprites, frames and queue lengths, and
from it `GraphicsWhole`, `ShownIsComing` and `PlaceInQueue`. `GraphicsWhole` alone is
not inductive: what the NMI transfers depends on what the main program has stored so far.
`FillingInv` says which parts of the place are already those of the upload, `PendingBelowCursor`
that every place in use is below the cursor, so that the place being filled has no
address yet and is the last to be served, `PendingWhole` that every place with an
address is whole. `LastPlace` (a set of places has a last one) rests on the
well-foundedness of the natural numbers.

`SoundStream_proofs` proves `StreamInv` for any resources, songs, effects, chunk and bank sizes,
of which it assumes the layout named above, and from it `LatestStreams`, `LoadedWhole`,
`StreamWhole` and `StreamInPlace`. The invariant has two halves. `QueueInv`: `QueueHoldsOne` and
`WaitsForLatest` are needed because what waits must still be what was asked for last, in the
slot the driver was told, when its turn comes; `CursorInStep` says how far the source is.
`MemoryInv`: `BehindTheSong` says that the game's copies of the residents' and the song's end
are right and that what waits goes there, `SentSoFar` and `StreamBehind` that a stream has
stored what it sent and is behind what it may not overwrite, and `SamplesStand` that every
sample is whole *and ends before* those ends, without which nothing would keep the next stream
off it. That a list of uploads of any length leaves its samples in place (`AllLoaded`) and ends
where any other driver would end it (`SameEnd`) is induction over the list. The library's
induction theorems cannot be used, so it is done by sets: `CountedUp` shows from the
well-foundedness of the natural numbers that a set with 0 and every next number has them all,
and the drivers after each upload are a function that `AfterExists` shows to exist.

`Goods_proofs` proves `GoodsInv` for any items, members, sizes of the bag and widths.
`OneSlotPerItem` is what makes the slots chosen for the strongest items stand: putting on
one item may free, fill or exchange slots, but only the chosen one and that of the old
equipment, and these are not the slots of other choices. `DealStands` is needed because
an open deal's limit was worked out when it was prepared: nothing else happens while it
is open, and a wrapped limit leaves a quantity that stores at least one.

From it follow `MovesConserve` and `FairTrade`. Both say how many of an item the bag, the
members and the menu have together, before and after a step. They are proved of one item at a
time: that its count is within the limit before (`Sound`) is what bounds the sum of seven
bits in its own slot, and slots of other items may hold any count. The lemmas reduce that to one
slot and one place: `CountPut` says what a slot with other content does to the counts,
`WornPut` what another item on a member does to the number worn; `SortMoves` needs that
the sorted slots are a permutation, which is that a function on a finite set that takes no
value twice takes them all. That a sale raises gold by its whole price rests on
`ShopAssumption`: prices are words, and the cap and 99 times a word together are below
2^24. Of gold that a script left above the cap (`shop_gold`) it says nothing, since a sale
cuts it.

It proves the visit to the cave, too: `CaveInv` and `ItemsComeHome` for any items, treasures,
party, bag and places, `TimeKept` for any number of minutes and hours. `InOrderIs` shows that
the order of a list counts its elements, `ListedStep` and `ListedBoth` what one word and two
lists put together are of an item, so that `EnterTakes` and `CollectTakes` can say that a list
holds what was taken or is to be taken along. A word with more than one is stored by adding in
seven bits, which is right only while the party has none of the item; therefore the invariant
follows a list while it is given. `GrantStands` says that what the party has and what is still
to come are no more than the list: a word that comes from a bag is the first with its item
(`BagPart`), so nothing of it is at hand yet. A fresh bag has a slot for it because there are
fewer blue items than slots (`FreshFits`), and a single item without room is one of more than
the limit. `ReturnStands` says the same of the way back, where after a defeat the slots that
were freed on entry are still there: there are as many as words to come, and each takes one.
Without a defeat there may be none; `ReturnGives` ends in `Dropped` then. While a menu is open
the party can lose and move items but come to nothing new (`ActsBring`, `ActsLose`).

`ClockInv` is the invariant of the clock: it says where the time of the game is, for every place
in the program between two copies. `entered + spent` is on the clock; once the clock is cleared,
on the clock and in the backup together; once the time is staged, in the staged time and the
backup, then in the staged time and the clock again. Each sum has the interval in which it can
be off. The intervals cannot be added up, since a lost minute and a carried hour exclude each
other: the invariant remembers the one tick a phase can see (`ticked`), and which byte it
changed.

`SpcVoices_proofs` proves `VoicesInv` for any number of voices, groups, songs and instruments,
and from it `TakenEffectStops` and `EffectsUndisturbed`. `IdsTellApart` rests on a number being
free for a new effect: there are more numbers than voices, so some number is held by no channel
(`SomeNumberIsFree`, by counting). Of `$FD` it needs no more than that a byte holds bits of
voices (`BytesHold`) and that the status is as it was when no track counted it up
(`StatusStays`): nothing is assumed of how often and on which tracks it is read.

`BattleRound_proofs` proves `IInv` for any party, enemies, items, powers and priorities, and
from it `RoundInv`, `ItemsCovered` and `PaidOnce`. That the queue fits is again a matter
of counting: no battler has two entries (`QueueInv`), so the entries are no more than the
battlers that can have one by then. When the party acts as one there is one entry more, but
some member is left out, since the commands are only asked for while somebody is able to
act. `ChoiceInv` is needed for stepping back: only members asked before still reserve an
item. `PaidInv` says that an enemy that was paid for is down and nothing else, in particular
not poisoned, so that poison cannot fell it again.

Only model-checked: liveness (`CallsReturn`, `VolumeSettles`, `HeldButtonKeepsRepeating`,
`FrameArrives`, `StreamsEnd`) and the fairness of the refinement `ImplementsService`, both out of the
prover's reach.

## Not modelled

Of the modelled components: the giving up of poll loops
(they are resumed), `$0E` (never sent), the boot ROM's loading of the driver, the
low nibble of a save header, the missing mirror of battery RAM (the boot loop that
repeats the memory test), the developer mode's sprite selector, which fills a place of
the upload queue without checking for room, the reallocation of video memory between
actors; the deferred sound command (nothing under `src/` sets it), the frame a volume
command inhibits, effects without a resource; key items, spells, the casino, which item
is strongest; pitch, volume, echo, noise and pitch modulation of the voices, and the step
of a fade, which is 0 for a fade of one frame and makes it endless.

Of battles, hit points and the scripts that reckon damage, how enemies choose, the layout a
setup makes, what rewards do afterwards and everything drawn; of the cave, the generation of
floors, chests and enemies, the screens and statistics; of the NMI, callbacks, fades
and the uploads that are presentation.

Of the other components, the plan names what is still to come. The contents of ROM data
are not in the repository: scripts, patterns and tables are left open where a model
meets them. The text engine, the title, the world map, most of the field and the
effects of battles draw and play, and have no state the properties here could be about.
The processor helpers are what the models are written in.
