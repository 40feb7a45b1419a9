------------------------------ MODULE SaveFile ------------------------------
(***************************************************************************)
(* The save files in battery RAM and the menus that write, read and erase  *)
(* them, with a crash (power loss, or the soft reset of the NMI handler)   *)
(* between any two stores.  A file is a header byte, the seed its data is  *)
(* encrypted with, a checksum of the stored data, and the data: the field  *)
(* block and the party record, which carries a checksum of its own.        *)
(* From src/system/save*.c, boot.c and the save menus of src/menu.         *)
(***************************************************************************)
EXTENDS Naturals

CONSTANTS
    LastFile,    \* the highest file number
    Game,        \* the states a game can be saved in
    Seed,        \* the encryption seeds
    Initial,     \* the state work RAM has after a boot
    Blank,       \* zeroed bytes
    Garbage,     \* bytes decrypted with the wrong seed
    None         \* no seed, no checksum, no save

File == 0 .. LastFile
Value == Game \cup {Initial, Blank, Garbage}
Cell == [seed : Seed \cup {None}, value : Value]
Data == [field : Cell, party : Cell]
Image == [field : Value, party : Value]
FileData == [empty : BOOLEAN, seed : Seed \cup {None}, sum : Data \cup {None},
             field : Cell, party : Cell]

ASSUME SaveFileAssumption ==
    /\ LastFile \in Nat
    /\ Initial \notin Game
    /\ {Blank, Garbage} \cap (Game \cup {Initial}) = {}
    /\ None \notin Seed /\ None \notin Data /\ Blank # Garbage

VARIABLES
    sram,        \* the files
    live,        \* the game in work RAM
    snapshot,    \* the copy of it the save menus make
    buffer,      \* the work buffer a file is read to and written from
    pc,          \* what the program does next
    file,        \* the file it works on
    task,        \* what the file is written, validated or chosen for
    flags,       \* what the memory test read from $700000
    kept,        \* history: the last completed save of each file
    packed,      \* history: every game a save packed
    exposed,     \* history: the files a crash hit in a window
    played       \* history: the game as it was last played

history == <<kept, packed, exposed, played>>
vars == <<sram, live, snapshot, buffer, pc, file, task, flags, history>>

Both(value) == [field |-> value, party |-> value]

(* The sum runs over the stored bytes, so it can be told only by them. *)
Stored(f) == [field |-> sram[f].field, party |-> sram[f].party]

(* Mutant: any checksum will do. *)
MutantMatches(f) == sram[f].sum # None

Matches(f) == sram[f].sum = Stored(f)
Occupied(f) == ~sram[f].empty

(* Mutant: the seed is read from file 0 whatever the file. *)
MutantDecrypted(f, cell) ==
    IF cell.seed = sram[0].seed /\ cell.seed # None THEN cell.value ELSE Garbage

(* Lufia2ReadGameFile: what the stored bytes decrypt to. *)
Decrypted(f, cell) ==
    IF cell.seed = sram[f].seed /\ cell.seed # None THEN cell.value ELSE Garbage
ReadGameFile(f) == [field |-> Decrypted(f, sram[f].field),
                    party |-> Decrypted(f, sram[f].party)]

(* The record's checksum fails for zeros and for garbage. *)
RecordValid(image) == image.party \notin {Blank, Garbage}

(* Mutant: the record is unpacked without its checksum. *)
MutantRestoredParty(image) == image.party

(* Lufia2SaveRestoreState sets up the default party before it checks the   *)
(* record, so an invalid record leaves the party of a new game.            *)
RestoredParty(image) == IF RecordValid(image) THEN image.party ELSE Initial

ZeroCell == [seed |-> None, value |-> Blank]
ZeroFile == [empty |-> FALSE, seed |-> None, sum |-> None,
             field |-> ZeroCell, party |-> ZeroCell]

Goes(place) == pc' = place
KeepPlace == UNCHANGED <<file, task>>
KeepGame == UNCHANGED <<live, snapshot, played>>
KeepHistory == UNCHANGED history

Init ==
    /\ sram = [f \in File |-> ZeroFile]
    /\ live = Both(Initial) /\ snapshot = Both(Initial) /\ buffer = Both(Garbage)
    /\ pc = "validate" /\ file = LastFile /\ task = "boot" /\ flags = FALSE
    /\ kept = [f \in File |-> None] /\ packed = {} /\ exposed = {}
    /\ played = Both(Initial)

-----------------------------------------------------------------------------
(* Lufia2ValidateSaveFiles, from the last file down. *)

(* Mutant: the loop runs on below file 0. *)
MutantNextFile == file' = file - 1 /\ Goes("validate")

NextFile ==
    IF file > 0
    THEN file' = file - 1 /\ Goes("validate")
    ELSE file' = file /\ Goes(IF task = "boot" THEN "memoryTest" ELSE "title")

FileIsValid ==
    /\ pc = "validate" /\ Matches(file) /\ NextFile
    /\ UNCHANGED <<sram, buffer, task, flags>> /\ KeepGame /\ KeepHistory

(* Lufia2ClearGameFile zeroes work RAM at the buffer plus the file's       *)
(* offset, which is the buffer itself only for file 0.                     *)
ClearInvalid ==
    /\ pc = "validate" /\ ~Matches(file) /\ Goes("seed")
    /\ buffer' = IF file = 0 THEN Both(Blank) ELSE buffer
    /\ UNCHANGED <<sram, flags>> /\ KeepPlace /\ KeepGame /\ KeepHistory

(* Lufia2WriteGameFile: seed, data, checksum, header. *)
Clearing == task # "save"

WriteSeed ==
    /\ pc = "seed" /\ Goes("field")
    /\ \E s \in Seed : sram' = [sram EXCEPT ![file].seed = s]
    /\ kept' = [kept EXCEPT ![file] = IF Clearing THEN @ ELSE None]
    /\ UNCHANGED <<buffer, flags, packed, exposed>> /\ KeepPlace /\ KeepGame

Encrypted(value) == [seed |-> sram[file].seed, value |-> value]

WriteField ==
    /\ pc = "field" /\ Goes("party")
    /\ sram' = [sram EXCEPT ![file].field = Encrypted(buffer.field)]
    /\ UNCHANGED <<buffer, flags>> /\ KeepPlace /\ KeepGame /\ KeepHistory

WriteParty ==
    /\ pc = "party" /\ Goes("sum")
    /\ sram' = [sram EXCEPT ![file].party = Encrypted(buffer.party)]
    /\ UNCHANGED <<buffer, flags>> /\ KeepPlace /\ KeepGame /\ KeepHistory

(* Mutant: the checksum of the data before it is encrypted. *)
MutantWriteSum ==
    /\ pc = "sum" /\ Goes("header")
    /\ sram' = [sram EXCEPT ![file].sum =
                  [field |-> [seed |-> None, value |-> buffer.field],
                   party |-> [seed |-> None, value |-> buffer.party]]]
    /\ kept' = [kept EXCEPT ![file] = IF ~Clearing /\ Occupied(file) THEN buffer ELSE @]
    /\ UNCHANGED <<buffer, flags, packed, exposed>> /\ KeepPlace /\ KeepGame

WriteSum ==
    /\ pc = "sum" /\ Goes("header")
    /\ sram' = [sram EXCEPT ![file].sum = Stored(file)]
    /\ kept' = [kept EXCEPT ![file] = IF ~Clearing /\ Occupied(file) THEN buffer ELSE @]
    /\ UNCHANGED <<buffer, flags, packed, exposed>> /\ KeepPlace /\ KeepGame

(* The header's high bits are zero in an occupied file. *)
WriteHeader ==
    /\ pc = "header" /\ Goes(IF Clearing THEN "empty" ELSE "play")
    /\ sram' = [sram EXCEPT ![file].empty = FALSE]
    /\ kept' = [kept EXCEPT ![file] = IF Clearing THEN @ ELSE buffer]
    /\ exposed' = exposed \ {file}
    /\ UNCHANGED <<buffer, flags, packed>> /\ KeepPlace /\ KeepGame

(* The rest of Lufia2ClearGameFile. *)
WriteEmpty ==
    /\ pc = "empty" /\ NextFile
    /\ sram' = [sram EXCEPT ![file].empty = TRUE]
    /\ UNCHANGED <<buffer, task, flags>> /\ KeepGame /\ KeepHistory

(* BootSaveMemoryResponds writes 0 to the header of file 0 and puts it     *)
(* back.                                                                   *)
TestMemory ==
    /\ pc = "memoryTest" /\ Goes("memoryRestore")
    /\ flags' = sram[0].empty /\ sram' = [sram EXCEPT ![0].empty = FALSE]
    /\ UNCHANGED buffer /\ KeepPlace /\ KeepGame /\ KeepHistory

(* Mutant: the header is not put back. *)
MutantRestoreMemory ==
    /\ pc = "memoryRestore" /\ Goes("title")
    /\ UNCHANGED <<sram, buffer, flags>> /\ KeepPlace /\ KeepGame /\ KeepHistory

RestoreMemory ==
    /\ pc = "memoryRestore" /\ Goes("title")
    /\ sram' = [sram EXCEPT ![0].empty = flags]
    /\ UNCHANGED <<buffer, flags>> /\ KeepPlace /\ KeepGame /\ KeepHistory

-----------------------------------------------------------------------------
(* Playing, and the menus. *)

NewGame ==
    /\ pc = "title" /\ Goes("play")
    /\ live' = Both(Initial) /\ played' = Both(Initial)
    /\ UNCHANGED <<sram, snapshot, buffer, flags, kept, packed, exposed>> /\ KeepPlace

Play ==
    /\ pc = "play"
    /\ \E g \in Game : live' = Both(g) /\ played' = Both(g)
    /\ UNCHANGED <<sram, snapshot, buffer, pc, flags, kept, packed, exposed>> /\ KeepPlace

(* Building the menu reads every occupied file through the work buffer,    *)
(* from the first to the last.                                             *)
LastShown(f) == Occupied(f) /\ \A g \in File : Occupied(g) => g <= f

(* Lufia2MenuRunSaveSelection: Lufia2MenuSaveFieldBuffers, then the menu. *)
OpenMenu ==
    /\ pc \in {"title", "play"} /\ Goes("choose")
    /\ task' = IF pc = "title" THEN "load" ELSE "save"
    /\ snapshot' = live
    /\ \/ \E f \in File : LastShown(f) /\ buffer' = ReadGameFile(f)
       \/ (\A f \in File : ~Occupied(f)) /\ buffer' = buffer
    /\ UNCHANGED <<sram, live, file, flags>> /\ KeepHistory

LeaveMenu ==
    /\ pc = "choose" /\ Goes(IF task = "load" THEN "title" ELSE "play")
    /\ UNCHANGED <<sram, buffer, flags>> /\ KeepPlace /\ KeepGame /\ KeepHistory

(* A save to an empty file asks no confirmation. *)
ChooseEmpty ==
    /\ pc = "choose" /\ task = "save" /\ Goes("capture")
    /\ \E f \in File : ~Occupied(f) /\ file' = f
    /\ UNCHANGED <<sram, buffer, task, flags>> /\ KeepGame /\ KeepHistory

(* Lufia2MenuRestoreAlternateSelection shows a file by restoring its party *)
(* record over the live one.                                               *)
ChooseOccupied ==
    /\ pc = "choose" /\ Goes("preview")
    /\ \E f \in File :
          /\ Occupied(f) /\ file' = f /\ buffer' = ReadGameFile(f)
          /\ live' = [live EXCEPT !.party = RestoredParty(ReadGameFile(f))]
    /\ UNCHANGED <<sram, snapshot, task, flags>> /\ KeepHistory

(* Mutant: the save menu keeps the previewed party until it is left. *)
MutantEndPreview ==
    /\ pc = "preview" /\ Goes("confirm")
    /\ UNCHANGED <<sram, live, snapshot, buffer, flags>> /\ KeepPlace /\ KeepHistory

(* $155A is set by the menus that save: the snapshot goes back at once. *)
EndPreview ==
    /\ pc = "preview" /\ Goes("confirm")
    /\ live' = IF task = "save" THEN snapshot ELSE live
    /\ UNCHANGED <<sram, snapshot, buffer, flags>> /\ KeepPlace /\ KeepHistory

Confirm ==
    /\ pc = "confirm" /\ Goes(IF task = "load" THEN "load" ELSE "capture")
    /\ UNCHANGED <<sram, buffer, flags>> /\ KeepPlace /\ KeepGame /\ KeepHistory

(* Lufia2MenuConfirmExit: Lufia2MenuRestoreSavedFieldBuffers. *)
Cancel ==
    /\ pc = "confirm" /\ Goes("choose")
    /\ live' = snapshot
    /\ UNCHANGED <<sram, snapshot, buffer, flags>> /\ KeepPlace /\ KeepHistory

(* Lufia2LoadGameFile: an empty file is refused, and the field block has   *)
(* no checksum of its own.                                                 *)
LoadGameFile(f) ==
    /\ file' = f /\ Goes("play")
    /\ buffer' = ReadGameFile(f)
    /\ live' = IF Occupied(f)
               THEN [field |-> ReadGameFile(f).field,
                     party |-> RestoredParty(ReadGameFile(f))]
               ELSE live
    /\ played' = live'
    /\ UNCHANGED <<sram, snapshot, task, flags, kept, packed, exposed>>

LoadChosen == pc = "load" /\ LoadGameFile(file)

(* The save menu of the diagnostics screen: no preview, no confirmation. *)
LoadDirect == pc = "play" /\ \E f \in File : LoadGameFile(f)
SaveDirect ==
    /\ pc = "play" /\ Goes("capture")
    /\ task' = "save" /\ file' \in File
    /\ UNCHANGED <<sram, buffer, flags>> /\ KeepGame /\ KeepHistory

(* Lufia2SaveGameFile: the field block, the party record, the file. *)
CaptureField ==
    /\ pc = "capture" /\ Goes("pack")
    /\ buffer' = [buffer EXCEPT !.field = live.field]
    /\ UNCHANGED <<sram, flags>> /\ KeepPlace /\ KeepGame /\ KeepHistory

PackParty ==
    /\ pc = "pack" /\ Goes("seed")
    /\ buffer' = [buffer EXCEPT !.party = live.party]
    /\ packed' = packed \cup {buffer'}
    /\ UNCHANGED <<sram, flags, kept, exposed>> /\ KeepPlace /\ KeepGame

(* Lufia2SaveRunEraseSelection zeroes the battery RAM from its first byte  *)
(* on and validates the files.                                             *)
BeginErase ==
    /\ pc = "title" /\ Goes("eraseHead")
    /\ task' = "erase" /\ file' = 0
    /\ UNCHANGED <<sram, buffer, flags>> /\ KeepGame /\ KeepHistory

EraseHead ==
    /\ pc = "eraseHead" /\ Goes("eraseSum")
    /\ sram' = [sram EXCEPT ![file].empty = FALSE, ![file].seed = None]
    /\ kept' = [kept EXCEPT ![file] = None]
    /\ UNCHANGED <<buffer, flags, packed, exposed>> /\ KeepPlace /\ KeepGame

EraseSum ==
    /\ pc = "eraseSum" /\ Goes("eraseData")
    /\ sram' = [sram EXCEPT ![file].sum = None]
    /\ UNCHANGED <<buffer, flags>> /\ KeepPlace /\ KeepGame /\ KeepHistory

EraseData ==
    /\ pc = "eraseData"
    /\ sram' = [sram EXCEPT ![file].field = ZeroCell, ![file].party = ZeroCell]
    /\ IF file < LastFile
       THEN file' = file + 1 /\ Goes("eraseHead")
       ELSE file' = file /\ Goes("validate")
    /\ UNCHANGED <<buffer, task, flags>> /\ KeepGame /\ KeepHistory

-----------------------------------------------------------------------------
(* A crash.  Four windows leave a file whose checksum holds although no    *)
(* save wrote what it now reads as.                                        *)
SeedWindow == pc = "field"
ClearWindow == Clearing /\ pc \in {"header", "empty"}
EraseWindow == pc = "eraseSum"
TestWindow == pc = "memoryRestore" /\ flags

Hit ==
    (IF SeedWindow \/ ClearWindow \/ EraseWindow THEN {file} ELSE {})
        \cup (IF TestWindow THEN {0} ELSE {})

Crash ==
    /\ Goes("validate") /\ file' = LastFile /\ task' = "boot"
    /\ exposed' = exposed \cup Hit
    /\ \/ live' = Both(Initial) /\ buffer' = Both(Garbage)
       \/ UNCHANGED <<live, buffer>>
    /\ UNCHANGED <<sram, snapshot, flags, kept, packed, played>>

Work ==
    \/ FileIsValid \/ ClearInvalid
    \/ WriteSeed \/ WriteField \/ WriteParty \/ WriteSum \/ WriteHeader \/ WriteEmpty
    \/ TestMemory \/ RestoreMemory
    \/ NewGame \/ Play \/ OpenMenu \/ LeaveMenu \/ ChooseEmpty \/ ChooseOccupied
    \/ EndPreview \/ Confirm \/ Cancel \/ LoadChosen \/ LoadDirect \/ SaveDirect
    \/ CaptureField \/ PackParty
    \/ BeginErase \/ EraseHead \/ EraseSum \/ EraseData

Next == Work \/ Crash

Spec == Init /\ [][Next]_vars

-----------------------------------------------------------------------------
WritePlaces == {"seed", "field", "party", "sum", "header", "empty"}
MenuPlaces == {"title", "play", "choose", "preview", "confirm", "load", "capture", "pack"}
ErasePlaces == {"eraseHead", "eraseSum", "eraseData"}

(* The state of every variable. *)
TypeOK ==
    /\ sram \in [File -> FileData]
    /\ live \in Image /\ snapshot \in Image /\ buffer \in Image /\ played \in Image
    /\ pc \in {"validate", "memoryTest", "memoryRestore"} \cup WritePlaces
             \cup MenuPlaces \cup ErasePlaces
    /\ file \in File /\ task \in {"boot", "erase", "load", "save"} /\ flags \in BOOLEAN
    /\ kept \in [File -> Image \cup {None}]
    /\ packed \subseteq Image /\ exposed \subseteq File

(* A completed save stays readable until the player saves to that file     *)
(* again or erases it: no crash, no validation, no work on another file    *)
(* and no menu takes it away.                                              *)
SavesKept ==
    \A f \in File : kept[f] # None => Occupied(f) /\ ReadGameFile(f) = kept[f]

(* Past the validation of a boot or an erase, a file shown as occupied     *)
(* holds one whole game that a save packed, unless a crash hit it in one   *)
(* of the windows.                                                         *)
Settled == pc \in {"memoryTest"} \cup MenuPlaces
OccupiedIsWhole ==
    Settled => \A f \in File \ exposed : Occupied(f) => ReadGameFile(f) \in packed

(* Whatever a crash left in the files, the party the game runs with is a   *)
(* party some save packed or the default one: the record's own checksum    *)
(* stops what the file's checksum lets through.                            *)
Party == Game \cup {Initial}
PartySound == live.party \in Party

(* What a save writes is the game as it was played, not the file that the  *)
(* menu showed before the player confirmed.                                *)
SavesPlayed ==
    task = "save" /\ pc \in {"seed", "field", "party", "sum", "header"} =>
        buffer = played

(* Confirming a file in the load menu brings back the last completed save  *)
(* of that file, whole.                                                    *)
LoadsKept ==
    [][LoadChosen /\ kept[file] # None => live' = kept[file]]_vars
=============================================================================
