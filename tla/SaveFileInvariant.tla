-------------------------- MODULE SaveFileInvariant --------------------------
(***************************************************************************)
(* The inductive invariant behind the properties of SaveFile.              *)
(***************************************************************************)
EXTENDS SaveFile

(* What each part of the program is entered for. *)
TaskInv ==
    /\ pc \in {"validate", "empty"} => task \in {"boot", "erase"}
    /\ pc \in {"memoryTest", "memoryRestore"} => task = "boot"
    /\ pc \in WritePlaces => task # "load"
    /\ pc \in {"choose", "preview", "confirm"} => task \in {"load", "save"}
    /\ pc = "load" => task = "load"
    /\ pc \in {"capture", "pack"} => task = "save"
    /\ pc \in ErasePlaces => task = "erase"

(* No party in work RAM is blank or garbage. *)
PartyInv == {live.party, snapshot.party, played.party} \subseteq Party

(* A save carries the game as it was played from the menu to the file: the *)
(* snapshot holds it while the menu shows another file.                    *)
PlayInv ==
    /\ pc = "play" => live = played
    /\ task = "save" /\ pc \in {"choose", "preview", "confirm"} => snapshot = played
    /\ task = "save" /\ pc \in {"choose", "confirm"} => live = played
    /\ pc \in {"capture", "pack"} => live = played
    /\ task = "save" /\ pc \in WritePlaces => live = played
    /\ pc = "pack" => buffer.field = played.field
    /\ task = "save" /\ pc \in WritePlaces => buffer = played /\ buffer \in packed

(* How far the file being written agrees with the work buffer, the erased  *)
(* one with zeros, and the tested one with the test value.                 *)
WriteInv ==
    /\ pc \in {"field", "party", "sum", "header"} => sram[file].seed \in Seed
    /\ pc \in {"party", "sum", "header"} => sram[file].field = Encrypted(buffer.field)
    /\ pc \in {"sum", "header"} => sram[file].party = Encrypted(buffer.party)
    /\ pc \in {"header", "empty"} => Matches(file)
    /\ pc = "eraseData" => sram[file].sum = None
    /\ pc = "memoryRestore" => Occupied(0)

(* A file that holds a completed save is whole, and nothing but a save to  *)
(* it or an erasure is under way in it.                                    *)
KeptInv ==
    /\ \A f \in File : kept[f] # None =>
          /\ Occupied(f) /\ Matches(f)
          /\ ReadGameFile(f) = kept[f] /\ kept[f].party \in Party
    /\ pc \in WritePlaces /\ Clearing => kept[file] = None
    /\ pc \in {"field", "party", "sum"} => kept[file] = None
    /\ pc \in {"eraseSum", "eraseData"} => kept[file] = None
    /\ pc = "memoryRestore" /\ flags => kept[0] = None

(* The validation has passed the files above the current one, and past it  *)
(* every file but one being saved has the checksum of its data.            *)
MatchInv ==
    /\ Settled \/ pc = "memoryRestore" => \A f \in File : Matches(f)
    /\ task = "save" /\ pc \in WritePlaces => \A f \in File \ {file} : Matches(f)
    /\ task = "save" /\ pc = "seed" => Matches(file)
    /\ Clearing /\ pc \in {"validate"} \cup WritePlaces =>
          \A f \in File : f > file => Matches(f)

(* A checksum was taken of one encryption.  That of an occupied file       *)
(* outside the windows was taken of a game some save packed, and the file  *)
(* decrypts to it if the checksum holds.                                   *)
SumPlain(f) == [field |-> sram[f].sum.field.value, party |-> sram[f].sum.party.value]
SumHit == Hit \ (IF SeedWindow THEN {file} ELSE {})

SumOf(f) ==
    /\ sram[f].sum # None =>
          /\ sram[f].sum.field.seed \in Seed
          /\ sram[f].sum.party.seed = sram[f].sum.field.seed
    /\ f \notin exposed \cup SumHit /\ Occupied(f) /\ sram[f].sum # None =>
          SumPlain(f) \in packed
    /\ f \notin exposed \cup Hit /\ Occupied(f) /\ Matches(f) =>
          sram[f].field.seed = sram[f].seed
SumInv == \A f \in File : SumOf(f)

(* The inductive invariant: together the parts hold in the initial state   *)
(* and after every step, and they imply the properties of SaveFile.        *)
IInv ==
    /\ TypeOK
    /\ TaskInv /\ PartyInv /\ PlayInv /\ WriteInv /\ KeptInv /\ MatchInv /\ SumInv
=============================================================================
