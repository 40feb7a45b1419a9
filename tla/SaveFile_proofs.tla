-------------------------- MODULE SaveFile_proofs --------------------------
(***************************************************************************)
(* The properties of SaveFile proved for every number of files, every set  *)
(* of games and every set of seeds.                                        *)
(***************************************************************************)
EXTENDS SaveFileInvariant, TLAPS

(* The file numbers the loops reach. *)
LEMMA FileFacts ==
    /\ 0 \in File /\ LastFile \in File /\ File \subseteq Nat
    /\ \A f \in File : f > 0 => f - 1 \in File
    /\ \A f \in File : f < LastFile => f + 1 \in File
BY SaveFileAssumption DEF File

(* The constants among the values. *)
LEMMA ValueFacts ==
    /\ \A v \in Value : Both(v) \in Image /\ Both(v).party = v
    /\ Initial \in Value /\ Blank \in Value /\ Garbage \in Value
    /\ ZeroCell \in Cell
BY DEF Value, Both, Image, ZeroCell, Cell

(* The parties the game can run with are values. *)
LEMMA PartyFacts == Party \subseteq Value /\ Game \subseteq Party /\ Initial
     \in Party
BY DEF Party, Value

(* An encrypted value is a cell of the file. *)
LEMMA EncryptedType == ASSUME TypeOK, NEW value \in Value PROVE
     Encrypted(value) \in Cell
BY DEF TypeOK, Encrypted, FileData, Cell

(* What the checksum runs over. *)
LEMMA StoredType == ASSUME TypeOK, NEW f \in File PROVE Stored(f) \in Data
BY DEF TypeOK, Stored, FileData, Data

(* A file that is read gives an image, whatever was stored. *)
LEMMA ReadType == ASSUME TypeOK, NEW f \in File PROVE ReadGameFile(f) \in Image
BY DEF TypeOK, ReadGameFile, Decrypted, Image, FileData, Cell, Value

(* Restoring a record leaves a party the game can run with: an invalid     *)
(* record leaves the default one.                                          *)
LEMMA RestoredType == ASSUME NEW image \in Image PROVE RestoredParty(image)
     \in Party
BY DEF RestoredParty, RecordValid, Image, Value, Party

(* Storing into one file keeps the files well formed. *)
LEMMA UpdateType ==
    ASSUME NEW files \in [File -> FileData], NEW f \in File, NEW d \in FileData
    PROVE  [files EXCEPT ![f] = d] \in [File -> FileData]
OBVIOUS

-----------------------------------------------------------------------------

(* Every step leaves the files well formed. *)
LEMMA FilesTyped ==
    ASSUME TypeOK, Next
    PROVE  sram' \in [File -> FileData]
<1> USE DEF TypeOK, KeepGame, KeepHistory
<1>1. CASE FileIsValid
  BY <1>1 DEF FileIsValid, NextFile
<1>2. CASE ClearInvalid
  BY <1>2 DEF ClearInvalid
<1>3. CASE WriteSeed
  <2>1. PICK s \in Seed : sram' = [sram EXCEPT ![file].seed = s]
    BY <1>3 DEF WriteSeed
  <2>2. [sram[file] EXCEPT !.seed = s] \in FileData
    BY DEF TypeOK, FileData
  <2> QED
    BY <2>1, <2>2, UpdateType DEF TypeOK
<1>4. CASE WriteField
  <2>1. [sram[file] EXCEPT !.field = Encrypted(buffer.field)] \in FileData
    BY EncryptedType DEF Image, TypeOK, FileData
  <2> QED
    BY <1>4, <2>1, UpdateType DEF WriteField, TypeOK
<1>5. CASE WriteParty
  <2>1. [sram[file] EXCEPT !.party = Encrypted(buffer.party)] \in FileData
    BY EncryptedType DEF Image, TypeOK, FileData
  <2> QED
    BY <1>5, <2>1, UpdateType DEF WriteParty, TypeOK
<1>6. CASE WriteSum
  <2>1. [sram[file] EXCEPT !.sum = Stored(file)] \in FileData
    BY StoredType DEF TypeOK, FileData
  <2> QED
    BY <1>6, <2>1, UpdateType DEF WriteSum, TypeOK
<1>7. CASE WriteHeader
  <2>1. [sram[file] EXCEPT !.empty = FALSE] \in FileData
    BY DEF TypeOK, FileData
  <2> QED
    BY <1>7, <2>1, UpdateType DEF WriteHeader, TypeOK
<1>8. CASE WriteEmpty
  <2>1. [sram[file] EXCEPT !.empty = TRUE] \in FileData
    BY DEF TypeOK, FileData
  <2> QED
    BY <1>8, <2>1, UpdateType DEF WriteEmpty, NextFile, TypeOK
<1>9. CASE TestMemory
  <2>1. [sram[0] EXCEPT !.empty = FALSE] \in FileData
    BY FileFacts DEF TypeOK, FileData
  <2> QED
    BY <1>9, <2>1, UpdateType, FileFacts DEF TestMemory, TypeOK
<1>10. CASE RestoreMemory
  <2>1. [sram[0] EXCEPT !.empty = flags] \in FileData
    BY FileFacts DEF TypeOK, FileData
  <2> QED
    BY <1>10, <2>1, UpdateType, FileFacts DEF RestoreMemory, TypeOK
<1>11. CASE NewGame
  BY <1>11 DEF NewGame
<1>12. CASE Play
  BY <1>12 DEF Play
<1>13. CASE OpenMenu
  BY <1>13 DEF OpenMenu
<1>14. CASE LeaveMenu
  BY <1>14 DEF LeaveMenu
<1>15. CASE ChooseEmpty
  BY <1>15 DEF ChooseEmpty
<1>16. CASE ChooseOccupied
  BY <1>16 DEF ChooseOccupied
<1>17. CASE EndPreview
  BY <1>17 DEF EndPreview
<1>18. CASE Confirm
  BY <1>18 DEF Confirm
<1>19. CASE Cancel
  BY <1>19 DEF Cancel
<1>20. CASE LoadChosen
  BY <1>20 DEF LoadChosen, LoadGameFile
<1>21. CASE LoadDirect
  BY <1>21 DEF LoadDirect, LoadGameFile
<1>22. CASE SaveDirect
  BY <1>22 DEF SaveDirect
<1>23. CASE CaptureField
  BY <1>23 DEF CaptureField
<1>24. CASE PackParty
  BY <1>24 DEF PackParty
<1>25. CASE BeginErase
  BY <1>25 DEF BeginErase
<1>26. CASE EraseHead
  <2>1. [sram[file] EXCEPT !.empty = FALSE, !.seed = None] \in FileData
    BY DEF TypeOK, FileData
  <2> QED
    BY <1>26, <2>1, UpdateType DEF EraseHead, TypeOK
<1>27. CASE EraseSum
  <2>1. [sram[file] EXCEPT !.sum = None] \in FileData
    BY DEF TypeOK, FileData
  <2> QED
    BY <1>27, <2>1, UpdateType DEF EraseSum, TypeOK
<1>28. CASE EraseData
  <2>1. [sram[file] EXCEPT !.field = ZeroCell, !.party = ZeroCell] \in FileData
    BY ValueFacts DEF TypeOK, FileData
  <2> QED
    BY <1>28, <2>1, UpdateType DEF EraseData, TypeOK
<1>29. CASE Crash
  BY <1>29 DEF Crash
<1> QED
  BY <1>1, <1>2, <1>3, <1>4, <1>5, <1>6, <1>7, <1>8, <1>9, <1>10, <1>11,
     <1>12, <1>13, <1>14, <1>15, <1>16, <1>17, <1>18, <1>19, <1>20,
     <1>21, <1>22, <1>23, <1>24, <1>25, <1>26, <1>27, <1>28, <1>29 DEF Next,
          Work

(* Every step keeps the types. *)
LEMMA TypeStep ==
    ASSUME TypeOK, Next
    PROVE  TypeOK'
<1> USE FilesTyped DEF TypeOK, Goes, KeepPlace, KeepGame, KeepHistory,
     history, WritePlaces, MenuPlaces, ErasePlaces
<1>1. CASE FileIsValid
  BY <1>1, FileFacts DEF FileIsValid, NextFile
<1>2. CASE ClearInvalid
  BY <1>2, ValueFacts DEF ClearInvalid
<1>3. CASE WriteSeed
  BY <1>3 DEF WriteSeed
<1>4. CASE WriteField
  BY <1>4 DEF WriteField
<1>5. CASE WriteParty
  BY <1>5 DEF WriteParty
<1>6. CASE WriteSum
  BY <1>6 DEF WriteSum
<1>7. CASE WriteHeader
  BY <1>7 DEF WriteHeader
<1>8. CASE WriteEmpty
  BY <1>8, FileFacts DEF WriteEmpty, NextFile
<1>9. CASE TestMemory
  BY <1>9, FileFacts DEF TestMemory, FileData
<1>10. CASE RestoreMemory
  BY <1>10 DEF RestoreMemory
<1>11. CASE NewGame
  BY <1>11, ValueFacts DEF NewGame
<1>12. CASE Play
  BY <1>12, ValueFacts, PartyFacts DEF Play
<1>13. CASE OpenMenu
  BY <1>13, ReadType DEF OpenMenu
<1>14. CASE LeaveMenu
  BY <1>14 DEF LeaveMenu
<1>15. CASE ChooseEmpty
  BY <1>15 DEF ChooseEmpty
<1>16. CASE ChooseOccupied
  BY <1>16, ReadType, RestoredType, PartyFacts DEF ChooseOccupied, Image
<1>17. CASE EndPreview
  BY <1>17 DEF EndPreview
<1>18. CASE Confirm
  BY <1>18 DEF Confirm
<1>19. CASE Cancel
  BY <1>19 DEF Cancel
<1>20. CASE LoadChosen
  BY <1>20, ReadType, RestoredType, PartyFacts DEF LoadChosen, LoadGameFile,
       Image
<1>21. CASE LoadDirect
  BY <1>21, ReadType, RestoredType, PartyFacts DEF LoadDirect, LoadGameFile,
       Image
<1>22. CASE SaveDirect
  BY <1>22 DEF SaveDirect
<1>23. CASE CaptureField
  BY <1>23 DEF CaptureField, Image
<1>24. CASE PackParty
  BY <1>24 DEF PackParty, Image
<1>25. CASE BeginErase
  BY <1>25, FileFacts DEF BeginErase
<1>26. CASE EraseHead
  BY <1>26, FileFacts DEF EraseHead
<1>27. CASE EraseSum
  BY <1>27 DEF EraseSum
<1>28. CASE EraseData
  BY <1>28, FileFacts DEF EraseData
<1>29. CASE Crash
  BY <1>29, FileFacts, ValueFacts DEF Crash, Hit
<1> QED
  BY <1>1, <1>2, <1>3, <1>4, <1>5, <1>6, <1>7, <1>8, <1>9, <1>10, <1>11,
     <1>12, <1>13, <1>14, <1>15, <1>16, <1>17, <1>18, <1>19, <1>20,
     <1>21, <1>22, <1>23, <1>24, <1>25, <1>26, <1>27, <1>28, <1>29 DEF Next,
          Work

-----------------------------------------------------------------------------

(* Every part of the program keeps what it is entered for. *)
LEMMA TaskStep ==
    ASSUME IInv, Next
    PROVE  TaskInv'
<1> USE DEF IInv, TaskInv, Clearing, TypeOK, Goes, KeepPlace, KeepGame,
     KeepHistory, history, WritePlaces, MenuPlaces, ErasePlaces
<1>1. CASE FileIsValid
  BY <1>1, FileFacts DEF FileIsValid, NextFile
<1>2. CASE ClearInvalid
  BY <1>2 DEF ClearInvalid
<1>3. CASE WriteSeed
  BY <1>3 DEF WriteSeed
<1>4. CASE WriteField
  BY <1>4 DEF WriteField
<1>5. CASE WriteParty
  BY <1>5 DEF WriteParty
<1>6. CASE WriteSum
  BY <1>6 DEF WriteSum
<1>7. CASE WriteHeader
  BY <1>7 DEF WriteHeader
<1>8. CASE WriteEmpty
  BY <1>8 DEF WriteEmpty, NextFile
<1>9. CASE TestMemory
  BY <1>9 DEF TestMemory
<1>10. CASE RestoreMemory
  BY <1>10 DEF RestoreMemory
<1>11. CASE NewGame
  BY <1>11 DEF NewGame
<1>12. CASE Play
  BY <1>12 DEF Play
<1>13. CASE OpenMenu
  BY <1>13 DEF OpenMenu
<1>14. CASE LeaveMenu
  BY <1>14 DEF LeaveMenu
<1>15. CASE ChooseEmpty
  BY <1>15 DEF ChooseEmpty
<1>16. CASE ChooseOccupied
  BY <1>16 DEF ChooseOccupied
<1>17. CASE EndPreview
  BY <1>17 DEF EndPreview
<1>18. CASE Confirm
  BY <1>18 DEF Confirm
<1>19. CASE Cancel
  BY <1>19 DEF Cancel
<1>20. CASE LoadChosen
  BY <1>20 DEF LoadChosen, LoadGameFile
<1>21. CASE LoadDirect
  BY <1>21 DEF LoadDirect, LoadGameFile
<1>22. CASE SaveDirect
  BY <1>22 DEF SaveDirect
<1>23. CASE CaptureField
  BY <1>23 DEF CaptureField
<1>24. CASE PackParty
  BY <1>24 DEF PackParty
<1>25. CASE BeginErase
  BY <1>25 DEF BeginErase
<1>26. CASE EraseHead
  BY <1>26 DEF EraseHead
<1>27. CASE EraseSum
  BY <1>27 DEF EraseSum
<1>28. CASE EraseData
  BY <1>28 DEF EraseData
<1>29. CASE Crash
  BY <1>29 DEF Crash
<1> QED
  BY <1>1, <1>2, <1>3, <1>4, <1>5, <1>6, <1>7, <1>8, <1>9, <1>10, <1>11,
     <1>12, <1>13, <1>14, <1>15, <1>16, <1>17, <1>18, <1>19, <1>20,
     <1>21, <1>22, <1>23, <1>24, <1>25, <1>26, <1>27, <1>28, <1>29 DEF Next,
          Work

(* No step puts a blank or a garbage party in work RAM. *)
LEMMA PartyStep ==
    ASSUME IInv, Next
    PROVE  PartyInv'
<1> USE DEF IInv, PartyInv, Image, TypeOK, Goes, KeepPlace, KeepGame,
     KeepHistory, history, WritePlaces, MenuPlaces, ErasePlaces
<1>1. CASE FileIsValid
  BY <1>1 DEF FileIsValid, NextFile
<1>2. CASE ClearInvalid
  BY <1>2 DEF ClearInvalid
<1>3. CASE WriteSeed
  BY <1>3 DEF WriteSeed
<1>4. CASE WriteField
  BY <1>4 DEF WriteField
<1>5. CASE WriteParty
  BY <1>5 DEF WriteParty
<1>6. CASE WriteSum
  BY <1>6 DEF WriteSum
<1>7. CASE WriteHeader
  BY <1>7 DEF WriteHeader
<1>8. CASE WriteEmpty
  BY <1>8 DEF WriteEmpty, NextFile
<1>9. CASE TestMemory
  BY <1>9 DEF TestMemory
<1>10. CASE RestoreMemory
  BY <1>10 DEF RestoreMemory
<1>11. CASE NewGame
  BY <1>11, ValueFacts, PartyFacts DEF NewGame
<1>12. CASE Play
  BY <1>12, ValueFacts, PartyFacts DEF Play
<1>13. CASE OpenMenu
  BY <1>13 DEF OpenMenu
<1>14. CASE LeaveMenu
  BY <1>14 DEF LeaveMenu
<1>15. CASE ChooseEmpty
  BY <1>15 DEF ChooseEmpty
<1>16. CASE ChooseOccupied
  BY <1>16, ReadType, RestoredType DEF ChooseOccupied
<1>17. CASE EndPreview
  BY <1>17 DEF EndPreview
<1>18. CASE Confirm
  BY <1>18 DEF Confirm
<1>19. CASE Cancel
  BY <1>19 DEF Cancel
<1>20. CASE LoadChosen
  BY <1>20, ReadType, RestoredType DEF LoadChosen, LoadGameFile
<1>21. CASE LoadDirect
  BY <1>21, ReadType, RestoredType DEF LoadDirect, LoadGameFile
<1>22. CASE SaveDirect
  BY <1>22 DEF SaveDirect
<1>23. CASE CaptureField
  BY <1>23 DEF CaptureField
<1>24. CASE PackParty
  BY <1>24 DEF PackParty
<1>25. CASE BeginErase
  BY <1>25 DEF BeginErase
<1>26. CASE EraseHead
  BY <1>26 DEF EraseHead
<1>27. CASE EraseSum
  BY <1>27 DEF EraseSum
<1>28. CASE EraseData
  BY <1>28 DEF EraseData
<1>29. CASE Crash
  BY <1>29, ValueFacts, PartyFacts DEF Crash
<1> QED
  BY <1>1, <1>2, <1>3, <1>4, <1>5, <1>6, <1>7, <1>8, <1>9, <1>10, <1>11,
     <1>12, <1>13, <1>14, <1>15, <1>16, <1>17, <1>18, <1>19, <1>20,
     <1>21, <1>22, <1>23, <1>24, <1>25, <1>26, <1>27, <1>28, <1>29 DEF Next,
          Work

(* The game as it was played reaches the work buffer through the menus. *)
LEMMA PlayStep ==
    ASSUME IInv, Next
    PROVE  PlayInv'
<1> USE DEF IInv, PlayInv, TaskInv, Clearing, Image, TypeOK, Goes, KeepPlace,
     KeepGame, KeepHistory, history, WritePlaces, MenuPlaces, ErasePlaces
<1>1. CASE FileIsValid
  BY <1>1 DEF FileIsValid, NextFile
<1>2. CASE ClearInvalid
  BY <1>2 DEF ClearInvalid
<1>3. CASE WriteSeed
  BY <1>3 DEF WriteSeed
<1>4. CASE WriteField
  BY <1>4 DEF WriteField
<1>5. CASE WriteParty
  BY <1>5 DEF WriteParty
<1>6. CASE WriteSum
  BY <1>6 DEF WriteSum
<1>7. CASE WriteHeader
  BY <1>7 DEF WriteHeader
<1>8. CASE WriteEmpty
  BY <1>8 DEF WriteEmpty, NextFile
<1>9. CASE TestMemory
  BY <1>9 DEF TestMemory
<1>10. CASE RestoreMemory
  BY <1>10 DEF RestoreMemory
<1>11. CASE NewGame
  BY <1>11 DEF NewGame
<1>12. CASE Play
  BY <1>12 DEF Play
<1>13. CASE OpenMenu
  BY <1>13 DEF OpenMenu
<1>14. CASE LeaveMenu
  BY <1>14 DEF LeaveMenu
<1>15. CASE ChooseEmpty
  BY <1>15 DEF ChooseEmpty
<1>16. CASE ChooseOccupied
  BY <1>16 DEF ChooseOccupied
<1>17. CASE EndPreview
  BY <1>17 DEF EndPreview
<1>18. CASE Confirm
  BY <1>18 DEF Confirm
<1>19. CASE Cancel
  BY <1>19 DEF Cancel
<1>20. CASE LoadChosen
  BY <1>20 DEF LoadChosen, LoadGameFile
<1>21. CASE LoadDirect
  BY <1>21 DEF LoadDirect, LoadGameFile
<1>22. CASE SaveDirect
  BY <1>22 DEF SaveDirect
<1>23. CASE CaptureField
  BY <1>23 DEF CaptureField
<1>24. CASE PackParty
  BY <1>24 DEF PackParty
<1>25. CASE BeginErase
  BY <1>25 DEF BeginErase
<1>26. CASE EraseHead
  BY <1>26 DEF EraseHead
<1>27. CASE EraseSum
  BY <1>27 DEF EraseSum
<1>28. CASE EraseData
  BY <1>28 DEF EraseData
<1>29. CASE Crash
  BY <1>29 DEF Crash
<1> QED
  BY <1>1, <1>2, <1>3, <1>4, <1>5, <1>6, <1>7, <1>8, <1>9, <1>10, <1>11,
     <1>12, <1>13, <1>14, <1>15, <1>16, <1>17, <1>18, <1>19, <1>20,
     <1>21, <1>22, <1>23, <1>24, <1>25, <1>26, <1>27, <1>28, <1>29 DEF Next,
          Work

(* The file being written follows the work buffer. *)
LEMMA WriteStep ==
    ASSUME IInv, Next
    PROVE  WriteInv'
<1> USE DEF IInv, WriteInv, TaskInv, Matches, Stored, Encrypted, Clearing,
     Occupied, TypeOK, Goes, KeepPlace, KeepGame, KeepHistory, history,
     WritePlaces, MenuPlaces, ErasePlaces
<1>1. CASE FileIsValid
  BY <1>1, FileFacts DEF FileIsValid, NextFile
<1>2. CASE ClearInvalid
  BY <1>2 DEF ClearInvalid
<1>3. CASE WriteSeed
  BY <1>3 DEF WriteSeed
<1>4. CASE WriteField
  BY <1>4 DEF WriteField
<1>5. CASE WriteParty
  BY <1>5 DEF WriteParty
<1>6. CASE WriteSum
  BY <1>6 DEF WriteSum
<1>7. CASE WriteHeader
  BY <1>7 DEF WriteHeader
<1>8. CASE WriteEmpty
  BY <1>8, FileFacts DEF WriteEmpty, NextFile
<1>9. CASE TestMemory
  BY <1>9, FileFacts DEF TestMemory, FileData
<1>10. CASE RestoreMemory
  BY <1>10 DEF RestoreMemory
<1>11. CASE NewGame
  BY <1>11 DEF NewGame
<1>12. CASE Play
  BY <1>12 DEF Play
<1>13. CASE OpenMenu
  BY <1>13 DEF OpenMenu
<1>14. CASE LeaveMenu
  BY <1>14 DEF LeaveMenu
<1>15. CASE ChooseEmpty
  BY <1>15 DEF ChooseEmpty
<1>16. CASE ChooseOccupied
  BY <1>16 DEF ChooseOccupied
<1>17. CASE EndPreview
  BY <1>17 DEF EndPreview
<1>18. CASE Confirm
  BY <1>18 DEF Confirm
<1>19. CASE Cancel
  BY <1>19 DEF Cancel
<1>20. CASE LoadChosen
  BY <1>20 DEF LoadChosen, LoadGameFile
<1>21. CASE LoadDirect
  BY <1>21 DEF LoadDirect, LoadGameFile
<1>22. CASE SaveDirect
  BY <1>22 DEF SaveDirect
<1>23. CASE CaptureField
  BY <1>23 DEF CaptureField
<1>24. CASE PackParty
  BY <1>24 DEF PackParty
<1>25. CASE BeginErase
  BY <1>25 DEF BeginErase
<1>26. CASE EraseHead
  BY <1>26 DEF EraseHead
<1>27. CASE EraseSum
  BY <1>27 DEF EraseSum
<1>28. CASE EraseData
  BY <1>28, FileFacts DEF EraseData, ZeroCell
<1>29. CASE Crash
  BY <1>29 DEF Crash
<1> QED
  BY <1>1, <1>2, <1>3, <1>4, <1>5, <1>6, <1>7, <1>8, <1>9, <1>10, <1>11,
     <1>12, <1>13, <1>14, <1>15, <1>16, <1>17, <1>18, <1>19, <1>20,
     <1>21, <1>22, <1>23, <1>24, <1>25, <1>26, <1>27, <1>28, <1>29 DEF Next,
          Work

(* No step takes a completed save away. *)
LEMMA KeptStep ==
    ASSUME IInv, Next
    PROVE  KeptInv'
<1> USE DEF IInv, TaskInv, KeptInv, WriteInv, Clearing, Matches, Stored,
     Encrypted, Occupied, ReadGameFile, Decrypted, TypeOK, Goes, KeepPlace,
     KeepGame, KeepHistory, history, WritePlaces, MenuPlaces, ErasePlaces
<1>1. CASE FileIsValid
  BY <1>1, FileFacts DEF FileIsValid, NextFile
<1>2. CASE ClearInvalid
  BY <1>2 DEF ClearInvalid
<1>3. CASE WriteSeed
  BY <1>3 DEF WriteSeed
<1>4. CASE WriteField
  BY <1>4 DEF WriteField
<1>5. CASE WriteParty
  BY <1>5 DEF WriteParty
<1>6. CASE WriteSum
  <2>1. ASSUME NEW f \in File, kept'[f] # None
        PROVE  /\ Occupied(f)' /\ Matches(f)'
               /\ ReadGameFile(f)' = kept'[f] /\ kept'[f].party \in Party
    <3>1. CASE f # file
      BY <1>6, <2>1, <3>1 DEF WriteSum
    <3>2. CASE f = file
      <4>1. ~Clearing /\ kept'[file] = buffer /\ sram'[file].empty = FALSE
        BY <1>6, <2>1, <3>2 DEF WriteSum
      <4>2. buffer = played /\ buffer.party \in Party
        BY <1>6, <4>1 DEF WriteSum, PlayInv, PartyInv
      <4>3. sram[file].seed # None
        BY <1>6, SaveFileAssumption DEF WriteSum
      <4>4. ReadGameFile(file)' = [field |-> buffer.field, party |->
           buffer.party]
        BY <1>6, <4>3 DEF WriteSum
      <4>5. Matches(file)'
        BY <1>6 DEF WriteSum
      <4>6. buffer = [field |-> buffer.field, party |-> buffer.party]
        BY DEF Image
      <4> QED
        BY <1>6, <3>2, <4>1, <4>2, <4>4, <4>5, <4>6 DEF WriteSum
    <3> QED
      BY <3>1, <3>2
  <2> QED
    BY <1>6, <2>1 DEF WriteSum
<1>7. CASE WriteHeader
  <2>1. ASSUME NEW f \in File, kept'[f] # None
        PROVE  /\ Occupied(f)' /\ Matches(f)'
               /\ ReadGameFile(f)' = kept'[f] /\ kept'[f].party \in Party
    <3>1. CASE f # file
      BY <1>7, <2>1, <3>1 DEF WriteHeader
    <3>2. CASE f = file
      <4>1. ~Clearing /\ kept'[file] = buffer /\ sram'[file].empty = FALSE
        BY <1>7, <2>1, <3>2 DEF WriteHeader
      <4>2. buffer = played /\ buffer.party \in Party
        BY <1>7, <4>1 DEF WriteHeader, PlayInv, PartyInv
      <4>3. sram[file].seed # None
        BY <1>7, SaveFileAssumption DEF WriteHeader
      <4>4. ReadGameFile(file)' = [field |-> buffer.field, party |->
           buffer.party]
        BY <1>7, <4>3 DEF WriteHeader
      <4>5. Matches(file)'
        BY <1>7 DEF WriteHeader
      <4>6. buffer = [field |-> buffer.field, party |-> buffer.party]
        BY DEF Image
      <4> QED
        BY <1>7, <3>2, <4>1, <4>2, <4>4, <4>5, <4>6 DEF WriteHeader
    <3> QED
      BY <3>1, <3>2
  <2> QED
    BY <1>7, <2>1 DEF WriteHeader
<1>8. CASE WriteEmpty
  BY <1>8, FileFacts DEF WriteEmpty, NextFile
<1>9. CASE TestMemory
  <2>1. sram[0].empty => kept[0] = None
    BY FileFacts
  <2>2. \A f \in File : kept[f] # None => sram'[f] = sram[f]
    BY <1>9, <2>1, FileFacts DEF TestMemory, FileData
  <2> QED
    BY <1>9, <2>1, <2>2 DEF TestMemory
<1>10. CASE RestoreMemory
  BY <1>10 DEF RestoreMemory
<1>11. CASE NewGame
  BY <1>11 DEF NewGame
<1>12. CASE Play
  BY <1>12 DEF Play
<1>13. CASE OpenMenu
  BY <1>13 DEF OpenMenu
<1>14. CASE LeaveMenu
  BY <1>14 DEF LeaveMenu
<1>15. CASE ChooseEmpty
  BY <1>15 DEF ChooseEmpty
<1>16. CASE ChooseOccupied
  BY <1>16 DEF ChooseOccupied
<1>17. CASE EndPreview
  BY <1>17 DEF EndPreview
<1>18. CASE Confirm
  BY <1>18 DEF Confirm
<1>19. CASE Cancel
  BY <1>19 DEF Cancel
<1>20. CASE LoadChosen
  BY <1>20 DEF LoadChosen, LoadGameFile
<1>21. CASE LoadDirect
  BY <1>21 DEF LoadDirect, LoadGameFile
<1>22. CASE SaveDirect
  BY <1>22 DEF SaveDirect
<1>23. CASE CaptureField
  BY <1>23 DEF CaptureField
<1>24. CASE PackParty
  BY <1>24 DEF PackParty
<1>25. CASE BeginErase
  BY <1>25 DEF BeginErase
<1>26. CASE EraseHead
  BY <1>26 DEF EraseHead
<1>27. CASE EraseSum
  BY <1>27 DEF EraseSum
<1>28. CASE EraseData
  BY <1>28, FileFacts DEF EraseData
<1>29. CASE Crash
  BY <1>29 DEF Crash
<1> QED
  BY <1>1, <1>2, <1>3, <1>4, <1>5, <1>6, <1>7, <1>8, <1>9, <1>10, <1>11,
     <1>12, <1>13, <1>14, <1>15, <1>16, <1>17, <1>18, <1>19, <1>20,
     <1>21, <1>22, <1>23, <1>24, <1>25, <1>26, <1>27, <1>28, <1>29 DEF Next,
          Work

(* The validation leaves every file with the checksum of its data. *)
LEMMA MatchStep ==
    ASSUME IInv, Next
    PROVE  MatchInv'
<1> USE DEF IInv, MatchInv, WriteInv, TaskInv, Matches, Stored, Encrypted,
     Clearing, Settled, TypeOK, Goes, KeepPlace, KeepGame, KeepHistory,
     history, WritePlaces, MenuPlaces, ErasePlaces
<1>1. CASE FileIsValid
  BY <1>1, FileFacts, SaveFileAssumption DEF FileIsValid, NextFile, File
<1>2. CASE ClearInvalid
  BY <1>2 DEF ClearInvalid
<1>3. CASE WriteSeed
  BY <1>3 DEF WriteSeed
<1>4. CASE WriteField
  <2>1. \A f \in File \ {file} : sram'[f] = sram[f]
    BY <1>4 DEF WriteField
  <2> QED
    BY <1>4, <2>1 DEF WriteField, File
<1>5. CASE WriteParty
  <2>1. \A f \in File \ {file} : sram'[f] = sram[f]
    BY <1>5 DEF WriteParty
  <2> QED
    BY <1>5, <2>1 DEF WriteParty, File
<1>6. CASE WriteSum
  BY <1>6 DEF WriteSum
<1>7. CASE WriteHeader
  BY <1>7 DEF WriteHeader
<1>8. CASE WriteEmpty
  BY <1>8, FileFacts, SaveFileAssumption DEF WriteEmpty, NextFile, File
<1>9. CASE TestMemory
  BY <1>9 DEF TestMemory
<1>10. CASE RestoreMemory
  BY <1>10 DEF RestoreMemory
<1>11. CASE NewGame
  BY <1>11 DEF NewGame
<1>12. CASE Play
  BY <1>12 DEF Play
<1>13. CASE OpenMenu
  BY <1>13 DEF OpenMenu
<1>14. CASE LeaveMenu
  BY <1>14 DEF LeaveMenu
<1>15. CASE ChooseEmpty
  BY <1>15 DEF ChooseEmpty
<1>16. CASE ChooseOccupied
  BY <1>16 DEF ChooseOccupied
<1>17. CASE EndPreview
  BY <1>17 DEF EndPreview
<1>18. CASE Confirm
  BY <1>18 DEF Confirm
<1>19. CASE Cancel
  BY <1>19 DEF Cancel
<1>20. CASE LoadChosen
  BY <1>20 DEF LoadChosen, LoadGameFile
<1>21. CASE LoadDirect
  BY <1>21 DEF LoadDirect, LoadGameFile
<1>22. CASE SaveDirect
  BY <1>22 DEF SaveDirect
<1>23. CASE CaptureField
  BY <1>23 DEF CaptureField
<1>24. CASE PackParty
  BY <1>24 DEF PackParty
<1>25. CASE BeginErase
  BY <1>25 DEF BeginErase
<1>26. CASE EraseHead
  BY <1>26 DEF EraseHead
<1>27. CASE EraseSum
  BY <1>27 DEF EraseSum
<1>28. CASE EraseData
  BY <1>28, FileFacts, SaveFileAssumption DEF EraseData, File
<1>29. CASE Crash
  BY <1>29, FileFacts, SaveFileAssumption DEF Crash, File
<1> QED
  BY <1>1, <1>2, <1>3, <1>4, <1>5, <1>6, <1>7, <1>8, <1>9, <1>10, <1>11,
     <1>12, <1>13, <1>14, <1>15, <1>16, <1>17, <1>18, <1>19, <1>20,
     <1>21, <1>22, <1>23, <1>24, <1>25, <1>26, <1>27, <1>28, <1>29 DEF Next,
          Work

(* The checksum of an occupied file stands for a game some save packed. *)
LEMMA SumStep ==
    ASSUME IInv, Next
    PROVE  SumInv'
<1> USE DEF IInv, SumInv, SumOf, SumHit, SumPlain, Hit, SeedWindow,
     ClearWindow, EraseWindow, TestWindow,
      Clearing, Matches, Stored, Occupied, TaskInv, WriteInv, TypeOK, Goes,
           KeepPlace, KeepGame, KeepHistory, history, WritePlaces, MenuPlaces,
           ErasePlaces
<1>1. CASE FileIsValid
  BY <1>1 DEF FileIsValid, NextFile
<1>2. CASE ClearInvalid
  BY <1>2 DEF ClearInvalid
<1>3. CASE WriteSeed
  BY <1>3 DEF WriteSeed
<1>4. CASE WriteField
  <2>1. Hit' = {} /\ SumHit' = {} /\ SumHit = {} /\ Hit \subseteq {file}
    BY <1>4 DEF WriteField
  <2>2. ASSUME NEW f \in File \ {file} PROVE SumOf(f)'
    <3>1. sram'[f] = sram[f]
      BY <1>4 DEF WriteField
    <3> HIDE DEF Hit, SumHit
    <3> QED
      BY <1>4, <2>1, <3>1 DEF WriteField
  <2>3. ASSUME NEW f \in File, f = file PROVE SumOf(f)'
    <3>1. /\ sram'[f].field.seed = sram'[f].seed
          /\ sram'[f].sum = sram[f].sum /\ sram'[f].empty = sram[f].empty
      BY <1>4, <2>3 DEF WriteField, Encrypted, FileData
    <3>2. SumOf(f)
      OBVIOUS
    <3>3. exposed' = exposed /\ packed' = packed
      BY <1>4 DEF WriteField
    <3> HIDE DEF Hit, SumHit, IInv, TypeOK, WriteInv, TaskInv, SumInv, Matches
    <3> QED
      BY <2>1, <3>1, <3>2, <3>3
  <2> QED
    BY <2>2, <2>3
<1>5. CASE WriteParty
  <2>1. Hit' = {} /\ SumHit' = {} /\ SumHit = {} /\ Hit \subseteq {file}
    BY <1>5 DEF WriteParty
  <2>2. ASSUME NEW f \in File \ {file} PROVE SumOf(f)'
    <3>1. sram'[f] = sram[f]
      BY <1>5 DEF WriteParty
    <3> HIDE DEF Hit, SumHit
    <3> QED
      BY <1>5, <2>1, <3>1 DEF WriteParty
  <2>3. ASSUME NEW f \in File, f = file PROVE SumOf(f)'
    <3>1. /\ sram'[f].field.seed = sram'[f].seed
          /\ sram'[f].sum = sram[f].sum /\ sram'[f].empty = sram[f].empty
      BY <1>5, <2>3 DEF WriteParty, Encrypted, FileData
    <3>2. SumOf(f)
      OBVIOUS
    <3>3. exposed' = exposed /\ packed' = packed
      BY <1>5 DEF WriteParty
    <3> HIDE DEF Hit, SumHit, IInv, TypeOK, WriteInv, TaskInv, SumInv, Matches
    <3> QED
      BY <2>1, <3>1, <3>2, <3>3
  <2> QED
    BY <2>2, <2>3
<1>6. CASE WriteSum
  <2>1. ~Clearing => buffer \in packed
    BY <1>6 DEF WriteSum, PlayInv
  <2>2. buffer = [field |-> buffer.field, party |-> buffer.party]
    BY DEF Image
  <2> QED
    BY <1>6, <2>1, <2>2 DEF WriteSum, Encrypted
<1>7. CASE WriteHeader
  <2>1. ~Clearing => buffer \in packed
    BY <1>7 DEF WriteHeader, PlayInv
  <2>2. buffer = [field |-> buffer.field, party |-> buffer.party]
    BY DEF Image
  <2> QED
    BY <1>7, <2>1, <2>2 DEF WriteHeader, Encrypted
<1>8. CASE WriteEmpty
  BY <1>8 DEF WriteEmpty, NextFile
<1>9. CASE TestMemory
  <2>1. /\ Hit = {} /\ SumHit = {} /\ SumHit' = Hit'
        /\ Occupied(0) \/ 0 \in Hit'
    BY <1>9, FileFacts DEF TestMemory
  <2> SUFFICES ASSUME NEW f \in File PROVE SumOf(f)'
    OBVIOUS
  <2>2. /\ sram'[f].sum = sram[f].sum /\ sram'[f].seed = sram[f].seed
        /\ sram'[f].field = sram[f].field /\ sram'[f].party = sram[f].party
    BY <1>9, FileFacts DEF TestMemory, FileData
  <2>3. f \notin Hit' /\ Occupied(f)' => Occupied(f)
    BY <1>9, <2>1, FileFacts DEF TestMemory
  <2> HIDE DEF Hit, SumHit, Occupied
  <2> QED
    BY <1>9, <2>1, <2>2, <2>3 DEF TestMemory
<1>10. CASE RestoreMemory
  <2>1. /\ Hit' = {} /\ SumHit' = {} /\ SumHit = Hit
        /\ Occupied(0)' => 0 \notin Hit
    BY <1>10, FileFacts DEF RestoreMemory, FileData
  <2> SUFFICES ASSUME NEW f \in File PROVE SumOf(f)'
    OBVIOUS
  <2>2. /\ sram'[f].sum = sram[f].sum /\ sram'[f].seed = sram[f].seed
        /\ sram'[f].field = sram[f].field /\ sram'[f].party = sram[f].party
    BY <1>10, FileFacts DEF RestoreMemory, FileData
  <2>3. Occupied(f)' => Occupied(f) /\ f \notin Hit
    BY <1>10, FileFacts DEF RestoreMemory, FileData
  <2> HIDE DEF Hit, SumHit, Occupied
  <2> QED
    BY <1>10, <2>1, <2>2, <2>3 DEF RestoreMemory
<1>11. CASE NewGame
  BY <1>11 DEF NewGame
<1>12. CASE Play
  BY <1>12 DEF Play
<1>13. CASE OpenMenu
  BY <1>13 DEF OpenMenu
<1>14. CASE LeaveMenu
  BY <1>14 DEF LeaveMenu
<1>15. CASE ChooseEmpty
  BY <1>15 DEF ChooseEmpty
<1>16. CASE ChooseOccupied
  BY <1>16 DEF ChooseOccupied
<1>17. CASE EndPreview
  BY <1>17 DEF EndPreview
<1>18. CASE Confirm
  BY <1>18 DEF Confirm
<1>19. CASE Cancel
  BY <1>19 DEF Cancel
<1>20. CASE LoadChosen
  BY <1>20 DEF LoadChosen, LoadGameFile
<1>21. CASE LoadDirect
  BY <1>21 DEF LoadDirect, LoadGameFile
<1>22. CASE SaveDirect
  BY <1>22 DEF SaveDirect
<1>23. CASE CaptureField
  BY <1>23 DEF CaptureField
<1>24. CASE PackParty
  BY <1>24 DEF PackParty
<1>25. CASE BeginErase
  BY <1>25 DEF BeginErase
<1>26. CASE EraseHead
  BY <1>26 DEF EraseHead
<1>27. CASE EraseSum
  <2>1. Stored(file)' # None
    BY <1>27, StoredType, SaveFileAssumption DEF EraseSum
  <2> QED
    BY <1>27, <2>1 DEF EraseSum
<1>28. CASE EraseData
  <2>1. /\ sram'[file].field = ZeroCell /\ sram'[file].party = ZeroCell
        /\ sram'[file].sum = None
    BY <1>28 DEF EraseData, FileData
  <2>2. [field |-> ZeroCell, party |-> ZeroCell] # None
    BY ValueFacts, SaveFileAssumption DEF Data
  <2> QED
    BY <1>28, <2>1, <2>2 DEF EraseData
<1>29. CASE Crash
  BY <1>29 DEF Crash
<1> QED
  BY <1>1, <1>2, <1>3, <1>4, <1>5, <1>6, <1>7, <1>8, <1>9, <1>10, <1>11,
     <1>12, <1>13, <1>14, <1>15, <1>16, <1>17, <1>18, <1>19, <1>20,
     <1>21, <1>22, <1>23, <1>24, <1>25, <1>26, <1>27, <1>28, <1>29 DEF Next,
          Work

-----------------------------------------------------------------------------
(* The battery RAM of a new machine satisfies the invariant. *)
LEMMA InitStep == Init => IInv
<1> SUFFICES ASSUME Init PROVE IInv
  OBVIOUS
<1> USE FileFacts, ValueFacts, PartyFacts, SaveFileAssumption DEF Init
<1>1. TypeOK
  <2>1. ZeroFile \in FileData
    BY DEF ZeroFile, FileData
  <2> QED
    BY <2>1 DEF TypeOK, WritePlaces, MenuPlaces, ErasePlaces
<1>2. TaskInv /\ PartyInv /\ PlayInv
  BY DEF TaskInv, PartyInv, PlayInv, WritePlaces, ErasePlaces
<1>3. WriteInv /\ KeptInv
  BY DEF WriteInv, KeptInv, WritePlaces
<1>4. MatchInv
  BY DEF MatchInv, Settled, MenuPlaces, WritePlaces, File
<1>5. SumInv
  <2>1. \A f \in File : Stored(f) # None /\ sram[f].sum = None
    BY <1>1, StoredType DEF ZeroFile
  <2> QED
    BY <2>1 DEF SumInv, SumOf, Matches
<1> QED
  BY <1>1, <1>2, <1>3, <1>4, <1>5 DEF IInv

(* Every step keeps the invariant. *)
LEMMA NextStep == IInv /\ [Next]_vars => IInv'
<1>1. ASSUME IInv, Next PROVE IInv'
  <2>1. TypeOK'
    BY <1>1, TypeStep DEF IInv
  <2> QED
    BY <1>1, <2>1, TaskStep, PartyStep, PlayStep, WriteStep, KeptStep,
         MatchStep,
       SumStep DEF IInv
<1>2. ASSUME IInv, UNCHANGED vars PROVE IInv'
  BY <1>2 DEF vars, history, IInv, TypeOK, TaskInv, PartyInv, PlayInv,
       WriteInv, KeptInv,
     MatchInv, SumInv, SumOf, SumHit, SumPlain, Hit, SeedWindow, ClearWindow,
          EraseWindow,
     TestWindow, Clearing, Settled, Matches, Stored, Occupied, ReadGameFile,
          Decrypted,
     Encrypted
<1> QED
  BY <1>1, <1>2

(* The inductive invariant holds whatever the files held, however the      *)
(* player and the crashes interleave with WriteGameFile.                   *)
THEOREM Inductive == Spec => []IInv
<1> QED
  BY InitStep, NextStep, PTL DEF Spec

(* Every variable keeps its type. *)
THEOREM TypeCorrect == Spec => []TypeOK
<1>1. IInv => TypeOK
  BY DEF IInv
<1> QED
  BY <1>1, Inductive, PTL

(* A save that was completed stays readable until the player saves to that *)
(* file again or erases it.                                                *)
THEOREM CompletedSavesAreKept == Spec => []SavesKept
<1>1. IInv => SavesKept
  BY DEF IInv, KeptInv, SavesKept
<1> QED
  BY <1>1, Inductive, PTL

(* Outside the four windows a crash leaves no occupied file that is not    *)
(* one whole game: the checksum taken last covers the torn ones.           *)
THEOREM OccupiedFilesAreWhole == Spec => []OccupiedIsWhole
<1>1. IInv => OccupiedIsWhole
  <2> SUFFICES ASSUME IInv, Settled, NEW f \in File \ exposed, Occupied(f)
               PROVE  ReadGameFile(f) \in packed
    BY DEF OccupiedIsWhole
  <2>1. Hit = {} /\ SumHit = {}
    BY DEF Settled, MenuPlaces, Hit, SumHit, SeedWindow, ClearWindow,
         EraseWindow, TestWindow
  <2>2. Matches(f)
    BY DEF IInv, MatchInv
  <2>3. sram[f].sum = Stored(f) /\ sram[f].sum # None
    BY <2>2, StoredType, SaveFileAssumption DEF Matches, IInv
  <2>4. SumOf(f)
    BY DEF IInv, SumInv
  <2>5. SumPlain(f) \in packed /\ sram[f].field.seed = sram[f].seed
    BY <2>1, <2>2, <2>3, <2>4 DEF SumOf
  <2>6. sram[f].party.seed = sram[f].seed /\ sram[f].seed # None
    BY <2>3, <2>4, <2>5, SaveFileAssumption DEF SumOf, Stored
  <2>7. ReadGameFile(f) = SumPlain(f)
    BY <2>3, <2>5, <2>6 DEF ReadGameFile, Decrypted, SumPlain, Stored
  <2> QED
    BY <2>5, <2>7
<1> QED
  BY <1>1, Inductive, PTL

(* The game never runs with a blank or a garbage party, whichever window a *)
(* crash hit.                                                              *)
THEOREM PartyStaysSound == Spec => []PartySound
<1>1. IInv => PartySound
  BY DEF IInv, PartyInv, PartySound
<1> QED
  BY <1>1, Inductive, PTL

(* A save writes the game as it was played, not the previewed file. *)
THEOREM SavesWhatWasPlayed == Spec => []SavesPlayed
<1>1. IInv => SavesPlayed
  BY DEF IInv, PlayInv, SavesPlayed, WritePlaces
<1> QED
  BY <1>1, Inductive, PTL

(* Loading a file from the menu gives back its last completed save. *)
THEOREM LoadsWhatWasKept == Spec => LoadsKept
<1>1. ASSUME IInv, LoadChosen, kept[file] # None PROVE live' = kept[file]
  <2>1. /\ Occupied(file) /\ ReadGameFile(file) = kept[file]
        /\ kept[file].party \in Party /\ kept[file] \in Image
    BY <1>1, ReadType DEF IInv, KeptInv, TypeOK
  <2>2. RestoredParty(kept[file]) = kept[file].party
    BY <2>1, SaveFileAssumption DEF RestoredParty, RecordValid, Party
  <2>3. kept[file] = [field |-> kept[file].field, party |-> kept[file].party]
    BY <2>1 DEF Image
  <2> QED
    BY <1>1, <2>1, <2>2, <2>3 DEF LoadChosen, LoadGameFile
<1>2. IInv => [LoadChosen /\ kept[file] # None => live' = kept[file]]_vars
  BY <1>1
<1> QED
  BY <1>2, Inductive, PTL DEF LoadsKept
=============================================================================
