----------------------------- MODULE MCSaveFile -----------------------------
(***************************************************************************)
(* SaveFile for TLC.  MaxTurns bounds the menus opened, direct loads and   *)
(* saves, erasures and crashes; games and seeds are interchangeable.       *)
(***************************************************************************)
EXTENDS SaveFileInvariant, TLC

CONSTANT MaxTurns
VARIABLE turns

Interchangeable == Permutations(Game) \cup Permutations(Seed)

Turn == OpenMenu \/ LoadDirect \/ SaveDirect \/ BeginErase \/ Crash
Rest ==
    \/ FileIsValid \/ ClearInvalid
    \/ WriteSeed \/ WriteField \/ WriteParty \/ WriteSum \/ WriteHeader \/ WriteEmpty
    \/ TestMemory \/ RestoreMemory
    \/ NewGame \/ Play \/ LeaveMenu \/ ChooseEmpty \/ ChooseOccupied
    \/ EndPreview \/ Confirm \/ Cancel \/ LoadChosen
    \/ CaptureField \/ PackParty \/ EraseHead \/ EraseSum \/ EraseData

BoundedInit == Init /\ turns = 0
BoundedNext ==
    \/ Turn /\ turns < MaxTurns /\ turns' = turns + 1
    \/ Rest /\ UNCHANGED turns
BoundedSpec == BoundedInit /\ [][BoundedNext]_<<vars, turns>>
=============================================================================
