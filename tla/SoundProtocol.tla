--------------------------- MODULE SoundProtocol ---------------------------
(***************************************************************************)
(* What the two processors agree on before they exchange anything: the     *)
(* protocol codes on the four sound ports, the arithmetic of one byte, and *)
(* for each command the handshakes that the game side (src/system/sound_*  *)
(* and music.c) waits for and the steps that the SPC-700 driver            *)
(* (src/spc/spc_driver.c) queues.  The two tables are translated           *)
(* independently, each from its own side of the link.                      *)
(***************************************************************************)
EXTENDS Naturals, Sequences

(* The weight of a byte's top bit: 128 in the code, smaller in small       *)
(* instances, where data bytes and block counters scale down with it while *)
(* the protocol codes keep their values.                                   *)
CONSTANT Bit7

ASSUME Bit7Assumption == Bit7 \in Nat /\ 8 < Bit7 /\ Bit7 <= 128 /\ Bit7 % 2 = 0

ByteSize == 2 * Bit7
Byte == 0 .. ByteSize - 1
MemorySize == ByteSize * ByteSize
Address == 0 .. MemorySize - 1
Word(low, high) == (low + ByteSize * high) % MemorySize

(* counter & 0x7F, counter | 0x80 and counter + 2 of an 8-bit counter. *)
WithoutBit7(b) == IF b < Bit7 THEN b ELSE b - Bit7
WithBit7(b) == IF b < Bit7 THEN b + Bit7 ELSE b
MutantNextPair(b) == b + 2   \* a counter wider than 8 bits
NextPair(b) == IF b + 2 = ByteSize THEN 0 ELSE b + 2

AckLow == 205           \* $CD
AckHigh == 239          \* $EF
EndMark == 255          \* $FF
SignatureLow == 171     \* $AB
SignatureHigh == 205    \* $CD
StartupReplyLow == 103  \* $67
StartupReplyHigh == 137 \* $89
HeaderBytes == 8
PortValue == 0 .. 255

Upload == 1              PlaySong == 2            PlayEffect == 4
FadeInSong == 7          ReadProgress == 8        ReadStatus == 15
SetSampleEnd == 17       ReadSampleEnd == 18      SetInstrumentSlot == 19
UploadSample == 20       SetUploadCursor == 22    UploadAtCursor == 23
ReadOutputOptions == 24  StopEffect == 25         MusicTrackVolume == 26
DefineSample == 29       ReadKeyedVoices == 30    PokeAtCursor == 28
EffectTrackVolume == 27  CommandLimit == 34

(* The start-up handshake, in the place of a command. *)
Startup == 0

(* The commands that the game sends: $0E and $1C are known to the driver   *)
(* and never sent.                                                         *)
GameCommand == (1 .. CommandLimit - 1) \ {14, PokeAtCursor}

OneArgument == {4, 9, 10, 11, 12, 13, 16, SetInstrumentSlot, StopEffect, 31, 32, 33}
TwoArguments == {Upload, SetSampleEnd, SetUploadCursor, MusicTrackVolume,
                 EffectTrackVolume}
ReadCommand == {ReadProgress, ReadStatus, ReadSampleEnd, ReadOutputOptions,
                ReadKeyedVoices}

(* The phases of a call on the game side, in order. *)
CpuPhases(c) ==
    CASE c = MusicTrackVolume -> << >>
      [] c \in ReadCommand -> <<"ack", "read">>
      [] c \in {Upload, UploadAtCursor} -> <<"ack", "block", "ack">>
      [] c = DefineSample -> <<"ack", "header", "ack">>
      [] c = UploadSample -> <<"ack", "header", "ack", "block", "ack">>
      [] OTHER -> <<"ack">>

(* The commands whose action is queued behind the acknowledgement. *)
Deferred == {PlaySong, PlayEffect, FadeInSong, StopEffect}

(* The steps that RunCommand queues, in order. *)
SpcSteps(c) ==
    CASE c \in Deferred -> <<"ack", "act">>
      [] c = UploadSample -> <<"ack", "header", "ack", "block", "ack">>
      [] c \in {Upload, UploadAtCursor} -> <<"ack", "block", "ack">>
      [] c = DefineSample -> <<"ack", "header", "ack">>
      [] OTHER -> <<"ack">>
=============================================================================
