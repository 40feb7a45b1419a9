---------------------------- MODULE MCSoundLink ----------------------------
(***************************************************************************)
(* Instances of SoundLink for TLC: bytes of 32 values (Bit7 = 16), a Rom   *)
(* with four samples, and the  requests of each run.                       *)
(***************************************************************************)
EXTENDS SoundLinkInvariant

(* Samples of 3, 4 and 2 * Bit7 + 2 bytes: odd, even, and one past the     *)
(* wrap of the block counter.                                              *)
Header(length) == <<length % ByteSize, length \div ByteSize, 1, 0, 5, 6, 7, 9>>
Long == ByteSize + 2
Blob == Header(3) \o <<1, 2, 3, 4>> \o Header(4) \o <<5, 6, 7, 8>>
        \o Header(Long) \o [k \in 1 .. Long |-> (k * 5) % ByteSize]
        \o Header(MemorySize \div 2)
MCRom == [k \in 0 .. Len(Blob) - 1 |-> Blob[k + 1]]

Plain(c, low, high) == [command |-> c, low |-> low, high |-> high,
                        source |-> 0, length |-> 0]
Sending(c, low, high, from, length) ==
    [command |-> c, low |-> low, high |-> high, source |-> from, length |-> length]

(* One command of every kind the protocol tells apart. *)
KindRequests ==
    {Plain(PlayEffect, 3, 0), Plain(5, 0, 0), Plain(MusicTrackVolume, 2, 1),
     Plain(EffectTrackVolume, 4, 1), Plain(ReadSampleEnd, 0, 0),
     Plain(SetSampleEnd, 8, 1), Plain(ReadStatus, 0, 0), Plain(ReadProgress, 0, 0),
     Plain(SetUploadCursor, 30, 2),
     Sending(Upload, 31, 1, 8, 3), Sending(UploadSample, 0, 0, 12, 0),
     Sending(DefineSample, 0, 0, 0, 0), Sending(UploadAtCursor, 0, 0, 20, 0)}

(* A volume that changes and changes back, with other calls between. *)
VolumeRequests ==
    {Plain(MusicTrackVolume, 2, 1), Plain(MusicTrackVolume, 3, 0),
     Plain(5, 0, 0)}

(* Long blocks, across the wrap of the counter, the end of memory and the  *)
(* last instrument slot.                                                   *)
LongRequests ==
    {Sending(Upload, ByteSize - 12, ByteSize - 1, 32, Long),
     Sending(UploadSample, 0, 0, 24, 0), Sending(UploadSample, 0, 0, 12, 0),
     Sending(DefineSample, 0, 0, 32 + Long, 0),
     Plain(SetSampleEnd, ByteSize - 4, ByteSize - 1),
     Plain(SetInstrumentSlot, ByteSize \div 4 - 1, 0), Plain(ReadSampleEnd, 0, 0)}

MCSlack == {0, 6}
=============================================================================
