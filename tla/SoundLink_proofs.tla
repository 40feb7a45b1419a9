-------------------------- MODULE SoundLink_proofs --------------------------
(***************************************************************************)
(* Theorems of SoundLink.  IInv, how the two sides stand to each other, is *)
(* inductive; so is LinkInv, which adds the queued action and the bytes of *)
(* a transfer.  The safety properties follow from the first, the delivery  *)
(* of a call and the steps of the call service from the second.            *)
(***************************************************************************)
EXTENDS SoundLinkInvariant, SequenceTheorems, TLAPS

-----------------------------------------------------------------------------
(* Arithmetic of bytes and words. *)

(* The widths of bytes and addresses, and the room Bit7 leaves for a header. *)
LEMMA ByteFacts ==
    /\ Bit7 \in Nat /\ ByteSize \in Nat /\ ByteSize = 2 * Bit7
    /\ 10 <= Bit7 /\ Bit7 <= 128 /\ Even(Bit7)
    /\ Byte \subseteq PortValue /\ 0 \in Byte
    /\ MemorySize \in Nat /\ MemorySize > 0 /\ 0 \in Address /\ Address \subseteq Nat
<1>1. MemorySize \in Nat /\ MemorySize > 0
  BY Bit7Assumption, SMT DEF MemorySize, ByteSize
<1> QED
  BY <1>1, Bit7Assumption, SMT DEF ByteSize, Byte, PortValue, Address, Even

(* Addresses wrap around at the size of the sound memory. *)
LEMMA AddressOf == \A n \in Nat : n % MemorySize \in Address
<1>1. MemorySize \in Nat /\ MemorySize > 0
  BY ByteFacts
<1> QED
  BY <1>1, SMT DEF Address

(* Counters wrap around at the size of a byte. *)
LEMMA ByteOf == \A n \in Nat : n % ByteSize \in Byte
  BY ByteFacts, SMT DEF Byte

(* Two port values make an address. *)
LEMMA WordOf == \A low, high \in PortValue : Word(low, high) \in Address
<1> SUFFICES ASSUME NEW low \in PortValue, NEW high \in PortValue
             PROVE  Word(low, high) \in Address
  OBVIOUS
<1>1. low + ByteSize * high \in Nat
  BY ByteFacts, SMT DEF PortValue
<1> QED
  BY <1>1, AddressOf DEF Word

(* The high byte of an address is a byte. *)
LEMMA HighByteOf == \A n \in Address : n \div ByteSize \in Byte
<1> SUFFICES ASSUME NEW n \in Address
             PROVE  n \div ByteSize \in Byte
  OBVIOUS
<1> DEFINE q == n \div ByteSize
<1>1. n \in Nat /\ n < ByteSize * ByteSize
  BY ByteFacts, SMT DEF Address, MemorySize
<1>2. q \in Nat /\ n >= ByteSize * q
  BY <1>1, ByteFacts, SMT
<1>3. q < ByteSize
  <2> HIDE DEF q
  <2> QED BY <1>1, <1>2, ByteFacts, SMT
<1> QED
  BY <1>2, <1>3, ByteFacts, SMT DEF Byte

(* Bit 7 tells a block index from the end of one. *)
LEMMA BitFacts ==
    \A b \in Byte : /\ WithoutBit7(b) \in 0 .. Bit7 - 1
                    /\ WithBit7(b) \in Byte /\ WithBit7(b) >= Bit7
  BY ByteFacts, SMT DEF Byte, WithoutBit7, WithBit7

(* The counter of a block and the reply codes stay even and never repeat   *)
(* from one pair to the next.                                              *)
LEMMA PairFacts ==
    ASSUME NEW b \in Byte, Even(b)
    PROVE  /\ NextPair(b) \in Byte /\ Even(NextPair(b))
           /\ PrevPair(NextPair(b)) = b
           /\ WithoutBit7(NextPair(b)) # WithoutBit7(b)
           /\ PrevPair(b) \in Byte
           /\ WithBit7(PrevPair(b)) # WithBit7(b)
           /\ WithBit7(PrevPair(b)) \notin {AckLow, EndMark}
           /\ WithBit7(b) \notin {AckLow, EndMark}
<1>1. PICK h \in Nat : b = 2 * h /\ h < Bit7
  <2> DEFINE h == b \div 2
  <2>1. b \in Nat /\ b < 2 * Bit7 /\ b % 2 = 0
    BY ByteFacts, SMT DEF Byte, Even
  <2>2. h \in Nat /\ b = 2 * h
    BY <2>1, SMT
  <2>3. h < Bit7
    BY <2>1, <2>2, ByteFacts, SMT
  <2> QED BY <2>2, <2>3
<1>2. PICK g \in Nat : Bit7 = 2 * g
  <2> DEFINE g == Bit7 \div 2
  <2>1. g \in Nat /\ Bit7 = 2 * g
    BY ByteFacts, SMT DEF Even
  <2> QED BY <2>1
<1>3. NextPair(b) = (IF h + 1 = Bit7 THEN 0 ELSE 2 * (h + 1))
  BY <1>1, ByteFacts, SMT DEF NextPair
<1>4. PrevPair(b) = (IF h = 0 THEN 2 * (Bit7 - 1) ELSE 2 * (h - 1))
  BY <1>1, ByteFacts, SMT DEF PrevPair
<1>5. NextPair(b) \in Byte /\ Even(NextPair(b))
  BY <1>1, <1>3, ByteFacts, SMT DEF Byte, Even
<1>6. PrevPair(NextPair(b)) = b
  BY <1>1, <1>3, ByteFacts, SMT DEF PrevPair
<1>7. WithoutBit7(NextPair(b)) # WithoutBit7(b)
  BY <1>1, <1>2, <1>3, ByteFacts, SMT DEF WithoutBit7
<1>8. PrevPair(b) \in Byte /\ WithBit7(PrevPair(b)) # WithBit7(b)
  BY <1>1, <1>2, <1>4, ByteFacts, SMT DEF WithBit7, Byte
<1>9. WithBit7(b) \notin {AckLow, EndMark}
  BY <1>1, <1>2, ByteFacts, SMT DEF WithBit7, AckLow, EndMark
<1>10. WithBit7(PrevPair(b)) \notin {AckLow, EndMark}
  BY <1>1, <1>2, <1>4, ByteFacts, SMT DEF WithBit7, AckLow, EndMark
<1> QED BY <1>5, <1>6, <1>7, <1>8, <1>9, <1>10

-----------------------------------------------------------------------------
(* The two tables. *)

(* The tables, written out. *)
LEMMA PhaseTable ==
    ASSUME NEW c \in LinkCommand
    PROVE  \/ /\ LastAck(c) = 1
              /\ CpuPhases(c) \in {<<"ack">>, <<"ack", "read">>}
              /\ SpcSteps(c) \in {<<"ack">>, <<"ack", "act">>}
           \/ /\ LastAck(c) = 3
              /\ CpuPhases(c) \in {<<"ack", "block", "ack">>, <<"ack", "header", "ack">>}
              /\ SpcSteps(c) = CpuPhases(c)
           \/ /\ LastAck(c) = 5
              /\ CpuPhases(c) = <<"ack", "header", "ack", "block", "ack">>
              /\ SpcSteps(c) = CpuPhases(c)
<1> USE DEF CpuPhases, SpcSteps, LastAck, Upload, UploadAtCursor, DefineSample,
            UploadSample, ReadCommand, Deferred, MusicTrackVolume, ReadProgress,
            ReadStatus, ReadSampleEnd, ReadOutputOptions, ReadKeyedVoices,
            PlaySong, PlayEffect, FadeInSong, StopEffect
<1>1. c # MusicTrackVolume
  BY DEF LinkCommand
<1>2. CASE c = UploadSample
  BY <1>2, SMT
<1>3. CASE c \in {Upload, UploadAtCursor}
  BY <1>3, SMT
<1>4. CASE c = DefineSample
  BY <1>4, SMT
<1>5. CASE c \in ReadCommand
  BY <1>5, SMT
<1>6. CASE c \notin ReadCommand \cup {Upload, UploadAtCursor, DefineSample, UploadSample}
  BY <1>1, <1>6, SMT
<1> QED BY <1>2, <1>3, <1>4, <1>5, <1>6

(* An acknowledgement and a transfer stand at the same place in both.      *)
LEMMA TablesAgree ==
    ASSUME NEW c \in LinkCommand, NEW k \in 1 .. 5
    PROVE  /\ PhaseIs(c, k, "ack") <=> StepIs(c, k, "ack")
           /\ PhaseIs(c, k, "header") <=> StepIs(c, k, "header")
           /\ PhaseIs(c, k, "block") <=> StepIs(c, k, "block")
<1>1. CASE /\ LastAck(c) = 1
           /\ CpuPhases(c) \in {<<"ack">>, <<"ack", "read">>}
           /\ SpcSteps(c) \in {<<"ack">>, <<"ack", "act">>}
  BY <1>1, SMT DEF PhaseIs, StepIs
<1>2. CASE /\ LastAck(c) = 3
           /\ CpuPhases(c) \in {<<"ack", "block", "ack">>, <<"ack", "header", "ack">>}
           /\ SpcSteps(c) = CpuPhases(c)
  BY <1>2, SMT DEF PhaseIs, StepIs
<1>3. CASE /\ LastAck(c) = 5
           /\ CpuPhases(c) = <<"ack", "header", "ack", "block", "ack">>
           /\ SpcSteps(c) = CpuPhases(c)
  BY <1>3, SMT DEF PhaseIs, StepIs
<1> QED BY <1>1, <1>2, <1>3, PhaseTable

(* A call begins with an acknowledgement. *)
LEMMA FirstIsAck ==
    ASSUME NEW c \in LinkCommand
    PROVE  PhaseIs(c, 1, "ack") /\ StepIs(c, 1, "ack")
  BY PhaseTable, SMT DEF PhaseIs, StepIs

(* After an acknowledgement comes a transfer, and after a transfer an      *)
(* acknowledgement; behind the last one the game may still read and the    *)
(* driver may still act.                                                   *)
LEMMA AfterAck ==
    ASSUME NEW c \in LinkCommand, NEW k \in 1 .. 5, PhaseIs(c, k, "ack")
    PROVE  /\ k # LastAck(c) =>
                k + 1 \in 1 .. 5 /\ (PhaseIs(c, k + 1, "header") \/ PhaseIs(c, k + 1, "block"))
           /\ k = LastAck(c) =>
                /\ PhaseIs(c, k + 1, "read") \/ k + 1 > Len(CpuPhases(c))
                /\ StepIs(c, k + 1, "act") \/ k + 1 > Len(SpcSteps(c))
           /\ k > 1 => PhaseIs(c, k - 1, "header") \/ PhaseIs(c, k - 1, "block")
<1>1. CASE /\ LastAck(c) = 1
           /\ CpuPhases(c) \in {<<"ack">>, <<"ack", "read">>}
           /\ SpcSteps(c) \in {<<"ack">>, <<"ack", "act">>}
  BY <1>1, SMT DEF PhaseIs, StepIs
<1>2. CASE /\ LastAck(c) = 3
           /\ CpuPhases(c) \in {<<"ack", "block", "ack">>, <<"ack", "header", "ack">>}
           /\ SpcSteps(c) = CpuPhases(c)
  BY <1>2, SMT DEF PhaseIs, StepIs
<1>3. CASE /\ LastAck(c) = 5
           /\ CpuPhases(c) = <<"ack", "header", "ack", "block", "ack">>
           /\ SpcSteps(c) = CpuPhases(c)
  BY <1>3, SMT DEF PhaseIs, StepIs
<1> QED BY <1>1, <1>2, <1>3, PhaseTable

(* A header and a block are followed by an acknowledgement on both sides. *)
LEMMA AfterTransfer ==
    ASSUME NEW c \in LinkCommand, NEW k \in 1 .. 5, PhaseIs(c, k, "header") \/ PhaseIs(c, k, "block")
    PROVE  k + 1 \in 1 .. 5 /\ PhaseIs(c, k + 1, "ack") /\ StepIs(c, k + 1, "ack")
  BY PhaseTable, SMT DEF PhaseIs, StepIs

(* A read-back and an action are the last part of their command. *)
LEMMA AfterReadOrAct ==
    ASSUME NEW c \in LinkCommand, NEW k \in 1 .. 5
    PROVE  /\ PhaseIs(c, k, "read") => k + 1 > Len(CpuPhases(c))
           /\ StepIs(c, k, "act") => k + 1 > Len(SpcSteps(c))
<1>1. CASE /\ LastAck(c) = 1
           /\ CpuPhases(c) \in {<<"ack">>, <<"ack", "read">>}
           /\ SpcSteps(c) \in {<<"ack">>, <<"ack", "act">>}
  <2>1. PhaseIs(c, k, "read") => k = 2 /\ Len(CpuPhases(c)) = 2
    BY <1>1, SMT DEF PhaseIs
  <2>2. StepIs(c, k, "act") => k = 2 /\ Len(SpcSteps(c)) = 2
    BY <1>1, SMT DEF StepIs
  <2> QED BY <2>1, <2>2, SMT
<1>2. CASE /\ LastAck(c) = 3
           /\ CpuPhases(c) \in {<<"ack", "block", "ack">>, <<"ack", "header", "ack">>}
           /\ SpcSteps(c) = CpuPhases(c)
  BY <1>2, SMT DEF PhaseIs, StepIs
<1>3. CASE /\ LastAck(c) = 5
           /\ CpuPhases(c) = <<"ack", "header", "ack", "block", "ack">>
           /\ SpcSteps(c) = CpuPhases(c)
  BY <1>3, SMT DEF PhaseIs, StepIs
<1> QED BY <1>1, <1>2, <1>3, PhaseTable

-----------------------------------------------------------------------------
(* The game's own half of the invariant. *)

Port == {"low", "high", "command", "check"}

(* The protocol's codes are port values. *)
LEMMA CodeFacts ==
    /\ 0 \in PortValue /\ EndMark \in PortValue
    /\ StartupReplyLow \in PortValue /\ StartupReplyHigh \in PortValue
    /\ AckLow \in PortValue /\ AckHigh \in PortValue
  BY SMT DEF PortValue, EndMark, StartupReplyLow, StartupReplyHigh, AckLow, AckHigh

(* A write of the game changes the one port it names. *)
LEMMA CpuWrite ==
    ASSUME toSpc \in Ports, NEW port \in Port, NEW v \in PortValue, CpuWrites(port, v)
    PROVE  /\ toSpc' \in Ports
           /\ toSpc'.low = IF port = "low" THEN v ELSE toSpc.low
           /\ toSpc'.high = IF port = "high" THEN v ELSE toSpc.high
           /\ toSpc'.command = IF port = "command" THEN v ELSE toSpc.command
           /\ toSpc'.check = IF port = "check" THEN v ELSE toSpc.check
  BY SMT DEF CpuWrites, Ports, Port

(* The types of the request being sent. *)
LEMMA RequestFacts ==
    ASSUME CpuTypeOK
    PROVE  /\ request.command \in PortValue
           /\ request.low \in PortValue /\ request.high \in PortValue
           /\ request.source \in Nat /\ request.length \in Nat
           /\ request.command # Startup => request.command \in GameCommand
           /\ request.command # MusicTrackVolume => request.command \in LinkCommand
<1> USE DEF PortValue, GameCommand, Startup, CommandLimit, LinkCommand
<1>1. CASE request = StartupRequest
  BY <1>1, SMT DEF StartupRequest
<1>2. CASE request \in Request
  <2>1. /\ request.command \in GameCommand /\ request.low \in Byte /\ request.high \in Byte
        /\ request.source \in Nat /\ request.length \in Address
    BY <1>2, RequestAssumption
  <2>2. /\ request.low \in PortValue /\ request.high \in PortValue
        /\ request.length \in Nat
    BY <2>1, ByteFacts
  <2> QED BY <2>1, <2>2, SMT
<1> QED BY <1>1, <1>2 DEF CpuTypeOK

(* A pair's index without bit 7 is a port value. *)
LEMMA PairIndexValue == \A b \in Byte : WithoutBit7(b) \in PortValue
<1> SUFFICES ASSUME NEW b \in Byte
             PROVE  WithoutBit7(b) \in PortValue
  OBVIOUS
<1>1. WithoutBit7(b) \in 0 .. Bit7 - 1
  BY BitFacts
<1> QED BY <1>1, ByteFacts, SMT DEF PortValue

(* Entering a phase of a command goes to the phase's first access. *)
LEMMA CpuEnter ==
    ASSUME NEW k, CpuEnters(k), NEW name \in {"ack", "read", "header", "block"},
           PhaseIs(request.command, k, name)
    PROVE  cpuPhase' = k /\ cpuPc' = PhaseEntry(name)
  BY DEF CpuEnters, PhaseIs, CpuGoes

(* Past its last phase a call returns to the game. *)
LEMMA CpuLeave ==
    ASSUME NEW k \in Nat, CpuEnters(k), k > Len(CpuPhases(request.command)),
           Len(CpuPhases(request.command)) \in Nat
    PROVE  cpuPhase' = cpuPhase /\ cpuPc' = "idle"
  BY SMT DEF CpuEnters, CpuGoes

(* The bytes the game sends are port values. *)
LEMMA RomFacts == \A k : RomByte(k) \in PortValue
  BY RomAssumption, ByteFacts, SMT DEF RomByte, PortValue

(* Where an action that ends a phase goes. *)
LEMMA CpuPosts ==
    ASSUME IInv, CpuWriteCheck
    PROVE  /\ request.command # Startup
           /\ \/ cpuPc' = "idle" /\ cpuPhase' = cpuPhase /\ request.command = MusicTrackVolume
              \/ /\ cpuPc' = "ackLow" /\ cpuPhase' = 1 /\ request.command # MusicTrackVolume
                 /\ PhaseIs(request.command, 1, "ack")
<1>1. request.command # Startup
  BY DEF IInv, Handshake, CpuWriteCheck, CpuInPhase
<1>2. CASE request.command = MusicTrackVolume
  <2>1. Len(CpuPhases(request.command)) = 0
    BY <1>2, SMT DEF CpuPhases, MusicTrackVolume, ReadCommand, ReadProgress, ReadStatus,
       ReadSampleEnd, ReadOutputOptions, ReadKeyedVoices, Upload, UploadAtCursor,
       DefineSample, UploadSample
  <2> QED BY <1>1, <1>2, <2>1, CpuLeave, SMT DEF CpuWriteCheck
<1>3. CASE request.command # MusicTrackVolume
  <2>1. PhaseIs(request.command, 1, "ack")
    BY <1>3, RequestFacts, FirstIsAck DEF IInv, TypeOK
  <2> QED BY <1>1, <1>3, <2>1, CpuEnter DEF CpuWriteCheck, PhaseEntry
<1> QED BY <1>2, <1>3

(* The end of an acknowledgement ends the call or enters the next phase. *)
LEMMA CpuFreed ==
    ASSUME IInv, CpuSeeFreeHigh
    PROVE  /\ request.command \in LinkCommand /\ cpuPhase \in 1 .. 5
           /\ \/ /\ cpuPc' = "idle" /\ cpuPhase' = cpuPhase
                 /\ cpuPhase = LastAck(request.command)
              \/ /\ cpuPhase' = cpuPhase + 1 /\ cpuPhase' \in 1 .. 5
                 /\ \/ /\ cpuPc' = "read" /\ PhaseIs(request.command, cpuPhase', "read")
                       /\ cpuPhase = LastAck(request.command)
                    \/ /\ cpuPc' = "headerData" /\ PhaseIs(request.command, cpuPhase', "header")
                       /\ cpuPhase # LastAck(request.command)
                    \/ /\ cpuPc' = "blockStart" /\ PhaseIs(request.command, cpuPhase', "block")
                       /\ cpuPhase # LastAck(request.command)
<1> DEFINE c == request.command
           k == cpuPhase + 1
<1>1. c \in LinkCommand /\ PhaseIs(c, cpuPhase, "ack") /\ cpuPhase \in 1 .. 5
  BY RequestFacts DEF IInv, TypeOK, CpuTypeOK, Handshake, CpuSeeFreeHigh, CpuInPhase,
     CpuPosting, CpuHandshake
<1>2. CpuEnters(k) /\ k \in Nat /\ Len(CpuPhases(c)) \in 1 .. 5
  BY <1>1, PhaseTable, SMT DEF CpuSeeFreeHigh
<1>3. \A name : PhaseIs(c, k, name) => k \in 1 .. 5
  BY <1>1, <1>2, SMT DEF PhaseIs
<1>4. CASE cpuPhase = LastAck(c) /\ k > Len(CpuPhases(c))
  BY <1>1, <1>2, <1>4, CpuLeave, SMT
<1>5. CASE cpuPhase = LastAck(c) /\ PhaseIs(c, k, "read")
  BY <1>1, <1>2, <1>3, <1>5, CpuEnter DEF PhaseEntry
<1>6. CASE cpuPhase # LastAck(c) /\ PhaseIs(c, k, "header")
  BY <1>1, <1>2, <1>3, <1>6, CpuEnter DEF PhaseEntry
<1>7. CASE cpuPhase # LastAck(c) /\ PhaseIs(c, k, "block")
  BY <1>1, <1>2, <1>3, <1>7, CpuEnter DEF PhaseEntry
<1> QED BY <1>1, <1>4, <1>5, <1>6, <1>7, AfterAck

(* The end of a transfer enters the acknowledgement that follows it. *)
LEMMA CpuSent ==
    ASSUME IInv, CpuHeaderEnd \/ CpuBlockEnd
    PROVE  /\ request.command \in LinkCommand /\ cpuPhase \in 1 .. 5
           /\ CpuHeaderEnd => PhaseIs(request.command, cpuPhase, "header")
           /\ CpuBlockEnd => PhaseIs(request.command, cpuPhase, "block")
           /\ cpuPc' = "ackLow" /\ cpuPhase' = cpuPhase + 1 /\ request' = request
           /\ cpuPhase' \in 2 .. 5 /\ PhaseIs(request.command, cpuPhase', "ack")
<1>1. /\ request.command \in LinkCommand /\ cpuPhase \in 1 .. 5
      /\ CpuHeaderEnd => PhaseIs(request.command, cpuPhase, "header")
      /\ CpuBlockEnd => PhaseIs(request.command, cpuPhase, "block")
  BY RequestFacts DEF IInv, TypeOK, CpuTypeOK, Handshake, CpuHeaderEnd, CpuBlockEnd,
     CpuInPhase, CpuPosting, CpuHeader, CpuBlock
<1>2. cpuPhase + 1 \in 1 .. 5 /\ PhaseIs(request.command, cpuPhase + 1, "ack")
  BY <1>1, AfterTransfer
<1>3. cpuPhase' = cpuPhase + 1 /\ cpuPc' = "ackLow" /\ request' = request
  BY <1>2, CpuEnter DEF CpuHeaderEnd, CpuBlockEnd, PhaseEntry
<1> QED BY <1>1, <1>2, <1>3, SMT

CpuHalf == CpuTypeOK /\ CpuInPhase /\ ArgumentsStand /\ CpuSide
(* Every step of the game keeps the game's half of the invariant. *)
LEMMA CpuKeepsCpuHalf ==
    ASSUME IInv, CpuBegin \/ CpuMark \/ CpuStep
    PROVE  CpuHalf'
<1> USE
DEF CpuGoes, KeepCpuData, CpuOnly, CpuPosting, CpuHandshake, CpuBooting, CpuHeader,
    CpuBlock
<1> USE ByteFacts
<1>0. /\ CpuTypeOK /\ CpuInPhase /\ ArgumentsStand /\ CpuSide /\ toSpc \in Ports
      /\ sequence \in Byte /\ Even(sequence) /\ remaining \in Nat
  BY DEF IInv, TypeOK, Handshake, CpuTypeOK, CpuSide
<1>1. CASE CpuBootSeesLow
  <2>1. CpuTypeOK'
    BY <1>0, <1>1, SMT DEF CpuBootSeesLow, CpuTypeOK, CpuPcs
  <2>2. CpuInPhase'
    BY <1>0, <1>1, SMT DEF CpuBootSeesLow, CpuInPhase
  <2>3. ArgumentsStand'
    BY <1>0, <1>1, SMT DEF CpuBootSeesLow, ArgumentsStand, LowStands, HighStands
  <2>4. CpuSide'
    BY <1>0, <1>1, SMT DEF CpuBootSeesLow, CpuSide, Posted, AfterHeader, NotNext
  <2> QED BY <2>1, <2>2, <2>3, <2>4 DEF CpuHalf
<1>2. CASE CpuBootSeesHigh
  <2>1. CpuTypeOK'
    BY <1>0, <1>2, SMT DEF CpuBootSeesHigh, CpuTypeOK, CpuPcs
  <2>2. CpuInPhase'
    BY <1>0, <1>2, SMT DEF CpuBootSeesHigh, CpuInPhase
  <2>3. ArgumentsStand'
    BY <1>0, <1>2, SMT DEF CpuBootSeesHigh, ArgumentsStand, LowStands, HighStands
  <2>4. CpuSide'
    BY <1>0, <1>2, SMT DEF CpuBootSeesHigh, CpuSide, Posted, AfterHeader, NotNext
  <2> QED BY <2>1, <2>2, <2>3, <2>4 DEF CpuHalf
<1>3. CASE CpuBootRepliesLow
  <2>0. /\ toSpc' \in Ports
        /\ toSpc'.low = toSpc.low /\ toSpc'.high = toSpc.high
        /\ toSpc'.command = StartupReplyLow /\ toSpc'.check = toSpc.check
    <3>1. StartupReplyLow \in PortValue
      BY <1>0, <1>3, CodeFacts, RequestFacts, RomFacts, PairIndexValue, SMT
      DEF CpuBootRepliesLow, CpuSide, HeaderBytes, PortValue
    <3> QED BY <1>0, <1>3, <3>1, CpuWrite DEF CpuBootRepliesLow, Port
  <2>1. CpuTypeOK'
    BY <1>0, <2>0, <1>3, SMT DEF CpuBootRepliesLow, CpuTypeOK, CpuPcs
  <2>2. CpuInPhase'
    BY <1>0, <1>3, SMT DEF CpuBootRepliesLow, CpuInPhase
  <2>3. ArgumentsStand'
    BY <1>0, <2>0, <1>3, SMT DEF CpuBootRepliesLow, ArgumentsStand, LowStands, HighStands
  <2>4. CpuSide'
    BY <1>0, <2>0, <1>3, SMT DEF CpuBootRepliesLow, CpuSide, Posted, AfterHeader, NotNext
  <2> QED BY <2>1, <2>2, <2>3, <2>4 DEF CpuHalf
<1>4. CASE CpuBegin
  <2>1. PICK r \in Request : request' = r /\ cpuPc' = FirstAccess(r.command)
    BY <1>4 DEF CpuBegin
  <2>2. r.command \in GameCommand /\ r.command # Startup /\ cpuPc' \in {"low", "mode"}
    BY <2>1, RequestAssumption, SMT DEF GameCommand, Startup, FirstAccess
  <2>3. cpuPc' = "mode" => r.command \notin OneArgument \cup TwoArguments
    BY <2>1 DEF FirstAccess
  <2>4. CpuTypeOK'
    BY <1>0, <1>4, <2>1, <2>2, SMT DEF CpuBegin, CpuTypeOK, CpuPcs
  <2>5. CpuInPhase'
    BY <1>0, <2>1, <2>2, SMT DEF CpuInPhase
  <2>6. ArgumentsStand'
    BY <1>0, <2>1, <2>2, <2>3, SMT DEF ArgumentsStand, LowStands, HighStands
  <2>7. CpuSide'
    BY <1>0, <1>4, <2>1, <2>2, SMT DEF CpuBegin, CpuSide, Posted, AfterHeader, NotNext
  <2> QED BY <2>4, <2>5, <2>6, <2>7 DEF CpuHalf
<1>5. CASE CpuMark
  <2>0. /\ toSpc' \in Ports
        /\ toSpc'.low = toSpc.low /\ toSpc'.high = toSpc.high
        /\ toSpc'.command = toSpc.command /\ toSpc'.check = EndMark
    <3>1. EndMark \in PortValue
      BY <1>0, <1>5, CodeFacts, RequestFacts, RomFacts, PairIndexValue, SMT
      DEF CpuMark, CpuSide, HeaderBytes, PortValue
    <3> QED BY <1>0, <1>5, <3>1, CpuWrite DEF CpuMark, Port
  <2>1. CpuTypeOK'
    BY <1>0, <2>0, <1>5, SMT DEF CpuMark, CpuTypeOK, CpuPcs
  <2>2. CpuInPhase'
    BY <1>0, <1>5, SMT DEF CpuMark, CpuInPhase
  <2>3. ArgumentsStand'
    BY <1>0, <2>0, <1>5, SMT DEF CpuMark, ArgumentsStand, LowStands, HighStands
  <2>4. CpuSide'
    BY <1>0, <2>0, <1>5, SMT DEF CpuMark, CpuSide, Posted, AfterHeader, NotNext
  <2> QED BY <2>1, <2>2, <2>3, <2>4 DEF CpuHalf
<1>6. CASE CpuWriteLow
  <2>0. /\ toSpc' \in Ports
        /\ toSpc'.low = request.low /\ toSpc'.high = toSpc.high
        /\ toSpc'.command = toSpc.command /\ toSpc'.check = toSpc.check
    <3>1. request.low \in PortValue
      BY <1>0, <1>6, CodeFacts, RequestFacts, RomFacts, PairIndexValue, SMT
      DEF CpuWriteLow, CpuSide, HeaderBytes, PortValue
    <3> QED BY <1>0, <1>6, <3>1, CpuWrite DEF CpuWriteLow, Port
  <2>1. CpuTypeOK'
    BY <1>0, <2>0, <1>6, SMT DEF CpuWriteLow, CpuTypeOK, CpuPcs
  <2>2. CpuInPhase'
    BY <1>0, <1>6, SMT DEF CpuWriteLow, CpuInPhase
  <2>3. ArgumentsStand'
    BY <1>0, <2>0, <1>6, SMT DEF CpuWriteLow, ArgumentsStand, LowStands, HighStands
  <2>4. CpuSide'
    BY <1>0, <2>0, <1>6, SMT DEF CpuWriteLow, CpuSide, Posted, AfterHeader, NotNext
  <2> QED BY <2>1, <2>2, <2>3, <2>4 DEF CpuHalf
<1>7. CASE CpuWriteHigh
  <2>0. /\ toSpc' \in Ports
        /\ toSpc'.low = toSpc.low /\ toSpc'.high = request.high
        /\ toSpc'.command = toSpc.command /\ toSpc'.check = toSpc.check
    <3>1. request.high \in PortValue
      BY <1>0, <1>7, CodeFacts, RequestFacts, RomFacts, PairIndexValue, SMT
      DEF CpuWriteHigh, CpuSide, HeaderBytes, PortValue
    <3> QED BY <1>0, <1>7, <3>1, CpuWrite DEF CpuWriteHigh, Port
  <2>1. CpuTypeOK'
    BY <1>0, <2>0, <1>7, SMT DEF CpuWriteHigh, CpuTypeOK, CpuPcs
  <2>2. CpuInPhase'
    BY <1>0, <1>7, SMT DEF CpuWriteHigh, CpuInPhase
  <2>3. ArgumentsStand'
    BY <1>0, <2>0, <1>7, SMT DEF CpuWriteHigh, ArgumentsStand, LowStands, HighStands
  <2>4. CpuSide'
    BY <1>0, <2>0, <1>7, SMT DEF CpuWriteHigh, CpuSide, Posted, AfterHeader, NotNext
  <2> QED BY <2>1, <2>2, <2>3, <2>4 DEF CpuHalf
<1>8. CASE CpuWriteMode
  <2>0. /\ toSpc' \in Ports
        /\ toSpc'.low = toSpc.low /\ toSpc'.high = toSpc.high
        /\ toSpc'.command = request.command /\ toSpc'.check = toSpc.check
    <3>1. request.command \in PortValue
      BY <1>0, <1>8, CodeFacts, RequestFacts, RomFacts, PairIndexValue, SMT
      DEF CpuWriteMode, CpuSide, HeaderBytes, PortValue
    <3> QED BY <1>0, <1>8, <3>1, CpuWrite DEF CpuWriteMode, Port
  <2>1. CpuTypeOK'
    BY <1>0, <2>0, <1>8, SMT DEF CpuWriteMode, CpuTypeOK, CpuPcs
  <2>2. CpuInPhase'
    BY <1>0, <1>8, SMT DEF CpuWriteMode, CpuInPhase
  <2>3. ArgumentsStand'
    BY <1>0, <2>0, <1>8, SMT DEF CpuWriteMode, ArgumentsStand, LowStands, HighStands
  <2>4. CpuSide'
    BY <1>0, <2>0, <1>8, SMT DEF CpuWriteMode, CpuSide, Posted, AfterHeader, NotNext
  <2> QED BY <2>1, <2>2, <2>3, <2>4 DEF CpuHalf
<1>9. CASE CpuSeeAckLow
  <2>1. CpuTypeOK'
    BY <1>0, <1>9, SMT DEF CpuSeeAckLow, CpuTypeOK, CpuPcs
  <2>2. CpuInPhase'
    BY <1>0, <1>9, SMT DEF CpuSeeAckLow, CpuInPhase
  <2>3. ArgumentsStand'
    BY <1>0, <1>9, SMT DEF CpuSeeAckLow, ArgumentsStand, LowStands, HighStands
  <2>4. CpuSide'
    BY <1>0, <1>9, SMT DEF CpuSeeAckLow, CpuSide, Posted, AfterHeader, NotNext
  <2> QED BY <2>1, <2>2, <2>3, <2>4 DEF CpuHalf
<1>10. CASE CpuSeeAckHigh
  <2>1. CpuTypeOK'
    BY <1>0, <1>10, SMT DEF CpuSeeAckHigh, CpuTypeOK, CpuPcs
  <2>2. CpuInPhase'
    BY <1>0, <1>10, SMT DEF CpuSeeAckHigh, CpuInPhase
  <2>3. ArgumentsStand'
    BY <1>0, <1>10, SMT DEF CpuSeeAckHigh, ArgumentsStand, LowStands, HighStands
  <2>4. CpuSide'
    BY <1>0, <1>10, SMT DEF CpuSeeAckHigh, CpuSide, Posted, AfterHeader, NotNext
  <2> QED BY <2>1, <2>2, <2>3, <2>4 DEF CpuHalf
<1>11. CASE CpuClearLow
  <2>0. /\ toSpc' \in Ports
        /\ toSpc'.low = toSpc.low /\ toSpc'.high = toSpc.high
        /\ toSpc'.command = 0 /\ toSpc'.check = toSpc.check
    <3>1. 0 \in PortValue
      BY <1>0, <1>11, CodeFacts, RequestFacts, RomFacts, PairIndexValue, SMT
      DEF CpuClearLow, CpuSide, HeaderBytes, PortValue
    <3> QED BY <1>0, <1>11, <3>1, CpuWrite DEF CpuClearLow, Port
  <2>1. CpuTypeOK'
    BY <1>0, <2>0, <1>11, SMT DEF CpuClearLow, CpuTypeOK, CpuPcs
  <2>2. CpuInPhase'
    BY <1>0, <1>11, SMT DEF CpuClearLow, CpuInPhase
  <2>3. ArgumentsStand'
    BY <1>0, <2>0, <1>11, SMT DEF CpuClearLow, ArgumentsStand, LowStands, HighStands
  <2>4. CpuSide'
    BY <1>0, <2>0, <1>11, SMT DEF CpuClearLow, CpuSide, Posted, AfterHeader, NotNext
  <2> QED BY <2>1, <2>2, <2>3, <2>4 DEF CpuHalf
<1>12. CASE CpuClearHigh
  <2>0. /\ toSpc' \in Ports
        /\ toSpc'.low = toSpc.low /\ toSpc'.high = toSpc.high
        /\ toSpc'.command = toSpc.command /\ toSpc'.check = 0
    <3>1. 0 \in PortValue
      BY <1>0, <1>12, CodeFacts, RequestFacts, RomFacts, PairIndexValue, SMT
      DEF CpuClearHigh, CpuSide, HeaderBytes, PortValue
    <3> QED BY <1>0, <1>12, <3>1, CpuWrite DEF CpuClearHigh, Port
  <2>1. CpuTypeOK'
    BY <1>0, <2>0, <1>12, SMT DEF CpuClearHigh, CpuTypeOK, CpuPcs
  <2>2. CpuInPhase'
    BY <1>0, <1>12, SMT DEF CpuClearHigh, CpuInPhase
  <2>3. ArgumentsStand'
    BY <1>0, <2>0, <1>12, SMT DEF CpuClearHigh, ArgumentsStand, LowStands, HighStands
  <2>4. CpuSide'
    BY <1>0, <2>0, <1>12, SMT DEF CpuClearHigh, CpuSide, Posted, AfterHeader, NotNext
  <2> QED BY <2>1, <2>2, <2>3, <2>4 DEF CpuHalf
<1>13. CASE CpuSeeFreeLow
  <2>1. CpuTypeOK'
    BY <1>0, <1>13, SMT DEF CpuSeeFreeLow, CpuTypeOK, CpuPcs
  <2>2. CpuInPhase'
    BY <1>0, <1>13, SMT DEF CpuSeeFreeLow, CpuInPhase
  <2>3. ArgumentsStand'
    BY <1>0, <1>13, SMT DEF CpuSeeFreeLow, ArgumentsStand, LowStands, HighStands
  <2>4. CpuSide'
    BY <1>0, <1>13, SMT DEF CpuSeeFreeLow, CpuSide, Posted, AfterHeader, NotNext
  <2> QED BY <2>1, <2>2, <2>3, <2>4 DEF CpuHalf
<1>14. CASE CpuHeaderData
  <2>0. /\ toSpc' \in Ports
        /\ toSpc'.low = RomByte(source) /\ toSpc'.high = toSpc.high
        /\ toSpc'.command = toSpc.command /\ toSpc'.check = toSpc.check
    <3>1. RomByte(source) \in PortValue
      BY <1>0, <1>14, CodeFacts, RequestFacts, RomFacts, PairIndexValue, SMT
      DEF CpuHeaderData, CpuSide, HeaderBytes, PortValue
    <3> QED BY <1>0, <1>14, <3>1, CpuWrite DEF CpuHeaderData, Port
  <2>1. CpuTypeOK'
    BY <1>0, <2>0, <1>14, SMT DEF CpuHeaderData, CpuTypeOK, CpuPcs
  <2>2. CpuInPhase'
    BY <1>0, <1>14, SMT DEF CpuHeaderData, CpuInPhase
  <2>3. ArgumentsStand'
    BY <1>0, <2>0, <1>14, SMT DEF CpuHeaderData, ArgumentsStand, LowStands, HighStands
  <2>4. CpuSide'
    BY <1>0, <2>0, <1>14, SMT DEF CpuHeaderData, CpuSide, Posted, AfterHeader, NotNext
  <2> QED BY <2>1, <2>2, <2>3, <2>4 DEF CpuHalf
<1>15. CASE CpuHeaderIndex
  <2>0. /\ toSpc' \in Ports
        /\ toSpc'.low = toSpc.low /\ toSpc'.high = toSpc.high
        /\ toSpc'.command = remaining /\ toSpc'.check = toSpc.check
    <3>1. remaining \in PortValue
      BY <1>0, <1>15, CodeFacts, RequestFacts, RomFacts, PairIndexValue, SMT
      DEF CpuHeaderIndex, CpuSide, HeaderBytes, PortValue
    <3> QED BY <1>0, <1>15, <3>1, CpuWrite DEF CpuHeaderIndex, Port
  <2>1. CpuTypeOK'
    BY <1>0, <2>0, <1>15, SMT DEF CpuHeaderIndex, CpuTypeOK, CpuPcs
  <2>2. CpuInPhase'
    BY <1>0, <1>15, SMT DEF CpuHeaderIndex, CpuInPhase
  <2>3. ArgumentsStand'
    BY <1>0, <2>0, <1>15, SMT DEF CpuHeaderIndex, ArgumentsStand, LowStands, HighStands
  <2>4. CpuSide'
    BY <1>0, <2>0, <1>15, SMT DEF CpuHeaderIndex, CpuSide, Posted, AfterHeader, NotNext
  <2> QED BY <2>1, <2>2, <2>3, <2>4 DEF CpuHalf
<1>16. CASE CpuHeaderPoll
  <2>0. /\ remaining \in 1 .. HeaderBytes /\ Posted(remaining, 0)
        /\ cpuPc' = IF remaining = 1 THEN "headerEnd" ELSE "headerData"
    BY <1>0, <1>16, SMT DEF CpuHeaderPoll, CpuSide
  <2>1. CpuTypeOK'
    BY <1>0, <2>0, <1>16, SMT DEF CpuHeaderPoll, CpuTypeOK, CpuPcs, HeaderBytes
  <2>2. CpuInPhase'
    BY <1>0, <2>0, <1>16, SMT DEF CpuHeaderPoll, CpuInPhase
  <2>3. ArgumentsStand'
    BY <1>0, <2>0, <1>16, SMT DEF CpuHeaderPoll, ArgumentsStand, LowStands, HighStands
  <2>4. remaining # 1 => remaining' \in 1 .. HeaderBytes
                         /\ remaining' # HeaderBytes /\ remaining = remaining' + 1
    BY <2>0, <1>16, SMT DEF CpuHeaderPoll, HeaderBytes
  <2>5. CpuSide'
    BY <1>0, <2>0, <2>4, <1>16, SMT DEF CpuHeaderPoll, CpuSide, Posted, AfterHeader, NotNext
  <2> QED BY <2>1, <2>2, <2>3, <2>5 DEF CpuHalf
<1>17. CASE CpuBlockStart
  <2>0. /\ toSpc' \in Ports
        /\ toSpc'.low = toSpc.low /\ toSpc'.high = toSpc.high
        /\ toSpc'.command = EndMark /\ toSpc'.check = toSpc.check
    <3>1. EndMark \in PortValue
      BY <1>0, <1>17, CodeFacts, RequestFacts, RomFacts, PairIndexValue, SMT
      DEF CpuBlockStart, CpuSide, HeaderBytes, PortValue
    <3> QED BY <1>0, <1>17, <3>1, CpuWrite DEF CpuBlockStart, Port
  <2>1. CpuTypeOK'
    BY <1>0, <2>0, <1>17, SMT DEF CpuBlockStart, CpuTypeOK, CpuPcs
  <2>2. CpuInPhase'
    BY <1>0, <1>17, SMT DEF CpuBlockStart, CpuInPhase
  <2>3. ArgumentsStand'
    BY <1>0, <2>0, <1>17, SMT DEF CpuBlockStart, ArgumentsStand, LowStands, HighStands
  <2>4. CpuSide'
    BY <1>0, <2>0, <1>17, SMT DEF CpuBlockStart, CpuSide, Posted, AfterHeader, NotNext
  <2> QED BY <2>1, <2>2, <2>3, <2>4 DEF CpuHalf
<1>18. CASE CpuBlockEcho
  <2>1. CpuTypeOK'
    BY <1>0, <1>18, SMT DEF CpuBlockEcho, CpuTypeOK, CpuPcs
  <2>2. CpuInPhase'
    BY <1>0, <1>18, SMT DEF CpuBlockEcho, CpuInPhase
  <2>3. ArgumentsStand'
    BY <1>0, <1>18, SMT DEF CpuBlockEcho, ArgumentsStand, LowStands, HighStands
  <2>4. WithoutBit7(0) = 0 /\ EndMark # 0 /\ Even(0)
    BY SMT DEF WithoutBit7, EndMark, Even
  <2>5. CpuSide'
    BY <1>0, <2>4, <1>18, SMT DEF CpuBlockEcho, CpuSide, Posted, AfterHeader, NotNext
  <2> QED BY <2>1, <2>2, <2>3, <2>5 DEF CpuHalf
<1>19. CASE CpuPairLow
  <2>0. /\ toSpc' \in Ports
        /\ toSpc'.low = RomByte(source) /\ toSpc'.high = toSpc.high
        /\ toSpc'.command = toSpc.command /\ toSpc'.check = toSpc.check
    <3>1. RomByte(source) \in PortValue
      BY <1>0, <1>19, CodeFacts, RequestFacts, RomFacts, PairIndexValue, SMT
      DEF CpuPairLow, CpuSide, HeaderBytes, PortValue
    <3> QED BY <1>0, <1>19, <3>1, CpuWrite DEF CpuPairLow, Port
  <2>1. CpuTypeOK'
    BY <1>0, <2>0, <1>19, SMT DEF CpuPairLow, CpuTypeOK, CpuPcs
  <2>2. CpuInPhase'
    BY <1>0, <1>19, SMT DEF CpuPairLow, CpuInPhase
  <2>3. ArgumentsStand'
    BY <1>0, <2>0, <1>19, SMT DEF CpuPairLow, ArgumentsStand, LowStands, HighStands
  <2>4. CpuSide'
    BY <1>0, <2>0, <1>19, SMT DEF CpuPairLow, CpuSide, Posted, AfterHeader, NotNext
  <2> QED BY <2>1, <2>2, <2>3, <2>4 DEF CpuHalf
<1>20. CASE CpuPairHigh
  <2>0. /\ toSpc' \in Ports
        /\ toSpc'.low = toSpc.low /\ toSpc'.high = RomByte(source + 1)
        /\ toSpc'.command = toSpc.command /\ toSpc'.check = toSpc.check
    <3>1. RomByte(source + 1) \in PortValue
      BY <1>0, <1>20, CodeFacts, RequestFacts, RomFacts, PairIndexValue, SMT
      DEF CpuPairHigh, CpuSide, HeaderBytes, PortValue
    <3> QED BY <1>0, <1>20, <3>1, CpuWrite DEF CpuPairHigh, Port
  <2>1. CpuTypeOK'
    BY <1>0, <2>0, <1>20, SMT DEF CpuPairHigh, CpuTypeOK, CpuPcs
  <2>2. CpuInPhase'
    BY <1>0, <1>20, SMT DEF CpuPairHigh, CpuInPhase
  <2>3. ArgumentsStand'
    BY <1>0, <2>0, <1>20, SMT DEF CpuPairHigh, ArgumentsStand, LowStands, HighStands
  <2>4. CpuSide'
    BY <1>0, <2>0, <1>20, SMT DEF CpuPairHigh, CpuSide, Posted, AfterHeader, NotNext
  <2> QED BY <2>1, <2>2, <2>3, <2>4 DEF CpuHalf
<1>21. CASE CpuPairIndex
  <2>0. /\ toSpc' \in Ports
        /\ toSpc'.low = toSpc.low /\ toSpc'.high = toSpc.high
        /\ toSpc'.command = WithoutBit7(sequence) /\ toSpc'.check = toSpc.check
    <3>1. WithoutBit7(sequence) \in PortValue
      BY <1>0, <1>21, CodeFacts, RequestFacts, RomFacts, PairIndexValue, SMT
      DEF CpuPairIndex, CpuSide, HeaderBytes, PortValue
    <3> QED BY <1>0, <1>21, <3>1, CpuWrite DEF CpuPairIndex, Port
  <2>1. CpuTypeOK'
    BY <1>0, <2>0, <1>21, SMT DEF CpuPairIndex, CpuTypeOK, CpuPcs
  <2>2. CpuInPhase'
    BY <1>0, <1>21, SMT DEF CpuPairIndex, CpuInPhase
  <2>3. ArgumentsStand'
    BY <1>0, <2>0, <1>21, SMT DEF CpuPairIndex, ArgumentsStand, LowStands, HighStands
  <2>4. CpuSide'
    BY <1>0, <2>0, <1>21, SMT DEF CpuPairIndex, CpuSide, Posted, AfterHeader, NotNext
  <2> QED BY <2>1, <2>2, <2>3, <2>4 DEF CpuHalf
<1>22. CASE CpuPairPoll
  <2>0. /\ NextPair(sequence) \in Byte /\ Even(NextPair(sequence))
        /\ WithoutBit7(NextPair(sequence)) # WithoutBit7(sequence)
    BY <1>0, PairFacts
  <2>1. cpuPc' \in {"pairLow", "blockEnd"} /\ remaining' \in Nat /\ source' \in Nat
    BY <1>0, <1>22, SMT DEF CpuPairPoll, CpuTypeOK
  <2>2. CpuTypeOK'
    BY <1>0, <2>0, <2>1, <1>22 DEF CpuPairPoll, CpuTypeOK, CpuPcs
  <2>3. CpuInPhase'
    BY <1>0, <2>1, <1>22, SMT DEF CpuPairPoll, CpuInPhase
  <2>4. ArgumentsStand'
    BY <1>0, <2>1, <1>22, SMT DEF CpuPairPoll, ArgumentsStand, LowStands, HighStands
  <2>5. CpuSide'
    BY <1>0, <2>0, <2>1, <1>22, SMT DEF CpuPairPoll, CpuSide, Posted, AfterHeader, NotNext
  <2> QED BY <2>2, <2>3, <2>4, <2>5 DEF CpuHalf
<1>23. CASE CpuBootRepliesHigh
  <2>0. /\ toSpc' \in Ports
        /\ toSpc'.low = toSpc.low /\ toSpc'.high = toSpc.high
        /\ toSpc'.command = toSpc.command /\ toSpc'.check = StartupReplyHigh
    <3>1. StartupReplyHigh \in PortValue
      BY <1>0, CodeFacts, RequestFacts
    <3> QED BY <1>0, <1>23, <3>1, CpuWrite DEF CpuBootRepliesHigh, Port
  <2>1. request.command = Startup /\ Startup \in LinkCommand /\ PhaseIs(Startup, 1, "ack")
    <3>1. request = StartupRequest
      BY <1>0, <1>23 DEF CpuBootRepliesHigh, CpuInPhase
    <3>2. Startup \in LinkCommand
      BY SMT DEF LinkCommand, Startup, MusicTrackVolume
    <3> QED BY <3>1, <3>2, FirstIsAck DEF StartupRequest
  <2>2. cpuPhase' = 1 /\ cpuPc' = "ackLow" /\ request' = request
    BY <1>23, <2>1, CpuEnter DEF CpuBootRepliesHigh, PhaseEntry
  <2>3. request.command # MusicTrackVolume /\ request.command \notin OneArgument \cup TwoArguments
    BY <2>1, SMT
    DEF Startup, MusicTrackVolume, OneArgument, TwoArguments, SetInstrumentSlot,
        StopEffect, Upload, SetSampleEnd, SetUploadCursor, EffectTrackVolume
  <2>4. CpuTypeOK'
    BY <1>0, <2>0, <2>1, <2>2, <2>3, <1>23, SMT DEF CpuBootRepliesHigh, CpuTypeOK, CpuPcs
  <2>5. CpuInPhase'
    BY <1>0, <2>0, <2>1, <2>2, <2>3, <1>23, SMT DEF CpuBootRepliesHigh, CpuInPhase
  <2>6. ArgumentsStand'
    BY <1>0, <2>0, <2>1, <2>2, <2>3, <1>23, SMT
    DEF CpuBootRepliesHigh, ArgumentsStand, LowStands, HighStands
  <2>7. CpuSide'
    BY <1>0, <2>0, <2>1, <2>2, <2>3, <1>23, SMT
    DEF CpuBootRepliesHigh, CpuSide, Posted, AfterHeader, NotNext
  <2> QED BY <2>4, <2>5, <2>6, <2>7 DEF CpuHalf
<1>24. CASE CpuWriteCheck
  <2>0. /\ toSpc' \in Ports
        /\ toSpc'.low = toSpc.low /\ toSpc'.high = toSpc.high
        /\ toSpc'.command = toSpc.command /\ toSpc'.check = request.command
    <3>1. request.command \in PortValue
      BY <1>0, CodeFacts, RequestFacts
    <3> QED BY <1>0, <1>24, <3>1, CpuWrite DEF CpuWriteCheck, Port
  <2>1. request.command # Startup
    BY <1>24, CpuPosts
  <2>2. \/ cpuPc' = "idle" /\ cpuPhase' = cpuPhase /\ request.command = MusicTrackVolume
        \/ /\ cpuPc' = "ackLow" /\ cpuPhase' = 1 /\ request.command # MusicTrackVolume
           /\ PhaseIs(request.command, 1, "ack")
    BY <1>24, CpuPosts
  <2>3. request' = request
    BY <1>24 DEF CpuWriteCheck
  <2>4. CpuTypeOK'
    BY <1>0, <2>0, <2>1, <2>2, <2>3, <1>24, SMT DEF CpuWriteCheck, CpuTypeOK, CpuPcs
  <2>5. CpuInPhase'
    BY <1>0, <2>0, <2>1, <2>2, <2>3, <1>24, SMT DEF CpuWriteCheck, CpuInPhase
  <2>6. ArgumentsStand'
    BY <1>0, <2>0, <2>1, <2>2, <2>3, <1>24, SMT
    DEF CpuWriteCheck, ArgumentsStand, LowStands, HighStands
  <2>7. CpuSide'
    BY <1>0, <2>0, <2>1, <2>2, <2>3, <1>24, SMT
    DEF CpuWriteCheck, CpuSide, Posted, AfterHeader, NotNext
  <2> QED BY <2>4, <2>5, <2>6, <2>7 DEF CpuHalf
<1>25. CASE CpuSeeFreeHigh
  <2>1. /\ request.command \in LinkCommand /\ PhaseIs(request.command, cpuPhase, "ack")
        /\ cpuPhase \in 1 .. 5
    BY <1>0, <1>25, RequestFacts DEF CpuSeeFreeHigh, CpuInPhase, CpuTypeOK
  <2>2. request' = request /\ toSpc' = toSpc /\ Posted(0, 0)
    BY <1>0, <1>25 DEF CpuSeeFreeHigh, CpuSide
  <2>3. \/ cpuPc' = "idle" /\ cpuPhase' = cpuPhase
        \/ /\ cpuPhase' = cpuPhase + 1 /\ cpuPhase' \in 1 .. 5
           /\ \/ cpuPc' = "read" /\ PhaseIs(request.command, cpuPhase', "read")
              \/ cpuPc' = "headerData" /\ PhaseIs(request.command, cpuPhase', "header")
              \/ cpuPc' = "blockStart" /\ PhaseIs(request.command, cpuPhase', "block")
    BY <1>25, CpuFreed
  <2>4. remaining' \in Nat /\ source' \in Nat /\ (cpuPc' = "headerData" => remaining' = HeaderBytes)
    <3>1. PayloadLength(request) \in Nat
      BY <1>0, RequestFacts, RomFacts, WordOf, ByteFacts DEF PayloadLength
    <3> QED BY <3>1, <2>3, <1>0, <1>25, RequestFacts, SMT
    DEF CpuSeeFreeHigh, CpuTypeOK, HeaderBytes
  <2>5. sequence' = sequence /\ reply' = reply
    BY <1>25 DEF CpuSeeFreeHigh
  <2>6. CpuTypeOK'
    BY <1>0, <2>2, <2>3, <2>4, <2>5, SMT DEF CpuTypeOK, CpuPcs
  <2>7. CpuInPhase'
    BY <1>0, <2>1, <2>2, <2>3, <1>25, SMT DEF CpuInPhase, LinkCommand
  <2>8. ArgumentsStand'
    BY <1>0, <2>2, <2>3, SMT DEF ArgumentsStand, LowStands, HighStands
  <2>9. CpuSide'
    <3>1. cpuPc' \in {"idle", "read", "headerData", "blockStart"}
      BY <2>3
    <3>2. toSpc'.command = 0 /\ toSpc'.check = 0 /\ Even(sequence')
      BY <1>0, <2>2, <2>5 DEF Posted
    <3>3. CASE cpuPc' = "idle"
      BY <3>3, <3>2, SMT DEF CpuSide
    <3>4. CASE cpuPc' = "headerData"
      BY <3>4, <3>2, <2>4, SMT DEF CpuSide, Posted, HeaderBytes
    <3>5. CASE cpuPc' \in {"read", "blockStart"}
      BY <3>5, <3>2, SMT DEF CpuSide, Posted
    <3> QED BY <3>1, <3>3, <3>4, <3>5
  <2> QED BY <2>6, <2>7, <2>8, <2>9 DEF CpuHalf
<1>26. CASE CpuRead
  <2>1. /\ request.command \in LinkCommand /\ PhaseIs(request.command, cpuPhase, "read")
        /\ cpuPhase \in 1 .. 5
    BY <1>0, <1>26, RequestFacts DEF CpuRead, CpuInPhase, CpuTypeOK
  <2>2. cpuPc' = "idle" /\ cpuPhase' = cpuPhase /\ request' = request /\ toSpc' = toSpc
    <3>1. cpuPhase + 1 > Len(CpuPhases(request.command)) /\ Len(CpuPhases(request.command)) \in Nat
      BY <2>1, AfterReadOrAct, PhaseTable, SMT
    <3> QED BY <3>1, <2>1, <1>26, CpuLeave, SMT DEF CpuRead
  <2>3. reply' \in [low : PortValue, high : PortValue]
    BY <1>26, SMT DEF CpuRead, IInv, TypeOK, SpcTypeOK, Ports
  <2>4. CpuTypeOK'
    BY <1>0, <2>2, <2>3, <1>26, SMT DEF CpuRead, CpuTypeOK, CpuPcs
  <2>5. CpuInPhase'
    BY <1>0, <2>2, <2>3, <1>26, SMT DEF CpuRead, CpuInPhase
  <2>6. ArgumentsStand'
    BY <1>0, <2>2, <2>3, <1>26, SMT DEF CpuRead, ArgumentsStand, LowStands, HighStands
  <2>7. CpuSide'
    BY <1>0, <2>2, <2>3, <1>26, SMT DEF CpuRead, CpuSide, Posted, AfterHeader, NotNext
  <2> QED BY <2>4, <2>5, <2>6, <2>7 DEF CpuHalf
<1>27. CASE CpuHeaderEnd
  <2>0. /\ toSpc' \in Ports
        /\ toSpc'.low = toSpc.low /\ toSpc'.high = toSpc.high
        /\ toSpc'.command = EndMark /\ toSpc'.check = toSpc.check
    <3>1. EndMark \in PortValue
      BY <1>0, CodeFacts, RequestFacts
    <3> QED BY <1>0, <1>27, <3>1, CpuWrite DEF CpuHeaderEnd, Port
  <2>1. /\ request.command \in LinkCommand /\ PhaseIs(request.command, cpuPhase, "header")
        /\ cpuPhase \in 1 .. 5
    BY <1>0, <1>27, RequestFacts DEF CpuHeaderEnd, CpuInPhase, CpuTypeOK
  <2>2. /\ cpuPc' = "ackLow" /\ cpuPhase' = cpuPhase + 1 /\ request' = request
        /\ cpuPhase' \in 2 .. 5 /\ PhaseIs(request.command, cpuPhase', "ack")
    BY <1>27, CpuSent
  <2>3. AfterHeader' <=> PhaseIs(request.command, cpuPhase, "header")
    BY <2>1, <2>2, SMT DEF AfterHeader
  <2>4. ~(PhaseIs(request.command, cpuPhase, "header") /\ PhaseIs(request.command, cpuPhase, "block"))
    BY DEF PhaseIs
  <2>5. CpuTypeOK'
    BY <1>0, <2>0, <2>2, <1>27, SMT DEF CpuHeaderEnd, CpuTypeOK, CpuPcs
  <2>6. CpuInPhase'
    BY <1>0, <2>1, <2>2, <1>27, SMT DEF CpuHeaderEnd, CpuInPhase, LinkCommand
  <2>7. ArgumentsStand'
    BY <1>0, <2>2, SMT DEF ArgumentsStand, LowStands, HighStands
  <2>8. CpuSide'
    BY <1>0, <2>0, <2>1, <2>2, <2>3, <2>4, <1>27, SMT
    DEF CpuHeaderEnd, CpuSide, Posted, NotNext
  <2> QED BY <2>5, <2>6, <2>7, <2>8 DEF CpuHalf
<1>28. CASE CpuBlockEnd
  <2>0. /\ toSpc' \in Ports
        /\ toSpc'.low = toSpc.low /\ toSpc'.high = toSpc.high
        /\ toSpc'.command = toSpc.command /\ toSpc'.check = EndMark
    <3>1. EndMark \in PortValue
      BY <1>0, CodeFacts, RequestFacts
    <3> QED BY <1>0, <1>28, <3>1, CpuWrite DEF CpuBlockEnd, Port
  <2>1. /\ request.command \in LinkCommand /\ PhaseIs(request.command, cpuPhase, "block")
        /\ cpuPhase \in 1 .. 5
    BY <1>0, <1>28, RequestFacts DEF CpuBlockEnd, CpuInPhase, CpuTypeOK
  <2>2. /\ cpuPc' = "ackLow" /\ cpuPhase' = cpuPhase + 1 /\ request' = request
        /\ cpuPhase' \in 2 .. 5 /\ PhaseIs(request.command, cpuPhase', "ack")
    BY <1>28, CpuSent
  <2>3. AfterHeader' <=> PhaseIs(request.command, cpuPhase, "header")
    BY <2>1, <2>2, SMT DEF AfterHeader
  <2>4. ~(PhaseIs(request.command, cpuPhase, "header") /\ PhaseIs(request.command, cpuPhase, "block"))
    BY DEF PhaseIs
  <2>5. CpuTypeOK'
    BY <1>0, <2>0, <2>2, <1>28, SMT DEF CpuBlockEnd, CpuTypeOK, CpuPcs
  <2>6. CpuInPhase'
    BY <1>0, <2>1, <2>2, <1>28, SMT DEF CpuBlockEnd, CpuInPhase, LinkCommand
  <2>7. ArgumentsStand'
    BY <1>0, <2>2, SMT DEF ArgumentsStand, LowStands, HighStands
  <2>8. CpuSide'
    BY <1>0, <2>0, <2>1, <2>2, <2>3, <2>4, <1>28, SMT
    DEF CpuBlockEnd, CpuSide, Posted, NotNext
  <2> QED BY <2>5, <2>6, <2>7, <2>8 DEF CpuHalf
<1> QED
  BY <1>1, <1>2, <1>3, <1>4, <1>5, <1>6, <1>7, <1>8, <1>9, <1>10,
     <1>11, <1>12, <1>13, <1>14, <1>15, <1>16, <1>17, <1>18, <1>19, <1>20,
     <1>21, <1>22, <1>23, <1>24, <1>25, <1>26, <1>27, <1>28
  DEF CpuStep

-----------------------------------------------------------------------------
(* The driver's half of the invariant. *)

(* A write of the driver changes the one port it names. *)
LEMMA SpcWrite ==
    ASSUME toCpu \in Ports, NEW port \in Port, NEW v \in PortValue, SpcWrites(port, v)
    PROVE  /\ toCpu' \in Ports
           /\ toCpu'.high = IF port = "high" THEN v ELSE toCpu.high
           /\ toCpu'.command = IF port = "command" THEN v ELSE toCpu.command
           /\ toCpu'.check = IF port = "check" THEN v ELSE toCpu.check
  BY SMT DEF SpcWrites, Ports, Port

(* Entering a step of a command goes to the step's first access. *)
LEMMA SpcEnter ==
    ASSUME NEW k, SpcEnters(k), NEW name \in {"ack", "act", "header", "block"},
           StepIs(command, k, name)
    PROVE  /\ spcStep' = k /\ spcPc' = StepEntry(name)
           /\ counter' = IF name = "header" THEN HeaderBytes ELSE counter
  BY DEF SpcEnters, StepIs, SpcGoes

(* Past its last step the driver is back in its main loop. *)
LEMMA SpcLeave ==
    ASSUME NEW k \in Nat, SpcEnters(k), k > Len(SpcSteps(command)), Len(SpcSteps(command)) \in Nat
    PROVE  spcStep' = 1 /\ spcPc' = "main" /\ counter' = counter
  BY SMT DEF SpcEnters, SpcGoes

(* Where an action that ends a step goes. *)
LEMMA SpcRuns ==
    ASSUME IInv, SpcRun
    PROVE  /\ command = request.command /\ AwaitsDispatch
           /\ command \in LinkCommand /\ StepIs(command, 1, "ack")
           /\ spcPc' = "ackLow" /\ spcStep' = 1 /\ counter' = counter /\ command' = command
<1>1. command = request.command /\ request.command # Startup /\ AwaitsDispatch
  BY DEF SpcRun, IInv, Handshake, Together, AwaitsDispatch
<1>2. command \in LinkCommand
  BY <1>1, RequestFacts DEF SpcRun, IInv, TypeOK
<1>3. StepIs(command, 1, "ack")
  BY <1>2, FirstIsAck
<1> QED BY <1>1, <1>2, <1>3, SpcEnter DEF SpcRun, StepEntry

(* An action ends its command. *)
LEMMA SpcActed ==
    ASSUME IInv, SpcAct
    PROVE  spcPc' = "main" /\ spcStep' = 1 /\ counter' = counter /\ command' = command
<1>1. command \in LinkCommand /\ StepIs(command, spcStep, "act") /\ spcStep \in 1 .. 5
  BY DEF IInv, TypeOK, Handshake, SpcAct, SpcInStep, SpcTypeOK
<1>2. spcStep + 1 > Len(SpcSteps(command)) /\ Len(SpcSteps(command)) \in Nat
  BY <1>1, AfterReadOrAct, PhaseTable, SMT
<1> QED BY <1>1, <1>2, SpcLeave, SMT DEF SpcAct

(* The end of an acknowledgement ends the command or enters the next step. *)
LEMMA SpcAcknowledged ==
    ASSUME IInv, SpcAckClearHigh
    PROVE  /\ command \in LinkCommand /\ spcStep \in 1 .. 5 /\ command' = command
           /\ \/ /\ spcPc' = "main" /\ spcStep' = 1 /\ counter' = counter
                 /\ spcStep = LastAck(command)
              \/ /\ spcStep' = spcStep + 1 /\ spcStep' \in 1 .. 5
                 /\ \/ /\ spcPc' = "act" /\ StepIs(command, spcStep', "act")
                       /\ counter' = counter /\ spcStep = LastAck(command)
                    \/ /\ spcPc' = "headerWait" /\ StepIs(command, spcStep', "header")
                       /\ counter' = HeaderBytes
                    \/ /\ spcPc' = "blockStart" /\ StepIs(command, spcStep', "block")
                       /\ counter' = counter
<1> DEFINE k == spcStep + 1
<1>1. command \in LinkCommand /\ StepIs(command, spcStep, "ack") /\ spcStep \in 1 .. 5
  BY DEF IInv, TypeOK, Handshake, SpcAckClearHigh, SpcInStep, SpcTypeOK, SpcHandshake
<1>2. SpcEnters(k) /\ k \in Nat /\ Len(SpcSteps(command)) \in 1 .. 5 /\ command' = command
  BY <1>1, PhaseTable, SMT DEF SpcAckClearHigh, KeepSpcData
<1>3. \A name : StepIs(command, k, name) => k \in 1 .. 5
  BY <1>1, <1>2, SMT DEF StepIs
<1>4. CASE spcStep = LastAck(command) /\ k > Len(SpcSteps(command))
  BY <1>1, <1>2, <1>4, SpcLeave, SMT
<1>5. CASE spcStep = LastAck(command) /\ StepIs(command, k, "act")
  BY <1>1, <1>2, <1>3, <1>5, SpcEnter DEF StepEntry
<1>6. CASE StepIs(command, k, "header")
  BY <1>1, <1>2, <1>3, <1>6, SpcEnter DEF StepEntry
<1>7. CASE StepIs(command, k, "block")
  BY <1>1, <1>2, <1>3, <1>7, SpcEnter DEF StepEntry
<1> QED BY <1>1, <1>4, <1>5, <1>6, <1>7, AfterAck, TablesAgree

(* The end of a transfer enters the acknowledgement that follows it. *)
LEMMA SpcReceived ==
    ASSUME IInv, SpcHeaderEnd \/ (SpcBlockCheck /\ toSpc.check = EndMark)
    PROVE  /\ command \in LinkCommand /\ spcStep \in 1 .. 5
           /\ spcPc' = "ackLow" /\ spcStep' = spcStep + 1 /\ counter' = counter
           /\ command' = command /\ StepIs(command, spcStep', "ack") /\ spcStep' \in 1 .. 5
<1>1. /\ command \in LinkCommand /\ spcStep \in 1 .. 5
      /\ StepIs(command, spcStep, "header") \/ StepIs(command, spcStep, "block")
  BY DEF IInv, TypeOK, Handshake, SpcHeaderEnd, SpcBlockCheck, SpcInStep, SpcTypeOK,
     SpcHeader, SpcBlock
<1>2. StepIs(command, spcStep + 1, "ack") /\ spcStep + 1 \in 1 .. 5
  BY <1>1, TablesAgree, AfterTransfer
<1> QED
  BY <1>1, <1>2, SpcEnter DEF SpcHeaderEnd, SpcBlockCheck, StepEntry, KeepSpcData

(* A pass of the main loop up to the dispatch reads ports and no more. *)
LEMMA PassLeaves ==
    ASSUME SpcPass
    PROVE  /\ UNCHANGED <<toSpc, cpuVars, toCpu, spcStep, counter, late, performed,
                          volume, memory>>
           /\ spcPc \in SpcLooping \ {"run", "runVolume"}
           /\ spcPc' \in SpcLooping \ {"runVolume"}
  BY DEF SpcPass, SpcSeesNothing, SpcPoll, SpcCheck, SpcReadsFirst, SpcReadsLast, SpcGoes,
     KeepSpcResult, SpcOnly, SpcLooping

SpcHalf == SpcTypeOK /\ SpcInStep /\ SpcSide
(* Every step of the driver keeps the driver's half of the invariant. *)
LEMMA SpcKeepsSpcHalf ==
    ASSUME IInv, SpcStepNext
    PROVE  SpcHalf'
<1> USE
DEF SpcGoes, KeepSpcData, SpcOnly, SpcHandshake, SpcHeader, SpcBlock, SpcBooting,
    SpcLooping
<1> USE ByteFacts
<1>0. /\ SpcTypeOK /\ SpcInStep /\ SpcSide /\ toCpu \in Ports /\ toSpc \in Ports
      /\ counter \in Byte /\ 8 \in Byte /\ command \in PortValue
  BY SMT DEF IInv, TypeOK, Handshake, SpcTypeOK, CpuTypeOK, Byte
<1>1. CASE SpcBootWriteLow
  <2>0. /\ toCpu' \in Ports /\ toCpu'.high = toCpu.high
        /\ toCpu'.command = toCpu.command /\ toCpu'.check = toCpu.check
    <3>1. SignatureLow \in PortValue
      BY CodeFacts, SMT DEF PortValue, SignatureLow, SignatureHigh
    <3> QED BY <1>0, <1>1, <3>1, SpcWrite DEF SpcBootWriteLow, Port
  <2>1. SpcTypeOK'
    BY <1>0, <2>0, <1>1, SMT DEF SpcBootWriteLow, SpcTypeOK, SpcPcs, memory, guard
  <2>2. SpcInStep'
    BY <1>0, <1>1, SMT DEF SpcBootWriteLow, SpcInStep
  <2>3. SpcSide'
    BY <1>0, <2>0, <1>1, SMT DEF SpcBootWriteLow, SpcSide, Shown
  <2> QED BY <2>1, <2>2, <2>3 DEF SpcHalf
<1>2. CASE SpcBootWriteHigh
  <2>0. /\ toCpu' \in Ports /\ toCpu'.high = SignatureHigh
        /\ toCpu'.command = toCpu.command /\ toCpu'.check = toCpu.check
    <3>1. SignatureHigh \in PortValue
      BY CodeFacts, SMT DEF PortValue, SignatureLow, SignatureHigh
    <3> QED BY <1>0, <1>2, <3>1, SpcWrite DEF SpcBootWriteHigh, Port
  <2>1. SpcTypeOK'
    BY <1>0, <2>0, <1>2, SMT DEF SpcBootWriteHigh, SpcTypeOK, SpcPcs, memory, guard
  <2>2. SpcInStep'
    BY <1>0, <1>2, SMT DEF SpcBootWriteHigh, SpcInStep
  <2>3. SpcSide'
    BY <1>0, <2>0, <1>2, SMT DEF SpcBootWriteHigh, SpcSide, Shown
  <2> QED BY <2>1, <2>2, <2>3 DEF SpcHalf
<1>3. CASE SpcBootWaitLow
  <2>1. SpcTypeOK'
    BY <1>0, <1>3, SMT DEF SpcBootWaitLow, SpcTypeOK, SpcPcs, memory, guard
  <2>2. SpcInStep'
    BY <1>0, <1>3, SMT DEF SpcBootWaitLow, SpcInStep
  <2>3. SpcSide'
    BY <1>0, <1>3, SMT DEF SpcBootWaitLow, SpcSide, Shown
  <2> QED BY <2>1, <2>2, <2>3 DEF SpcHalf
<1>4. CASE SpcPass
  <2>0. /\ toSpc.low \in PortValue /\ toSpc.high \in PortValue
        /\ toSpc.command \in PortValue /\ 0 \in PortValue
    BY <1>0, SMT DEF Ports, PortValue
  <2>1. command' \in PortValue
    BY <1>0, <1>4, <2>0 DEF SpcPass, SpcSeesNothing, SpcPoll, SpcCheck, SpcReadsFirst, SpcReadsLast
  <2>2. NoArguments \in [low : PortValue, high : PortValue] /\ NoRepeat \in Effects
    BY <2>0, SMT DEF NoArguments, NoRepeat, Effects, Effect
  <2>3. AsRead \in Effects
    BY <1>0, <2>0, SMT DEF AsRead, Effects, Effect, SpcTypeOK
  <2>4. /\ AsRead.low \in PortValue /\ AsRead.high \in PortValue
    BY <2>3, SMT DEF Effects
  <2>5. arguments' \in [low : PortValue, high : PortValue] /\ repeat' \in Effects
    <3>1. CASE SpcSeesNothing \/ SpcPoll \/ SpcCheck
      BY <1>0, <2>2, <3>1 DEF SpcSeesNothing, SpcPoll, SpcCheck, SpcTypeOK, guard
    <3>2. CASE SpcReadsFirst
      BY <1>0, <2>0, <3>2, SMT DEF SpcReadsFirst, SpcTypeOK, NoArguments
    <3>3. ASSUME NEW worked \in BOOLEAN, SpcReadsLast(worked)
          PROVE  arguments' \in [low : PortValue, high : PortValue] /\ repeat' \in Effects
      BY <1>0, <2>2, <2>3, <2>4, <3>3 DEF SpcReadsLast, SpcTypeOK
    <3> QED BY <1>4, <3>1, <3>2, <3>3 DEF SpcPass
  <2>6. SpcTypeOK'
    BY <1>0, <1>4, <2>1, <2>5, PassLeaves, SMT DEF SpcTypeOK, SpcPcs, memory
  <2>7. SpcInStep'
    BY <1>0, <1>4, PassLeaves, SMT DEF SpcInStep
  <2>8. SpcSide'
    BY <1>0, <1>4, PassLeaves, SMT DEF SpcSide, Shown
  <2> QED BY <2>6, <2>7, <2>8 DEF SpcHalf
<1>6. CASE SpcRunVolume
  <2>1. SpcTypeOK'
    BY <1>0, <1>6, SMT DEF SpcRunVolume, SpcTypeOK, SpcPcs, memory, guard, Effects, Ports
  <2>2. SpcInStep'
    BY <1>0, <1>6, SMT DEF SpcRunVolume, SpcInStep
  <2>3. SpcSide'
    BY <1>0, <1>6, SMT DEF SpcRunVolume, SpcSide, Shown, Effects, Ports
  <2> QED BY <2>1, <2>2, <2>3 DEF SpcHalf
<1>7. CASE SpcSetVolume
  <2>1. SpcTypeOK'
    <3>1. repeat' \in Effects /\ arguments' \in [low : PortValue, high : PortValue]
      BY <1>0, <1>7, SMT
      DEF SpcSetVolume, KeepAsRepeat, NoArguments, Effect, SpcTypeOK, Effects, PortValue
    <3>2. volume' \in Effects
      BY <1>0, <1>7, SMT DEF SpcSetVolume, SpcTypeOK, Effects, Ports
    <3> QED BY <1>0, <1>7, <3>1, <3>2, SMT DEF SpcSetVolume, SpcTypeOK, SpcPcs, memory
  <2>2. SpcInStep'
    BY <1>0, <1>7, SMT DEF SpcSetVolume, SpcInStep
  <2>3. SpcSide'
    BY <1>0, <1>7, SMT DEF SpcSetVolume, SpcSide, Shown, Effects, Ports
  <2> QED BY <2>1, <2>2, <2>3 DEF SpcHalf
<1>8. CASE SpcAckLow
  <2>0. /\ toCpu' \in Ports /\ toCpu'.high = toCpu.high
        /\ toCpu'.command = AckLow /\ toCpu'.check = toCpu.check
    <3>1. AckLow \in PortValue
      BY CodeFacts, SMT DEF PortValue, SignatureLow, SignatureHigh
    <3> QED BY <1>0, <1>8, <3>1, SpcWrite DEF SpcAckLow, Port
  <2>1. SpcTypeOK'
    BY <1>0, <2>0, <1>8, SMT DEF SpcAckLow, SpcTypeOK, SpcPcs, memory, guard
  <2>2. SpcInStep'
    BY <1>0, <1>8, SMT DEF SpcAckLow, SpcInStep
  <2>3. SpcSide'
    BY <1>0, <2>0, <1>8, SMT DEF SpcAckLow, SpcSide, Shown
  <2> QED BY <2>1, <2>2, <2>3 DEF SpcHalf
<1>9. CASE SpcAckHigh
  <2>0. /\ toCpu' \in Ports /\ toCpu'.high = toCpu.high
        /\ toCpu'.command = toCpu.command /\ toCpu'.check = AckHigh
    <3>1. AckHigh \in PortValue
      BY CodeFacts, SMT DEF PortValue, SignatureLow, SignatureHigh
    <3> QED BY <1>0, <1>9, <3>1, SpcWrite DEF SpcAckHigh, Port
  <2>1. SpcTypeOK'
    BY <1>0, <2>0, <1>9, SMT DEF SpcAckHigh, SpcTypeOK, SpcPcs, memory, guard
  <2>2. SpcInStep'
    BY <1>0, <1>9, SMT DEF SpcAckHigh, SpcInStep
  <2>3. SpcSide'
    BY <1>0, <2>0, <1>9, SMT DEF SpcAckHigh, SpcSide, Shown
  <2> QED BY <2>1, <2>2, <2>3 DEF SpcHalf
<1>10. CASE SpcAckWaitLow
  <2>1. SpcTypeOK'
    BY <1>0, <1>10, SMT DEF SpcAckWaitLow, SpcTypeOK, SpcPcs, memory, guard
  <2>2. SpcInStep'
    BY <1>0, <1>10, SMT DEF SpcAckWaitLow, SpcInStep
  <2>3. SpcSide'
    BY <1>0, <1>10, SMT DEF SpcAckWaitLow, SpcSide, Shown
  <2> QED BY <2>1, <2>2, <2>3 DEF SpcHalf
<1>11. CASE SpcAckWaitHigh
  <2>1. SpcTypeOK'
    BY <1>0, <1>11, SMT DEF SpcAckWaitHigh, SpcTypeOK, SpcPcs, memory, guard
  <2>2. SpcInStep'
    BY <1>0, <1>11, SMT DEF SpcAckWaitHigh, SpcInStep
  <2>3. SpcSide'
    BY <1>0, <1>11, SMT DEF SpcAckWaitHigh, SpcSide, Shown
  <2> QED BY <2>1, <2>2, <2>3 DEF SpcHalf
<1>12. CASE SpcAckClearLow
  <2>0. /\ toCpu' \in Ports /\ toCpu'.high = toCpu.high
        /\ toCpu'.command = 0 /\ toCpu'.check = toCpu.check
    <3>1. 0 \in PortValue
      BY CodeFacts, SMT DEF PortValue, SignatureLow, SignatureHigh
    <3> QED BY <1>0, <1>12, <3>1, SpcWrite DEF SpcAckClearLow, Port
  <2>1. SpcTypeOK'
    BY <1>0, <2>0, <1>12, SMT DEF SpcAckClearLow, SpcTypeOK, SpcPcs, memory, guard
  <2>2. SpcInStep'
    BY <1>0, <1>12, SMT DEF SpcAckClearLow, SpcInStep
  <2>3. SpcSide'
    BY <1>0, <2>0, <1>12, SMT DEF SpcAckClearLow, SpcSide, Shown
  <2> QED BY <2>1, <2>2, <2>3 DEF SpcHalf
<1>13. CASE SpcHeaderWait
  <2>1. SpcTypeOK'
    BY <1>0, <1>13, SMT DEF SpcHeaderWait, SpcTypeOK, SpcPcs, memory, guard
  <2>2. SpcInStep'
    BY <1>0, <1>13, SMT DEF SpcHeaderWait, SpcInStep
  <2>3. SpcSide'
    BY <1>0, <1>13, SMT DEF SpcHeaderWait, SpcSide, Shown
  <2> QED BY <2>1, <2>2, <2>3 DEF SpcHalf
<1>14. CASE SpcHeaderTake
  <2>1. SpcTypeOK'
    <3>1. HeaderBytes + 1 - counter \in 1 .. HeaderBytes
      BY <1>0, <1>14, SMT DEF SpcHeaderTake, SpcSide, HeaderBytes
    <3> QED BY <1>0, <3>1, <1>14, SMT DEF SpcHeaderTake, SpcTypeOK, SpcPcs, memory, guard, Ports
  <2>2. SpcInStep'
    BY <1>0, <1>14, SMT DEF SpcHeaderTake, SpcInStep
  <2>3. SpcSide'
    BY <1>0, <1>14, SMT DEF SpcHeaderTake, SpcSide, Shown, Ports, HeaderBytes
  <2> QED BY <2>1, <2>2, <2>3 DEF SpcHalf
<1>15. CASE SpcBlockStart
  <2>1. SpcTypeOK'
    BY <1>0, <1>15, SMT DEF SpcBlockStart, SpcTypeOK, SpcPcs, memory, guard
  <2>2. SpcInStep'
    BY <1>0, <1>15, SMT DEF SpcBlockStart, SpcInStep
  <2>3. SpcSide'
    BY <1>0, <1>15, SMT DEF SpcBlockStart, SpcSide, Shown
  <2> QED BY <2>1, <2>2, <2>3 DEF SpcHalf
<1>16. CASE SpcBlockEcho
  <2>0. /\ toCpu' \in Ports /\ toCpu'.high = toCpu.high
        /\ toCpu'.command = EndMark /\ toCpu'.check = toCpu.check
    <3>1. EndMark \in PortValue
      BY CodeFacts, SMT DEF PortValue, SignatureLow, SignatureHigh
    <3> QED BY <1>0, <1>16, <3>1, SpcWrite DEF SpcBlockEcho, Port
  <2>1. SpcTypeOK'
    BY <1>0, <2>0, <1>16, SMT DEF SpcBlockEcho, SpcTypeOK, SpcPcs, memory, guard, Even
  <2>2. SpcInStep'
    BY <1>0, <1>16, SMT DEF SpcBlockEcho, SpcInStep
  <2>3. SpcSide'
    BY <1>0, <2>0, <1>16, SMT DEF SpcBlockEcho, SpcSide, Shown, Even
  <2> QED BY <2>1, <2>2, <2>3 DEF SpcHalf
<1>17. CASE SpcBlockIndex
  <2>1. SpcTypeOK'
    BY <1>0, <1>17, SMT DEF SpcBlockIndex, SpcTypeOK, SpcPcs, memory, guard
  <2>2. SpcInStep'
    BY <1>0, <1>17, SMT DEF SpcBlockIndex, SpcInStep
  <2>3. SpcSide'
    BY <1>0, <1>17, SMT DEF SpcBlockIndex, SpcSide, Shown
  <2> QED BY <2>1, <2>2, <2>3 DEF SpcHalf
<1>18. CASE SpcBlockLow
  <2>1. SpcTypeOK'
    BY <1>0, <1>18, SMT DEF SpcBlockLow, SpcTypeOK, SpcPcs, memory, guard, Store
  <2>2. SpcInStep'
    BY <1>0, <1>18, SMT DEF SpcBlockLow, SpcInStep
  <2>3. SpcSide'
    BY <1>0, <1>18, SMT DEF SpcBlockLow, SpcSide, Shown, Store
  <2> QED BY <2>1, <2>2, <2>3 DEF SpcHalf
<1>19. CASE SpcBlockHigh
  <2>1. SpcTypeOK'
    BY <1>0, <1>19, SMT DEF SpcBlockHigh, SpcTypeOK, SpcPcs, memory, guard, Store
  <2>2. SpcInStep'
    BY <1>0, <1>19, SMT DEF SpcBlockHigh, SpcInStep
  <2>3. SpcSide'
    BY <1>0, <1>19, SMT DEF SpcBlockHigh, SpcSide, Shown, Store
  <2> QED BY <2>1, <2>2, <2>3 DEF SpcHalf
<1>20. CASE SpcBootWaitHigh
  <2>1. Startup \in LinkCommand /\ command = Startup /\ spcStep = 1 /\ StepIs(Startup, 1, "ack")
    <3>1. Startup \in LinkCommand
      BY SMT DEF LinkCommand, Startup, MusicTrackVolume
    <3> QED BY <3>1, <1>0, <1>20, FirstIsAck DEF SpcBootWaitHigh, SpcInStep
  <2>2. SpcTypeOK'
    BY <1>0, <2>1, <1>20, SMT DEF SpcBootWaitHigh, SpcTypeOK, SpcPcs, memory, guard, AckLow
  <2>3. SpcInStep'
    BY <1>0, <2>1, <1>20, SMT DEF SpcBootWaitHigh, SpcInStep
  <2>4. SpcSide'
    BY <1>0, <2>1, <1>20, SMT DEF SpcBootWaitHigh, SpcSide, Shown, AckLow
  <2> QED BY <2>2, <2>3, <2>4 DEF SpcHalf
<1>21. CASE SpcRun
  <2>1. command \in LinkCommand /\ StepIs(command, 1, "ack")
    BY <1>21, SpcRuns
  <2>2. spcPc' = "ackLow" /\ spcStep' = 1 /\ counter' = counter /\ command' = command
    BY <1>21, SpcRuns
  <2>3. toCpu' \in Ports /\ toCpu'.command = toCpu.command /\ toCpu'.check = toCpu.check
    <3>1. allocated % ByteSize \in PortValue /\ allocated \div ByteSize \in PortValue
      BY <1>0, ByteOf, HighByteOf DEF SpcTypeOK
    <3>2. Slack \subseteq PortValue
      BY RomAssumption
    <3>3. toCpu.high \in PortValue
      BY <1>0 DEF Ports
    <3>4. toCpu' = toCpu \/ \E v, w \in PortValue :
            toCpu' = [low |-> v, high |-> w, command |-> toCpu.command, check |-> toCpu.check]
      BY <1>21, <3>1, <3>2, <3>3 DEF SpcRun, SpcReports
    <3>5. CASE toCpu' = toCpu
      BY <1>0, <3>5
    <3>6. ASSUME NEW v \in PortValue, NEW w \in PortValue,
                 toCpu' = [low |-> v, high |-> w, command |-> toCpu.command, check |-> toCpu.check]
          PROVE  toCpu' \in Ports /\ toCpu'.command = toCpu.command /\ toCpu'.check = toCpu.check
      BY <1>0, <3>6, SMT DEF Ports
    <3> QED BY <3>4, <3>5, <3>6
  <2>4. /\ late' \in Effects /\ performed' \in Effects /\ volume' = volume
        /\ aram' = aram /\ samples' = samples /\ header' = header /\ repeat' = repeat
        /\ arguments' \in [low : PortValue, high : PortValue]
    <3>1. arguments' \in [low : PortValue, high : PortValue]
      BY <1>21, SMT DEF SpcRun, NoArguments, PortValue
    <3>2. /\ late' \in Effects /\ performed' \in Effects /\ volume' = volume
          /\ repeat' = repeat
      <4>1. Effect(command, toSpc.low, toSpc.high) \in Effects
        BY <1>0, SMT DEF Effect, Effects, Ports
      <4> QED BY <1>0, <1>21, <4>1 DEF SpcRun, SpcTypeOK
    <3>3. aram' = aram /\ samples' = samples /\ header' = header
      BY <1>21 DEF SpcRun, SpcStores
    <3> QED BY <3>1, <3>2, <3>3
  <2>5. allocated' \in Address /\ slot' \in Byte /\ transfer' \in Address /\ stream' \in Address
    <3>1. toSpc.low \in PortValue /\ toSpc.high \in PortValue
      BY <1>0 DEF Ports
    <3>2. Word(toSpc.low, toSpc.high) \in Address
      BY <3>1, WordOf
    <3>3. 4 * toSpc.low \in Nat
      BY <3>1, SMT DEF PortValue
    <3>4. (4 * toSpc.low) % ByteSize \in Byte
      BY <3>3, ByteOf
    <3> QED BY <3>2, <3>4, <1>0, <1>21 DEF SpcRun, SpcStores, SpcTypeOK
  <2>6. SpcTypeOK'
    BY <1>0, <2>2, <2>3, <2>4, <2>5 DEF SpcTypeOK, SpcPcs
  <2>7. SpcInStep'
    BY <2>1, <2>2, SMT DEF SpcInStep
  <2>8. SpcSide'
    BY <1>0, <2>2, <2>3, <1>21, SMT DEF SpcRun, SpcSide, Shown, AckLow
  <2> QED BY <2>6, <2>7, <2>8 DEF SpcHalf
<1>22. CASE SpcAct
  <2>1. spcPc' = "main" /\ spcStep' = 1 /\ counter' = counter /\ command' = command
    BY <1>22, SpcActed
  <2>2. SpcTypeOK'
    BY <1>0, <2>1, <1>22, SMT DEF SpcAct, SpcTypeOK, SpcPcs, memory, guard
  <2>3. SpcInStep'
    BY <1>0, <2>1, <1>22, SMT DEF SpcAct, SpcInStep
  <2>4. SpcSide'
    BY <1>0, <2>1, <1>22, SMT DEF SpcAct, SpcSide, Shown
  <2> QED BY <2>2, <2>3, <2>4 DEF SpcHalf
<1>23. CASE SpcAckClearHigh
  <2>1. command \in LinkCommand /\ StepIs(command, spcStep, "ack") /\ spcStep \in 1 .. 5
    BY <1>0, <1>23 DEF SpcAckClearHigh, SpcInStep, SpcTypeOK
  <2>0. /\ toCpu' \in Ports /\ toCpu'.high = toCpu.high
        /\ toCpu'.command = toCpu.command /\ toCpu'.check = 0
    <3>1. 0 \in PortValue
      BY CodeFacts
    <3> QED BY <1>0, <1>23, <3>1, SpcWrite DEF SpcAckClearHigh, Port
  <2>2. \/ spcPc' = "main" /\ spcStep' = 1 /\ counter' = counter
        \/ /\ spcStep' = spcStep + 1 /\ spcStep' \in 1 .. 5
           /\ \/ spcPc' = "act" /\ StepIs(command, spcStep', "act") /\ counter' = counter
              \/ /\ spcPc' = "headerWait" /\ StepIs(command, spcStep', "header")
                 /\ counter' = HeaderBytes
              \/ spcPc' = "blockStart" /\ StepIs(command, spcStep', "block") /\ counter' = counter
    BY <1>23, SpcAcknowledged
  <2>3. Shown(0, 0)' /\ command' = command
    BY <2>0, <1>0, <1>23 DEF SpcSide, Shown, SpcAckClearHigh
  <2>4. SpcTypeOK'
    <3>1. spcPc' \in SpcPcs /\ spcStep' \in 1 .. 5 /\ counter' \in Byte
      BY <1>0, <2>2, SMT DEF SpcPcs, HeaderBytes
    <3> QED BY <1>0, <2>0, <3>1, <1>23, SMT DEF SpcAckClearHigh, SpcTypeOK, memory, guard
  <2>5. SpcInStep'
    BY <2>1, <2>2, <2>3, SMT DEF SpcInStep
  <2>6. SpcSide'
    <3>1. spcPc' \in {"main", "act", "headerWait", "blockStart"}
          /\ (spcPc' = "headerWait" => counter' = HeaderBytes)
      BY <2>2
    <3>2. CASE spcPc' = "headerWait"
      BY <2>3, <3>1, <3>2, SMT DEF SpcSide, Shown, HeaderBytes
    <3>3. CASE spcPc' \in {"main", "act", "blockStart"}
      BY <2>3, <3>3, SMT DEF SpcSide, Shown
    <3> QED BY <3>1, <3>2, <3>3
  <2> QED BY <2>4, <2>5, <2>6 DEF SpcHalf
<1>24. CASE SpcHeaderReply
  <2>1. counter \in 1 .. HeaderBytes /\ counter \in Byte /\ counter - 1 \in Byte
    BY <1>0, <1>24, SMT DEF SpcHeaderReply, SpcSide, Byte, HeaderBytes
  <2>0. /\ toCpu' \in Ports /\ toCpu'.high = toCpu.high
        /\ toCpu'.command = WithBit7(counter) /\ toCpu'.check = toCpu.check
    <3>1. WithBit7(counter) \in PortValue
      BY <2>1, BitFacts
    <3> QED BY <1>0, <1>24, <3>1, SpcWrite DEF SpcHeaderReply, Port
  <2>2. /\ allocated' \in Address /\ slot' \in Byte /\ transfer' \in Address
        /\ stream' \in Address /\ header' = header
    <3>1. CASE counter = 1
      <4>1. header[1] \in PortValue /\ header[2] \in PortValue
        BY <1>0, SMT DEF SpcTypeOK, HeaderBytes
      <4>2. Word(header[1], header[2]) \in Address
        BY <4>1, WordOf
      <4>3. allocated + Word(header[1], header[2]) \in Nat /\ slot + 4 \in Nat
        <5>1. allocated \in Nat /\ Word(header[1], header[2]) \in Nat
          BY <1>0, <4>2 DEF SpcTypeOK
        <5> QED BY <1>0, <5>1, SMT DEF SpcTypeOK, Byte
      <4>4. (allocated + Word(header[1], header[2])) % MemorySize \in Address
            /\ (slot + 4) % ByteSize \in Byte
        BY <4>3, AddressOf, ByteOf
      <4> QED BY <3>1, <4>4, <1>0, <1>24
      DEF SpcHeaderReply, DefineSampleFromHeader, SpcTypeOK
    <3>2. CASE counter # 1
      BY <3>2, <1>0, <1>24 DEF SpcHeaderReply, SpcTypeOK, memory, guard
    <3> QED BY <3>1, <3>2
  <2>3. /\ counter' = counter - 1 /\ spcStep' = spcStep /\ command' = command
        /\ spcPc' = IF counter = 1 THEN "headerEnd" ELSE "headerWait"
    BY <1>24 DEF SpcHeaderReply
  <2>4. SpcTypeOK'
    BY <1>0, <2>0, <2>1, <2>2, <2>3, <1>24 DEF SpcHeaderReply, SpcTypeOK, SpcPcs, guard
  <2>5. SpcInStep'
    BY <1>0, <2>3, <1>24, SMT DEF SpcHeaderReply, SpcInStep
  <2>6. SpcSide'
    <3>1. toCpu'.command = WithBit7(counter) /\ toCpu'.check = 0
      BY <1>0, <2>0, <1>24 DEF SpcHeaderReply, SpcSide, Shown
    <3>2. CASE counter = 1
      BY <2>3, <3>1, <3>2, SMT DEF SpcSide, Shown
    <3>3. CASE counter # 1
      <4>1. counter' \in 1 .. HeaderBytes /\ counter' # HeaderBytes /\ counter = counter' + 1
        BY <2>1, <2>3, <3>3, SMT DEF HeaderBytes
      <4> QED BY <2>3, <3>1, <3>3, <4>1, SMT DEF SpcSide, Shown
    <3> QED BY <3>2, <3>3
  <2> QED BY <2>4, <2>5, <2>6 DEF SpcHalf
<1>25. CASE SpcHeaderEnd
  <2>1. /\ spcPc' = "ackLow" /\ spcStep' = spcStep + 1 /\ counter' = counter /\ command' = command
        /\ StepIs(command, spcStep', "ack") /\ spcStep' \in 1 .. 5 /\ command \in LinkCommand
    BY <1>25, SpcReceived
  <2>2. WithBit7(1) # AckLow
    BY ByteFacts, SMT DEF WithBit7, AckLow
  <2>3. SpcTypeOK'
    BY <1>0, <2>1, <2>2, <1>25, SMT DEF SpcHeaderEnd, SpcTypeOK, SpcPcs, memory, guard
  <2>4. SpcInStep'
    BY <1>0, <2>1, <2>2, <1>25, SMT DEF SpcHeaderEnd, SpcInStep
  <2>5. SpcSide'
    BY <1>0, <2>1, <2>2, <1>25, SMT DEF SpcHeaderEnd, SpcSide, Shown
  <2> QED BY <2>3, <2>4, <2>5 DEF SpcHalf
<1>26. CASE SpcBlockCheck
  <2>1. /\ counter' = counter /\ command' = command /\ toCpu' = toCpu
        /\ \/ spcPc' = "blockIndex" /\ spcStep' = spcStep
           \/ /\ spcPc' = "ackLow" /\ spcStep' = spcStep + 1 /\ StepIs(command, spcStep', "ack")
              /\ spcStep' \in 1 .. 5 /\ command \in LinkCommand
    <3>3. CASE toSpc.check = EndMark
      BY <3>3, <1>26, SpcReceived DEF SpcBlockCheck
    <3>4. CASE toSpc.check # EndMark
      BY <3>4, <1>26 DEF SpcBlockCheck
    <3> QED BY <3>3, <3>4
  <2>2. toCpu.command # AckLow
    <3>1. toCpu.command \in {EndMark, WithBit7(PrevPair(counter))} /\ Even(counter)
      BY <1>0, <1>26, SMT DEF SpcBlockCheck, SpcSide
    <3>2. EndMark # AckLow
      BY SMT DEF EndMark, AckLow
    <3> QED BY <3>1, <3>2, <1>0, PairFacts
  <2>3. SpcTypeOK'
    BY <1>0, <2>1, <2>2, <1>26, SMT DEF SpcBlockCheck, SpcTypeOK, SpcPcs, memory, guard
  <2>4. SpcInStep'
    BY <1>0, <2>1, <2>2, <1>26, SMT DEF SpcBlockCheck, SpcInStep
  <2>5. SpcSide'
    BY <1>0, <2>1, <2>2, <1>26, SMT DEF SpcBlockCheck, SpcSide, Shown
  <2> QED BY <2>3, <2>4, <2>5 DEF SpcHalf
<1>27. CASE SpcBlockReply
  <2>1. Even(counter)
    BY <1>0, <1>27, SMT DEF SpcBlockReply, SpcSide
  <2>0. /\ toCpu' \in Ports /\ toCpu'.high = toCpu.high
        /\ toCpu'.command = WithBit7(counter) /\ toCpu'.check = toCpu.check
    <3>1. WithBit7(counter) \in PortValue
      BY <1>0, BitFacts
    <3> QED BY <1>0, <1>27, <3>1, SpcWrite DEF SpcBlockReply, Port
  <2>2. /\ NextPair(counter) \in Byte /\ Even(NextPair(counter))
        /\ PrevPair(NextPair(counter)) = counter
    BY <2>1, <1>0, PairFacts
  <2>3. stream' \in Address /\ transfer' \in Address
    <3>1. \A cursor \in Address : Advanced(cursor) \in Address
      <4> SUFFICES ASSUME NEW cursor \in Address
                   PROVE  Advanced(cursor) \in Address
        OBVIOUS
      <4>1. cursor + ByteSize \in Nat
        BY SMT
      <4> QED BY <4>1, AddressOf DEF Advanced
    <3> QED BY <3>1, <1>0, <1>27 DEF SpcBlockReply, SpcTypeOK
  <2>4. counter' = NextPair(counter) /\ spcPc' = "blockCheck"
    BY <1>27 DEF SpcBlockReply
  <2>5. SpcTypeOK'
    BY <1>0, <2>0, <2>2, <2>3, <2>4, <1>27 DEF SpcBlockReply, SpcTypeOK, SpcPcs, guard
  <2>6. SpcInStep'
    BY <1>0, <1>27, SMT DEF SpcBlockReply, SpcInStep
  <2>7. SpcSide'
    <3>1. toCpu'.command = WithBit7(PrevPair(counter')) /\ toCpu'.check = 0 /\ Even(counter')
      BY <1>0, <2>0, <2>2, <2>4, <1>27 DEF SpcBlockReply, SpcSide
    <3> QED BY <2>4, <3>1, SMT DEF SpcSide
  <2> QED BY <2>5, <2>6, <2>7 DEF SpcHalf
<1> QED
  BY <1>1, <1>2, <1>3, <1>4, <1>6, <1>7, <1>8, <1>9, <1>10,
     <1>11, <1>12, <1>13, <1>14, <1>15, <1>16, <1>17, <1>18, <1>19, <1>20,
     <1>21, <1>22, <1>23, <1>24, <1>25, <1>26, <1>27
  DEF SpcStepNext

-----------------------------------------------------------------------------
(* How far apart the two sides can be. *)

(* The values of the protocol's codes. *)
LEMMA Codes ==
    /\ EndMark = 255 /\ AckLow = 205 /\ AckHigh = 239 /\ SignatureLow = 171
    /\ SignatureHigh = 205 /\ StartupReplyLow = 103 /\ StartupReplyHigh = 137
    /\ MusicTrackVolume = 26 /\ Startup = 0 /\ CommandLimit = 34 /\ HeaderBytes = 8
  BY DEF EndMark, AckLow, AckHigh, SignatureLow, SignatureHigh, StartupReplyLow,
     StartupReplyHigh, MusicTrackVolume, Startup, CommandLimit, HeaderBytes

(* Nothing is transferred behind the last acknowledgement. *)
LEMMA LastIsLast ==
    ASSUME NEW c \in LinkCommand
    PROVE  LET k == LastAck(c) + 1
           IN  ~StepIs(c, k, "header") /\ ~StepIs(c, k, "block")
  BY PhaseTable, SMT DEF StepIs

(* Every step of the game keeps the two sides together. *)
LEMMA CpuKeepsTogether ==
    ASSUME IInv, CpuBegin \/ CpuMark \/ CpuStep
    PROVE  Together'
<1> USE DEF CpuGoes, KeepCpuData, CpuOnly, CpuPosting, CpuHandshake, CpuBooting, CpuHeader,
            CpuBlock, SpcHandshake, SpcHeader, SpcBlock, SpcBooting, SpcLooping,
            Same, Freed, Behind, Ahead, Done, AwaitsDispatch, spcVars, Posted, Shown
<1> USE ByteFacts
<1>0. /\ Together /\ CpuSide /\ SpcSide /\ SpcInStep /\ CpuInPhase
      /\ CpuTypeOK /\ SpcTypeOK /\ toSpc \in Ports
  BY DEF IInv, TypeOK, Handshake, CpuTypeOK
<1>1. CASE CpuBootSeesLow
  BY <1>0, <1>1, SMT DEF CpuBootSeesLow, Together, CpuSide, SpcSide, CpuWrites, Ports
<1>2. CASE CpuBootSeesHigh
  BY <1>0, <1>2, Codes, SMT
  DEF CpuBootSeesHigh, Together, CpuSide, SpcSide, CpuWrites, Ports
<1>3. CASE CpuBootRepliesLow
  BY <1>0, <1>3, SMT DEF CpuBootRepliesLow, Together, CpuSide, SpcSide, CpuWrites, Ports
<1>4. CASE CpuMark
  BY <1>0, <1>4, SMT DEF CpuMark, Together, CpuSide, SpcSide, CpuWrites, Ports
<1>5. CASE CpuWriteLow
  BY <1>0, <1>5, SMT DEF CpuWriteLow, Together, CpuSide, SpcSide, CpuWrites, Ports
<1>6. CASE CpuWriteHigh
  BY <1>0, <1>6, SMT DEF CpuWriteHigh, Together, CpuSide, SpcSide, CpuWrites, Ports
<1>7. CASE CpuWriteMode
  BY <1>0, <1>7, SMT DEF CpuWriteMode, Together, CpuSide, SpcSide, CpuWrites, Ports
<1>8. CASE CpuSeeAckHigh
  BY <1>0, <1>8, Codes, SMT DEF CpuSeeAckHigh, Together, CpuSide, SpcSide, CpuWrites, Ports
<1>9. CASE CpuClearLow
  BY <1>0, <1>9, SMT DEF CpuClearLow, Together, CpuSide, SpcSide, CpuWrites, Ports
<1>10. CASE CpuClearHigh
  BY <1>0, <1>10, SMT DEF CpuClearHigh, Together, CpuSide, SpcSide, CpuWrites, Ports
<1>11. CASE CpuSeeFreeLow
  BY <1>0, <1>11, Codes, SMT DEF CpuSeeFreeLow, Together, CpuSide, SpcSide, CpuWrites, Ports
<1>12. CASE CpuHeaderData
  BY <1>0, <1>12, SMT DEF CpuHeaderData, Together, CpuSide, SpcSide, CpuWrites, Ports
<1>13. CASE CpuHeaderIndex
  BY <1>0, <1>13, SMT DEF CpuHeaderIndex, Together, CpuSide, SpcSide, CpuWrites, Ports
<1>14. CASE CpuBlockStart
  BY <1>0, <1>14, SMT DEF CpuBlockStart, Together, CpuSide, SpcSide, CpuWrites, Ports
<1>15. CASE CpuBlockEcho
  BY <1>0, <1>15, Codes, SMT DEF CpuBlockEcho, Together, CpuSide, SpcSide, CpuWrites, Ports
<1>16. CASE CpuPairLow
  BY <1>0, <1>16, SMT DEF CpuPairLow, Together, CpuSide, SpcSide, CpuWrites, Ports
<1>17. CASE CpuPairHigh
  BY <1>0, <1>17, SMT DEF CpuPairHigh, Together, CpuSide, SpcSide, CpuWrites, Ports
<1>18. CASE CpuPairIndex
  BY <1>0, <1>18, SMT DEF CpuPairIndex, Together, CpuSide, SpcSide, CpuWrites, Ports
<1>19. CASE CpuBegin
  <2>1. /\ spcPc \in SpcLooping \cup {"act"}
        /\ spcPc \notin {"main", "act", "runVolume"} => command = MusicTrackVolume
    BY <1>0, <1>19, SMT DEF CpuBegin, Together, SpcTypeOK, SpcPcs
  <2>2. cpuPc' \in {"low", "mode"}
    BY <1>19 DEF CpuBegin, FirstAccess
  <2> QED BY <1>19, <2>1, <2>2, SMT DEF CpuBegin, Together
<1>20. CASE CpuSeeAckLow
  <2>1. cpuPc = "ackLow" /\ toCpu.command = AckLow
    BY <1>20 DEF CpuSeeAckLow
  <2>2. /\ spcPc # "headerEnd"
        /\ spcPc \notin {"blockCheck", "blockIndex", "blockLow", "blockHigh", "blockReply"}
    <3>1. WithBit7(1) # AckLow /\ EndMark # AckLow
      BY Codes, SMT DEF WithBit7
    <3>2. Even(counter) => toCpu.command # WithBit7(PrevPair(counter))
      BY <1>0, <2>1, PairFacts DEF SpcTypeOK
    <3> QED BY <1>0, <2>1, <3>1, <3>2, SMT DEF SpcSide
  <2>3. spcPc \in {"ackHigh", "ackWaitLow", "ackWaitHigh"}
    BY <1>0, <2>1, <2>2, Codes, SMT DEF Together, SpcSide, SpcTypeOK, SpcPcs
  <2> QED BY <1>0, <1>20, <2>3, SMT DEF CpuSeeAckLow, Together
<1>21. CASE CpuHeaderPoll
  <2>1. /\ cpuPc = "headerPoll" /\ remaining \in 1 .. HeaderBytes
        /\ toCpu.command = WithBit7(remaining)
    BY <1>0, <1>21, SMT DEF CpuHeaderPoll, CpuSide
  <2>2. \A n \in 1 .. HeaderBytes : WithBit7(n) = n + Bit7
    BY Codes, SMT DEF WithBit7
  <2>3. \/ spcPc = "headerWait" /\ Same /\ remaining = counter + 1
        \/ spcPc = "headerEnd" /\ Same /\ remaining = 1
    BY <1>0, <2>1, <2>2, Codes, SMT DEF Together, SpcSide, SpcTypeOK, SpcPcs
  <2>4. CASE spcPc = "headerWait"
    <3>1. remaining # 1 /\ remaining - 1 = counter
      BY <1>0, <2>1, <2>3, <2>4, SMT DEF SpcSide
    <3> QED BY <1>21, <2>3, <2>4, <3>1, SMT DEF CpuHeaderPoll, Together
  <2>5. CASE spcPc = "headerEnd"
    BY <1>21, <2>3, <2>5, SMT DEF CpuHeaderPoll, Together
  <2> QED BY <2>3, <2>4, <2>5
<1>22. CASE CpuPairPoll
  <2>1. cpuPc = "pairPoll" /\ toCpu.command = WithBit7(sequence) /\ Even(sequence)
    BY <1>0, <1>22, SMT DEF CpuPairPoll, CpuSide
  <2>2. WithBit7(sequence) \notin {AckLow, EndMark, WithBit7(PrevPair(sequence)), 0}
    <3>1. WithBit7(sequence) \in Byte /\ WithBit7(sequence) >= Bit7
      BY <1>0, BitFacts DEF CpuTypeOK
    <3>2. WithBit7(sequence) # 0
      BY <3>1, SMT DEF Byte
    <3> QED BY <1>0, <2>1, <3>2, PairFacts DEF CpuTypeOK
  <2>3. spcPc \in {"blockCheck", "blockIndex"} /\ Same /\ NextPair(sequence) = counter
    BY <1>0, <2>1, <2>2, SMT DEF Together, SpcSide, SpcTypeOK, SpcPcs
  <2> QED BY <1>22, <2>3, SMT DEF CpuPairPoll, Together
<1>23. CASE CpuBootRepliesHigh
  <2>1. spcPc \in {"bootWaitLow", "bootWaitHigh"} /\ command = Startup /\ spcStep = 1
    BY <1>0, <1>23, SMT DEF CpuBootRepliesHigh, Together, SpcInStep, SpcTypeOK, SpcPcs
  <2>2. /\ request.command = Startup /\ request' = request
        /\ Startup \in LinkCommand /\ PhaseIs(Startup, 1, "ack")
    <3>1. Startup \in LinkCommand
      BY Codes, SMT DEF LinkCommand
    <3> QED BY <3>1, <1>0, <1>23, FirstIsAck
    DEF CpuBootRepliesHigh, CpuInPhase, StartupRequest
  <2>3. cpuPc' = "ackLow" /\ cpuPhase' = 1
    BY <1>23, <2>2, CpuEnter DEF CpuBootRepliesHigh, PhaseEntry
  <2> QED BY <1>23, <2>1, <2>2, <2>3, SMT DEF CpuBootRepliesHigh, Together
<1>24. CASE CpuWriteCheck
  <2>1. /\ spcPc \in SpcLooping \cup {"act"}
        /\ spcPc = "check" => command \in {MusicTrackVolume, request.command}
        /\ spcPc \in {"arguments", "readLow", "readHigh", "run"} => command = MusicTrackVolume
    BY <1>0, <1>24, SMT DEF CpuWriteCheck, Together, SpcTypeOK, SpcPcs
  <2>2. /\ request' = request /\ request.command # Startup
        /\ \/ cpuPc' = "idle" /\ request.command = MusicTrackVolume
           \/ cpuPc' = "ackLow" /\ cpuPhase' = 1
    BY <1>24, CpuPosts DEF CpuWriteCheck
  <2> QED BY <1>24, <2>1, <2>2, SMT DEF CpuWriteCheck, Together
<1>25. CASE CpuSeeFreeHigh
  <2>1. cpuPc = "freeHigh" /\ toCpu.check = 0 /\ request' = request /\ UNCHANGED spcVars
    BY <1>25 DEF CpuSeeFreeHigh
  <2>2. \/ /\ spcPc \in SpcLooping \cup {"act"}
           /\ spcPc \notin {"main", "act", "runVolume"} => command = MusicTrackVolume
           /\ cpuPhase = LastAck(request.command)
        \/ spcPc = "headerWait" /\ Behind /\ counter = HeaderBytes
        \/ spcPc = "blockStart" /\ Behind
    BY <1>0, <2>1, Codes, SMT DEF Together, SpcSide, SpcTypeOK, SpcPcs
  <2>3. CASE cpuPc' \in {"idle", "read"} /\ cpuPhase = LastAck(request.command)
    <3>1. ~Behind \/ spcPc \notin {"headerWait", "blockStart"}
      <4>1. spcPc \in {"headerWait", "blockStart"} /\ Behind =>
                StepIs(request.command, cpuPhase + 1, "header")
                \/ StepIs(request.command, cpuPhase + 1, "block")
        BY <1>0, SMT DEF SpcInStep
      <4> QED BY <1>0, <1>25, <2>3, <4>1, CpuFreed, LastIsLast DEF SpcTypeOK
    <3> QED BY <2>1, <2>2, <2>3, <3>1, SMT DEF Together
  <2>4. CASE cpuPc' \in {"headerData", "blockStart"} /\ cpuPhase # LastAck(request.command)
    <3>1. /\ request.command \in LinkCommand /\ cpuPhase' = cpuPhase + 1 /\ cpuPhase' \in 1 .. 5
          /\ cpuPc' = "headerData" => PhaseIs(request.command, cpuPhase', "header")
          /\ cpuPc' = "blockStart" => PhaseIs(request.command, cpuPhase', "block")
      BY <1>25, <2>4, CpuFreed
    <3>2. /\ spcPc = "headerWait" /\ Behind => cpuPc' # "blockStart"
          /\ spcPc = "blockStart" /\ Behind => cpuPc' # "headerData"
      <4>1. ~(StepIs(request.command, cpuPhase', "header") /\ StepIs(request.command, cpuPhase', "block"))
        BY DEF StepIs
      <4>2. /\ spcPc = "headerWait" /\ Behind => StepIs(request.command, cpuPhase', "header")
            /\ spcPc = "blockStart" /\ Behind => StepIs(request.command, cpuPhase', "block")
        BY <1>0, <3>1 DEF SpcInStep
      <4> QED BY <3>1, <4>1, <4>2, TablesAgree
    <3>3. cpuPc' = "headerData" => remaining' = HeaderBytes
      BY <1>25 DEF CpuSeeFreeHigh
    <3> QED BY <2>1, <2>2, <2>4, <3>1, <3>2, <3>3, SMT DEF Together
  <2> QED BY <1>25, <2>3, <2>4, CpuFreed
<1>26. CASE CpuRead
  <2>1. /\ spcPc \in SpcLooping \cup {"act"}
        /\ spcPc \notin {"main", "act", "runVolume"} => command = MusicTrackVolume
    BY <1>0, <1>26, SMT DEF CpuRead, Together, SpcTypeOK, SpcPcs
  <2>2. cpuPc' = "idle"
    <3>1. request.command \in LinkCommand /\ cpuPhase \in 1 .. 5
          /\ PhaseIs(request.command, cpuPhase, "read")
      BY <1>0, <1>26, RequestFacts DEF CpuRead, CpuInPhase, CpuTypeOK
    <3>2. cpuPhase + 1 > Len(CpuPhases(request.command)) /\ Len(CpuPhases(request.command)) \in Nat
      BY <3>1, AfterReadOrAct, PhaseTable, SMT
    <3> QED BY <3>1, <3>2, <1>26, CpuLeave, SMT DEF CpuRead
  <2> QED BY <1>26, <2>1, <2>2, SMT DEF CpuRead, Together
<1>27. CASE CpuHeaderEnd
  <2>1. spcPc = "headerEnd" /\ Same
    BY <1>0, <1>27, SMT DEF CpuHeaderEnd, Together, SpcTypeOK, SpcPcs
  <2>2. cpuPc' = "ackLow" /\ cpuPhase' = cpuPhase + 1 /\ request' = request
    BY <1>27, CpuSent
  <2> QED BY <1>27, <2>1, <2>2, SMT DEF CpuHeaderEnd, Together
<1>28. CASE CpuBlockEnd
  <2>1. spcPc \in {"blockCheck", "blockIndex"} /\ Same /\ sequence = counter
    BY <1>0, <1>28, SMT DEF CpuBlockEnd, Together, SpcTypeOK, SpcPcs
  <2>2. cpuPc' = "ackLow" /\ cpuPhase' = cpuPhase + 1 /\ request' = request
    BY <1>28, CpuSent
  <2> QED BY <1>28, <2>1, <2>2, SMT DEF CpuBlockEnd, Together
<1> QED
  BY <1>1, <1>2, <1>3, <1>4, <1>5, <1>6, <1>7, <1>8, <1>9, <1>10,
     <1>11, <1>12, <1>13, <1>14, <1>15, <1>16, <1>17, <1>18, <1>19, <1>20,
     <1>21, <1>22, <1>23, <1>24, <1>25, <1>26, <1>27, <1>28
  DEF CpuStep

(* Every step of the driver keeps the two sides together. *)
LEMMA SpcKeepsTogether ==
    ASSUME IInv, SpcStepNext
    PROVE  Together'
<1> USE DEF SpcGoes, KeepSpcData, SpcOnly, SpcHandshake, SpcHeader, SpcBlock, SpcBooting,
            SpcLooping, CpuPosting, CpuHandshake, CpuBooting, CpuHeader, CpuBlock,
            Same, Freed, Behind, Ahead, Done, AwaitsDispatch, cpuVars, Posted, Shown
<1> USE ByteFacts
<1>0. /\ Together /\ CpuSide /\ SpcSide /\ SpcInStep /\ CpuInPhase
      /\ CpuTypeOK /\ SpcTypeOK /\ toSpc \in Ports
  BY DEF IInv, TypeOK, Handshake, CpuTypeOK
<1>1. CASE SpcBootWriteLow
  BY <1>0, <1>1, SMT DEF SpcBootWriteLow, Together, CpuSide, SpcSide
<1>2. CASE SpcBootWriteHigh
  BY <1>0, <1>2, SMT DEF SpcBootWriteHigh, Together, CpuSide, SpcSide
<1>3. CASE SpcBootWaitLow
  BY <1>0, <1>3, Codes, SMT DEF SpcBootWaitLow, Together, CpuSide, SpcSide
<1>4. CASE SpcSeesNothing \/ SpcPoll \/ SpcReadsFirst \/ \E worked \in BOOLEAN : SpcReadsLast(worked)
  BY <1>0, <1>4, SMT
  DEF SpcSeesNothing, SpcPoll, SpcReadsFirst, SpcReadsLast, KeepSpcResult, Together, CpuSide,
      SpcSide
<1>5. CASE SpcRunVolume
  BY <1>0, <1>5, SMT DEF SpcRunVolume, Together, CpuSide, SpcSide
<1>6. CASE SpcSetVolume
  BY <1>0, <1>6, SMT DEF SpcSetVolume, Together, CpuSide, SpcSide
<1>7. CASE SpcAckLow
  BY <1>0, <1>7, SMT DEF SpcAckLow, Together, CpuSide, SpcSide
<1>8. CASE SpcAckHigh
  BY <1>0, <1>8, SMT DEF SpcAckHigh, Together, CpuSide, SpcSide
<1>9. CASE SpcAckWaitHigh
  BY <1>0, <1>9, Codes, SMT DEF SpcAckWaitHigh, Together, CpuSide, SpcSide
<1>10. CASE SpcAckClearLow
  BY <1>0, <1>10, SMT DEF SpcAckClearLow, Together, CpuSide, SpcSide
<1>11. CASE SpcHeaderWait
  BY <1>0, <1>11, SMT DEF SpcHeaderWait, Together, CpuSide, SpcSide
<1>12. CASE SpcHeaderTake
  BY <1>0, <1>12, SMT DEF SpcHeaderTake, Together, CpuSide, SpcSide
<1>13. CASE SpcBlockStart
  BY <1>0, <1>13, Codes, SMT DEF SpcBlockStart, Together, CpuSide, SpcSide
<1>14. CASE SpcBlockEcho
  BY <1>0, <1>14, SMT DEF SpcBlockEcho, Together, CpuSide, SpcSide
<1>15. CASE SpcBlockLow
  BY <1>0, <1>15, SMT DEF SpcBlockLow, Together, CpuSide, SpcSide
<1>16. CASE SpcBlockHigh
  BY <1>0, <1>16, SMT DEF SpcBlockHigh, Together, CpuSide, SpcSide
<1>17. CASE SpcBootWaitHigh
  BY <1>0, <1>17, Codes, SMT DEF SpcBootWaitHigh, Together, CpuSide, SpcSide
<1>18. CASE SpcHeaderReply
  BY <1>0, <1>18, SMT DEF SpcHeaderReply, Together, CpuSide, SpcSide
<1>19. CASE SpcCheck
  <2>1. CASE spcPc' = "arguments"
    <3>1. toSpc.check = command /\ command' = command
      BY <1>19, <2>1 DEF SpcCheck
    <3>2. command # MusicTrackVolume => AwaitsDispatch /\ command = request.command
      <4>1. cpuPc = "check" => request.command # EndMark /\ request.command # 0
        BY <1>0, RequestFacts, Codes, SMT DEF CpuInPhase, Startup, GameCommand
      <4> QED BY <1>0, <1>19, <3>1, <4>1, SMT DEF SpcCheck, Together, CpuSide
    <3> QED BY <1>0, <1>19, <2>1, <3>2, SMT DEF SpcCheck, KeepSpcResult, Together
  <2>2. CASE spcPc' = "main"
    BY <1>0, <1>19, <2>2, SMT DEF SpcCheck, KeepSpcResult, Together
  <2> QED BY <1>19, <2>1, <2>2 DEF SpcCheck
<1>20. CASE SpcAckWaitLow
  <2>1. /\ toSpc.command = 0 /\ Same
        /\ cpuPc \in {"ackLow", "ackHigh", "clearLow", "clearHigh", "freeLow"}
    BY <1>0, <1>20, SMT DEF SpcAckWaitLow, Together
  <2>2. cpuPc \in {"ackLow", "ackHigh", "clearLow"} => toSpc.check = EndMark
    <3>1. cpuPhase = 1 \/ cpuPhase > 1
      BY <1>0, SMT DEF CpuTypeOK
    <3> QED BY <1>0, <2>1, <3>1, Codes, SMT DEF CpuSide
  <2> QED BY <1>20, <2>1, <2>2, SMT DEF SpcAckWaitLow, Together
<1>21. CASE SpcBlockIndex
  <2>1. CASE toSpc.command = WithoutBit7(counter)
    <3>1. WithoutBit7(0) = 0
      BY SMT DEF WithoutBit7
    <3>2. WithoutBit7(NextPair(sequence)) # WithoutBit7(sequence)
      BY <1>0, PairFacts DEF CpuTypeOK, CpuSide
    <3>3. Same /\ cpuPc = "pairPoll" /\ sequence = counter
      <4>1. \/ Same /\ cpuPc = "blockEcho" /\ counter = 0
            \/ /\ cpuPc \in {"pairLow", "pairHigh", "pairIndex", "blockEnd"} /\ sequence = counter
            \/ Same /\ cpuPc = "pairPoll" /\ sequence = counter
            \/ cpuPc = "pairPoll" /\ NextPair(sequence) = counter
            \/ Ahead /\ sequence = counter
        BY <1>0, <1>21, SMT DEF SpcBlockIndex, Together
      <4>2. ~(cpuPc = "blockEcho" /\ counter = 0)
        BY <1>0, <2>1, <3>1, Codes, SMT DEF CpuSide
      <4>3. ~(cpuPc \in {"pairLow", "pairHigh", "pairIndex", "blockEnd"} /\ sequence = counter)
        BY <1>0, <2>1, SMT DEF CpuSide, NotNext
      <4>4. ~(cpuPc = "pairPoll" /\ NextPair(sequence) = counter)
        BY <1>0, <2>1, <3>2, SMT DEF CpuSide
      <4>5. ~(Ahead /\ sequence = counter)
        <5>1. Ahead => cpuPhase > 1 /\ PhaseIs(request.command, cpuPhase - 1, "block")
          <6>1. Ahead => spcStep = cpuPhase - 1 /\ cpuPhase > 1
            BY <1>0, SMT DEF CpuTypeOK, SpcTypeOK
          <6>2. StepIs(command, spcStep, "block") /\ command \in LinkCommand /\ spcStep \in 1 .. 5
            BY <1>0, <1>21 DEF SpcBlockIndex, SpcInStep, SpcTypeOK
          <6> QED BY <6>1, <6>2, TablesAgree
        <5>2. Ahead => ~AfterHeader
          BY <5>1 DEF AfterHeader, PhaseIs
        <5> QED BY <1>0, <2>1, <5>1, <5>2, SMT DEF CpuSide, NotNext
      <4> QED BY <4>1, <4>2, <4>3, <4>4, <4>5
    <3> QED BY <1>21, <2>1, <3>3, SMT DEF SpcBlockIndex, Together
  <2>2. CASE toSpc.command # WithoutBit7(counter)
    BY <1>0, <1>21, <2>2, SMT DEF SpcBlockIndex, Together
  <2> QED BY <2>1, <2>2
<1>22. CASE SpcBlockReply
  <2>1. Same /\ cpuPc = "pairPoll" /\ sequence = counter
    BY <1>0, <1>22, SMT DEF SpcBlockReply, Together
  <2> QED BY <1>22, <2>1, SMT DEF SpcBlockReply, Together
<1>23. CASE SpcRun
  <2>1. /\ command = request.command /\ AwaitsDispatch /\ command' = command
        /\ spcPc' = "ackLow" /\ spcStep' = 1
    BY <1>23, SpcRuns
  <2> QED BY <1>23, <2>1, SMT DEF SpcRun, Together
<1>24. CASE SpcAct
  <2>1. Done
    BY <1>0, <1>24 DEF SpcAct, Together
  <2>2. spcPc' = "main"
    BY <1>24, SpcActed
  <2> QED BY <1>24, <2>1, <2>2, SMT DEF SpcAct, Together
<1>25. CASE SpcAckClearHigh
  <2>1. Same /\ Freed
    BY <1>0, <1>25, SMT DEF SpcAckClearHigh, Together
  <2>2. /\ command' = command
        /\ \/ spcPc' \in {"main", "act"} /\ spcStep = LastAck(command)
           \/ spcPc' = "headerWait" /\ spcStep' = spcStep + 1 /\ counter' = HeaderBytes
           \/ spcPc' = "blockStart" /\ spcStep' = spcStep + 1
    BY <1>25, SpcAcknowledged
  <2> QED BY <1>25, <2>1, <2>2, SMT DEF SpcAckClearHigh, Together
<1>26. CASE SpcHeaderEnd
  <2>1. Ahead
    <3>1. WithBit7(1) # EndMark /\ 1 # EndMark
      BY Codes, SMT DEF WithBit7
    <3> QED BY <1>0, <1>26, <3>1, SMT DEF SpcHeaderEnd, Together, CpuSide
  <2>2. spcPc' = "ackLow" /\ spcStep' = spcStep + 1 /\ command' = command
    BY <1>26, SpcReceived
  <2> QED BY <1>26, <2>1, <2>2, SMT DEF SpcHeaderEnd, Together
<1>27. CASE SpcBlockCheck
  <2>1. CASE toSpc.check = EndMark
    <3>1. Ahead
      BY <1>0, <1>27, <2>1, Codes, SMT DEF SpcBlockCheck, Together, CpuSide
    <3>2. spcPc' = "ackLow" /\ spcStep' = spcStep + 1 /\ command' = command
      BY <1>27, <2>1, SpcReceived
    <3> QED BY <1>27, <3>1, <3>2, SMT DEF SpcBlockCheck, Together
  <2>2. CASE toSpc.check # EndMark
    BY <1>0, <1>27, <2>2, SMT DEF SpcBlockCheck, Together
  <2> QED BY <2>1, <2>2
<1> QED
  BY <1>1, <1>2, <1>3, <1>4, <1>5, <1>6, <1>7, <1>8, <1>9, <1>10,
     <1>11, <1>12, <1>13, <1>14, <1>15, <1>16, <1>17, <1>18, <1>19, <1>20,
     <1>21, <1>22, <1>23, <1>24, <1>25, <1>26, <1>27
  DEF SpcStepNext, SpcPass

-----------------------------------------------------------------------------
(* IInv is inductive. *)

(* The state after the driver's start satisfies the invariant. *)
LEMMA InitIInv == Init => IInv
<1> SUFFICES ASSUME Init
             PROVE  IInv
  OBVIOUS
<1> USE Codes DEF Init
<1>1. toSpc \in Ports /\ toCpu \in Ports
  BY SMT DEF Ports, PortValue
<1>2. /\ Effect(Startup, 0, 0) \in Effects
      /\ Effect(MusicTrackVolume, 0, 0) \in Effects
  BY SMT DEF Effect, Effects, PortValue
<1>3. header \in [1 .. HeaderBytes -> PortValue] /\ reply \in [low : PortValue, high : PortValue]
  BY SMT DEF PortValue
<1>4. CpuTypeOK
  BY <1>1, <1>3, ByteFacts DEF CpuTypeOK, CpuPcs
<1>15. arguments \in [low : PortValue, high : PortValue] /\ repeat \in Effects
  BY SMT DEF NoArguments, NoRepeat, Effect, Effects, PortValue
<1>5. SpcTypeOK
  BY <1>1, <1>2, <1>3, <1>15, ByteFacts, CodeFacts DEF SpcTypeOK, SpcPcs
<1>6. CpuInPhase
  BY SMT
  DEF CpuInPhase, CpuHandshake, CpuHeader, CpuBlock, CpuBooting, CpuPosting,
      StartupRequest
<1>7. ArgumentsStand
  BY SMT DEF ArgumentsStand, LowStands, HighStands
<1>8. CpuSide
  BY SMT DEF CpuSide, Posted, CpuPosting, Even
<1>9. SpcInStep
  BY SMT DEF SpcInStep, SpcHandshake, SpcHeader, SpcBlock, SpcBooting, SpcLooping
<1>10. SpcSide
  BY SMT DEF SpcSide, Shown, SpcBooting, SpcLooping
<1>11. Together
  BY SMT DEF Together
<1> QED
  BY <1>4, <1>5, <1>6, <1>7, <1>8, <1>9, <1>10, <1>11 DEF IInv, TypeOK, Handshake

(* Every step keeps the invariant. *)
LEMMA NextIInv == IInv /\ [Next]_vars => IInv'
<1> SUFFICES ASSUME IInv, [Next]_vars
             PROVE  IInv'
  OBVIOUS
<1>1. CASE CpuBegin \/ CpuMark \/ CpuStep
  <2>1. CpuHalf' /\ Together'
    BY <1>1, CpuKeepsCpuHalf, CpuKeepsTogether
  <2>2. UNCHANGED <<toCpu, spcVars>>
    BY <1>1 DEF CpuStep, CpuOnly, CpuBegin, CpuMark, CpuBootSeesLow, CpuBootSeesHigh,
       CpuBootRepliesLow, CpuBootRepliesHigh, CpuWriteLow, CpuWriteHigh, CpuWriteMode,
       CpuWriteCheck, CpuSeeAckLow, CpuSeeAckHigh, CpuClearLow, CpuClearHigh, CpuSeeFreeLow,
       CpuSeeFreeHigh, CpuRead, CpuHeaderData, CpuHeaderIndex, CpuHeaderPoll, CpuHeaderEnd,
       CpuBlockStart, CpuBlockEcho, CpuPairLow, CpuPairHigh, CpuPairIndex, CpuPairPoll,
       CpuBlockEnd
  <2>3. SpcHalf'
    BY <2>2 DEF IInv, TypeOK, Handshake, SpcHalf, SpcTypeOK, SpcInStep, SpcSide, Shown,
       spcVars, memory, guard
  <2> QED BY <2>1, <2>3 DEF CpuHalf, SpcHalf, IInv, TypeOK, Handshake
<1>2. CASE SpcStepNext
  <2>1. SpcHalf' /\ Together'
    BY <1>2, SpcKeepsSpcHalf, SpcKeepsTogether
  <2>2. UNCHANGED <<toSpc, cpuVars>>
    BY <1>2, PassLeaves DEF SpcStepNext, SpcOnly, SpcBootWriteLow, SpcBootWriteHigh, SpcBootWaitLow,
       SpcBootWaitHigh, SpcRunVolume, SpcSetVolume, SpcRun, SpcAct,
       SpcAckLow, SpcAckHigh, SpcAckWaitLow, SpcAckWaitHigh, SpcAckClearLow,
       SpcAckClearHigh, SpcHeaderWait, SpcHeaderTake, SpcHeaderReply, SpcHeaderEnd,
       SpcBlockStart, SpcBlockEcho, SpcBlockCheck, SpcBlockIndex, SpcBlockLow,
       SpcBlockHigh, SpcBlockReply
  <2>3. CpuHalf'
    BY <2>2 DEF IInv, TypeOK, Handshake, CpuHalf, CpuTypeOK, CpuInPhase, ArgumentsStand,
       LowStands, HighStands, CpuSide, Posted, AfterHeader, NotNext, cpuVars
  <2> QED BY <2>1, <2>3 DEF CpuHalf, SpcHalf, IInv, TypeOK, Handshake
<1>3. CASE UNCHANGED vars
  BY <1>3 DEF IInv, TypeOK, CpuTypeOK, SpcTypeOK, Handshake, CpuInPhase, ArgumentsStand,
     LowStands, HighStands, CpuSide, Posted, AfterHeader, NotNext, SpcInStep, SpcSide, Shown,
     Together, Same, Freed, Behind, Ahead, Done, AwaitsDispatch,
     vars, cpuVars, spcVars, memory, guard
<1> QED BY <1>1, <1>2, <1>3 DEF Next

(* The inductive invariant holds in every reachable state. *)
THEOREM Inductive == Spec => []IInv
  BY InitIInv, NextIInv, PTL DEF Spec

(* Every port, register and driver variable keeps its width, for every     *)
(* byte size, Rom and set of requests.                                     *)
THEOREM TypeCorrect == Spec => []TypeOK
<1>1. IInv => TypeOK
  BY DEF IInv
<1> QED BY <1>1, Inductive, PTL

(* No transfer byte, mark or half-written request is taken for a command.  *)
THEOREM OnlyPostedIsDispatched == Spec => []DispatchOnlyPosted
<1>1. IInv => DispatchOnlyPosted
  BY SMT
  DEF IInv, Handshake, Together, AwaitsDispatch, ArgumentsStand, LowStands, HighStands,
     DispatchOnlyPosted
<1> QED BY <1>1, Inductive, PTL

(* The game takes no reply, echo or stale byte for an acknowledgement.     *)
THEOREM AcknowledgementsMatch == Spec => []AcksMatch
<1>1. IInv => AcksMatch
  <2> SUFFICES ASSUME IInv
               PROVE  AcksMatch
    OBVIOUS
  <2>1. Together /\ spcPc \in SpcPcs
    BY DEF IInv, Handshake, TypeOK, SpcTypeOK
  <2> QED
    BY <2>1, SMT DEF Together, SpcPcs, SpcLooping, Same, Freed, Behind, Ahead, Done, AwaitsDispatch,
       CpuPosting, CpuBooting, AcksMatch
<1> QED BY <1>1, Inductive, PTL

(* A pair or header byte is taken only for the index it was sent with.     *)
THEOREM TransfersStayInStep == Spec => []TransfersInStep
<1>1. IInv => TransfersInStep
  BY SMT DEF IInv, Handshake, Together, Same, TransfersInStep
<1> QED BY <1>1, Inductive, PTL

-----------------------------------------------------------------------------
(* The queued action is the call's own. *)

(* The game's steps leave the driver alone, and only a new call changes    *)
(* the request.                                                            *)
LEMMA CpuLeavesDriver ==
    ASSUME CpuBegin \/ CpuMark \/ CpuStep
    PROVE  /\ UNCHANGED <<toCpu, spcVars>>
           /\ CpuMark \/ CpuStep => request' = request
  BY DEF CpuStep, CpuOnly, CpuBegin, CpuMark, CpuBootSeesLow, CpuBootSeesHigh,
     CpuBootRepliesLow, CpuBootRepliesHigh, CpuWriteLow, CpuWriteHigh, CpuWriteMode,
     CpuWriteCheck, CpuSeeAckLow, CpuSeeAckHigh, CpuClearLow, CpuClearHigh, CpuSeeFreeLow,
     CpuSeeFreeHigh, CpuRead, CpuHeaderData, CpuHeaderIndex, CpuHeaderPoll, CpuHeaderEnd,
     CpuBlockStart, CpuBlockEcho, CpuPairLow, CpuPairHigh, CpuPairIndex, CpuPairPoll,
     CpuBlockEnd

(* The deferred commands are those with an action step, and no other part  *)
(* follows their acknowledgement.                                          *)
LEMMA OnlyDeferredAct ==
    ASSUME NEW c \in LinkCommand, NEW k \in 1 .. 5
    PROVE  /\ StepIs(c, k, "act") => c \in Deferred
           /\ c \in Deferred => ~StepIs(c, k, "header") /\ ~StepIs(c, k, "block")
<1>1. CASE c \in Deferred
  <2>1. SpcSteps(c) = <<"ack", "act">>
    BY <1>1, SMT DEF SpcSteps, Deferred, PlaySong, PlayEffect, FadeInSong, StopEffect,
       UploadSample, Upload, UploadAtCursor, DefineSample
  <2> QED BY <1>1, <2>1, SMT DEF StepIs
<1>2. CASE c \notin Deferred
  <2>1. \/ SpcSteps(c) = <<"ack", "header", "ack", "block", "ack">>
        \/ SpcSteps(c) = <<"ack", "block", "ack">>
        \/ SpcSteps(c) = <<"ack", "header", "ack">>
        \/ SpcSteps(c) = <<"ack">>
    BY <1>2 DEF SpcSteps
  <2> QED BY <1>2, <2>1, SMT DEF StepIs
<1> QED BY <1>1, <1>2

(* The driver's steps leave the game alone. *)
LEMMA SpcLeavesGame ==
    ASSUME SpcStepNext
    PROVE  UNCHANGED <<toSpc, cpuVars>>
  BY PassLeaves DEF SpcStepNext, SpcOnly, SpcBootWriteLow, SpcBootWriteHigh, SpcBootWaitLow,
     SpcBootWaitHigh, SpcRunVolume, SpcSetVolume, SpcRun, SpcAct,
     SpcAckLow, SpcAckHigh, SpcAckWaitLow, SpcAckWaitHigh, SpcAckClearLow,
     SpcAckClearHigh, SpcHeaderWait, SpcHeaderTake, SpcHeaderReply, SpcHeaderEnd,
     SpcBlockStart, SpcBlockEcho, SpcBlockCheck, SpcBlockIndex, SpcBlockLow,
     SpcBlockHigh, SpcBlockReply

(* While the driver is in its main loop or about to act, the game does not *)
(* get past an acknowledgement it was not past before.                     *)
LEMMA CpuStaysDone ==
    ASSUME IInv, CpuStep \/ CpuMark, spcPc = "act", (Freed \/ cpuPc = "read")'
    PROVE  Freed \/ cpuPc = "read"
<1>1. Done /\ toCpu.command = 0
  BY DEF IInv, Handshake, Together, SpcSide, Shown
<1>2. ~(cpuPc \in CpuPosting) /\ ~(cpuPc = "ackLow")
  <2>1. cpuPc' \notin CpuPosting \cup {"ackLow"}
    BY DEF Freed, CpuPosting
  <2>2. SUFFICES ASSUME cpuPc \in CpuPosting \cup {"ackLow"}
                 PROVE  FALSE
    OBVIOUS
  <2>3. CASE CpuWriteCheck
    BY <2>1, <2>3, CpuPosts DEF CpuPosting
  <2>4. CASE CpuMark \/ CpuWriteLow \/ CpuWriteHigh \/ CpuWriteMode
    BY <2>1, <2>2, <2>4 DEF CpuMark, CpuWriteLow, CpuWriteHigh, CpuWriteMode, CpuGoes, CpuPosting
  <2>5. ~CpuSeeAckLow
    BY <1>1, SMT DEF CpuSeeAckLow, AckLow
  <2> QED
    BY <2>2, <2>3, <2>4, <2>5
    DEF CpuStep, CpuPosting, CpuBootSeesLow, CpuBootSeesHigh,
      CpuBootRepliesLow, CpuBootRepliesHigh, CpuSeeAckHigh, CpuClearLow, CpuClearHigh,
      CpuSeeFreeLow, CpuSeeFreeHigh, CpuRead, CpuHeaderData, CpuHeaderIndex, CpuHeaderPoll,
      CpuHeaderEnd, CpuBlockStart, CpuBlockEcho, CpuPairLow, CpuPairHigh, CpuPairIndex,
      CpuPairPoll, CpuBlockEnd
<1> QED BY <1>1, <1>2 DEF Done, AwaitsDispatch

(* A request is used without the ports that carry no argument of it. *)
LEMMA UsedArguments ==
    ASSUME ArgumentsStand, AwaitsDispatch
    PROVE  Used(Effect(request.command, toSpc.low, toSpc.high)) = Called(request)
  BY DEF Used, Called, Effect, ArgumentsStand, AwaitsDispatch, LowStands, HighStands

(* Every step keeps the queued action the call's own. *)
LEMMA NextLateIsOwn == IInv /\ LateIsOwn /\ [Next]_vars => LateIsOwn'
<1> SUFFICES ASSUME IInv, LateIsOwn, [Next]_vars
             PROVE  LateIsOwn'
  OBVIOUS
<1>1. CASE CpuBegin
  <2>1. spcPc' = spcPc /\ cpuPc = "idle" /\ cpuPc' \in {"low", "mode"}
    BY <1>1 DEF CpuBegin, CpuOnly, spcVars, CpuGoes, FirstAccess
  <2>2. spcPc \notin SpcHandshake
    BY <2>1, SMT DEF IInv, Handshake, Together, SpcHandshake, Freed
  <2> QED BY <2>1, <2>2 DEF LateIsOwn, Freed
<1>2. CASE CpuMark \/ CpuStep
  <2>1. UNCHANGED <<spcPc, command, late, request>>
    BY <1>2, CpuLeavesDriver DEF spcVars
  <2>2. spcPc = "act" /\ (Freed \/ cpuPc = "read")' => Freed \/ cpuPc = "read"
    BY <1>2, CpuStaysDone
  <2> QED BY <2>1, <2>2 DEF LateIsOwn, Called, Used
<1>3. CASE SpcStepNext
  <2>1. UNCHANGED <<request, cpuPc, toSpc>> /\ (Freed' <=> Freed)
    BY <1>3, SpcLeavesGame DEF cpuVars, Freed
  <2>2. CASE SpcRun
    <3>1. /\ command = request.command /\ AwaitsDispatch /\ command' = command
          /\ spcPc' = "ackLow"
      BY <2>2, SpcRuns
    <3>2. command \in Deferred => late' = Effect(request.command, toSpc.low, toSpc.high)
      BY <2>2, <3>1 DEF SpcRun
    <3>3. command \in Deferred => Used(late)' = Called(request)'
      BY <2>1, <3>1, <3>2, UsedArguments DEF IInv, Handshake, Used, Called
    <3> QED BY <3>1, <3>3 DEF LateIsOwn
  <2>3. CASE SpcAckClearHigh
    <3>1. /\ late' = late /\ command' = command /\ command = request.command
          /\ spcPc = "ackClearHigh"
      BY <2>3 DEF SpcAckClearHigh, KeepSpcData, IInv, Handshake, Together, Same
    <3>2. \/ spcPc' \in {"main", "headerWait", "blockStart"}
          \/ spcPc' = "act" /\ StepIs(command, spcStep', "act") /\ spcStep' \in 1 .. 5
             /\ command \in LinkCommand
      BY <2>3, SpcAcknowledged
    <3>3. spcPc' = "act" => command \in Deferred
      BY <3>2, OnlyDeferredAct
    <3> QED BY <2>1, <3>1, <3>2, <3>3 DEF LateIsOwn, SpcHandshake, Called, Used
  <2>4. CASE SpcAct
    BY <2>4, SpcActed DEF LateIsOwn, SpcHandshake
  <2>5. CASE SpcAckLow \/ SpcAckHigh \/ SpcAckWaitLow \/ SpcAckWaitHigh \/ SpcAckClearLow
    <3>1. /\ late' = late /\ command' = command /\ spcPc \in SpcHandshake /\ spcPc' # "act"
      BY <2>5 DEF SpcAckLow, SpcAckHigh, SpcAckWaitLow, SpcAckWaitHigh, SpcAckClearLow,
         KeepSpcData, SpcHandshake, SpcGoes
    <3> QED BY <2>1, <3>1 DEF LateIsOwn, Called, Used
  <2>6. CASE SpcHeaderEnd \/ (SpcBlockCheck /\ toSpc.check = EndMark)
    <3>1. /\ command' = command /\ spcPc' = "ackLow" /\ command \in LinkCommand
          /\ StepIs(command, spcStep, "header") \/ StepIs(command, spcStep, "block")
      BY <2>6, SpcReceived DEF IInv, Handshake, SpcInStep, SpcHeaderEnd, SpcBlockCheck,
         SpcHeader, SpcBlock
    <3>2. command \notin Deferred
      BY <3>1, OnlyDeferredAct DEF IInv, TypeOK, SpcTypeOK
    <3> QED BY <3>1, <3>2 DEF LateIsOwn
  <2>7. CASE SpcBootWaitHigh
    <3>1. command = Startup /\ command' = command /\ spcPc' = "ackLow"
      BY <2>7 DEF SpcBootWaitHigh, IInv, Handshake, SpcInStep, SpcBooting, KeepSpcData, SpcGoes
    <3> QED BY <3>1, SMT DEF LateIsOwn, Deferred, Startup, PlaySong, PlayEffect, FadeInSong, StopEffect
  <2>8. CASE \/ SpcBootWriteLow \/ SpcBootWriteHigh \/ SpcBootWaitLow
             \/ SpcPass \/ SpcRunVolume \/ SpcSetVolume
             \/ SpcHeaderWait \/ SpcHeaderTake \/ SpcHeaderReply
             \/ SpcBlockStart \/ SpcBlockEcho \/ (SpcBlockCheck /\ toSpc.check # EndMark)
             \/ SpcBlockIndex \/ SpcBlockLow \/ SpcBlockHigh \/ SpcBlockReply
    <3>1. spcPc' \notin SpcHandshake \cup {"act"}
      BY <2>8, PassLeaves, SMT
      DEF SpcHandshake, SpcLooping, SpcGoes, SpcBootWriteLow, SpcBootWriteHigh, SpcBootWaitLow,
     SpcLooping, SpcRunVolume, SpcSetVolume, SpcHeaderWait, SpcHeaderTake, SpcHeaderReply,
     SpcBlockStart, SpcBlockEcho, SpcBlockCheck, SpcBlockIndex, SpcBlockLow,
     SpcBlockHigh, SpcBlockReply
    <3> QED BY <3>1 DEF LateIsOwn
  <2> QED BY <1>3, <2>2, <2>3, <2>4, <2>5, <2>6, <2>7, <2>8 DEF SpcStepNext
<1>4. CASE UNCHANGED vars
  BY <1>4 DEF LateIsOwn, vars, cpuVars, spcVars, Freed, Used, Called
<1> QED BY <1>1, <1>2, <1>3, <1>4 DEF Next

-----------------------------------------------------------------------------
(* The link implements the call service. *)

(* What the service's variables stand for. *)
LEMMA CalledFacts ==
    ASSUME CpuTypeOK, Acknowledged(request.command)
    PROVE  /\ Called(request) # NoCall /\ Call \in {NoCall, Called(request)}
           /\ Called(request) \in {Called(r) : r \in {q \in Request : Acknowledged(q.command)}}
           /\ request.command \in Deferred =>
                Called(request) \in {Called(r) : r \in {q \in Request : q.command \in Deferred}}
<1>1. request # StartupRequest
  BY DEF Acknowledged, StartupRequest
<1>2. request \in Request
  BY <1>1 DEF CpuTypeOK
<1>3. Called(request).command # NoCall.command
  BY DEF Called, NoCall, Effect, Acknowledged
<1> QED BY <1>2, <1>3 DEF Call

(* Queues of one and two calls. *)
LEMMA ShortQueues ==
    ASSUME NEW e, NEW c
    PROVE  /\ <<e>> \o <<c>> # << >> /\ Head(<<e>> \o <<c>>) = e
           /\ Tail(<<e>> \o <<c>>) = << >> \o <<c>>
           /\ <<e>> \o << >> # << >> /\ Head(<<e>> \o << >>) = e
           /\ Tail(<<e>> \o << >>) = << >> \o << >>
<1>1. <<e>> \o << >> = <<e>> /\ << >> \o << >> = << >> /\ << >> \o <<c>> = <<c>>
  BY SMT
<1>2. <<e>> \o <<c>> = <<e, c>>
  <2> DEFINE s == <<e>> \o <<c>>
             t == <<e, c>>
             S == {e, c}
  <2>1. s \in Seq(S) /\ t \in Seq(S) /\ Len(s) = 2 /\ Len(t) = 2
    BY SMT
  <2>2. s[1] = e /\ s[2] = c /\ t[1] = e /\ t[2] = c
    BY SMT
  <2> HIDE DEF s, t, S
  <2>3. \A k \in 1 .. Len(s) : s[k] = t[k]
    BY <2>1, <2>2, SMT
  <2>4. s = t
    BY <2>1, <2>3, SeqEqual
  <2> QED BY <2>4 DEF s, t
<1>3. Tail(<<e>>) = << >>
  BY SMT
<1>4. Tail(<<e, c>>) = <<c>>
  BY SMT
<1>5. Head(<<e>>) = e /\ Head(<<e, c>>) = e /\ <<e>> # << >> /\ <<e, c>> # << >>
  BY SMT
<1> QED BY <1>1, <1>2, <1>3, <1>4, <1>5

(* A step that changes none of them stutters. *)
LEMMA ServiceStutters ==
    ASSUME Call' = Call, LateEffects' = LateEffects, PostedEffects' = PostedEffects,
           performed' = performed
    PROVE  UNCHANGED Service!serviceVars
  BY DEF Service!serviceVars, Used, Called

(* The game's steps: posting a request places the call, the end of its     *)
(* last phase returns it.                                                  *)
LEMMA CpuLinkStep ==
    ASSUME IInv, LateIsOwn, CpuBegin \/ CpuMark \/ CpuStep
    PROVE  [Service!Next]_(Service!serviceVars)
<1> DEFINE own == request.command
<1>1. UNCHANGED <<toCpu, spcPc, command, late, performed>>
  BY CpuLeavesDriver DEF spcVars
<1>2. LateEffects' = LateEffects /\ performed' = performed
  BY <1>1 DEF LateEffects, Used, Called
<1>3. cpuPc \in CpuPcs /\ cpuPhase \in 1 .. 5 /\ cpuPc' \in CpuPcs /\ cpuPhase' \in 1 .. 5
  BY CpuKeepsCpuHalf DEF IInv, TypeOK, CpuTypeOK, CpuHalf
<1>4. ASSUME Call' = Call, PostedEffects' = PostedEffects
      PROVE  [Service!Next]_(Service!serviceVars)
  BY <1>2, <1>4, ServiceStutters
<1>5. ASSUME cpuPc \in CpuPosting, cpuPc' \in CpuPosting
      PROVE  [Service!Next]_(Service!serviceVars)
  <2>1. Call' = Call /\ PostedEffects' = PostedEffects
    BY <1>5 DEF Call, PostedEffects, CpuPosting
  <2> QED BY <2>1, <1>4
<1>6. ASSUME ~Acknowledged(own), request' = request
      PROVE  [Service!Next]_(Service!serviceVars)
  <2>1. Call' = Call /\ PostedEffects' = PostedEffects
    BY <1>6 DEF Call, PostedEffects
  <2> QED BY <2>1, <1>4
<1>7. ASSUME cpuPc \notin CpuPosting, cpuPc' \notin CpuPosting, request' = request,
             ~(cpuPc = "ackLow" /\ cpuPhase = 1), ~(cpuPc' = "ackLow" /\ cpuPhase' = 1)
      PROVE  [Service!Next]_(Service!serviceVars)
  <2>1. Call' = Call /\ PostedEffects' = PostedEffects
    BY <1>7 DEF Call, PostedEffects, Called
  <2> QED BY <2>1, <1>4
<1>8. ASSUME Acknowledged(own), request' = request, cpuPc \notin CpuPosting, cpuPc' = "idle",
             cpuPc = "freeHigh" \/ cpuPc = "read"
      PROVE  Service!Return
  <2>1. Call = Called(request) /\ Call' = NoCall /\ PostedEffects = << >> /\ PostedEffects' = << >>
    BY <1>8 DEF Call, PostedEffects, CpuPosting
  <2>2. Called(request) # NoCall
    BY <1>8, CalledFacts DEF IInv, TypeOK
  <2>3. \/ LateEffects = << >>
        \/ LateEffects = <<Called(request)>> /\ own \in Deferred
    <3>1. LateEffects # << >> => /\ command \in Deferred /\ spcPc \in SpcHandshake \cup {"act"}
                                 /\ LateEffects = <<Used(late)>>
      BY DEF LateEffects, SpcHandshake
    <3>2. spcPc \in SpcHandshake => command = own
      BY DEF IInv, Handshake, Together, Same, SpcHandshake
    <3> QED BY <1>8, <3>1, <3>2 DEF LateIsOwn, Freed
  <2>4. LateEffects \o PostedEffects = LateEffects
    BY <2>1, <2>3, SMT
  <2>5. (LateEffects \o PostedEffects)' = LateEffects \o PostedEffects
    BY <1>2, <2>1
  <2>6. own \in Deferred =>
          Called(request) \in {Called(r) : r \in {q \in Request : q.command \in Deferred}}
    BY <1>8, CalledFacts DEF IInv, TypeOK
  <2> QED BY <1>2, <2>1, <2>2, <2>3, <2>4, <2>5, <2>6 DEF Service!Return, Used, Called
<1>9. CASE CpuBegin \/ CpuMark \/ CpuWriteLow \/ CpuWriteHigh \/ CpuWriteMode
  <2>1. cpuPc \in CpuPosting /\ cpuPc' \in CpuPosting
    BY <1>9 DEF CpuBegin, CpuMark, CpuWriteLow, CpuWriteHigh, CpuWriteMode, CpuGoes,
       CpuPosting, FirstAccess
  <2> QED BY <2>1, <1>5
<1>10. CASE CpuBootSeesLow \/ CpuBootSeesHigh \/ CpuBootRepliesLow \/ CpuBootRepliesHigh
  <2>1. own = Startup /\ request' = request
    BY <1>10 DEF IInv, Handshake, CpuInPhase, CpuBooting, CpuBootSeesLow, CpuBootSeesHigh,
       CpuBootRepliesLow, CpuBootRepliesHigh, StartupRequest
  <2> QED BY <2>1, <1>6 DEF Acknowledged
<1>11. CASE CpuWriteCheck
  <2>1. request' = request /\ cpuPc = "check" /\ own # Startup
    BY <1>11, CpuPosts DEF CpuWriteCheck
  <2>2. CASE cpuPc' = "idle"
    BY <1>5, <2>1, <2>2 DEF CpuPosting
  <2>3. CASE cpuPc' = "ackLow" /\ cpuPhase' = 1 /\ own # MusicTrackVolume
    <3>1. Acknowledged(own)
      BY <2>1, <2>3 DEF Acknowledged
    <3>2. spcPc \in SpcLooping \cup {"act"}
      BY <2>1, SMT DEF SpcLooping, IInv, Handshake, Together, Same, Behind, Ahead, Freed, CpuBooting,
         TypeOK, SpcTypeOK, SpcPcs
    <3>3. Call = NoCall /\ Call' = Called(request)
      BY <2>1, <2>3, <3>1 DEF Call, CpuPosting, Called
    <3>4. PostedEffects = << >> /\ PostedEffects' = <<Called(request)>>
      BY <1>1, <2>1, <2>3, <3>1, <3>2 DEF PostedEffects, Called
    <3>5. (LateEffects \o PostedEffects)' = Append(LateEffects \o PostedEffects, Called(request))
      <4>1. \A e, c : /\ << >> \o <<c>> = Append(<< >> \o << >>, c)
                      /\ <<e>> \o <<c>> = Append(<<e>> \o << >>, c)
        BY SMT
      <4> QED BY <1>2, <3>4, <4>1 DEF LateEffects
    <3>6. Service!Place(Called(request))
      BY <1>2, <3>3, <3>5 DEF Service!Place, Used, Called
    <3> QED BY <3>1, <3>6, CalledFacts DEF Service!Next, IInv, TypeOK
  <2> QED BY <1>11, <2>2, <2>3, CpuPosts
<1>12. CASE CpuSeeAckLow
  <2>1. cpuPc = "ackLow" /\ cpuPc' = "ackHigh" /\ request' = request /\ toCpu.command # 0
    BY <1>12, SMT DEF CpuSeeAckLow, CpuGoes, AckLow
  <2>2. PostedEffects = << >> /\ PostedEffects' = << >>
    BY <2>1 DEF PostedEffects, IInv, Handshake, SpcSide, Shown, SpcLooping
  <2>3. Call' = Call
    BY <2>1 DEF Call, CpuPosting, Called
  <2> QED BY <2>2, <2>3, <1>4
<1>13. CASE CpuSeeFreeHigh \/ CpuRead
  <2>1. /\ request' = request /\ cpuPc \in {"freeHigh", "read"}
        /\ cpuPc' \in {"idle", "read", "headerData", "blockStart"}
    <3>1. CASE CpuSeeFreeHigh
      BY <3>1, CpuFreed DEF CpuSeeFreeHigh
    <3>2. CASE CpuRead
      <4>1. /\ own \in LinkCommand /\ PhaseIs(own, cpuPhase, "read")
            /\ cpuPhase \in 1 .. 5
        BY <3>2, RequestFacts DEF CpuRead, CpuInPhase, CpuTypeOK, IInv, TypeOK, Handshake, CpuPosting
      <4>2. cpuPhase + 1 > Len(CpuPhases(own)) /\ Len(CpuPhases(own)) \in Nat
        BY <4>1, AfterReadOrAct, PhaseTable, SMT
      <4> QED BY <4>1, <4>2, <3>2, CpuLeave, SMT DEF CpuRead
    <3> QED BY <1>13, <3>1, <3>2
  <2>2. cpuPc \notin CpuPosting
    BY <2>1 DEF CpuPosting
  <2>3. CASE cpuPc' = "idle"
    BY <1>6, <1>8, <2>1, <2>2, <2>3 DEF Service!Next
  <2>4. CASE cpuPc' # "idle"
    BY <1>7, <2>1, <2>4 DEF CpuPosting
  <2> QED BY <2>3, <2>4
<1>14. CASE CpuHeaderEnd \/ CpuBlockEnd
  <2>1. cpuPc' = "ackLow" /\ cpuPhase' \in 2 .. 5 /\ request' = request
    BY <1>14, CpuSent
  <2>2. cpuPc \in {"headerEnd", "blockEnd"} /\ cpuPhase' # 1
    BY <1>14, <2>1, SMT DEF CpuHeaderEnd, CpuBlockEnd
  <2> QED BY <1>7, <2>1, <2>2 DEF CpuPosting
<1>15. CASE \/ CpuSeeAckHigh \/ CpuClearLow \/ CpuClearHigh \/ CpuSeeFreeLow
            \/ CpuHeaderData \/ CpuHeaderIndex \/ CpuHeaderPoll
            \/ CpuBlockStart \/ CpuBlockEcho \/ CpuPairLow \/ CpuPairHigh
            \/ CpuPairIndex \/ CpuPairPoll
  <2>1. /\ request' = request /\ cpuPc \notin CpuPosting \cup {"ackLow"}
        /\ cpuPc' \notin CpuPosting \cup {"ackLow"}
    BY <1>15
    DEF CpuSeeAckHigh, CpuClearLow, CpuClearHigh, CpuSeeFreeLow, CpuHeaderData,
        CpuHeaderIndex, CpuHeaderPoll, CpuBlockStart, CpuBlockEcho, CpuPairLow, CpuPairHigh,
        CpuPairIndex, CpuPairPoll, CpuGoes, CpuPosting
  <2> QED BY <1>7, <2>1
<1> QED
  BY <1>9, <1>10, <1>11, <1>12, <1>13, <1>14, <1>15 DEF CpuStep

(* The driver's steps: an action performs the oldest call, the queued one  *)
(* or the one just dispatched.                                             *)
LEMMA SpcLinkStep ==
    ASSUME IInv, LateIsOwn, SpcStepNext
    PROVE  [Service!Next]_(Service!serviceVars)
<1>1. UNCHANGED <<toSpc, cpuPc, cpuPhase, request>> /\ Call' = Call
  BY SpcLeavesGame DEF cpuVars, Call, Called
<1>2. ASSUME late' = late, command' = command, performed' = performed,
             LateEffects' = LateEffects \/ (command \notin Deferred),
             PostedEffects' = PostedEffects
      PROVE  [Service!Next]_(Service!serviceVars)
  BY <1>1, <1>2, ServiceStutters DEF LateEffects
<1>3. CASE SpcRun
  <2>1. /\ command = request.command /\ AwaitsDispatch /\ command' = command
        /\ spcPc = "run" /\ spcPc' = "ackLow" /\ command # MusicTrackVolume
    BY <1>3, SpcRuns DEF SpcRun
  <2>2. PostedEffects = <<Called(request)>> /\ PostedEffects' = << >>
    BY <1>1, <2>1 DEF PostedEffects, AwaitsDispatch, Acknowledged, SpcLooping
  <2>3. Used(Effect(command, toSpc.low, toSpc.high)) = Called(request)
    BY <2>1, UsedArguments DEF IInv, Handshake
  <2>4. LateEffects = << >>
    BY <2>1 DEF LateEffects
  <2>5. CASE command \in Deferred
    <3>1. performed' = performed /\ late' = Effect(command, toSpc.low, toSpc.high)
      BY <1>3, <2>5 DEF SpcRun
    <3>2. LateEffects' = <<Called(request)>>
      BY <1>1, <2>1, <2>3, <2>5, <3>1 DEF LateEffects, Used, Called
    <3>3. (LateEffects \o PostedEffects)' = LateEffects \o PostedEffects
      <4>1. \A e : <<e>> \o << >> = << >> \o <<e>>
        BY SMT
      <4> QED BY <2>2, <2>4, <3>2, <4>1
    <3> QED BY <1>1, <3>1, <3>3 DEF Service!serviceVars, Used, Called
  <2>6. CASE command \notin Deferred
    <3>1. performed' = Effect(command, toSpc.low, toSpc.high)
      BY <1>3, <2>6 DEF SpcRun
    <3>2. LateEffects' = << >>
      BY <2>1, <2>6 DEF LateEffects
    <3>3. Used(performed)' = Called(request)
      BY <1>1, <2>3, <3>1 DEF Used, Called
    <3>4. LateEffects \o PostedEffects = <<Called(request)>> /\ (LateEffects \o PostedEffects)' = << >>
      <4>1. \A e : << >> \o <<e>> = <<e>> /\ << >> \o << >> = << >>
        <5>1. << >> \o << >> = << >>
          BY SMT
        <5>2. \A e : << >> \o <<e>> = <<e>>
          BY SMT
        <5> QED BY <5>1, <5>2
      <4> QED BY <2>2, <2>4, <3>2, <4>1
    <3>5. \A e : Head(<<e>>) = e /\ Tail(<<e>>) = << >> /\ <<e>> # << >>
      BY SMT
    <3>6. Service!Perform
      BY <1>1, <3>3, <3>4, <3>5 DEF Service!Perform
    <3> QED BY <3>6 DEF Service!Next
  <2> QED BY <2>5, <2>6
<1>4. CASE SpcAct
  <2>1. spcPc = "act" /\ spcPc' = "main" /\ performed' = late /\ late' = late /\ command' = command
    BY <1>4, SpcActed DEF SpcAct
  <2>2. command \in Deferred
    <3>1. command \in LinkCommand /\ StepIs(command, spcStep, "act") /\ spcStep \in 1 .. 5
      BY <2>1 DEF IInv, TypeOK, Handshake, SpcInStep, SpcTypeOK
    <3> QED BY <3>1, OnlyDeferredAct
  <2>3. LateEffects = <<Used(late)>> /\ LateEffects' = << >> /\ PostedEffects' = PostedEffects
    BY <1>1, <2>1, <2>2 DEF LateEffects, PostedEffects, Called, SpcLooping
  <2>4. Used(performed)' = Used(late)
    BY <2>1 DEF Used, Called
  <2>5. /\ LateEffects \o PostedEffects # << >>
        /\ Head(LateEffects \o PostedEffects) = Used(late)
        /\ (LateEffects \o PostedEffects)' = Tail(LateEffects \o PostedEffects)
    <3>1. \A e, c : /\ <<e>> \o <<c>> # << >> /\ Head(<<e>> \o <<c>>) = e
                    /\ Tail(<<e>> \o <<c>>) = << >> \o <<c>>
                    /\ <<e>> \o << >> # << >> /\ Head(<<e>> \o << >>) = e
                    /\ Tail(<<e>> \o << >>) = << >> \o << >>
      BY ShortQueues
    <3>2. PostedEffects = << >> \/ PostedEffects = <<Called(request)>>
      BY DEF PostedEffects
    <3> QED BY <2>3, <3>1, <3>2
  <2>6. Service!Perform
    BY <1>1, <2>4, <2>5 DEF Service!Perform
  <2> QED BY <2>6 DEF Service!Next
<1>5. CASE SpcAckClearHigh
  <2>1. /\ spcPc = "ackClearHigh" /\ late' = late /\ command' = command /\ performed' = performed
        /\ Same /\ Freed
    BY <1>5 DEF SpcAckClearHigh, KeepSpcData, IInv, Handshake, Together
  <2>2. PostedEffects' = PostedEffects
    BY <1>1, <2>1 DEF PostedEffects, Freed
  <2>3. command \in Deferred => spcPc' = "act"
    <3>1. StepIs(command, spcStep, "ack") /\ spcStep \in 1 .. 5 /\ SpcEnters(spcStep + 1)
      BY <1>5, <2>1 DEF SpcAckClearHigh, IInv, TypeOK, SpcTypeOK, Handshake, SpcInStep, SpcHandshake
    <3>2. command \in Deferred => SpcSteps(command) = <<"ack", "act">>
      BY SMT DEF SpcSteps, Deferred, PlaySong, PlayEffect, FadeInSong, StopEffect,
         UploadSample, Upload, UploadAtCursor, DefineSample
    <3>3. command \in Deferred => StepIs(command, spcStep + 1, "act")
      BY <3>1, <3>2, SMT DEF StepIs
    <3> QED BY <3>1, <3>3, SpcEnter DEF StepEntry
  <2> QED BY <1>1, <1>2, <2>1, <2>2, <2>3 DEF LateEffects, Used, Called
<1>6. CASE SpcHeaderEnd \/ (SpcBlockCheck /\ toSpc.check = EndMark) \/ SpcBootWaitHigh
  <2>1. command' = command /\ command \notin Deferred
    <3>1. CASE SpcHeaderEnd \/ (SpcBlockCheck /\ toSpc.check = EndMark)
      <4>1. /\ command' = command /\ command \in LinkCommand /\ spcStep \in 1 .. 5
            /\ StepIs(command, spcStep, "header") \/ StepIs(command, spcStep, "block")
        BY <3>1, SpcReceived DEF IInv, Handshake, SpcInStep, SpcHeaderEnd, SpcBlockCheck,
           SpcHeader, SpcBlock
      <4> QED BY <4>1, OnlyDeferredAct
    <3>2. CASE SpcBootWaitHigh
      <4>1. command = Startup /\ command' = command
        BY <3>2 DEF SpcBootWaitHigh, IInv, Handshake, SpcInStep, SpcBooting, KeepSpcData
      <4> QED
        BY <4>1, SMT DEF Deferred, Startup, PlaySong, PlayEffect, FadeInSong, StopEffect
    <3> QED BY <1>6, <3>1, <3>2
  <2>2. spcPc \in {"headerEnd", "blockCheck", "bootWaitHigh"} /\ spcPc' = "ackLow"
    <3>1. SpcHeaderEnd \/ (SpcBlockCheck /\ toSpc.check = EndMark) => spcPc' = "ackLow"
      BY SpcReceived
    <3> QED BY <1>6, <3>1 DEF SpcHeaderEnd, SpcBlockCheck, SpcBootWaitHigh, SpcGoes
  <2>3. PostedEffects' = PostedEffects
    BY <1>1, <2>2 DEF PostedEffects, Called, SpcLooping
  <2>4. performed' = performed
    BY <1>6 DEF SpcHeaderEnd, SpcBlockCheck, SpcBootWaitHigh, KeepSpcData
  <2>5. LateEffects' = LateEffects
    BY <2>1 DEF LateEffects
  <2> QED BY <1>1, <2>3, <2>4, <2>5, ServiceStutters
<1>7. CASE SpcPass
  <2>1. spcPc \in SpcLooping /\ spcPc' \in SpcLooping /\ performed' = performed
    BY <1>7, PassLeaves
  <2>2. LateEffects' = LateEffects /\ PostedEffects' = PostedEffects
    BY <1>1, <2>1 DEF LateEffects, PostedEffects, Called, SpcLooping
  <2> QED BY <1>1, <2>1, <2>2, ServiceStutters
<1>8. CASE SpcAckLow \/ SpcAckHigh \/ SpcAckWaitLow \/ SpcAckWaitHigh \/ SpcAckClearLow
  <2>1. /\ spcPc \in SpcHandshake /\ spcPc' \in SpcHandshake
        /\ performed' = performed /\ late' = late /\ command' = command
    BY <1>8 DEF SpcAckLow, SpcAckHigh, SpcAckWaitLow, SpcAckWaitHigh, SpcAckClearLow,
       SpcGoes, KeepSpcData, SpcHandshake
  <2>2. LateEffects' = LateEffects /\ PostedEffects' = PostedEffects
    BY <1>1, <2>1 DEF LateEffects, PostedEffects, SpcHandshake, Used, Called, SpcLooping
  <2> QED BY <1>1, <2>1, <2>2, ServiceStutters
<1>9. CASE SpcRunVolume \/ SpcSetVolume
  <2>1. /\ spcPc \in {"run", "runVolume"} /\ spcPc' \in {"main", "runVolume"}
        /\ performed' = performed
    BY <1>9 DEF SpcRunVolume, SpcSetVolume, SpcGoes, KeepSpcData
  <2>2. LateEffects' = LateEffects /\ PostedEffects' = PostedEffects
    BY <1>1, <2>1 DEF LateEffects, PostedEffects, Called, SpcLooping
  <2> QED BY <1>1, <2>1, <2>2, ServiceStutters
<1>10. CASE \/ SpcBootWriteLow \/ SpcBootWriteHigh \/ SpcBootWaitLow
            \/ SpcHeaderWait \/ SpcHeaderTake \/ SpcHeaderReply
            \/ SpcBlockStart \/ SpcBlockEcho \/ (SpcBlockCheck /\ toSpc.check # EndMark)
            \/ SpcBlockIndex \/ SpcBlockLow \/ SpcBlockHigh \/ SpcBlockReply
  <2>1. /\ spcPc \in SpcBooting \cup SpcHeader \cup SpcBlock
        /\ spcPc' \in SpcBooting \cup SpcHeader \cup SpcBlock
        /\ performed' = performed
    BY <1>10
    DEF SpcBooting, SpcHeader, SpcBlock, SpcGoes, KeepSpcData, SpcBootWriteLow,
     SpcBootWriteHigh, SpcBootWaitLow, SpcHeaderWait, SpcHeaderTake, SpcHeaderReply,
     SpcBlockStart, SpcBlockEcho, SpcBlockCheck, SpcBlockIndex, SpcBlockLow,
     SpcBlockHigh, SpcBlockReply
  <2>2. LateEffects' = LateEffects /\ PostedEffects' = PostedEffects
    BY <1>1, <2>1 DEF LateEffects, PostedEffects, Called, SpcLooping, SpcBooting, SpcHeader, SpcBlock
  <2> QED BY <1>1, <2>1, <2>2, ServiceStutters
<1> QED
  BY <1>3, <1>4, <1>5, <1>6, <1>7, <1>8, <1>9, <1>10 DEF SpcStepNext

(* Every acknowledged call is carried out exactly once, in the order of    *)
(* the calls and with its own arguments, and a call returns only when its  *)
(* action is done or queued behind the acknowledgement: the safety part of *)
(* ImplementsService.                                                      *)
THEOREM ImplementsServiceSteps ==
    Spec => Service!Init /\ [][Service!Next]_(Service!serviceVars)
<1>1. Init => Service!Init /\ LateIsOwn
  <2> SUFFICES ASSUME Init
               PROVE  Service!Init /\ LateIsOwn
    OBVIOUS
  <2>1. Call = NoCall /\ PostedEffects = << >>
    BY DEF Init, Call, Acknowledged, StartupRequest, PostedEffects
  <2>2. LateEffects = << >> /\ LateIsOwn
    BY DEF Init, LateEffects, LateIsOwn, SpcHandshake
  <2>3. Used(performed) = NoCall
    <3>1. Startup \notin OneArgument \cup TwoArguments
      BY SMT
      DEF Startup, OneArgument, TwoArguments, SetInstrumentSlot, StopEffect, Upload,
        SetSampleEnd, SetUploadCursor, EffectTrackVolume, MusicTrackVolume
    <3> QED BY <3>1 DEF Init, Used, Called, Effect, NoCall
  <2>4. << >> \o << >> = << >>
    BY SMT
  <2> QED BY <2>1, <2>2, <2>3, <2>4 DEF Service!Init
<1>2. IInv /\ LateIsOwn /\ [Next]_vars => [Service!Next]_(Service!serviceVars)
  <2>1. CASE UNCHANGED vars
    BY <2>1, ServiceStutters DEF Call, LateEffects, PostedEffects, vars, cpuVars, spcVars,
       Used, Called
  <2> QED BY <2>1, CpuLinkStep, SpcLinkStep DEF Next
<1>3. IInv /\ LateIsOwn /\ [Next]_vars => LateIsOwn'
  BY NextLateIsOwn
<1> QED BY <1>1, <1>2, <1>3, Inductive, PTL DEF Spec

-----------------------------------------------------------------------------
(* The bytes of a transfer, on the game's side. *)

(* The places of the parts of an upload. *)
LEMMA PayloadTable ==
    ASSUME NEW c \in PayloadCommand, NEW k \in 1 .. 5
    PROVE  /\ LastAck(c) = IF c = UploadSample THEN 5 ELSE 3
           /\ PhaseIs(c, k, "header") => c = UploadSample /\ k = 2
           /\ PhaseIs(c, k, "block") => k + 1 = LastAck(c)
           /\ StepIs(c, k, "header") => c = UploadSample /\ k = 2
           /\ StepIs(c, k, "block") => k + 1 = LastAck(c)
           /\ ~PhaseIs(c, k, "read")
           /\ c \notin ReadCommand /\ c # MusicTrackVolume /\ c # Startup
           /\ c \in {Upload, UploadSample} /\ Upload # UploadSample
<1> USE DEF PayloadCommand, CpuPhases, SpcSteps, LastAck, Upload, UploadAtCursor, DefineSample,
            UploadSample, ReadCommand, Deferred, MusicTrackVolume, ReadProgress,
            ReadStatus, ReadSampleEnd, ReadOutputOptions, ReadKeyedVoices,
            PlaySong, PlayEffect, FadeInSong, StopEffect, Startup
<1>1. CASE c = Upload
  BY <1>1, SMT DEF PhaseIs, StepIs
<1>2. CASE c = UploadSample
  BY <1>2, SMT DEF PhaseIs, StepIs
<1> QED BY <1>1, <1>2

(* The payload fits the memory, and an upload's address is one. *)
LEMMA PayloadFacts ==
    ASSUME CpuTypeOK, request.command \in PayloadCommand
    PROVE  /\ PayloadLength(request) \in Address
           /\ PayloadSource(request) \in Nat
           /\ Word(request.low, request.high) \in Address
<1>1. request \in Request
  BY SMT DEF CpuTypeOK, StartupRequest, PayloadCommand, Startup, Upload, UploadSample
<1>2. request.length \in Address /\ request.source \in Nat
  BY <1>1, RequestAssumption
<1>3. Word(request.low, request.high) \in Address
  BY RequestFacts, WordOf
<1>4. PayloadLength(request) \in Address
  BY <1>2, RomFacts, WordOf DEF PayloadLength
<1>5. PayloadSource(request) \in Nat
  BY <1>2, SMT DEF PayloadSource, HeaderBytes
<1> QED BY <1>3, <1>4, <1>5

(* The number of pairs sent is right when the last one is. *)
LEMMA PairsSent ==
    ASSUME NEW n \in Nat, NEW rest \in Nat, Even(n), n > 0 => rest > 0, rest < 3
    PROVE  n + 2 = 2 * Pairs(n + rest)
<1>1. PICK h \in Nat : n = 2 * h
  <2> DEFINE h == n \div 2
  <2>1. h \in Nat /\ n = 2 * h
    BY SMT DEF Even
  <2> QED BY <2>1
<1>2. CASE n = 0
  BY <1>2, SMT DEF Pairs
<1>3. CASE n > 0
  <2>1. n + rest >= 3 /\ rest \in {1, 2}
    BY <1>1, <1>3, SMT
  <2>2. (n + rest + 1) \div 2 = h + 1
    BY <1>1, <2>1, SMT
  <2> QED BY <1>1, <2>1, <2>2, SMT DEF Pairs
<1> QED BY <1>2, <1>3, SMT

(* The game's steps keep its place in what it sends. *)
LEMMA CpuKeepsPosition ==
    ASSUME IInv, DataInv, CpuBegin \/ CpuMark \/ CpuStep
    PROVE  CpuPosition'
<1> DEFINE own == request.command
<1> USE DEF CpuGoes, KeepCpuData, CpuHandshake, CpuHeader, CpuPairs
<1>0. /\ CpuPosition /\ CpuTypeOK /\ CpuInPhase /\ CpuSide /\ cpuPhase \in 1 .. 5
      /\ remaining \in Nat /\ source \in Nat /\ cpuPc \in CpuPcs
  BY DEF DataInv, IInv, TypeOK, Handshake, CpuTypeOK
<1>1. ASSUME own \in PayloadCommand
      PROVE  /\ PayloadSource(request) \in Nat
             /\ PayloadSource(request) = request.source + (IF own = UploadSample THEN 8 ELSE 0)
             /\ PayloadLength(request) \in Nat /\ request.source \in Nat
             /\ LastAck(own) = IF own = UploadSample THEN 5 ELSE 3
             /\ own \notin ReadCommand /\ own # MusicTrackVolume /\ own # Startup
  <2>1. PayloadSource(request) \in Nat /\ PayloadLength(request) \in Nat
    BY <1>0, <1>1, PayloadFacts, ByteFacts
  <2>2. /\ LastAck(own) = IF own = UploadSample THEN 5 ELSE 3
        /\ own \notin ReadCommand /\ own # MusicTrackVolume /\ own # Startup
    BY <1>0, <1>1, PayloadTable
  <2>3. request.source \in Nat
    BY <1>0, RequestFacts
  <2>4. PayloadSource(request) = request.source + (IF own = UploadSample THEN 8 ELSE 0)
    BY <2>3, SMT DEF PayloadSource, HeaderBytes
  <2> QED BY <2>1, <2>2, <2>3, <2>4
<1>2. CASE CpuBegin
  <2>1. cpuPc' \in {"low", "mode"}
    BY <1>2 DEF CpuBegin, FirstAccess
  <2> QED BY <2>1 DEF CpuPosition, BlockOver
<1>3. CASE CpuBootSeesLow \/ CpuBootSeesHigh \/ CpuBootRepliesLow \/ CpuBootRepliesHigh
  <2>1. request' = request /\ own = Startup /\ own \notin PayloadCommand
    BY <1>0, <1>1, <1>3
    DEF CpuInPhase, CpuBooting, StartupRequest, CpuBootSeesLow, CpuBootSeesHigh,
        CpuBootRepliesLow, CpuBootRepliesHigh
  <2>2. cpuPc' \notin CpuHeader
    <3>1. CpuBootRepliesHigh => cpuPc' = "ackLow"
      <4>1. Startup \in LinkCommand
        BY SMT DEF LinkCommand, Startup, MusicTrackVolume
      <4> QED BY <2>1, <4>1, FirstIsAck, CpuEnter DEF CpuBootRepliesHigh, PhaseEntry
    <3> QED BY <1>3, <3>1 DEF CpuBootSeesLow, CpuBootSeesHigh, CpuBootRepliesLow
  <2> QED BY <2>1, <2>2 DEF CpuPosition
<1>4. CASE CpuWriteLow \/ CpuWriteHigh \/ CpuWriteMode
  <2>1. cpuPc' \in {"high", "mode", "check"}
    BY <1>4 DEF CpuWriteLow, CpuWriteHigh, CpuWriteMode
  <2> QED BY <2>1 DEF CpuPosition, BlockOver
<1>5. CASE CpuMark
  BY <1>0, <1>5 DEF CpuMark, CpuPosition, BlockOver, Sent, PayloadSource, PayloadLength
<1>6. CASE CpuWriteCheck
  <2>1. \/ cpuPc' = "idle" /\ own = MusicTrackVolume
        \/ cpuPc' = "ackLow" /\ cpuPhase' = 1
    BY <1>6, CpuPosts
  <2>2. request' = request
    BY <1>6 DEF CpuWriteCheck
  <2> QED BY <1>1, <2>1, <2>2, SMT DEF CpuPosition, BlockOver
<1>7. CASE CpuSeeAckLow \/ CpuSeeAckHigh \/ CpuClearLow \/ CpuClearHigh \/ CpuSeeFreeLow
  <2>1. /\ UNCHANGED <<request, cpuPhase, source, remaining>>
        /\ cpuPc \in CpuHandshake /\ cpuPc' \in CpuHandshake
    BY <1>7 DEF CpuSeeAckLow, CpuSeeAckHigh, CpuClearLow, CpuClearHigh, CpuSeeFreeLow
  <2> QED BY <1>0, <2>1 DEF CpuPosition, BlockOver, Sent, PayloadSource, PayloadLength
<1>8. CASE CpuSeeFreeHigh
  <2>1. /\ \/ cpuPc' = "idle" /\ cpuPhase = LastAck(own)
           \/ cpuPc' = "read"
           \/ cpuPc' = "headerData"
           \/ /\ cpuPc' = "blockStart" /\ cpuPhase' = cpuPhase + 1 /\ cpuPhase' \in 1 .. 5
              /\ PhaseIs(own, cpuPhase', "block")
        /\ request' = request /\ cpuPc = "freeHigh"
    BY <1>8, CpuFreed DEF CpuSeeFreeHigh
  <2>2. CASE cpuPc' = "idle"
    <3>1. source' = source /\ remaining' = remaining /\ BlockOver
      BY <1>8, <2>1, <2>2 DEF CpuSeeFreeHigh, BlockOver
    <3> QED BY <1>0, <2>1, <2>2, <3>1 DEF CpuPosition, Sent, PayloadSource, PayloadLength
  <2>3. CASE cpuPc' = "read"
    BY <2>3 DEF CpuPosition, BlockOver
  <2>4. CASE cpuPc' = "headerData"
    <3>1. remaining' = HeaderBytes /\ source' = request.source /\ source' \in Nat
      BY <1>0, <1>8, <2>4, RequestFacts DEF CpuSeeFreeHigh
    <3> QED BY <2>1, <2>4, <3>1, SMT DEF CpuPosition, BlockOver, HeaderBytes
  <2>5. CASE cpuPc' = "blockStart"
    <3>1. /\ remaining' = PayloadLength(request)
          /\ source' = IF own = UploadSample THEN source ELSE request.source
      BY <1>8, <2>5 DEF CpuSeeFreeHigh
    <3>2. own = UploadSample => cpuPhase = 3 /\ own \in PayloadCommand
      <4>1. ASSUME own = UploadSample
            PROVE  own \in PayloadCommand /\ cpuPhase + 2 = 5
        BY <1>0, <2>1, <2>5, <4>1, PayloadTable, SMT DEF PayloadCommand
      <4> QED BY <1>0, <4>1, SMT
    <3>3. own \in PayloadCommand => source' = PayloadSource(request)
      BY <1>0, <1>1, <2>1, <3>1, <3>2, SMT DEF CpuPosition
    <3> QED BY <2>1, <2>5, <3>1, <3>3
        DEF CpuPosition, BlockOver, PayloadSource, PayloadLength
  <2> QED BY <2>1, <2>2, <2>3, <2>4, <2>5
<1>9. CASE CpuRead
  <2>1. own \notin PayloadCommand /\ request' = request
    BY <1>0, <1>9, PayloadTable DEF CpuRead, CpuInPhase
  <2>2. cpuPc' = "idle"
    <3>1. /\ own \in LinkCommand /\ PhaseIs(own, cpuPhase, "read")
      BY <1>0, <1>9, RequestFacts DEF CpuRead, CpuInPhase, CpuPosting
    <3>2. cpuPhase + 1 > Len(CpuPhases(own)) /\ Len(CpuPhases(own)) \in Nat
      BY <1>0, <3>1, AfterReadOrAct, PhaseTable, SMT
    <3> QED BY <1>0, <3>1, <3>2, <1>9, CpuLeave, SMT DEF CpuRead
  <2> QED BY <2>1, <2>2 DEF CpuPosition
<1>10. CASE CpuHeaderData \/ CpuHeaderIndex
  BY <1>0, <1>10 DEF CpuHeaderData, CpuHeaderIndex, CpuPosition, BlockOver
<1>11. CASE CpuHeaderPoll
  <2>1. remaining \in 1 .. HeaderBytes /\ request.source \in Nat
    BY <1>0, <1>11, RequestFacts DEF CpuHeaderPoll, CpuSide
  <2> QED BY <1>0, <1>11, <2>1, SMT DEF CpuHeaderPoll, CpuPosition, BlockOver, HeaderBytes
<1>12. CASE CpuHeaderEnd
  <2>1. /\ cpuPc' = "ackLow" /\ cpuPhase' = cpuPhase + 1 /\ request' = request
        /\ PhaseIs(own, cpuPhase, "header") /\ source' = source
    BY <1>12, CpuSent DEF CpuHeaderEnd
  <2>2. own \in PayloadCommand => own = UploadSample /\ cpuPhase = 2
    BY <1>0, <2>1, PayloadTable
  <2>3. own \in PayloadCommand => source = PayloadSource(request)
    BY <1>0, <1>1, <1>12, <2>2, SMT DEF CpuPosition, CpuHeaderEnd, HeaderBytes
  <2> QED BY <1>1, <2>1, <2>2, <2>3, SMT DEF CpuPosition, BlockOver, PayloadSource
<1>13. CASE CpuBlockStart
  BY <1>0, <1>13 DEF CpuBlockStart, CpuPosition, BlockOver, PayloadSource, PayloadLength
<1>14. CASE CpuBlockEcho
  <2>1. own \in PayloadCommand =>
          Sent' = 0 /\ remaining' = PayloadLength(request) /\ PayloadLength(request) \in Nat
    BY <1>0, <1>1, <1>14, SMT DEF CpuBlockEcho, CpuPosition, Sent, PayloadSource
  <2>2. cpuPc' = "pairLow" /\ request' = request
    BY <1>14 DEF CpuBlockEcho
  <2> QED BY <2>1, <2>2, SMT DEF CpuPosition, BlockOver, PayloadLength, Even
<1>15. CASE CpuPairLow \/ CpuPairHigh \/ CpuPairIndex
  BY <1>0, <1>15 DEF CpuPairLow, CpuPairHigh, CpuPairIndex, CpuPosition, BlockOver, Sent,
     PayloadSource, PayloadLength
<1>16. CASE CpuPairPoll
  <2>1. cpuPc' \in {"pairLow", "blockEnd"} /\ request' = request /\ cpuPc = "pairPoll"
    BY <1>16 DEF CpuPairPoll
  <2>2. CASE own \in PayloadCommand
    <3>1. /\ Sent \in Nat /\ Even(Sent) /\ Sent + remaining = PayloadLength(request)
          /\ Sent > 0 => remaining > 0
      BY <1>0, <2>1, <2>2 DEF CpuPosition
    <3>2. Sent' = Sent + 2 /\ Even(Sent + 2)
      BY <1>0, <1>1, <1>16, <2>2, <3>1, SMT DEF CpuPairPoll, Sent, PayloadSource, Even
    <3>3. CASE remaining >= 3
      <4>1. remaining' = remaining - 2 /\ cpuPc' = "pairLow"
        BY <1>16, <3>3 DEF CpuPairPoll
      <4>2. Sent' + remaining' = PayloadLength(request) /\ remaining' > 0 /\ Sent' \in Nat
        BY <1>0, <3>1, <3>2, <3>3, <4>1, SMT
      <4> QED BY <2>1, <3>2, <4>1, <4>2 DEF CpuPosition, BlockOver, PayloadLength
    <3>4. CASE ~(remaining >= 3)
      <4>1. cpuPc' = "blockEnd"
        BY <1>16, <3>4 DEF CpuPairPoll
      <4>2. Sent' = 2 * Pairs(PayloadLength(request))
        <5>1. Sent + 2 = 2 * Pairs(Sent + remaining)
          <6> DEFINE n == Sent
          <6>1. n \in Nat /\ Even(n) /\ (n > 0 => remaining > 0) /\ remaining < 3
            BY <1>0, <3>1, <3>4, SMT
          <6> HIDE DEF n
          <6>2. n + 2 = 2 * Pairs(n + remaining)
            BY <1>0, <6>1, PairsSent
          <6> QED BY <6>2 DEF n
        <5> QED BY <3>1, <3>2, <5>1
      <4> QED BY <2>1, <4>1, <4>2 DEF CpuPosition, PayloadLength
    <3> QED BY <3>3, <3>4
  <2>3. CASE own \notin PayloadCommand
    BY <2>1, <2>3 DEF CpuPosition
  <2> QED BY <2>2, <2>3
<1>17. CASE CpuBlockEnd
  <2>1. /\ cpuPc' = "ackLow" /\ cpuPhase' = cpuPhase + 1 /\ request' = request
        /\ PhaseIs(own, cpuPhase, "block") /\ source' = source /\ BlockOver
    BY <1>17, CpuSent DEF CpuBlockEnd, BlockOver
  <2>2. own \in PayloadCommand => cpuPhase' = LastAck(own)
    BY <1>0, <2>1, PayloadTable
  <2>3. own = UploadSample => cpuPhase' # 3
    BY <1>1, <2>2, SMT DEF PayloadCommand
  <2> QED BY <1>0, <2>1, <2>2, <2>3 DEF CpuPosition, Sent, PayloadSource, PayloadLength
<1> QED
  BY <1>2, <1>3, <1>4, <1>5, <1>6, <1>7, <1>8, <1>9, <1>10, <1>11, <1>12, <1>13, <1>14,
     <1>15, <1>16, <1>17 DEF CpuStep

(* The game's steps keep the byte it sends on its port. *)
LEMMA CpuKeepsBytes ==
    ASSUME IInv, DataInv, CpuBegin \/ CpuMark \/ CpuStep
    PROVE  BytesStand'
<1> USE DEF CpuGoes, KeepCpuData
<1>0. BytesStand /\ toSpc \in Ports
  BY DEF DataInv, IInv, TypeOK, CpuTypeOK
<1>1. CASE CpuHeaderData
  <2>1. toSpc'.low = RomByte(source)
    BY <1>0, <1>1, RomFacts, CpuWrite DEF CpuHeaderData, Port
  <2> QED BY <1>1, <2>1 DEF CpuHeaderData, BytesStand
<1>2. CASE CpuHeaderIndex
  <2>1. toSpc'.low = toSpc.low
    BY <1>0, <1>2, SMT DEF CpuHeaderIndex, CpuWrites, Ports
  <2> QED BY <1>0, <1>2, <2>1 DEF CpuHeaderIndex, BytesStand
<1>3. CASE CpuPairLow
  <2>1. toSpc'.low = RomByte(source)
    BY <1>0, <1>3, RomFacts, CpuWrite DEF CpuPairLow, Port
  <2> QED BY <1>3, <2>1 DEF CpuPairLow, BytesStand
<1>4. CASE CpuPairHigh
  <2>1. toSpc'.low = toSpc.low /\ toSpc'.high = RomByte(source + 1)
    BY <1>0, <1>4, RomFacts, CpuWrite DEF CpuPairHigh, Port
  <2> QED BY <1>0, <1>4, <2>1 DEF CpuPairHigh, BytesStand
<1>5. CASE CpuPairIndex
  <2>1. toSpc'.low = toSpc.low /\ toSpc'.high = toSpc.high
    BY <1>0, <1>5, SMT DEF CpuPairIndex, CpuWrites, Ports
  <2> QED BY <1>0, <1>5, <2>1 DEF CpuPairIndex, BytesStand
<1>6. CASE \/ CpuBegin \/ CpuMark \/ CpuBootSeesLow \/ CpuBootSeesHigh
           \/ CpuBootRepliesLow \/ CpuWriteLow \/ CpuWriteHigh \/ CpuWriteMode
           \/ CpuSeeAckLow \/ CpuSeeAckHigh \/ CpuClearLow \/ CpuClearHigh \/ CpuSeeFreeLow
           \/ CpuHeaderPoll \/ CpuBlockStart \/ CpuBlockEcho \/ CpuPairPoll
  BY <1>6
  DEF BytesStand, FirstAccess, CpuBegin, CpuMark, CpuBootSeesLow, CpuBootSeesHigh,
      CpuBootRepliesLow, CpuWriteLow, CpuWriteHigh, CpuWriteMode, CpuSeeAckLow,
      CpuSeeAckHigh, CpuClearLow, CpuClearHigh, CpuSeeFreeLow, CpuHeaderPoll,
      CpuBlockStart, CpuBlockEcho, CpuPairPoll
<1>7. CASE CpuBootRepliesHigh \/ CpuWriteCheck \/ CpuSeeFreeHigh \/ CpuRead \/ CpuHeaderEnd \/ CpuBlockEnd
  <2>1. cpuPc' \in {"idle", "ackLow", "read", "headerData", "blockStart"}
    <3>1. \A phase : PhaseEntry(phase) \in {"ackLow", "read", "headerData", "blockStart"}
                     \/ phase \notin {"ack", "read", "header", "block"}
      BY DEF PhaseEntry
    <3>2. CASE CpuWriteCheck
      BY <3>2, CpuPosts
    <3>3. CASE CpuSeeFreeHigh
      BY <3>3, CpuFreed
    <3>4. CASE CpuHeaderEnd \/ CpuBlockEnd
      BY <3>4, CpuSent
    <3>5. CASE CpuRead
      <4> DEFINE own == request.command
      <4>1. own \in LinkCommand /\ PhaseIs(own, cpuPhase, "read") /\ cpuPhase \in 1 .. 5
        BY <3>5, RequestFacts
        DEF CpuRead, IInv, TypeOK, CpuTypeOK, Handshake, CpuInPhase, CpuPosting
      <4>2. cpuPhase + 1 > Len(CpuPhases(own)) /\ Len(CpuPhases(own)) \in Nat
        BY <4>1, AfterReadOrAct, PhaseTable, SMT
      <4> QED BY <4>1, <4>2, <3>5, CpuLeave, SMT DEF CpuRead
    <3>6. CASE CpuBootRepliesHigh
      <4>1. request.command = Startup
        BY <3>6 DEF CpuBootRepliesHigh, IInv, Handshake, CpuInPhase, CpuBooting, StartupRequest
      <4>2. Startup \in LinkCommand
        BY SMT DEF LinkCommand, Startup, MusicTrackVolume
      <4> QED BY <3>6, <4>1, <4>2, FirstIsAck, CpuEnter DEF CpuBootRepliesHigh, PhaseEntry
    <3> QED BY <1>7, <3>2, <3>3, <3>4, <3>5, <3>6
  <2> QED BY <2>1 DEF BytesStand
<1> QED BY <1>1, <1>2, <1>3, <1>4, <1>5, <1>6, <1>7 DEF CpuStep

(* The game's steps leave the header the driver takes alone. *)
LEMMA CpuKeepsHeader ==
    ASSUME IInv, DataInv, CpuBegin \/ CpuMark \/ CpuStep
    PROVE  HeaderTaken'
<1>1. HeaderTaken /\ UNCHANGED <<spcPc, counter, header>>
  BY CpuLeavesDriver DEF DataInv, spcVars, memory
<1>2. CASE CpuBegin
  <2>1. spcPc \notin {"headerWait", "headerTake", "headerReply"}
    BY <1>2, SMT DEF CpuBegin, IInv, Handshake, Together, Behind, Freed
  <2> QED BY <1>1, <2>1 DEF HeaderTaken
<1>3. CASE CpuMark \/ CpuStep
  <2>1. request' = request
    BY <1>3, CpuLeavesDriver
  <2> QED BY <1>1, <2>1 DEF HeaderTaken
<1> QED BY <1>2, <1>3

(* The driver takes each header byte into its own place. *)
LEMMA SpcKeepsHeader ==
    ASSUME IInv, DataInv, SpcStepNext
    PROVE  HeaderTaken'
<1> USE DEF SpcGoes, KeepSpcData
<1>0. /\ HeaderTaken /\ request' = request
      /\ header \in [1 .. HeaderBytes -> PortValue]
      /\ request.source \in Nat
  BY SpcLeavesGame, RequestFacts DEF DataInv, cpuVars, IInv, TypeOK, SpcTypeOK
<1>1. CASE SpcHeaderWait
  BY <1>0, <1>1 DEF SpcHeaderWait, HeaderTaken, memory
<1>2. CASE SpcHeaderTake
  <2>1. counter \in 1 .. HeaderBytes
    BY <1>2 DEF SpcHeaderTake, IInv, Handshake, SpcSide
  <2>2. toSpc.low = RomByte(request.source + (HeaderBytes - counter))
    <3>1. cpuPc = "headerPoll" /\ remaining = counter
      BY <1>2 DEF SpcHeaderTake, IInv, Handshake, Together
    <3> QED BY <3>1 DEF DataInv, CpuPosition, BytesStand, CpuHeader
  <2>3. header'[HeaderBytes + 1 - counter] = toSpc.low
    BY <1>0, <1>2, <2>1, SMT DEF SpcHeaderTake, HeaderBytes
  <2>4. \A k \in 1 .. HeaderBytes : k < HeaderBytes + 1 - counter => header'[k] = header[k]
    BY <1>0, <1>2, <2>1, SMT DEF SpcHeaderTake
  <2>5. \A k \in 1 .. HeaderBytes : k < HeaderBytes + 1 - counter =>
            header[k] = RomByte(request.source + (k - 1))
    BY <1>0, <1>2 DEF HeaderTaken, SpcHeaderTake
  <2>6. counter' = counter /\ spcPc' = "headerReply" /\ spcPc = "headerTake"
    BY <1>2 DEF SpcHeaderTake
  <2>7. \A k \in 1 .. HeaderBytes : k = HeaderBytes + 1 - counter =>
            k - 1 = HeaderBytes - counter
    BY <2>1, SMT DEF HeaderBytes
  <2> QED BY <1>0, <2>2, <2>3, <2>4, <2>5, <2>6, <2>7 DEF HeaderTaken
<1>3. CASE SpcHeaderReply
  <2>1. /\ counter \in 1 .. HeaderBytes /\ header' = header /\ counter' = counter - 1
        /\ spcPc = "headerReply" /\ spcPc' \in {"headerEnd", "headerWait"}
    BY <1>3 DEF SpcHeaderReply, IInv, Handshake, SpcSide, memory, DefineSampleFromHeader
  <2>2. \A k \in 1 .. HeaderBytes : k < HeaderBytes + 1 - (counter - 1) =>
            k < HeaderBytes + 1 - counter \/ k = HeaderBytes + 1 - counter
    BY <2>1, SMT DEF HeaderBytes
  <2> QED BY <1>0, <2>1, <2>2 DEF HeaderTaken
<1>4. CASE SpcAckClearHigh
  <2>1. spcPc' = "headerWait" => counter' = HeaderBytes
    BY <1>4, SpcAcknowledged
  <2>2. spcPc' \notin {"headerTake", "headerReply"}
    BY <1>4, SpcAcknowledged
  <2> QED BY <2>1, <2>2, SMT DEF HeaderTaken, HeaderBytes
<1>5. CASE SpcRun \/ SpcAct \/ SpcHeaderEnd \/ (SpcBlockCheck /\ toSpc.check = EndMark)
  <2>1. spcPc' \in {"ackLow", "main"}
    BY <1>5, SpcRuns, SpcActed, SpcReceived
  <2> QED BY <2>1 DEF HeaderTaken
<1>6. CASE \/ SpcBootWriteLow \/ SpcBootWriteHigh \/ SpcBootWaitLow \/ SpcBootWaitHigh
           \/ SpcPass \/ SpcRunVolume \/ SpcSetVolume
           \/ SpcAckLow \/ SpcAckHigh \/ SpcAckWaitLow \/ SpcAckWaitHigh \/ SpcAckClearLow
           \/ SpcBlockStart \/ SpcBlockEcho \/ (SpcBlockCheck /\ toSpc.check # EndMark)
           \/ SpcBlockIndex \/ SpcBlockLow \/ SpcBlockHigh \/ SpcBlockReply
  <2>1. spcPc' \notin {"headerWait", "headerTake", "headerReply"}
    BY <1>6, PassLeaves
    DEF SpcBootWriteLow, SpcBootWriteHigh, SpcBootWaitLow, SpcBootWaitHigh,
        SpcLooping, SpcRunVolume, SpcSetVolume,
        SpcAckLow, SpcAckHigh, SpcAckWaitLow, SpcAckWaitHigh, SpcAckClearLow,
        SpcBlockStart, SpcBlockEcho, SpcBlockCheck, SpcBlockIndex, SpcBlockLow,
        SpcBlockHigh, SpcBlockReply
  <2> QED BY <2>1 DEF HeaderTaken
<1> QED BY <1>1, <1>2, <1>3, <1>4, <1>5, <1>6 DEF SpcStepNext

(* The places of the parts of a sample's command. *)
LEMMA SampleTable ==
    ASSUME NEW c \in SampleCommand, NEW k \in 1 .. 5
    PROVE  /\ LastAck(c) > 1
           /\ PhaseIs(c, k, "block") => k = 4
           /\ ~PhaseIs(c, k, "read")
           /\ c # MusicTrackVolume /\ c # Startup
<1> USE DEF SampleCommand, CpuPhases, LastAck, Upload, UploadAtCursor, DefineSample,
            UploadSample, ReadCommand, MusicTrackVolume, ReadProgress,
            ReadStatus, ReadSampleEnd, ReadOutputOptions, ReadKeyedVoices, Startup
<1>1. CASE c = UploadSample
  BY <1>1, SMT DEF PhaseIs
<1>2. CASE c = DefineSample
  BY <1>2, SMT DEF PhaseIs
<1> QED BY <1>1, <1>2

(* The game gets past the header only once the driver defined the sample.  *)
LEMMA CpuKeepsSample ==
    ASSUME IInv, DataInv, CpuBegin \/ CpuMark \/ CpuStep
    PROVE  DefinedSample'
<1> DEFINE own == request.command
<1> USE DEF CpuGoes, KeepCpuData, CpuHandshake, CpuBlock
<1>0. /\ DefinedSample /\ UNCHANGED <<spcPc, samples, allocated, slot>>
      /\ CpuInPhase /\ Together /\ cpuPhase \in 1 .. 5 /\ spcPc \in SpcPcs /\ cpuPc \in CpuPcs
  BY CpuLeavesDriver DEF DataInv, spcVars, memory, IInv, Handshake, TypeOK, CpuTypeOK, SpcTypeOK
<1>1. ASSUME request' = request, own \in SampleCommand /\ PastHeader' => PastHeader
      PROVE  DefinedSample'
  BY <1>0, <1>1 DEF DefinedSample, LastIndex
<1>2. CASE CpuBegin
  <2>1. cpuPc' \in {"low", "mode"} /\ spcPc # "headerEnd"
    BY <1>0, <1>2 DEF CpuBegin, FirstAccess, Together, Ahead
  <2> QED BY <1>0, <2>1 DEF DefinedSample, PastHeader
<1>3. CASE CpuBootSeesLow \/ CpuBootSeesHigh \/ CpuBootRepliesLow \/ CpuBootRepliesHigh
  <2>1. request' = request /\ own = Startup
    BY <1>0, <1>3
    DEF CpuInPhase, CpuBooting, StartupRequest, CpuBootSeesLow, CpuBootSeesHigh,
        CpuBootRepliesLow, CpuBootRepliesHigh
  <2> QED BY <1>0, <1>1, <2>1, SampleTable
<1>4. CASE CpuMark \/ CpuWriteLow \/ CpuWriteHigh \/ CpuWriteMode
  <2>1. /\ request' = request
        /\ (cpuPc = "idle" /\ cpuPc' = "idle") \/ cpuPc' \in {"high", "mode", "check"}
    BY <1>4 DEF CpuMark, CpuWriteLow, CpuWriteHigh, CpuWriteMode
  <2> QED BY <1>0, <1>1, <2>1 DEF PastHeader
<1>5. CASE CpuWriteCheck
  <2>1. \/ cpuPc' = "idle" /\ own = MusicTrackVolume
        \/ cpuPc' = "ackLow" /\ cpuPhase' = 1
    BY <1>5, CpuPosts
  <2>2. request' = request
    BY <1>5 DEF CpuWriteCheck
  <2> QED BY <1>0, <1>1, <2>1, <2>2, SampleTable, SMT DEF PastHeader
<1>6. CASE CpuSeeAckLow \/ CpuSeeAckHigh \/ CpuClearLow \/ CpuClearHigh \/ CpuSeeFreeLow
  <2>1. /\ UNCHANGED <<request, cpuPhase>>
        /\ cpuPc \in CpuHandshake /\ cpuPc' \in CpuHandshake
    BY <1>6 DEF CpuSeeAckLow, CpuSeeAckHigh, CpuClearLow, CpuClearHigh, CpuSeeFreeLow
  <2> QED BY <1>0, <1>1, <2>1 DEF PastHeader
<1>7. CASE CpuSeeFreeHigh
  <2>1. /\ \/ cpuPc' = "idle" /\ cpuPhase = LastAck(own)
           \/ cpuPc' \in {"read", "headerData"}
           \/ /\ cpuPc' = "blockStart" /\ cpuPhase' = cpuPhase + 1 /\ cpuPhase' \in 1 .. 5
              /\ PhaseIs(own, cpuPhase', "block")
        /\ request' = request /\ cpuPc = "freeHigh"
    BY <1>7, CpuFreed DEF CpuSeeFreeHigh
  <2>2. own \in SampleCommand /\ cpuPc' \in {"idle", "blockStart"} => cpuPhase > 1
    <3>1. own \in SampleCommand => LastAck(own) > 1
      BY <1>0, SampleTable
    <3>2. own \in SampleCommand /\ cpuPc' = "blockStart" => cpuPhase + 1 = 4
      BY <2>1, SampleTable
    <3> QED BY <1>0, <2>1, <3>1, <3>2, SMT
  <2> QED BY <1>0, <1>1, <2>1, <2>2 DEF PastHeader
<1>8. CASE CpuRead
  BY <1>0, <1>1, <1>8, SampleTable DEF CpuRead, CpuInPhase
<1>9. CASE CpuHeaderEnd
  <2>1. spcPc = "headerEnd"
    BY <1>0, <1>9 DEF CpuHeaderEnd, Together, SpcPcs, SpcLooping, Same, Freed, Behind, Ahead, Done,
       AwaitsDispatch, CpuPosting, CpuBooting
  <2> QED BY <1>1, <1>9, <2>1 DEF CpuHeaderEnd, PastHeader
<1>10. CASE CpuHeaderData \/ CpuHeaderIndex \/ CpuHeaderPoll
  BY <1>0, <1>1, <1>10 DEF CpuHeaderData, CpuHeaderIndex, CpuHeaderPoll, PastHeader
<1>11. CASE \/ CpuBlockStart \/ CpuBlockEcho \/ CpuPairLow \/ CpuPairHigh
            \/ CpuPairIndex \/ CpuPairPoll \/ CpuBlockEnd
  <2>1. cpuPc \in CpuBlock /\ request' = request
    BY <1>11 DEF CpuBlockStart, CpuBlockEcho, CpuPairLow, CpuPairHigh, CpuPairIndex, CpuPairPoll,
       CpuBlockEnd
  <2> QED BY <1>1, <2>1 DEF PastHeader
<1> QED
  BY <1>2, <1>3, <1>4, <1>5, <1>6, <1>7, <1>8, <1>9, <1>10, <1>11 DEF CpuStep

(* Only a dispatch and the end of a header define and allocate. *)
LEMMA SpcKeepsSamples ==
    ASSUME IInv, SpcStepNext, ~SpcRun, ~(SpcHeaderReply /\ counter = 1)
    PROVE  UNCHANGED <<samples, allocated, slot>> /\ spcPc' # "headerEnd"
<1> USE DEF SpcGoes, KeepSpcData, memory
<1>1. CASE SpcAct \/ SpcAckClearHigh \/ SpcHeaderEnd \/ (SpcBlockCheck /\ toSpc.check = EndMark)
  <2>1. spcPc' \in {"main", "act", "headerWait", "blockStart", "ackLow"}
    BY <1>1, SpcActed, SpcAcknowledged, SpcReceived
  <2> QED BY <1>1, <2>1 DEF SpcAct, SpcAckClearHigh, SpcHeaderEnd, SpcBlockCheck
<1>2. CASE \/ SpcBootWriteLow \/ SpcBootWriteHigh \/ SpcBootWaitLow \/ SpcBootWaitHigh
           \/ SpcPass \/ SpcRunVolume \/ SpcSetVolume
           \/ SpcAckLow \/ SpcAckHigh \/ SpcAckWaitLow \/ SpcAckWaitHigh \/ SpcAckClearLow
           \/ SpcHeaderWait \/ SpcHeaderTake \/ (SpcHeaderReply /\ counter # 1)
           \/ SpcBlockStart \/ SpcBlockEcho \/ (SpcBlockCheck /\ toSpc.check # EndMark)
           \/ SpcBlockIndex \/ SpcBlockLow \/ SpcBlockHigh \/ SpcBlockReply
  BY <1>2, PassLeaves
  DEF SpcBootWriteLow, SpcBootWriteHigh, SpcBootWaitLow, SpcBootWaitHigh,
      SpcLooping, SpcRunVolume, SpcSetVolume,
      SpcAckLow, SpcAckHigh, SpcAckWaitLow, SpcAckWaitHigh, SpcAckClearLow,
      SpcHeaderWait, SpcHeaderTake, SpcHeaderReply, Store,
      SpcBlockStart, SpcBlockEcho, SpcBlockCheck, SpcBlockIndex, SpcBlockLow,
      SpcBlockHigh, SpcBlockReply
<1> QED BY <1>1, <1>2 DEF SpcStepNext

(* The slot before the one after a slot is that slot. *)
LEMMA PreviousSlot ==
    ASSUME NEW s \in Byte
    PROVE  (((s + 4) % ByteSize) + ByteSize - 4) % ByteSize = s
<1>1. s \in Nat /\ s < ByteSize /\ ByteSize \in Nat /\ ByteSize > 8
  BY ByteFacts, SMT DEF Byte
<1>2. CASE s + 4 < ByteSize
  BY <1>1, <1>2, SMT
<1>3. CASE s + 4 >= ByteSize
  <2>1. (s + 4) % ByteSize = s + 4 - ByteSize
    BY <1>1, <1>3, SMT
  <2>2. ((s + 4) % ByteSize) + ByteSize - 4 = s
    BY <1>1, <2>1, SMT
  <2> QED BY <1>1, <2>2, SMT
<1> QED BY <1>1, <1>2, <1>3, SMT

(* The entry that the last header byte defines. *)
LEMMA HeaderDefines ==
    ASSUME IInv, DataInv, SpcHeaderReply, counter = 1
    PROVE  /\ LastIndex' = slot \div 4 /\ LastIndex' \in DOMAIN samples'
           /\ samples'[LastIndex'] =
                [start |-> allocated,
                 loop |-> (allocated + Word(header[3], header[4])) % MemorySize,
                 instrument |-> <<header[5], header[6], header[7], header[8]>>]
           /\ allocated' = (allocated + Word(header[1], header[2])) % MemorySize
           /\ transfer' = allocated
           /\ \A k \in 1 .. HeaderBytes : header[k] = RomByte(request.source + (k - 1))
<1>1. DefineSampleFromHeader /\ spcPc = "headerReply"
  BY DEF SpcHeaderReply
<1>2. slot \in Byte
  BY DEF IInv, TypeOK, SpcTypeOK
<1>3. LastIndex' = slot \div 4
  BY <1>1, <1>2, PreviousSlot DEF LastIndex, DefineSampleFromHeader
<1> DEFINE entry == [start |-> allocated,
                     loop |-> (allocated + Word(header[3], header[4])) % MemorySize,
                     instrument |-> <<header[5], header[6], header[7], header[8]>>]
           at == slot \div 4
<1>4. samples' = Written(samples, at, entry)
  BY <1>1 DEF DefineSampleFromHeader
<1>5. at \in DOMAIN samples' /\ samples'[at] = entry
  <2> HIDE DEF entry, at
  <2> QED BY <1>4 DEF Written
<1>6. \A k \in 1 .. HeaderBytes : header[k] = RomByte(request.source + (k - 1))
  <2>1. \A k \in 1 .. HeaderBytes : k < HeaderBytes + 1 - counter \/ k = HeaderBytes + 1 - counter
    BY SMT DEF HeaderBytes
  <2> QED BY <1>1, <2>1 DEF DataInv, HeaderTaken
<1> QED BY <1>1, <1>3, <1>5, <1>6 DEF DefineSampleFromHeader

(* The sample the header defines stays defined. *)
LEMMA SpcKeepsSample ==
    ASSUME IInv, DataInv, SpcStepNext
    PROVE  DefinedSample'
<1>0. DefinedSample /\ UNCHANGED <<toSpc, cpuPc, cpuPhase, request>>
  BY SpcLeavesGame DEF DataInv, cpuVars
<1>1. CASE SpcRun
  <2>1. spcPc' = "ackLow" /\ cpuPc' = "ackLow" /\ cpuPhase' = 1
    BY <1>0, <1>1, SpcRuns DEF AwaitsDispatch
  <2> QED BY <2>1, SMT DEF DefinedSample, PastHeader, CpuBlock
<1>2. CASE SpcHeaderReply /\ counter = 1
  <2> DEFINE src == request.source
             H(k) == RomByte(src + (k - 1))
  <2>1. /\ LastIndex' \in DOMAIN samples'
        /\ samples'[LastIndex'].start = allocated
        /\ samples'[LastIndex'].loop = (allocated + Word(header[3], header[4])) % MemorySize
        /\ samples'[LastIndex'].instrument = <<header[5], header[6], header[7], header[8]>>
        /\ allocated' = (allocated + Word(header[1], header[2])) % MemorySize
        /\ \A k \in 1 .. HeaderBytes : header[k] = RomByte(src + (k - 1))
    BY <1>2, HeaderDefines
  <2>2. src \in Nat /\ allocated \in Address
    BY RequestFacts DEF IInv, TypeOK, SpcTypeOK
  <2>3. /\ header[1] = RomByte(src + 0) /\ header[2] = RomByte(src + 0 + 1)
        /\ header[3] = RomByte(src + 2) /\ header[4] = RomByte(src + 2 + 1)
    <3>1. \A k \in {1, 2, 3, 4} : header[k] = RomByte(src + (k - 1))
      BY <2>1, SMT DEF HeaderBytes
    <3>2. /\ src + 0 = src + (1 - 1) /\ src + 0 + 1 = src + (2 - 1)
          /\ src + 2 = src + (3 - 1) /\ src + 2 + 1 = src + (4 - 1)
      BY <2>2, SMT
    <3> QED BY <3>1, <3>2
  <2>4. <<header[5], header[6], header[7], header[8]>> = [k \in 1 .. 4 |-> RomByte(src + 3 + k)]
    <3>1. \A k \in 1 .. 4 : header[k + 4] = RomByte(src + 3 + k)
      <4>1. \A k \in 1 .. 4 : k + 4 \in 1 .. HeaderBytes /\ src + ((k + 4) - 1) = src + 3 + k
        BY <2>2, SMT DEF HeaderBytes
      <4> QED BY <2>1, <4>1
    <3> HIDE DEF src
    <3>2. /\ header[5] = RomByte(src + 3 + 1) /\ header[6] = RomByte(src + 3 + 2)
          /\ header[7] = RomByte(src + 3 + 3) /\ header[8] = RomByte(src + 3 + 4)
      <4>1. 1 \in 1 .. 4 /\ 2 \in 1 .. 4 /\ 3 \in 1 .. 4 /\ 4 \in 1 .. 4
            /\ 1 + 4 = 5 /\ 2 + 4 = 6 /\ 3 + 4 = 7 /\ 4 + 4 = 8
        BY SMT
      <4> QED BY <3>1, <4>1
    <3> QED BY <3>2, SMT
  <2> QED BY <1>0, <2>1, <2>2, <2>3, <2>4 DEF DefinedSample
<1>3. CASE ~SpcRun /\ ~(SpcHeaderReply /\ counter = 1)
  <2>1. UNCHANGED <<samples, allocated, slot>> /\ spcPc' # "headerEnd"
    BY <1>3, SpcKeepsSamples
  <2> QED BY <1>0, <2>1 DEF DefinedSample, PastHeader, LastIndex
<1> QED BY <1>1, <1>2, <1>3

-----------------------------------------------------------------------------
(* Positions in a memory that wraps. *)

(* Division with a remainder. *)
LEMMA Remainder ==
    ASSUME NEW m \in Nat, m > 0, NEW x \in Nat
    PROVE  /\ x % m \in 0 .. m - 1 /\ x \div m \in Nat
           /\ x = m * (x \div m) + (x % m)
  BY SMT

(* The remainder is the only one. *)
LEMMA OnlyRemainder ==
    ASSUME NEW m \in Nat, m > 0, NEW q \in Nat, NEW r \in 0 .. m - 1
    PROVE  (m * q + r) % m = r
  BY SMT

(* Equal positions stay equal when both move on by the same distance. *)
LEMMA MovedTogether ==
    ASSUME NEW m \in Nat, m > 0, NEW x \in Nat, NEW y \in Nat, x % m = y % m, NEW d \in Nat
    PROVE  (x + d) % m = (y + d) % m
<1> DEFINE s == (x % m) + d
           a == x \div m
           b == y \div m
           c == s \div m
           r == s % m
<1>1. x \div m \in Nat /\ x = m * (x \div m) + (x % m) /\ x % m \in Nat
  BY Remainder, SMT
<1>2. y \div m \in Nat /\ y = m * (y \div m) + (x % m)
  BY Remainder, SMT
<1>3. s \in Nat
  BY <1>1, SMT
<1>4. c \in Nat /\ r \in 0 .. m - 1 /\ s = m * c + r
  <2> HIDE DEF s
  <2> QED BY <1>3, Remainder
<1>5. a \in Nat /\ b \in Nat /\ x + d = m * a + s /\ y + d = m * b + s
  BY <1>1, <1>2, SMT
<1> HIDE DEF a, b, c, r, s
<1>6. x + d = m * (a + c) + r /\ y + d = m * (b + c) + r
  BY <1>3, <1>4, <1>5, SMT
<1>7. (m * (a + c) + r) % m = r /\ (m * (b + c) + r) % m = r
  <2>1. a + c \in Nat /\ b + c \in Nat
    BY <1>4, <1>5, SMT
  <2> QED BY <1>4, <2>1, OnlyRemainder
<1> QED BY <1>6, <1>7

(* A whole turn changes no position, nor does wrapping it first. *)
LEMMA WholeTurn ==
    ASSUME NEW m \in Nat, m > 0, NEW x \in Nat, NEW d \in Nat
    PROVE  /\ (x + m) % m = x % m
           /\ ((x % m) + d) % m = (x + d) % m
<1>1. x % m \in 0 .. m - 1 /\ x \div m \in Nat /\ x = m * (x \div m) + (x % m)
  BY Remainder
<1>2. (x + m) % m = x % m
  <2> DEFINE q == x \div m
             r == x % m
  <2>1. q \in Nat /\ r \in 0 .. m - 1 /\ x = m * q + r
    BY <1>1
  <2> HIDE DEF q, r
  <2>2. x + m = m * (q + 1) + r /\ q + 1 \in Nat
    BY <2>1, SMT
  <2>3. (m * (q + 1) + r) % m = r
    BY <2>1, <2>2, OnlyRemainder
  <2> QED BY <2>2, <2>3 DEF r
<1>3. (x % m) % m = x % m /\ x % m \in Nat
  BY <1>1, SMT
<1>4. ((x % m) + d) % m = (x + d) % m
  BY <1>3, MovedTogether
<1> QED BY <1>2, <1>4

(* Positions less than a turn apart differ. *)
LEMMA LessThanATurn ==
    ASSUME NEW m \in Nat, m > 0, NEW b \in Nat, NEW k \in Nat, NEW n \in Nat, k < n, n < k + m
    PROVE  (b + k) % m # (b + n) % m
<1> SUFFICES ASSUME (b + k) % m = (b + n) % m
             PROVE  FALSE
  OBVIOUS
<1> DEFINE x == b + k
           y == b + n
           p == x \div m
           q == y \div m
           r == x % m
<1>1. x \in Nat /\ y \in Nat
  BY SMT
<1>2. p \in Nat /\ r \in Nat /\ x = m * p + r
  <2> HIDE DEF x
  <2> QED BY <1>1, Remainder, SMT
<1>3. q \in Nat /\ y = m * q + r
  <2>1. r = y % m
    OBVIOUS
  <2> HIDE DEF x, y, r
  <2> QED BY <1>1, <2>1, Remainder
<1>4. y - x > 0 /\ y - x < m
  BY SMT
<1> HIDE DEF x, y, p, q, r
<1>5. m * (q - p) > 0 /\ m * (q - p) < m
  <2>1. y - x = m * (q - p)
    BY <1>2, <1>3, SMT
  <2> QED BY <1>4, <2>1
<1>6. CASE q > p
  <2>1. m * (q - p) >= m
    BY <1>2, <1>3, <1>6, SMT
  <2> QED BY <1>2, <1>3, <1>5, <2>1, SMT
<1>7. CASE q <= p
  <2>1. m * (q - p) <= 0
    BY <1>2, <1>3, <1>7, SMT
  <2> QED BY <1>2, <1>3, <1>5, <2>1, SMT
<1> QED BY <1>2, <1>3, <1>6, <1>7, SMT

(* Where the driver is while the game is in its pairs. *)
LEMMA PairsMeet ==
    ASSUME IInv
    PROVE  /\ cpuPc \in CpuPairs \cup {"blockEnd"} => spcPc \in SpcPairs
           /\ spcPc \in SpcPairs =>
                /\ command = request.command
                /\ \/ cpuPc \in CpuPairs \cup {"blockEnd", "ackLow"}
                   \/ cpuPc = "blockEcho" /\ counter = 0
           /\ spcPc \in {"blockLow", "blockHigh", "blockReply"} =>
                cpuPc = "pairPoll" /\ sequence = counter /\ command = request.command
           /\ cpuPc = "pairIndex" => sequence = counter
           /\ cpuPc = "pairPoll" => counter \in {sequence, NextPair(sequence)}
<1>1. Together /\ spcPc \in SpcPcs
  BY DEF IInv, Handshake, TypeOK, SpcTypeOK
<1>2. cpuPc \in CpuPairs \cup {"blockEnd"} => spcPc \in SpcPairs
  BY <1>1 DEF Together, SpcPcs, SpcLooping, Same, Freed, Behind, Ahead, Done, AwaitsDispatch, CpuPosting,
     CpuBooting, CpuPairs, SpcPairs
<1>3. spcPc \in SpcPairs =>
        /\ command = request.command
        /\ \/ cpuPc \in CpuPairs \cup {"blockEnd", "ackLow"}
           \/ cpuPc = "blockEcho" /\ counter = 0
  BY <1>1 DEF Together, Same, Ahead, CpuPairs, SpcPairs
<1>4. spcPc \in {"blockLow", "blockHigh", "blockReply"} =>
        cpuPc = "pairPoll" /\ sequence = counter /\ command = request.command
  BY <1>1 DEF Together, Same
<1>5. /\ cpuPc = "pairIndex" => sequence = counter
      /\ cpuPc = "pairPoll" => counter \in {sequence, NextPair(sequence)}
  BY <1>1, <1>2 DEF Together, Ahead, CpuPairs, SpcPairs
<1> QED BY <1>2, <1>3, <1>4, <1>5

(* The game's steps do not change what the driver replied to. *)
LEMMA CpuKeepsReplied ==
    ASSUME IInv, DataInv, CpuMark \/ CpuStep, spcPc \in SpcPairs,
           request.command \in PayloadCommand
    PROVE  Replied' = Replied /\ Stored' = Stored
<1> USE DEF CpuGoes, KeepCpuData
<1>0. /\ UNCHANGED <<spcPc, counter, request>>
      /\ \/ cpuPc \in CpuPairs \cup {"blockEnd", "ackLow"}
         \/ cpuPc = "blockEcho" /\ counter = 0
      /\ source \in Nat /\ PayloadSource(request) \in Nat /\ cpuPc \in CpuPcs
      /\ sequence \in Byte /\ Even(sequence) /\ counter \in Byte
  BY PairsMeet, CpuLeavesDriver, PayloadFacts
  DEF spcVars, IInv, TypeOK, CpuTypeOK, SpcTypeOK, Handshake, CpuSide
<1>1. Replied' = Replied
  <2>1. CASE CpuBlockEcho
    BY <1>0, <2>1 DEF CpuBlockEcho, Replied, Sent, PayloadSource
  <2>2. CASE CpuPairLow \/ CpuPairHigh
    BY <1>0, <2>2 DEF CpuPairLow, CpuPairHigh, Replied, Sent, PayloadSource
  <2>3. CASE CpuPairIndex
    <3>1. sequence = counter
      BY <2>3, PairsMeet DEF CpuPairIndex
    <3> QED BY <1>0, <2>3, <3>1 DEF CpuPairIndex, Replied, Sent, PayloadSource
  <2>4. CASE CpuPairPoll
    <3>1. counter # sequence
      <4>1. SUFFICES ASSUME counter = sequence
                     PROVE  FALSE
        OBVIOUS
      <4>2. toCpu.command \in {EndMark, WithBit7(PrevPair(counter))}
        <5>1. spcPc \notin {"ackLow", "ackHigh"}
          BY DEF SpcPairs
        <5> QED BY DEF IInv, Handshake, SpcSide, SpcPairs
      <4> QED BY <1>0, <2>4, <4>1, <4>2, PairFacts DEF CpuPairPoll
    <3>2. Replied = Sent + 2
      BY <2>4, <3>1 DEF CpuPairPoll, Replied
    <3>3. Replied' = Sent'
      BY <2>4 DEF CpuPairPoll, Replied
    <3>4. Sent' = Sent + 2
      BY <1>0, <2>4, SMT DEF CpuPairPoll, Sent, PayloadSource
    <3> QED BY <3>2, <3>3, <3>4
  <2>5. CASE CpuBlockEnd
    <3>1. cpuPc' = "ackLow" /\ source' = source /\ cpuPc = "blockEnd"
      BY <2>5, CpuSent DEF CpuBlockEnd
    <3> QED BY <1>0, <3>1 DEF Replied, Sent, PayloadSource
  <2>6. CASE CpuSeeAckLow
    BY <1>0, <2>6 DEF CpuSeeAckLow, Replied, Sent, PayloadSource
  <2> QED
    BY <1>0, <2>1, <2>2, <2>3, <2>4, <2>5, <2>6
    DEF CpuStep, CpuPairs, CpuMark, CpuBootSeesLow, CpuBootSeesHigh,
     CpuBootRepliesLow, CpuBootRepliesHigh, CpuWriteLow, CpuWriteHigh, CpuWriteMode,
     CpuWriteCheck, CpuSeeAckHigh, CpuClearLow, CpuClearHigh, CpuSeeFreeLow,
     CpuSeeFreeHigh, CpuRead, CpuHeaderData, CpuHeaderIndex, CpuHeaderPoll, CpuHeaderEnd,
     CpuBlockStart
<1> QED BY <1>0, <1>1 DEF Stored

(* The game's steps leave the driver's cursor in place. *)
LEMMA CpuKeepsCursor ==
    ASSUME IInv, DataInv, CpuBegin \/ CpuMark \/ CpuStep
    PROVE  CursorInPlace'
<1>0. CursorInPlace /\ UNCHANGED <<spcPc, spcStep, command, transfer, counter, samples, slot>>
  BY CpuLeavesDriver DEF DataInv, spcVars, memory
<1>1. CASE CpuBegin
  <2>1. cpuPc = "idle"
    BY <1>1 DEF CpuBegin
  <2>2. spcPc \notin SpcHandshake \cup {"headerEnd", "blockStart", "blockEcho"}
    BY <2>1 DEF IInv, Handshake, Together, SpcHandshake, Freed, Behind, Ahead
  <2>3. spcPc \notin SpcPairs
    BY <2>1, PairsMeet DEF CpuPairs
  <2> QED BY <1>0, <2>2, <2>3 DEF CursorInPlace, BeforeBlock
<1>2. CASE CpuMark \/ CpuStep
  <2>1. request' = request
    BY <1>2, CpuLeavesDriver
  <2>2. Base' = Base
    BY <1>0, <2>1 DEF Base, LastIndex
  <2>3. spcPc \in SpcPairs /\ command \in PayloadCommand => Replied' = Replied
    BY <1>2, CpuKeepsReplied, PairsMeet
  <2> QED BY <1>0, <2>1, <2>2, <2>3 DEF CursorInPlace, BeforeBlock
<1> QED BY <1>1, <1>2

-----------------------------------------------------------------------------
(* The bytes of a transfer, on the driver's side. *)

(* Where the driver puts the payload is an address. *)
LEMMA BaseIsAddress ==
    ASSUME IInv, DataInv, request.command \in PayloadCommand, PastHeader
    PROVE  Base \in Address
<1>1. CASE request.command = Upload
  BY <1>1, PayloadFacts DEF Base, IInv, TypeOK
<1>2. CASE request.command # Upload
  <2>1. request.command \in SampleCommand
    BY <1>2 DEF PayloadCommand, SampleCommand
  <2> QED BY <1>2, <2>1 DEF DataInv, DefinedSample, Base
<1> QED BY <1>1, <1>2

(* A dispatched upload takes its address for the cursor. *)
LEMMA DispatchTakesAddress ==
    ASSUME IInv, SpcRun
    PROVE  /\ request.command = Upload => transfer' = Base /\ UNCHANGED <<samples, slot>>
           /\ request.command = UploadSample => ~StepIs(command', spcStep' + 1, "block")
<1>1. /\ command = request.command /\ AwaitsDispatch /\ command' = command /\ spcStep' = 1
      /\ SpcStores
  BY SpcRuns DEF SpcRun
<1>2. ASSUME request.command = Upload
      PROVE  transfer' = Base /\ UNCHANGED <<samples, slot>>
  <2>1. request.command \in TwoArguments /\ request.command # SetInstrumentSlot
    BY <1>2, SMT DEF TwoArguments, Upload, SetInstrumentSlot
  <2>2. toSpc.low = request.low /\ toSpc.high = request.high
    BY <1>1, <2>1
    DEF IInv, Handshake, ArgumentsStand, AwaitsDispatch, LowStands, HighStands
  <2> QED BY <1>1, <1>2, <2>1, <2>2 DEF SpcStores, Base
<1>3. ASSUME request.command = UploadSample
      PROVE  ~StepIs(command', spcStep' + 1, "block")
  <2>1. spcStep' + 1 \in 1 .. 5 /\ spcStep' + 1 = 2 /\ UploadSample \in PayloadCommand
    BY <1>1, SMT DEF PayloadCommand
  <2> QED BY <1>1, <1>3, <2>1, PayloadTable, SMT
<1> QED BY <1>2, <1>3

(* The driver's steps keep its cursor in place. *)
LEMMA SpcKeepsCursor ==
    ASSUME IInv, DataInv, SpcStepNext
    PROVE  CursorInPlace'
<1> USE DEF SpcGoes, KeepSpcData
<1>0. /\ CursorInPlace /\ UNCHANGED <<toSpc, cpuPc, request, source, sequence>>
      /\ TypeOK /\ SpcInStep /\ Together /\ spcStep \in 1 .. 5
  BY SpcLeavesGame DEF DataInv, cpuVars, IInv, Handshake, TypeOK, SpcTypeOK
<1>1. ASSUME UNCHANGED <<command, transfer, samples, slot, counter>>, BeforeBlock' => BeforeBlock,
             spcPc' \in SpcPairs => spcPc \in SpcPairs
      PROVE  CursorInPlace'
  BY <1>0, <1>1 DEF CursorInPlace, Base, LastIndex, Replied, Sent, PayloadSource
<1>2. CASE SpcRun
  <2>1. command = request.command /\ command' = command /\ spcPc' = "ackLow"
    BY <1>2, SpcRuns
  <2>2. command = Upload => transfer' = Base'
    BY <1>0, <1>2, <2>1, DispatchTakesAddress DEF Base, LastIndex
  <2>3. command = UploadSample => ~BeforeBlock'
    BY <1>2, <2>1, DispatchTakesAddress DEF BeforeBlock
  <2> QED BY <2>1, <2>2, <2>3 DEF CursorInPlace, PayloadCommand, SpcPairs
<1>3. CASE SpcHeaderReply /\ counter = 1
  <2>1. /\ transfer' = allocated /\ samples'[LastIndex'].start = allocated
        /\ spcPc' = "headerEnd" /\ command' = command /\ command = request.command
        /\ spcPc = "headerReply"
    BY <1>0, <1>3, HeaderDefines DEF SpcHeaderReply, Together, Same
  <2>2. command \in PayloadCommand => command = UploadSample /\ UploadSample # Upload
    BY <1>0, <2>1, PayloadTable DEF SpcInStep, SpcHeader
  <2>3. command \in PayloadCommand => transfer' = Base'
    BY <1>0, <2>1, <2>2 DEF Base
  <2> QED BY <2>1, <2>3 DEF CursorInPlace, SpcPairs
<1>4. CASE SpcHeaderReply /\ counter # 1
  <2>1. spcPc' = "headerWait"
    BY <1>4 DEF SpcHeaderReply
  <2> QED BY <2>1 DEF CursorInPlace, BeforeBlock, SpcHandshake, SpcPairs
<1>5. CASE SpcHeaderEnd
  <2>1. BeforeBlock /\ spcPc' = "ackLow" /\ counter' = counter
    BY <1>5, SpcReceived DEF SpcHeaderEnd, BeforeBlock
  <2> QED BY <1>1, <1>5, <2>1 DEF SpcHeaderEnd, SpcPairs, memory
<1>6. CASE SpcAckClearHigh
  <2>1. CASE spcPc' = "blockStart" /\ StepIs(command, spcStep + 1, "block")
    <3>1. BeforeBlock /\ counter' = counter
      BY <1>6, <2>1, SpcAcknowledged DEF SpcAckClearHigh, BeforeBlock, SpcHandshake
    <3> QED BY <1>1, <1>6, <2>1, <3>1 DEF SpcAckClearHigh, SpcPairs, memory
  <2>2. CASE spcPc' \in {"main", "act", "headerWait"}
    BY <2>2 DEF CursorInPlace, BeforeBlock, SpcHandshake, SpcPairs
  <2> QED BY <1>6, <2>1, <2>2, SpcAcknowledged
<1>7. CASE SpcAct
  <2>1. spcPc' = "main"
    BY <1>7, SpcActed
  <2> QED BY <2>1 DEF CursorInPlace, BeforeBlock, SpcHandshake, SpcPairs
<1>8. CASE SpcAckLow \/ SpcAckHigh \/ SpcAckWaitLow \/ SpcAckWaitHigh \/ SpcAckClearLow
  BY <1>1, <1>8 DEF SpcAckLow, SpcAckHigh, SpcAckWaitLow, SpcAckWaitHigh, SpcAckClearLow,
     BeforeBlock, SpcHandshake, SpcPairs, memory
<1>9. CASE SpcBlockStart
  BY <1>1, <1>9 DEF SpcBlockStart, BeforeBlock, SpcHandshake, SpcPairs, memory
<1>10. CASE SpcBlockEcho
  <2>1. /\ BeforeBlock /\ cpuPc = "blockEcho" /\ command = request.command
        /\ counter' = 0 /\ spcPc' = "blockCheck"
        /\ UNCHANGED <<command, transfer, samples, slot>>
    BY <1>0, <1>10 DEF SpcBlockEcho, BeforeBlock, Together, Same, memory
  <2>2. command \in PayloadCommand => Sent = 0 /\ Replied' = Sent
    <3>1. command \in PayloadCommand =>
            source = PayloadSource(request) /\ PayloadSource(request) \in Nat
      BY <1>0, <2>1, PayloadFacts DEF DataInv, CpuPosition, TypeOK
    <3> QED BY <1>0, <2>1, <3>1, SMT DEF Sent, Replied, PayloadSource
  <2>3. command \in PayloadCommand => transfer' = Base'
    BY <1>0, <2>1 DEF CursorInPlace, Base, LastIndex
  <2>4. spcPc' \notin SpcHandshake \cup {"headerEnd", "blockStart", "blockEcho"}
    BY <2>1 DEF SpcHandshake
  <2> QED BY <2>1, <2>2, <2>3, <2>4 DEF CursorInPlace, BeforeBlock
<1>11. CASE SpcBlockCheck /\ toSpc.check = EndMark
  <2>1. /\ spcPc' = "ackLow" /\ spcStep' = spcStep + 1 /\ spcStep' \in 1 .. 5
        /\ command' = command /\ StepIs(command, spcStep, "block")
    BY <1>0, <1>11, SpcReceived DEF SpcBlockCheck, SpcInStep, SpcBlock
  <2>2. command \in PayloadCommand => ~StepIs(command, spcStep' + 1, "block")
    <3>1. ASSUME command \in PayloadCommand
          PROVE  spcStep' = LastAck(command)
      BY <1>0, <2>1, <3>1, PayloadTable
    <3>2. command \in LinkCommand
      BY <1>11, SpcReceived
    <3> QED BY <3>1, <3>2, LastIsLast
  <2> QED BY <2>1, <2>2 DEF CursorInPlace, BeforeBlock, SpcHandshake, SpcPairs
<1>12. CASE (SpcBlockCheck /\ toSpc.check # EndMark) \/ SpcBlockIndex
  BY <1>1, <1>12 DEF SpcBlockCheck, SpcBlockIndex, BeforeBlock, SpcHandshake, SpcPairs, memory
<1>13. CASE SpcBlockLow \/ SpcBlockHigh
  BY <1>1, <1>13 DEF SpcBlockLow, SpcBlockHigh, Store, BeforeBlock, SpcHandshake, SpcPairs
<1>14. CASE SpcBlockReply
  <2>1. /\ spcPc = "blockReply" /\ spcPc' = "blockCheck" /\ cpuPc = "pairPoll"
        /\ counter = sequence /\ counter' = NextPair(counter)
        /\ command = request.command /\ command' = command
        /\ UNCHANGED <<samples, slot>>
    BY <1>14, PairsMeet DEF SpcBlockReply
  <2>2. SUFFICES ASSUME command \in PayloadCommand
                 PROVE  (transfer' + counter') % MemorySize = (Base' + Replied') % MemorySize
    BY <2>1 DEF CursorInPlace, BeforeBlock, SpcHandshake
  <2>3. /\ transfer \in Nat /\ counter \in Byte /\ counter \in Nat /\ Even(counter)
        /\ MemorySize \in Nat /\ MemorySize > 0 /\ ByteSize \in Nat
        /\ Sent \in Nat /\ Base \in Nat
    <3>1. Base \in Address
      BY <2>1, <2>2, BaseIsAddress DEF PastHeader, CpuBlock
    <3>2. Sent \in Nat
      BY <2>1, <2>2 DEF DataInv, CpuPosition, CpuPairs
    <3>3. counter \in Byte /\ transfer \in Address /\ Even(counter)
      BY <2>1 DEF IInv, TypeOK, SpcTypeOK, Handshake, SpcSide
    <3> QED BY <3>1, <3>2, <3>3, ByteFacts, SMT DEF Byte
  <2>4. Base' = Base /\ Replied = Sent /\ Replied' = Sent + 2
    <3>1. counter' # counter
      BY <2>1, <2>3, PairFacts
    <3> QED BY <1>0, <2>1, <3>1 DEF Base, LastIndex, Replied, Sent, PayloadSource
  <2>5. (transfer + counter + 2) % MemorySize = (Base + (Sent + 2)) % MemorySize
    <3>1. (transfer + counter) % MemorySize = (Base + Sent) % MemorySize
      BY <2>1, <2>2, <2>4 DEF CursorInPlace, DataInv, SpcPairs
    <3> DEFINE x == transfer + counter
               y == Base + Sent
    <3>2. x \in Nat /\ y \in Nat
      BY <2>3, SMT
    <3>3. (x + 2) % MemorySize = (y + 2) % MemorySize
      <4> HIDE DEF x, y
      <4>1. x % MemorySize = y % MemorySize
        BY <3>1 DEF x, y
      <4>2. \A d \in Nat : (x + d) % MemorySize = (y + d) % MemorySize
        <5> DEFINE m == MemorySize
        <5>1. m \in Nat /\ m > 0 /\ x % m = y % m
          BY <2>3, <4>1
        <5> HIDE DEF m
        <5>2. \A d \in Nat : (x + d) % m = (y + d) % m
          BY <3>2, <5>1, MovedTogether
        <5> QED BY <5>2 DEF m
      <4> QED BY <4>2, SMT
    <3>4. y + 2 = Base + (Sent + 2)
      BY <2>3, SMT
    <3> QED BY <3>3, <3>4
  <2>6. transfer' = Advanced(transfer)
    BY <1>14, <2>1, <2>2, SMT
    DEF SpcBlockReply, PayloadCommand, Upload, UploadSample, UploadAtCursor
  <2>7. CASE NextPair(counter) = 0
    <3>1. counter + 2 = ByteSize
      BY <2>3, <2>7, SMT DEF NextPair
    <3>2. transfer' = (transfer + ByteSize) % MemorySize /\ counter' = 0
      BY <2>1, <2>6, <2>7 DEF Advanced
    <3>3. transfer + ByteSize = transfer + counter + 2 /\ transfer + ByteSize \in Nat
      BY <2>3, <3>1, SMT
    <3>4. (transfer' + counter') % MemorySize = (transfer + counter + 2) % MemorySize
      <4> DEFINE x == transfer + ByteSize
      <4>1. ((x % MemorySize) + 0) % MemorySize = (x + 0) % MemorySize
        <5>1. x \in Nat
          BY <3>3
        <5> HIDE DEF x
        <5> QED BY <2>3, <5>1, WholeTurn
      <4>2. x + 0 = x
        BY <3>3, SMT
      <4> QED BY <3>2, <3>3, <4>1, <4>2
    <3> QED BY <2>4, <2>5, <3>4
  <2>8. CASE NextPair(counter) # 0
    <3>1. counter' = counter + 2
      BY <2>1, <2>8 DEF NextPair
    <3>2. transfer' = transfer
      BY <2>6, <2>8 DEF Advanced
    <3>3. transfer' + counter' = transfer + counter + 2
      BY <2>3, <3>1, <3>2, SMT
    <3> QED BY <2>4, <2>5, <3>3
  <2> QED BY <2>7, <2>8
<1>15. CASE SpcBootWaitHigh
  <2>1. command' = Startup
    BY <1>0, <1>15 DEF SpcBootWaitHigh, SpcInStep, SpcBooting
  <2> QED BY <2>1, SMT DEF CursorInPlace, PayloadCommand, Startup, Upload, UploadSample
<1>16. CASE \/ SpcBootWriteLow \/ SpcBootWriteHigh \/ SpcBootWaitLow
            \/ SpcPass \/ SpcRunVolume \/ SpcSetVolume
            \/ SpcHeaderWait \/ SpcHeaderTake
  <2>1. spcPc' \in SpcLooping \cup {"bootHigh", "bootWaitLow", "bootWaitHigh", "headerTake",
                                    "headerReply"}
    BY <1>16, PassLeaves DEF SpcBootWriteLow, SpcBootWriteHigh, SpcBootWaitLow, SpcLooping,
       SpcRunVolume, SpcSetVolume, SpcHeaderWait, SpcHeaderTake
  <2> QED BY <2>1 DEF CursorInPlace, BeforeBlock, SpcHandshake, SpcPairs, SpcLooping
<1> QED
  BY <1>2, <1>3, <1>4, <1>5, <1>6, <1>7, <1>8, <1>9, <1>10, <1>11, <1>12, <1>13, <1>14,
     <1>15, <1>16 DEF SpcStepNext

(* The game's steps leave the stored bytes alone. *)
LEMMA CpuKeepsPayload ==
    ASSUME IInv, DataInv, CpuBegin \/ CpuMark \/ CpuStep
    PROVE  PayloadHeld'
<1> DEFINE own == request.command
           region == cpuPc \in CpuPairs \/ BlockOver
<1> USE DEF CpuGoes, KeepCpuData
<1>0. /\ PayloadHeld /\ UNCHANGED <<aram, samples, slot, spcPc, counter>>
      /\ CpuInPhase /\ TypeOK /\ cpuPhase \in 1 .. 5
  BY CpuLeavesDriver DEF DataInv, spcVars, memory, IInv, Handshake, TypeOK, CpuTypeOK
<1>1. ASSUME request' = request, own \in PayloadCommand /\ region' => region /\ Stored' = Stored
      PROVE  PayloadHeld'
  <2> SUFFICES ASSUME own \in PayloadCommand, region'
               PROVE  \A k \in 0 .. Stored' - 1 :
                        LET a == (Base' + k) % MemorySize
                        IN  a \in DOMAIN aram' /\ aram'[a] = RomByte(PayloadSource(request') + k)
    BY <1>1 DEF PayloadHeld
  <2>1. Base' = Base /\ Stored' = Stored /\ region
    BY <1>0, <1>1 DEF Base, LastIndex
  <2> QED BY <1>0, <1>1, <2>1 DEF PayloadHeld
<1>2. ASSUME request' = request, cpuPc \in CpuPairs \cup {"blockEnd"}, CpuStep
      PROVE  PayloadHeld'
  <2>1. region /\ spcPc \in SpcPairs
    BY <1>2, PairsMeet DEF BlockOver
  <2>2. own \in PayloadCommand => Stored' = Stored
    BY <1>2, <2>1, CpuKeepsReplied
  <2> QED BY <1>1, <1>2, <2>1, <2>2
<1>3. ASSUME request' = request, source' = source, cpuPc \in CpuHandshake \cup {"idle"},
             cpuPc' \in CpuHandshake \cup {"idle"}, own \in PayloadCommand /\ region' => region
      PROVE  PayloadHeld'
  <2>1. Stored' = Stored
    <3>1. cpuPc # "pairPoll" /\ cpuPc' # "pairPoll"
      BY <1>3 DEF CpuHandshake
    <3> QED BY <1>0, <1>3, <3>1 DEF Stored, Replied, Sent, PayloadSource
  <2> QED BY <1>1, <1>3, <2>1
<1>4. CASE CpuBegin
  <2>1. cpuPc' \in {"low", "mode"}
    BY <1>4 DEF CpuBegin, FirstAccess
  <2> QED BY <2>1 DEF PayloadHeld, BlockOver, CpuHandshake, CpuPairs
<1>5. CASE CpuBootSeesLow \/ CpuBootSeesHigh \/ CpuBootRepliesLow \/ CpuBootRepliesHigh
  <2>1. request' = request /\ own = Startup
    BY <1>0, <1>5
    DEF CpuInPhase, CpuBooting, StartupRequest, CpuBootSeesLow, CpuBootSeesHigh,
        CpuBootRepliesLow, CpuBootRepliesHigh
  <2> QED BY <1>0, <1>1, <2>1, PayloadTable
<1>6. CASE CpuMark
  BY <1>3, <1>6 DEF CpuMark, BlockOver
<1>7. CASE \/ CpuWriteLow \/ CpuWriteHigh \/ CpuWriteMode
           \/ CpuHeaderData \/ CpuHeaderIndex \/ CpuHeaderPoll \/ CpuBlockStart
  <2>1. cpuPc' \in {"high", "mode", "check", "headerData", "headerIndex", "headerPoll",
                    "headerEnd", "blockEcho"}
    BY <1>7 DEF CpuWriteLow, CpuWriteHigh, CpuWriteMode, CpuHeaderData, CpuHeaderIndex,
       CpuHeaderPoll, CpuBlockStart
  <2> QED BY <2>1 DEF PayloadHeld, BlockOver, CpuHandshake, CpuPairs
<1>8. CASE CpuWriteCheck
  <2>1. /\ request' = request
        /\ \/ cpuPc' = "idle" /\ own = MusicTrackVolume
           \/ cpuPc' = "ackLow" /\ cpuPhase' = 1
    BY <1>8, CpuPosts DEF CpuWriteCheck
  <2>2. own \in PayloadCommand => LastAck(own) # 1 /\ own # MusicTrackVolume
    BY <1>0, PayloadTable, SMT
  <2> QED BY <2>1, <2>2 DEF PayloadHeld, BlockOver, CpuPairs
<1>9. CASE CpuSeeAckLow \/ CpuSeeAckHigh \/ CpuClearLow \/ CpuClearHigh \/ CpuSeeFreeLow
  <2>1. /\ UNCHANGED <<request, cpuPhase, source>>
        /\ cpuPc \in CpuHandshake /\ cpuPc' \in CpuHandshake
    BY <1>9 DEF CpuSeeAckLow, CpuSeeAckHigh, CpuClearLow, CpuClearHigh, CpuSeeFreeLow,
       CpuHandshake
  <2>2. region' => region
    BY <2>1 DEF BlockOver, CpuHandshake, CpuPairs
  <2> QED BY <1>3, <2>1, <2>2
<1>10. CASE CpuSeeFreeHigh
  <2>1. /\ request' = request /\ cpuPc = "freeHigh"
        /\ \/ cpuPc' = "idle" /\ cpuPhase = LastAck(own)
           \/ cpuPc' \in {"read", "headerData", "blockStart"}
    BY <1>10, CpuFreed DEF CpuSeeFreeHigh
  <2>2. CASE cpuPc' = "idle"
    <3>1. source' = source
      BY <1>10, <2>2 DEF CpuSeeFreeHigh
    <3> QED BY <1>3, <2>1, <2>2, <3>1 DEF BlockOver, CpuHandshake
  <2>3. CASE cpuPc' \in {"read", "headerData", "blockStart"}
    BY <2>3 DEF PayloadHeld, BlockOver, CpuHandshake, CpuPairs
  <2> QED BY <2>1, <2>2, <2>3
<1>11. CASE CpuRead
  BY <1>0, <1>1, <1>11, PayloadTable DEF CpuRead, CpuInPhase
<1>12. CASE CpuHeaderEnd
  <2>1. /\ cpuPc' = "ackLow" /\ cpuPhase' = cpuPhase + 1 /\ request' = request
        /\ PhaseIs(own, cpuPhase, "header")
    BY <1>12, CpuSent
  <2>2. own \in PayloadCommand => cpuPhase' = 3 /\ LastAck(own) = 5
    BY <1>0, <2>1, PayloadTable, SMT
  <2> QED BY <2>1, <2>2, SMT DEF PayloadHeld, BlockOver, CpuPairs
<1>13. CASE CpuBlockEcho
  <2>1. request' = request /\ cpuPc = "blockEcho" /\ cpuPc' = "pairLow" /\ source' = source
    BY <1>13 DEF CpuBlockEcho
  <2>2. spcPc' \notin {"blockHigh", "blockReply"}
    BY <1>0, <2>1, PairsMeet
  <2>3. ASSUME own \in PayloadCommand
        PROVE  Stored' = 0
    <3>1. source = PayloadSource(request) /\ PayloadSource(request) \in Nat
      BY <1>0, <2>1, <2>3, PayloadFacts DEF DataInv, CpuPosition, TypeOK
    <3>2. Sent' = 0
      BY <2>1, <3>1, SMT DEF Sent, PayloadSource
    <3> QED BY <2>1, <2>2, <3>2 DEF Stored, Replied
  <2>4. own \in PayloadCommand => 0 .. Stored' - 1 = {}
    BY <2>3, SMT
  <2> QED BY <2>1, <2>4 DEF PayloadHeld
<1>14. CASE CpuPairLow \/ CpuPairHigh \/ CpuPairIndex \/ CpuPairPoll \/ CpuBlockEnd
  <2>1. request' = request /\ cpuPc \in CpuPairs \cup {"blockEnd"}
    BY <1>14 DEF CpuPairLow, CpuPairHigh, CpuPairIndex, CpuPairPoll, CpuBlockEnd, CpuPairs
  <2> QED BY <1>2, <1>14, <2>1 DEF CpuStep
<1> QED
  BY <1>4, <1>5, <1>6, <1>7, <1>8, <1>9, <1>10, <1>11, <1>12, <1>13, <1>14 DEF CpuStep

(* A byte of a pair goes behind those already stored and on none of them:  *)
(* a payload is shorter than the memory.                                   *)
LEMMA StoresNext ==
    ASSUME IInv, DataInv, request.command \in PayloadCommand,
           spcPc \in {"blockLow", "blockHigh"}, NEW offset \in {0, 1}, Stored = Sent + offset,
           Store(offset, RomByte(source + offset))
    PROVE  /\ Base' = Base \/ request' # request
           /\ \A k \in 0 .. Sent + offset :
                LET a == (Base + k) % MemorySize
                IN  a \in DOMAIN aram' /\ aram'[a] = RomByte(PayloadSource(request) + k)
<1>1. /\ cpuPc = "pairPoll" /\ sequence = counter /\ command = request.command
      /\ Replied = Sent
  BY PairsMeet DEF Replied
<1>2. /\ Base \in Nat /\ Sent \in Nat /\ source \in Nat /\ PayloadSource(request) \in Nat
      /\ MemorySize \in Nat /\ MemorySize > 0 /\ transfer \in Nat /\ counter \in Nat
      /\ Sent + 1 < MemorySize /\ source = PayloadSource(request) + Sent
  <2>1. Base \in Address
    BY <1>1, BaseIsAddress DEF PastHeader, CpuBlock
  <2>2. /\ Sent \in Nat /\ Sent + remaining = PayloadLength(request)
        /\ Sent > 0 => remaining > 0
    BY <1>1 DEF DataInv, CpuPosition, CpuPairs
  <2>3. /\ PayloadLength(request) \in Address /\ PayloadSource(request) \in Nat
        /\ remaining \in Nat /\ source \in Nat /\ transfer \in Address /\ counter \in Byte
    BY PayloadFacts DEF IInv, TypeOK, CpuTypeOK, SpcTypeOK
  <2>4. source = PayloadSource(request) + Sent
    <3> DEFINE p == PayloadSource(request)
    <3>1. p \in Nat /\ Sent = source - p
      BY <2>3 DEF Sent
    <3> HIDE DEF p
    <3>2. source = p + Sent
      BY <2>3, <3>1, SMT
    <3> QED BY <3>2 DEF p
  <2>5. MemorySize \in Nat /\ MemorySize > 1 /\ counter \in Nat
    <3>1. ByteSize >= 20 /\ ByteSize \in Nat
      BY ByteFacts, SMT
    <3>2. ByteSize * ByteSize >= 20
      BY <3>1, SMT
    <3> QED BY <2>3, <3>2, ByteFacts, SMT DEF MemorySize, Byte
  <2>6. Sent + 1 < MemorySize
    <3>1. PayloadLength(request) \in Nat /\ PayloadLength(request) < MemorySize
      BY <2>3, <2>5, SMT DEF Address
    <3> QED BY <2>2, <2>3, <2>5, <3>1, SMT
  <2>7. Base \in Nat /\ transfer \in Nat
    BY <2>1, <2>3, ByteFacts
  <2> QED BY <2>2, <2>3, <2>4, <2>5, <2>6, <2>7
<1> DEFINE n == Sent + offset
           at == (Base + n) % MemorySize
<1>3. n \in Nat /\ n < MemorySize
  BY <1>2, SMT
<1>4. aram' = Written(aram, at, RomByte(source + offset))
  <2>1. (transfer + counter) % MemorySize = (Base + Sent) % MemorySize
    BY <1>1 DEF DataInv, CursorInPlace, SpcPairs
  <2>2. (transfer + counter + offset) % MemorySize = at
    <3> DEFINE x == transfer + counter
               y == Base + Sent
               m == MemorySize
    <3>1. x \in Nat /\ y \in Nat /\ m \in Nat /\ m > 0 /\ x % m = y % m /\ offset \in Nat
      BY <1>2, <2>1, SMT
    <3>2. y + offset = Base + n
      BY <1>2, SMT
    <3> HIDE DEF x, y, m
    <3>3. (x + offset) % m = (y + offset) % m
      BY <3>1, MovedTogether
    <3> QED BY <3>2, <3>3 DEF x, m
  <2>3. Cursor = transfer
    BY <1>1, SMT DEF Cursor, PayloadCommand, Upload, UploadSample, UploadAtCursor
  <2> QED BY <2>2, <2>3 DEF Store
<1>5. source + offset = PayloadSource(request) + n
  BY <1>2, SMT
<1>6. at \in DOMAIN aram' /\ aram'[at] = RomByte(PayloadSource(request) + n)
  <2> HIDE DEF at, n
  <2> QED BY <1>4, <1>5 DEF Written
<1>7. ASSUME NEW k \in 0 .. n, k # n
      PROVE  LET a == (Base + k) % MemorySize
             IN  a \in DOMAIN aram' /\ aram'[a] = RomByte(PayloadSource(request) + k)
  <2> DEFINE a == (Base + k) % MemorySize
  <2>1. k \in Nat /\ k < n /\ n < k + MemorySize /\ k \in 0 .. n - 1
    BY <1>2, <1>3, <1>7, SMT
  <2>2. a # at
    <3> DEFINE m == MemorySize
    <3>1. m \in Nat /\ m > 0 /\ n < k + m
      BY <1>2, <2>1
    <3> HIDE DEF m, n
    <3>2. (Base + k) % m # (Base + n) % m
      BY <1>2, <1>3, <2>1, <3>1, LessThanATurn
    <3> QED BY <3>2 DEF m
  <2>3. a \in DOMAIN aram /\ aram[a] = RomByte(PayloadSource(request) + k)
    BY <1>1, <2>1 DEF DataInv, PayloadHeld, CpuPairs
  <2>4. a \in DOMAIN aram' /\ aram'[a] = aram[a]
    <3> HIDE DEF a, at
    <3> QED BY <1>4, <2>2, <2>3 DEF Written
  <2> QED BY <2>3, <2>4
<1>8. Base' = Base \/ request' # request
  BY DEF Store, Base, LastIndex
<1> QED BY <1>6, <1>7, <1>8

(* The driver's steps put each byte of a payload where it belongs and move *)
(* none of those already there.                                            *)
LEMMA SpcKeepsPayload ==
    ASSUME IInv, DataInv, SpcStepNext
    PROVE  PayloadHeld'
<1> USE DEF SpcGoes, KeepSpcData
<1> DEFINE own == request.command
           region == cpuPc \in CpuPairs \/ BlockOver
           P == PayloadSource(request)
<1>0. /\ PayloadHeld /\ UNCHANGED <<toSpc, cpuPc, cpuPhase, request, source, sequence>>
      /\ TypeOK /\ Together /\ cpuPhase \in 1 .. 5
      /\ Sent' = Sent
  BY SpcLeavesGame DEF DataInv, cpuVars, IInv, Handshake, TypeOK, CpuTypeOK, Sent, PayloadSource
<1>1. ASSUME UNCHANGED <<aram, samples, slot>>, Stored' = Stored
      PROVE  PayloadHeld'
  <2>1. Base' = Base
    BY <1>0, <1>1 DEF Base, LastIndex
  <2> QED BY <1>0, <1>1, <2>1 DEF PayloadHeld, BlockOver
<1>2. ASSUME own \notin PayloadCommand \/ ~region
      PROVE  PayloadHeld'
  BY <1>0, <1>2 DEF PayloadHeld, BlockOver
<1>3. ASSUME UNCHANGED <<aram, samples, slot>>, spcPc \notin SpcPairs,
             spcPc' \notin {"blockHigh", "blockReply"}
      PROVE  PayloadHeld'
  <2>1. cpuPc # "pairPoll" /\ spcPc \notin {"blockHigh", "blockReply"}
    BY <1>3, PairsMeet DEF CpuPairs, SpcPairs
  <2>2. Stored' = Stored
    BY <1>0, <1>3, <2>1 DEF Stored, Replied
  <2> QED BY <1>1, <1>3, <2>2
<1>4. CASE SpcRun
  <2>1. AwaitsDispatch
    BY <1>4, SpcRuns
  <2>2. own \in PayloadCommand => LastAck(own) # 1
    BY <1>0, PayloadTable, SMT
  <2> QED BY <1>2, <2>1, <2>2 DEF AwaitsDispatch, BlockOver, CpuPairs
<1>5. CASE SpcHeaderReply
  <2>1. cpuPc = "headerPoll"
    BY <1>0, <1>5 DEF SpcHeaderReply, Together
  <2> QED BY <1>2, <2>1 DEF BlockOver, CpuPairs, CpuHandshake
<1>6. CASE SpcAct \/ SpcAckClearHigh \/ SpcHeaderEnd
  <2>1. spcPc' \in {"main", "act", "headerWait", "blockStart", "ackLow"}
    BY <1>6, SpcActed, SpcAcknowledged, SpcReceived
  <2> QED BY <1>3, <1>6, <2>1 DEF SpcAct, SpcAckClearHigh, SpcHeaderEnd, SpcPairs, memory
<1>7. CASE \/ SpcBootWriteLow \/ SpcBootWriteHigh \/ SpcBootWaitLow \/ SpcBootWaitHigh
           \/ SpcPass \/ SpcRunVolume \/ SpcSetVolume
           \/ SpcAckLow \/ SpcAckHigh \/ SpcAckWaitLow \/ SpcAckWaitHigh \/ SpcAckClearLow
           \/ SpcHeaderWait \/ SpcHeaderTake \/ SpcBlockStart \/ SpcBlockEcho
  BY <1>3, <1>7, PassLeaves
  DEF SpcBootWriteLow, SpcBootWriteHigh, SpcBootWaitLow, SpcBootWaitHigh,
      SpcLooping, SpcRunVolume, SpcSetVolume,
      SpcAckLow, SpcAckHigh, SpcAckWaitLow, SpcAckWaitHigh, SpcAckClearLow,
      SpcHeaderWait, SpcHeaderTake, SpcBlockStart, SpcBlockEcho, SpcPairs, memory
<1>8. CASE SpcBlockCheck \/ SpcBlockIndex
  <2>1. /\ counter' = counter /\ spcPc' \in {"ackLow", "blockIndex", "blockCheck", "blockLow"}
        /\ spcPc \in {"blockCheck", "blockIndex"} /\ UNCHANGED <<aram, samples, slot>>
    BY <1>8, SpcReceived DEF SpcBlockCheck, SpcBlockIndex, memory
  <2>2. Stored' = Stored
    BY <1>0, <2>1 DEF Stored, Replied
  <2> QED BY <1>1, <2>1, <2>2
<1>9. ASSUME SpcBlockLow \/ SpcBlockHigh \/ SpcBlockReply
      PROVE  /\ cpuPc = "pairPoll" /\ sequence = counter /\ Replied = Sent
             /\ toSpc.low = RomByte(source) /\ toSpc.high = RomByte(source + 1)
             /\ source \in Nat
  <2>1. cpuPc = "pairPoll" /\ sequence = counter
    BY <1>9, PairsMeet DEF SpcBlockLow, SpcBlockHigh, SpcBlockReply
  <2> QED BY <1>0, <2>1 DEF DataInv, BytesStand, Replied, TypeOK, CpuTypeOK
<1>10. ASSUME own \in PayloadCommand, NEW offset \in {0, 1}, Stored = Sent + offset,
              Store(offset, RomByte(source + offset)), spcPc \in {"blockLow", "blockHigh"},
              Stored' = Sent + offset + 1, cpuPc = "pairPoll"
       PROVE  PayloadHeld'
  <2>1. /\ Base' = Base
        /\ \A k \in 0 .. Sent + offset :
             LET a == (Base + k) % MemorySize
             IN  a \in DOMAIN aram' /\ aram'[a] = RomByte(PayloadSource(request) + k)
    BY <1>0, <1>10, StoresNext
  <2>2. (Sent + offset + 1) - 1 = Sent + offset
    <3>1. Sent \in Nat
      BY <1>10 DEF DataInv, CpuPosition, CpuPairs
    <3> QED BY <3>1, SMT
  <2> QED BY <1>0, <1>10, <2>1, <2>2 DEF PayloadHeld
<1>11. CASE SpcBlockLow
  <2>1. Stored = Sent /\ Stored' = Sent + 1 /\ spcPc = "blockLow"
    BY <1>0, <1>9, <1>11 DEF SpcBlockLow, Stored, Replied
  <2>2. CASE own \in PayloadCommand
    <3>1. Sent \in Nat
      BY <1>9, <1>11, <2>2 DEF DataInv, CpuPosition, CpuPairs
    <3>2. source + 0 = source /\ Sent + 0 = Sent /\ Sent + 0 + 1 = Sent + 1
      BY <1>9, <1>11, <3>1, SMT
    <3>3. Store(0, RomByte(source + 0))
      BY <1>9, <1>11, <3>2 DEF SpcBlockLow
    <3> QED BY <1>9, <1>10, <1>11, <2>1, <2>2, <3>2, <3>3
  <2> QED BY <1>2, <2>2
<1>12. CASE SpcBlockHigh
  <2>1. Stored = Sent + 1 /\ Stored' = Sent + 2 /\ spcPc = "blockHigh"
    BY <1>0, <1>9, <1>12 DEF SpcBlockHigh, Stored, Replied
  <2>2. CASE own \in PayloadCommand
    <3>1. Sent + 1 + 1 = Sent + 2
      <4>1. Sent \in Nat
        BY <1>9, <1>12, <2>2 DEF DataInv, CpuPosition, CpuPairs
      <4> QED BY <4>1, SMT
    <3>2. Store(1, RomByte(source + 1))
      BY <1>9, <1>12 DEF SpcBlockHigh
    <3> QED BY <1>9, <1>10, <1>12, <2>1, <2>2, <3>1, <3>2
  <2> QED BY <1>2, <2>2
<1>13. CASE SpcBlockReply
  <2>1. counter' = NextPair(counter) /\ spcPc = "blockReply" /\ spcPc' = "blockCheck"
        /\ UNCHANGED <<aram, samples, slot>>
    BY <1>13 DEF SpcBlockReply
  <2>2. counter' # counter
    <3>1. counter \in Byte /\ Even(counter)
      BY <2>1 DEF IInv, TypeOK, SpcTypeOK, Handshake, SpcSide
    <3> QED BY <2>1, <3>1, PairFacts
  <2>3. Stored = Sent + 2 /\ Stored' = Sent + 2
    BY <1>0, <1>9, <1>13, <2>1, <2>2 DEF Stored, Replied
  <2> QED BY <1>1, <2>1, <2>3
<1> QED
  BY <1>4, <1>5, <1>6, <1>7, <1>8, <1>11, <1>12, <1>13 DEF SpcStepNext

(* A reading of the sample end is one acknowledgement and one read. *)
LEMMA ReadTable ==
    ASSUME NEW k \in 1 .. 5
    PROVE  /\ ~PhaseIs(ReadSampleEnd, k, "header") /\ ~PhaseIs(ReadSampleEnd, k, "block")
           /\ ~StepIs(ReadSampleEnd, k, "header") /\ ~StepIs(ReadSampleEnd, k, "block")
           /\ PhaseIs(ReadSampleEnd, k, "ack") => k = 1
           /\ PhaseIs(ReadSampleEnd, 2, "read")
           /\ ReadSampleEnd \notin {Startup, MusicTrackVolume, SetSampleEnd}
<1>1. CpuPhases(ReadSampleEnd) = <<"ack", "read">> /\ SpcSteps(ReadSampleEnd) = <<"ack">>
  BY SMT DEF CpuPhases, SpcSteps, Upload, UploadAtCursor, DefineSample, UploadSample,
     ReadCommand, Deferred, MusicTrackVolume, ReadProgress, ReadStatus, ReadSampleEnd,
     ReadOutputOptions, ReadKeyedVoices, PlaySong, PlayEffect, FadeInSong, StopEffect
<1>2. ReadSampleEnd \notin {Startup, MusicTrackVolume, SetSampleEnd}
  BY SMT DEF ReadSampleEnd, Startup, MusicTrackVolume, SetSampleEnd
<1> QED BY <1>1, <1>2, SMT DEF PhaseIs, StepIs

(* The game's steps leave the sample end standing until it took it. *)
LEMMA CpuKeepsSampleEnd ==
    ASSUME IInv, IInv', DataInv, CpuBegin \/ CpuMark \/ CpuStep
    PROVE  SampleEndStands'
<1> USE DEF CpuGoes, KeepCpuData
<1> DEFINE own == request.command
           past == (CpuHandshake \ {"ackLow"}) \cup {"read"}
<1>0. /\ SampleEndStands /\ UNCHANGED <<toCpu, allocated, spcPc>>
      /\ CpuInPhase /\ cpuPhase \in 1 .. 5
  BY CpuLeavesDriver DEF DataInv, spcVars, memory, IInv, Handshake, TypeOK, CpuTypeOK
<1>1. ASSUME request' = request,
             own = ReadSampleEnd /\ cpuPc' \in past => cpuPc \in past \/ spcPc \in SpcHandshake,
             own = ReadSampleEnd /\ cpuPc' = "idle" => cpuPc = "idle" /\ reply' = reply
      PROVE  SampleEndStands'
  BY <1>0, <1>1 DEF SampleEndStands
<1>2. CASE CpuBegin
  <2>1. cpuPc = "idle" /\ cpuPc' \in {"low", "mode"}
    BY <1>2 DEF CpuBegin, FirstAccess
  <2>2. spcPc' \notin SpcHandshake
    BY <1>0, <2>1 DEF IInv, Handshake, Together, SpcHandshake, Freed
  <2> QED BY <2>1, <2>2 DEF SampleEndStands, CpuHandshake
<1>3. CASE CpuMark
  BY <1>1, <1>3 DEF CpuMark, CpuHandshake
<1>4. CASE CpuBootSeesLow \/ CpuBootSeesHigh \/ CpuBootRepliesLow \/ CpuBootRepliesHigh
  <2>1. request' = request /\ own = Startup
    BY <1>0, <1>4
    DEF CpuInPhase, CpuBooting, StartupRequest, CpuBootSeesLow, CpuBootSeesHigh,
        CpuBootRepliesLow, CpuBootRepliesHigh
  <2> QED BY <1>0, <1>1, <2>1, ReadTable
<1>5. CASE CpuWriteLow \/ CpuWriteHigh \/ CpuWriteMode
  BY <1>1, <1>5 DEF CpuWriteLow, CpuWriteHigh, CpuWriteMode, CpuHandshake
<1>6. CASE CpuWriteCheck
  <2>1. /\ request' = request
        /\ (cpuPc' = "idle" /\ own = MusicTrackVolume) \/ cpuPc' = "ackLow"
    BY <1>6, CpuPosts DEF CpuWriteCheck
  <2> QED BY <1>0, <1>1, <2>1, ReadTable DEF CpuHandshake
<1>7. CASE CpuSeeAckLow
  <2>1. cpuPc' = "ackHigh" /\ request' = request
    BY <1>7 DEF CpuSeeAckLow
  <2>2. spcPc' \in SpcHandshake
    BY <2>1 DEF IInv, TypeOK, SpcTypeOK, SpcPcs, SpcLooping, Handshake, Together, SpcHandshake, Freed,
       Same, Behind, Ahead, Done, AwaitsDispatch, CpuPosting, CpuBooting
  <2> QED BY <1>0, <1>1, <2>1, <2>2
<1>8. CASE CpuSeeAckHigh \/ CpuClearLow \/ CpuClearHigh \/ CpuSeeFreeLow
  BY <1>1, <1>8 DEF CpuSeeAckHigh, CpuClearLow, CpuClearHigh, CpuSeeFreeLow, CpuHandshake
<1>9. CASE CpuSeeFreeHigh
  <2>1. own = ReadSampleEnd => cpuPc' = "read"
    <3>1. SUFFICES ASSUME own = ReadSampleEnd
                   PROVE  cpuPc' = "read"
      OBVIOUS
    <3>2. PhaseIs(own, cpuPhase, "ack") /\ CpuEnters(cpuPhase + 1)
      BY <1>0, <1>9 DEF CpuSeeFreeHigh, CpuInPhase, CpuHandshake
    <3>3. cpuPhase + 1 = 2 /\ PhaseIs(own, 2, "read")
      BY <1>0, <3>1, <3>2, ReadTable, SMT
    <3> QED BY <3>2, <3>3, CpuEnter DEF PhaseEntry
  <2> QED BY <1>1, <1>9, <2>1 DEF CpuSeeFreeHigh, CpuHandshake
<1>10. CASE CpuRead
  <2>1. reply' = [low |-> toCpu.low, high |-> toCpu.high] /\ request' = request
        /\ cpuPc = "read"
    BY <1>10 DEF CpuRead
  <2>2. cpuPc' = "idle"
    <3>1. own \in LinkCommand /\ PhaseIs(own, cpuPhase, "read")
      BY <1>0, <1>10, RequestFacts DEF CpuRead, CpuInPhase, CpuPosting, IInv, TypeOK
    <3>2. cpuPhase + 1 > Len(CpuPhases(own)) /\ Len(CpuPhases(own)) \in Nat
      BY <1>0, <3>1, AfterReadOrAct, PhaseTable, SMT
    <3> QED BY <1>0, <3>1, <3>2, <1>10, CpuLeave, SMT DEF CpuRead
  <2>3. own = ReadSampleEnd => reply'.low + ByteSize * reply'.high = allocated
    BY <1>0, <2>1 DEF SampleEndStands
  <2> QED BY <1>0, <2>1, <2>2, <2>3 DEF SampleEndStands, CpuHandshake
<1>11. CASE \/ CpuHeaderData \/ CpuHeaderIndex \/ CpuHeaderPoll \/ CpuBlockStart
            \/ CpuBlockEcho \/ CpuPairLow \/ CpuPairHigh \/ CpuPairIndex \/ CpuPairPoll
  BY <1>1, <1>11 DEF CpuHeaderData, CpuHeaderIndex, CpuHeaderPoll, CpuBlockStart,
     CpuBlockEcho, CpuPairLow, CpuPairHigh, CpuPairIndex, CpuPairPoll, CpuHandshake
<1>12. CASE CpuHeaderEnd \/ CpuBlockEnd
  BY <1>1, <1>12, CpuSent DEF CpuHandshake
<1> QED
  BY <1>2, <1>3, <1>4, <1>5, <1>6, <1>7, <1>8, <1>9, <1>10, <1>11, <1>12 DEF CpuStep

(* The driver's steps leave it standing, and its dispatch puts it there. *)
LEMMA SpcKeepsSampleEnd ==
    ASSUME IInv, DataInv, SpcStepNext
    PROVE  SampleEndStands'
<1> USE DEF SpcGoes, KeepSpcData
<1> DEFINE own == request.command
<1>0. /\ SampleEndStands /\ UNCHANGED <<cpuPc, request, reply>>
      /\ Together /\ CpuInPhase /\ SpcInStep /\ toCpu \in Ports /\ spcStep \in 1 .. 5
      /\ allocated \in Address
  BY SpcLeavesGame DEF DataInv, cpuVars, IInv, Handshake, TypeOK, SpcTypeOK
<1>1. ASSUME own # ReadSampleEnd
      PROVE  SampleEndStands'
  BY <1>0, <1>1 DEF SampleEndStands
<1>2. ASSUME allocated' = allocated, toCpu'.low = toCpu.low, toCpu'.high = toCpu.high,
             spcPc' \in SpcHandshake => spcPc \in SpcHandshake
      PROVE  SampleEndStands'
  BY <1>0, <1>2 DEF SampleEndStands
<1>3. CASE SpcRun
  <2>1. /\ command = own /\ cpuPc = "ackLow" /\ SpcStores /\ SpcReports
    BY <1>3, SpcRuns DEF SpcRun, AwaitsDispatch
  <2>2. CASE own = ReadSampleEnd
    <3>1. allocated' = allocated
      BY <1>0, <2>1, <2>2, SMT DEF SpcStores, ReadSampleEnd, SetSampleEnd
    <3>2. /\ toCpu'.low = allocated % ByteSize /\ toCpu'.high = allocated \div ByteSize
      BY <2>1, <2>2, SMT DEF SpcReports, ReadSampleEnd, ReadProgress, ReadCommand
    <3>3. allocated = ByteSize * (allocated \div ByteSize) + (allocated % ByteSize)
          /\ allocated % ByteSize \in Nat /\ allocated \div ByteSize \in Nat
      <4> DEFINE m == ByteSize
      <4>1. allocated \in Nat /\ m \in Nat /\ m > 0
        BY <1>0, ByteFacts, SMT
      <4> HIDE DEF m
      <4>2. allocated = m * (allocated \div m) + (allocated % m)
            /\ allocated % m \in 0 .. m - 1 /\ allocated \div m \in Nat
        BY <4>1, Remainder
      <4> QED BY <4>1, <4>2, SMT DEF m
    <3>4. toCpu'.low + ByteSize * toCpu'.high = allocated'
      <4> DEFINE q == ByteSize * (allocated \div ByteSize)
                 r == allocated % ByteSize
      <4>1. q \in Nat /\ r \in Nat /\ allocated = q + r
        BY <3>3, ByteFacts, SMT
      <4>2. toCpu'.low + ByteSize * toCpu'.high = r + q
        BY <3>2
      <4> HIDE DEF q, r
      <4>3. r + q = q + r
        BY <4>1, SMT
      <4> QED BY <3>1, <4>1, <4>2, <4>3
    <3> QED BY <1>0, <2>1, <3>4 DEF SampleEndStands
  <2> QED BY <1>1, <2>2
<1>4. CASE SpcHeaderReply \/ SpcHeaderEnd \/ (SpcBlockCheck /\ toSpc.check = EndMark)
  <2>1. command = own /\ (StepIs(command, spcStep, "header") \/ StepIs(command, spcStep, "block"))
    BY <1>0, <1>4 DEF SpcHeaderReply, SpcHeaderEnd, SpcBlockCheck, Together, Same, Ahead,
       SpcInStep, SpcHeader, SpcBlock
  <2> QED BY <1>0, <1>1, <2>1, ReadTable
<1>5. CASE SpcBootWriteLow \/ SpcBootWriteHigh \/ SpcBootWaitHigh
  <2>1. own = Startup
    BY <1>0, <1>5 DEF SpcBootWriteLow, SpcBootWriteHigh, SpcBootWaitHigh, Together, CpuInPhase,
       CpuBooting, StartupRequest, Same, SpcInStep, SpcBooting
  <2> QED BY <1>0, <1>1, <2>1, ReadTable
<1>6. CASE SpcAckLow \/ SpcAckHigh \/ SpcAckClearLow \/ SpcAckClearHigh
  <2>1. spcPc \in SpcHandshake /\ allocated' = allocated
    BY <1>6 DEF SpcAckLow, SpcAckHigh, SpcAckClearLow, SpcAckClearHigh, SpcHandshake, memory
  <2>2. \E port \in {"command", "check"} : \E v : SpcWrites(port, v)
    BY <1>6 DEF SpcAckLow, SpcAckHigh, SpcAckClearLow, SpcAckClearHigh
  <2>3. toCpu'.low = toCpu.low /\ toCpu'.high = toCpu.high
    BY <1>0, <2>2, SMT DEF SpcWrites, Ports
  <2> QED BY <1>2, <2>1, <2>3
<1>7. CASE SpcBlockEcho \/ SpcBlockReply
  <2>1. spcPc' = "blockCheck" /\ allocated' = allocated
    BY <1>7 DEF SpcBlockEcho, SpcBlockReply, memory
  <2>2. \E v : SpcWrites("command", v)
    BY <1>7 DEF SpcBlockEcho, SpcBlockReply
  <2>3. toCpu'.low = toCpu.low /\ toCpu'.high = toCpu.high
    BY <1>0, <2>2, SMT DEF SpcWrites, Ports
  <2> QED BY <1>2, <2>1, <2>3 DEF SpcHandshake
<1>8. CASE SpcAct
  <2>1. spcPc' = "main"
    BY <1>8, SpcActed
  <2> QED BY <1>2, <1>8, <2>1 DEF SpcAct, SpcHandshake, memory
<1>9. CASE \/ SpcBootWaitLow \/ SpcPass \/ SpcRunVolume \/ SpcSetVolume
           \/ SpcAckWaitLow \/ SpcAckWaitHigh \/ SpcHeaderWait \/ SpcHeaderTake
           \/ SpcBlockStart \/ (SpcBlockCheck /\ toSpc.check # EndMark)
           \/ SpcBlockIndex \/ SpcBlockLow \/ SpcBlockHigh
  BY <1>2, <1>9, PassLeaves
  DEF SpcBootWaitLow, SpcLooping, SpcRunVolume, SpcSetVolume,
      SpcAckWaitLow, SpcAckWaitHigh, SpcHeaderWait, SpcHeaderTake, SpcBlockStart,
      SpcBlockCheck, SpcBlockIndex, SpcBlockLow, SpcBlockHigh, Store, SpcHandshake, memory
<1> QED
  BY <1>3, <1>4, <1>5, <1>6, <1>7, <1>8, <1>9 DEF SpcStepNext

(* The start-up sends nothing. *)
LEMMA InitData == Init => DataInv
<1> SUFFICES ASSUME Init
             PROVE  DataInv
  OBVIOUS
<1>1. /\ cpuPc = "bootLow" /\ spcPc = "bootLow" /\ command = Startup
      /\ request.command = Startup
  BY DEF Init, StartupRequest
<1>2. Startup \notin PayloadCommand \cup SampleCommand \cup {ReadSampleEnd}
  BY SMT DEF PayloadCommand, SampleCommand, Startup, Upload, UploadSample, DefineSample,
     ReadSampleEnd
<1>3. cpuPc \notin CpuHeader \cup CpuHandshake
  BY <1>1 DEF CpuHeader, CpuHandshake
<1> QED
  BY <1>1, <1>2, <1>3 DEF DataInv, CpuPosition, BytesStand, HeaderTaken, DefinedSample,
     CursorInPlace, PayloadHeld, SampleEndStands

(* Every step keeps the part of the invariant that is about the bytes. *)
LEMMA NextData == IInv /\ IInv' /\ DataInv /\ [Next]_vars => DataInv'
<1> SUFFICES ASSUME IInv, IInv', DataInv, [Next]_vars
             PROVE  DataInv'
  OBVIOUS
<1>1. CASE CpuBegin \/ CpuMark \/ CpuStep
  BY <1>1, CpuKeepsPosition, CpuKeepsBytes, CpuKeepsHeader, CpuKeepsSample, CpuKeepsCursor,
     CpuKeepsPayload, CpuKeepsSampleEnd DEF DataInv
<1>2. CASE SpcStepNext
  <2>1. UNCHANGED <<toSpc, cpuVars>>
    BY <1>2, SpcLeavesGame
  <2>2. CpuPosition'
    BY <2>1 DEF DataInv, CpuPosition, BlockOver, Sent, PayloadSource, PayloadLength, cpuVars
  <2>3. BytesStand'
    BY <2>1 DEF DataInv, BytesStand, cpuVars
  <2> QED
    BY <1>2, <2>2, <2>3, SpcKeepsHeader, SpcKeepsSample, SpcKeepsCursor, SpcKeepsPayload,
       SpcKeepsSampleEnd DEF DataInv
<1>3. CASE UNCHANGED vars
  BY <1>3 DEF DataInv, CpuPosition, BlockOver, Sent, PayloadSource, PayloadLength, BytesStand,
     HeaderTaken, DefinedSample, PastHeader, LastIndex, CursorInPlace, BeforeBlock, Base,
     Replied, PayloadHeld, Stored, SampleEndStands, vars, cpuVars, spcVars, memory, guard
<1> QED BY <1>1, <1>2, <1>3 DEF Next

(* The whole invariant, bytes and queued action included, holds in every   *)
(* reachable state.                                                        *)
THEOREM LinkInductive == Spec => []LinkInv
<1>1. Init => LinkInv
  <2>1. Init => LateIsOwn
    BY DEF Init, LateIsOwn, SpcHandshake
  <2> QED BY <2>1, InitIInv, InitData DEF LinkInv
<1>2. LinkInv /\ [Next]_vars => LinkInv'
  BY NextIInv, NextLateIsOwn, NextData DEF LinkInv
<1> QED BY <1>1, <1>2, PTL DEF Spec

(* The pairs cover the payload, odd byte included. *)
LEMMA PairsCover == \A n \in Nat : n <= 2 * Pairs(n) /\ Pairs(n) \in Nat
  BY SMT DEF Pairs

(* A call that returned did what it was made for, for every request and    *)
(* whatever the speeds of the two processors: an upload or a sample is in  *)
(* the driver's memory byte for byte, the directory entry, the instrument  *)
(* and the allocation are those of the header, and a reading of the sample *)
(* end returns it whole.                                                   *)
THEOREM DeliversWhole == Spec => []Delivered
<1>1. LinkInv => Delivered
  <2> SUFFICES ASSUME LinkInv, cpuPc = "idle"
               PROVE  Delivered
    BY DEF Delivered, DeliveredUpload, DeliveredSample, ReadsBackSampleEnd
  <2> DEFINE own == request.command
  <2>1. IInv /\ DataInv
    BY DEF LinkInv
  <2>2. ASSUME own \in PayloadCommand
        PROVE  /\ PayloadLength(request) \in Nat
               /\ \A k \in 0 .. 2 * Pairs(PayloadLength(request)) - 1 :
                    LET a == (Base + k) % MemorySize
                    IN  a \in DOMAIN aram /\ aram[a] = RomByte(PayloadSource(request) + k)
    <3>1. spcPc \notin {"blockHigh", "blockReply"}
      BY <2>1, PairsMeet DEF SpcPairs
    <3>2. Stored = Sent
      BY <3>1 DEF Stored, Replied
    <3>3. Sent = 2 * Pairs(PayloadLength(request))
      BY <2>1, <2>2 DEF DataInv, CpuPosition, BlockOver
    <3>4. PayloadLength(request) \in Nat
      BY <2>1, <2>2, PayloadFacts, ByteFacts DEF IInv, TypeOK
    <3> QED BY <2>1, <2>2, <3>2, <3>3, <3>4 DEF DataInv, PayloadHeld, BlockOver
  <2>3. DeliveredUpload
    <3>1. own = Upload => /\ own \in PayloadCommand /\ Base = Word(request.low, request.high)
                          /\ PayloadLength(request) = request.length
                          /\ PayloadSource(request) = request.source
      BY SMT DEF PayloadCommand, Base, PayloadLength, PayloadSource, Upload, UploadSample
    <3> QED BY <2>2, <3>1 DEF DeliveredUpload
  <2>4. DeliveredSample
    <3> SUFFICES ASSUME own \in SampleCommand
                 PROVE  LET at == request.source
                            entry == samples[LastIndex]
                            length == Word(RomByte(at), RomByte(at + 1))
                        IN  /\ LastIndex \in DOMAIN samples
                            /\ entry.loop = (entry.start + Word(RomByte(at + 2), RomByte(at + 3)))
                                                % MemorySize
                            /\ entry.instrument = [k \in 1 .. 4 |-> RomByte(at + 3 + k)]
                            /\ allocated = (entry.start + length) % MemorySize
                            /\ own = UploadSample =>
                                 \A k \in 0 .. length - 1 :
                                     LET a == (entry.start + k) % MemorySize
                                     IN  a \in DOMAIN aram
                                         /\ aram[a] = RomByte(at + HeaderBytes + k)
      BY DEF DeliveredSample, SampleCommand, LastIndex
    <3> DEFINE at == request.source
               entry == samples[LastIndex]
               Field(k) == Word(RomByte(at + k), RomByte(at + k + 1))
    <3>1. /\ LastIndex \in DOMAIN samples
          /\ entry.loop = (entry.start + Field(2)) % MemorySize
          /\ entry.instrument = [k \in 1 .. 4 |-> RomByte(at + 3 + k)]
          /\ allocated = (entry.start + Field(0)) % MemorySize
      BY <2>1 DEF DataInv, DefinedSample, PastHeader
    <3>2. at \in Nat
      BY <2>1, RequestFacts DEF IInv, TypeOK
    <3>3. at + 0 = at /\ at + 2 + 1 = at + 3 /\ at + 0 + 1 = at + 1
      BY <3>2, SMT
    <3>4. ASSUME own = UploadSample, NEW k \in 0 .. Word(RomByte(at), RomByte(at + 1)) - 1
          PROVE  LET a == (entry.start + k) % MemorySize
                 IN  a \in DOMAIN aram /\ aram[a] = RomByte(at + HeaderBytes + k)
      <4>1. /\ own \in PayloadCommand /\ Base = entry.start
            /\ PayloadLength(request) = Word(RomByte(at), RomByte(at + 1))
            /\ PayloadSource(request) = at + HeaderBytes
        BY <3>4, SMT DEF PayloadCommand, Base, PayloadLength, PayloadSource, Upload, UploadSample
      <4>2. k \in 0 .. 2 * Pairs(PayloadLength(request)) - 1
        <5> DEFINE n == PayloadLength(request)
        <5>1. n \in Nat /\ k \in 0 .. n - 1
          BY <2>2, <3>4, <4>1
        <5> HIDE DEF n
        <5>2. n <= 2 * Pairs(n) /\ Pairs(n) \in Nat
          BY <5>1, PairsCover
        <5>3. k \in 0 .. 2 * Pairs(n) - 1
          BY <5>1, <5>2, SMT
        <5> QED BY <5>3 DEF n
      <4> QED BY <2>2, <4>1, <4>2
    <3> QED BY <3>1, <3>3, <3>4
  <2>5. ReadsBackSampleEnd
    BY <2>1 DEF DataInv, SampleEndStands, ReadsBackSampleEnd
  <2> QED BY <2>3, <2>4, <2>5 DEF Delivered
<1> QED BY <1>1, LinkInductive, PTL
=============================================================================
