------------------------- MODULE SoundLinkInvariant -------------------------
(***************************************************************************)
(* The inductive invariant of SoundLink.  What stands on the ports is      *)
(* determined by the side that writes them (CpuSide, SpcSide); Together    *)
(* says how far apart the two sides can be.                                *)
(***************************************************************************)
EXTENDS SoundLink

PrevPair(b) == IF b = 0 THEN ByteSize - 2 ELSE b - 2
Even(b) == b % 2 = 0

(* The commands that are acknowledged. *)
LinkCommand == (GameCommand \cup {Startup}) \ {MusicTrackVolume}

CpuBooting == {"bootLow", "bootHigh", "bootReplyLow", "bootReplyHigh"}
CpuHeader == {"headerData", "headerIndex", "headerPoll", "headerEnd"}
CpuBlock == {"blockStart", "blockEcho", "pairLow", "pairHigh", "pairIndex",
             "pairPoll", "blockEnd"}

PhaseIs(c, k, name) == k <= Len(CpuPhases(c)) /\ CpuPhases(c)[k] = name
StepIs(c, k, name) == k <= Len(SpcSteps(c)) /\ SpcSteps(c)[k] = name

(* The phase the game is in is the one its code is at. *)
CpuInPhase ==
    LET In(name) == PhaseIs(request.command, cpuPhase, name)
    IN  /\ cpuPc \in CpuHandshake => In("ack")
        /\ cpuPc = "read" => In("read")
        /\ cpuPc \in CpuHeader => In("header")
        /\ cpuPc \in CpuBlock => In("block")
        /\ cpuPc \in CpuBooting => request = StartupRequest /\ cpuPhase = 1
        /\ cpuPc \in {"low", "high", "mode", "check"} => request.command # Startup
        /\ cpuPc \notin CpuPosting => request.command # MusicTrackVolume

(* The arguments of a call stand on the data ports from the moment they    *)
(* are written until the first acknowledgement is over.                    *)
LowStands == cpuPc \in {"high", "mode", "check"} \/ (cpuPc = "ackLow" /\ cpuPhase = 1)
HighStands == cpuPc \in {"mode", "check"} \/ (cpuPc = "ackLow" /\ cpuPhase = 1)
ArgumentsStand ==
    /\ cpuPc = "high" => request.command \in TwoArguments
    /\ LowStands /\ request.command \in OneArgument \cup TwoArguments =>
          toSpc.low = request.low
    /\ HighStands /\ request.command \in TwoArguments => toSpc.high = request.high

(* What the game's writes left on its command ports, by where it is. *)
Posted(c, k) == toSpc.command = c /\ toSpc.check = k
AfterHeader == cpuPhase > 1 /\ PhaseIs(request.command, cpuPhase - 1, "header")
NotNext == toSpc.command # WithoutBit7(sequence)
CpuSide ==
    LET own == request.command
    IN  /\ cpuPc \in {"bootLow", "bootHigh", "bootReplyLow"} => Posted(0, 3)
        /\ cpuPc = "bootReplyHigh" => Posted(StartupReplyLow, 3)
        /\ cpuPc \in {"idle", "low", "high", "mode"} =>
              toSpc.command \in {0, MusicTrackVolume}
        /\ cpuPc = "check" => toSpc.command = own
        /\ cpuPc \in CpuPosting => toSpc.check \in {0, MusicTrackVolume, EndMark}
        /\ cpuPc \in {"ackLow", "ackHigh", "clearLow"} =>
              /\ cpuPhase = 1 =>
                    IF own = Startup
                    THEN Posted(StartupReplyLow, StartupReplyHigh) ELSE Posted(own, own)
              /\ AfterHeader => Posted(EndMark, 0)
              /\ cpuPhase > 1 /\ ~AfterHeader => NotNext /\ toSpc.check = EndMark
        /\ cpuPc = "clearHigh" => toSpc.command = 0
        /\ cpuPc \in {"freeLow", "freeHigh", "read", "blockStart"} => Posted(0, 0)
        /\ cpuPc \in {"headerData", "headerIndex"} =>
              /\ remaining \in 1 .. HeaderBytes
              /\ Posted(IF remaining = HeaderBytes THEN 0 ELSE remaining + 1, 0)
        /\ cpuPc = "headerPoll" => remaining \in 1 .. HeaderBytes /\ Posted(remaining, 0)
        /\ cpuPc = "headerEnd" => Posted(1, 0)
        /\ cpuPc = "blockEcho" => Posted(EndMark, 0)
        /\ cpuPc \in {"pairLow", "pairHigh", "pairIndex", "blockEnd"} =>
              NotNext /\ toSpc.check = 0
        /\ cpuPc = "pairPoll" => Posted(WithoutBit7(sequence), 0)
        /\ Even(sequence)

SpcHandshake == {"ackLow", "ackHigh", "ackWaitLow", "ackWaitHigh", "ackClearLow",
                 "ackClearHigh"}
SpcHeader == {"headerWait", "headerTake", "headerReply", "headerEnd"}
SpcBlock == {"blockStart", "blockEcho", "blockCheck", "blockIndex", "blockLow",
             "blockHigh", "blockReply"}
SpcBooting == {"bootLow", "bootHigh", "bootWaitLow", "bootWaitHigh"}

SpcInStep ==
    LET In(name) == StepIs(command, spcStep, name)
    IN  /\ spcPc \in SpcHandshake => In("ack")
        /\ spcPc = "act" => In("act")
        /\ spcPc \in SpcHeader => In("header")
        /\ spcPc \in SpcBlock => In("block")
        /\ spcPc \in SpcHandshake \cup SpcHeader \cup SpcBlock \cup {"act"} =>
              command \in LinkCommand
        /\ spcPc \in SpcBooting => command = Startup /\ spcStep = 1
        /\ spcPc \in SpcLooping => spcStep = 1
        /\ spcPc = "runVolume" => command = MusicTrackVolume

(* What the driver's writes left on its command ports, by where it is. *)
Shown(c, k) == toCpu.command = c /\ toCpu.check = k
SpcSide ==
    /\ spcPc \in SpcBooting => Shown(0, 0)
    /\ spcPc \in {"bootLow", "bootHigh"} => toCpu.high = 187
    /\ spcPc \in SpcLooping \cup {"act", "blockStart", "blockEcho"} => Shown(0, 0)
    /\ spcPc = "ackLow" => toCpu.command # AckLow /\ toCpu.check = 0
    /\ spcPc = "ackHigh" => Shown(AckLow, 0)
    /\ spcPc \in {"ackWaitLow", "ackWaitHigh", "ackClearLow"} => Shown(AckLow, AckHigh)
    /\ spcPc = "ackClearHigh" => Shown(0, AckHigh)
    /\ spcPc \in {"headerWait", "headerTake", "headerReply"} =>
          /\ counter \in 1 .. HeaderBytes
          /\ Shown(IF counter = HeaderBytes THEN 0 ELSE WithBit7(counter + 1), 0)
    /\ spcPc = "headerEnd" => Shown(WithBit7(1), 0)
    /\ spcPc \in {"blockCheck", "blockIndex", "blockLow", "blockHigh", "blockReply"} =>
          /\ Even(counter)
          /\ toCpu.check = 0
          /\ toCpu.command \in {EndMark, WithBit7(PrevPair(counter))}

(* How far apart the two sides can be, by where the driver is. *)
Same == command = request.command /\ spcStep = cpuPhase
Freed == cpuPc \in {"freeLow", "freeHigh"} \/ (cpuPc = "clearHigh" /\ toSpc.check = 0)
Behind == command = request.command /\ spcStep = cpuPhase + 1 /\ Freed
Ahead == command = request.command /\ cpuPhase = spcStep + 1 /\ cpuPc = "ackLow"

(* The game has nothing left to do with the driver but its next call. *)
LastAck(c) == CASE c = UploadSample -> 5
                [] c \in {Upload, UploadAtCursor, DefineSample} -> 3
                [] OTHER -> 1
AwaitsDispatch == cpuPc = "ackLow" /\ cpuPhase = 1 /\ request.command # Startup
Done ==
    \/ cpuPc \in CpuPosting \cup {"read"}
    \/ AwaitsDispatch
    \/ Freed /\ cpuPhase = LastAck(request.command)

Together ==
    /\ spcPc \in {"bootLow", "bootHigh"} => cpuPc \in {"bootLow", "bootHigh"}
    /\ spcPc = "bootWaitLow" =>
          cpuPc \in CpuBooting \/ (cpuPc = "ackLow" /\ Same)
    /\ spcPc = "bootWaitHigh" =>
          cpuPc = "bootReplyHigh" \/ (cpuPc = "ackLow" /\ Same)
    /\ spcPc \in {"main", "act", "runVolume"} => Done
    /\ spcPc = "check" =>
          /\ Done
          /\ command # MusicTrackVolume =>
                command = request.command /\ (cpuPc = "check" \/ AwaitsDispatch)
    /\ spcPc \in {"arguments", "readLow", "readHigh", "run"} =>
          /\ Done
          /\ command # MusicTrackVolume => command = request.command /\ AwaitsDispatch
    /\ spcPc = "ackLow" => Same /\ cpuPc = "ackLow"
    /\ spcPc = "ackHigh" => Same /\ cpuPc \in {"ackLow", "ackHigh"}
    /\ spcPc = "ackWaitLow" =>
          Same /\ cpuPc \in {"ackLow", "ackHigh", "clearLow", "clearHigh", "freeLow"}
    /\ spcPc = "ackWaitHigh" =>
          /\ Same
          /\ \/ cpuPc \in {"clearHigh", "freeLow"}
             \/ cpuPc \in {"ackLow", "ackHigh", "clearLow"} /\ toSpc.check = EndMark
    /\ spcPc = "ackClearLow" => Same /\ Freed /\ cpuPc # "freeHigh"
    /\ spcPc = "ackClearHigh" => Same /\ Freed
    /\ spcPc = "headerWait" =>
          \/ Behind /\ counter = HeaderBytes
          \/ Same /\ cpuPc \in {"headerData", "headerIndex", "headerPoll"}
                  /\ remaining = counter
          \/ Same /\ cpuPc = "headerPoll" /\ remaining = counter + 1
    /\ spcPc \in {"headerTake", "headerReply"} =>
          Same /\ cpuPc = "headerPoll" /\ remaining = counter
    /\ spcPc = "headerEnd" =>
          \/ Same /\ (cpuPc = "headerEnd" \/ (cpuPc = "headerPoll" /\ remaining = 1))
          \/ Ahead
    /\ spcPc = "blockStart" => Behind \/ (Same /\ cpuPc \in {"blockStart", "blockEcho"})
    /\ spcPc = "blockEcho" => Same /\ cpuPc = "blockEcho"
    /\ spcPc \in {"blockCheck", "blockIndex"} =>
          \/ Same /\ cpuPc = "blockEcho" /\ counter = 0
          \/ Same /\ cpuPc \in {"pairLow", "pairHigh", "pairIndex", "pairPoll", "blockEnd"}
                  /\ sequence = counter
          \/ Same /\ cpuPc = "pairPoll" /\ NextPair(sequence) = counter
          \/ Ahead /\ sequence = counter
    /\ spcPc \in {"blockLow", "blockHigh", "blockReply"} =>
          Same /\ cpuPc = "pairPoll" /\ sequence = counter

Handshake ==
    CpuInPhase /\ ArgumentsStand /\ CpuSide /\ SpcInStep /\ SpcSide /\ Together

IInv == TypeOK /\ Handshake

-----------------------------------------------------------------------------
(* The action queued behind the acknowledgement is the call's own: it is   *)
(* while the handshake lasts, and the action is of that call until the     *)
(* game makes its next one.                                                *)
LateIsOwn ==
    /\ spcPc \in SpcHandshake /\ command \in Deferred => Used(late) = Called(request)
    /\ spcPc = "act" /\ (Freed \/ cpuPc = "read") =>
          command = request.command /\ Used(late) = Called(request)
-----------------------------------------------------------------------------
(* The bytes of a transfer: where the game is in what it sends, and what   *)
(* the driver did with what it took.                                       *)

PayloadCommand == {Upload, UploadSample}
SampleCommand == {UploadSample, DefineSample}
CpuPairs == {"pairLow", "pairHigh", "pairIndex", "pairPoll"}
SpcPairs == {"blockCheck", "blockIndex", "blockLow", "blockHigh", "blockReply"}

(* The game sent its last pair: until it makes its next call. *)
BlockOver ==
    \/ cpuPc \in {"blockEnd", "idle"}
    \/ cpuPc \in CpuHandshake /\ cpuPhase = LastAck(request.command)

(* The payload bytes that the game is past, that the driver replied to,    *)
(* and that it stored.                                                     *)
Sent == source - PayloadSource(request)
Replied == IF cpuPc = "pairPoll" /\ counter # sequence THEN Sent + 2 ELSE Sent
Stored == CASE spcPc = "blockHigh" -> Replied + 1
            [] spcPc = "blockReply" -> Replied + 2
            [] OTHER -> Replied

(* X and Y count together through a header and through a payload. *)
CpuPosition ==
    /\ cpuPc \in CpuHeader =>
          /\ remaining <= HeaderBytes /\ source = request.source + (HeaderBytes - remaining)
          /\ cpuPc = "headerEnd" => remaining = 0
    /\ request.command \in PayloadCommand =>
          /\ cpuPc \in CpuHandshake /\ cpuPhase = 3 /\ request.command = UploadSample =>
                source = PayloadSource(request)
          /\ cpuPc \in {"blockStart", "blockEcho"} =>
                source = PayloadSource(request) /\ remaining = PayloadLength(request)
          /\ cpuPc \in CpuPairs =>
                /\ Sent \in Nat /\ Even(Sent) /\ Sent + remaining = PayloadLength(request)
                /\ Sent > 0 => remaining > 0
          /\ BlockOver => Sent = 2 * Pairs(PayloadLength(request))

(* A byte stays on its data port until the driver replied to it. *)
BytesStand ==
    /\ cpuPc \in {"headerIndex", "headerPoll", "pairHigh", "pairIndex", "pairPoll"} =>
          toSpc.low = RomByte(source)
    /\ cpuPc \in {"pairIndex", "pairPoll"} => toSpc.high = RomByte(source + 1)

(* The header bytes taken so far are those of the header being sent. *)
HeaderTaken ==
    spcPc \in {"headerWait", "headerTake", "headerReply"} =>
        \A k \in 1 .. HeaderBytes :
            k < HeaderBytes + 1 - counter \/ (k = HeaderBytes + 1 - counter /\ spcPc = "headerReply")
                => header[k] = RomByte(request.source + (k - 1))

(* The entry before the current slot is the one the header defined. *)
LastIndex == ((slot + ByteSize - 4) % ByteSize) \div 4
PastHeader ==
    \/ spcPc = "headerEnd" \/ cpuPc \in {"idle"} \cup CpuBlock
    \/ cpuPc \in CpuHandshake /\ cpuPhase > 1
DefinedSample ==
    request.command \in SampleCommand /\ PastHeader =>
        LET at == request.source
            entry == samples[LastIndex]
            Field(k) == Word(RomByte(at + k), RomByte(at + k + 1))
        IN  /\ LastIndex \in DOMAIN samples
            /\ entry.start \in Address
            /\ entry.loop = (entry.start + Field(2)) % MemorySize
            /\ entry.instrument = [k \in 1 .. 4 |-> RomByte(at + 3 + k)]
            /\ allocated = (entry.start + Field(0)) % MemorySize

(* The transfer cursor and the counter are at the next byte to store. *)
Base == IF request.command = Upload THEN Word(request.low, request.high)
        ELSE samples[LastIndex].start
BeforeBlock ==
    \/ spcPc \in {"headerEnd", "blockStart", "blockEcho"}
    \/ spcPc \in SpcHandshake /\ StepIs(command, spcStep + 1, "block")
CursorInPlace ==
    command \in PayloadCommand =>
        /\ BeforeBlock => transfer = Base
        /\ spcPc \in SpcPairs =>
              (transfer + counter) % MemorySize = (Base + Replied) % MemorySize

(* Every byte the driver stored is the payload's, at its own address. *)
PayloadHeld ==
    request.command \in PayloadCommand /\ (cpuPc \in CpuPairs \/ BlockOver) =>
        \A k \in 0 .. Stored - 1 :
            LET a == (Base + k) % MemorySize
            IN  a \in DOMAIN aram /\ aram[a] = RomByte(PayloadSource(request) + k)

(* The sample end stands on the ports from the dispatch until it is read.  *)
SampleEndStands ==
    request.command = ReadSampleEnd =>
        /\ spcPc \in SpcHandshake \/ cpuPc \in (CpuHandshake \ {"ackLow"}) \cup {"read"} =>
              toCpu.low + ByteSize * toCpu.high = allocated
        /\ cpuPc = "idle" => reply.low + ByteSize * reply.high = allocated

DataInv ==
    /\ CpuPosition /\ BytesStand /\ HeaderTaken /\ DefinedSample
    /\ CursorInPlace /\ PayloadHeld /\ SampleEndStands

(* The whole inductive invariant. *)
LinkInv == IInv /\ LateIsOwn /\ DataInv
=============================================================================
