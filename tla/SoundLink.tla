----------------------------- MODULE SoundLink -----------------------------
(***************************************************************************)
(* The link between the game's 65816 and the SPC-700 sound driver.  The    *)
(* processors share nothing but four byte ports in each direction and run  *)
(* at their own speed, so one step of the model is one access to a port.   *)
(* The game side is the request routines of src/system/sound_*.c and       *)
(* music.c down to Lufia2WaitSoundDriverReply; the driver side is the main *)
(* loop, RunCommand and the queued steps of src/spc/spc_driver.c.          *)
(***************************************************************************)
EXTENDS SoundProtocol

CONSTANTS
    Rom,         \* the bytes the game sends headers and blocks from
    Request,     \* the requests the game makes
    Slack        \* bytes a driver status register can hold

(* [command, low, high: the arguments, source: index in Rom, length: what  *)
(* a 16-bit register holds]                                                *)
ASSUME RequestAssumption ==
    Request \subseteq [command : GameCommand, low : Byte, high : Byte,
                       source : Nat, length : Address]

ASSUME RomAssumption ==
    /\ Rom \in [DOMAIN Rom -> Byte]
    /\ DOMAIN Rom \subseteq Nat
    /\ Slack \subseteq Byte /\ Slack # {}

(* Every address reads as some byte; outside the given ones, as 0. *)
RomByte(k) == IF k \in DOMAIN Rom THEN Rom[k] ELSE 0

VARIABLES
    toSpc,         \* $2140-$2143 as the game wrote them
    toCpu,         \* $F4-$F7 as the driver wrote them
    cpuPc,         \* the port access the game makes next
    cpuPhase,      \* position in CpuPhases(request.command)
    request,       \* the call the game is in, or the last one
    remaining,     \* X: header bytes or payload bytes left
    sequence,      \* DP $62: the block's handshake counter
    source,        \* Y: index of the next byte in Rom
    reply,         \* what the last read command returned
    spcPc,         \* the port access the driver makes next
    spcStep,       \* position in SpcSteps(command)
    command,       \* the command the main loop took from the port
    arguments,     \* the data bytes this pass of the main loop read
    repeat,        \* repeat_command and repeat_arguments
    counter,       \* driver->counter
    late,          \* the action queued behind an acknowledgement
    performed,     \* the last request the driver acted on
    volume,        \* the last music track volume it applied
    aram,          \* the bytes transfers stored, by address
    samples,       \* the sample directory and instrument records, by slot
    header,        \* the header bytes received last
    allocated,     \* sample_alloc: where the next sample goes
    slot,          \* instrument_offset: 4 * the next slot
    transfer,      \* the cursor of $01 and $14
    stream         \* upload_cursor, the cursor of $17

cpuVars == <<cpuPc, cpuPhase, request, remaining, sequence, source, reply>>
memory == <<aram, samples, header, allocated, slot, transfer, stream>>
guard == <<arguments, repeat>>
spcVars == <<spcPc, spcStep, command, guard, counter, late, performed, volume, memory>>
vars == <<toSpc, toCpu, cpuVars, spcVars>>

Ports == [low : PortValue, high : PortValue, command : PortValue, check : PortValue]

(* A request as the driver knows it: the command and its two data bytes. *)
Effect(c, low, high) == [command |-> c, low |-> low, high |-> high]
NoArguments == [low |-> 0, high |-> 0]
NoRepeat == Effect(0, 0, 0)   \* without a command, what arguments are kept is never read
StartupRequest == [command |-> Startup, low |-> 0, high |-> 0, source |-> 0, length |-> 0]

Init ==
    /\ toSpc = [low |-> 0, high |-> 0, command |-> 0, check |-> 3]
    /\ \E leftover \in {0, SignatureLow} :
         toCpu = [low |-> leftover, high |-> 187, command |-> 0, check |-> 0]
    /\ cpuPc = "bootLow" /\ cpuPhase = 1 /\ request = StartupRequest
    /\ remaining = 0 /\ sequence = 0 /\ source = 0
    /\ reply = [low |-> 0, high |-> 0]
    /\ spcPc = "bootLow" /\ spcStep = 1 /\ command = Startup /\ counter = 0
    /\ arguments = NoArguments /\ repeat = NoRepeat
    /\ late = Effect(Startup, 0, 0) /\ performed = Effect(Startup, 0, 0)
    /\ volume = Effect(MusicTrackVolume, 0, 0)
    /\ aram = << >> /\ samples = << >>
    /\ header = [k \in 1 .. HeaderBytes |-> 0]
    /\ allocated = 0 /\ slot = 0 /\ transfer = 0 /\ stream = 0

-----------------------------------------------------------------------------
(* The game side. *)

CpuWrites(port, value) == toSpc' = [toSpc EXCEPT ![port] = value]
CpuGoes(pc) == cpuPc' = pc
KeepCpuData == UNCHANGED <<remaining, sequence, source, reply>>
CpuOnly == UNCHANGED <<toCpu, spcVars>>

(* Payload length: from the call, or from the header just sent. *)
PayloadLength(r) ==
    IF r.command = UploadSample
    THEN Word(RomByte(r.source), RomByte(r.source + 1))
    ELSE r.length

FirstAccess(c) == IF c \in OneArgument \cup TwoArguments THEN "low" ELSE "mode"

PhaseEntry(phase) ==
    CASE phase = "ack" -> "ackLow"
      [] phase = "read" -> "read"
      [] phase = "header" -> "headerData"
      [] phase = "block" -> "blockStart"

(* Continue with phase k of the call, or return from it. *)
CpuEnters(k) ==
    IF k <= Len(CpuPhases(request.command))
    THEN cpuPhase' = k /\ CpuGoes(PhaseEntry(CpuPhases(request.command)[k]))
    ELSE cpuPhase' = cpuPhase /\ CpuGoes("idle")

CpuBootSeesLow ==
    /\ cpuPc = "bootLow" /\ toCpu.low = SignatureLow
    /\ CpuGoes("bootHigh")
    /\ UNCHANGED <<toSpc, cpuPhase, request>> /\ KeepCpuData /\ CpuOnly

CpuBootSeesHigh ==
    /\ cpuPc = "bootHigh" /\ toCpu.high = SignatureHigh
    /\ CpuGoes("bootReplyLow")
    /\ UNCHANGED <<toSpc, cpuPhase, request>> /\ KeepCpuData /\ CpuOnly

CpuBootRepliesLow ==
    /\ cpuPc = "bootReplyLow" /\ CpuWrites("command", StartupReplyLow)
    /\ CpuGoes("bootReplyHigh")
    /\ UNCHANGED <<cpuPhase, request>> /\ KeepCpuData /\ CpuOnly

CpuBootRepliesHigh ==
    /\ cpuPc = "bootReplyHigh" /\ CpuWrites("check", StartupReplyHigh)
    /\ CpuEnters(1)
    /\ UNCHANGED request /\ KeepCpuData /\ CpuOnly

CpuBegin ==
    /\ cpuPc = "idle"
    /\ \E r \in Request : request' = r /\ CpuGoes(FirstAccess(r.command))
    /\ UNCHANGED <<toSpc, cpuPhase>> /\ KeepCpuData /\ CpuOnly

(* Lufia2WriteSoundTransferMarker, before the queue routines. *)
CpuMark ==
    /\ cpuPc = "idle" /\ CpuWrites("check", EndMark)
    /\ UNCHANGED <<cpuPc, cpuPhase, request>> /\ KeepCpuData /\ CpuOnly

CpuWriteLow ==
    /\ cpuPc = "low" /\ CpuWrites("low", request.low)
    /\ CpuGoes(IF request.command \in TwoArguments THEN "high" ELSE "mode")
    /\ UNCHANGED <<cpuPhase, request>> /\ KeepCpuData /\ CpuOnly

CpuWriteHigh ==
    /\ cpuPc = "high" /\ CpuWrites("high", request.high)
    /\ CpuGoes("mode")
    /\ UNCHANGED <<cpuPhase, request>> /\ KeepCpuData /\ CpuOnly

(* Lufia2WriteSoundDriverMode: $2142, then $2143. *)
CpuWriteMode ==
    /\ cpuPc = "mode" /\ CpuWrites("command", request.command)
    /\ CpuGoes("check")
    /\ UNCHANGED <<cpuPhase, request>> /\ KeepCpuData /\ CpuOnly

CpuWriteCheck ==
    /\ cpuPc = "check" /\ CpuWrites("check", request.command)
    /\ CpuEnters(1)
    /\ UNCHANGED request /\ KeepCpuData /\ CpuOnly

(* Mutant: any reply is taken for the acknowledgement. *)
MutantSeeAckLow ==
    /\ cpuPc = "ackLow" /\ toCpu.command # 0
    /\ CpuGoes("ackHigh")
    /\ UNCHANGED <<toSpc, cpuPhase, request>> /\ KeepCpuData /\ CpuOnly

(* Lufia2WaitSoundDriverReply. *)
CpuSeeAckLow ==
    /\ cpuPc = "ackLow" /\ toCpu.command = AckLow
    /\ CpuGoes("ackHigh")
    /\ UNCHANGED <<toSpc, cpuPhase, request>> /\ KeepCpuData /\ CpuOnly

CpuSeeAckHigh ==
    /\ cpuPc = "ackHigh" /\ toCpu.check = AckHigh
    /\ CpuGoes("clearLow")
    /\ UNCHANGED <<toSpc, cpuPhase, request>> /\ KeepCpuData /\ CpuOnly

CpuClearLow ==
    /\ cpuPc = "clearLow" /\ CpuWrites("command", 0)
    /\ CpuGoes("clearHigh")
    /\ UNCHANGED <<cpuPhase, request>> /\ KeepCpuData /\ CpuOnly

CpuClearHigh ==
    /\ cpuPc = "clearHigh" /\ CpuWrites("check", 0)
    /\ CpuGoes("freeLow")
    /\ UNCHANGED <<cpuPhase, request>> /\ KeepCpuData /\ CpuOnly

CpuSeeFreeLow ==
    /\ cpuPc = "freeLow" /\ toCpu.command = 0
    /\ CpuGoes("freeHigh")
    /\ UNCHANGED <<toSpc, cpuPhase, request>> /\ KeepCpuData /\ CpuOnly

(* The handshake is over: X and Y are set up for the next phase. *)
CpuSeeFreeHigh ==
    /\ cpuPc = "freeHigh" /\ toCpu.check = 0
    /\ CpuEnters(cpuPhase + 1)
    /\ CASE cpuPc' = "headerData" ->
              remaining' = HeaderBytes /\ source' = request.source
         [] cpuPc' = "blockStart" ->
              /\ remaining' = PayloadLength(request)
              /\ source' = IF request.command = UploadSample THEN source ELSE request.source
         [] OTHER -> UNCHANGED <<remaining, source>>
    /\ UNCHANGED <<toSpc, request, sequence, reply>> /\ CpuOnly

CpuRead ==
    /\ cpuPc = "read" /\ reply' = [low |-> toCpu.low, high |-> toCpu.high]
    /\ CpuEnters(cpuPhase + 1)
    /\ UNCHANGED <<toSpc, request, remaining, sequence, source>> /\ CpuOnly

(* Lufia2SendSoundResourceHeader: 8 bytes, counted down on $2142. *)
CpuHeaderData ==
    /\ cpuPc = "headerData" /\ CpuWrites("low", RomByte(source))
    /\ CpuGoes("headerIndex")
    /\ UNCHANGED <<cpuPhase, request>> /\ KeepCpuData /\ CpuOnly

CpuHeaderIndex ==
    /\ cpuPc = "headerIndex" /\ CpuWrites("command", remaining)
    /\ CpuGoes("headerPoll")
    /\ UNCHANGED <<cpuPhase, request>> /\ KeepCpuData /\ CpuOnly

CpuHeaderPoll ==
    /\ cpuPc = "headerPoll" /\ toCpu.command = WithBit7(remaining)
    /\ remaining' = remaining - 1 /\ source' = source + 1
    /\ CpuGoes(IF remaining = 1 THEN "headerEnd" ELSE "headerData")
    /\ UNCHANGED <<toSpc, cpuPhase, request, sequence, reply>> /\ CpuOnly

CpuHeaderEnd ==
    /\ cpuPc = "headerEnd" /\ CpuWrites("command", EndMark)
    /\ CpuEnters(cpuPhase + 1)
    /\ UNCHANGED request /\ KeepCpuData /\ CpuOnly

(* Lufia2SendSoundPayload and the same loop in Lufia2SendQueuedSoundChunk. *)
CpuBlockStart ==
    /\ cpuPc = "blockStart" /\ CpuWrites("command", EndMark)
    /\ CpuGoes("blockEcho")
    /\ UNCHANGED <<cpuPhase, request>> /\ KeepCpuData /\ CpuOnly

CpuBlockEcho ==
    /\ cpuPc = "blockEcho"
    /\ IF request.command = UploadAtCursor
       THEN toCpu.command # 0 ELSE toCpu.command = EndMark
    /\ sequence' = 0 /\ CpuGoes("pairLow")
    /\ UNCHANGED <<toSpc, cpuPhase, request, remaining, source, reply>> /\ CpuOnly

CpuPairLow ==
    /\ cpuPc = "pairLow" /\ CpuWrites("low", RomByte(source))
    /\ CpuGoes("pairHigh")
    /\ UNCHANGED <<cpuPhase, request>> /\ KeepCpuData /\ CpuOnly

CpuPairHigh ==
    /\ cpuPc = "pairHigh" /\ CpuWrites("high", RomByte(source + 1))
    /\ CpuGoes("pairIndex")
    /\ UNCHANGED <<cpuPhase, request>> /\ KeepCpuData /\ CpuOnly

CpuPairIndex ==
    /\ cpuPc = "pairIndex" /\ CpuWrites("command", WithoutBit7(sequence))
    /\ CpuGoes("pairPoll")
    /\ UNCHANGED <<cpuPhase, request>> /\ KeepCpuData /\ CpuOnly

(* A pair is sent for every two bytes and for an odd last one; a payload   *)
(* of length 0 still sends one.                                            *)
CpuPairPoll ==
    /\ cpuPc = "pairPoll" /\ toCpu.command = WithBit7(sequence)
    /\ sequence' = NextPair(sequence) /\ source' = source + 2
    /\ remaining' = IF remaining >= 3 THEN remaining - 2 ELSE 0
    /\ CpuGoes(IF remaining >= 3 THEN "pairLow" ELSE "blockEnd")
    /\ UNCHANGED <<toSpc, cpuPhase, request, reply>> /\ CpuOnly

CpuBlockEnd ==
    /\ cpuPc = "blockEnd" /\ CpuWrites("check", EndMark)
    /\ CpuEnters(cpuPhase + 1)
    /\ UNCHANGED request /\ KeepCpuData /\ CpuOnly

(* What the game does on its own once it is in a call. *)
CpuStep ==
    \/ CpuBootSeesLow \/ CpuBootSeesHigh \/ CpuBootRepliesLow \/ CpuBootRepliesHigh
    \/ CpuWriteLow \/ CpuWriteHigh \/ CpuWriteMode \/ CpuWriteCheck
    \/ CpuSeeAckLow \/ CpuSeeAckHigh \/ CpuClearLow \/ CpuClearHigh
    \/ CpuSeeFreeLow \/ CpuSeeFreeHigh \/ CpuRead
    \/ CpuHeaderData \/ CpuHeaderIndex \/ CpuHeaderPoll \/ CpuHeaderEnd
    \/ CpuBlockStart \/ CpuBlockEcho \/ CpuPairLow \/ CpuPairHigh
    \/ CpuPairIndex \/ CpuPairPoll \/ CpuBlockEnd

-----------------------------------------------------------------------------
(* The driver side. *)

SpcWrites(port, value) == toCpu' = [toCpu EXCEPT ![port] = value]
SpcGoes(pc) == spcPc' = pc
SpcOnly == UNCHANGED <<toSpc, cpuVars>>
KeepSpcData == UNCHANGED <<command, guard, late, performed, volume, memory>>

StepEntry(step) ==
    CASE step = "ack" -> "ackLow"
      [] step = "act" -> "act"
      [] step = "header" -> "headerWait"
      [] step = "block" -> "blockStart"

(* Continue with step k of the command, or return to the main loop. *)
SpcEnters(k) ==
    IF k <= Len(SpcSteps(command))
    THEN /\ spcStep' = k /\ SpcGoes(StepEntry(SpcSteps(command)[k]))
         /\ counter' = IF SpcSteps(command)[k] = "header" THEN HeaderBytes ELSE counter
    ELSE /\ spcStep' = 1 /\ SpcGoes("main") /\ counter' = counter

(* STEP_FINISH_STARTUP, after the DSP reset. *)
SpcBootWriteLow ==
    /\ spcPc = "bootLow" /\ SpcWrites("low", SignatureLow) /\ SpcGoes("bootHigh")
    /\ UNCHANGED <<spcStep, counter>> /\ KeepSpcData /\ SpcOnly

SpcBootWriteHigh ==
    /\ spcPc = "bootHigh" /\ SpcWrites("high", SignatureHigh) /\ SpcGoes("bootWaitLow")
    /\ UNCHANGED <<spcStep, counter>> /\ KeepSpcData /\ SpcOnly

SpcBootWaitLow ==
    /\ spcPc = "bootWaitLow" /\ toSpc.command = StartupReplyLow /\ SpcGoes("bootWaitHigh")
    /\ UNCHANGED <<toCpu, spcStep, counter>> /\ KeepSpcData /\ SpcOnly

SpcBootWaitHigh ==
    /\ spcPc = "bootWaitHigh" /\ toSpc.check = StartupReplyHigh /\ SpcGoes("ackLow")
    /\ UNCHANGED <<toCpu, spcStep, counter>> /\ KeepSpcData /\ SpcOnly

(* RunMainLoop: a command is posted when both ports hold it. *)
KeepSpcResult == UNCHANGED <<toCpu, spcStep, counter, late, performed, volume, memory>>

SpcSeesNothing ==
    /\ spcPc = "main" /\ toSpc.command = 0 /\ repeat' = NoRepeat
    /\ UNCHANGED <<spcPc, command, arguments>> /\ KeepSpcResult /\ SpcOnly

SpcPoll ==
    /\ spcPc = "main" /\ toSpc.command # 0
    /\ command' = toSpc.command /\ SpcGoes("check")
    /\ UNCHANGED guard /\ KeepSpcResult /\ SpcOnly

(* Mutant: the second port is not compared. *)
MutantCheck ==
    /\ spcPc = "check" /\ SpcGoes("arguments")
    /\ UNCHANGED <<command, guard>> /\ KeepSpcResult /\ SpcOnly

SpcCheck ==
    /\ spcPc = "check"
    /\ IF toSpc.check = command
       THEN SpcGoes("arguments") /\ UNCHANGED repeat
       ELSE SpcGoes("main") /\ repeat' = NoRepeat
    /\ UNCHANGED <<command, arguments>> /\ KeepSpcResult /\ SpcOnly

(* PortWord: the two data ports, in the order the compiler takes. *)
SpcReadsFirst ==
    /\ spcPc = "arguments"
    /\ \E port \in {"low", "high"} :
         /\ arguments' = [NoArguments EXCEPT ![port] = toSpc[port]]
         /\ SpcGoes(IF port = "low" THEN "readHigh" ELSE "readLow")
    /\ UNCHANGED <<command, repeat>> /\ KeepSpcResult /\ SpcOnly

(* The command as the pass read it, once the other data port is read too. *)
AsRead ==
    IF spcPc = "readLow" THEN Effect(command, toSpc.low, arguments.high)
                         ELSE Effect(command, arguments.low, toSpc.high)

(* Mutant: a command read once more is skipped on passes with a tick too. *)
MutantReadsLast(worked) ==
    /\ spcPc \in {"readLow", "readHigh"}
    /\ IF repeat = AsRead
       THEN SpcGoes("main") /\ arguments' = NoArguments
       ELSE /\ SpcGoes(IF command < CommandLimit THEN "run" ELSE "main")
            /\ arguments' = [low |-> AsRead.low, high |-> AsRead.high]
    /\ UNCHANGED <<command, repeat>> /\ KeepSpcResult /\ SpcOnly

(* A pass in which no timer ticked (~worked) skips the command that the    *)
(* last one ran with the same arguments; an unknown command runs music     *)
(* ticks only, and is kept for that comparison.                            *)
SpcReadsLast(worked) ==
    /\ spcPc \in {"readLow", "readHigh"}
    /\ LET read == AsRead
           Skips == ~worked /\ repeat = read
       IN  \/ /\ ~Skips /\ command < CommandLimit /\ SpcGoes("run")
              /\ arguments' = [low |-> read.low, high |-> read.high]
              /\ UNCHANGED repeat
           \/ /\ Skips \/ command >= CommandLimit
              /\ SpcGoes("main") /\ arguments' = NoArguments
              /\ repeat' = IF Skips THEN repeat ELSE read
    /\ UNCHANGED command /\ KeepSpcResult /\ SpcOnly

(* $1A: the track comes from the high port, then the level from the low    *)
(* one; nothing is acknowledged and the command stays posted.              *)
SpcRunVolume ==
    /\ spcPc = "run" /\ command = MusicTrackVolume
    /\ volume' = [volume EXCEPT !.high = toSpc.high] /\ SpcGoes("runVolume")
    /\ UNCHANGED <<toCpu, spcStep, command, guard, counter, late, performed, memory>>
    /\ SpcOnly

(* The pass ends with its command and the arguments it read kept. *)
KeepAsRepeat ==
    /\ repeat' = Effect(command, arguments.low, arguments.high)
    /\ arguments' = NoArguments

SpcSetVolume ==
    /\ spcPc = "runVolume" /\ KeepAsRepeat
    /\ volume' = [volume EXCEPT !.low = toSpc.low] /\ SpcGoes("main")
    /\ UNCHANGED <<toCpu, spcStep, command, counter, late, performed, memory>> /\ SpcOnly

(* RunCommand for every acknowledged command: what it stores and reports. *)
SpcStores ==
    LET word == Word(toSpc.low, toSpc.high)
        Takes(cursor, c, value) == IF command = c THEN value ELSE cursor
    IN  /\ transfer' = Takes(transfer, Upload, word)
        /\ allocated' = Takes(allocated, SetSampleEnd, word)
        /\ slot' = Takes(slot, SetInstrumentSlot, (4 * toSpc.low) % ByteSize)
        /\ stream' = Takes(stream, SetUploadCursor, word)
        /\ UNCHANGED <<aram, samples, header>>

SpcReports ==
    LET Shows(low, high) == toCpu' = [low |-> low, high |-> high,
                                      command |-> toCpu.command, check |-> toCpu.check]
    IN  \/ /\ command = ReadSampleEnd
           /\ Shows(allocated % ByteSize, allocated \div ByteSize)
        \/ command = ReadProgress /\ \E v, w \in Slack : Shows(v, w)
        \/ /\ command \in ReadCommand \ {ReadSampleEnd, ReadProgress}
           /\ \E v \in Slack : Shows(v, toCpu.high)
        \/ command \notin ReadCommand /\ UNCHANGED toCpu

SpcRun ==
    /\ spcPc = "run" /\ command # MusicTrackVolume
    /\ LET effect == Effect(command, toSpc.low, toSpc.high)
       IN  IF command \in Deferred
           THEN late' = effect /\ performed' = performed
           ELSE performed' = effect /\ late' = late
    /\ SpcStores /\ SpcReports /\ SpcEnters(1)
    /\ arguments' = NoArguments
    /\ UNCHANGED <<command, repeat, volume>> /\ SpcOnly

(* Mutant: the queued action is dropped. *)
MutantAct ==
    /\ spcPc = "act" /\ performed' = performed /\ SpcEnters(spcStep + 1)
    /\ UNCHANGED <<toCpu, command, guard, late, volume, memory>> /\ SpcOnly

(* The action queued behind the acknowledgement. *)
SpcAct ==
    /\ spcPc = "act" /\ performed' = late /\ SpcEnters(spcStep + 1)
    /\ UNCHANGED <<toCpu, command, guard, late, volume, memory>> /\ SpcOnly

(* Acknowledge. *)
SpcAckLow ==
    /\ spcPc = "ackLow" /\ SpcWrites("command", AckLow) /\ SpcGoes("ackHigh")
    /\ UNCHANGED <<spcStep, counter>> /\ KeepSpcData /\ SpcOnly

SpcAckHigh ==
    /\ spcPc = "ackHigh" /\ SpcWrites("check", AckHigh) /\ SpcGoes("ackWaitLow")
    /\ UNCHANGED <<spcStep, counter>> /\ KeepSpcData /\ SpcOnly

SpcAckWaitLow ==
    /\ spcPc = "ackWaitLow" /\ toSpc.command = 0 /\ SpcGoes("ackWaitHigh")
    /\ UNCHANGED <<toCpu, spcStep, counter>> /\ KeepSpcData /\ SpcOnly

(* Mutant: only the first of the game's zeros is awaited. *)
MutantAckWaitHigh ==
    /\ spcPc = "ackWaitHigh" /\ SpcGoes("ackClearLow")
    /\ UNCHANGED <<toCpu, spcStep, counter>> /\ KeepSpcData /\ SpcOnly

SpcAckWaitHigh ==
    /\ spcPc = "ackWaitHigh" /\ toSpc.check = 0 /\ SpcGoes("ackClearLow")
    /\ UNCHANGED <<toCpu, spcStep, counter>> /\ KeepSpcData /\ SpcOnly

SpcAckClearLow ==
    /\ spcPc = "ackClearLow" /\ SpcWrites("command", 0) /\ SpcGoes("ackClearHigh")
    /\ UNCHANGED <<spcStep, counter>> /\ KeepSpcData /\ SpcOnly

(* Mutant: $F7 keeps the acknowledgement. *)
MutantAckClearHigh ==
    /\ spcPc = "ackClearHigh" /\ UNCHANGED toCpu /\ SpcEnters(spcStep + 1)
    /\ KeepSpcData /\ SpcOnly

SpcAckClearHigh ==
    /\ spcPc = "ackClearHigh" /\ SpcWrites("check", 0) /\ SpcEnters(spcStep + 1)
    /\ KeepSpcData /\ SpcOnly

(* Mutant: any index is taken for the awaited one. *)
MutantHeaderWait ==
    /\ spcPc = "headerWait" /\ toSpc.command # 0 /\ SpcGoes("headerTake")
    /\ UNCHANGED <<toCpu, spcStep, counter>> /\ KeepSpcData /\ SpcOnly

(* ReceiveSampleHeader. *)
SpcHeaderWait ==
    /\ spcPc = "headerWait" /\ toSpc.command = counter /\ SpcGoes("headerTake")
    /\ UNCHANGED <<toCpu, spcStep, counter>> /\ KeepSpcData /\ SpcOnly

SpcHeaderTake ==
    /\ spcPc = "headerTake"
    /\ header' = [header EXCEPT ![HeaderBytes + 1 - counter] = toSpc.low]
    /\ SpcGoes("headerReply")
    /\ UNCHANGED <<toCpu, spcStep, counter, command, guard, late, performed, volume,
                   aram, samples, allocated, slot, transfer, stream>> /\ SpcOnly

(* A table with one entry written. *)
Written(table, index, entry) ==
    [k \in DOMAIN table \cup {index} |-> IF k = index THEN entry ELSE table[k]]

(* The eighth byte completes the directory entry and the instrument record *)
(* and takes the memory.  The transfer cursor goes to the sample's start,  *)
(* which the code does when it sees the end mark; nothing uses it before.  *)
DefineSampleFromHeader ==
    LET entry == [start |-> allocated,
                  loop |-> (allocated + Word(header[3], header[4])) % MemorySize,
                  instrument |-> <<header[5], header[6], header[7], header[8]>>]
    IN  /\ samples' = Written(samples, slot \div 4, entry)
        /\ allocated' = (allocated + Word(header[1], header[2])) % MemorySize
        /\ slot' = (slot + 4) % ByteSize
        /\ transfer' = allocated
        /\ UNCHANGED <<aram, header, stream>>

SpcHeaderReply ==
    /\ spcPc = "headerReply" /\ SpcWrites("command", WithBit7(counter))
    /\ counter' = counter - 1
    /\ IF counter = 1
       THEN DefineSampleFromHeader /\ SpcGoes("headerEnd")
       ELSE UNCHANGED memory /\ SpcGoes("headerWait")
    /\ UNCHANGED <<spcStep, command, guard, late, performed, volume>> /\ SpcOnly

SpcHeaderEnd ==
    /\ spcPc = "headerEnd" /\ toSpc.command = EndMark /\ SpcEnters(spcStep + 1)
    /\ UNCHANGED toCpu /\ KeepSpcData /\ SpcOnly

(* ReceiveBlock. *)
SpcBlockStart ==
    /\ spcPc = "blockStart" /\ toSpc.command = EndMark /\ SpcGoes("blockEcho")
    /\ UNCHANGED <<toCpu, spcStep, counter>> /\ KeepSpcData /\ SpcOnly

SpcBlockEcho ==
    /\ spcPc = "blockEcho" /\ SpcWrites("command", EndMark)
    /\ counter' = 0 /\ SpcGoes("blockCheck")
    /\ UNCHANGED spcStep /\ KeepSpcData /\ SpcOnly

SpcBlockCheck ==
    /\ spcPc = "blockCheck"
    /\ IF toSpc.check = EndMark
       THEN SpcEnters(spcStep + 1)
       ELSE SpcGoes("blockIndex") /\ UNCHANGED <<spcStep, counter>>
    /\ UNCHANGED toCpu /\ KeepSpcData /\ SpcOnly

SpcBlockIndex ==
    /\ spcPc = "blockIndex"
    /\ SpcGoes(IF toSpc.command = WithoutBit7(counter) THEN "blockLow" ELSE "blockCheck")
    /\ UNCHANGED <<toCpu, spcStep, counter>> /\ KeepSpcData /\ SpcOnly

(* Mutant: every block goes to the stream's cursor. *)
MutantCursor == stream

(* $17 goes to the stream's own cursor, the others to the transfer cursor. *)
Cursor == IF command = UploadAtCursor THEN stream ELSE transfer
Store(offset, value) ==
    /\ aram' = Written(aram, (Cursor + counter + offset) % MemorySize, value)
    /\ UNCHANGED <<samples, header, allocated, slot, transfer, stream>>

SpcBlockLow ==
    /\ spcPc = "blockLow" /\ Store(0, toSpc.low) /\ SpcGoes("blockHigh")
    /\ UNCHANGED <<toCpu, spcStep, counter, command, guard, late, performed, volume>>
    /\ SpcOnly

SpcBlockHigh ==
    /\ spcPc = "blockHigh" /\ Store(1, toSpc.high) /\ SpcGoes("blockReply")
    /\ UNCHANGED <<toCpu, spcStep, counter, command, guard, late, performed, volume>>
    /\ SpcOnly

(* The cursor's high byte advances when the counter wraps. *)
Advanced(cursor) ==
    IF NextPair(counter) = 0 THEN (cursor + ByteSize) % MemorySize ELSE cursor

SpcBlockReply ==
    /\ spcPc = "blockReply" /\ SpcWrites("command", WithBit7(counter))
    /\ counter' = NextPair(counter)
    /\ IF command = UploadAtCursor
       THEN stream' = Advanced(stream) /\ UNCHANGED transfer
       ELSE transfer' = Advanced(transfer) /\ UNCHANGED stream
    /\ SpcGoes("blockCheck")
    /\ UNCHANGED <<spcStep, command, guard, late, performed, volume,
                   aram, samples, header, allocated, slot>> /\ SpcOnly

(* A pass of the main loop up to the dispatch. *)
SpcPass ==
    \/ SpcSeesNothing \/ SpcPoll \/ SpcCheck \/ SpcReadsFirst
    \/ \E worked \in BOOLEAN : SpcReadsLast(worked)

SpcStepNext ==
    \/ SpcBootWriteLow \/ SpcBootWriteHigh \/ SpcBootWaitLow \/ SpcBootWaitHigh
    \/ SpcPass \/ SpcRunVolume \/ SpcSetVolume \/ SpcRun \/ SpcAct
    \/ SpcAckLow \/ SpcAckHigh \/ SpcAckWaitLow \/ SpcAckWaitHigh
    \/ SpcAckClearLow \/ SpcAckClearHigh
    \/ SpcHeaderWait \/ SpcHeaderTake \/ SpcHeaderReply \/ SpcHeaderEnd
    \/ SpcBlockStart \/ SpcBlockEcho \/ SpcBlockCheck \/ SpcBlockIndex
    \/ SpcBlockLow \/ SpcBlockHigh \/ SpcBlockReply

Next == CpuBegin \/ CpuMark \/ CpuStep \/ SpcStepNext

(* Both processors keep running; nothing makes the game begin a call.  The *)
(* effects timer runs from the end of the start-up on, so that passes with *)
(* a tick come again and again.                                            *)
Spec ==
    /\ Init /\ [][Next]_vars
    /\ WF_vars(CpuStep) /\ WF_vars(SpcStepNext) /\ SF_vars(SpcReadsLast(TRUE))

-----------------------------------------------------------------------------
(* Type invariant. *)

CpuPcs == {"bootLow", "bootHigh", "bootReplyLow", "bootReplyHigh", "idle",
           "low", "high", "mode", "check", "ackLow", "ackHigh", "clearLow",
           "clearHigh", "freeLow", "freeHigh", "read", "headerData",
           "headerIndex", "headerPoll", "headerEnd", "blockStart", "blockEcho",
           "pairLow", "pairHigh", "pairIndex", "pairPoll", "blockEnd"}
SpcLooping == {"main", "check", "arguments", "readLow", "readHigh", "run", "runVolume"}
SpcPcs == SpcLooping \cup
          {"bootLow", "bootHigh", "bootWaitLow", "bootWaitHigh", "act", "ackLow",
           "ackHigh", "ackWaitLow", "ackWaitHigh", "ackClearLow", "ackClearHigh", "headerWait",
           "headerTake", "headerReply", "headerEnd", "blockStart", "blockEcho",
           "blockCheck", "blockIndex", "blockLow", "blockHigh", "blockReply"}
Effects == [command : PortValue, low : PortValue, high : PortValue]

CpuTypeOK ==
    /\ toSpc \in Ports
    /\ cpuPc \in CpuPcs /\ cpuPhase \in 1 .. 5
    /\ request \in Request \cup {StartupRequest}
    /\ remaining \in Nat /\ sequence \in Byte /\ source \in Nat
    /\ reply \in [low : PortValue, high : PortValue]
SpcTypeOK ==
    /\ toCpu \in Ports
    /\ spcPc \in SpcPcs /\ spcStep \in 1 .. 5
    /\ command \in PortValue /\ counter \in Byte
    /\ arguments \in [low : PortValue, high : PortValue] /\ repeat \in Effects
    /\ late \in Effects /\ performed \in Effects /\ volume \in Effects
    /\ header \in [1 .. HeaderBytes -> PortValue]
    /\ allocated \in Address /\ slot \in Byte
    /\ transfer \in Address /\ stream \in Address

(* Every port, register and driver variable keeps its width. *)
TypeOK == CpuTypeOK /\ SpcTypeOK

-----------------------------------------------------------------------------
(* Safety. *)

CpuPosting == {"idle", "low", "high", "mode", "check"}
CpuHandshake == {"ackLow", "ackHigh", "clearLow", "clearHigh", "freeLow", "freeHigh"}

(* A byte of a transfer, a block mark or a half-written request is never   *)
(* taken for a command: when RunCommand runs anything but $1A, the game    *)
(* waits for the first acknowledgement of that very command, and its       *)
(* arguments stand on the data ports.                                      *)
DispatchOnlyPosted ==
    spcPc = "run" /\ command # MusicTrackVolume =>
        /\ cpuPc = "ackLow" /\ cpuPhase = 1 /\ command = request.command
        /\ command \in OneArgument \cup TwoArguments => toSpc.low = request.low
        /\ command \in TwoArguments => toSpc.high = request.high

(* The game takes no data reply, echo or stale byte for an acknowledgement: *)
(* past its first poll, the driver is in the same acknowledgement or, once  *)
(* it saw the game's zeros, just behind it.                                 *)
AcksMatch ==
    /\ cpuPc \in {"ackHigh", "clearLow"} =>
          /\ spcPc \in {"ackHigh", "ackWaitLow", "ackWaitHigh"}
          /\ spcStep = cpuPhase
    /\ cpuPc = "clearHigh" =>
          \/ spcPc \in {"ackWaitLow", "ackWaitHigh", "ackClearLow", "ackClearHigh"}
             /\ spcStep = cpuPhase
          \/ toSpc.check = 0

(* A pair or header byte is taken only for the index it was sent with. *)
TransfersInStep ==
    /\ spcPc \in {"headerTake", "headerReply"} =>
          cpuPc = "headerPoll" /\ remaining = counter /\ spcStep = cpuPhase
    /\ spcPc \in {"blockLow", "blockHigh", "blockReply"} =>
          cpuPc = "pairPoll" /\ sequence = counter /\ spcStep = cpuPhase

(* The number of pairs the loop sends for a payload of n bytes. *)
Pairs(n) == IF n < 3 THEN 1 ELSE (n + 1) \div 2
PayloadSource(r) == IF r.command = UploadSample THEN r.source + HeaderBytes ELSE r.source

(* When an upload to an address returns, the driver's memory holds the     *)
(* payload there, byte for byte and across every wrap of the counter.      *)
DeliveredUpload ==
    cpuPc = "idle" /\ request.command = Upload =>
        \A k \in 0 .. 2 * Pairs(request.length) - 1 :
            LET a == (Word(request.low, request.high) + k) % MemorySize
            IN  a \in DOMAIN aram /\ aram[a] = RomByte(request.source + k)

(* When a sample upload returns, the directory entry before the current    *)
(* slot names memory that holds the sample, its loop point and instrument  *)
(* are those of the header, and the allocation ends behind it.             *)
DeliveredSample ==
    cpuPc = "idle" /\ request.command \in {UploadSample, DefineSample} =>
        LET at == request.source
            index == ((slot + ByteSize - 4) % ByteSize) \div 4
            entry == samples[index]
            length == Word(RomByte(at), RomByte(at + 1))
        IN  /\ index \in DOMAIN samples
            /\ entry.loop = (entry.start + Word(RomByte(at + 2), RomByte(at + 3))) % MemorySize
            /\ entry.instrument = [k \in 1 .. 4 |-> RomByte(at + 3 + k)]
            /\ allocated = (entry.start + length) % MemorySize
            /\ request.command = UploadSample =>
                 \A k \in 0 .. length - 1 :
                     LET a == (entry.start + k) % MemorySize
                     IN  a \in DOMAIN aram /\ aram[a] = RomByte(at + HeaderBytes + k)

(* What a read command returns is what the driver holds: $12 hands the     *)
(* sample end back whole, although each half crosses on its own port.      *)
ReadsBackSampleEnd ==
    cpuPc = "idle" /\ request.command = ReadSampleEnd =>
        reply.low + ByteSize * reply.high = allocated

(* A call that returned did what it was made for: uploads and samples are  *)
(* in the driver's memory whole, and what was read is what was there.      *)
Delivered == DeliveredUpload /\ DeliveredSample /\ ReadsBackSampleEnd

-----------------------------------------------------------------------------
(* The link implements a call service: SoundService. *)

NoCall == Effect(Startup, 0, 0)

Acknowledged(c) == c \notin {Startup, MusicTrackVolume}
Called(r) == Effect(r.command,
                    IF r.command \in OneArgument \cup TwoArguments THEN r.low ELSE 0,
                    IF r.command \in TwoArguments THEN r.high ELSE 0)

(* What RunCommand read from a port that carries no argument is unused. *)
Used(e) == Called(e)

(* The call the game is in, from the moment the request is posted. *)
Call == IF cpuPc \notin CpuPosting /\ Acknowledged(request.command)
        THEN Called(request) ELSE NoCall

(* The action still queued behind an acknowledgement ... *)
LateEffects ==
    IF command \in Deferred
       /\ spcPc \in {"act", "ackLow", "ackHigh", "ackWaitLow", "ackWaitHigh",
                     "ackClearLow", "ackClearHigh"}
    THEN <<Used(late)>> ELSE << >>

(* ... and the request posted and not yet dispatched. *)
PostedEffects ==
    IF cpuPc = "ackLow" /\ cpuPhase = 1 /\ Acknowledged(request.command)
       /\ spcPc \in SpcLooping \cup {"act"}
    THEN <<Called(request)>> ELSE << >>

Service == INSTANCE SoundService WITH
    Calls <- {Called(r) : r \in {q \in Request : Acknowledged(q.command)}},
    Late <- {Called(r) : r \in {q \in Request : q.command \in Deferred}},
    None <- NoCall,
    call <- Call,
    due <- LateEffects \o PostedEffects,
    performed <- Used(performed)

(* Every acknowledged call is carried out exactly once, in the order of    *)
(* the calls and with its own arguments; a call returns only when its      *)
(* action is done, or is one of those queued behind the acknowledgement.   *)
ImplementsService == Service!Spec

(* Nothing acknowledges $1A and any later request overwrites it, but once  *)
(* the game stays out of calls with it posted, the driver takes over its   *)
(* track and level whole and keeps them: whatever halves it read before,   *)
(* and although it skips the command while that looks like the one it ran  *)
(* last.  A volume changed and changed back between two reads of a pass    *)
(* does look so; it takes a pass with a tick to set it.                    *)
VolumeSettles ==
    LET Posted == /\ cpuPc = "idle" /\ request.command = MusicTrackVolume
                  /\ toSpc.check = MusicTrackVolume
    IN  <>[]Posted =>
            <>[](volume.high = request.high /\ volume.low = request.low)

(* Every call returns: neither processor waits for the other forever. *)
CallsReturn == cpuPc # "idle" ~> cpuPc = "idle"
=============================================================================
