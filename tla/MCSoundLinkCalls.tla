-------------------------- MODULE MCSoundLinkCalls --------------------------
(***************************************************************************)
(* SoundLink for TLC with at most MaxCalls calls: calls that allocate      *)
(* samples change the driver's memory without end.  A behaviour makes      *)
(* calls of one family: of every kind, of volumes, or with long blocks.    *)
(***************************************************************************)
EXTENDS MCSoundLink

CONSTANT MaxCalls
VARIABLES calls, family

MCRequests == KindRequests \cup VolumeRequests \cup LongRequests
bound == <<calls, family>>
boundedVars == <<vars, bound>>

(* CpuMark, CpuStep and SpcStepNext, by their part of the protocol.  *)
Booting ==
    \/ CpuBootSeesLow \/ CpuBootSeesHigh \/ CpuBootRepliesLow \/ CpuBootRepliesHigh
    \/ SpcBootWriteLow \/ SpcBootWriteHigh \/ SpcBootWaitLow \/ SpcBootWaitHigh
Posting ==
    \/ CpuMark \/ CpuWriteLow \/ CpuWriteHigh \/ CpuWriteMode \/ CpuWriteCheck
Dispatching ==
    SpcPass \/ SpcRunVolume \/ SpcSetVolume \/ SpcRun \/ SpcAct
Acknowledging ==
    \/ CpuSeeAckLow \/ CpuSeeAckHigh \/ CpuClearLow \/ CpuClearHigh
    \/ CpuSeeFreeLow \/ CpuSeeFreeHigh \/ CpuRead
    \/ SpcAckLow \/ SpcAckHigh \/ SpcAckWaitLow \/ SpcAckWaitHigh
    \/ SpcAckClearLow \/ SpcAckClearHigh
CpuSendsHeader ==
    CpuHeaderData \/ CpuHeaderIndex \/ CpuHeaderPoll \/ CpuHeaderEnd
SpcTakesHeader ==
    SpcHeaderWait \/ SpcHeaderTake \/ SpcHeaderReply \/ SpcHeaderEnd
CpuSendsBlock ==
    \/ CpuBlockStart \/ CpuBlockEcho \/ CpuPairLow \/ CpuPairHigh
    \/ CpuPairIndex \/ CpuPairPoll \/ CpuBlockEnd
SpcTakesBlock ==
    \/ SpcBlockStart \/ SpcBlockEcho \/ SpcBlockCheck \/ SpcBlockIndex
    \/ SpcBlockLow \/ SpcBlockHigh \/ SpcBlockReply

BoundedInit == Init /\ calls = 0 /\ family \in {KindRequests, VolumeRequests, LongRequests}
BoundedNext ==
    \/ /\ CpuBegin /\ request' \in family
       /\ calls < MaxCalls /\ calls' = calls + 1 /\ UNCHANGED family
    \/ Booting /\ UNCHANGED bound
    \/ Posting /\ UNCHANGED bound
    \/ Dispatching /\ UNCHANGED bound
    \/ Acknowledging /\ UNCHANGED bound
    \/ CpuSendsHeader /\ UNCHANGED bound
    \/ SpcTakesHeader /\ UNCHANGED bound
    \/ CpuSendsBlock /\ UNCHANGED bound
    \/ SpcTakesBlock /\ UNCHANGED bound
BoundedSpec ==
    /\ BoundedInit /\ [][BoundedNext]_boundedVars
    /\ WF_boundedVars(CpuStep /\ UNCHANGED bound)
    /\ WF_boundedVars(SpcStepNext /\ UNCHANGED bound)
    /\ SF_boundedVars(SpcReadsLast(TRUE) /\ UNCHANGED bound)
=============================================================================
