---------------------------- MODULE MCSpcVoices ----------------------------
(***************************************************************************)
(* SpcVoices for TLC: every effect that two voices can make, any number of *)
(* ticks, and at most MaxCommands commands; a change of song is one.       *)
(***************************************************************************)
EXTENDS SpcVoices

CONSTANT MaxCommands
VARIABLE commands       \* how many so far

GroupsMC == (SUBSET Voices) \ {{}}
(* Two voices stand for the four whose bytes matter.                        *)
LandingMC == [v \in Voices |-> IF v = 0 THEN {"on"} ELSE {"off", "enable", "status"}]
SongsMC ==
    {[active |-> {0}, percussion |-> {}],
     [active |-> Voices, percussion |-> {}],
     [active |-> Voices, percussion |-> {1}]}

BoundedInit == Init /\ commands = 0
BoundedNext ==
    \/ MusicTick /\ UNCHANGED commands
    \/ \E e \in [IF effectsPlaying THEN effect ELSE {} -> EffectEvents] :
        LET read == Cardinality({v \in DOMAIN e : e[v].ends # 0}) IN
        commands + read <= MaxCommands /\ RunEffects(e) /\ commands' = commands + read
    \/ change # "none" /\ Commands /\ UNCHANGED commands
    \/ change = "none" /\ commands < MaxCommands /\ Commands /\ commands' = commands + 1
BoundedSpec == BoundedInit /\ [][BoundedNext]_<<vars, commands>>
=============================================================================
