------------------------------- MODULE Joypad -------------------------------
(***************************************************************************)
(* One joypad as the game sees it: four words of work RAM that the NMI     *)
(* handler (ReadPads in system/nmi_uploads.c) rewrites once a frame and    *)
(* that the main program reads and clears between frames                   *)
(* (TakeButtonPress8/16 of core/joypad.h and the copies of it in the field *)
(* and diagnostics code).                                                  *)
(*                                                                         *)
(* A word of button bits is the set of the buttons whose bit is set.  The  *)
(* NMI handler runs whole between two instructions of the main program, so *)
(* it is one action; a take is two instructions, and the NMI fits between  *)
(* them.  The loop of ReadPads treats the two pads alike and shares only   *)
(* the repeat mask, so one pad is modelled.                                *)
(***************************************************************************)
EXTENDS Integers, FiniteSets

CONSTANTS
    Buttons,        \* the bits of a joypad word
    RepeatMasks,    \* the values the main program gives the repeat mask
    ForcedWords,    \* the bytes or words it sets to all ones: a set of sets
    RepeatFirst,    \* PAD_REPEAT_FIRST: samples before the first repeat
    RepeatNext,     \* PAD_REPEAT_NEXT: samples between two repeats
    WordSize        \* the countdown is a word: it counts modulo WordSize

ASSUME JoypadAssumption ==
    /\ RepeatMasks \in SUBSET SUBSET Buttons
    /\ RepeatMasks # {}
    /\ ForcedWords \in SUBSET SUBSET Buttons
    /\ WordSize \in Nat
    /\ RepeatFirst \in 1 .. WordSize - 1
    /\ RepeatNext \in 1 .. WordSize - 1

VARIABLES
    held,           \* DP_BUTTONS_HELD
    last,           \* PAD_LAST_BUTTONS
    pressed,        \* DP_BUTTONS_PRESSED
    countdown,      \* PAD_REPEAT_COUNTDOWN
    repeatMask,     \* PAD_REPEAT_MASK
    wanted,         \* the accumulator between the two steps of a take
    \* What happened so far; the program keeps no such record.
    takes,          \* per button: takes since it went down, repeated or was forced
    unseen,         \* buttons that went down, are still down and were not taken
    quiet,          \* samples since the last change or repeat
    repeating       \* a repeat came after the last change

padWords == <<held, last, pressed, countdown, repeatMask>>
history == <<takes, unseen, quiet, repeating>>
vars == <<padWords, wanted, history>>

(* The record counts takes to one more than the most there can be.         *)
TakesCounted == 3

TypeOK ==
    /\ held \in SUBSET Buttons
    /\ last \in SUBSET Buttons
    /\ pressed \in SUBSET Buttons
    /\ countdown \in 0 .. WordSize - 1
    /\ repeatMask \in RepeatMasks
    /\ wanted \in SUBSET Buttons
    /\ takes \in [Buttons -> 0 .. TakesCounted]
    /\ unseen \in SUBSET Buttons
    /\ quiet \in 0 .. WordSize
    /\ repeating \in BOOLEAN

(* Work RAM is cleared at power-on; the repeat mask is set before the NMI   *)
(* is first enabled.                                                        *)
Init ==
    /\ held = {} /\ last = {} /\ pressed = {} /\ countdown = 0
    /\ repeatMask \in RepeatMasks
    /\ wanted = {}
    /\ takes = [b \in Buttons |-> 0]
    /\ unseen = {} /\ quiet = 0 /\ repeating = FALSE

(* A press counts anew for each button of bits.                             *)
Renewed(bits) == [b \in Buttons |-> IF b \in bits THEN 0 ELSE takes[b]]

-----------------------------------------------------------------------------
(* ReadPads, once per NMI.                                                  *)

(* StepWordAt(..., -1): 0 - 1 wraps to the largest word.                    *)
CountedDown == IF countdown = 0 THEN WordSize - 1 ELSE countdown - 1

(* The sample is the one before and the countdown has not run out.          *)
SampleUnchanged ==
    /\ CountedDown # 0
    /\ countdown' = CountedDown
    /\ held' = last
    /\ quiet' = IF quiet < WordSize THEN quiet + 1 ELSE quiet
    /\ UNCHANGED <<last, pressed, repeatMask, wanted, takes, unseen, repeating>>

(* A repeat of every button that is down.                                   *)
MutantSampleRepeats ==
    /\ CountedDown = 0
    /\ countdown' = RepeatNext
    /\ held' = last
    /\ pressed' = pressed \cup last
    /\ takes' = Renewed(last \cap repeatMask)
    /\ quiet' = 0
    /\ repeating' = TRUE
    /\ UNCHANGED <<last, repeatMask, wanted, unseen>>

(* A repeat whose pressed word is not stored.                               *)
SilentSampleRepeats ==
    /\ CountedDown = 0
    /\ countdown' = RepeatNext
    /\ held' = last
    /\ takes' = Renewed(last \cap repeatMask)
    /\ quiet' = 0
    /\ repeating' = TRUE
    /\ UNCHANGED <<last, pressed, repeatMask, wanted, unseen>>

(* A repeat that waits as long again as the first one did.                  *)
SlowSampleRepeats ==
    /\ CountedDown = 0
    /\ countdown' = RepeatFirst
    /\ held' = last
    /\ pressed' = pressed \cup (last \cap repeatMask)
    /\ takes' = Renewed(last \cap repeatMask)
    /\ quiet' = 0
    /\ repeating' = TRUE
    /\ UNCHANGED <<last, repeatMask, wanted, unseen>>

(* The sample is the one before and the countdown has run out: the buttons  *)
(* of the repeat mask that are down count as pressed again.                 *)
SampleRepeats ==
    /\ CountedDown = 0
    /\ countdown' = RepeatNext
    /\ held' = last
    /\ pressed' = pressed \cup (last \cap repeatMask)
    /\ takes' = Renewed(last \cap repeatMask)
    /\ quiet' = 0
    /\ repeating' = TRUE
    /\ UNCHANGED <<last, repeatMask, wanted, unseen>>

(* The buttons that are down are armed, those that are up are not.          *)
MutantSampleChanged(buttons) ==
    /\ buttons # last
    /\ held' = buttons
    /\ last' = buttons
    /\ pressed' = pressed \cup buttons
    /\ countdown' = RepeatFirst
    /\ takes' = Renewed(buttons \ last)
    /\ unseen' = (unseen \cap buttons) \cup (buttons \ last)
    /\ quiet' = 0
    /\ repeating' = FALSE
    /\ UNCHANGED <<repeatMask, wanted>>

(* The sample differs: every button that is up counts as pressed, so that   *)
(* its next press finds it so.                                              *)
SampleChanged(buttons) ==
    /\ buttons # last
    /\ held' = buttons
    /\ last' = buttons
    /\ pressed' = pressed \cup (Buttons \ buttons)
    /\ countdown' = RepeatFirst
    /\ takes' = Renewed(buttons \ last)
    /\ unseen' = (unseen \cap buttons) \cup (buttons \ last)
    /\ quiet' = 0
    /\ repeating' = FALSE
    /\ UNCHANGED <<repeatMask, wanted>>

ReadPads ==
    \/ SampleUnchanged
    \/ SampleRepeats
    \/ \E buttons \in SUBSET Buttons : SampleChanged(buttons)

-----------------------------------------------------------------------------
(* The main program.                                                        *)

(* First step of a take: AND the asked mask with the held word.  Nothing    *)
(* of it held: the call returns false here, which changes nothing.          *)
MaskHeld(mask) ==
    /\ wanted = {}
    /\ wanted' = mask \cap held
    /\ UNCHANGED <<padWords, history>>

(* Second step: TRB clears the wanted bits of the pressed word; the call    *)
(* returns true when one of them was set.                                   *)
ClearPressed ==
    /\ wanted # {}
    /\ wanted' = {}
    /\ pressed' = pressed \ wanted
    /\ takes' = [b \in Buttons |->
                    IF b \in wanted \cap pressed /\ takes[b] < TakesCounted
                    THEN takes[b] + 1 ELSE takes[b]]
    /\ unseen' = unseen \ (wanted \cap pressed)
    /\ UNCHANGED <<held, last, countdown, repeatMask, quiet, repeating>>

(* A TRB with no look at the held word first: a screen forgets a press.     *)
ForgetPresses(mask) ==
    /\ wanted = {}
    /\ pressed' = pressed \ mask
    /\ unseen' = unseen \ (mask \cap pressed)
    /\ UNCHANGED <<held, last, countdown, repeatMask, wanted, takes, quiet, repeating>>

(* A screen sets every bit of the word, or of a byte of it.                 *)
ForcePresses(word) ==
    /\ wanted = {}
    /\ pressed' = pressed \cup word
    /\ takes' = Renewed(word)
    /\ UNCHANGED <<held, last, countdown, repeatMask, wanted, unseen, quiet, repeating>>

(* A scene sets which buttons repeat.                                       *)
SetRepeatMask(mask) ==
    /\ wanted = {}
    /\ repeatMask' = mask
    /\ UNCHANGED <<held, last, pressed, countdown, wanted, history>>

Main ==
    \/ \E mask \in SUBSET Buttons : MaskHeld(mask)
    \/ ClearPressed
    \/ \E mask \in SUBSET Buttons : ForgetPresses(mask)
    \/ \E word \in ForcedWords : ForcePresses(word)
    \/ \E mask \in RepeatMasks : SetRepeatMask(mask)

Next == ReadPads \/ Main

Spec == Init /\ [][Next]_vars

(* The NMI comes every frame while it is enabled; a take that has begun     *)
(* ends, and a screen that waits for a button asks for it again and again.  *)
FairSpec ==
    /\ Spec
    /\ WF_vars(ReadPads)
    /\ WF_vars(ClearPressed)
    /\ \A b \in Buttons : SF_vars(MaskHeld({b}))

-----------------------------------------------------------------------------
(* Properties.                                                              *)

(* While a button stays down, its press is taken at most once, and once     *)
(* more only through a repeat or a forced word; a take that begins while it *)
(* is down and ends after the NMI saw it up may take the press a second     *)
(* time, and nothing takes it a third: ReadPads arms a button when it is    *)
(* up, ClearPressed disarms it whatever ReadPads did meanwhile.             *)
TakenOnceWhileDown ==
    \A b \in Buttons : takes[b] <= (IF b \in held THEN 1 ELSE 2)

(* The NMI arms a held button again only RepeatFirst samples after the last *)
(* change of the sample, and from then on every RepeatNext samples, however *)
(* long the machine ran before and however the countdown wrapped.           *)
PacedRepeats ==
    [][\A b \in Buttons :
         /\ b \in held \cap held' \cap (pressed' \ pressed)
         /\ countdown' # countdown
         => quiet + 1 = (IF repeating THEN RepeatNext ELSE RepeatFirst)]_vars

(* A repeating button that is held, with nothing else pressed or released,  *)
(* is armed again and again and taken again and again by a screen that asks *)
(* for it: the countdown never comes to rest.                               *)
HeldButtonKeepsRepeating ==
    \A b \in Buttons :
        (\E h \in SUBSET Buttons : <>[](held = h /\ b \in h \cap repeatMask))
            => []<>(b \in pressed) /\ []<>(b \notin pressed)

(* The words hold "held buttons and unconsumed presses": a button that went *)
(* down, is still down and whose press no take consumed has its bit set.    *)
UnconsumedPressIsPending == unseen \subseteq pressed

-----------------------------------------------------------------------------
(* The inductive invariant behind the first two.                            *)

(* ReadPads leaves the sample in both words.                                *)
HeldIsLast == held = last

(* What a press may still be taken: while the button is down, either it was *)
(* taken or it is pending; while it is up, one take more than a take under  *)
(* way accounts for.                                                        *)
TakesLeft ==
    \A b \in Buttons :
        takes[b] + (IF b \in held
                    THEN IF b \in pressed THEN 1 ELSE 0
                    ELSE IF b \in wanted THEN 1 ELSE 0)
            <= (IF b \in held THEN 1 ELSE 2)

(* Once a button is down the countdown was reloaded, and it has counted the *)
(* quiet samples since.                                                     *)
CountdownIsPaced ==
    last # {} =>
        /\ countdown # 0
        /\ countdown + quiet = (IF repeating THEN RepeatNext ELSE RepeatFirst)

JoypadInv == TypeOK /\ HeldIsLast /\ TakesLeft /\ CountdownIsPaced

=============================================================================
