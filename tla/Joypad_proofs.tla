--------------------------- MODULE Joypad_proofs ---------------------------
(***************************************************************************)
(* The joypad words for every set of buttons, every repeat mask and every  *)
(* repeat time: how often a press is taken and when a button repeats.      *)
(***************************************************************************)
EXTENDS Joypad, TLAPS

(* Power-on: no button has been sampled and no press taken.                 *)
LEMMA InitInv == Init => JoypadInv
<1> SUFFICES ASSUME Init PROVE JoypadInv
    OBVIOUS
<1>1. TypeOK
    <2>1. 0 \in 0 .. WordSize /\ 0 \in 0 .. WordSize - 1 /\ 0 \in 0 .. TakesCounted
        BY JoypadAssumption DEF TakesCounted
    <2>2. takes \in [Buttons -> 0 .. TakesCounted]
        BY <2>1 DEF Init
    <2> QED
        BY <2>1, <2>2 DEF Init, TypeOK
<1>2. HeldIsLast /\ TakesLeft /\ CountdownIsPaced
    BY DEF Init, HeldIsLast, TakesLeft, CountdownIsPaced
<1> QED
    BY <1>1, <1>2 DEF JoypadInv

(* The countdown is a word before and after it steps, and steps by one      *)
(* unless it wraps.                                                         *)
LEMMA CountedDownRange ==
    ASSUME countdown \in 0 .. WordSize - 1
    PROVE  /\ CountedDown \in 0 .. WordSize - 1
           /\ countdown # 0 => CountedDown = countdown - 1
BY JoypadAssumption DEF CountedDown

(* A sample that changes nothing moves only the countdown and the count of  *)
(* quiet samples, in step.                                                  *)
LEMMA SampleUnchangedInv ==
    ASSUME JoypadInv, SampleUnchanged
    PROVE  JoypadInv'
<1> USE DEF JoypadInv
<1>1. CountedDown \in 0 .. WordSize - 1 /\ (countdown # 0 => CountedDown = countdown - 1)
    BY CountedDownRange DEF TypeOK
<1>2. TypeOK'
    BY <1>1, JoypadAssumption DEF TypeOK, SampleUnchanged, HeldIsLast
<1>3. HeldIsLast' /\ TakesLeft'
    BY DEF SampleUnchanged, HeldIsLast, TakesLeft
<1>4. CountdownIsPaced'
    <2> SUFFICES ASSUME last # {}
                 PROVE  CountdownIsPaced'
        BY DEF CountdownIsPaced, SampleUnchanged
    <2>1. countdown # 0 /\ countdown + quiet = (IF repeating THEN RepeatNext ELSE RepeatFirst)
        BY DEF CountdownIsPaced
    <2>2. quiet < WordSize
        BY <2>1, JoypadAssumption DEF TypeOK
    <2> QED
        BY <1>1, <2>1, <2>2, JoypadAssumption DEF CountdownIsPaced, SampleUnchanged, TypeOK
<1> QED
    BY <1>2, <1>3, <1>4

(* A repeat arms only buttons whose record it clears.                       *)
LEMMA SampleRepeatsInv ==
    ASSUME JoypadInv, SampleRepeats
    PROVE  JoypadInv'
<1> USE DEF JoypadInv
<1>1. TypeOK'
    <2>1. takes' \in [Buttons -> 0 .. TakesCounted]
        BY DEF TypeOK, SampleRepeats, Renewed, TakesCounted
    <2>2. RepeatNext \in 0 .. WordSize - 1 /\ 0 \in 0 .. WordSize
        BY JoypadAssumption
    <2> QED
        BY <2>1, <2>2 DEF TypeOK, SampleRepeats
<1>2. HeldIsLast' /\ CountdownIsPaced'
    BY JoypadAssumption DEF SampleRepeats, HeldIsLast, CountdownIsPaced
<1>3. TakesLeft'
    <2> SUFFICES ASSUME NEW b \in Buttons
                 PROVE  takes'[b] + (IF b \in held'
                                     THEN IF b \in pressed' THEN 1 ELSE 0
                                     ELSE IF b \in wanted' THEN 1 ELSE 0)
                            <= (IF b \in held' THEN 1 ELSE 2)
        BY DEF TakesLeft
    <2>1. held' = held /\ wanted' = wanted
        BY DEF SampleRepeats, HeldIsLast
    <2>2. CASE b \in last \cap repeatMask
        BY <2>1, <2>2 DEF SampleRepeats, Renewed
    <2>3. CASE b \notin last \cap repeatMask
        BY <2>1, <2>3 DEF SampleRepeats, Renewed, TakesLeft
    <2> QED
        BY <2>2, <2>3
<1> QED
    BY <1>1, <1>2, <1>3

(* A change of the sample arms the buttons that are up: a press in the      *)
(* record gains one take at most, through a take already under way.         *)
LEMMA SampleChangedInv ==
    ASSUME JoypadInv, NEW buttons \in SUBSET Buttons, SampleChanged(buttons)
    PROVE  JoypadInv'
<1> USE DEF JoypadInv
<1>1. TypeOK'
    <2>1. takes' \in [Buttons -> 0 .. TakesCounted]
        BY DEF TypeOK, SampleChanged, Renewed, TakesCounted
    <2>2. RepeatFirst \in 0 .. WordSize - 1 /\ 0 \in 0 .. WordSize
        BY JoypadAssumption
    <2> QED
        BY <2>1, <2>2 DEF TypeOK, SampleChanged
<1>2. HeldIsLast' /\ CountdownIsPaced'
    BY JoypadAssumption DEF SampleChanged, HeldIsLast, CountdownIsPaced
<1>3. TakesLeft'
    <2> SUFFICES ASSUME NEW b \in Buttons
                 PROVE  takes'[b] + (IF b \in held'
                                     THEN IF b \in pressed' THEN 1 ELSE 0
                                     ELSE IF b \in wanted' THEN 1 ELSE 0)
                            <= (IF b \in held' THEN 1 ELSE 2)
        BY DEF TakesLeft
    <2>1. held' = buttons /\ wanted' = wanted /\ takes[b] \in Nat
        BY DEF SampleChanged, TypeOK, TakesCounted
    <2>2. CASE b \in buttons \ last
        BY <2>1, <2>2 DEF SampleChanged, Renewed
    <2>3. CASE b \in buttons /\ b \in last
        <3>1. b \in held /\ takes'[b] = takes[b] /\ (b \in pressed' => b \in pressed)
            BY <2>3 DEF SampleChanged, Renewed, HeldIsLast
        <3> QED
            BY <2>1, <2>3, <3>1 DEF TakesLeft
    <2>4. CASE b \notin buttons
        <3>1. takes'[b] = takes[b]
            BY <2>4 DEF SampleChanged, Renewed
        <3>2. takes[b] + (IF b \in wanted THEN 1 ELSE 0) <= 2
            BY <2>1 DEF TakesLeft
        <3> QED
            BY <2>1, <2>4, <3>1, <3>2
    <2> QED
        BY <2>2, <2>3, <2>4
<1> QED
    BY <1>1, <1>2, <1>3

(* The first step of a take wants only buttons that are down.               *)
LEMMA MaskHeldInv ==
    ASSUME JoypadInv, NEW mask \in SUBSET Buttons, MaskHeld(mask)
    PROVE  JoypadInv'
<1> USE DEF JoypadInv
<1>1. TypeOK' /\ HeldIsLast' /\ CountdownIsPaced'
    BY DEF TypeOK, HeldIsLast, CountdownIsPaced, MaskHeld, padWords, history
<1>2. TakesLeft'
    <2>1. \A b \in Buttons : b \in wanted' => b \in held
        BY DEF MaskHeld
    <2> QED
        BY <2>1 DEF TakesLeft, MaskHeld, padWords, history
<1> QED
    BY <1>1, <1>2

(* The second step turns what was left to take into a take.                 *)
LEMMA ClearPressedInv ==
    ASSUME JoypadInv, ClearPressed
    PROVE  JoypadInv'
<1> USE DEF JoypadInv
<1>1. TypeOK'
    BY DEF TypeOK, ClearPressed, TakesCounted
<1>2. HeldIsLast' /\ CountdownIsPaced'
    BY DEF HeldIsLast, CountdownIsPaced, ClearPressed
<1>3. TakesLeft'
    <2> SUFFICES ASSUME NEW b \in Buttons
                 PROVE  takes'[b] + (IF b \in held'
                                     THEN IF b \in pressed' THEN 1 ELSE 0
                                     ELSE IF b \in wanted' THEN 1 ELSE 0)
                            <= (IF b \in held' THEN 1 ELSE 2)
        BY DEF TakesLeft
    <2>1. held' = held /\ wanted' = {} /\ takes[b] \in Nat
        BY DEF ClearPressed, TypeOK, TakesCounted
    <2>2. takes[b] + (IF b \in held
                      THEN IF b \in pressed THEN 1 ELSE 0
                      ELSE IF b \in wanted THEN 1 ELSE 0)
              <= (IF b \in held THEN 1 ELSE 2)
        BY DEF TakesLeft
    <2>3. CASE b \in wanted \cap pressed
        <3>1. takes'[b] <= takes[b] + 1 /\ takes'[b] \in Nat /\ b \notin pressed'
            BY <2>1, <2>3 DEF ClearPressed, TakesCounted
        <3> QED
            BY <2>1, <2>2, <2>3, <3>1
    <2>4. CASE b \notin wanted \cap pressed
        <3>1. takes'[b] = takes[b] /\ (b \in pressed' => b \in pressed)
            BY <2>4 DEF ClearPressed
        <3> QED
            BY <2>1, <2>2, <3>1
    <2> QED
        BY <2>3, <2>4
<1> QED
    BY <1>1, <1>2, <1>3

(* Forgetting presses, forcing them and setting the repeat mask.            *)
LEMMA ScreensInv ==
    ASSUME JoypadInv,
           \/ \E mask \in SUBSET Buttons : ForgetPresses(mask)
           \/ \E word \in ForcedWords : ForcePresses(word)
           \/ \E mask \in RepeatMasks : SetRepeatMask(mask)
    PROVE  JoypadInv'
<1> USE DEF JoypadInv
<1>1. CASE \E mask \in SUBSET Buttons : ForgetPresses(mask)
    <2> PICK mask \in SUBSET Buttons : ForgetPresses(mask)
        BY <1>1
    <2>1. TypeOK' /\ HeldIsLast' /\ CountdownIsPaced'
        BY DEF TypeOK, HeldIsLast, CountdownIsPaced, ForgetPresses
    <2>2. TakesLeft'
        BY DEF TakesLeft, TypeOK, TakesCounted, ForgetPresses
    <2> QED
        BY <2>1, <2>2
<1>2. CASE \E word \in ForcedWords : ForcePresses(word)
    <2> PICK word \in ForcedWords : ForcePresses(word)
        BY <1>2
    <2>1. TypeOK' /\ HeldIsLast' /\ CountdownIsPaced'
        BY JoypadAssumption
        DEF TypeOK, HeldIsLast, CountdownIsPaced, ForcePresses, Renewed, TakesCounted
    <2>2. TakesLeft'
        BY DEF TakesLeft, TypeOK, TakesCounted, ForcePresses, Renewed
    <2> QED
        BY <2>1, <2>2
<1>3. CASE \E mask \in RepeatMasks : SetRepeatMask(mask)
    BY <1>3 DEF TypeOK, HeldIsLast, TakesLeft, CountdownIsPaced, SetRepeatMask, history
<1> QED
    BY <1>1, <1>2, <1>3

LEMMA StepInv == JoypadInv /\ [Next]_vars => JoypadInv'
<1> SUFFICES ASSUME JoypadInv, [Next]_vars PROVE JoypadInv'
    OBVIOUS
<1>1. CASE ReadPads
    BY <1>1, SampleUnchangedInv, SampleRepeatsInv, SampleChangedInv DEF ReadPads
<1>2. CASE Main
    BY <1>2, MaskHeldInv, ClearPressedInv, ScreensInv DEF Main
<1>3. CASE UNCHANGED vars
    BY <1>3 DEF vars, padWords, history, JoypadInv, TypeOK, HeldIsLast, TakesLeft,
        CountdownIsPaced
<1> QED
    BY <1>1, <1>2, <1>3 DEF Next

-----------------------------------------------------------------------------
(* The invariant, with the types of the words.                              *)
THEOREM Invariance == Spec => []JoypadInv
BY InitInv, StepInv, PTL DEF Spec

(* Whatever the buttons do and whenever the NMI comes, no press is taken    *)
(* twice while its button stays down, and none a third time after it.       *)
THEOREM Takes == Spec => []TakenOnceWhileDown
<1>1. JoypadInv => TakenOnceWhileDown
    BY DEF JoypadInv, TypeOK, TakesCounted, TakesLeft, TakenOnceWhileDown
<1> QED
    BY <1>1, Invariance, PTL

(* Repeats come at the times the source names, whatever those times are.    *)
THEOREM Paced == Spec => PacedRepeats
<1>1. ASSUME JoypadInv, [Next]_vars,
             NEW b \in Buttons,
             b \in held \cap held' \cap (pressed' \ pressed),
             countdown' # countdown
      PROVE  quiet + 1 = (IF repeating THEN RepeatNext ELSE RepeatFirst)
    <2>1. CASE SampleRepeats
        <3>1. /\ countdown # 0
              /\ countdown + quiet = (IF repeating THEN RepeatNext ELSE RepeatFirst)
            BY <1>1 DEF JoypadInv, HeldIsLast, CountdownIsPaced
        <3>2. countdown = 1
            BY <2>1, <3>1, <1>1 DEF SampleRepeats, CountedDown, JoypadInv, TypeOK
        <3>3. quiet \in Nat
            BY <1>1, JoypadAssumption DEF JoypadInv, TypeOK
        <3> QED
            BY <3>1, <3>2, <3>3
    <2>2. CASE SampleUnchanged
        BY <1>1, <2>2 DEF SampleUnchanged
    <2>3. CASE \E buttons \in SUBSET Buttons : SampleChanged(buttons)
        BY <1>1, <2>3 DEF SampleChanged
    <2>4. CASE Main
        BY <1>1, <2>4
        DEF Main, MaskHeld, ClearPressed, ForgetPresses, ForcePresses, SetRepeatMask, padWords
    <2>5. CASE UNCHANGED vars
        BY <1>1, <2>5 DEF vars, padWords
    <2> QED
        BY <1>1, <2>1, <2>2, <2>3, <2>4, <2>5 DEF Next, ReadPads
<1>2. JoypadInv /\ [Next]_vars
      => [\A b \in Buttons :
             /\ b \in held \cap held' \cap (pressed' \ pressed)
             /\ countdown' # countdown
             => quiet + 1 = (IF repeating THEN RepeatNext ELSE RepeatFirst)]_vars
    BY <1>1
<1> QED
    BY <1>2, Invariance, PTL DEF Spec, PacedRepeats

=============================================================================
