SPECIFICATION Spec
CONSTANTS
    up = up
    a = a
    Buttons <- ButtonsMC
    RepeatMasks <- RepeatMasksMC
    ForcedWords <- ForcedWordsMC
    RepeatFirst = 16
    RepeatNext = 4
    WordSize = 64
INVARIANT
    UnconsumedPressIsPending
