SPECIFICATION FairSpec
CONSTANTS
    up = up
    a = a
    Buttons <- ButtonsMC
    RepeatMasks <- RepeatMasksMC
    ForcedWords <- ForcedWordsMC
    RepeatFirst = 16
    RepeatNext = 4
    WordSize = 64
INVARIANTS
    JoypadInv
    TakenOnceWhileDown
PROPERTIES
    PacedRepeats
    HeldButtonKeepsRepeating
