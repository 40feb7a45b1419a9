SPECIFICATION FairSpec
CONSTANTS
    hero = hero
    guard = guard
    chest = chest
    f1 = f1
    f2 = f2
    NoFrame = NoFrame
    Nothing = Nothing
    Actors <- ActorsMC
    Objects <- ObjectsMC
    Frames <- FramesMC
    Slots = 2
    ActorSlots = 1
INVARIANTS
    SpriteInv
    GraphicsWhole
    ShownIsComing
PROPERTIES
    FrameArrives
