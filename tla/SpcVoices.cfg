SPECIFICATION BoundedSpec
CONSTANTS
    VoiceCount = 2
    Groups <- GroupsMC
    Landing <- LandingMC
    PatternEnds = {0, 1, 3}
    Songs <- SongsMC
    Instruments = {0}
    Drum = Drum
    Fx = Fx
    IdLimit = 3
    FadeStep = 1
    FadeMax = 1
    MaxCommands = 3
INVARIANTS
    VoicesInv
PROPERTIES
    TakenEffectStops
    EffectsUndisturbed
