SPECIFICATION BoundedSpec
CONSTANTS
    VoiceCount = 2
    Groups <- GroupsMC
    Landing <- LandingMC
    PatternEnds = {0, 1}
    Songs <- SongsMC
    Instruments = {0}
    Drum = Drum
    Fx = Fx
    IdLimit = 3
    FadeStep = 1
    FadeMax = 1
    MaxCommands = 5
PROPERTY GroupStops
