SPECIFICATION FairSpec
CONSTANTS
    Resources <- ResourcesMC
    Residents <- ResidentsMC
    Songs <- SongsMC
    Effects <- EffectsMC
    Chunk = 2
    BankSize = 8
    Header = 2
    TableAddress = 0
    FixedSlot = 1
    Slots = 5
    RamEnd = 14
    QueueSlots = 2
    Free = Free
    Nothing = Nothing
INVARIANTS
    StreamInv
    LoadedWhole
    StreamWhole
    LatestStreams
PROPERTIES
    StreamInPlace
    StreamsEnd
