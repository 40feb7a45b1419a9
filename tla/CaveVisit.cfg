SPECIFICATION BoundedSpec
CONSTANTS
    ring = ring
    stone = stone
    idol = idol
    potion = potion
    hero = hero
    friend = friend
    None = None
    Items = {ring, stone, idol, potion}
    Capacity = 3
    Members = {hero, friend}
    PlaceCount = 1
    StrongPlaces = 1
    Place <- PlaceMC
    Wearers <- WearersMC
    Cursed = {}
    Cured <- CuredMC
    Kept = {}
    Group <- GroupMC
    Cap = 3
    FieldSize = 8
    StockCap = 0
    Blue = {ring, stone}
    Iris = {idol}
    Potion = potion
    Potions = 1
    StartBags <- StartBagsMC
    Party = {hero}
    Seat <- SeatMC
    Rank <- RankMC
    MinuteCount = 2
    HourSize = 32
    MaxVisits = 2
    MaxActs = 1
    MaxMinutes = 3
INVARIANTS
    CaveInv
    TimeKept
PROPERTIES
    ItemsComeHome
