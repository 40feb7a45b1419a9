SPECIFICATION Spec
CONSTANTS
    sword = sword
    cursed = cursed
    ring = ring
    None = None
    hero = hero
    Items = {sword, cursed, ring}
    Capacity = 2
    Members = {hero}
    PlaceCount = 2
    StrongPlaces = 2
    Place <- PlaceMC
    Wearers <- WearersMC
    Cursed = {cursed}
    Cured <- CuredMC
    Kept = {ring}
    Group <- GroupMC
    Cap = 2
    FieldSize = 4
    StockCap = 1
    Offers = {sword, ring}
    BuyPrice <- PriceMC
    SellPrice <- PriceMC
    GoldCap = 2
    WordSize = 16
    GoldSize = 32
    ByteSize = 8
    Leap = 1
    Gifts = {1}
    Takes = {1, 2}
    Rewards = {1}
    Payments = {1}
    CureFees = {1}
    StartGold = 2
INVARIANTS
    GoodsInv
PROPERTIES
    MovesConserve
    FairTrade
