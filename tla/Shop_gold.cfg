SPECIFICATION Spec
CONSTANTS
    sword = sword
    cursed = cursed
    ring = ring
    None = None
    hero = hero
    Items = {sword}
    Capacity = 1
    Members = {hero}
    PlaceCount = 1
    StrongPlaces = 1
    Place <- PlaceMC
    Wearers <- WearersMC
    Cursed = {}
    Cured <- CuredMC
    Kept = {}
    Group <- GroupMC
    Cap = 2
    FieldSize = 4
    StockCap = 1
    Offers = {sword}
    BuyPrice <- PriceMC
    SellPrice <- PriceMC
    GoldCap = 6
    WordSize = 4
    GoldSize = 16
    ByteSize = 8
    Leap = 1
    Gifts = {1}
    Takes = {1}
    Rewards = {1}
    Payments = {3}
    CureFees = {}
    StartGold = 5
INVARIANT
    GoldCapped
