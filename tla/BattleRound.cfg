SPECIFICATION Spec
CONSTANTS
    potion = potion
    None = None
    PartySize = 2
    HasCapsule = FALSE
    EnemyCount = 2
    FirstEnemies = {5}
    QueueCount = 6
    Items = {potion}
    StartBag <- BagMC
    Ailments = {"poison", "confused", "asleep"}
    Powers <- PowersMC
    Priorities = {1}
    CanLeave = TRUE
INVARIANTS
    RoundInv
    ItemsCovered
    PaidOnce
