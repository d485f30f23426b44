SPECIFICATION Spec
CONSTANTS
    Textures = {t1, t2, t3, t4, t5, t6}
    Broken = {}
    Budget = 2
    NoTexture = NoTexture
    MaxOwned = 0
    MaxReleases = 0
CHECK_DEADLOCK FALSE
INVARIANTS
    QueueIndexed
    BudgetKept
SYMMETRY TextureSymmetry
