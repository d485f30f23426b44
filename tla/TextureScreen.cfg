SPECIFICATION FrameSpec
CONSTANTS
    Textures = {t1, t2}
    Broken = {}
    Budget = 6
    NoTexture = NoTexture
    MaxOwned = 1
    MaxReleases = 2
CHECK_DEADLOCK FALSE
PROPERTIES
    ScreenIsLoaded
