SPECIFICATION FairSpec
CONSTANTS
    Videos = {v1, v2, v3}
    Broken = {v3}
    NoVideo = NoVideo
    MaxCalls = 3
CHECK_DEADLOCK FALSE
INVARIANTS
    ShownFrameIsAlive
PROPERTIES
    LastOrderWins
    DestructorReturns
