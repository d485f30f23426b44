SPECIFICATION FairRunSpec
CONSTANTS
    Notices = {game, config}
    GameNotices = {game}
    NoNotice = NoNotice
    MaxNotices = 3
    Systems = {s1, s2}
CHECK_DEADLOCK FALSE
INVARIANTS
    PublishedInOrder
    HashedInOrder
    NoHashOfDeletedSystem
PROPERTIES
    QueueDrains
    ExitCompletes
