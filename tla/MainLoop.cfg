SPECIFICATION FairSpec
CONSTANTS
    Folders = {f1, f2}
    Games = {g1, g2}
    P2KGames = {g1}
    FirstItem = g2
    NoItem = NoItem
    Systems = {s1, s2}
    FirstSystem = s1
    NoSystem = NoSystem
    Devices = {d1, d2}
    NoDevice = NoDevice
    Workers = {w1, w2}
    Bios = 2
    Windows = {h1, h2}
    NoWindow = NoWindow
    Stories <- AllStories
CHECK_DEADLOCK FALSE
INVARIANTS
    LastChangeReported
    StagesFindTheirScrape
PROPERTIES
    ScanIsWhole
    UndisturbedScanEnds
    SlowDataComes
    CountComes
    ScrapesEnd
