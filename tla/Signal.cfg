SPECIFICATION FairSpec
CONSTANTS
    Threads = {t1, t2, t3, t4}
    TimedThreads = {t3, t4}
INVARIANTS
    NoLostWakeup
PROPERTIES
    SignalIsUsed
    EventSpec
