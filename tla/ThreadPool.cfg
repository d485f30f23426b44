SPECIFICATION FairSpec
CONSTANTS
    Jobs = {j1, j2, j3}
    N = 2
    NoJob = NoJob
    MaxRuns = 2
CHECK_DEADLOCK FALSE
INVARIANTS
    EachFeedOnce
    CompletionIsComplete
    NobodySleepsOnWork
    NoWorkerOutlivesPool
PROPERTIES
    FeedIsRun
    DestructorReturns
