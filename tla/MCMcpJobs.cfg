SPECIFICATION Spec
CONSTANTS
    j1 = j1
    j2 = j2
    j3 = j3
    NoLock = NoLock
    Job <- MCJob
    Ends <- MCEnds
    Watched <- MCWatched
    MaxJobs = 1
    Ttl = 1
    MaxClock = 2
CHECK_DEADLOCK FALSE
INVARIANTS
    RunningJobsAreKept
    FinalAnswersAreWhole
    EvictionIsThorough
PROPERTIES
    ResultsKeptForCollection
    RunOverEndsJob
