SPECIFICATION TreesSpec
CONSTANTS
    Repo <- MCRepo
    Folder <- MCFolder
    Slot <- MCSlot
    None = None
    CacheMax = 1
    MaxPaths = 3
    MaxVersion = 1
    MaxProcess = 2
INVARIANT AnswersAreCurrent
INVARIANT TreesLiveOneRequest
CHECK_DEADLOCK FALSE
