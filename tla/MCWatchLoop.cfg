SPECIFICATION Spec
CONSTANTS
    Path <- MCPath
    SourceExt <- MCSourceExt
    Ignored <- MCIgnored
    Only <- MCOnly
    NoPath = NoPath
    MaxVersion = 1
    MaxEvents = 2
INVARIANT NothingForgotten
PROPERTY OnlySavesCauseRuns
PROPERTY SavesAreAnalysed
CHECK_DEADLOCK FALSE
