SPECIFICATION Spec
CONSTANTS
    MaxFindings = 3
    OutMax = 2
    ErrMax = 2
CHECK_DEADLOCK FALSE
INVARIANTS
    AnswerIsTheRuns
PROPERTIES
    KeepsThePromise
    AnsweredUnlessJammed
    ChildIsReaped
