SPECIFICATION Spec
CONSTANTS
    r1 = r1
    r2 = r2
    Request <- MCRequest
    Fetched <- MCFetched
    MaxSlots = 1
    QueueMax = 2
    MaxFindings = 1
CHECK_DEADLOCK FALSE
PROPERTIES
    RunOverFreesTheSlot
