SPECIFICATION OpSpec
CONSTANTS
    t1 = t1
    t2 = t2
    NoTable = NoTable
    Table <- MCTables
    Configs <- MCConfigs
    Queues <- MCQueues
    Seeds <- MCSeeds
    MaxClock = 0
INVARIANTS
    FixedClaimsBothHalves
    BlockedWasAnswered
    LockoutPassIsEarned
