CONSTANTS
    f1 = f1
    f2 = f2
    NoName = NoName
    None = None
    File <- MCFile
    Contents <- MCContents
    Tool <- MCTool
    Parts <- MCParts
    Stem <- MCStem
    Segment <- MCSegment
    Labels <- MCLabels
    Exclusions <- MCExclusions
    MaxSilent = 1
    MaxEdits = 1
    MaxFixes = 1
SYMMETRY Perms
SPECIFICATION PlaneSpec
INVARIANT EveryPairIsAccountedFor
INVARIANT TurnedAgentHoldsThePair
INVARIANT FixedClosesThePairing
INVARIANT CleanSplitIsFixed
CHECK_DEADLOCK FALSE
