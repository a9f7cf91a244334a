SPECIFICATION Spec
CONSTANTS
    Candidate <- MCCandidate
    CheckOf <- MCCheckOf
    SeverityOf <- MCSeverityOf
    Structural = {"open"}
    Coded = {"agent"}
    Discovered <- MCDiscovered
    FileOf <- MCFileOf
    TableOf <- MCTableOf
    Routed = {"read"}
    Spliced = {"read", "sort"}
    Linked = {"api.ts"}
    Declaring = {"api.ts"}
    Rule = {"r"}
INVARIANT NothingUnverified
INVARIANT CoverageIsEarned
INVARIANT EverythingIsAccountedFor
INVARIANT RequestCarriesTheProven
PROPERTY GreenHidesNothing
CHECK_DEADLOCK FALSE
