SPECIFICATION Spec
CONSTANTS
    f1 = f1
    f2 = f2
    old = old
    new1 = new1
    new2 = new2
    NoText = NoText
    Garbled = Garbled
    UserText = UserText
    File <- MCFiles
    Text <- MCTexts
    Calls <- MCCalls
    Trees <- MCTrees
    Suites <- MCSuites
INVARIANTS
    TreeRestored
    EachRoundAlone
