CONSTANTS
    q1 = q1
    q2 = q2
    q3 = q3
    good = good
    bad = bad
    Empty = Empty
    Garbled = Garbled
    Requests <- MCRequests
    Modes <- MCModes
    Layouts <- MCTwoLayouts
    Broken <- MCBroken
SPECIFICATION FairSpec
INVARIANTS
    UndisturbedVerdictIsOwn
PROPERTIES
    EveryDryRunAnswered
CHECK_DEADLOCK FALSE
