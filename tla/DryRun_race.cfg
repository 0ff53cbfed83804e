CONSTANTS
    q1 = q1
    q2 = q2
    q3 = q3
    good = good
    bad = bad
    Empty = Empty
    Garbled = Garbled
    Requests <- MCTwoRequests
    Modes <- MCFormat
    Layouts <- MCTwoLayouts
    Broken <- MCBroken
SPECIFICATION Spec
INVARIANTS
    OkIsAboutThisPlan
CHECK_DEADLOCK FALSE
