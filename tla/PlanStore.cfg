CONSTANTS
    n1 = n1
    s1 = s1
    s2 = s2
    a = a
    Earlier = Earlier
    Absent = Absent
    Torn = Torn
    PlanRequests <- MCPlanRequests
    SecretRequests <- MCSecretRequests
    Plans <- MCPlans
SPECIFICATION FairSpec
INVARIANTS
    PublishedIsWhole
    CreatedPlanLoads
    UndisturbedReadyIsOwn
    LeftTempIsExplained
PROPERTIES
    EveryRequestAnswered
CHECK_DEADLOCK FALSE
