CONSTANTS
    Flows = {1, 2}
SPECIFICATION Spec
INVARIANTS
    UndisturbedTokenIsLatest
PROPERTIES
    PollingEnds
CHECK_DEADLOCK FALSE
