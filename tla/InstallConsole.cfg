CONSTANTS
    MaxChecks = 2
    MaxStarts = 2
    MaxLoose = 2
    MaxJobs = 1
SPECIFICATION Spec
INVARIANTS
    OneStream
    RunningIsFollowed
CHECK_DEADLOCK FALSE
