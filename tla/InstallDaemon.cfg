CONSTANTS
    r1 = r1
    r2 = r2
    sda = sda
    NoRequest = NoRequest
    NoDisk = NoDisk
    Absent = Absent
    Mixed = Mixed
    Requests <- MCRequests
    Disks <- MCDisks
    Modes <- MCModes
SPECIFICATION DaemonFairSpec
INVARIANTS
    ExecutorIsExclusive
PROPERTIES
    OnlyAcceptedPlansRun
    JobEndsWithItsRun
