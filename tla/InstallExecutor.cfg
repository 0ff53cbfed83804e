CONSTANTS
    p1 = p1
    p2 = p2
    sda = sda
    sdb = sdb
    NoDisk = NoDisk
    Absent = Absent
    Mixed = Mixed
    Requests <- MCRequests
    Disks <- MCDisks
    Modes <- MCModes
SPECIFICATION FairSpec
INVARIANTS
    TreeIsThisRuns
    HardwareMatchesMount
    FlagMeansInstalled
    OkInstalledThisPlan
PROPERTIES
    NothingDestroyedBeforeEval
    OnlyTargetDestroyed
    RunEnds
