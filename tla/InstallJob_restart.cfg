CONSTANTS
    r1 = r1
    r2 = r2
    r3 = r3
    NoRequest = NoRequest
    Nobody = Nobody
    Orphan = Orphan
    Requests <- MCTwoRequests
    Modes <- MCInstallOnly
SPECIFICATION Spec
PROPERTIES
    RestartFreesSlot
