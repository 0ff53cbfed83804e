CONSTANTS
    r1 = r1
    r2 = r2
    r3 = r3
    NoRequest = NoRequest
    Nobody = Nobody
    Orphan = Orphan
    Requests <- MCRequests
    Modes <- MCModes
SPECIFICATION FairSpec
INVARIANTS
    AtMostOneOwner
    OwnerHoldsSlot
    SlotHasOwner
    StatusTellsLatestJob
PROPERTIES
    ImplementsSlot
    AcceptedJobEnds
    EveryRequestAnswered
