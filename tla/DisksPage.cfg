CONSTANTS
    BootPartitionBytes = 1
    MinRootBytes = 4
    MiB = 1
    Sizes <- MCSizes
    Held <- MCHeld
    HandMade <- MCHandMade
    Payloads <- MCPayloads
SPECIFICATION Spec
INVARIANTS
    PassedStepHasItsDisk
    SelectionIsEligible
    RaidOffersAreSound
    LayoutsFit
PROPERTIES
    DiskSwapsOnlyWhenGone
