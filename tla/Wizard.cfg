CONSTANTS
    Repositories <- MCRepositories
    InsecureRepos <- MCInsecure
    Listings <- MCListings
    Typed <- MCTyped
    MaxChecks = 1
    Toggled <- MCToggled
    Payloads <- MCPayloads
    OfferedKinds = {"github-user-repo", "github-create-from-template"}
    OfferedProfiles <- MCProfiles
    OfferedPresets <- MCPresets
    TypedPasswords = {"", "strong"}
    Imports <- MCImports
    OfferedCountries = {"FR", "AD"}
    OfferedLanguages = {"en-US"}
    OfferedKeymaps = {"us"}
    OfferedZones = {"Asia/Tokyo"}
    ClickedPoints <- MCPoints
    MaxStray <- MCMaxStray
SPECIFICATION Spec
INVARIANTS
    TypeOK
    EulaFirst
    ReadyIsForThisSource
    PinsAreClickable
PROPERTIES
    EntersInstallSound
    OnlyReloadStrandsTheLock
    DiskMovesAreAsked
