SPECIFICATION Spec
CONSTANTS
    MaxLen <- MCMaxLen
    MaxEpoch <- MCMaxEpoch
    Requests <- MCArchReleased
    Releases <- MCReleases
CHECK_DEADLOCK FALSE
INVARIANTS
    ArchUpgradesArrive
