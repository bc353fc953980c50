SPECIFICATION Spec
CONSTANTS
    MaxLen <- MCMaxLen
    MaxEpoch <- MCMaxEpoch
    Requests <- MCRequests
    Releases <- MCReleases
CHECK_DEADLOCK FALSE
INVARIANTS
    TypeOK
    BlameIsDeserved
    NothingChangesSilently
    ServiceOrWarning
    DependenciesSuffice
    MetadataReadsBack
    ComputedReadsBack
    WordsStayData
    RebuildsAgree
    UpgradesArrive
