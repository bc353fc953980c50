SPECIFICATION Spec
CONSTANTS
    Name <- MCName
    Projects <- MCProjects
    SystemDirectories <- MCSystemDirectories
CHECK_DEADLOCK FALSE
INVARIANTS
    PlansAreTrees
    LinksArrive
    EtcIsConfig
    RpmOwnsItsTree
    FormatsCarryTheSame
