SPECIFICATION Spec
CONSTANTS
    Version = {"v1", "v2"}
    None = "none"
    Systems = {"systemd", "sysv", "upstart"}
    Builds <- AllBuilds
    AdminActs = {"disable", "enable", "stop", "start", "mask", "unmask", "reboot", "delete-defaults"}
INVARIANTS
    TypeOK
    RunningIsCurrent
    EnabledMeansRunning
    AdminDecisionsSurvive
    RemovalLeavesNothing
