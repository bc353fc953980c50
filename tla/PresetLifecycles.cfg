SPECIFICATION Spec
CONSTANTS
    Version = {"v1", "v2"}
    None = "none"
    Systems = {"systemd", "sysv"}
    Builds <- AllBuilds
    Policies = {"none", "disable"}
    AdminActs = {"disable", "enable", "stop", "start", "reboot"}
INVARIANTS
    TypeOK
    RunningIsCurrent
    EnabledMeansRunning
    AdminDecisionsSurvive
    RemovalLeavesNothing
PROPERTIES
    PolicyWins
