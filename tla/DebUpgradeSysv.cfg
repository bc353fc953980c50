SPECIFICATION Spec
CONSTANTS
    Version = {"v1", "v2"}
    None = "none"
    Systems = {"sysv"}
    Builds <- SysvBuilds
    AdminActs = {"reboot"}
INVARIANTS
    UpgradeNeverLeavesStale
