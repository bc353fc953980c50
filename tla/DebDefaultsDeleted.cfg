SPECIFICATION Spec
CONSTANTS
    Version = {"v1", "v2"}
    None = "none"
    Systems = {"systemd"}
    Builds <- SystemdBuilds
    AdminActs = {"delete-defaults"}
INVARIANTS
    DefaultsAreOptional
