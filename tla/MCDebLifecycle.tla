--------------------------- MODULE MCDebLifecycle ---------------------------
EXTENDS DebLifecycle

AllBuilds == [Version -> InitSystem]
SysvBuilds == {[v \in Version |-> "sysv"]}
SystemdBuilds == {[v \in Version |-> "systemd"]}
=============================================================================
