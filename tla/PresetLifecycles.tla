-------------------------- MODULE PresetLifecycles --------------------------
(* The two families whose systems leave a new unit disabled unless a preset  *)
(* enables it, so that their packages ship one: a machine of either, with    *)
(* the package manager of its family.                                        *)
EXTENDS RpmLifecycle, ArchLifecycle

VARIABLE family        \* "rpm", or "arch", which has systemd

vars == <<family, machineVars>>

Init == \/ family = "rpm" /\ RpmInit
        \/ family = "arch" /\ ArchInit

Next == /\ \/ family = "rpm" /\ RpmNext
           \/ family = "arch" /\ ArchNext
        /\ UNCHANGED family

Spec == Init /\ [][Next]_vars

-----------------------------------------------------------------------------
(* Each family's module states what its snippets have to do with it.         *)
Of(rpm, arch) == IF family = "rpm" THEN rpm ELSE arch

(* The machine, the package manager's record and the decisions are of their  *)
(* types, and the record agrees with the files once nothing is under way.    *)
TypeOK == family \in {"rpm", "arch"} /\ Of(RpmTypeOK, MachineOK)

(* Once an upgrade is done, no process of the old version is left: rpm's     *)
(* %postun of the old version, .INSTALL's post_upgrade of the new one,       *)
(* restarted it under the new unit.                                          *)
RunningIsCurrent == Of(RpmRunningIsCurrent, ArchRunningIsCurrent)

(* A first install leaves the service running, whatever happens to it later  *)
(* short of an administrator stopping it or a reboot not starting it.        *)
EnabledMeansRunning == Of(RpmEnabledMeansRunning, ArchEnabledMeansRunning)

(* An upgrade starts nothing the administrator stopped and enables nothing   *)
(* that was disabled (tests/arch_install.rs:195).                            *)
AdminDecisionsSurvive == Of(RpmDecisionsSurvive, ArchDecisionsSurvive)

(* Removal stops the service and takes the unit out of the boot, the         *)
(* runlevels and the account database.                                       *)
RemovalLeavesNothing == Of(RpmRemovalLeavesNothing, ArchRemovalLeavesNothing)

(* An administrator's preset, placed before installation, keeps every        *)
(* scriptlet from enabling the unit: only the administrator may.             *)
PolicyWins ==
    [][policy = "disable" /\ host'.enabled /\ ~host.enabled => Administer]_vars
=============================================================================
