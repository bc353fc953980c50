--------------------------- MODULE ArchLifecycle ----------------------------
(* An Arch package built by nativepkg on a target machine, which runs        *)
(* systemd: pacman installs, upgrades and removes it, calling the functions  *)
(* of `.INSTALL`, while an administrator and reboots come in between.        *)
EXTENDS PresetMachine

ArchStep(do, version) == [do |-> do, version |-> version]

(* The functions come from the package being put in place, or removed. *)
Function(names, v) == [i \in DOMAIN names |-> ArchStep(names[i], v)]
Pacman(do, v)      == <<ArchStep(do, v)>>

ArchInit == InitOn("systemd")

-----------------------------------------------------------------------------
(* The snippets, every command of them `|| true` *)

(* Bugs: `enable` instead of `preset`; no `disable` on removal. *)
SystemdEnableAlways(h) == IF HasUnit(h) THEN [h EXCEPT !.enabled = TRUE] ELSE h
SystemdEnable(h)  == Preset(h, policy, ArchUsesPreset(h.init))
SystemdStop(h)    == Stop([h EXCEPT !.enabled = FALSE])
RemoveAccount(h)  == [h EXCEPT !.account = FALSE]     \* purge

ArchAfter(step, h) ==
    CASE step.do = "npm-install"     -> h
      [] step.do = "account"         -> MakeAccount(h)
      [] step.do = "logdir"          -> MakeLogdir(h)
      [] step.do = "systemd-reload"  -> Reload(h)
      [] step.do = "systemd-enable"  -> SystemdEnable(h)
      [] step.do = "systemd-start"   -> StartUnit(h)
      [] step.do = "systemd-restart" -> TryRestartUnit(h)
      [] step.do = "systemd-stop"    -> SystemdStop(h)
      [] step.do = "purge"           -> RemoveAccount(h)

PacmanSteps == {"unpack", "delete", "database"}

-----------------------------------------------------------------------------
(* pacman *)

ArchInstall(v) ==
    /\ installed = None
    /\ Begin(Pacman("unpack", v)
             \o Function(ArchPostInstall(built[v], "npm-install"), v) \o Pacman("database", v))

(* Installing the same version again is an upgrade too. *)
ArchUpgrade(v) ==
    /\ installed # None
    /\ Begin(Pacman("unpack", v)
             \o Function(ArchPostUpgrade(built[v]), v) \o Pacman("database", v))

ArchRemove ==
    /\ installed # None
    /\ Begin(Function(ArchPreRemove(built[installed]), installed)
             \o Pacman("delete", installed)
             \o Function(ArchPostRemove(built[installed]), installed)
             \o Pacman("database", None))

RunFunction ==
    /\ ~Idle /\ Head(todo).do \notin PacmanSteps
    /\ host' = ArchAfter(Head(todo), host)
    /\ admin' = Seen(host')
    /\ todo' = Tail(todo)
    /\ UNCHANGED <<built, policy, installed>>

ArchNext == \/ \E v \in Version : ArchInstall(v) \/ ArchUpgrade(v)
            \/ ArchRemove \/ RunFunction \/ UnpackFiles \/ DeleteFiles \/ UpdateDatabase
            \/ Beside

-----------------------------------------------------------------------------
(* Properties *)

(* Once an upgrade is done, no process of the old version is left. *)
ArchRunningIsCurrent ==
    Settled /\ SameInit => host.running \in {None, host.files}

(* As tests/arch_install.rs:195 has it, an upgrade must not start a service  *)
(* the administrator stopped; nor does it enable what was disabled.          *)
ArchDecisionsSurvive ==
    /\ admin.disabled => ~host.enabled
    /\ admin.off => host.running = None

(* A first install leaves the service running: the account and the log       *)
(* directory are there by the time it is started.                            *)
ArchEnabledMeansRunning ==
    Settled /\ SameInit /\ host.enabled /\ ~admin.stopped => host.running = host.files

(* Removal stops the service and takes the unit out of the boot and the      *)
(* account out of its database.                                              *)
ArchRemovalLeavesNothing ==
    Idle /\ installed = None /\ SameInit =>
        host.running = None /\ ~host.enabled /\ ~host.account
=============================================================================
