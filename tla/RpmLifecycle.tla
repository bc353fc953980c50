---------------------------- MODULE RpmLifecycle ----------------------------
(* An RPM built by nativepkg on a target machine: installed, upgraded and    *)
(* erased, with the old and the new version's scriptlets interleaved as rpm  *)
(* does it, while an administrator and reboots come in between.              *)
EXTENDS PresetMachine, Naturals

CONSTANT Systems       \* the init systems of the machines considered

(* Those ServiceHost knows.                                                  *)
ASSUME SystemsAssumption == Systems \subseteq {"systemd", "sysv", "upstart"}

(* A scriptlet's snippet, or a step of rpm's own; `count` is the scriptlet's *)
(* $1, how many versions are installed after the operation.                  *)
RpmStep(do, count, version) == [do |-> do, count |-> count, version |-> version]

Scriptlet(names, count, v) == [i \in DOMAIN names |-> RpmStep(names[i], count, v)]

Pre(v, count)    == Scriptlet(RpmPre(built[v]), count, v)
Post(v, count)   == Scriptlet(RpmPost(built[v], "npm-install"), count, v)
Preun(v, count)  == Scriptlet(RpmPreun(built[v]), count, v)
Postun(v, count) == Scriptlet(RpmPostun(built[v]), count, v)
Rpm(do, v)       == <<RpmStep(do, 0, v)>>

RpmInit == \E os \in Systems : InitOn(os)

RpmTypeOK == MachineOK /\ \A i \in DOMAIN todo : todo[i].count \in 0..2

-----------------------------------------------------------------------------
(* The snippets, every command of them `|| :` *)

PreAccount(h, count) == IF count = 1 THEN MakeAccount(h) ELSE h

PostLogdir(h) == MakeLogdir(h)

(* Bugs: apply presets on upgrades too; enable instead. *)
PostSystemdEveryTime(h, count) ==
    IF h.os = "systemd" THEN StartUnit(Preset(Reload(h), policy, RpmUsesPreset(h.init)))
    ELSE Reload(h)
PostSystemd(h, count) ==
    LET loaded == Reload(h)
    IN  IF count = 1 /\ h.os = "systemd"
        THEN StartUnit(Preset(loaded, policy, RpmUsesPreset(h.init)))
        ELSE loaded

(* chkconfig --add keeps links that are there; `service` hands a unit that   *)
(* systemd knows to systemctl.                                               *)
PostSysv(h, count) ==
    IF count = 1 THEN StartService([h EXCEPT !.rc = IF @ = "none" THEN "on" ELSE @]) ELSE h

PreunSystemd(h, count) ==
    IF count = 0 /\ h.os = "systemd" THEN Stop([h EXCEPT !.enabled = FALSE]) ELSE h

(* A bug: no `chkconfig --del`. *)
PreunSysvStop(h, count) == IF count = 0 THEN Stop(h) ELSE h

PreunSysv(h, count) == IF count = 0 THEN [Stop(h) EXCEPT !.rc = "none"] ELSE h

PostunSystemd(h, count) ==
    LET loaded == Reload(h)
    IN  IF count >= 1 /\ h.os = "systemd" THEN TryRestartUnit(loaded) ELSE loaded

PostunPurge(h, count) == IF count = 0 THEN [h EXCEPT !.account = FALSE] ELSE h

RpmAfter(step, h) ==
    CASE step.do = "pre-account"      -> PreAccount(h, step.count)
      [] step.do = "post-npm-install" -> h
      [] step.do = "post-logdir"      -> PostLogdir(h)
      [] step.do = "post-systemd"     -> PostSystemd(h, step.count)
      [] step.do = "post-sysv"        -> PostSysv(h, step.count)
      [] step.do = "preun-systemd"    -> PreunSystemd(h, step.count)
      [] step.do = "preun-sysv"       -> PreunSysv(h, step.count)
      [] step.do = "postun-systemd"   -> PostunSystemd(h, step.count)
      [] step.do = "postun-purge"     -> PostunPurge(h, step.count)

RpmSteps == {"unpack", "delete", "database"}

-----------------------------------------------------------------------------
(* rpm *)

RpmInstall(v) ==
    /\ installed = None
    /\ Begin(Pre(v, 1) \o Rpm("unpack", v) \o Post(v, 1) \o Rpm("database", v))

(* The new version is in place before the old one's scriptlets run. *)
RpmUpgrade(v) ==
    /\ installed \in Version \ {v}
    /\ Begin(Pre(v, 2) \o Rpm("unpack", v) \o Post(v, 2)
             \o Preun(installed, 1) \o Postun(installed, 1) \o Rpm("database", v))

(* A wrong rpm: the files stay. *)
RpmEraseKeepingFiles ==
    /\ installed # None
    /\ Begin(Preun(installed, 0) \o Postun(installed, 0) \o Rpm("database", None))

RpmErase ==
    /\ installed # None
    /\ Begin(Preun(installed, 0) \o Rpm("delete", installed)
             \o Postun(installed, 0) \o Rpm("database", None))

RunScriptlet ==
    /\ ~Idle /\ Head(todo).do \notin RpmSteps
    /\ host' = RpmAfter(Head(todo), host)
    /\ admin' = Seen(host')
    /\ todo' = Tail(todo)
    /\ UNCHANGED <<built, policy, installed>>

RpmNext == \/ \E v \in Version : RpmInstall(v) \/ RpmUpgrade(v)
           \/ RpmErase \/ RunScriptlet \/ UnpackFiles \/ DeleteFiles \/ UpdateDatabase
           \/ Beside

-----------------------------------------------------------------------------
(* Properties *)

(* Once an upgrade is done, no process of the old version is left: the old   *)
(* version's %postun restarted it under the new unit.                        *)
RpmRunningIsCurrent ==
    Settled /\ SameInit /\ host.os = "systemd" => host.running \in {None, host.files}

(* An upgrade never starts a service the administrator stopped, never        *)
(* enables what was disabled, and only a first install applies presets.      *)
RpmDecisionsSurvive ==
    /\ admin.disabled => ~Enabled(host)
    /\ admin.off => host.running = None

(* A first install leaves the service running, whatever happens to it later  *)
(* short of an administrator stopping it or a reboot not starting it.        *)
RpmEnabledMeansRunning ==
    Settled /\ SameInit /\ host.os = "systemd" /\ host.enabled /\ ~admin.stopped
        => host.running = host.files

(* The final erase stops the service and takes the unit out of the boot,     *)
(* the runlevels and the account database.                                   *)
RpmRemovalLeavesNothing ==
    Idle /\ installed = None /\ SameInit =>
        /\ host.running = None /\ ~host.enabled /\ host.rc = "none" /\ ~host.account
=============================================================================
