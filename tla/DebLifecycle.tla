---------------------------- MODULE DebLifecycle ----------------------------
(* A Debian package built by nativepkg on a target machine: dpkg installs,   *)
(* upgrades, deconfigures, removes and purges it, running the composed       *)
(* maintainer scripts snippet by snippet, while an administrator and reboots *)
(* come in between and configuration may stop half-way and be retried.       *)
EXTENDS Administrator

CONSTANT Systems       \* the init systems of the machines considered

ASSUME SystemsAssumption == Systems \subseteq {"systemd", "sysv", "upstart"}

VARIABLES built,     \* the `init` each version of the package was built with
          recorded,  \* deb-systemd-helper has a state file for the unit
          dpkg,      \* dpkg's record of the package
          skipped    \* a history: dpkg went on from a version never configured

vars == <<built, host, recorded, dpkg, todo, admin, skipped>>

Status == {"not-installed", "half-configured", "installed", "config-files"}

(* A snippet or a dpkg step, the script's $1, and whether its $2 is given.   *)
Step(do, arg, second) == [do |-> do, arg |-> arg, second |-> second]

RunScript(names, arg, second) ==
    [i \in DOMAIN names |-> Step(names[i], arg, second)]

Postinst(v, arg, second) == RunScript(DebPostinst(built[v], "npm-install"), arg, second)
Prerm(v, arg)  == RunScript(DebPrerm(built[v]), arg, FALSE)
Postrm(v, arg) == RunScript(DebPostrm(built[v]), arg, FALSE)
Dpkg(do, arg)  == <<Step(do, arg, FALSE)>>

Init == /\ built \in Builds
        /\ host \in {CleanHost(os) : os \in Systems}
        /\ recorded = FALSE
        /\ dpkg = [status |-> "not-installed", version |-> None, configured |-> None]
        /\ todo = <<>>
        /\ admin = NoDecision
        /\ skipped = FALSE

TypeOK == /\ built \in Builds
          /\ host \in Host
          /\ recorded \in BOOLEAN
          /\ dpkg \in [status : Status, version : Version \cup {None},
                       configured : Version \cup {None}]
          /\ \A i \in DOMAIN todo : todo[i].second \in BOOLEAN
          /\ Idle => (host.files = None <=> dpkg.status \in {"not-installed", "config-files"})
          /\ admin \in Decisions
          /\ skipped \in BOOLEAN

-----------------------------------------------------------------------------
(* The snippets.  Each is an operator from the host and deb-systemd-helper's *)
(* record to the same after it ran.                                          *)

State(h, r) == [host |-> h, recorded |-> r]
Restoring == {"configure", "abort-upgrade", "abort-deconfigure", "abort-remove"}

PostinstAccount(s, arg) ==
    IF arg = "configure" THEN State(MakeAccount(s.host), s.recorded) ELSE s

(* chown fails under `set -e` for an account that is not there, and is not   *)
(* called where tmpfiles.d has the directory.                                *)
LogdirFails(h, arg) ==
    arg \in Restoring /\ ~h.account /\ ~(h.os = "systemd" /\ Ships(h, "tmpfiles.conf"))

PostinstLogdir(s, arg) ==
    IF arg \in Restoring THEN State(MakeLogdir(s.host), s.recorded) ELSE s

Lift(h) == [h EXCEPT !.mask = IF @ = "own" THEN "none" ELSE @]

(* A bug: enable without asking whether the links were removed. *)
PostinstSystemdEnableAlways(s, arg) ==
    IF arg \notin Restoring THEN s
    ELSE LET h == Lift(s.host)
         IN  IF HasUnit(h) THEN State([h EXCEPT !.enabled = TRUE], TRUE)
             ELSE State(h, s.recorded)

(* was-enabled holds where nothing is recorded yet; afterwards it tells      *)
(* whether the links enable made are still there.                            *)
PostinstSystemdEnable(s, arg) ==
    IF arg \notin Restoring THEN s
    ELSE LET h == Lift(s.host)
             wasEnabled == ~s.recorded \/ h.enabled
         IN  IF HasUnit(h) THEN State([h EXCEPT !.enabled = wasEnabled], TRUE)
             ELSE State(h, s.recorded)

(* deb-systemd-invoke leaves a unit alone that is neither enabled nor active. *)
Invoke(h, acted) == IF h.enabled \/ h.running # None THEN acted ELSE h

(* A bug: always start, which does nothing to a process already there. *)
PostinstSystemdStart(s, arg, second) ==
    IF arg \notin Restoring \/ s.host.os # "systemd" THEN s
    ELSE State(Invoke(Reload(s.host), StartUnit(Reload(s.host))), s.recorded)

(* A bug: forget the calls that undo an operation. *)
PostinstSystemdRestartConfigureOnly(s, arg, second) ==
    IF arg # "configure" \/ s.host.os # "systemd" THEN s
    ELSE LET h == Reload(s.host)
         IN  State(IF second THEN Invoke(h, RestartUnit(h)) ELSE Invoke(h, StartUnit(h)), s.recorded)

PostinstSystemdRestart(s, arg, second) ==
    IF arg \notin Restoring \/ s.host.os # "systemd" THEN s
    ELSE LET h == Reload(s.host)
         IN  State(IF second THEN Invoke(h, RestartUnit(h)) ELSE Invoke(h, StartUnit(h)), s.recorded)

(* update-rc.d defaults keeps links that are there. *)
PostinstSysv(s, arg) ==
    IF arg # "configure" \/ s.host.os = "systemd" THEN s
    ELSE State(StartScript([s.host EXCEPT !.rc = IF @ = "none" THEN "on" ELSE @]), s.recorded)

PostinstUpstart(s, arg) ==
    IF arg # "configure" \/ s.host.os # "upstart" THEN s
    ELSE State(StartJob(s.host), s.recorded)

PrermSystemdRestart(s, arg) ==
    IF arg = "remove" /\ s.host.os = "systemd" THEN State(Stop(s.host), s.recorded) ELSE s

PrermSysv(s, arg) ==
    IF arg \in {"remove", "deconfigure"} /\ s.host.os # "systemd"
    THEN State(Stop(s.host), s.recorded) ELSE s

PrermUpstart(s, arg) ==
    IF arg \in {"remove", "deconfigure"} /\ s.host.os = "upstart"
    THEN State(Stop(s.host), s.recorded) ELSE s

(* A bug: purge forgets to lift the mask the removal put on. *)
PostrmSystemdMasked(s, arg) ==
    CASE arg = "remove" -> State([s.host EXCEPT !.mask = IF @ = "none" THEN "own" ELSE @],
                                 s.recorded)
      [] arg = "purge"  -> State([s.host EXCEPT !.enabled = FALSE], FALSE)
      [] OTHER -> s

(* mask keeps a mask that is there, and unmask undoes only the helper's own. *)
PostrmSystemd(s, arg) ==
    CASE arg = "remove" -> State([s.host EXCEPT !.mask = IF @ = "none" THEN "own" ELSE @],
                                 s.recorded)
      [] arg = "purge"  -> State(Lift([s.host EXCEPT !.enabled = FALSE]), FALSE)
      [] OTHER -> s

PostrmSysv(s, arg) ==
    IF arg = "purge" THEN State([s.host EXCEPT !.rc = "none"], s.recorded) ELSE s

PostrmPurge(s, arg) ==
    IF arg = "purge" THEN State([s.host EXCEPT !.logdir = FALSE, !.account = FALSE], s.recorded)
    ELSE s

PostrmSystemdReload(s) == State(Reload(s.host), s.recorded)

After(step, s) ==
    CASE step.do = "postinst-npm-install"     -> s   \* warns, never fails
      [] step.do = "postinst-account"         -> PostinstAccount(s, step.arg)
      [] step.do = "postinst-logdir"          -> PostinstLogdir(s, step.arg)
      [] step.do = "postinst-systemd-enable"  -> PostinstSystemdEnable(s, step.arg)
      [] step.do = "postinst-systemd-restart" ->
             PostinstSystemdRestart(s, step.arg, step.second)
      [] step.do = "postinst-sysv"            -> PostinstSysv(s, step.arg)
      [] step.do = "postinst-upstart"         -> PostinstUpstart(s, step.arg)
      [] step.do = "prerm-systemd-restart"    -> PrermSystemdRestart(s, step.arg)
      [] step.do = "prerm-sysv"               -> PrermSysv(s, step.arg)
      [] step.do = "prerm-upstart"            -> PrermUpstart(s, step.arg)
      [] step.do = "postrm-systemd"           -> PostrmSystemd(s, step.arg)
      [] step.do = "postrm-sysv"              -> PostrmSysv(s, step.arg)
      [] step.do = "postrm-purge"             -> PostrmPurge(s, step.arg)
      [] step.do = "postrm-systemd-reload"    -> PostrmSystemdReload(s)

DpkgSteps == {"unpack", "delete", "deconfigured", "status"}
PostinstDoings == {"postinst-npm-install", "postinst-account", "postinst-logdir",
                   "postinst-systemd-enable", "postinst-systemd-restart", "postinst-sysv",
                   "postinst-upstart"}

-----------------------------------------------------------------------------
(* dpkg: an operation is a sequence of steps *)

Begin(status, steps) ==
    /\ Idle /\ dpkg.status \in status
    /\ todo' = steps
    /\ UNCHANGED <<built, host, recorded, dpkg, admin>>

(* A version configured before, even if removed since, is passed as $2.      *)
Configure(v) ==
    LET before == dpkg.configured # None
    IN  Postinst(v, "configure", before) \o <<Step("status", "installed", before)>>

Install(v) ==
    Begin({"not-installed", "config-files"}, Dpkg("unpack", v) \o Configure(v))

(* Also over a version whose configuration stopped: if none was ever         *)
(* configured, there is no $2 to pass.                                       *)
Upgrade(v) ==
    /\ v # host.files
    /\ Begin({"installed", "half-configured"},
             Prerm(host.files, "upgrade") \o Dpkg("unpack", v)
             \o Postrm(host.files, "upgrade") \o Configure(v))
    /\ skipped' = (skipped \/ dpkg.configured = None)

ConfigureAgain == Begin({"half-configured"}, Configure(host.files))

Deconfigure ==
    Begin({"installed"},
          Prerm(host.files, "deconfigure") \o Dpkg("deconfigured", "half-configured"))

Remove ==
    Begin({"installed", "half-configured"},
          Prerm(host.files, "remove") \o Dpkg("delete", "remove")
          \o Postrm(host.files, "remove") \o Dpkg("status", "config-files"))

Purge ==
    Begin({"config-files"},
          Postrm(dpkg.version, "purge") \o Dpkg("status", "not-installed"))

RunSnippet ==
    /\ ~Idle /\ Head(todo).do \notin DpkgSteps
    /\ ~(Head(todo).do = "postinst-logdir" /\ LogdirFails(host, Head(todo).arg))
    /\ LET s == After(Head(todo), State(host, recorded))
       IN  host' = s.host /\ recorded' = s.recorded /\ admin' = Seen(s.host)
    /\ todo' = Tail(todo)
    /\ UNCHANGED <<built, dpkg, skipped>>

UnpackFiles ==
    /\ ~Idle /\ Head(todo).do = "unpack"
    /\ host' = Unpack(host, Head(todo).arg, built[Head(todo).arg])
    /\ dpkg' = [dpkg EXCEPT !.version = Head(todo).arg]
    /\ todo' = Tail(todo)
    /\ UNCHANGED <<built, recorded, admin, skipped>>

DeleteFiles ==
    /\ ~Idle /\ Head(todo).do = "delete"
    /\ host' = Delete(host)
    /\ todo' = Tail(todo)
    /\ UNCHANGED <<built, recorded, dpkg, admin, skipped>>

(* The operation's last step; purging also forgets the conffiles and what    *)
(* the administrator decided about the unit.  A configuration that was given *)
(* $2 makes up for a version skipped.                                        *)
SetStatus ==
    /\ ~Idle /\ Head(todo).do \in {"status", "deconfigured"}
    /\ LET status == Head(todo).arg IN
       /\ dpkg' = [status |-> status,
                   version |-> IF status = "not-installed" THEN None ELSE dpkg.version,
                   configured |-> CASE status = "installed" -> dpkg.version
                                    [] status = "not-installed" -> None
                                    [] OTHER -> dpkg.configured]
       /\ IF status = "not-installed"
          THEN /\ host' = [host EXCEPT !.defaults = "never", !.init = "none"]
               /\ admin' = [admin EXCEPT !.disabled = FALSE]
          ELSE UNCHANGED <<host, admin>>
       /\ skipped' = (skipped /\ status # "not-installed" /\ ~Head(todo).second)
    /\ todo' = Tail(todo)
    /\ UNCHANGED <<built, recorded>>

(* A wrong dpkg: whatever is called off, the package counts as installed. *)
AbortAsInstalled ==
    /\ ~Idle /\ Head(todo).do = "unpack" /\ host.files = None
    /\ todo' = Postrm(Head(todo).arg, "abort-install") \o Dpkg("status", "installed")
    /\ UNCHANGED <<built, host, recorded, dpkg, admin, skipped>>

(* A step dpkg cannot do: the scripts are called to restore what was.  What  *)
(* an upgrade called off leaves counts as installed, even if it was only     *)
(* half-configured.  A removal is told `in-favour` of what, if for another   *)
(* package's sake.                                                           *)
Abort ==
    /\ ~Idle
    /\ LET step == Head(todo)
           back == Dpkg("status", dpkg.status)
       IN  \/ /\ step.do = "unpack" /\ host.files # None
              /\ todo' = Postrm(step.arg, "abort-upgrade")
                         \o Postinst(host.files, "abort-upgrade", TRUE)
                         \o Dpkg("status", "installed")
           \/ /\ step.do = "unpack" /\ host.files = None
              /\ todo' = Postrm(step.arg, "abort-install") \o back
           \/ /\ step.do = "delete"
              /\ \E inFavour \in BOOLEAN :
                    todo' = Postinst(host.files, "abort-remove", inFavour) \o back
           \/ /\ step.do = "deconfigured"
              /\ todo' = Postinst(host.files, "abort-deconfigure", TRUE) \o back
    /\ UNCHANGED <<built, host, recorded, dpkg, admin, skipped>>

(* addgroup, mkdir or chown fails in postinst under `set -e`, or dpkg is     *)
(* killed before it recorded the end: the package is left half-configured,   *)
(* to be configured again.                                                   *)
ConfigureStops ==
    /\ ~Idle
    /\ \/ Head(todo).do \in PostinstDoings
       \/ Head(todo).do = "status" /\ Head(todo).arg = "installed"
    /\ todo' = <<>>
    /\ dpkg' = [dpkg EXCEPT !.status = "half-configured"]
    /\ UNCHANGED <<built, host, recorded, admin, skipped>>

DpkgStep == RunSnippet \/ UnpackFiles \/ DeleteFiles \/ SetStatus \/ Abort \/ ConfigureStops

-----------------------------------------------------------------------------
(* Links changed before deb-systemd-helper's first record are not known to   *)
(* it, so the administrator leaves the unit alone until then.                *)
Beside ==
    /\ Administer
    /\ host.os = "systemd" /\ ~recorded => Enabled(host') = Enabled(host)
    /\ UNCHANGED <<built, recorded, dpkg, skipped>>

Operator == \/ \E v \in Version : Upgrade(v)
            \/ /\ (\E v \in Version : Install(v)) \/ ConfigureAgain \/ Deconfigure
                  \/ Remove \/ Purge
               /\ UNCHANGED skipped

Next == Operator \/ DpkgStep \/ Beside

Spec == Init /\ [][Next]_vars

-----------------------------------------------------------------------------
(* Properties, of packages whose `init` does not change between versions     *)
(* unless they say otherwise                                                 *)

SameInit == \A u, v \in Version : built[u] = built[v]
Settled == Idle /\ dpkg.status = "installed"
OnSystemd == host.os = "systemd" /\ SameInit

(* Whatever sequence of upgrades, aborts and retries led there, a process    *)
(* that runs once dpkg is done runs the installed files under their unit,    *)
(* unless a version was skipped.                                             *)
RunningIsCurrent ==
    Settled /\ OnSystemd /\ ~skipped => host.running \in {None, host.files}

(* The same on every init system and over any version, as the regression     *)
(* note at deb/scripts.rs:508 wants it: an upgrade must restart the service. *)
UpgradeNeverLeavesStale == Settled /\ SameInit => host.running \in {None, host.files}

(* An enabled service that no administrator masked or stopped, and whose     *)
(* defaults file is there, runs once dpkg is done, also after a removal or   *)
(* an upgrade that was called off, unless a version was skipped.             *)
EnabledMeansRunning ==
    Settled /\ OnSystemd /\ ~skipped /\ host.enabled /\ host.mask # "admin" /\ ~admin.stopped
            /\ host.defaults = "present"
        => host.running = host.files

(* templates/sysv-init:24 says of the defaults file that an administrator    *)
(* may delete it, and that this must not take down a service that does not   *)
(* need it: no upgrade or boot leaves the enabled service down without it.   *)
DefaultsAreOptional ==
    Settled /\ OnSystemd /\ host.enabled /\ host.mask # "admin" /\ ~admin.stopped
            /\ host.defaults = "deleted"
        => host.running = host.files

(* No maintainer script re-enables what an administrator disabled, starts    *)
(* what was disabled and stopped, or lifts an administrator's mask, until a  *)
(* purge forgets the first two.                                              *)
AdminDecisionsSurvive ==
    /\ admin.disabled => ~Enabled(host)
    /\ SameInit /\ admin.disabled /\ admin.off => host.running = None
    /\ admin.masked => host.mask = "admin"

(* Nothing of the package runs once its files are gone. *)
StoppedAfterRemoval ==
    Idle /\ SameInit /\ dpkg.status \in {"not-installed", "config-files"} => host.running = None

(* Removal keeps the account and its logs; a purge leaves no account, log,   *)
(* link, mask or helper record behind.                                       *)
PurgeLeavesNothing ==
    Idle /\ SameInit /\ dpkg.status = "not-installed" =>
        /\ ~recorded /\ ~host.enabled /\ host.rc = "none" /\ host.mask # "own"
        /\ ~host.account /\ ~host.logdir

(* Removal stops the service and leaves nothing enabled or running behind;   *)
(* a purge leaves nothing at all.                                            *)
RemovalLeavesNothing == StoppedAfterRemoval /\ PurgeLeavesNothing
=============================================================================
