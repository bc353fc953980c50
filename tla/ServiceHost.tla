---------------------------- MODULE ServiceHost -----------------------------
(* The target machine the maintainer scripts act on: its init system, the    *)
(* package's files there, and the service process.  Modelled from how the    *)
(* snippets use systemctl, invoke-rc.d, initctl, adduser and their kin.      *)
EXTENDS Composition

CONSTANTS Version,   \* versions of the package
          None       \* no version

(* No version is None, nor the word for a process of two.                    *)
ASSUME NoneAssumption == None \notin Version \cup {"mixed"}

(* os        what runs as init                                               *)
(* files     the version whose files are unpacked, built for `init`          *)
(* loaded    the version whose unit file systemd has read                    *)
(* running   the version the service process was started from, or "mixed"    *)
(*           when it runs new files under an old unit                        *)
(* enabled   whether the unit starts at boot                                 *)
(* rc        the runlevel links of the System V script                       *)
(* mask      who masked the unit                                             *)
(* defaults  /etc/default/<name>, which an administrator may delete for good *)
Host == [os       : {"systemd", "sysv", "upstart"},
         files    : Version \cup {None},
         init     : InitSystem,
         loaded   : Version \cup {None},
         running  : Version \cup {None, "mixed"},
         enabled  : BOOLEAN,
         rc       : {"none", "on", "off"},
         mask     : {"none", "own", "admin"},
         account  : BOOLEAN,
         logdir   : BOOLEAN,
         defaults : {"never", "present", "deleted"}]

CleanHost(os) ==
    [os |-> os, files |-> None, init |-> "none", loaded |-> None, running |-> None,
     enabled |-> FALSE, rc |-> "none", mask |-> "none", account |-> FALSE,
     logdir |-> FALSE, defaults |-> "never"]

Ships(h, template) == h.files # None /\ template \in ServiceFiles(h.init)
HasUnit(h) == Ships(h, "systemd.service")

(* The package manager replaces the payload; a deleted conffile stays so.    *)
Unpack(h, version, init) ==
    [h EXCEPT !.files = version, !.init = init,
              !.defaults = IF @ = "never" /\ init # "none" THEN "present" ELSE @]
Delete(h) == [h EXCEPT !.files = None]

MakeAccount(h) == [h EXCEPT !.account = TRUE]
MakeLogdir(h)  == [h EXCEPT !.logdir = @ \/ h.account]   \* owned by the account

Reload(h) == IF h.os = "systemd"
             THEN [h EXCEPT !.loaded = IF HasUnit(h) THEN h.files ELSE None]
             ELSE h

Stop(h) == [h EXCEPT !.running = None]

(* templates/systemd.service: User, ReadWritePaths and EnvironmentFile must  *)
(* all be there.  A unit not yet loaded is read from disk.                   *)
StartUnit(h) ==
    LET read == [h EXCEPT !.loaded = IF @ = None THEN h.files ELSE @]
    IN  IF h.running = None /\ h.mask = "none" /\ HasUnit(h)
        THEN IF h.account /\ h.logdir /\ h.defaults = "present"
             THEN [read EXCEPT !.running = IF read.loaded = h.files THEN h.files ELSE "mixed"]
             ELSE read
        ELSE h

RestartUnit(h) == IF h.mask = "none" /\ HasUnit(h) THEN StartUnit(Stop(h)) ELSE h

(* try-restart: only what runs. *)
TryRestartUnit(h) == IF h.running = None THEN h ELSE RestartUnit(h)

(* preset: an administrator's policy wins, then the package's own, if it     *)
(* ships one; a distribution's default is `disable *`.                       *)
Preset(h, policy, shipped) ==
    IF HasUnit(h) /\ h.mask = "none"
    THEN [h EXCEPT !.enabled = policy = "none" /\ shipped] ELSE h

(* templates/sysv-init makes its own log directory, does without the         *)
(* defaults file, and leaves a process that is already there alone.          *)
StartScript(h) ==
    IF h.rc = "on" /\ h.running = None /\ Ships(h, "sysv-init") /\ h.account
    THEN [h EXCEPT !.running = h.files, !.logdir = TRUE]
    ELSE h

(* templates/upstart.conf sources the defaults file unconditionally. *)
StartJob(h) ==
    IF /\ h.running = None /\ Ships(h, "upstart.conf")
       /\ h.account /\ h.defaults = "present"
    THEN [h EXCEPT !.running = h.files]
    ELSE h

(* The service on its own host, as an administrator or the boot starts it.   *)
StartService(h) == CASE h.os = "systemd" -> StartUnit(h)
                     [] h.os = "sysv"    -> StartScript(h)
                     [] h.os = "upstart" -> StartJob(h)

StartsAtBoot(h) == CASE h.os = "systemd" -> h.enabled /\ h.mask = "none"
                     [] h.os = "sysv"    -> h.rc = "on"
                     [] h.os = "upstart" -> TRUE

(* tmpfiles.d recreates the log directory at boot. *)
Boot(h) ==
    LET fresh == Reload([Stop(h) EXCEPT !.logdir =
                     @ \/ (h.os = "systemd" /\ h.account /\ Ships(h, "tmpfiles.conf"))])
    IN  IF StartsAtBoot(h) THEN StartService(fresh) ELSE fresh
=============================================================================
