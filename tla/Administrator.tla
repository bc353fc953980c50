--------------------------- MODULE Administrator ----------------------------
(* What happens on the target machine beside the package manager: the        *)
(* administrator handles the service with the init system's own commands,    *)
(* and the machine reboots.  `admin` keeps the decisions that stand.         *)
EXTENDS ServiceHost

CONSTANTS AdminActs,   \* which of these happen
          Builds       \* the init settings a package may be built with, per version

ASSUME BuildsAssumption == Builds \subseteq [Version -> InitSystem]

VARIABLES host,   \* the machine
          todo,   \* what the package manager still does in this operation
          admin   \* the administrator's decisions

(* disabled  took the service out of the boot                                *)
(* masked    masked the unit                                                 *)
(* off       stopped the service, and did not start it since                 *)
(* stopped   the same, until anything started it                             *)
Decisions == [disabled : BOOLEAN, masked : BOOLEAN, off : BOOLEAN, stopped : BOOLEAN]
NoDecision == [disabled |-> FALSE, masked |-> FALSE, off |-> FALSE, stopped |-> FALSE]

Idle == todo = <<>>
Does(act) == act \in AdminActs /\ host.files # None

(* Nobody starts or enables a service whose removal is under way. *)
Removing == \E i \in DOMAIN todo : todo[i].do = "delete"

(* Whatever runs is no longer stopped. *)
Seen(h) == [admin EXCEPT !.stopped = @ /\ h.running = None]
SeenByHand(h) == [Seen(h) EXCEPT !.off = @ /\ h.running = None]

(* An Upstart job is always enabled: overrides are left out. *)
Enabled(h) == IF h.os = "systemd" THEN h.enabled
              ELSE h.rc = "on" /\ Ships(h, "sysv-init")

Disable(now) ==
    /\ Does("disable") /\ Enabled(host)
    /\ LET h == IF host.os = "systemd" THEN [host EXCEPT !.enabled = FALSE]
                ELSE [host EXCEPT !.rc = "off"]
       IN  /\ host' = IF now THEN Stop(h) ELSE h
           /\ admin' = [admin EXCEPT !.disabled = TRUE, !.off = host'.running = None,
                                     !.stopped = @ \/ now]

Enable ==
    /\ Does("enable") /\ ~Enabled(host) /\ ~Removing
    /\ IF host.os = "systemd" THEN HasUnit(host)
       ELSE host.rc = "off" /\ Ships(host, "sysv-init")
    /\ host' = IF host.os = "systemd" THEN [host EXCEPT !.enabled = TRUE]
               ELSE [host EXCEPT !.rc = "on"]
    /\ admin' = [admin EXCEPT !.disabled = FALSE, !.stopped = host.running = None]

StopByHand ==
    /\ Does("stop") /\ host.running # None
    /\ host' = Stop(host)
    /\ admin' = [admin EXCEPT !.off = TRUE, !.stopped = TRUE]

StartByHand ==
    /\ Does("start") /\ ~Removing
    /\ host' = StartService(host) /\ host' # host
    /\ admin' = SeenByHand(host')

(* systemctl mask --now *)
Mask ==
    /\ Does("mask") /\ host.os = "systemd" /\ host.mask # "admin"
    /\ host' = [Stop(host) EXCEPT !.mask = "admin"]
    /\ admin' = [admin EXCEPT !.masked = TRUE, !.off = TRUE, !.stopped = TRUE]

Unmask ==
    /\ Does("unmask") /\ host.mask = "admin"
    /\ host' = [host EXCEPT !.mask = "none"]
    /\ admin' = [admin EXCEPT !.masked = FALSE]

DeleteDefaults ==
    /\ Does("delete-defaults") /\ host.defaults = "present"
    /\ host' = [host EXCEPT !.defaults = "deleted"]
    /\ UNCHANGED admin

Reboot ==
    /\ "reboot" \in AdminActs /\ Idle
    /\ host' = Boot(host)
    /\ admin' = SeenByHand(host')

Administer ==
    /\ \/ (\E now \in BOOLEAN : Disable(now)) \/ Enable \/ StopByHand \/ StartByHand
       \/ Mask \/ Unmask \/ DeleteDefaults \/ Reboot
    /\ UNCHANGED todo
=============================================================================
