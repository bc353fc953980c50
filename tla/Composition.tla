---------------------------- MODULE Composition ----------------------------
(* What goes into a package for each init system and install strategy: the   *)
(* generated service files (core/build.rs), and the snippets the maintainer  *)
(* scripts of each format are composed from, in order.                       *)
EXTENDS Sequences

InitSystem == {"auto", "systemd", "sysv", "upstart", "none"}

(* `auto` fans out to systemd and System V; Upstart only when named. *)
Uses(wanted, init) == init \in {"auto", wanted}

If(condition, names) == IF condition THEN names ELSE <<>>
ServiceOnly(init, names) == If(init # "none", names)

(* build.rs service_files: the templates rendered into the payload. *)
ServiceFiles(init) ==
    {"executable"}
    \cup (IF init = "none" THEN {} ELSE {"default"})
    \cup (IF Uses("systemd", init) THEN {"systemd.service", "tmpfiles.conf"} ELSE {})
    \cup (IF Uses("sysv", init) THEN {"sysv-init"} ELSE {})
    \cup (IF init = "upstart" THEN {"upstart.conf"} ELSE {})

-----------------------------------------------------------------------------
(* deb/scripts.rs *)

DebPostinst(init, strategy) ==
    If(strategy = "npm-install", <<"postinst-npm-install">>)
    \o ServiceOnly(init, <<"postinst-account", "postinst-logdir">>)
    \o If(Uses("systemd", init), <<"postinst-systemd-enable", "postinst-systemd-restart">>)
    \o If(Uses("sysv", init), <<"postinst-sysv">>)
    \o If(init = "upstart", <<"postinst-upstart">>)

DebPrerm(init) ==
    If(Uses("systemd", init), <<"prerm-systemd-restart">>)
    \o If(Uses("sysv", init), <<"prerm-sysv">>)
    \o If(init = "upstart", <<"prerm-upstart">>)

(* The reload comes last: the unit file is gone by then. *)
DebPostrm(init) ==
    If(Uses("systemd", init), <<"postrm-systemd">>)
    \o If(Uses("sysv", init), <<"postrm-sysv">>)
    \o ServiceOnly(init, <<"postrm-purge">>)
    \o If(Uses("systemd", init), <<"postrm-systemd-reload">>)

-----------------------------------------------------------------------------
(* rpm/scriptlets.rs: no Upstart *)

RpmUsesPreset(init) == init \in {"auto", "systemd"}

RpmPre(init) == ServiceOnly(init, <<"pre-account">>)

(* A bug: start the service before its log directory is there. *)
RpmPostStartFirst(init, strategy) ==
    If(strategy = "npm-install", <<"post-npm-install">>)
    \o If(RpmUsesPreset(init), <<"post-systemd">>)
    \o ServiceOnly(init, <<"post-logdir">>)
    \o If(Uses("sysv", init), <<"post-sysv">>)

RpmPost(init, strategy) ==
    If(strategy = "npm-install", <<"post-npm-install">>)
    \o ServiceOnly(init, <<"post-logdir">>)
    \o If(RpmUsesPreset(init), <<"post-systemd">>)
    \o If(Uses("sysv", init), <<"post-sysv">>)

RpmPreun(init) ==
    If(Uses("systemd", init), <<"preun-systemd">>)
    \o If(Uses("sysv", init), <<"preun-sysv">>)

RpmPostun(init) ==
    If(Uses("systemd", init), <<"postun-systemd">>)
    \o ServiceOnly(init, <<"postun-purge">>)

-----------------------------------------------------------------------------
(* arch/install.rs: systemd or nothing *)

ArchUsesPreset(init) == init \in {"auto", "systemd"}

ArchPostInstall(init, strategy) ==
    If(strategy = "npm-install", <<"npm-install">>)
    \o If(ArchUsesPreset(init),
          <<"account", "logdir", "systemd-reload", "systemd-enable", "systemd-start">>)

(* A bug: restart without the reload. *)
ArchPostUpgradeNoReload(init) == If(ArchUsesPreset(init), <<"systemd-restart">>)
ArchPostUpgrade(init) ==
    If(ArchUsesPreset(init), <<"systemd-reload", "systemd-restart">>)

ArchPreRemove(init) == If(ArchUsesPreset(init), <<"systemd-stop">>)

ArchPostRemove(init) == If(ArchUsesPreset(init), <<"systemd-reload", "purge">>)
=============================================================================
