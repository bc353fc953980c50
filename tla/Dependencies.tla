---------------------------- MODULE Dependencies ----------------------------
(* The dependency field of each format: what the user declared, and what the *)
(* composed maintainer scripts call (deb/scripts.rs and rpm/scriptlets.rs    *)
(* required_packages, format.rs with_dependencies, rpm/mod.rs assemble).     *)
EXTENDS Composition, SequencesExt

(* An entry of the comma-separated list names a package, alone ("bare"),     *)
(* with a version constraint after a space, with one "tight" behind it, or   *)
(* with an "alternative" to it.                                              *)
Spelling == {"bare", "versioned", "tight", "alternative"}
Entry(name, spelling) == [name |-> name, spelling |-> spelling]

DebScripts(i, s) == {DebPostinst(i, s), DebPrerm(i), DebPostrm(i)}
RpmScripts(i, s) == {RpmPre(i), RpmPost(i, s), RpmPreun(i), RpmPostun(i)}
ArchScripts(i, s) == {ArchPostInstall(i, s), ArchPostUpgrade(i), ArchPreRemove(i), ArchPostRemove(i)}

Composed(f, i, s) ==
    UNION {ToSet(script) : script \in CASE f = "deb"  -> DebScripts(i, s)
                                        [] f = "rpm"  -> RpmScripts(i, s)
                                        [] f = "arch" -> ArchScripts(i, s)}

DebRequired(i, s) ==
    LET used(names) == names \cap Composed("deb", i, s) # {}
    IN  If(used({"postinst-account", "postrm-purge"}), <<Entry("adduser", "bare")>>)
        \o If(used({"postinst-systemd-enable", "postinst-systemd-restart",
                    "prerm-systemd-restart", "postrm-systemd"}),
              <<Entry("init-system-helpers", "versioned")>>)

(* A bug: the account's snippet was forgotten. *)
RpmRequiredSystemd(i, s) ==
    If("post-systemd" \in Composed("rpm", i, s), <<Entry("systemd", "bare")>>)

RpmRequired(i, s) ==
    LET used(names) == names \cap Composed("rpm", i, s) # {}
    IN  If(used({"pre-account", "postun-purge"}), <<Entry("shadow-utils", "bare")>>)
        \o If(used({"post-systemd", "preun-systemd", "postun-systemd"}),
              <<Entry("systemd", "bare")>>)

(* Arch's scripts call nothing outside the base system: no merging there.    *)
Required(f, i, s) ==
    CASE f = "deb" -> DebRequired(i, s)
      [] f = "rpm" -> RpmRequired(i, s)
      [] f = "arch" -> <<>>

(* resolve_dependencies *)
WithNodejs(user, nodejs) == If(nodejs, <<Entry("nodejs", "bare")>>) \o user

(* The entry's first word is compared with the whole requirement. *)
NamesPackage(entry, package) ==
    package.spelling = "bare" /\ entry.spelling # "tight" /\ entry.name = package.name

Merged(declared, required) ==
    FoldLeft(LAMBDA merged, package :
                 IF \E i \in DOMAIN merged : NamesPackage(merged[i], package)
                 THEN merged ELSE Append(merged, package),
             declared, required)

(* deb keeps each entry as it is written; rpm and arch keep the bare names,  *)
(* and rpm marks what %pre calls.                                            *)
Field(format, init, strategy, declared) ==
    LET merged == Merged(declared, Required(format, init, strategy))
    IN  [i \in DOMAIN merged |->
            [name |-> merged[i].name,
             spelling |-> IF format = "deb" THEN merged[i].spelling ELSE "bare",
             pre |-> format = "rpm" /\ merged[i].name = "shadow-utils"]]

-----------------------------------------------------------------------------
(* The package behind the commands each snippet calls without asking whether *)
(* they are there.                                                           *)
Adduser       == {"postinst-account", "postrm-purge"}
SystemHelpers == {"postinst-systemd-enable", "postinst-systemd-restart",
                  "prerm-systemd-restart", "postrm-systemd"}
ShadowUtils   == {"pre-account", "postun-purge"}
Systemd       == {"post-systemd", "preun-systemd", "postun-systemd"}

Provider == [snippet \in Adduser \cup SystemHelpers \cup ShadowUtils \cup Systemd |->
                CASE snippet \in Adduser       -> "adduser"
                  [] snippet \in SystemHelpers -> "init-system-helpers"
                  [] snippet \in ShadowUtils   -> "shadow-utils"
                  [] snippet \in Systemd       -> "systemd"]
=============================================================================
