---------------------------- MODULE Preparation -----------------------------
(* One invocation from its command line to the words in its packages, and    *)
(* what becomes of them: the run of module Resolution, then the plan's       *)
(* identity and stamp (core/build.rs, core/timestamp.rs), the generated      *)
(* files, metadata and dependencies of each format (run.rs build_each,       *)
(* format.rs), a machine that installs and upgrades, and a second build of   *)
(* the same project.                                                         *)
EXTENDS Resolution, Templates

CONSTANT Releases      \* the versions a project goes through

ASSUME ReleasesAssumption == Releases \subseteq [version : Seq(STRING), epoch : Int]

VARIABLES pending,     \* the formats still to be built
          packages,    \* what each built one carries
          failed,      \* the formats that failed
          installed,   \* what the machine has: nothing yet, or [format, release, version, warned]
          earlier      \* the packages of the build before this one

vars == <<resolutionVars, pending, packages, failed, installed, earlier>>
buildVars == <<pending, packages, failed, installed, earlier>>

Formats == {"deb", "rpm", "arch"}
Unset     == -1
Malformed == -2

Init == /\ ResolutionInit
        /\ pending = <<>> /\ packages = NoKeys /\ failed = {}
        /\ installed = NoKeys /\ earlier = NoKeys

-----------------------------------------------------------------------------
(* core/timestamp.rs: SOURCE_DATE_EPOCH, else the commit, else the newest    *)
(* source; never the clock.                                                  *)

Newest(mtimes) == Max(mtimes \cup {0})

(* A bug: the newest source outranks the commit.                             *)
StampNewestFirst(world) ==
    IF world.sde # Unset THEN world.sde ELSE Newest(world.mtimes)

Stamp(world) ==
    CASE world.sde # Unset -> world.sde
      [] world.sde = Unset /\ world.git # Unset -> world.git
      [] OTHER -> Newest(world.mtimes)

StampedBy(world) ==
    CASE world.sde # Unset -> "SourceDateEpoch"
      [] world.sde = Unset /\ world.git # Unset -> "GitCommit"
      [] OTHER -> "NewestSourceMtime"

(* A bug: only Arch is asked. *)
UnsupportedOnArch(format, init) == format = "arch" /\ init \in {"sysv", "upstart"}

(* format.rs unsupported *)
Unsupported(format, init) ==
    \/ format = "arch" /\ init \in {"sysv", "upstart"}
    \/ format = "rpm" /\ init = "upstart"

(* build::plan, as far as the identity and the stamp go, and the warnings    *)
(* about what a format cannot honour.                                        *)
Plan ==
    /\ pc = "plan"
    /\ LET world   == request.world
           formats == If("deb" \in request.formats, <<"deb">>)
                      \o If("rpm" \in request.formats, <<"rpm">>)
                      \o If("arch" \in request.formats, <<"arch">>)
       IN  /\ Checked(<<Check("SOURCE_DATE_EPOCH", world.sde # Malformed),
                        Check("no_timestamp", StampedBy(world) = "NewestSourceMtime"
                                                  => world.mtimes # {}),
                        Check("no_synopsis", HasSynopsis(config.description)),
                        Check("architecture", config.architecture \in DOMAIN Machine)>>,
                      "build",
                      [synopsis |-> Synopsis(config.description), body |-> Body(config.description),
                       machine |-> Machine[config.architecture],
                       stamp |-> Stamp(world), stamped_by |-> StampedBy(world)],
                      {Warn("Unsupported", f) : f \in {g \in request.formats :
                                                          Unsupported(g, config.init)}})
           /\ pending' = IF pc' = "build" THEN formats ELSE <<>>
    /\ UNCHANGED <<packages, failed, installed, earlier>>

-----------------------------------------------------------------------------
VariablesFor(format) ==
    Variables(config, VersionOf(format, config.version), ArchitectureOf(format, config.machine))
Generated(format) ==
    Generate(ServiceFiles(config.init), request.templates, VariablesFor(format))

FieldOf(format) == Field(format, config.init, config.install_strategy, config.dependencies)

Members(format) ==
    <<".PKGINFO">> \o (IF ArchPostInstall(config.init, config.install_strategy) = <<>> THEN <<>>
                       ELSE <<".INSTALL">>)

(* What the package of a format says about itself.                           *)
Package(format) ==
    [file      |-> FileName(format, config),
     generated |-> [name \in ServiceFiles(config.init) |-> Generated(format)[name].text],
     depends   |-> FieldOf(format),
     version   |-> config.version,
     stamps    |-> EntryStamps(format, config.stamp, request.world.mtimes),
     metadata  |-> CASE format = "deb"  -> [control |-> Control(config, FieldOf("deb")),
                                            changelog |-> Rfc2822(config.stamp),
                                            copyright |-> CopyrightYear(config.stamp)]
                     [] format = "rpm"  -> Header(config, FieldOf("rpm"))
                     [] format = "arch" -> [pkginfo |-> Pkginfo(config, FieldOf("arch")),
                                            mtree |-> Mtree(ManifestRecords(Members("arch"),
                                                                            request.tree))]]

TemplatesRender(format) ==
    \A name \in ServiceFiles(config.init) : Generated(format)[name].error = "none"

CanBuild(format) ==
    /\ TemplatesRender(format)
    /\ format = "deb" /\ "triggers_file" \in DOMAIN config => config.triggers_file = "readable"

DryRun ==
    /\ pc = "build" /\ "dry-run" \in request.switches
    /\ IF TemplatesRender(Head(pending)) THEN Goto("ended") ELSE Fail("template")
    /\ UNCHANGED buildVars

(* A bug: a format that failed is taken for built as well.                   *)
BuildFormatAnyway ==
    /\ pc = "build" /\ "dry-run" \notin request.switches /\ pending # <<>>
    /\ packages' = packages ++ [f \in {Head(pending)} |-> Package(f)]
    /\ failed' = IF CanBuild(Head(pending)) THEN failed ELSE failed \cup {Head(pending)}
    /\ pending' = Tail(pending)
    /\ UNCHANGED <<resolutionVars, installed, earlier>>

(* One format after the other; a failure is that format's alone.             *)
BuildFormat ==
    /\ pc = "build" /\ "dry-run" \notin request.switches /\ pending # <<>>
    /\ LET format == Head(pending)
       IN  \/ /\ CanBuild(format)
              /\ packages' = packages ++ [f \in {format} |-> Package(f)] /\ UNCHANGED failed
           \/ /\ ~CanBuild(format)
              /\ failed' = failed \cup {format} /\ UNCHANGED packages
    /\ pending' = Tail(pending)
    /\ UNCHANGED <<resolutionVars, installed, earlier>>

Summarise ==
    /\ pc = "build" /\ "dry-run" \notin request.switches /\ pending = <<>>
    /\ IF failed = {} THEN Goto("ended") ELSE Fail("formats")
    /\ UNCHANGED buildVars

-----------------------------------------------------------------------------
(* The world around the tool *)

Done == pc = "ended" /\ error = "none" /\ packages # NoKeys

Release == [version |-> request.flags["version"],
            epoch |-> IF "epoch" \in DOMAIN request.flags THEN request.flags["epoch"] ELSE NoEpoch]

(* Later in the order the project itself goes by.                            *)
Later(r, s) == \/ Max({r.epoch, 0}) < Max({s.epoch, 0})
               \/ Max({r.epoch, 0}) = Max({s.epoch, 0}) /\ SemverLess(r.version, s.version)

(* The run warned that the order of this version may be lost.                *)
Told(kind) == \E warning \in warnings : warning.kind = kind
Warned == Told("VersionHyphensRewritten") \/ Told("VersionNotMapped")

(* A package manager installs what is not installed yet, and upgrades to     *)
(* what it takes to be newer.                                                *)
Install(format) ==
    /\ Done /\ request.project = "released" /\ format \in DOMAIN packages
    /\ \/ installed = NoKeys
       \/ /\ installed # NoKeys /\ installed["format"] = format
          /\ PackageLess(format, installed["version"], packages[format].version)
    /\ installed' = [format |-> format, release |-> Release,
                     version |-> packages[format].version, warned |-> Warned]
    /\ UNCHANGED <<resolutionVars, pending, packages, failed, earlier>>

Rerun(next) ==
    /\ request' = next /\ pc' = "main" /\ given' = NoKeys /\ config' = NoKeys
    /\ warnings' = {} /\ error' = "none" /\ packages' = NoKeys /\ failed' = {}
    /\ UNCHANGED <<pending, installed>>

(* The project goes on to a later version.                                   *)
NextRelease ==
    /\ Done /\ request.project = "released"
    /\ \E r \in Releases :
          /\ Later(Release, r)
          /\ Rerun([request EXCEPT !.flags =
                       (IF r.epoch = NoEpoch THEN [version |-> r.version] ELSE r) ++ @])
    /\ UNCHANGED earlier

(* The same project is built again, from a checkout made later.              *)
Rebuild ==
    /\ Done /\ request.project = "rebuilt" /\ earlier = NoKeys
    /\ Rerun([request EXCEPT !.world.mtimes = {mtime + 1 : mtime \in @}])
    /\ earlier' = packages

-----------------------------------------------------------------------------
Tool == \/ (ReadRequest \/ Resolve) /\ UNCHANGED buildVars
        \/ Plan \/ DryRun \/ BuildFormat \/ Summarise

Next == Tool \/ NextRelease \/ Rebuild \/ \E format \in Formats : Install(format)

Spec == Init /\ [][Next]_vars

-----------------------------------------------------------------------------
Steps == {"main", "load", "overrides", "install", "unknown_keys", "package_name", "version",
          "placement", "runtime", "texts", "plan", "build", "ended"}

(* Types, and what every state of a run shares: a format is pending, built   *)
(* or failed, one of the three, and nothing is built before all is resolved. *)
TypeOK ==
    /\ IsInvocation(request)
    /\ pc \in Steps
    /\ DOMAIN given \subseteq DOMAIN request.flags \cup DOMAIN request.settings
                           \cup DOMAIN request.manifest \cup {"architecture"}
    /\ failed \cap DOMAIN packages = {} /\ ToSet(pending) \cap (failed \cup DOMAIN packages) = {}
    /\ pc = "build" => ToSet(pending) \cup failed \cup DOMAIN packages = request.formats
    /\ packages # NoKeys => pc \in {"build", "ended"} /\ "stamp" \in DOMAIN config

-----------------------------------------------------------------------------
(* What the configuration promises *)

(* The value of the highest layer that has one: what the user meant.         *)
Meant(key) ==
    IF key \in DOMAIN request.flags THEN request.flags[key]
    ELSE IF key \in DOMAIN request.settings THEN request.settings[key] ELSE request.manifest[key]
IsMeant(key) ==
    key \in DOMAIN request.flags \cup DOMAIN request.settings \cup DOMAIN request.manifest

(* A run fails at a field only because of what the user gave for it, in the  *)
(* layer that counts: a default the tool derives is always valid, a value of *)
(* a lower layer is never looked at (resolve.rs, "strict when explicit,      *)
(* derived otherwise"; version.rs:99, "mapping is total").                   *)
BlameIsDeserved ==
    LET deserved(key, Valid(_)) == error = key => IsMeant(key) /\ ~Valid(Meant(key))
    IN  /\ deserved("package_name", ValidPackageName) \/ (~IsMeant("package_name") /\ ~IsMeant("name"))
        /\ deserved("user", ValidUnixName) /\ deserved("group", ValidUnixName)
        /\ deserved("install_dir", ValidInstallDir)
        /\ deserved("executable_name", ValidExecutableName)
        /\ deserved("daemon", ValidEntryPoint)
        /\ error = "cli" => ~ValidEntryPoint(Meant("cli"))
        /\ deserved("maintainer", SingleLine)
        /\ deserved("description", Printable)
        /\ deserved("install_command", SingleLine)
        /\ error # "mapped_version"
        /\ error = "architecture" => IsMeant("architecture") \/ IsMeant("arch")

(* Once resolved, every name fits the strict grammar of what reads it, and   *)
(* unless a warning was given it is the name, or the version, that was       *)
(* meant: resolution changes nothing the user is not told of.                *)
Unmapped(base) == [i \in DOMAIN base |-> IF base[i] = "~" THEN "-" ELSE base[i]]
NothingChangesSilently ==
    "stamp" \in DOMAIN config =>
        /\ ValidPackageName(config.package_name)
        /\ \/ config.package_name = Meant(IF IsMeant("package_name") THEN "package_name" ELSE "name")
           \/ Told("PackageNameNormalised")
        /\ ValidUnixName(config.user) /\ ValidUnixName(config.group)
        /\ \/ config.user = (IF IsMeant("user") THEN Meant("user") ELSE config.package_name)
           \/ Told("UnixNameDerived")
        /\ \/ Unmapped(config.version.base) = Meant("version")
           \/ Told("VersionHyphensRewritten") \/ Told("VersionNotMapped")
        /\ config.install_dir = InstallDir(config.install_dir)
        /\ "arch" \in DOMAIN request.flags /\ config.architecture = request.flags["arch"] =>
              Told("ArchDeprecated") \/ request.flags["arch"] = Meant("architecture")

(* A service was asked for: a package whose scripts never start it comes     *)
(* with a warning (run.rs: "so the user hears it rather than getting a       *)
(* package that installs cleanly and never starts its service").             *)
Starters == {"postinst-systemd-restart", "postinst-sysv", "postinst-upstart",
             "post-systemd", "post-sysv", "systemd-start"}
ServiceOrWarning ==
    \A format \in DOMAIN packages :
        config.init # "none" =>
            \/ Composed(format, config.init, config.install_strategy) \cap Starters # {}
            \/ Warn("Unsupported", format) \in warnings

-----------------------------------------------------------------------------
(* What the packages promise *)

(* Whatever the init setting and the user's own list, a package depends on   *)
(* every package whose commands its scripts call, rpm's in time for %pre;    *)
(* what the user declared stays in its place, and in a deb as it is spelt.   *)
(* (An alternative to such a package the user has to answer for.)            *)
DependenciesSuffice ==
    \A format \in DOMAIN packages :
        LET field    == packages[format].depends
            declared == config.dependencies
        IN  /\ \A snippet \in Composed(format, config.init, config.install_strategy)
                                 \cap DOMAIN Provider :
                  \E i \in DOMAIN field :
                      /\ field[i].name = Provider[snippet]
                      /\ snippet = "pre-account" => field[i].pre
            /\ \A i \in DOMAIN declared :
                  /\ i \in DOMAIN field /\ field[i].name = declared[i].name
                  /\ format = "deb" => field[i].spelling = declared[i].spelling

(* Each format's metadata, read by the rules of its readers, gives back what *)
(* was resolved: no value starts a field of its own, ends the paragraph or   *)
(* hides what follows.  (A line that is a lone dot reads as an empty one.)   *)
ExpectedBody ==
    IF Trimmed(config.body) = <<>> THEN << <<"default text">> >>
    ELSE [i \in DOMAIN Lines(config.body) |->
             LET line == TrimmedEnd(Lines(config.body)[i]) IN IF line = <<".">> THEN <<>> ELSE line]

ControlReadsBack(package) ==
    LET fields == ParsedControl(package.metadata.control)
        one(name, value) == ValuesOf(fields, name) = <<value>>
    IN  /\ one("Package: ", config.package_name) /\ one("Version: ", config.version.deb)
        /\ one("Maintainer: ", config.maintainer) /\ one("Description: ", config.synopsis)
        /\ Last(fields).more = ExpectedBody
        /\ {fields[i].name : i \in DOMAIN fields} \subseteq FieldNames
        /\ Len(fields) = 5 + (IF "homepage" \in DOMAIN config THEN 1 ELSE 0)
                           + (IF package.depends = <<>> THEN 0 ELSE 1)

PkginfoReadsBack(package) ==
    LET fields == ParsedPkginfo(package.metadata.pkginfo)
        one(name, value) == ValuesOf(fields, name) = <<value>>
    IN  /\ one("pkgname = ", config.package_name) /\ one("pkgdesc = ", config.synopsis)
        /\ one("packager = ", config.maintainer)
        /\ ValuesOf(fields, "depend = ")
               = [i \in DOMAIN package.depends |-> <<package.depends[i].name>>]

MetadataReadsBack ==
    /\ "deb" \in DOMAIN packages => ControlReadsBack(packages["deb"])
    /\ "arch" \in DOMAIN packages => PkginfoReadsBack(packages["arch"])

(* What is computed in place of being copied is right by an independent      *)
(* reading: .MTREE's defaults and exceptions say of every entry its own kind *)
(* and mode, whatever comes before it, and the changelog's date is the day   *)
(* of the stamp.                                                             *)
ComputedReadsBack ==
    /\ "arch" \in DOMAIN packages =>
          ParsedMtree(packages["arch"].metadata.mtree)
              = ManifestRecords(Members("arch"), request.tree)
    /\ "deb" \in DOMAIN packages =>
          LET changelog == packages["deb"].metadata.changelog
          IN  /\ DayOf(changelog.date) = config.stamp
              /\ changelog.date.month \in 1..12 /\ changelog.date.day \in 1..31

(* The directives systemd finds in a unit, a line each.                      *)
Directives(unit) == LET lines == UnitLines(unit) IN {Head(lines[i]) : i \in DOMAIN lines}

UnitDirectives == Directives(BUILTIN["systemd.service"])

(* A value that goes into a generated file stays a value: it adds no line,   *)
(* leaves no placeholder that was not in it, and its reader gives it back:   *)
(* the shell a string, systemd a unit with the directives of its template,   *)
(* but for a synopsis that ends in a backslash, which joins the next line    *)
(* (template.rs: "never rescanned"; text.rs: "a `"` in the description ends  *)
(* a shell string").                                                         *)
WordsStayData ==
    \A format \in DOMAIN packages :
        \A name \in DOMAIN packages[format].generated \ DOMAIN request.templates :
            LET text == packages[format].generated[name]
                data(token) == token \in ToSet(config.synopsis) \cup ToSet(config.maintainer)
                plain(value) == [escaped |-> FALSE, active |-> FALSE, text |-> value]
            IN  /\ Len(Lines(text)) = Len(Lines(BUILTIN[name]))
                /\ "{{" \in ToSet(text) => data("{{")
                /\ name = "systemd.service" =>
                      /\ Lines(text)[1] = <<"Description=">> \o config.synopsis
                      /\ \/ Last(config.synopsis) = "\\"
                         \/ Directives(text) = UnitDirectives
                /\ name = "sysv-init" =>
                      ShellValue(text, "DESCRIPTION=") = plain(config.synopsis)
                /\ name = "upstart.conf" =>
                      ShellValue(text, "author ") = plain(config.maintainer)

(* Two builds of one commit, or under one SOURCE_DATE_EPOCH, are the same    *)
(* package, checked out when they may be; an rpm, but for the stamps of      *)
(* sources that were older than that (rpm/mod.rs:209).                       *)
RebuildsAgree ==
    earlier # NoKeys /\ Done /\ config.stamped_by # "NewestSourceMtime" =>
        /\ DOMAIN packages = DOMAIN earlier
        /\ \A format \in DOMAIN packages :
              \/ packages[format] = earlier[format]
              \/ /\ format = "rpm" /\ \E mtime \in request.world.mtimes : mtime - 1 < config.stamp
                 /\ [packages["rpm"] EXCEPT !.stamps = {}] = [earlier["rpm"] EXCEPT !.stamps = {}]

-----------------------------------------------------------------------------
(* A machine that has a release upgrades to every later one, unless a        *)
(* warning said that the order may be lost, or rpm meets a number where the  *)
(* other release has a word.                                                 *)
UpgradeDue(format) ==
    /\ Done /\ installed # NoKeys /\ installed["format"] = format /\ format \in DOMAIN packages
    /\ ~Warned /\ ~installed["warned"] /\ Later(installed["release"], Release)
Upgrades(format) == PackageLess(format, installed["version"], packages[format].version)

UpgradesArrive ==
    /\ UpgradeDue("deb") => Upgrades("deb")
    /\ UpgradeDue("rpm") =>
          Upgrades("rpm") \/ NumberMeetsWord(installed["release"].version, Release.version)
    /\ UpgradeDue("arch") =>
          \/ Upgrades("arch")
          \/ Pre(installed["release"].version) # <<>> \/ Pre(Release.version) # <<>>

(* The same for Arch: version.rs:5, "a machine on the pre-release never      *)
(* upgrades", is what the mapping is there to prevent.                       *)
ArchUpgradesArrive == UpgradeDue("arch") => Upgrades("arch")
=============================================================================
