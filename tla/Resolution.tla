----------------------------- MODULE Resolution -----------------------------
(* From the command line to a validated configuration: main.rs, cli.rs,      *)
(* run.rs up to the resolution, and core/resolve.rs.  The layers are         *)
(* functions on the keys each of them gives, a key no layer gives is absent, *)
(* and so `flags ++ settings ++ manifest` is what Layers::pick picks from.   *)
EXTENDS Names, Metadata

CONSTANT Requests      \* the invocations considered

VARIABLES request,     \* what is asked, and the project it is asked in
          pc,          \* the step the run is at
          given,       \* the value of each key, from the highest layer that has one
          config,      \* what is resolved so far (ResolvedConfig)
          warnings,    \* what was warned about
          error        \* the field or file the run failed at

resolutionVars == <<request, pc, given, config, warnings, error>>

NoKeys == [key \in {} |-> {}]

(* One layer over another, which has what the first one lacks.               *)
f ++ g == [key \in DOMAIN f \cup DOMAIN g |-> IF key \in DOMAIN f THEN f[key] ELSE g[key]]

(* Options that are refused, and those that only print.                      *)
Removed       == {"no-md5sums", "template-control", "template-preinst"}
Introspection == {"list-tmps", "cat-tmp", "cat-unknown"}

Assignment == {"KEY=value"}    \* the words of a command that are no program
DefaultInstallCommand == <<"npm", " ", "install">>

(* What starts a run: the tool, or a caller of the library's `resolve`, the  *)
(* only one to have a manifest.                                              *)
ResolutionInit ==
    /\ request \in Requests
    /\ \/ request.entry = "cli" /\ pc = "main" /\ given = NoKeys
       \/ /\ request.entry = "library" /\ pc = "install"
          /\ given = request.flags ++ request.settings ++ request.manifest
    /\ config = NoKeys /\ warnings = {} /\ error = "none"

-----------------------------------------------------------------------------
(* What a layer may hold: any key, with a value of the type its field has.   *)
TextKeys == {"package_name", "name", "version", "description", "maintainer", "homepage",
             "license", "install_dir", "user", "group", "executable_name", "daemon", "cli",
             "install_command", "install_binary"}
IsLayer(layer) ==
    /\ \A key \in DOMAIN layer \cap TextKeys : layer[key] \in Seq(STRING)
    /\ "init" \in DOMAIN layer => layer["init"] \in InitSystem
    /\ "dependencies" \in DOMAIN layer =>
          layer["dependencies"] \in Seq([name : STRING, spelling : Spelling \cup {"folded"}])

IsInvocation(r) ==
    /\ r \in [entry : {"cli", "library"}, flags : {r.flags},
              switches : SUBSET (Removed \cup Introspection
                                 \cup {"tool-version", "nodejs", "dry-run"}),
              file : {"absent", "malformed", "present"}, settings : {r.settings},
              unknown : {r.unknown}, manifest : {r.manifest},
              formats : SUBSET {"deb", "rpm", "arch"},
              world : [sde : Int, git : Int, mtimes : SUBSET Int],
              templates : {r.templates}, tree : {r.tree},
              project : {"once", "released", "rebuilt"}]
    /\ IsLayer(r.flags) /\ IsLayer(r.settings) /\ IsLayer(r.manifest)
    /\ r.entry = "cli" => r.manifest = NoKeys
    /\ r.entry = "library" => "arch" \notin DOMAIN r.flags     \* no field of Overrides
                             /\ r.project = "once"             \* only the tool is run again

ASSUME RequestsAssumption == \A r \in Requests : IsInvocation(r)

-----------------------------------------------------------------------------
Given(key)       == key \in DOMAIN given
Or(key, default) == IF Given(key) THEN given[key] ELSE default
Taken(keys)      == Restrict(given, keys \cap DOMAIN given)

Warn(kind, about) == [kind |-> kind, about |-> about]
WarnIf(condition, kind, about) == IF condition THEN {Warn(kind, about)} ELSE {}

Goto(next) == pc' = next /\ UNCHANGED <<request, given, config, warnings, error>>
Fail(field) ==
    pc' = "ended" /\ error' = field /\ UNCHANGED <<request, given, config, warnings>>

(* The checks of a step in order: the first that does not hold ends the run, *)
(* or what was found is added to the configuration.                          *)
Check(field, holds) == [field |-> field, holds |-> holds]
Checked(checks, next, found, heard) ==
    LET bad == {i \in DOMAIN checks : ~checks[i].holds}
    IN  \/ bad # {} /\ Fail(checks[Min(bad)].field)
        \/ /\ bad = {}
           /\ pc' = next /\ config' = config ++ found /\ warnings' = warnings \cup heard
           /\ UNCHANGED <<request, given, error>>

-----------------------------------------------------------------------------
(* main.rs: the version, a removed option or an introspection ends the run   *)
(* before anything is read.                                                  *)
Main ==
    /\ pc = "main"
    /\ \/ "tool-version" \in request.switches /\ Goto("ended")
       \/ /\ "tool-version" \notin request.switches
          /\ request.switches \cap Removed # {} /\ Fail("removed_option")
       \/ /\ request.switches \cap ({"tool-version"} \cup Removed) = {}
          /\ request.switches \cap Introspection # {}
          /\ IF "cat-unknown" \in request.switches THEN Fail("template_name") ELSE Goto("ended")
       \/ /\ request.switches \cap ({"tool-version"} \cup Removed \cup Introspection) = {}
          /\ Goto("load")

LoadManifest ==
    /\ pc = "load"
    /\ IF request.file = "malformed" THEN Fail(".nativepkg") ELSE Goto("overrides")

(* A bug: the settings file outranks the command line.                       *)
OverridesFromSettingsFirst ==
    /\ pc = "overrides" /\ pc' = "install"
    /\ given' = request.settings ++ Restrict(request.flags, DOMAIN request.flags \ {"arch"})
    /\ UNCHANGED <<request, config, warnings, error>>

(* `--arch` stands in for a missing `--architecture`, with a warning.        *)
OverridesFrom ==
    /\ pc = "overrides" /\ pc' = "install"
    /\ LET legacy == "arch" \in DOMAIN request.flags /\ "architecture" \notin DOMAIN request.flags
           current == Restrict(request.flags, DOMAIN request.flags \ {"arch"})
       IN  /\ given' = current
                       ++ (IF legacy THEN [architecture |-> request.flags["arch"]] ELSE NoKeys)
                       ++ request.settings
           /\ warnings' = warnings \cup WarnIf(legacy, "ArchDeprecated", "architecture")
    /\ UNCHANGED <<request, config, error>>

-----------------------------------------------------------------------------
(* core/resolve.rs *)

(* command_binary: the first word that is no assignment.                     *)
CommandBinary(command) ==
    LET words == SelectSeq(command, LAMBDA word : word \notin Blank \cup Assignment)
    IN  IF words = <<>> THEN <<"npm">> ELSE <<Head(words)>>

ResolveInstall ==
    /\ pc = "install"
    /\ LET command == Or("install_command", DefaultInstallCommand)
           binary  == Or("install_binary", CommandBinary(command))
       IN  Checked(<<Check("install_command", SingleLine(command)),
                     Check("install_binary", Token(binary))>>,
                   "unknown_keys",
                   [install_command |-> command, install_binary |-> binary], {})

UnknownKeys ==
    /\ pc = "unknown_keys"
    /\ Checked(<<>>, "package_name", NoKeys,
               {Warn("UnknownSettingKey", key) : key \in request.unknown})

(* Strict when it was given for the purpose, normalised from the manifest.   *)
ResolvePackageName ==
    /\ pc = "package_name"
    /\ \/ /\ Given("package_name")
          /\ Checked(<<Check("package_name", ValidPackageName(given["package_name"]))>>, "version",
                     [package_name |-> given["package_name"]], {})
       \/ ~Given("package_name") /\ ~Given("name") /\ Fail("package_name")
       \/ /\ ~Given("package_name") /\ Given("name")
          /\ LET normalised == NormalizedPackageName(given["name"])
             IN  Checked(<<Check("name", ValidPackageName(normalised))>>, "version",
                         [package_name |-> normalised],
                         WarnIf(normalised # given["name"], "PackageNameNormalised", "name"))

ResolveVersion ==
    /\ pc = "version"
    /\ \/ ~Given("version") /\ Fail("version")
       \/ /\ Given("version")
          /\ LET version == given["version"]
                 mapped  == MappedVersion(version, Or("epoch", NoEpoch))
             IN  Checked(<<Check("version", IsSpec(version)),
                           Check("mapped_version", ValidUpstream(mapped.base))>>,
                         "placement", [version |-> mapped],
                         WarnIf(IsLiteral(version), "VersionNotMapped", "version")
                         \cup WarnIf(HyphensRewritten(version), "VersionHyphensRewritten", "version"))

(* resolve_placement with resolve_account.                                   *)
ResolvePlacement ==
    /\ pc = "placement"
    /\ LET name    == config.package_name
           user    == Or("user", DerivedUnixName(name))
           group   == Or("group", user)
           dir     == Or("install_dir", <<"/", "u">>)
           command == Or("executable_name", name)
       IN  Checked(<<Check("user", ValidUnixName(user)), Check("group", ValidUnixName(group)),
                     Check("install_dir", ValidInstallDir(dir)),
                     Check("executable_name", ValidExecutableName(command))>>,
                   "runtime",
                   [architecture |-> Or("architecture", "all"), install_dir |-> InstallDir(dir),
                    user |-> user, group |-> group, executable_name |-> command],
                   WarnIf(~Given("user") /\ user # name, "UnixNameDerived", "user"))

ResolveRuntime ==
    /\ pc = "runtime"
    /\ LET init == Or("init", "auto")
           cli  == Or("cli", Or("daemon", <<>>))
           entries == (IF Given("daemon") THEN [daemon |-> EntryPoint(given["daemon"])] ELSE NoKeys)
                      ++ (IF Given("daemon") \/ Given("cli") THEN [cli |-> EntryPoint(cli)] ELSE NoKeys)
       IN  Checked(<<Check("no_daemon", init = "none" \/ Given("daemon")),
                     Check("daemon", Given("daemon") => ValidEntryPoint(given["daemon"])),
                     Check("cli", Given("daemon") \/ Given("cli") => ValidEntryPoint(cli))>>,
                   "texts",
                   [init |-> init, install_strategy |-> Or("install_strategy", "auto")] ++ entries,
                   {})

(* The free texts, and what is taken as it is.                               *)
ResolveTexts ==
    /\ pc = "texts"
    /\ LET dependencies == WithNodejs(Or("dependencies", <<>>), "nodejs" \in request.switches)
       IN  Checked(<<Check("no_description", Given("description")),
                     Check("no_maintainer", Given("maintainer")),
                     Check("description", Given("description") => Printable(given["description"])),
                     Check("maintainer", Given("maintainer") => SingleLine(given["maintainer"])),
                     Check("homepage", Given("homepage") => Token(given["homepage"])),
                     Check("license", Given("license") => SingleLine(given["license"])),
                     Check("dependencies",
                           \A i \in DOMAIN dependencies : dependencies[i].spelling # "folded")>>,
                   "plan",
                   Taken({"description", "maintainer", "homepage", "license", "triggers_file"})
                   ++ [dependencies |-> dependencies],
                   {})

Resolve == \/ ResolveInstall \/ UnknownKeys \/ ResolvePackageName \/ ResolveVersion
           \/ ResolvePlacement \/ ResolveRuntime \/ ResolveTexts

ReadRequest == Main \/ LoadManifest \/ OverridesFrom
=============================================================================
