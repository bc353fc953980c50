------------------------- MODULE Preparation_proofs -------------------------
(* What a run promises from its command line to its packages, for any        *)
(* invocations, releases and limits.                                         *)
EXTENDS Preparation, Names_proofs

-----------------------------------------------------------------------------
(* Layers.                                                                   *)

(* One function over another is a function that has the keys of both.        *)
LEMMA LayerOver ==
    ASSUME NEW f, NEW g
    PROVE  /\ DOMAIN (f ++ g) = DOMAIN f \cup DOMAIN g
           /\ \A key \in DOMAIN f : (f ++ g)[key] = f[key]
           /\ \A key \in DOMAIN g \ DOMAIN f : (f ++ g)[key] = g[key]
           /\ f ++ g = [key \in DOMAIN (f ++ g) |-> (f ++ g)[key]]
  BY DEF ++

(* No keys at all.                                                           *)
LEMMA NothingGiven ==
    DOMAIN NoKeys = {} /\ NoKeys = [key \in DOMAIN NoKeys |-> NoKeys[key]]
  BY DEF NoKeys

(* A run of the checks of a step fails at the first that does not hold, and  *)
(* else adds what was found.                                                 *)
LEMMA ChecksEnd ==
    ASSUME NEW n \in Nat, NEW checks, DOMAIN checks = 1..n, NEW next, NEW found, NEW heard,
           Checked(checks, next, found, heard)
    PROVE  \/ /\ pc' = "ended" /\ UNCHANGED <<request, given, config, warnings>>
              /\ \E i \in 1..n : /\ ~checks[i].holds /\ error' = checks[i].field
                                 /\ \A j \in 1..n : j < i => checks[j].holds
           \/ /\ \A i \in 1..n : checks[i].holds
              /\ pc' = next /\ config' = config ++ found /\ warnings' = warnings \cup heard
              /\ UNCHANGED <<request, given, error>>
<1> DEFINE bad == {i \in DOMAIN checks : ~checks[i].holds}
<1>1. CASE bad = {}
  BY <1>1 DEF Checked
<1>2. CASE bad # {}
  <2>1. bad \subseteq Nat
    OBVIOUS
  <2>2. PICK i : i = Min(bad) /\ i \in bad /\ \A j \in bad : i <= j
    BY <1>2, <2>1, LeastOf
  <2>3. pc' = "ended" /\ UNCHANGED <<request, given, config, warnings>> /\ error' = checks[i].field
    BY <1>2, <2>2 DEF Checked, Fail
  <2>4. i \in 1..n /\ ~checks[i].holds
    BY <2>2
  <2>5. ASSUME NEW j \in 1..n, j < i PROVE checks[j].holds
    BY <2>2, <2>4, <2>5
  <2> QED
    BY <2>3, <2>4, <2>5
<1> QED
  BY <1>1, <1>2
-----------------------------------------------------------------------------
(* What a run resolves: every key of the configuration as a function of the  *)
(* invocation and of what the layers gave, whichever step finds it.          *)

GivenFrom(r) ==
    IF r.entry = "library" THEN r.flags ++ r.settings ++ r.manifest
    ELSE Restrict(r.flags, DOMAIN r.flags \ {"arch"})
         ++ (IF "arch" \in DOMAIN r.flags /\ "architecture" \notin DOMAIN r.flags
             THEN [architecture |-> r.flags["arch"]] ELSE NoKeys)
         ++ r.settings

From(g, key, default) == IF key \in DOMAIN g THEN g[key] ELSE default
CommandOf(g)      == From(g, "install_command", DefaultInstallCommand)
NameOf(g)         == IF "package_name" \in DOMAIN g THEN g["package_name"]
                     ELSE NormalizedPackageName(g["name"])
UserOf(g)         == From(g, "user", DerivedUnixName(NameOf(g)))
DirOf(g)          == From(g, "install_dir", <<"/", "u">>)
EntryOf(g)        == From(g, "cli", From(g, "daemon", <<>>))
ArchOf(g)         == From(g, "architecture", "all")

(* The value of a key, if it is resolved at all.                             *)
Resolved(r, g) ==
    [install_command  |-> CommandOf(g),
     install_binary   |-> From(g, "install_binary", CommandBinary(CommandOf(g))),
     package_name     |-> NameOf(g),
     version          |-> MappedVersion(g["version"], From(g, "epoch", NoEpoch)),
     architecture     |-> ArchOf(g),
     install_dir      |-> InstallDir(DirOf(g)),
     user             |-> UserOf(g),
     group            |-> From(g, "group", UserOf(g)),
     executable_name  |-> From(g, "executable_name", NameOf(g)),
     init             |-> From(g, "init", "auto"),
     install_strategy |-> From(g, "install_strategy", "auto"),
     daemon           |-> EntryPoint(g["daemon"]),
     cli              |-> EntryPoint(EntryOf(g)),
     description      |-> g["description"],
     maintainer       |-> g["maintainer"],
     homepage         |-> g["homepage"],
     license          |-> g["license"],
     triggers_file    |-> g["triggers_file"],
     dependencies     |-> WithNodejs(From(g, "dependencies", <<>>), "nodejs" \in r.switches),
     synopsis         |-> Synopsis(g["description"]),
     body             |-> Body(g["description"]),
     machine          |-> Machine[ArchOf(g)],
     stamp            |-> Stamp(r.world),
     stamped_by       |-> StampedBy(r.world)]

InstallKeys   == {"install_command", "install_binary"}
PlacementKeys == {"architecture", "install_dir", "user", "group", "executable_name"}
RuntimeKeys(g) == {"init", "install_strategy"}
                  \cup (IF "daemon" \in DOMAIN g THEN {"daemon", "cli"} ELSE {})
                  \cup (IF "cli" \in DOMAIN g THEN {"cli"} ELSE {})
CopiedKeys     == {"description", "maintainer", "homepage", "license", "triggers_file"}
TextsKeys(g)   == {"dependencies"} \cup (CopiedKeys \cap DOMAIN g)
PlanKeys       == {"synopsis", "body", "machine", "stamp", "stamped_by"}

(* The keys there are once a step is reached.                                *)
KeysAt(step, g) ==
       (IF step \in {"main", "load", "overrides", "install"} THEN {} ELSE InstallKeys)
  \cup (IF step \in {"main", "load", "overrides", "install", "unknown_keys", "package_name"}
        THEN {} ELSE {"package_name"})
  \cup (IF step \in {"placement", "runtime", "texts", "plan", "build"} THEN {"version"} ELSE {})
  \cup (IF step \in {"runtime", "texts", "plan", "build"} THEN PlacementKeys ELSE {})
  \cup (IF step \in {"texts", "plan", "build"} THEN RuntimeKeys(g) ELSE {})
  \cup (IF step \in {"plan", "build"} THEN TextsKeys(g) ELSE {})
  \cup (IF step = "build" THEN PlanKeys ELSE {})

(* A part of a configuration is right about the keys it has.                 *)
Agrees(part, r, g) ==
    /\ part = [key \in DOMAIN part |-> part[key]]
    /\ DOMAIN part \subseteq DOMAIN Resolved(r, g)
    /\ \A key \in DOMAIN part : part[key] = Resolved(r, g)[key]

-----------------------------------------------------------------------------
(* The inductive invariant.                                                  *)

BeforeInstall == {"main", "load", "overrides"}
Resolving     == {"install", "unknown_keys", "package_name", "version", "placement", "runtime",
                  "texts", "plan"}

(* The layers are merged once, before anything is resolved.                  *)
LayersMerged ==
    /\ pc \in BeforeInstall => given = NoKeys /\ request.entry = "cli"
    /\ pc \in Resolving \cup {"build"} => given = GivenFrom(request)
    /\ given \in {NoKeys, GivenFrom(request)}
    /\ "stamp" \in DOMAIN config => given = GivenFrom(request) /\ pc \in {"build", "ended"}

(* No plan without a description and a maintainer.                           *)
Described == pc \in {"plan", "build"} => {"description", "maintainer"} \subseteq DOMAIN given

(* What is resolved is what the invocation and the layers determine.         *)
Determined ==
    /\ Agrees(config, request, given)
    /\ pc # "ended" => DOMAIN config = KeysAt(pc, given)
    /\ "stamp" \in DOMAIN config => DOMAIN config = KeysAt("build", given)

Queues == {<<>>, <<"deb">>, <<"rpm">>, <<"arch">>, <<"deb", "rpm">>, <<"deb", "arch">>,
           <<"rpm", "arch">>, <<"deb", "rpm", "arch">>}

(* A format is pending, built or failed, and none of them before the plan.   *)
Queued ==
    /\ pc \in Steps /\ pending \in Queues
    /\ "stamp" \notin DOMAIN config => pending = <<>> /\ packages = NoKeys /\ failed = {}
    /\ failed \cap DOMAIN packages = {} /\ ToSet(pending) \cap (failed \cup DOMAIN packages) = {}
    /\ "stamp" \in DOMAIN config => ToSet(pending) \cup failed \cup DOMAIN packages = request.formats
    /\ "dry-run" \in request.switches => packages = NoKeys
    /\ Done => pending = <<>> /\ failed = {}

(* What a format cannot honour has been said.                                *)
Heard ==
    "stamp" \in DOMAIN config =>
        \A f \in request.formats : Unsupported(f, config.init) => Warn("Unsupported", f) \in warnings

(* The package of a format, as a function of all that goes into it.          *)
PackageOf(f, templates, tree, mtimes, c) ==
    LET members == <<".PKGINFO">> \o (IF ArchPostInstall(c.init, c.install_strategy) = <<>> THEN <<>>
                                      ELSE <<".INSTALL">>)
        field   == Field(f, c.init, c.install_strategy, c.dependencies)
        files   == Generate(ServiceFiles(c.init), templates,
                            Variables(c, VersionOf(f, c.version), ArchitectureOf(f, c.machine)))
    IN  [file      |-> FileName(f, c),
         generated |-> [name \in ServiceFiles(c.init) |-> files[name].text],
         depends   |-> field,
         version   |-> c.version,
         stamps    |-> EntryStamps(f, c.stamp, mtimes),
         metadata  |-> CASE f = "deb"  -> [control |-> Control(c, Field("deb", c.init, c.install_strategy,
                                                                        c.dependencies)),
                                           changelog |-> Rfc2822(c.stamp),
                                           copyright |-> CopyrightYear(c.stamp)]
                         [] f = "rpm"  -> Header(c, Field("rpm", c.init, c.install_strategy,
                                                          c.dependencies))
                         [] f = "arch" -> [pkginfo |-> Pkginfo(c, Field("arch", c.init,
                                                                        c.install_strategy,
                                                                        c.dependencies)),
                                           mtree |-> Mtree(ManifestRecords(members, tree))]]

PackageIn(f, r, c) == PackageOf(f, r.templates, r.tree, r.world.mtimes, c)

(* Every package is of the invocation and the configuration there is.        *)
Built == packages = [f \in DOMAIN packages |-> PackageIn(f, request, config)]

(* All that one invocation resolves and builds when nothing fails.           *)
ConfigOf(r) ==
    [key \in KeysAt("build", GivenFrom(r)) |-> Resolved(r, GivenFrom(r))[key]]
PackagesOf(r) == [f \in r.formats |-> PackageIn(f, r, ConfigOf(r))]

AtLaterCheckout(r) == [r EXCEPT !.world.mtimes = {mtime + 1 : mtime \in @}]

(* A second build is of the invocation of the first.                         *)
BuiltBefore ==
    earlier # NoKeys =>
        /\ request.project = "rebuilt"
        /\ \E r : IsInvocation(r) /\ request = AtLaterCheckout(r) /\ earlier = PackagesOf(r)

IInv == /\ IsInvocation(request)
        /\ LayersMerged /\ Described /\ Determined /\ Queued /\ Heard /\ Built /\ BuiltBefore

-----------------------------------------------------------------------------
(* The steps of a resolution.                                                *)

(* The keys of a configuration.                                              *)
LEMMA ResolvedKeys ==
    ASSUME NEW r, NEW g
    PROVE  DOMAIN Resolved(r, g) =
               InstallKeys \cup {"package_name", "version"} \cup PlacementKeys
               \cup {"init", "install_strategy", "daemon", "cli", "dependencies"}
               \cup CopiedKeys \cup PlanKeys
  BY DEF Resolved, InstallKeys, PlacementKeys, CopiedKeys, PlanKeys

(* A right part over a right part is right.                                  *)
LEMMA AgreesOver ==
    ASSUME NEW f, NEW h, NEW r, NEW g, Agrees(f, r, g), Agrees(h, r, g)
    PROVE  Agrees(f ++ h, r, g) /\ DOMAIN (f ++ h) = DOMAIN f \cup DOMAIN h
<1> DEFINE both == f ++ h
<1>1. /\ DOMAIN both = DOMAIN f \cup DOMAIN h
      /\ \A key \in DOMAIN f : both[key] = f[key]
      /\ \A key \in DOMAIN h \ DOMAIN f : both[key] = h[key]
      /\ both = [key \in DOMAIN both |-> both[key]]
  BY LayerOver
<1> HIDE DEF both
<1>2. \A key \in DOMAIN both : both[key] = Resolved(r, g)[key]
  BY <1>1 DEF Agrees
<1>3. Agrees(both, r, g)
  BY <1>1, <1>2 DEF Agrees
<1> QED
  BY <1>1, <1>3 DEF both

(* A step ends the run, or goes on to the next with the keys it finds.       *)
Advances(step, next) ==
    \/ pc' = "ended" /\ UNCHANGED <<request, given, config, warnings>>
    \/ /\ pc' = next /\ UNCHANGED <<request, given, error>>
       /\ Agrees(config', request, given)
       /\ DOMAIN config' = KeysAt(next, given)

(* What is found beside what is there.                                       *)
LEMMA FoundIsAdded ==
    ASSUME Determined, pc # "ended", NEW found, NEW next, pc' = next, config' = config ++ found,
           UNCHANGED <<request, given, error>>,
           Agrees(found, request, given), KeysAt(pc, given) \cup DOMAIN found = KeysAt(next, given)
    PROVE  Advances(pc, next)
  BY AgreesOver DEF Determined, Advances

(* Each step of the resolution ends the run, or adds the keys it is there for, *)
(* with the values that are meant.                                           *)
LEMMA InstallStep ==
    ASSUME Determined, pc = "install", ResolveInstall
    PROVE  Advances("install", "unknown_keys")
<1> DEFINE command == CommandOf(given)
           binary  == From(given, "install_binary", CommandBinary(command))
           found   == [install_command |-> command, install_binary |-> binary]
           checks  == <<Check("install_command", SingleLine(command)),
                        Check("install_binary", Token(binary))>>
<1>1. Checked(checks, "unknown_keys", found, {})
  BY DEF ResolveInstall, Or, Given, CommandOf, From
<1>2. DOMAIN checks = 1..2
  OBVIOUS
<1>3. Agrees(found, request, given) /\ DOMAIN found = InstallKeys
  <2>1. DOMAIN found = InstallKeys /\ found = [key \in DOMAIN found |-> found[key]]
    BY DEF InstallKeys
  <2>2. /\ found["install_command"] = Resolved(request, given)["install_command"]
        /\ found["install_binary"] = Resolved(request, given)["install_binary"]
    BY DEF Resolved
  <2> QED
    BY <2>1, <2>2, ResolvedKeys DEF Agrees, InstallKeys
<1>4. KeysAt("install", given) \cup DOMAIN found = KeysAt("unknown_keys", given)
  BY <1>3 DEF KeysAt
<1> HIDE DEF checks, found
<1>5. CASE pc' = "ended" /\ UNCHANGED <<request, given, config, warnings>>
  BY <1>5 DEF Advances
<1>6. CASE pc' = "unknown_keys" /\ config' = config ++ found /\ UNCHANGED <<request, given, error>>
  BY <1>3, <1>4, <1>6, FoundIsAdded
<1> QED
  BY <1>1, <1>2, <1>5, <1>6, ChecksEnd

(* Unknown keys of the settings are warned about, and no more.               *)
LEMMA UnknownKeysStep ==
    ASSUME Determined, pc = "unknown_keys", UnknownKeys
    PROVE  Advances("unknown_keys", "package_name")
<1> DEFINE checks == <<>>
           heard  == {Warn("UnknownSettingKey", key) : key \in request.unknown}
<1>1. /\ pc' = "package_name" /\ config' = config ++ NoKeys /\ UNCHANGED <<request, given, error>>
      /\ warnings' = warnings \cup heard
  <2>1. Checked(checks, "package_name", NoKeys, heard)
    BY DEF UnknownKeys
  <2>2. DOMAIN checks = 1..0
    BY NoChecks
  <2> HIDE DEF checks, heard
  <2> QED
    BY <2>1, <2>2, NoChecks, ChecksEnd
<1>2. Agrees(NoKeys, request, given)
  BY NothingGiven DEF Agrees
<1>3. KeysAt("unknown_keys", given) \cup DOMAIN NoKeys = KeysAt("package_name", given)
  BY NothingGiven DEF KeysAt
<1> QED
  BY <1>1, <1>2, <1>3, FoundIsAdded

(* The package's name, as it is given or derived from the manifest's.        *)
LEMMA NameStep ==
    ASSUME Determined, pc = "package_name", ResolvePackageName
    PROVE  Advances("package_name", "version")
<1> DEFINE name  == NameOf(given)
           found == [package_name |-> name]
<1>1. \/ pc' = "ended" /\ UNCHANGED <<request, given, config, warnings>>
      \/ pc' = "version" /\ config' = config ++ found /\ UNCHANGED <<request, given, error>>
  <2>1. CASE Given("package_name")
    <3>1. Checked(<<Check("package_name", ValidPackageName(given["package_name"]))>>, "version",
                  [package_name |-> given["package_name"]], {})
      BY <2>1 DEF ResolvePackageName
    <3>2. found = [package_name |-> given["package_name"]]
      BY <2>1 DEF NameOf, Given
    <3> QED
      BY <3>1, <3>2 DEF Checked, Fail
  <2>2. CASE ~Given("package_name") /\ ~Given("name")
    BY <2>2 DEF ResolvePackageName, Fail
  <2>3. CASE ~Given("package_name") /\ Given("name")
    <3> DEFINE normalised == NormalizedPackageName(given["name"])
    <3>1. Checked(<<Check("name", ValidPackageName(normalised))>>, "version",
                  [package_name |-> normalised],
                  WarnIf(normalised # given["name"], "PackageNameNormalised", "name"))
      BY <2>3 DEF ResolvePackageName
    <3>2. found = [package_name |-> normalised]
      BY <2>3 DEF NameOf, Given
    <3> QED
      BY <3>1, <3>2 DEF Checked, Fail
  <2> QED
    BY <2>1, <2>2, <2>3
<1>2. Agrees(found, request, given) /\ DOMAIN found = {"package_name"}
  <2>1. found["package_name"] = Resolved(request, given)["package_name"]
    BY DEF Resolved
  <2> QED
    BY <2>1, ResolvedKeys DEF Agrees
<1>3. KeysAt("package_name", given) \cup DOMAIN found = KeysAt("version", given)
  BY <1>2 DEF KeysAt
<1> HIDE DEF found
<1> QED
  BY <1>1, <1>2, <1>3, FoundIsAdded DEF Advances

(* The version.                                                              *)
LEMMA VersionStep ==
    ASSUME Determined, pc = "version", ResolveVersion
    PROVE  Advances("version", "placement")
<1> DEFINE mapped == MappedVersion(given["version"], From(given, "epoch", NoEpoch))
           found  == [version |-> mapped]
<1>1. \/ pc' = "ended" /\ UNCHANGED <<request, given, config, warnings>>
      \/ pc' = "placement" /\ config' = config ++ found /\ UNCHANGED <<request, given, error>>
  <2>1. CASE ~Given("version")
    BY <2>1 DEF ResolveVersion, Fail
  <2>2. CASE Given("version")
    BY <2>2 DEF ResolveVersion, Checked, Fail, Or, From, Given
  <2> QED
    BY <2>1, <2>2
<1>2. Agrees(found, request, given) /\ DOMAIN found = {"version"}
  <2>1. found["version"] = Resolved(request, given)["version"]
    BY DEF Resolved
  <2> QED
    BY <2>1, ResolvedKeys DEF Agrees
<1>3. KeysAt("version", given) \cup DOMAIN found = KeysAt("placement", given)
  BY <1>2 DEF KeysAt
<1> HIDE DEF found
<1> QED
  BY <1>1, <1>2, <1>3, FoundIsAdded DEF Advances

(* Where the package puts what, and whose it is.                             *)
LEMMA PlacementStep ==
    ASSUME Determined, pc = "placement", ResolvePlacement
    PROVE  Advances("placement", "runtime")
<1> DEFINE name    == NameOf(given)
           user    == UserOf(given)
           group   == From(given, "group", user)
           dir     == DirOf(given)
           command == From(given, "executable_name", name)
           found   == [architecture |-> ArchOf(given), install_dir |-> InstallDir(dir),
                       user |-> user, group |-> group, executable_name |-> command]
<1>1. config.package_name = name
  <2>1. "package_name" \in DOMAIN config
    BY DEF Determined, KeysAt
  <2>2. config["package_name"] = Resolved(request, given)["package_name"]
    BY <2>1 DEF Determined, Agrees
  <2> QED
    BY <2>2 DEF Resolved
<1>2. \/ pc' = "ended" /\ UNCHANGED <<request, given, config, warnings>>
      \/ pc' = "runtime" /\ config' = config ++ found /\ UNCHANGED <<request, given, error>>
  BY <1>1 DEF ResolvePlacement, Checked, Fail, Or, From, Given, UserOf, DirOf, ArchOf
<1>3. Agrees(found, request, given) /\ DOMAIN found = PlacementKeys
  <2>1. DOMAIN found = PlacementKeys /\ found = [key \in DOMAIN found |-> found[key]]
    BY DEF PlacementKeys
  <2>2. /\ found["architecture"] = Resolved(request, given)["architecture"]
        /\ found["install_dir"] = Resolved(request, given)["install_dir"]
        /\ found["user"] = Resolved(request, given)["user"]
        /\ found["group"] = Resolved(request, given)["group"]
        /\ found["executable_name"] = Resolved(request, given)["executable_name"]
    BY DEF Resolved
  <2> QED
    BY <2>1, <2>2, ResolvedKeys DEF Agrees, PlacementKeys
<1>4. KeysAt("placement", given) \cup DOMAIN found = KeysAt("runtime", given)
  BY <1>3 DEF KeysAt
<1> HIDE DEF found
<1> QED
  BY <1>2, <1>3, <1>4, FoundIsAdded DEF Advances

(* The service and the command, by whichever of the two is given.            *)
LEMMA RuntimeStep ==
    ASSUME Determined, pc = "runtime", ResolveRuntime
    PROVE  Advances("runtime", "texts")
<1> DEFINE cli     == EntryOf(given)
           daemons == IF "daemon" \in DOMAIN given THEN [daemon |-> EntryPoint(given["daemon"])]
                      ELSE NoKeys
           clis    == IF "daemon" \in DOMAIN given \/ "cli" \in DOMAIN given
                      THEN [cli |-> EntryPoint(cli)] ELSE NoKeys
           always  == [init |-> From(given, "init", "auto"),
                       install_strategy |-> From(given, "install_strategy", "auto")]
           found   == always ++ (daemons ++ clis)
<1>1. \/ pc' = "ended" /\ UNCHANGED <<request, given, config, warnings>>
      \/ pc' = "texts" /\ config' = config ++ found /\ UNCHANGED <<request, given, error>>
  BY DEF ResolveRuntime, Checked, Fail, Or, From, Given, EntryOf
<1>2. Agrees(daemons, request, given)
      /\ DOMAIN daemons = IF "daemon" \in DOMAIN given THEN {"daemon"} ELSE {}
  <2>1. CASE "daemon" \in DOMAIN given
    <3>1. EntryPoint(given["daemon"]) = Resolved(request, given)["daemon"]
      BY DEF Resolved
    <3> QED
      BY <2>1, <3>1, ResolvedKeys DEF Agrees
  <2>2. CASE "daemon" \notin DOMAIN given
    BY <2>2, NothingGiven DEF Agrees
  <2> QED
    BY <2>1, <2>2
<1>3. Agrees(clis, request, given)
      /\ DOMAIN clis = IF "daemon" \in DOMAIN given \/ "cli" \in DOMAIN given THEN {"cli"} ELSE {}
  <2>1. CASE "daemon" \in DOMAIN given \/ "cli" \in DOMAIN given
    <3>1. EntryPoint(cli) = Resolved(request, given)["cli"]
      BY DEF Resolved
    <3> QED
      BY <2>1, <3>1, ResolvedKeys DEF Agrees
  <2>2. CASE ~("daemon" \in DOMAIN given \/ "cli" \in DOMAIN given)
    BY <2>2, NothingGiven DEF Agrees
  <2> QED
    BY <2>1, <2>2
<1>4. Agrees(always, request, given) /\ DOMAIN always = {"init", "install_strategy"}
  <2>1. /\ always["init"] = Resolved(request, given)["init"]
        /\ always["install_strategy"] = Resolved(request, given)["install_strategy"]
    BY DEF Resolved
  <2>2. DOMAIN always = {"init", "install_strategy"}
        /\ always = [key \in DOMAIN always |-> always[key]]
    OBVIOUS
  <2> QED
    BY <2>1, <2>2, ResolvedKeys DEF Agrees
<1> HIDE DEF daemons, clis, always
<1>5. Agrees(found, request, given) /\ DOMAIN found = RuntimeKeys(given)
  <2>1. Agrees(daemons ++ clis, request, given)
        /\ DOMAIN (daemons ++ clis) = DOMAIN daemons \cup DOMAIN clis
    BY <1>2, <1>3, AgreesOver
  <2>2. Agrees(found, request, given)
        /\ DOMAIN found = DOMAIN always \cup (DOMAIN daemons \cup DOMAIN clis)
    BY <1>4, <2>1, AgreesOver
  <2> QED
    BY <1>2, <1>3, <1>4, <2>2 DEF RuntimeKeys
<1>6. KeysAt("runtime", given) \cup DOMAIN found = KeysAt("texts", given)
  BY <1>5 DEF KeysAt
<1> HIDE DEF found
<1> QED
  BY <1>1, <1>5, <1>6, FoundIsAdded DEF Advances

(* The free texts, with a description and a maintainer among them.           *)
LEMMA TextsStep ==
    ASSUME Determined, pc = "texts", ResolveTexts
    PROVE  /\ Advances("texts", "plan")
           /\ pc' = "plan" => "description" \in DOMAIN given /\ "maintainer" \in DOMAIN given
<1> DEFINE dependencies == WithNodejs(From(given, "dependencies", <<>>), "nodejs" \in request.switches)
           copied == Taken(CopiedKeys)
           always == [dependencies |-> dependencies]
           found  == copied ++ always
           checks == <<Check("no_description", Given("description")),
                       Check("no_maintainer", Given("maintainer")),
                       Check("description", Given("description") => Printable(given["description"])),
                       Check("maintainer", Given("maintainer") => SingleLine(given["maintainer"])),
                       Check("homepage", Given("homepage") => Token(given["homepage"])),
                       Check("license", Given("license") => SingleLine(given["license"])),
                       Check("dependencies",
                             \A i \in DOMAIN dependencies : dependencies[i].spelling # "folded")>>
<1>1. Checked(checks, "plan", found, {})
  BY DEF ResolveTexts, Or, From, Given, CopiedKeys
<1>2. DOMAIN checks = 1..7
  OBVIOUS
<1>3. /\ checks[1].holds => "description" \in DOMAIN given
      /\ checks[2].holds => "maintainer" \in DOMAIN given
  BY DEF Check, Given
<1>4. Agrees(copied, request, given) /\ DOMAIN copied = CopiedKeys \cap DOMAIN given
  <2>1. DOMAIN copied = CopiedKeys \cap DOMAIN given
        /\ copied = [key \in DOMAIN copied |-> copied[key]]
        /\ \A key \in DOMAIN copied : copied[key] = given[key]
    BY DEF Taken, Restrict
  <2>2. /\ given["description"] = Resolved(request, given)["description"]
        /\ given["maintainer"] = Resolved(request, given)["maintainer"]
        /\ given["homepage"] = Resolved(request, given)["homepage"]
        /\ given["license"] = Resolved(request, given)["license"]
        /\ given["triggers_file"] = Resolved(request, given)["triggers_file"]
    BY DEF Resolved
  <2> HIDE DEF copied
  <2> QED
    BY <2>1, <2>2, ResolvedKeys DEF Agrees, CopiedKeys
<1>5. Agrees(always, request, given) /\ DOMAIN always = {"dependencies"}
  <2>1. always["dependencies"] = Resolved(request, given)["dependencies"]
    BY DEF Resolved
  <2> QED
    BY <2>1, ResolvedKeys DEF Agrees
<1> HIDE DEF copied, always, checks
<1>6. Agrees(found, request, given) /\ DOMAIN found = TextsKeys(given)
  <2>1. Agrees(found, request, given) /\ DOMAIN found = DOMAIN copied \cup DOMAIN always
    BY <1>4, <1>5, AgreesOver
  <2> QED
    BY <1>4, <1>5, <2>1 DEF TextsKeys
<1>7. KeysAt("texts", given) \cup DOMAIN found = KeysAt("plan", given)
  BY <1>6 DEF KeysAt
<1> HIDE DEF found
<1>8. CASE pc' = "ended" /\ UNCHANGED <<request, given, config, warnings>>
  BY <1>8 DEF Advances
<1>9. CASE /\ \A i \in 1..7 : checks[i].holds
           /\ pc' = "plan" /\ config' = config ++ found /\ UNCHANGED <<request, given, error>>
  BY <1>3, <1>6, <1>7, <1>9, FoundIsAdded
<1> QED
  BY <1>1, <1>2, <1>8, <1>9, ChecksEnd

(* The plan adds the identity and the stamp.                                 *)
PlanHeard == {Warn("Unsupported", f) : f \in {g \in request.formats : Unsupported(g, config.init)}}
PlanQueue == If("deb" \in request.formats, <<"deb">>) \o If("rpm" \in request.formats, <<"rpm">>)
             \o If("arch" \in request.formats, <<"arch">>)
PlanErrors == {"SOURCE_DATE_EPOCH", "no_timestamp", "no_synopsis", "architecture"}

(* The plan, on top of everything that is resolved.                          *)
LEMMA PlanStep ==
    ASSUME Determined, pc = "plan", Plan, "description" \in DOMAIN given
    PROVE  /\ Advances("plan", "build")
           /\ pc' \in {"build", "ended"}
           /\ pending' = IF pc' = "build" THEN PlanQueue ELSE <<>>
           /\ pc' = "build" => warnings' = warnings \cup PlanHeard
           /\ pc' = "build" => ArchOf(given) \in DOMAIN Machine
           /\ pc' = "build" => "stamp" \in DOMAIN config'
           /\ pc' = "ended" => UNCHANGED <<warnings, config>> /\ error' \in PlanErrors
           /\ error' = "architecture" => ArchOf(given) \notin DOMAIN Machine \/ error = "architecture"
           /\ UNCHANGED <<packages, failed, installed, earlier>>
<1> DEFINE world  == request.world
           text   == given["description"]
           found  == [synopsis |-> Synopsis(text), body |-> Body(text),
                      machine |-> Machine[ArchOf(given)],
                      stamp |-> Stamp(world), stamped_by |-> StampedBy(world)]
           checks == <<Check("SOURCE_DATE_EPOCH", world.sde # Malformed),
                       Check("no_timestamp", StampedBy(world) = "NewestSourceMtime"
                                                 => world.mtimes # {}),
                       Check("no_synopsis", HasSynopsis(text)),
                       Check("architecture", ArchOf(given) \in DOMAIN Machine)>>
<1>1. config.description = text /\ config.architecture = ArchOf(given)
  <2>1. {"description", "architecture"} \subseteq DOMAIN config
    BY DEF Determined, KeysAt, TextsKeys, CopiedKeys, PlacementKeys
  <2>2. /\ config["description"] = Resolved(request, given)["description"]
        /\ config["architecture"] = Resolved(request, given)["architecture"]
    BY <2>1 DEF Determined, Agrees
  <2> QED
    BY <2>2 DEF Resolved
<1>2. /\ Checked(checks, "build", found, PlanHeard)
      /\ pending' = IF pc' = "build" THEN PlanQueue ELSE <<>>
      /\ UNCHANGED <<packages, failed, installed, earlier>>
  BY <1>1 DEF Plan, PlanHeard, PlanQueue
<1>3. DOMAIN checks = 1..4
  OBVIOUS
<1>4. /\ checks[1].field = "SOURCE_DATE_EPOCH" /\ checks[2].field = "no_timestamp"
      /\ checks[3].field = "no_synopsis" /\ checks[4].field = "architecture"
      /\ checks[4].holds <=> ArchOf(given) \in DOMAIN Machine
  BY DEF Check
<1>5. Agrees(found, request, given) /\ DOMAIN found = PlanKeys
  <2>1. DOMAIN found = PlanKeys /\ found = [key \in DOMAIN found |-> found[key]]
    BY DEF PlanKeys
  <2>2. /\ found["synopsis"] = Resolved(request, given)["synopsis"]
        /\ found["body"] = Resolved(request, given)["body"]
        /\ found["machine"] = Resolved(request, given)["machine"]
        /\ found["stamp"] = Resolved(request, given)["stamp"]
        /\ found["stamped_by"] = Resolved(request, given)["stamped_by"]
    BY DEF Resolved
  <2> QED
    BY <2>1, <2>2, ResolvedKeys DEF Agrees, PlanKeys
<1>6. KeysAt("plan", given) \cup DOMAIN found = KeysAt("build", given)
      /\ "stamp" \in KeysAt("build", given)
  BY <1>5 DEF KeysAt, PlanKeys
<1> HIDE DEF checks, found
<1>7. CASE /\ pc' = "ended" /\ UNCHANGED <<request, given, config, warnings>>
           /\ \E i \in 1..4 : ~checks[i].holds /\ error' = checks[i].field
  <2>1. PICK i \in 1..4 : ~checks[i].holds /\ error' = checks[i].field
    BY <1>7
  <2>2. i \in {1, 2, 3, 4}
    BY <2>1
  <2>3. error' \in PlanErrors
    BY <1>4, <2>1, <2>2 DEF PlanErrors
  <2>4. error' = "architecture" => ArchOf(given) \notin DOMAIN Machine
    BY <1>4, <2>1, <2>2
  <2> HIDE DEF PlanErrors
  <2> QED
    BY <1>2, <1>7, <2>3, <2>4 DEF Advances
<1>8. CASE /\ \A i \in 1..4 : checks[i].holds
           /\ pc' = "build" /\ config' = config ++ found /\ UNCHANGED <<request, given, error>>
           /\ warnings' = warnings \cup PlanHeard
  <2>1. Advances("plan", "build")
    BY <1>5, <1>6, <1>8, FoundIsAdded
  <2>2. pc' = "build" /\ pc' # "ended" /\ error' = error
    BY <1>8
  <2>3. "stamp" \in DOMAIN config'
    BY <1>6, <2>1, <2>2 DEF Advances
  <2>4. ArchOf(given) \in DOMAIN Machine
    <3>1. 4 \in 1..4
      OBVIOUS
    <3>2. checks[4].holds
      BY <1>8, <3>1
    <3> QED
      BY <1>4, <3>2
  <2>5. pending' = IF pc' = "build" THEN PlanQueue ELSE <<>>
    BY <1>2
  <2>6. UNCHANGED <<packages, failed, installed, earlier>>
    BY <1>2
  <2>7. error' = "architecture" => error = "architecture"
    BY <2>2
  <2>8. warnings' = warnings \cup PlanHeard
    BY <1>8
  <2> HIDE DEF PlanHeard, PlanQueue, PlanErrors
  <2> QED
    BY <2>1, <2>2, <2>3, <2>4, <2>5, <2>6, <2>7, <2>8
<1> QED
  BY <1>2, <1>3, <1>7, <1>8, ChecksEnd

-----------------------------------------------------------------------------
(* What each step keeps of the invariant.                                    *)

(* The stamp is the last thing to be found out.                              *)
LEMMA StampLast ==
    ASSUME NEW step, NEW g
    PROVE  "stamp" \in KeysAt(step, g) <=> step = "build"
  BY DEF KeysAt, InstallKeys, PlacementKeys, RuntimeKeys, TextsKeys, CopiedKeys, PlanKeys

(* Nothing is agreed too.                                                    *)
LEMMA NothingAgrees ==
    ASSUME NEW part, part = [key \in DOMAIN part |-> part[key]], DOMAIN part = {}, NEW r, NEW g
    PROVE  Agrees(part, r, g)
  BY DEF Agrees

(* No package is whatever package it should be.                              *)
LEMMA NoPackage ==
    ASSUME NEW r, NEW c
    PROVE  NoKeys = [f \in DOMAIN NoKeys |-> PackageIn(f, r, c)]
<1>1. DOMAIN NoKeys = {}
  BY NothingGiven
<1>2. NoKeys = [f \in {} |-> PackageIn(f, r, c)]
  BY DEF NoKeys
<1> QED
  BY <1>1, <1>2

(* A step before the plan, at which nothing is built yet.                    *)
LEMMA EarlyStep ==
    ASSUME IInv, pc \notin {"build", "ended"}, request' = request, UNCHANGED buildVars,
           pc' \in Steps \ {"build"}, "stamp" \notin DOMAIN config', LayersMerged',
           Described', Determined'
    PROVE  IInv'
<1>1. "stamp" \notin DOMAIN config
  BY DEF IInv, LayersMerged
<1>2. /\ pending = <<>> /\ packages = NoKeys /\ failed = {}
      /\ pending' = <<>> /\ packages' = NoKeys /\ failed' = {} /\ earlier' = earlier
  BY <1>1 DEF IInv, Queued, buildVars
<1>3. IsInvocation(request')
  BY DEF IInv
<1>4. ToSet(<<>>) = {}
  BY NoChecks DEF ToSet
<1>5. Queued'
  <2>1. DOMAIN NoKeys = {}
    BY NothingGiven
  <2>2. ~Done'
    BY <1>2 DEF Done
  <2>3. <<>> \in Queues
    BY DEF Queues
  <2> QED
    BY <1>2, <1>4, <2>1, <2>2, <2>3 DEF Queued
<1>6. Heard'
  BY DEF Heard
<1>7. Built'
  BY <1>2, NoPackage DEF Built
<1>8. BuiltBefore'
  BY <1>2 DEF IInv, BuiltBefore
<1> QED
  BY <1>3, <1>5, <1>6, <1>7, <1>8 DEF IInv

(* A step that ends the run, or finds the keys of the next, keeps the invariant. *)
LEMMA AdvanceKeeps ==
    ASSUME IInv, NEW step \in Resolving \ {"plan"}, NEW next \in Resolving, pc = step,
           Advances(step, next), Described', UNCHANGED buildVars
    PROVE  IInv'
<1>1. given = GivenFrom(request) /\ "stamp" \notin DOMAIN config
  BY DEF IInv, LayersMerged, Resolving
<1>2. CASE pc' = "ended" /\ UNCHANGED <<request, given, config, warnings>>
  <2>1. LayersMerged'
    BY <1>1, <1>2 DEF LayersMerged, BeforeInstall, Resolving
  <2>2. Determined'
    BY <1>1, <1>2 DEF IInv, Determined
  <2> QED
    BY <1>1, <1>2, <2>1, <2>2, EarlyStep DEF Steps, Resolving
<1>3. CASE /\ pc' = next /\ UNCHANGED <<request, given, error>>
           /\ Agrees(config', request, given) /\ DOMAIN config' = KeysAt(next, given)
  <2>1. next # "build" /\ next # "ended" /\ next \notin BeforeInstall /\ next \in Steps
    BY DEF Resolving, BeforeInstall, Steps
  <2>2. "stamp" \notin DOMAIN config'
    BY <1>3, <2>1, StampLast
  <2>3. LayersMerged'
    BY <1>1, <1>3, <2>1, <2>2 DEF LayersMerged
  <2>4. Determined'
    BY <1>3, <2>1, <2>2 DEF Determined
  <2>5. pc \notin {"build", "ended"}
    BY DEF Resolving
  <2> QED
    BY <1>3, <2>1, <2>2, <2>3, <2>4, <2>5, EarlyStep
<1> QED
  BY <1>2, <1>3 DEF Advances

(* So does every step of the resolution,                                     *)
LEMMA ResolveKeeps ==
    ASSUME IInv, Resolve, UNCHANGED buildVars
    PROVE  IInv'
<1>1. Determined
  BY DEF IInv
<1> USE DEF Resolving, Described
<1>2. CASE ResolveInstall
  BY <1>1, <1>2, InstallStep, AdvanceKeeps DEF ResolveInstall, Advances
<1>3. CASE UnknownKeys
  BY <1>1, <1>3, UnknownKeysStep, AdvanceKeeps DEF UnknownKeys, Advances
<1>4. CASE ResolvePackageName
  BY <1>1, <1>4, NameStep, AdvanceKeeps DEF ResolvePackageName, Advances
<1>5. CASE ResolveVersion
  BY <1>1, <1>5, VersionStep, AdvanceKeeps DEF ResolveVersion, Advances
<1>6. CASE ResolvePlacement
  BY <1>1, <1>6, PlacementStep, AdvanceKeeps DEF ResolvePlacement, Advances
<1>7. CASE ResolveRuntime
  BY <1>1, <1>7, RuntimeStep, AdvanceKeeps DEF ResolveRuntime, Advances
<1>8. CASE ResolveTexts
  BY <1>1, <1>8, TextsStep, AdvanceKeeps DEF ResolveTexts, Advances
<1> QED
  BY <1>2, <1>3, <1>4, <1>5, <1>6, <1>7, <1>8 DEF Resolve

(* and every step before it.                                                 *)
LEMMA ReadRequestKeeps ==
    ASSUME IInv, ReadRequest, UNCHANGED buildVars
    PROVE  IInv'
<1>1. pc \in BeforeInstall /\ pc \notin {"build", "ended"}
  BY DEF ReadRequest, Main, LoadManifest, OverridesFrom, BeforeInstall
<1>2. /\ given = NoKeys /\ request.entry = "cli" /\ "stamp" \notin DOMAIN config
      /\ DOMAIN config = {} /\ config = [key \in DOMAIN config |-> config[key]]
  <2>1. DOMAIN config = KeysAt(pc, given)
    BY <1>1 DEF IInv, Determined
  <2>2. KeysAt(pc, given) = {}
    BY <1>1 DEF KeysAt, BeforeInstall
  <2> QED
    BY <1>1, <2>1, <2>2 DEF IInv, LayersMerged, Determined, Agrees
<1>3. \A r, g : Agrees(config, r, g)
  BY <1>2, NothingAgrees
<1>4. KeysAt("load", given) = {} /\ KeysAt("overrides", given) = {}
  BY DEF KeysAt
<1>5. CASE /\ pc' \in {"load", "overrides", "ended"}
           /\ UNCHANGED <<request, given, config>>
  <2>1. LayersMerged'
    BY <1>2, <1>5 DEF LayersMerged, BeforeInstall, Resolving
  <2>2. Determined'
    BY <1>2, <1>3, <1>4, <1>5 DEF Determined
  <2>3. pc' \in Steps \ {"build"}
    BY <1>5 DEF Steps
  <2>4. Described'
    BY <2>3, <1>5 DEF Described
  <2> QED
    BY <1>1, <1>2, <1>5, <2>4, <2>1, <2>2, <2>3, EarlyStep
<1>6. CASE OverridesFrom
  <2>1. pc' = "install" /\ UNCHANGED <<request, config>> /\ given' = GivenFrom(request)
    BY <1>2, <1>6 DEF OverridesFrom, GivenFrom
  <2>2. LayersMerged'
    BY <1>2, <2>1 DEF LayersMerged, BeforeInstall, Resolving
  <2>3. KeysAt("install", given') = {}
    BY DEF KeysAt
  <2>4. Determined'
    BY <1>2, <1>3, <2>1, <2>3 DEF Determined
  <2>5. Described'
    BY <2>1 DEF Described
  <2> QED
    BY <1>1, <1>2, <2>1, <2>2, <2>4, <2>5, EarlyStep DEF Steps
<1>7. CASE Main \/ LoadManifest
  BY <1>5, <1>7 DEF Main, LoadManifest, Goto, Fail
<1> QED
  BY <1>6, <1>7 DEF ReadRequest

(* The configuration of a run that is past its plan.                         *)
LEMMA PlannedConfig ==
    ASSUME LayersMerged, Determined, "stamp" \in DOMAIN config
    PROVE  config = ConfigOf(request) /\ given = GivenFrom(request)
           /\ \A key \in KeysAt("build", given) : config[key] = Resolved(request, given)[key]
<1> DEFINE keys == KeysAt("build", GivenFrom(request))
           value(key) == Resolved(request, GivenFrom(request))[key]
<1>1. given = GivenFrom(request) /\ DOMAIN config = keys
  BY DEF LayersMerged, Determined
<1>2. /\ config = [key \in DOMAIN config |-> config[key]]
      /\ \A key \in DOMAIN config : config[key] = value(key)
  BY <1>1 DEF Determined, Agrees
<1> HIDE DEF keys, value
<1>3. config = [key \in keys |-> value(key)]
  BY <1>1, <1>2
<1>4. config = ConfigOf(request)
  BY <1>3 DEF ConfigOf, keys, value
<1> QED
  BY <1>1, <1>2, <1>4 DEF keys, value

(* What the later steps read of a configuration.                             *)
LEMMA PlanInit ==
    ASSUME LayersMerged, Determined, "stamp" \in DOMAIN config
    PROVE  /\ config.init = From(given, "init", "auto")
           /\ config.install_strategy = From(given, "install_strategy", "auto")
           /\ config.dependencies = WithNodejs(From(given, "dependencies", <<>>),
                                               "nodejs" \in request.switches)
           /\ config.stamp = Stamp(request.world) /\ config.stamped_by = StampedBy(request.world)
<1>1. \A key \in KeysAt("build", given) : config[key] = Resolved(request, given)[key]
  BY PlannedConfig
<1>2. {"init", "install_strategy", "dependencies", "stamp", "stamped_by"} \subseteq KeysAt("build", given)
  BY DEF KeysAt, RuntimeKeys, TextsKeys, PlanKeys
<1>3. /\ Resolved(request, given)["init"] = From(given, "init", "auto")
      /\ Resolved(request, given)["install_strategy"] = From(given, "install_strategy", "auto")
      /\ Resolved(request, given)["dependencies"]
            = WithNodejs(From(given, "dependencies", <<>>), "nodejs" \in request.switches)
      /\ Resolved(request, given)["stamp"] = Stamp(request.world)
      /\ Resolved(request, given)["stamped_by"] = StampedBy(request.world)
  BY DEF Resolved
<1> QED
  BY <1>1, <1>2, <1>3

(* Literal sequences, one behind the other.                                  *)
LEMMA TwoInSequence ==
    ASSUME NEW S, NEW x \in S, NEW y \in S
    PROVE  <<x>> \o <<y>> = <<x, y>>
<1>1. <<x>> \in Seq(S) /\ <<y>> \in Seq(S) /\ <<x, y>> \in Seq(S)
  OBVIOUS
<1>2. Len(<<x>>) = 1 /\ Len(<<y>>) = 1 /\ Len(<<x, y>>) = 2 /\ <<x>>[1] = x /\ <<y>>[1] = y
  OBVIOUS
<1> DEFINE both == <<x>> \o <<y>>
           pair == <<x, y>>
<1>3. both \in Seq(S) /\ Len(both) = 2 /\ both[1] = x /\ both[2] = y
  BY <1>1, <1>2, ConcatProperties
<1>4. pair \in Seq(S) /\ Len(pair) = 2 /\ pair[1] = x /\ pair[2] = y
  OBVIOUS
<1> HIDE DEF both, pair
<1>5. \A i \in 1..2 : both[i] = pair[i]
  BY <1>3, <1>4
<1>6. both = pair
  BY <1>3, <1>4, <1>5, SeqEqual
<1> QED
  BY <1>6 DEF both, pair

(* A third.                                                                  *)
LEMMA ThreeInSequence ==
    ASSUME NEW S, NEW x \in S, NEW y \in S, NEW z \in S
    PROVE  <<x, y>> \o <<z>> = <<x, y, z>>
<1>1. <<x, y>> \in Seq(S) /\ <<z>> \in Seq(S) /\ <<x, y, z>> \in Seq(S)
  OBVIOUS
<1>2. Len(<<x, y>>) = 2 /\ Len(<<z>>) = 1 /\ Len(<<x, y, z>>) = 3
      /\ <<x, y>>[1] = x /\ <<x, y>>[2] = y /\ <<z>>[1] = z
  OBVIOUS
<1> DEFINE both   == <<x, y>> \o <<z>>
           triple == <<x, y, z>>
<1>3. both \in Seq(S) /\ Len(both) = 3 /\ both[1] = x /\ both[2] = y /\ both[3] = z
  BY <1>1, <1>2, ConcatProperties
<1>4. triple \in Seq(S) /\ Len(triple) = 3 /\ triple[1] = x /\ triple[2] = y /\ triple[3] = z
  OBVIOUS
<1> HIDE DEF both, triple
<1>5. \A i \in 1..3 : both[i] = triple[i]
  BY <1>3, <1>4
<1>6. both = triple
  BY <1>3, <1>4, <1>5, SeqEqual
<1> QED
  BY <1>6 DEF both, triple

(* The formats in the order they are built in.                               *)
LEMMA TheQueue ==
    ASSUME NEW formats, formats \subseteq Formats,
           NEW queue, queue = If("deb" \in formats, <<"deb">>) \o If("rpm" \in formats, <<"rpm">>)
                              \o If("arch" \in formats, <<"arch">>)
    PROVE  queue \in Queues /\ ToSet(queue) = formats
<1>1. ToSet(<<>>) = {}
  BY NoChecks DEF ToSet
<1>2. \A x : ToSet(<<x>>) = {x}
  BY DEF ToSet
<1>3. \A x, y : ToSet(<<x, y>>) = {x, y}
  BY DEF ToSet
<1>4. \A x, y, z : ToSet(<<x, y, z>>) = {x, y, z}
  BY DEF ToSet
<1> DEFINE part(f) == If(f \in formats, <<f>>)
<1>5. \A f \in Formats : /\ f \in formats => part(f) = <<f>>
                         /\ f \notin formats => part(f) = <<>>
  BY DEF If
<1>6. queue = part("deb") \o part("rpm") \o part("arch")
  OBVIOUS
<1> HIDE DEF part
<1>7. <<>> \in Seq(Formats) /\ \A x \in Formats : <<x>> \in Seq(Formats)
  OBVIOUS
<1>8. ASSUME NEW x \in Formats, NEW y \in Formats
      PROVE  <<x>> \o <<y>> = <<x, y>> /\ <<x, y>> \in Seq(Formats)
  BY TwoInSequence
<1>9. \A s \in Seq(Formats) : s \o <<>> = s /\ <<>> \o s = s
  BY ConcatEmptySeq
<1> DEFINE front == part("deb") \o part("rpm")
<1>10. {"deb", "rpm", "arch"} = Formats
  BY DEF Formats
<1>11. queue = front \o part("arch")
  BY <1>6
<1>12. /\ "arch" \in formats => part("arch") = <<"arch">>
       /\ "arch" \notin formats => part("arch") = <<>>
       /\ \A x, y \in Formats : <<x, y>> \in Seq(Formats) /\ <<x, y>> \o <<>> = <<x, y>>
  BY <1>5, <1>8, <1>9, <1>10
<1>13. CASE "deb" \in formats /\ "rpm" \in formats /\ "arch" \in formats
  <2>1. front = <<"deb", "rpm">>
    BY <1>5, <1>7, <1>8, <1>9, <1>10, <1>13
  <2> HIDE DEF front
  <2>2. queue = <<"deb", "rpm", "arch">>
    <3>1. queue = <<"deb", "rpm">> \o <<"arch">>
      BY <1>11, <1>12, <1>13, <2>1
    <3>2. <<"deb", "rpm">> \o <<"arch">> = <<"deb", "rpm", "arch">>
      BY <1>10, ThreeInSequence
    <3> QED
      BY <3>1, <3>2
  <2>3. formats = {"deb", "rpm", "arch"}
    BY <1>13 DEF Formats
  <2>4. <<"deb", "rpm", "arch">> \in Queues
    BY DEF Queues
  <2> QED
    BY <1>4, <2>2, <2>3, <2>4
<1>14. CASE "deb" \in formats /\ "rpm" \in formats /\ "arch" \notin formats
  <2>1. front = <<"deb", "rpm">>
    BY <1>5, <1>7, <1>8, <1>9, <1>10, <1>14
  <2> HIDE DEF front
  <2>2. queue = <<"deb", "rpm">>
    BY <1>10, <1>14, <1>11, <1>12, <2>1
  <2>3. formats = {"deb", "rpm"}
    BY <1>14 DEF Formats
  <2>4. <<"deb", "rpm">> \in Queues
    BY DEF Queues
  <2> QED
    BY <1>3, <2>2, <2>3, <2>4
<1>15. CASE "deb" \in formats /\ "rpm" \notin formats /\ "arch" \in formats
  <2>1. front = <<"deb">>
    BY <1>5, <1>7, <1>8, <1>9, <1>10, <1>15
  <2> HIDE DEF front
  <2>2. queue = <<"deb", "arch">>
    BY <1>7, <1>8, <1>9, <1>10, <1>15, <1>11, <1>12, <2>1
  <2>3. formats = {"deb", "arch"}
    BY <1>15 DEF Formats
  <2>4. <<"deb", "arch">> \in Queues
    BY DEF Queues
  <2> QED
    BY <1>3, <2>2, <2>3, <2>4
<1>16. CASE "deb" \in formats /\ "rpm" \notin formats /\ "arch" \notin formats
  <2>1. front = <<"deb">>
    BY <1>5, <1>7, <1>8, <1>9, <1>10, <1>16
  <2> HIDE DEF front
  <2>2. queue = <<"deb">>
    BY <1>7, <1>8, <1>9, <1>10, <1>16, <1>11, <1>12, <2>1
  <2>3. formats = {"deb"}
    BY <1>16 DEF Formats
  <2>4. <<"deb">> \in Queues
    BY DEF Queues
  <2> QED
    BY <1>2, <2>2, <2>3, <2>4
<1>17. CASE "deb" \notin formats /\ "rpm" \in formats /\ "arch" \in formats
  <2>1. front = <<"rpm">>
    BY <1>5, <1>7, <1>8, <1>9, <1>10, <1>17
  <2> HIDE DEF front
  <2>2. queue = <<"rpm", "arch">>
    BY <1>7, <1>8, <1>9, <1>10, <1>17, <1>11, <1>12, <2>1
  <2>3. formats = {"rpm", "arch"}
    BY <1>17 DEF Formats
  <2>4. <<"rpm", "arch">> \in Queues
    BY DEF Queues
  <2> QED
    BY <1>3, <2>2, <2>3, <2>4
<1>18. CASE "deb" \notin formats /\ "rpm" \in formats /\ "arch" \notin formats
  <2>1. front = <<"rpm">>
    BY <1>5, <1>7, <1>8, <1>9, <1>10, <1>18
  <2> HIDE DEF front
  <2>2. queue = <<"rpm">>
    BY <1>7, <1>8, <1>9, <1>10, <1>18, <1>11, <1>12, <2>1
  <2>3. formats = {"rpm"}
    BY <1>18 DEF Formats
  <2>4. <<"rpm">> \in Queues
    BY DEF Queues
  <2> QED
    BY <1>2, <2>2, <2>3, <2>4
<1>19. CASE "deb" \notin formats /\ "rpm" \notin formats /\ "arch" \in formats
  <2>1. front = <<>>
    BY <1>5, <1>7, <1>8, <1>9, <1>10, <1>19
  <2> HIDE DEF front
  <2>2. queue = <<"arch">>
    BY <1>7, <1>8, <1>9, <1>10, <1>19, <1>11, <1>12, <2>1
  <2>3. formats = {"arch"}
    BY <1>19 DEF Formats
  <2>4. <<"arch">> \in Queues
    BY DEF Queues
  <2> QED
    BY <1>2, <2>2, <2>3, <2>4
<1>20. CASE "deb" \notin formats /\ "rpm" \notin formats /\ "arch" \notin formats
  <2>1. front = <<>>
    BY <1>5, <1>7, <1>8, <1>9, <1>10, <1>20
  <2> HIDE DEF front
  <2>2. queue = <<>>
    BY <1>7, <1>8, <1>9, <1>10, <1>20, <1>11, <1>12, <2>1
  <2>3. formats = {}
    BY <1>20 DEF Formats
  <2>4. <<>> \in Queues
    BY DEF Queues
  <2> QED
    BY <1>1, <2>2, <2>3, <2>4
<1> QED
  BY <1>13, <1>14, <1>15, <1>16, <1>17, <1>18, <1>19, <1>20

(* The first of a queue is not in the rest.                                  *)
LEMMA QueueGoesOn ==
    ASSUME NEW queue \in Queues, queue # <<>>
    PROVE  /\ Tail(queue) \in Queues /\ Head(queue) \notin ToSet(Tail(queue))
           /\ ToSet(queue) = {Head(queue)} \cup ToSet(Tail(queue))
<1>1. ToSet(<<>>) = {}
  BY NoChecks DEF ToSet
<1>2. \A x : ToSet(<<x>>) = {x}
  BY DEF ToSet
<1>3. \A x, y : ToSet(<<x, y>>) = {x, y}
  BY DEF ToSet
<1>4. \A x, y, z : ToSet(<<x, y, z>>) = {x, y, z}
  BY DEF ToSet
<1> DEFINE Goes(q) == /\ Tail(q) \in Queues /\ Head(q) \notin ToSet(Tail(q))
                      /\ ToSet(q) = {Head(q)} \cup ToSet(Tail(q))
<1>5. ASSUME NEW x PROVE Goes(<<x>>)
  <2>1. Head(<<x>>) = x /\ Tail(<<x>>) = <<>> /\ <<>> \in Queues
    BY DEF Queues
  <2> QED
    BY <1>1, <1>2, <2>1
<1>6. ASSUME NEW x, NEW y, x # y, <<y>> \in Queues PROVE Goes(<<x, y>>)
  <2>1. Head(<<x, y>>) = x /\ Tail(<<x, y>>) = <<y>>
    OBVIOUS
  <2> QED
    BY <1>2, <1>3, <1>6, <2>1
<1>7. ASSUME NEW x, NEW y, NEW z, x \notin {y, z}, <<y, z>> \in Queues PROVE Goes(<<x, y, z>>)
  <2>1. Head(<<x, y, z>>) = x /\ Tail(<<x, y, z>>) = <<y, z>>
    OBVIOUS
  <2> QED
    BY <1>3, <1>4, <1>7, <2>1
<1> HIDE DEF Goes
<1>8. <<"rpm">> \in Queues /\ <<"arch">> \in Queues /\ <<"rpm", "arch">> \in Queues
  BY DEF Queues
<1>9. Goes(<<"deb">>) /\ Goes(<<"rpm">>) /\ Goes(<<"arch">>)
  BY <1>5
<1>10. Goes(<<"deb", "rpm">>) /\ Goes(<<"deb", "arch">>) /\ Goes(<<"rpm", "arch">>)
  BY <1>6, <1>8
<1>11. Goes(<<"deb", "rpm", "arch">>)
  BY <1>7, <1>8
<1>12. Goes(queue)
  BY <1>9, <1>10, <1>11 DEF Queues
<1> QED
  BY <1>12 DEF Goes

(* The plan keeps the invariant: it queues the formats asked for.            *)
LEMMA PlanKeeps ==
    ASSUME IInv, Plan
    PROVE  IInv'
<1>1. pc = "plan" /\ LayersMerged /\ Described /\ Determined /\ "description" \in DOMAIN given
  BY DEF Plan, IInv, Described
<1>2. given = GivenFrom(request) /\ "stamp" \notin DOMAIN config
  BY <1>1 DEF LayersMerged, Resolving
<1>3. /\ Advances("plan", "build") /\ pc' \in {"build", "ended"}
      /\ pending' = IF pc' = "build" THEN PlanQueue ELSE <<>>
      /\ pc' = "build" => warnings' = warnings \cup PlanHeard /\ "stamp" \in DOMAIN config'
      /\ pc' = "ended" => UNCHANGED <<warnings, config>>
      /\ UNCHANGED <<packages, failed, installed, earlier>>
  BY <1>1, PlanStep
<1>4. pending = <<>> /\ packages = NoKeys /\ failed = {}
  BY <1>2 DEF IInv, Queued
<1>5. request' = request /\ given' = given
  BY <1>3 DEF Advances
<1>6. CASE pc' = "ended"
  <2>1. config' = config /\ pending' = <<>>
    BY <1>3, <1>6
  <2>2. LayersMerged'
    BY <1>2, <1>5, <1>6, <2>1 DEF LayersMerged, BeforeInstall, Resolving
  <2>3. Determined'
    BY <1>1, <1>2, <1>5, <1>6, <2>1 DEF Determined
  <2>4. Described'
    BY <1>6 DEF Described
  <2>5. UNCHANGED buildVars
    BY <1>3, <1>4, <2>1 DEF buildVars
  <2>6. pc' \in Steps \ {"build"}
    BY <1>6 DEF Steps
  <2> QED
    BY <1>1, <1>2, <1>5, <2>1, <2>2, <2>3, <2>4, <2>5, <2>6, EarlyStep
<1>7. CASE pc' = "build"
  <2>1. /\ Agrees(config', request, given) /\ DOMAIN config' = KeysAt("build", given)
        /\ "stamp" \in DOMAIN config'
    BY <1>3, <1>7 DEF Advances
  <2>2. LayersMerged'
    BY <1>2, <1>5, <1>7 DEF LayersMerged, BeforeInstall
  <2>3. Determined'
    BY <1>5, <1>7, <2>1 DEF Determined
  <2>4. Described'
    BY <1>1, <1>5, <1>7 DEF Described
  <2>5. request.formats \subseteq Formats
    BY DEF IInv, IsInvocation, Formats
  <2>6. pending' \in Queues /\ ToSet(pending') = request.formats
    BY <1>3, <1>7, <2>5, TheQueue DEF PlanQueue
  <2>7. Queued'
    <3>1. DOMAIN NoKeys = {} /\ ~Done'
      BY <1>7, NothingGiven DEF Done
    <3>2. packages' = NoKeys /\ failed' = {}
      BY <1>3, <1>4
    <3>3. ToSet(pending') \cup failed' \cup DOMAIN packages' = request'.formats
      BY <1>5, <2>6, <3>1, <3>2
    <3>4. pc' \in Steps
      BY <1>7 DEF Steps
    <3> QED
      BY <2>1, <2>6, <3>1, <3>2, <3>3, <3>4 DEF Queued
  <2>8. Heard'
    <3>1. config'.init = config.init
      <4>1. "init" \in DOMAIN config /\ "init" \in DOMAIN config'
        BY <1>1, <2>1 DEF Determined, KeysAt, RuntimeKeys
      <4> QED
        BY <1>1, <2>1, <4>1 DEF Determined, Agrees
    <3> QED
      BY <1>3, <1>5, <1>7, <3>1 DEF Heard, PlanHeard
  <2>9. Built' /\ BuiltBefore'
    BY <1>3, <1>4, <1>5, NoPackage DEF IInv, Built, BuiltBefore
  <2> QED
    BY <1>5, <2>2, <2>3, <2>4, <2>7, <2>8, <2>9 DEF IInv
<1> QED
  BY <1>3, <1>6, <1>7

(* A step after the plan: nothing is resolved any more.                      *)
LEMMA LateStep ==
    ASSUME IInv, pc = "build", pc' \in {"build", "ended"},
           UNCHANGED <<request, given, config, warnings>>,
           Queued', Built', earlier' = earlier
    PROVE  IInv'
<1>1. "stamp" \in DOMAIN config /\ given = GivenFrom(request)
  <2>1. DOMAIN config = KeysAt("build", given)
    BY DEF IInv, Determined
  <2> QED
    BY <2>1, StampLast DEF IInv, LayersMerged
<1>2. LayersMerged' /\ Described'
  BY <1>1 DEF IInv, LayersMerged, Described, BeforeInstall, Resolving
<1>3. Determined'
  BY <1>1 DEF IInv, Determined
<1>4. Heard' /\ BuiltBefore'
  BY DEF IInv, Heard, BuiltBefore
<1> QED
  BY <1>2, <1>3, <1>4 DEF IInv

(* The package of a format, of the invocation and the configuration there is. *)
LEMMA PackageNow ==
    ASSUME NEW f
    PROVE  Package(f) = PackageIn(f, request, config)
  BY DEF Package, PackageIn, PackageOf, Generated, VariablesFor, FieldOf, Members

(* A format goes from the queue to those built or to those failed.           *)
LEMMA BuildKeeps ==
    ASSUME IInv, BuildFormat
    PROVE  IInv'
<1> DEFINE format == Head(pending)
<1>1. /\ pc = "build" /\ pending # <<>> /\ "dry-run" \notin request.switches
      /\ pending' = Tail(pending)
      /\ UNCHANGED <<request, pc, given, config, warnings, error, installed, earlier>>
      /\ \/ packages' = packages ++ [f \in {format} |-> Package(f)] /\ failed' = failed
         \/ failed' = failed \cup {format} /\ packages' = packages
  BY DEF BuildFormat, resolutionVars
<1>2. /\ Tail(pending) \in Queues /\ format \notin ToSet(Tail(pending))
      /\ ToSet(pending) = {format} \cup ToSet(Tail(pending))
  BY <1>1, QueueGoesOn DEF IInv, Queued
<1>3. "stamp" \in DOMAIN config /\ ToSet(pending) \cup failed \cup DOMAIN packages = request.formats
  <2>1. DOMAIN config = KeysAt("build", given)
    BY <1>1 DEF IInv, Determined
  <2> QED
    BY <2>1, StampLast DEF IInv, Queued
<1> HIDE DEF format
<1>4. failed \cap DOMAIN packages = {} /\ ToSet(pending) \cap (failed \cup DOMAIN packages) = {}
  BY DEF IInv, Queued
<1>5. ~Done' /\ pc' \in Steps
  BY <1>1 DEF Done, Steps
<1>6. CASE packages' = packages ++ [f \in {format} |-> Package(f)] /\ failed' = failed
  <2> DEFINE new == [f \in {format} |-> Package(f)]
  <2>1. /\ DOMAIN new = {format} /\ new[format] = PackageIn(format, request, config)
        /\ packages' = packages ++ new
    BY <1>6, PackageNow
  <2> HIDE DEF new
  <2>2. /\ DOMAIN packages' = DOMAIN packages \cup {format}
        /\ \A f \in DOMAIN packages : packages'[f] = packages[f]
        /\ \A f \in {format} \ DOMAIN packages : packages'[f] = new[f]
        /\ packages' = [f \in DOMAIN packages' |-> packages'[f]]
    BY <2>1 DEF ++
  <2>3. \A f \in DOMAIN packages' : packages'[f] = PackageIn(f, request, config)
    BY <2>1, <2>2 DEF IInv, Built
  <2>4. Built'
    BY <1>1, <2>2, <2>3 DEF Built
  <2>5. Queued'
    <3>1. failed' \cap DOMAIN packages' = {}
          /\ ToSet(pending') \cap (failed' \cup DOMAIN packages') = {}
      BY <1>1, <1>2, <1>4, <1>6, <2>2
    <3>2. ToSet(pending') \cup failed' \cup DOMAIN packages' = request'.formats
      BY <1>1, <1>2, <1>3, <1>6, <2>2
    <3> QED
      BY <1>1, <1>2, <1>3, <1>5, <3>1, <3>2 DEF Queued
  <2> QED
    BY <1>1, <2>4, <2>5, LateStep
<1>7. CASE failed' = failed \cup {format} /\ packages' = packages
  <2>1. Built'
    BY <1>1, <1>7 DEF IInv, Built
  <2>2. Queued'
    <3>1. failed' \cap DOMAIN packages' = {}
          /\ ToSet(pending') \cap (failed' \cup DOMAIN packages') = {}
      BY <1>1, <1>2, <1>4, <1>7
    <3>2. ToSet(pending') \cup failed' \cup DOMAIN packages' = request'.formats
      BY <1>1, <1>2, <1>3, <1>7
    <3>3. "dry-run" \notin request'.switches
      BY <1>1
    <3> QED
      BY <1>1, <1>2, <1>3, <1>5, <3>1, <3>2, <3>3 DEF Queued
  <2> QED
    BY <1>1, <2>1, <2>2, LateStep
<1> QED
  BY <1>1, <1>6, <1>7

(* The end of a run, with a report or without.                               *)
LEMMA EndKeeps ==
    ASSUME IInv, DryRun \/ Summarise
    PROVE  IInv'
<1>1. /\ pc = "build" /\ pc' = "ended"
      /\ UNCHANGED <<request, given, config, warnings, pending, packages, failed, installed, earlier>>
  BY DEF DryRun, Summarise, Goto, Fail, buildVars
<1>2. Done' => pending = <<>> /\ failed = {}
  <2>1. CASE DryRun
    BY <1>1, <2>1 DEF DryRun, Done, IInv, Queued
  <2>2. CASE Summarise
    <3>1. failed # {} => error' = "formats"
      BY <2>2 DEF Summarise, Fail
    <3> QED
      BY <2>2, <3>1 DEF Summarise, Done
  <2> QED
    BY <2>1, <2>2
<1>3. Queued'
  BY <1>1, <1>2 DEF IInv, Queued, Steps
<1>4. Built'
  BY <1>1 DEF IInv, Built
<1> QED
  BY <1>1, <1>3, <1>4, LateStep

(* The world around the tool: what is installed is no part of the invariant, *)
(* and a run from the start has resolved and built nothing.                  *)
LEMMA RerunKeeps ==
    ASSUME IInv, NEW next, Rerun(next), Done, IsInvocation(next), next.entry = "cli",
           BuiltBefore'
    PROVE  IInv'
<1>1. /\ request' = next /\ pc' = "main" /\ given' = NoKeys /\ config' = NoKeys
      /\ packages' = NoKeys /\ failed' = {} /\ pending' = pending
  BY DEF Rerun
<1>2. pending = <<>>
  BY DEF IInv, Queued
<1>3. DOMAIN NoKeys = {} /\ NoKeys = [key \in DOMAIN NoKeys |-> NoKeys[key]]
  BY NothingGiven
<1>4. LayersMerged'
  BY <1>1, <1>3 DEF LayersMerged, BeforeInstall, Resolving
<1>5. Described'
  BY <1>1 DEF Described
<1>6. Determined'
  <2>1. KeysAt("main", NoKeys) = {}
    BY DEF KeysAt
  <2>2. Agrees(NoKeys, request', NoKeys)
    BY <1>3, NothingAgrees
  <2> QED
    BY <1>1, <1>3, <2>1, <2>2 DEF Determined
<1>7. Queued'
  <2>1. ToSet(<<>>) = {}
    BY NoChecks DEF ToSet
  <2>2. ~Done' /\ "main" \in Steps /\ <<>> \in Queues
    BY <1>1 DEF Done, Steps, Queues
  <2> QED
    BY <1>1, <1>2, <1>3, <2>1, <2>2 DEF Queued
<1>8. Heard'
  BY <1>1, <1>3 DEF Heard
<1>9. Built'
  BY <1>1, NoPackage DEF Built
<1> QED
  BY <1>1, <1>4, <1>5, <1>6, <1>7, <1>8, <1>9 DEF IInv

(* The invocation of a later release is one.                                 *)
LEMMA LaterRelease ==
    ASSUME NEW r, IsInvocation(r), r.project = "released", NEW flags, IsLayer(flags),
           NEW next, next = [r EXCEPT !.flags = flags]
    PROVE  IsInvocation(next) /\ next.entry = "cli" /\ next.project = "released"
<1>1. r.entry = "cli"
  BY DEF IsInvocation
<1>2. /\ next = [entry |-> r.entry, flags |-> flags, switches |-> r.switches, file |-> r.file,
                 settings |-> r.settings, unknown |-> r.unknown, manifest |-> r.manifest,
                 formats |-> r.formats, world |-> r.world, templates |-> r.templates,
                 tree |-> r.tree, project |-> r.project]
  BY DEF IsInvocation
<1> QED
  BY <1>1, <1>2 DEF IsInvocation

(* An invocation stays one when its sources are checked out again later.     *)
LEMMA LaterCheckout ==
    ASSUME NEW r, IsInvocation(r), r.project = "rebuilt", NEW next, next = AtLaterCheckout(r)
    PROVE  IsInvocation(next) /\ next.entry = "cli" /\ next.project = "rebuilt"
<1> DEFINE later == {mtime + 1 : mtime \in r.world.mtimes}
           world == [sde |-> r.world.sde, git |-> r.world.git, mtimes |-> later]
<1>1. r.entry = "cli"
  BY DEF IsInvocation
<1>2. r.world \in [sde : Int, git : Int, mtimes : SUBSET Int]
  BY DEF IsInvocation
<1>8. later \subseteq Int
  BY <1>2
<1> HIDE DEF later
<1>9. [r.world EXCEPT !.mtimes = later] = world
  BY <1>2
<1>3. [r.world EXCEPT !.mtimes = later] = world /\ later \subseteq Int
  BY <1>8, <1>9
<1> HIDE DEF world
<1>4. next = [r EXCEPT !.world = world]
  BY <1>3 DEF AtLaterCheckout, later
<1>5. next = [entry |-> r.entry, flags |-> r.flags, switches |-> r.switches, file |-> r.file,
              settings |-> r.settings, unknown |-> r.unknown, manifest |-> r.manifest,
              formats |-> r.formats, world |-> world, templates |-> r.templates,
              tree |-> r.tree, project |-> r.project]
  BY <1>4 DEF IsInvocation
<1>6. world \in [sde : Int, git : Int, mtimes : SUBSET Int]
  BY <1>2, <1>3 DEF world
<1> QED
  BY <1>1, <1>5, <1>6 DEF IsInvocation

(* A later release starts from nothing,                                      *)
LEMMA NextReleaseKeeps ==
    ASSUME IInv, NextRelease
    PROVE  IInv'
<1>1. Done /\ request.project = "released" /\ earlier' = earlier
  BY DEF NextRelease
<1>2. PICK r \in Releases :
         Rerun([request EXCEPT !.flags =
                   (IF r.epoch = NoEpoch THEN [version |-> r.version] ELSE r) ++ @])
  BY DEF NextRelease
<1> DEFINE new   == IF r.epoch = NoEpoch THEN [version |-> r.version] ELSE r
           flags == new ++ request.flags
           next  == [request EXCEPT !.flags = flags]
<1>3. Rerun(next)
  BY <1>2 DEF new
<1>4. /\ DOMAIN new \in {{"version"}, {"version", "epoch"}} /\ new["version"] \in Seq(STRING)
  BY ReleasesAssumption
<1> HIDE DEF new
<1>5. IsLayer(flags)
  <2>1. /\ DOMAIN flags = DOMAIN new \cup DOMAIN request.flags
        /\ \A key \in DOMAIN new : flags[key] = new[key]
        /\ \A key \in DOMAIN request.flags \ DOMAIN new : flags[key] = request.flags[key]
    BY DEF ++
  <2>2. IsLayer(request.flags)
    BY DEF IInv, IsInvocation
  <2> HIDE DEF flags
  <2>3. \A key \in DOMAIN flags \cap TextKeys : flags[key] \in Seq(STRING)
    <3>1. SUFFICES ASSUME NEW key \in DOMAIN flags \cap TextKeys PROVE flags[key] \in Seq(STRING)
      OBVIOUS
    <3>2. CASE key \in DOMAIN new
      BY <1>4, <2>1, <3>2 DEF TextKeys
    <3>3. CASE key \notin DOMAIN new
      BY <2>1, <2>2, <3>3 DEF IsLayer
    <3> QED
      BY <3>2, <3>3
  <2>4. "init" \notin DOMAIN new /\ "dependencies" \notin DOMAIN new
    BY <1>4
  <2> QED
    BY <2>1, <2>2, <2>3, <2>4 DEF IsLayer
<1> HIDE DEF flags
<1>6. IsInvocation(next) /\ next.entry = "cli" /\ next.project = "released"
  BY <1>1, <1>5, LaterRelease DEF IInv
<1>7. BuiltBefore'
  BY <1>1 DEF IInv, BuiltBefore
<1> QED
  BY <1>1, <1>3, <1>6, <1>7, RerunKeeps

(* What there is when a run is done.                                         *)
LEMMA DoneBuilds ==
    ASSUME IInv, Done
    PROVE  /\ "stamp" \in DOMAIN config /\ config = ConfigOf(request)
           /\ packages = PackagesOf(request)
<1>1. "stamp" \in DOMAIN config /\ pending = <<>> /\ failed = {}
  BY DEF IInv, Queued, Done
<1>2. config = ConfigOf(request)
  BY <1>1, PlannedConfig DEF IInv
<1>3. DOMAIN packages = request.formats
  <2>1. ToSet(<<>>) = {}
    BY NoChecks DEF ToSet
  <2> QED
    BY <1>1, <2>1 DEF IInv, Queued
<1> QED
  BY <1>1, <1>2, <1>3 DEF IInv, Built, PackagesOf

(* and so does a second build, which remembers what the first one built.     *)
LEMMA RebuildKeeps ==
    ASSUME IInv, Rebuild
    PROVE  IInv'
<1>1. /\ Done /\ request.project = "rebuilt" /\ earlier' = packages
      /\ Rerun([request EXCEPT !.world.mtimes = {mtime + 1 : mtime \in @}])
  BY DEF Rebuild
<1>2. Rerun(AtLaterCheckout(request))
  BY <1>1 DEF AtLaterCheckout
<1>3. /\ IsInvocation(AtLaterCheckout(request)) /\ AtLaterCheckout(request).entry = "cli"
      /\ AtLaterCheckout(request).project = "rebuilt"
  BY <1>1, LaterCheckout DEF IInv
<1>4. request' = AtLaterCheckout(request)
  BY <1>2 DEF Rerun
<1>5. packages = PackagesOf(request) /\ IsInvocation(request)
  BY <1>1, DoneBuilds DEF IInv
<1>6. BuiltBefore'
  BY <1>1, <1>3, <1>4, <1>5 DEF BuiltBefore
<1> QED
  BY <1>1, <1>2, <1>3, <1>6, RerunKeeps

(* What a machine installs is nothing to the tool.                           *)
LEMMA IdleKeeps ==
    ASSUME IInv, UNCHANGED <<resolutionVars, pending, packages, failed, earlier>>
    PROVE  IInv'
<1>1. UNCHANGED <<request, pc, given, config, warnings, error, pending, packages, failed, earlier>>
  BY DEF resolutionVars
<1>2. LayersMerged' /\ Described' /\ Determined'
  BY <1>1 DEF IInv, LayersMerged, Described, Determined
<1>3. Queued'
  BY <1>1 DEF IInv, Queued, Done
<1>4. Heard' /\ Built' /\ BuiltBefore'
  BY <1>1 DEF IInv, Heard, Built, BuiltBefore
<1> QED
  BY <1>1, <1>2, <1>3, <1>4 DEF IInv

(* The invariant is inductive.                                               *)
LEMMA Inductive == IInv /\ [Next]_vars => IInv'
<1> SUFFICES ASSUME IInv, [Next]_vars PROVE IInv'
  OBVIOUS
<1>1. CASE (ReadRequest \/ Resolve) /\ UNCHANGED buildVars
  BY <1>1, ReadRequestKeeps, ResolveKeeps
<1>2. CASE Plan
  BY <1>2, PlanKeeps
<1>3. CASE BuildFormat
  BY <1>3, BuildKeeps
<1>4. CASE DryRun \/ Summarise
  BY <1>4, EndKeeps
<1>5. CASE NextRelease
  BY <1>5, NextReleaseKeeps
<1>6. CASE Rebuild
  BY <1>6, RebuildKeeps
<1>7. CASE \E format \in Formats : Install(format)
  BY <1>7, IdleKeeps DEF Install
<1>8. CASE UNCHANGED vars
  BY <1>8, IdleKeeps DEF vars
<1> QED
  BY <1>1, <1>2, <1>3, <1>4, <1>5, <1>6, <1>7, <1>8 DEF Next, Tool

(* It holds at first, whoever starts the run.                                *)
LEMMA Initially == Init => IInv
<1> SUFFICES ASSUME Init PROVE IInv
  OBVIOUS
<1>1. /\ request \in Requests /\ config = NoKeys /\ error = "none"
      /\ \/ request.entry = "cli" /\ pc = "main" /\ given = NoKeys
         \/ /\ request.entry = "library" /\ pc = "install"
            /\ given = request.flags ++ request.settings ++ request.manifest
      /\ pending = <<>> /\ packages = NoKeys /\ failed = {} /\ earlier = NoKeys
  BY DEF Init, ResolutionInit
<1>2. IsInvocation(request)
  BY <1>1, RequestsAssumption
<1>3. DOMAIN NoKeys = {} /\ NoKeys = [key \in DOMAIN NoKeys |-> NoKeys[key]]
  BY NothingGiven
<1>4. LayersMerged
  BY <1>1, <1>3 DEF LayersMerged, BeforeInstall, Resolving, GivenFrom
<1>5. Described
  BY <1>1 DEF Described
<1>6. Determined
  <2>1. KeysAt("main", given) = {} /\ KeysAt("install", given) = {}
    BY DEF KeysAt
  <2>2. Agrees(NoKeys, request, given)
    BY <1>3, NothingAgrees
  <2> QED
    BY <1>1, <1>3, <2>1, <2>2 DEF Determined
<1>7. Queued
  <2>1. ToSet(<<>>) = {}
    BY NoChecks DEF ToSet
  <2>2. ~Done /\ pc \in Steps /\ <<>> \in Queues
    BY <1>1 DEF Done, Steps, Queues
  <2> QED
    BY <1>1, <1>3, <2>1, <2>2 DEF Queued
<1>8. Heard /\ BuiltBefore
  BY <1>1, <1>3 DEF Heard, BuiltBefore
<1>9. Built
  BY <1>1, NoPackage DEF Built
<1> QED
  BY <1>2, <1>4, <1>5, <1>6, <1>7, <1>8, <1>9 DEF IInv

(* Every state is one of the inductive invariant.                            *)
THEOREM Invariance == Spec => []IInv
  BY Initially, Inductive, PTL DEF Spec

-----------------------------------------------------------------------------
(* What a layer holds, all of them hold together.                            *)
LEMMA LayersOver ==
    ASSUME NEW f, NEW g, IsLayer(f), IsLayer(g)
    PROVE  IsLayer(f ++ g)
<1> DEFINE both == f ++ g
<1>1. /\ DOMAIN both = DOMAIN f \cup DOMAIN g
      /\ \A key \in DOMAIN f : both[key] = f[key]
      /\ \A key \in DOMAIN g \ DOMAIN f : both[key] = g[key]
  BY DEF ++
<1> HIDE DEF both
<1>2. IsLayer(both)
  BY <1>1 DEF IsLayer
<1> QED
  BY <1>2 DEF both

(* What the layers give together is what a layer may hold.                   *)
LEMMA GivenIsALayer ==
    ASSUME NEW r, IsInvocation(r)
    PROVE  IsLayer(GivenFrom(r))
<1> DEFINE current == Restrict(r.flags, DOMAIN r.flags \ {"arch"})
           legacy  == IF "arch" \in DOMAIN r.flags /\ "architecture" \notin DOMAIN r.flags
                      THEN [architecture |-> r.flags["arch"]] ELSE NoKeys
<1>1. IsLayer(r.flags) /\ IsLayer(r.settings) /\ IsLayer(r.manifest)
  BY DEF IsInvocation
<1>2. IsLayer(current)
  <2>1. /\ DOMAIN current \subseteq DOMAIN r.flags
        /\ \A key \in DOMAIN current : current[key] = r.flags[key]
    BY DEF Restrict
  <2> HIDE DEF current
  <2> QED
    BY <1>1, <2>1 DEF IsLayer
<1>3. IsLayer(legacy)
  <2>1. DOMAIN legacy \subseteq {"architecture"}
    BY NothingGiven
  <2> HIDE DEF legacy
  <2> QED
    BY <2>1 DEF IsLayer, TextKeys
<1>4. GivenFrom(r) = IF r.entry = "library" THEN r.flags ++ r.settings ++ r.manifest
                     ELSE current ++ legacy ++ r.settings
  BY DEF GivenFrom
<1> HIDE DEF current, legacy
<1>5. IsLayer(r.flags ++ r.settings ++ r.manifest)
  BY <1>1, LayersOver
<1>6. IsLayer(current ++ legacy ++ r.settings)
  BY <1>1, <1>2, <1>3, LayersOver
<1> QED
  BY <1>4, <1>5, <1>6

(* The keys the layers give, and what each of them is.                       *)
LEMMA GivenKeys ==
    ASSUME NEW r, IsInvocation(r)
    PROVE  /\ DOMAIN GivenFrom(r) \subseteq DOMAIN r.flags \cup DOMAIN r.settings
                                            \cup DOMAIN r.manifest \cup {"architecture"}
           /\ DOMAIN r.settings \subseteq DOMAIN GivenFrom(r)
           /\ DOMAIN r.flags \ {"arch"} \subseteq DOMAIN GivenFrom(r)
           /\ DOMAIN r.manifest \subseteq DOMAIN GivenFrom(r)
           /\ \A key \in DOMAIN GivenFrom(r) \ {"architecture"} :
                 GivenFrom(r)[key] =
                     IF key \in DOMAIN r.flags \ {"arch"} THEN r.flags[key]
                     ELSE IF key \in DOMAIN r.settings THEN r.settings[key] ELSE r.manifest[key]
<1> DEFINE current == Restrict(r.flags, DOMAIN r.flags \ {"arch"})
           legacy  == IF "arch" \in DOMAIN r.flags /\ "architecture" \notin DOMAIN r.flags
                      THEN [architecture |-> r.flags["arch"]] ELSE NoKeys
<1>1. CASE r.entry = "library"
  <2>1. GivenFrom(r) = r.flags ++ r.settings ++ r.manifest /\ "arch" \notin DOMAIN r.flags
    BY <1>1 DEF GivenFrom, IsInvocation
  <2> QED
    BY <2>1 DEF ++
<1>2. CASE r.entry # "library"
  <2>1. GivenFrom(r) = current ++ legacy ++ r.settings /\ DOMAIN r.manifest = {}
    BY <1>2, NothingGiven DEF GivenFrom, IsInvocation
  <2>2. /\ DOMAIN current = DOMAIN r.flags \ {"arch"}
        /\ \A key \in DOMAIN current : current[key] = r.flags[key]
    BY DEF Restrict
  <2>3. DOMAIN legacy \subseteq {"architecture"}
    BY NothingGiven
  <2> HIDE DEF current, legacy
  <2>4. /\ DOMAIN GivenFrom(r) = DOMAIN current \cup DOMAIN legacy \cup DOMAIN r.settings
        /\ \A key \in DOMAIN GivenFrom(r) \ {"architecture"} :
              GivenFrom(r)[key] = IF key \in DOMAIN current THEN current[key] ELSE r.settings[key]
    BY <2>1, <2>3 DEF ++
  <2> QED
    BY <2>1, <2>2, <2>3, <2>4
<1> QED
  BY <1>1, <1>2

(* The type invariant: what every state of a run shares, whatever the        *)
(* invocations, the releases and the limits (run.rs, core/resolve.rs).       *)
THEOREM Typed == Spec => []TypeOK
<1>1. IInv => TypeOK
  <2> SUFFICES ASSUME IInv PROVE TypeOK
    OBVIOUS
  <2>1. IsInvocation(request) /\ pc \in Steps
    BY DEF IInv, Queued
  <2>2. DOMAIN given \subseteq DOMAIN request.flags \cup DOMAIN request.settings
                               \cup DOMAIN request.manifest \cup {"architecture"}
    <3>1. given \in {NoKeys, GivenFrom(request)}
      BY DEF IInv, LayersMerged
    <3> QED
      BY <2>1, <3>1, GivenKeys, NothingGiven
  <2>3. pc = "build" => "stamp" \in DOMAIN config
    BY StampLast DEF IInv, Determined
  <2>4. packages # NoKeys => pc \in {"build", "ended"} /\ "stamp" \in DOMAIN config
    BY DEF IInv, Queued, LayersMerged
  <2> QED
    BY <2>1, <2>2, <2>3, <2>4 DEF TypeOK, IInv, Queued
<1> QED
  BY <1>1, Invariance, PTL

-----------------------------------------------------------------------------
(* Whose fault it is that a run fails.                                       *)

(* What an invocation gives for a key, in the layer that counts.             *)
IsMeantIn(r, key) == key \in DOMAIN r.flags \cup DOMAIN r.settings \cup DOMAIN r.manifest
MeantIn(r, key)   == IF key \in DOMAIN r.flags THEN r.flags[key]
                     ELSE IF key \in DOMAIN r.settings THEN r.settings[key] ELSE r.manifest[key]

(* An invocation deserves to be told that it fails at a field.               *)
Deserved(r, field) ==
    /\ field = "package_name" =>
          \/ IsMeantIn(r, "package_name") /\ ~ValidPackageName(MeantIn(r, "package_name"))
          \/ ~IsMeantIn(r, "package_name") /\ ~IsMeantIn(r, "name")
    /\ field = "user" => IsMeantIn(r, "user") /\ ~ValidUnixName(MeantIn(r, "user"))
    /\ field = "group" => IsMeantIn(r, "group") /\ ~ValidUnixName(MeantIn(r, "group"))
    /\ field = "install_dir" =>
          IsMeantIn(r, "install_dir") /\ ~ValidInstallDir(MeantIn(r, "install_dir"))
    /\ field = "executable_name" =>
          IsMeantIn(r, "executable_name") /\ ~ValidExecutableName(MeantIn(r, "executable_name"))
    /\ field = "daemon" => IsMeantIn(r, "daemon") /\ ~ValidEntryPoint(MeantIn(r, "daemon"))
    /\ field = "cli" => ~ValidEntryPoint(MeantIn(r, "cli"))
    /\ field = "maintainer" => IsMeantIn(r, "maintainer") /\ ~SingleLine(MeantIn(r, "maintainer"))
    /\ field = "description" => IsMeantIn(r, "description") /\ ~Printable(MeantIn(r, "description"))
    /\ field = "install_command" =>
          IsMeantIn(r, "install_command") /\ ~SingleLine(MeantIn(r, "install_command"))
    /\ field # "mapped_version"
    /\ field = "architecture" => IsMeantIn(r, "architecture") \/ IsMeantIn(r, "arch")

(* The name there is, given or derived, is one of a package.                 *)
NameIsValid(g) == NameOf(g) \in Seq(PackageChar) /\ ValidPackageName(NameOf(g))
Named == "package_name" \in DOMAIN config => NameIsValid(given)

(* What is given is what is meant.                                           *)
LEMMA GivenIsMeant ==
    ASSUME NEW r, IsInvocation(r), NEW key \in TextKeys
    PROVE  /\ key \in DOMAIN GivenFrom(r) <=> IsMeantIn(r, key)
           /\ key \in DOMAIN GivenFrom(r) =>
                 GivenFrom(r)[key] = MeantIn(r, key) /\ GivenFrom(r)[key] \in Seq(STRING)
<1>1. key # "architecture" /\ key # "arch"
  BY DEF TextKeys
<1>2. key \in DOMAIN GivenFrom(r) <=> IsMeantIn(r, key)
  BY <1>1, GivenKeys DEF IsMeantIn
<1>3. ASSUME key \in DOMAIN GivenFrom(r) PROVE GivenFrom(r)[key] = MeantIn(r, key)
  <2>1. GivenFrom(r)[key] =
            IF key \in DOMAIN r.flags \ {"arch"} THEN r.flags[key]
            ELSE IF key \in DOMAIN r.settings THEN r.settings[key] ELSE r.manifest[key]
    BY <1>1, <1>3, GivenKeys
  <2> QED
    BY <1>1, <2>1 DEF MeantIn
<1>4. ASSUME key \in DOMAIN GivenFrom(r) PROVE GivenFrom(r)[key] \in Seq(STRING)
  BY <1>4, GivenIsALayer DEF IsLayer
<1> QED
  BY <1>2, <1>3, <1>4

(* An architecture is given only to who asks for one.                        *)
LEMMA ArchitectureIsMeant ==
    ASSUME NEW r, IsInvocation(r), "architecture" \in DOMAIN GivenFrom(r)
    PROVE  IsMeantIn(r, "architecture") \/ IsMeantIn(r, "arch")
<1> DEFINE current == Restrict(r.flags, DOMAIN r.flags \ {"arch"})
           legacy  == IF "arch" \in DOMAIN r.flags /\ "architecture" \notin DOMAIN r.flags
                      THEN [architecture |-> r.flags["arch"]] ELSE NoKeys
<1>1. CASE r.entry = "library"
  <2>1. GivenFrom(r) = r.flags ++ r.settings ++ r.manifest
    BY <1>1 DEF GivenFrom
  <2> QED
    BY <2>1 DEF ++, IsMeantIn
<1>2. CASE r.entry # "library"
  <2>1. GivenFrom(r) = current ++ legacy ++ r.settings
    BY <1>2 DEF GivenFrom
  <2>2. DOMAIN current \subseteq DOMAIN r.flags
    BY DEF Restrict
  <2>3. DOMAIN legacy # {} => "arch" \in DOMAIN r.flags
    BY NothingGiven
  <2> HIDE DEF current, legacy
  <2>4. DOMAIN GivenFrom(r) = DOMAIN current \cup DOMAIN legacy \cup DOMAIN r.settings
    BY <2>1 DEF ++
  <2> QED
    BY <2>2, <2>3, <2>4 DEF IsMeantIn
<1> QED
  BY <1>1, <1>2

(* What the tool uses when it is given nothing holds no control character.   *)
LEMMA DefaultCommand == SingleLine(DefaultInstallCommand)
<1> DEFINE T == {"npm", " ", "install"}
<1>1. DefaultInstallCommand \in Seq(T)
  BY DEF DefaultInstallCommand
<1> HIDE DEF T
<1>2. ToSet(DefaultInstallCommand) \subseteq T
  BY <1>1, CharsOf
<1> QED
  BY <1>2 DEF SingleLine, ControlChar, T

(* The checks of a step fail, at the first that does not hold.               *)
FailsFirst(checks, n) ==
    \E i \in 1..n : /\ ~checks[i].holds /\ error' = checks[i].field
                    /\ \A j \in 1..n : j < i => checks[j].holds

(* A step fails at the first of its checks that does not hold, or goes on.   *)
LEMMA FailsOrGoesOn ==
    ASSUME NEW n \in Nat, NEW checks, DOMAIN checks = 1..n, NEW next, NEW found, NEW heard,
           Checked(checks, next, found, heard)
    PROVE  \/ FailsFirst(checks, n)
           \/ error' = error /\ pc' = next /\ \A i \in 1..n : checks[i].holds
  BY ChecksEnd DEF FailsFirst

(* A command of several lines is one that was given: the default has one     *)
(* (resolve.rs, resolve_install_command).                                    *)
LEMMA InstallBlames ==
    ASSUME IsInvocation(request), given = GivenFrom(request), ResolveInstall,
           Deserved(request, error)
    PROVE  Deserved(request, error')
<1> DEFINE command == Or("install_command", DefaultInstallCommand)
           binary  == Or("install_binary", CommandBinary(command))
           found   == [install_command |-> command, install_binary |-> binary]
           checks  == <<Check("install_command", SingleLine(command)),
                        Check("install_binary", Token(binary))>>
<1>1. Checked(checks, "unknown_keys", found, {}) /\ DOMAIN checks = 1..2
  BY DEF ResolveInstall
<1>2. /\ checks[1].field = "install_command" /\ checks[2].field = "install_binary"
      /\ checks[1].holds <=> SingleLine(command)
  BY DEF Check
<1>3. ~SingleLine(command) => /\ IsMeantIn(request, "install_command")
                              /\ ~SingleLine(MeantIn(request, "install_command"))
  BY DefaultCommand, GivenIsMeant DEF Or, Given, TextKeys
<1> HIDE DEF checks, command, found
<1>4. CASE FailsFirst(checks, 2)
  <2>1. PICK i \in 1..2 : ~checks[i].holds /\ error' = checks[i].field
    BY <1>4 DEF FailsFirst
  <2>2. i = 1 \/ i = 2
    BY <2>1
  <2> QED
    BY <1>2, <1>3, <2>1, <2>2 DEF Deserved
<1> QED
  BY <1>1, <1>4, FailsOrGoesOn

(* A name that is refused was given as it is, or there is none; one that is  *)
(* not refused is valid, normalised or not (resolve.rs,                      *)
(* resolve_package_name).                                                    *)
LEMMA NameBlames ==
    ASSUME IsInvocation(request), given = GivenFrom(request), ResolvePackageName,
           Deserved(request, error)
    PROVE  /\ Deserved(request, error')
           /\ pc' = "version" => NameIsValid(given)
<1> DEFINE name       == given["package_name"]
           normalised == NormalizedPackageName(given["name"])
<1>1. CASE Given("package_name")
  <2>1. \/ pc' = "ended" /\ error' = "package_name" /\ ~ValidPackageName(name)
        \/ pc' = "version" /\ error' = error /\ ValidPackageName(name)
    <3> DEFINE checks == <<Check("package_name", ValidPackageName(name))>>
               found  == [package_name |-> name]
    <3>1. Checked(checks, "version", found, {}) /\ DOMAIN checks = 1..1
      BY <1>1 DEF ResolvePackageName
    <3>2. checks[1].field = "package_name" /\ (checks[1].holds <=> ValidPackageName(name))
      BY DEF Check
    <3> HIDE DEF checks, found
    <3>3. 1 \in 1..1 /\ \A i \in 1..1 : i = 1
      OBVIOUS
    <3> QED
      BY <3>1, <3>2, <3>3, ChecksEnd
  <2>2. name = MeantIn(request, "package_name") /\ IsMeantIn(request, "package_name")
        /\ name \in Seq(STRING)
    BY <1>1, GivenIsMeant DEF Given, TextKeys
  <2>3. ValidPackageName(name) => NameIsValid(given)
    <3>1. NameOf(given) = name
      BY <1>1 DEF NameOf, Given
    <3> HIDE DEF name
    <3> QED
      BY <2>2, <3>1, PackageNamesAreWritten DEF NameIsValid
  <2> QED
    BY <2>1, <2>2, <2>3 DEF Deserved
<1>2. CASE ~Given("package_name") /\ ~Given("name")
  <2>1. pc' = "ended" /\ error' = "package_name"
    BY <1>2 DEF ResolvePackageName, Fail
  <2>2. ~IsMeantIn(request, "package_name") /\ ~IsMeantIn(request, "name")
    BY <1>2, GivenIsMeant DEF Given, TextKeys
  <2> QED
    BY <2>1, <2>2 DEF Deserved
<1>3. CASE ~Given("package_name") /\ Given("name")
  <2>1. \/ pc' = "ended" /\ error' = "name"
        \/ pc' = "version" /\ error' = error /\ ValidPackageName(normalised)
    <3> DEFINE checks == <<Check("name", ValidPackageName(normalised))>>
               found  == [package_name |-> normalised]
               heard  == WarnIf(normalised # given["name"], "PackageNameNormalised", "name")
    <3>1. Checked(checks, "version", found, heard) /\ DOMAIN checks = 1..1
      BY <1>3 DEF ResolvePackageName
    <3>2. checks[1].field = "name" /\ (checks[1].holds <=> ValidPackageName(normalised))
      BY DEF Check
    <3> HIDE DEF checks, found, heard
    <3>3. 1 \in 1..1 /\ \A i \in 1..1 : i = 1
      OBVIOUS
    <3> QED
      BY <3>1, <3>2, <3>3, ChecksEnd
  <2>2. given["name"] \in Seq(STRING)
    BY <1>3, GivenIsMeant DEF Given, TextKeys
  <2>3. ValidPackageName(normalised) => NameIsValid(given)
    <3>1. NameOf(given) = normalised
      BY <1>3 DEF NameOf, Given
    <3>2. normalised \in Seq(PackageChar)
      BY <2>2, PackageNamesAreWritten
    <3> HIDE DEF normalised
    <3> QED
      BY <3>1, <3>2 DEF NameIsValid
  <2> QED
    BY <2>1, <2>3 DEF Deserved
<1> QED
  BY <1>1, <1>2, <1>3

(* What a version maps to is never refused (version.rs:99).                  *)
LEMMA VersionBlames ==
    ASSUME IsInvocation(request), given = GivenFrom(request), ResolveVersion,
           Deserved(request, error)
    PROVE  Deserved(request, error')
<1>1. CASE ~Given("version")
  BY <1>1 DEF ResolveVersion, Fail, Deserved
<1>2. CASE Given("version")
  <2> DEFINE version == given["version"]
             mapped  == MappedVersion(version, Or("epoch", NoEpoch))
             checks  == <<Check("version", IsSpec(version)),
                          Check("mapped_version", ValidUpstream(mapped.base))>>
             found   == [version |-> mapped]
             heard   == WarnIf(IsLiteral(version), "VersionNotMapped", "version")
                        \cup WarnIf(HyphensRewritten(version), "VersionHyphensRewritten", "version")
  <2>1. Checked(checks, "placement", found, heard) /\ DOMAIN checks = 1..2
    BY <1>2 DEF ResolveVersion
  <2>2. /\ checks[1].field = "version" /\ checks[2].field = "mapped_version"
        /\ checks[1].holds <=> IsSpec(version)
        /\ checks[2].holds <=> ValidUpstream(MappedBase(version))
    BY DEF Check, MappedVersion
  <2>3. version \in Seq(STRING)
    BY <1>2, GivenIsMeant DEF Given, TextKeys
  <2> HIDE DEF version, checks, found, heard
  <2>4. IsSpec(version) => ValidUpstream(MappedBase(version))
    BY <2>3, MappedVersionsAreValid
  <2>5. CASE FailsFirst(checks, 2)
    <3>1. PICK i \in 1..2 : /\ ~checks[i].holds /\ error' = checks[i].field
                            /\ \A j \in 1..2 : j < i => checks[j].holds
      BY <2>5 DEF FailsFirst
    <3>2. i = 1
      BY <2>2, <2>4, <3>1
    <3> QED
      BY <2>2, <3>1, <3>2 DEF Deserved
  <2> QED
    BY <2>1, <2>5, FailsOrGoesOn
<1> QED
  BY <1>1, <1>2

(* Of the accounts, the directory and the command only a given one is        *)
(* refused; a group that falls back to the user is not looked at before the  *)
(* user is (resolve.rs, resolve_placement).                                  *)
LEMMA PlacementBlames ==
    ASSUME IsInvocation(request), given = GivenFrom(request), Determined, NameIsValid(given),
           ResolvePlacement, Deserved(request, error)
    PROVE  Deserved(request, error')
<1> DEFINE name    == config.package_name
           user    == Or("user", DerivedUnixName(name))
           group   == Or("group", user)
           dir     == Or("install_dir", <<"/", "u">>)
           command == Or("executable_name", name)
           checks  == <<Check("user", ValidUnixName(user)), Check("group", ValidUnixName(group)),
                        Check("install_dir", ValidInstallDir(dir)),
                        Check("executable_name", ValidExecutableName(command))>>
           found   == [architecture |-> Or("architecture", "all"), install_dir |-> InstallDir(dir),
                       user |-> user, group |-> group, executable_name |-> command]
           heard   == WarnIf(~Given("user") /\ user # name, "UnixNameDerived", "user")
<1>1. Checked(checks, "runtime", found, heard) /\ DOMAIN checks = 1..4
  BY DEF ResolvePlacement
<1>2. name \in Seq(PackageChar) /\ ValidPackageName(name)
  <2>1. "package_name" \in DOMAIN config
    BY DEF ResolvePlacement, Determined, KeysAt
  <2>2. config["package_name"] = Resolved(request, given)["package_name"]
    BY <2>1 DEF Determined, Agrees
  <2>3. name = NameOf(given)
    BY <2>2 DEF Resolved
  <2> QED
    BY <2>3 DEF NameIsValid
<1>3. /\ checks[1].field = "user" /\ checks[2].field = "group"
      /\ checks[3].field = "install_dir" /\ checks[4].field = "executable_name"
      /\ checks[1].holds <=> ValidUnixName(user)
      /\ checks[2].holds <=> ValidUnixName(group)
      /\ checks[3].holds <=> ValidInstallDir(dir)
      /\ checks[4].holds <=> ValidExecutableName(command)
  BY DEF Check
<1> HIDE DEF name, checks, found, heard
<1>4. ~ValidUnixName(user) =>
         IsMeantIn(request, "user") /\ ~ValidUnixName(MeantIn(request, "user"))
  <2>1. ValidUnixName(DerivedUnixName(name))
    BY <1>2, DerivedNamesAreValid
  <2> QED
    BY <2>1, GivenIsMeant DEF Or, Given, TextKeys
<1>5. ValidUnixName(user) /\ ~ValidUnixName(group) =>
         IsMeantIn(request, "group") /\ ~ValidUnixName(MeantIn(request, "group"))
  <2> HIDE DEF user
  <2> QED
    BY GivenIsMeant DEF Or, Given, TextKeys
<1>6. ~ValidInstallDir(dir) =>
         IsMeantIn(request, "install_dir") /\ ~ValidInstallDir(MeantIn(request, "install_dir"))
  BY DefaultDirIsValid, GivenIsMeant DEF Or, Given, TextKeys
<1>7. ~ValidExecutableName(command) =>
         /\ IsMeantIn(request, "executable_name")
         /\ ~ValidExecutableName(MeantIn(request, "executable_name"))
  <2>1. ValidExecutableName(name)
    BY <1>2, PackageNamesAreCommands
  <2> QED
    BY <2>1, GivenIsMeant DEF Or, Given, TextKeys
<1> HIDE DEF user, group, dir, command
<1>8. CASE FailsFirst(checks, 4)
  <2>1. PICK i \in 1..4 : /\ ~checks[i].holds /\ error' = checks[i].field
                          /\ \A j \in 1..4 : j < i => checks[j].holds
    BY <1>8 DEF FailsFirst
  <2>2. i = 1 \/ i = 2 \/ i = 3 \/ i = 4
    BY <2>1
  <2>3. CASE i = 1
    BY <1>3, <1>4, <2>1, <2>3 DEF Deserved
  <2>4. CASE i = 2
    <3>1. checks[1].holds
      BY <2>1, <2>4
    <3> QED
      BY <1>3, <1>5, <2>1, <2>4, <3>1 DEF Deserved
  <2>5. CASE i = 3
    BY <1>3, <1>6, <2>1, <2>5 DEF Deserved
  <2>6. CASE i = 4
    BY <1>3, <1>7, <2>1, <2>6 DEF Deserved
  <2> QED
    BY <2>2, <2>3, <2>4, <2>5, <2>6
<1> QED
  BY <1>1, <1>8, FailsOrGoesOn

(* A daemon, or a cli, that is refused was given; a cli that falls back to   *)
(* the daemon comes after it (resolve.rs, resolve_runtime).                  *)
LEMMA RuntimeBlames ==
    ASSUME IsInvocation(request), given = GivenFrom(request), ResolveRuntime,
           Deserved(request, error)
    PROVE  Deserved(request, error')
<1> DEFINE init    == Or("init", "auto")
           daemon  == given["daemon"]
           cli     == Or("cli", Or("daemon", <<>>))
           entries == (IF Given("daemon") THEN [daemon |-> EntryPoint(daemon)] ELSE NoKeys)
                      ++ (IF Given("daemon") \/ Given("cli") THEN [cli |-> EntryPoint(cli)] ELSE NoKeys)
           checks  == <<Check("no_daemon", init = "none" \/ Given("daemon")),
                        Check("daemon", Given("daemon") => ValidEntryPoint(daemon)),
                        Check("cli", Given("daemon") \/ Given("cli") => ValidEntryPoint(cli))>>
           found   == [init |-> init, install_strategy |-> Or("install_strategy", "auto")] ++ entries
<1>1. Checked(checks, "texts", found, {}) /\ DOMAIN checks = 1..3
  BY DEF ResolveRuntime
<1>2. /\ checks[1].field = "no_daemon" /\ checks[2].field = "daemon" /\ checks[3].field = "cli"
      /\ checks[2].holds <=> (Given("daemon") => ValidEntryPoint(daemon))
      /\ checks[3].holds <=> (Given("daemon") \/ Given("cli") => ValidEntryPoint(cli))
  BY DEF Check
<1> HIDE DEF checks, found
<1>3. Given("daemon") /\ ~ValidEntryPoint(daemon) =>
         IsMeantIn(request, "daemon") /\ ~ValidEntryPoint(MeantIn(request, "daemon"))
  BY GivenIsMeant DEF Given, TextKeys
<1>4. checks[2].holds /\ ~checks[3].holds => ~ValidEntryPoint(MeantIn(request, "cli"))
  <2>1. Given("cli") => cli = MeantIn(request, "cli")
    BY GivenIsMeant DEF Or, Given, TextKeys
  <2>2. ~Given("cli") /\ Given("daemon") => cli = daemon
    BY DEF Or, Given
  <2> HIDE DEF cli, daemon
  <2> QED
    BY <1>2, <2>1, <2>2
<1> HIDE DEF cli, daemon
<1>5. CASE FailsFirst(checks, 3)
  <2>1. PICK i \in 1..3 : /\ ~checks[i].holds /\ error' = checks[i].field
                          /\ \A j \in 1..3 : j < i => checks[j].holds
    BY <1>5 DEF FailsFirst
  <2>2. i = 1 \/ i = 2 \/ i = 3
    BY <2>1
  <2>3. CASE i = 1
    BY <1>2, <2>1, <2>3 DEF Deserved
  <2>4. CASE i = 2
    BY <1>2, <1>3, <2>1, <2>4 DEF Deserved
  <2>5. CASE i = 3
    <3>1. checks[2].holds
      BY <2>1, <2>5
    <3> QED
      BY <1>2, <1>4, <2>1, <2>5, <3>1 DEF Deserved
  <2> QED
    BY <2>2, <2>3, <2>4, <2>5
<1> QED
  BY <1>1, <1>5, FailsOrGoesOn

(* So was a text that is refused.                                            *)
LEMMA TextsBlames ==
    ASSUME IsInvocation(request), given = GivenFrom(request), ResolveTexts,
           Deserved(request, error)
    PROVE  Deserved(request, error')
<1> DEFINE dependencies == WithNodejs(Or("dependencies", <<>>), "nodejs" \in request.switches)
           checks == <<Check("no_description", Given("description")),
                       Check("no_maintainer", Given("maintainer")),
                       Check("description", Given("description") => Printable(given["description"])),
                       Check("maintainer", Given("maintainer") => SingleLine(given["maintainer"])),
                       Check("homepage", Given("homepage") => Token(given["homepage"])),
                       Check("license", Given("license") => SingleLine(given["license"])),
                       Check("dependencies",
                             \A i \in DOMAIN dependencies : dependencies[i].spelling # "folded")>>
           found  == Taken({"description", "maintainer", "homepage", "license", "triggers_file"})
                     ++ [dependencies |-> dependencies]
<1>1. Checked(checks, "plan", found, {}) /\ DOMAIN checks = 1..7
  BY DEF ResolveTexts
<1>2. /\ checks[1].field = "no_description" /\ checks[2].field = "no_maintainer"
      /\ checks[3].field = "description" /\ checks[4].field = "maintainer"
      /\ checks[5].field = "homepage" /\ checks[6].field = "license"
      /\ checks[7].field = "dependencies"
      /\ checks[3].holds <=> (Given("description") => Printable(given["description"]))
      /\ checks[4].holds <=> (Given("maintainer") => SingleLine(given["maintainer"]))
  BY DEF Check
<1> HIDE DEF checks, found
<1>3. ~checks[3].holds =>
         IsMeantIn(request, "description") /\ ~Printable(MeantIn(request, "description"))
  BY <1>2, GivenIsMeant DEF Given, TextKeys
<1>4. ~checks[4].holds =>
         IsMeantIn(request, "maintainer") /\ ~SingleLine(MeantIn(request, "maintainer"))
  BY <1>2, GivenIsMeant DEF Given, TextKeys
<1>5. CASE FailsFirst(checks, 7)
  <2>1. PICK i \in 1..7 : ~checks[i].holds /\ error' = checks[i].field
    BY <1>5 DEF FailsFirst
  <2>2. i \in {1, 2, 5, 6, 7} \/ i = 3 \/ i = 4
    BY <2>1
  <2>3. CASE i \in {1, 2, 5, 6, 7}
    <3>1. error' \in {"no_description", "no_maintainer", "homepage", "license", "dependencies"}
      BY <1>2, <2>1, <2>3
    <3> QED
      BY <3>1 DEF Deserved
  <2>4. CASE i = 3
    BY <1>2, <1>3, <2>1, <2>4 DEF Deserved
  <2>5. CASE i = 4
    BY <1>2, <1>4, <2>1, <2>5 DEF Deserved
  <2> QED
    BY <2>2, <2>3, <2>4, <2>5
<1> QED
  BY <1>1, <1>5, FailsOrGoesOn

(* An unknown architecture was asked for: the default is known.              *)
LEMMA PlanBlames ==
    ASSUME IsInvocation(request), given = GivenFrom(request), Determined, Plan,
           "description" \in DOMAIN given, Deserved(request, error)
    PROVE  Deserved(request, error')
<1>1. /\ Advances("plan", "build") /\ pc' \in {"build", "ended"}
      /\ pc' = "ended" => error' \in PlanErrors
      /\ error' = "architecture" => ArchOf(given) \notin DOMAIN Machine \/ error = "architecture"
  BY PlanStep DEF Plan
<1>2. pc' = "build" => error' = error
  BY <1>1 DEF Advances
<1>3. ArchOf(given) \notin DOMAIN Machine =>
         IsMeantIn(request, "architecture") \/ IsMeantIn(request, "arch")
  <2>1. "all" \in DOMAIN Machine
    BY DEF Machine
  <2>2. "architecture" \notin DOMAIN given => ArchOf(given) = "all"
    BY DEF ArchOf, From
  <2> QED
    BY <2>1, <2>2, ArchitectureIsMeant
<1>4. error' = "architecture" => IsMeantIn(request, "architecture") \/ IsMeantIn(request, "arch")
  BY <1>1, <1>3 DEF Deserved
<1>5. CASE pc' = "ended"
  BY <1>1, <1>4, <1>5 DEF PlanErrors, Deserved
<1> QED
  BY <1>1, <1>2, <1>5

(* The name stays valid once it is there.                                    *)
LEMMA NameStays ==
    ASSUME Named, given' = given,
           "package_name" \in DOMAIN config' => "package_name" \in DOMAIN config \/ NameIsValid(given)
    PROVE  Named'
  BY DEF Named

(* It is there from the step that finds it.                                  *)
LEMMA NameIsThere ==
    ASSUME IInv, Named, pc \in {"version", "placement", "runtime", "texts", "plan"}
    PROVE  NameIsValid(given)
<1>1. "package_name" \in KeysAt(pc, given)
  BY DEF KeysAt
<1> QED
  BY <1>1 DEF IInv, Determined, Named

(* Whatever a run fails at, it deserves to, and its name is valid.           *)
Blamed == Named /\ Deserved(request, error)

(* Every step of the resolution blames only the invocation,                  *)
LEMMA ResolveBlames ==
    ASSUME IInv, Blamed, Resolve
    PROVE  Blamed'
<1>1. /\ IsInvocation(request) /\ Determined /\ Named /\ Deserved(request, error)
      /\ pc \in Resolving => given = GivenFrom(request)
  BY DEF IInv, LayersMerged, Blamed
<1>2. CASE ResolveInstall \/ UnknownKeys
  <2>1. pc \in Resolving
    BY <1>2 DEF ResolveInstall, UnknownKeys, Resolving
  <2>2. Advances("install", "unknown_keys") \/ Advances("unknown_keys", "package_name")
    BY <1>1, <1>2, InstallStep, UnknownKeysStep DEF ResolveInstall, UnknownKeys
  <2>3. "package_name" \notin KeysAt("unknown_keys", given)
        /\ "package_name" \notin KeysAt("package_name", given)
    BY DEF KeysAt, InstallKeys
  <2>4. Named' /\ UNCHANGED <<request, given>>
    BY <1>1, <2>2, <2>3, NameStays DEF Advances
  <2>5. CASE ResolveInstall
    BY <1>1, <2>1, <2>4, <2>5, InstallBlames DEF Blamed
  <2>6. CASE UnknownKeys
    <3>1. error' = error
      BY <2>6, NoChecks DEF UnknownKeys, Checked
    <3> QED
      BY <1>1, <2>4, <3>1 DEF Blamed
  <2> QED
    BY <1>2, <2>5, <2>6
<1>3. CASE ResolvePackageName
  <2>1. pc \in Resolving /\ pc = "package_name"
    BY <1>3 DEF ResolvePackageName, Resolving
  <2>2. Advances("package_name", "version")
    BY <1>1, <1>3, <2>1, NameStep
  <2>3. Deserved(request, error') /\ (pc' = "version" => NameIsValid(given))
    BY <1>1, <1>3, <2>1, NameBlames
  <2>4. Named' /\ UNCHANGED <<request, given>>
    BY <1>1, <2>2, <2>3, NameStays DEF Advances
  <2> QED
    BY <2>3, <2>4 DEF Blamed
<1>4. CASE ResolveVersion \/ ResolvePlacement \/ ResolveRuntime \/ ResolveTexts
  <2>1. pc \in {"version", "placement", "runtime", "texts"} /\ pc \in Resolving
    BY <1>4 DEF ResolveVersion, ResolvePlacement, ResolveRuntime, ResolveTexts, Resolving
  <2>2. UNCHANGED <<request, given>>
    BY <1>4 DEF ResolveVersion, ResolvePlacement, ResolveRuntime, ResolveTexts, Checked, Fail
  <2>3. NameIsValid(given)
    BY <1>1, <2>1, NameIsThere
  <2>4. Named'
    BY <1>1, <2>2, <2>3, NameStays
  <2>5. Deserved(request, error')
    BY <1>1, <1>4, <2>1, <2>3, VersionBlames, PlacementBlames, RuntimeBlames, TextsBlames
  <2> QED
    BY <2>2, <2>4, <2>5 DEF Blamed
<1> QED
  BY <1>2, <1>3, <1>4 DEF Resolve

(* and so does every other step of the machine.                              *)
LEMMA BlamesKept == IInv /\ Blamed /\ [Next]_vars => Blamed'
<1> SUFFICES ASSUME IInv, Blamed, [Next]_vars PROVE Blamed'
  OBVIOUS
<1>1. CASE Resolve
  BY <1>1, ResolveBlames
<1>2. CASE ReadRequest
  <2>1. pc \in BeforeInstall
    BY <1>2 DEF ReadRequest, Main, LoadManifest, OverridesFrom, BeforeInstall
  <2>2. DOMAIN config = {}
    BY <2>1 DEF IInv, Determined, KeysAt, BeforeInstall
  <2>3. config' = config /\ request' = request
        /\ error' \in {error, "removed_option", "template_name", ".nativepkg"}
    BY <1>2 DEF ReadRequest, Main, LoadManifest, OverridesFrom, Goto, Fail
  <2> QED
    BY <2>2, <2>3 DEF Blamed, Named, Deserved
<1>3. CASE Plan
  <2>1. /\ pc = "plan" /\ Determined /\ "description" \in DOMAIN given
        /\ IsInvocation(request) /\ given = GivenFrom(request)
    BY <1>3 DEF Plan, IInv, LayersMerged, Described, Resolving
  <2>2. Advances("plan", "build")
    BY <1>3, <2>1, PlanStep
  <2>3. Deserved(request, error')
    BY <1>3, <2>1, PlanBlames DEF Blamed
  <2>4. NameIsValid(given)
    BY <2>1, NameIsThere DEF Blamed
  <2>5. UNCHANGED <<request, given>>
    BY <2>2 DEF Advances
  <2> QED
    BY <2>3, <2>4, <2>5 DEF Blamed, Named
<1>4. CASE DryRun \/ Summarise
  <2>1. UNCHANGED <<request, given, config>> /\ error' \in {error, "template", "formats"}
    BY <1>4 DEF DryRun, Summarise, Goto, Fail
  <2> QED
    BY <2>1 DEF Blamed, Named, Deserved
<1>5. CASE NextRelease \/ Rebuild
  <2>1. config' = NoKeys /\ error' = "none"
    BY <1>5 DEF NextRelease, Rebuild, Rerun
  <2> QED
    BY <2>1, NothingGiven DEF Blamed, Named, Deserved
<1>6. CASE UNCHANGED resolutionVars
  BY <1>6 DEF resolutionVars, Blamed, Named, Deserved
<1> QED
  BY <1>1, <1>2, <1>3, <1>4, <1>5, <1>6 DEF Next, Tool, BuildFormat, Install, vars, resolutionVars

(* Whatever the invocation, a run fails at a field only because of what the  *)
(* user gave for it: what the tool derives, or falls back to, is always      *)
(* valid, and what a higher layer hides is never looked at (resolve.rs,      *)
(* name.rs, version.rs).                                                     *)
THEOREM FailuresAreDeserved == Spec => []BlameIsDeserved
<1>1. Init => Blamed
  BY NothingGiven DEF Init, ResolutionInit, Blamed, Named, Deserved
<1>2. Blamed => BlameIsDeserved
  BY DEF Blamed, Deserved, BlameIsDeserved, IsMeant, Meant, IsMeantIn, MeantIn
<1> QED
  BY <1>1, <1>2, BlamesKept, Invariance, PTL DEF Spec

-----------------------------------------------------------------------------
(* What is changed is told.                                                  *)

Says(w, kind) == \E warning \in w : warning.kind = kind

(* The name, the version, the account and the architecture a run goes on     *)
(* with are the ones that were meant, or one of its warnings says otherwise. *)
NameTold(r, w, g) ==
    \/ NameOf(g) = MeantIn(r, IF IsMeantIn(r, "package_name") THEN "package_name" ELSE "name")
    \/ Says(w, "PackageNameNormalised")
VersionTold(r, w, g) ==
    \/ Unmapped(MappedBase(g["version"])) = MeantIn(r, "version")
    \/ Says(w, "VersionHyphensRewritten") \/ Says(w, "VersionNotMapped")
PlacementTold(r, w, g) ==
    /\ ValidUnixName(UserOf(g)) /\ ValidUnixName(From(g, "group", UserOf(g)))
    /\ ValidInstallDir(DirOf(g))
    /\ \/ UserOf(g) = (IF IsMeantIn(r, "user") THEN MeantIn(r, "user") ELSE NameOf(g))
       \/ Says(w, "UnixNameDerived")
ArchTold(r, w) ==
    "arch" \in DOMAIN r.flags => "architecture" \in DOMAIN r.flags \/ Says(w, "ArchDeprecated")

Overridden == pc \in Resolving \cup {"build"} \/ "stamp" \in DOMAIN config

(* Each from the step on that finds it.                                      *)
AllTold ==
    /\ "package_name" \in DOMAIN config => NameTold(request, warnings, given)
    /\ "version" \in DOMAIN config => VersionTold(request, warnings, given)
    /\ "user" \in DOMAIN config => PlacementTold(request, warnings, given)
    /\ Overridden => ArchTold(request, warnings)

(* What was said stays said.                                                 *)
LEMMA ToldStays ==
    ASSUME NEW r, NEW g, NEW w, NEW v, w \subseteq v
    PROVE  /\ NameTold(r, w, g) => NameTold(r, v, g)
           /\ VersionTold(r, w, g) => VersionTold(r, v, g)
           /\ PlacementTold(r, w, g) => PlacementTold(r, v, g)
           /\ ArchTold(r, w) => ArchTold(r, v)
<1>1. \A kind : Says(w, kind) => Says(v, kind)
  BY DEF Says
<1> QED
  BY <1>1 DEF NameTold, VersionTold, PlacementTold, ArchTold

(* So a step of a run only has to tell of what it finds itself.              *)
LEMMA AllToldStays ==
    ASSUME AllTold, UNCHANGED <<request, given>>, warnings \subseteq warnings',
           "package_name" \in DOMAIN config' =>
               "package_name" \in DOMAIN config \/ NameTold(request, warnings', given),
           "version" \in DOMAIN config' =>
               "version" \in DOMAIN config \/ VersionTold(request, warnings', given),
           "user" \in DOMAIN config' =>
               "user" \in DOMAIN config \/ PlacementTold(request, warnings', given),
           Overridden' => Overridden
    PROVE  AllTold'
<1>1. NameTold(request, warnings, given) => NameTold(request, warnings', given)
  BY ToldStays
<1>2. VersionTold(request, warnings, given) => VersionTold(request, warnings', given)
  BY ToldStays
<1>3. PlacementTold(request, warnings, given) => PlacementTold(request, warnings', given)
  BY ToldStays
<1>4. ArchTold(request, warnings) => ArchTold(request, warnings')
  BY ToldStays
<1> QED
  BY <1>1, <1>2, <1>3, <1>4 DEF AllTold

(* A step that goes on has all its checks behind it, and said what it had to. *)
LEMMA GoesOn ==
    ASSUME NEW n \in Nat, NEW checks, DOMAIN checks = 1..n, NEW next, next # "ended", NEW found,
           NEW heard, Checked(checks, next, found, heard), pc' = next
    PROVE  warnings' = warnings \cup heard /\ \A i \in 1..n : checks[i].holds
  BY ChecksEnd

(* A warning says what it is about.                                          *)
LEMMA WarningSays ==
    ASSUME NEW w, NEW kind, NEW about, Warn(kind, about) \in w
    PROVE  Says(w, kind)
<1>1. Warn(kind, about).kind = kind
  BY DEF Warn
<1> QED
  BY <1>1 DEF Says

(* A name that is normalised into another is told of (resolve.rs,            *)
(* resolve_package_name).                                                    *)
LEMMA NameTells ==
    ASSUME IsInvocation(request), given = GivenFrom(request), ResolvePackageName, pc' = "version"
    PROVE  NameTold(request, warnings', given)
<1>1. CASE Given("package_name")
  <2>1. /\ IsMeantIn(request, "package_name")
        /\ given["package_name"] = MeantIn(request, "package_name")
    BY <1>1, GivenIsMeant DEF Given, TextKeys
  <2> QED
    BY <1>1, <2>1 DEF NameTold, NameOf, Given
<1>2. CASE ~Given("package_name") /\ ~Given("name")
  BY <1>2 DEF ResolvePackageName, Fail
<1>3. CASE ~Given("package_name") /\ Given("name")
  <2> DEFINE normalised == NormalizedPackageName(given["name"])
             checks == <<Check("name", ValidPackageName(normalised))>>
             found  == [package_name |-> normalised]
             heard  == WarnIf(normalised # given["name"], "PackageNameNormalised", "name")
  <2>1. Checked(checks, "version", found, heard) /\ DOMAIN checks = 1..1
    BY <1>3 DEF ResolvePackageName
  <2>2. ~IsMeantIn(request, "package_name") /\ given["name"] = MeantIn(request, "name")
    BY <1>3, GivenIsMeant DEF Given, TextKeys
  <2>3. NameOf(given) = normalised
    BY <1>3 DEF NameOf, Given
  <2> HIDE DEF normalised, checks, found
  <2>4. warnings' = warnings \cup heard
    <3> HIDE DEF heard
    <3> QED
      BY <2>1, GoesOn
  <2>5. normalised # given["name"] => Says(warnings', "PackageNameNormalised")
    <3>1. normalised # given["name"] => Warn("PackageNameNormalised", "name") \in warnings'
      BY <2>4 DEF WarnIf
    <3> HIDE DEF heard
    <3> QED
      BY <3>1, WarningSays
  <2> QED
    BY <2>2, <2>3, <2>5 DEF NameTold
<1> QED
  BY <1>1, <1>2, <1>3

(* A version that is not mapped, or loses a hyphen, is told of; any other    *)
(* can be told from what it is mapped to (resolve.rs, version.rs).           *)
LEMMA VersionTells ==
    ASSUME IsInvocation(request), given = GivenFrom(request), ResolveVersion, pc' = "placement"
    PROVE  VersionTold(request, warnings', given)
<1>1. Given("version")
  BY DEF ResolveVersion, Fail
<1> DEFINE version == given["version"]
           mapped  == MappedVersion(version, Or("epoch", NoEpoch))
           checks  == <<Check("version", IsSpec(version)),
                        Check("mapped_version", ValidUpstream(mapped.base))>>
           found   == [version |-> mapped]
           heard   == WarnIf(IsLiteral(version), "VersionNotMapped", "version")
                      \cup WarnIf(HyphensRewritten(version), "VersionHyphensRewritten", "version")
<1>2. Checked(checks, "placement", found, heard) /\ DOMAIN checks = 1..2
  BY <1>1 DEF ResolveVersion
<1>3. version \in Seq(STRING) /\ version = MeantIn(request, "version")
  BY <1>1, GivenIsMeant DEF Given, TextKeys
<1> HIDE DEF version, checks, found
<1>4. warnings' = warnings \cup heard
  <2> HIDE DEF heard
  <2> QED
    BY <1>2, GoesOn
<1>5. IsLiteral(version) => Says(warnings', "VersionNotMapped")
  <2>1. IsLiteral(version) => Warn("VersionNotMapped", "version") \in warnings'
    BY <1>4 DEF WarnIf
  <2> HIDE DEF heard
  <2> QED
    BY <2>1, WarningSays
<1>6. HyphensRewritten(version) => Says(warnings', "VersionHyphensRewritten")
  <2>1. HyphensRewritten(version) => Warn("VersionHyphensRewritten", "version") \in warnings'
    BY <1>4 DEF WarnIf
  <2> HIDE DEF heard
  <2> QED
    BY <2>1, WarningSays
<1>7. IsSemver(version) /\ ~HyphensRewritten(version) => Unmapped(MappedBase(version)) = version
  BY <1>3, MappingsCanBeUndone DEF Unmapped, MappedBase
<1> QED
  BY <1>3, <1>5, <1>6, <1>7 DEF VersionTold, IsLiteral, version

(* An account that is derived under another name than the package's is told  *)
(* of (resolve.rs, resolve_account).                                         *)
LEMMA PlacementTells ==
    ASSUME IsInvocation(request), given = GivenFrom(request), Determined, ResolvePlacement,
           pc' = "runtime"
    PROVE  PlacementTold(request, warnings', given)
<1> DEFINE name    == config.package_name
           user    == Or("user", DerivedUnixName(name))
           group   == Or("group", user)
           dir     == Or("install_dir", <<"/", "u">>)
           command == Or("executable_name", name)
           checks  == <<Check("user", ValidUnixName(user)), Check("group", ValidUnixName(group)),
                        Check("install_dir", ValidInstallDir(dir)),
                        Check("executable_name", ValidExecutableName(command))>>
           found   == [architecture |-> Or("architecture", "all"), install_dir |-> InstallDir(dir),
                       user |-> user, group |-> group, executable_name |-> command]
           heard   == WarnIf(~Given("user") /\ user # name, "UnixNameDerived", "user")
<1>1. Checked(checks, "runtime", found, heard) /\ DOMAIN checks = 1..4
  BY DEF ResolvePlacement
<1>2. name = NameOf(given)
  <2>1. "package_name" \in DOMAIN config
    BY DEF ResolvePlacement, Determined, KeysAt
  <2>2. config["package_name"] = Resolved(request, given)["package_name"]
    BY <2>1 DEF Determined, Agrees
  <2> QED
    BY <2>2 DEF Resolved
<1>3. /\ checks[1].holds <=> ValidUnixName(user)
      /\ checks[2].holds <=> ValidUnixName(group)
      /\ checks[3].holds <=> ValidInstallDir(dir)
  BY DEF Check
<1>4. user = UserOf(given) /\ group = From(given, "group", UserOf(given)) /\ dir = DirOf(given)
  BY <1>2 DEF Or, Given, From, UserOf, DirOf
<1>5. Given("user") => IsMeantIn(request, "user") /\ user = MeantIn(request, "user")
  BY GivenIsMeant DEF Or, Given, TextKeys
<1>6. ~Given("user") => ~IsMeantIn(request, "user")
  BY GivenIsMeant DEF Given, TextKeys
<1> HIDE DEF name, user, group, dir, checks, found
<1>7. warnings' = warnings \cup heard /\ \A i \in 1..4 : checks[i].holds
  <2> HIDE DEF heard
  <2> QED
    BY <1>1, GoesOn
<1>8. ~Given("user") /\ user # name => Says(warnings', "UnixNameDerived")
  <2>1. ~Given("user") /\ user # name => Warn("UnixNameDerived", "user") \in warnings'
    BY <1>7 DEF WarnIf
  <2> HIDE DEF heard
  <2> QED
    BY <2>1, WarningSays
<1>9. ValidUnixName(user) /\ ValidUnixName(group) /\ ValidInstallDir(dir)
  <2>1. 1 \in 1..4 /\ 2 \in 1..4 /\ 3 \in 1..4
    OBVIOUS
  <2> QED
    BY <1>3, <1>7, <2>1
<1> QED
  BY <1>2, <1>4, <1>5, <1>6, <1>8, <1>9 DEF PlacementTold

(* The step at which a key of the configuration is there.                    *)
LEMMA KeysReached ==
    ASSUME NEW step, NEW g
    PROVE  /\ "package_name" \in KeysAt(step, g) <=>
                 step \notin {"main", "load", "overrides", "install", "unknown_keys", "package_name"}
           /\ "version" \in KeysAt(step, g) <=>
                 step \in {"placement", "runtime", "texts", "plan", "build"}
           /\ "user" \in KeysAt(step, g) <=> step \in {"runtime", "texts", "plan", "build"}
  BY DEF KeysAt, InstallKeys, PlacementKeys, RuntimeKeys, TextsKeys, CopiedKeys, PlanKeys

(* Every step of the resolution tells of what it changes,                    *)
LEMMA ResolveTells ==
    ASSUME IInv, AllTold, Resolve
    PROVE  AllTold'
<1>1. IsInvocation(request) /\ Determined /\ (pc \in Resolving => given = GivenFrom(request))
  BY DEF IInv, LayersMerged
<1>2. pc \in Resolving \ {"plan"} /\ given = GivenFrom(request) /\ Overridden
      /\ DOMAIN config = KeysAt(pc, given)
  BY <1>1 DEF Resolve, ResolveInstall, UnknownKeys, ResolvePackageName, ResolveVersion,
              ResolvePlacement, ResolveRuntime, ResolveTexts, Resolving, Overridden, Determined
<1>3. warnings \subseteq warnings'
  BY DEF Resolve, ResolveInstall, UnknownKeys, ResolvePackageName, ResolveVersion,
         ResolvePlacement, ResolveRuntime, ResolveTexts, Checked, Fail
<1>4. ASSUME NEW next, Advances(pc, next), pc # "ended",
             pc = "package_name" => next = "version" /\ ResolvePackageName,
             pc = "version" => next = "placement" /\ ResolveVersion,
             pc = "placement" => next = "runtime" /\ ResolvePlacement,
             pc = "install" => next = "unknown_keys",
             pc = "unknown_keys" => next = "package_name"
      PROVE  AllTold'
  <2>1. UNCHANGED <<request, given>>
    BY <1>4 DEF Advances
  <2>2. CASE UNCHANGED config
    BY <1>2, <1>3, <2>1, <2>2, AllToldStays
  <2>3. CASE pc' = next /\ DOMAIN config' = KeysAt(next, given)
    <3>1. "package_name" \in DOMAIN config' =>
             "package_name" \in DOMAIN config \/ NameTold(request, warnings', given)
      BY <1>1, <1>2, <1>4, <2>3, KeysReached, NameTells DEF Resolving
    <3>2. "version" \in DOMAIN config' =>
             "version" \in DOMAIN config \/ VersionTold(request, warnings', given)
      BY <1>1, <1>2, <1>4, <2>3, KeysReached, VersionTells DEF Resolving
    <3>3. "user" \in DOMAIN config' =>
             "user" \in DOMAIN config \/ PlacementTold(request, warnings', given)
      BY <1>1, <1>2, <1>4, <2>3, KeysReached, PlacementTells DEF Resolving
    <3> QED
      BY <1>2, <1>3, <2>1, <3>1, <3>2, <3>3, AllToldStays
  <2> QED
    BY <1>4, <2>2, <2>3 DEF Advances
<1>5. CASE ResolveInstall
  BY <1>1, <1>4, <1>5, InstallStep DEF ResolveInstall
<1>6. CASE UnknownKeys
  BY <1>1, <1>4, <1>6, UnknownKeysStep DEF UnknownKeys
<1>7. CASE ResolvePackageName
  <2>1. pc = "package_name"
    BY <1>7 DEF ResolvePackageName
  <2> QED
    BY <1>1, <1>4, <1>7, <2>1, NameStep
<1>8. CASE ResolveVersion
  <2>1. pc = "version"
    BY <1>8 DEF ResolveVersion
  <2> QED
    BY <1>1, <1>4, <1>8, <2>1, VersionStep
<1>9. CASE ResolvePlacement
  <2>1. pc = "placement"
    BY <1>9 DEF ResolvePlacement
  <2> QED
    BY <1>1, <1>4, <1>9, <2>1, PlacementStep
<1>10. CASE ResolveRuntime
  <2>1. pc = "runtime"
    BY <1>10 DEF ResolveRuntime
  <2> QED
    BY <1>1, <1>4, <1>10, <2>1, RuntimeStep
<1>11. CASE ResolveTexts
  <2>1. pc = "texts"
    BY <1>11 DEF ResolveTexts
  <2> QED
    BY <1>1, <1>4, <1>11, <2>1, TextsStep
<1> QED
  BY <1>5, <1>6, <1>7, <1>8, <1>9, <1>10, <1>11 DEF Resolve

(* and so does every step of the machine.                                    *)
LEMMA AllToldKept == IInv /\ AllTold /\ [Next]_vars => AllTold'
<1> SUFFICES ASSUME IInv, AllTold, [Next]_vars PROVE AllTold'
  OBVIOUS
<1>1. CASE Resolve
  BY <1>1, ResolveTells
<1>2. CASE ReadRequest
  <2>1. pc \in BeforeInstall
    BY <1>2 DEF ReadRequest, Main, LoadManifest, OverridesFrom, BeforeInstall
  <2>2. DOMAIN config = {} /\ config' = config /\ request' = request
    <3>1. DOMAIN config = {}
      BY <2>1 DEF IInv, Determined, KeysAt, BeforeInstall
    <3> QED
      BY <1>2, <3>1 DEF ReadRequest, Main, LoadManifest, OverridesFrom, Goto, Fail
  <2>3. CASE OverridesFrom
    <3> DEFINE legacy == "arch" \in DOMAIN request.flags
                         /\ "architecture" \notin DOMAIN request.flags
    <3>1. legacy => Warn("ArchDeprecated", "architecture") \in warnings'
      BY <2>3 DEF OverridesFrom, WarnIf
    <3>2. ArchTold(request, warnings')
      BY <3>1, WarningSays DEF ArchTold
    <3> QED
      BY <2>2, <3>2 DEF AllTold
  <2>4. CASE Main \/ LoadManifest
    <3>1. pc' \in {"load", "overrides", "ended"}
      BY <2>4 DEF Main, LoadManifest, Goto, Fail
    <3>2. ~Overridden'
      BY <2>2, <3>1 DEF Overridden, Resolving
    <3> QED
      BY <2>2, <3>2 DEF AllTold
  <2> QED
    BY <1>2, <2>3, <2>4 DEF ReadRequest
<1>3. CASE Plan
  <2>1. pc = "plan" /\ Determined /\ "description" \in DOMAIN given
    BY <1>3 DEF Plan, IInv, Described
  <2>2. Advances("plan", "build") /\ warnings \subseteq warnings'
    <3>1. /\ Advances("plan", "build") /\ pc' \in {"build", "ended"}
          /\ pc' = "build" => warnings' = warnings \cup PlanHeard
          /\ pc' = "ended" => UNCHANGED <<warnings, config>>
      BY <1>3, <2>1, PlanStep
    <3> QED
      BY <3>1
  <2>3. DOMAIN config = KeysAt("plan", given) /\ Overridden
    BY <2>1 DEF Determined, Overridden, Resolving
  <2>4. "package_name" \in DOMAIN config /\ "version" \in DOMAIN config /\ "user" \in DOMAIN config
    BY <2>3, KeysReached
  <2> QED
    BY <2>2, <2>3, <2>4, AllToldStays DEF Advances
<1>4. CASE DryRun \/ Summarise
  <2>1. UNCHANGED <<request, given, config, warnings>> /\ pc = "build"
    BY <1>4 DEF DryRun, Summarise, Goto, Fail
  <2>2. Overridden
    BY <2>1 DEF Overridden
  <2> QED
    BY <2>1, <2>2, AllToldStays
<1>5. CASE NextRelease \/ Rebuild
  <2>1. config' = NoKeys /\ pc' = "main"
    BY <1>5 DEF NextRelease, Rebuild, Rerun
  <2> QED
    BY <2>1, NothingGiven DEF AllTold, Overridden, Resolving
<1>6. CASE UNCHANGED resolutionVars
  BY <1>6 DEF resolutionVars, AllTold, Overridden
<1> QED
  BY <1>1, <1>2, <1>3, <1>4, <1>5, <1>6 DEF Next, Tool, BuildFormat, Install, vars, resolutionVars

(* An architecture that was asked for under its own name is the one there is. *)
LEMMA ArchitectureGiven ==
    ASSUME NEW r, IsInvocation(r), "architecture" \in DOMAIN r.flags
    PROVE  ArchOf(GivenFrom(r)) = r.flags["architecture"]
<1> DEFINE current == Restrict(r.flags, DOMAIN r.flags \ {"arch"})
<1>1. CASE r.entry = "library"
  <2>1. GivenFrom(r) = r.flags ++ r.settings ++ r.manifest
    BY <1>1 DEF GivenFrom
  <2> QED
    BY <2>1 DEF ++, ArchOf, From
<1>2. CASE r.entry # "library"
  <2>1. GivenFrom(r) = current ++ NoKeys ++ r.settings
    BY <1>2 DEF GivenFrom
  <2>2. "architecture" \in DOMAIN current /\ current["architecture"] = r.flags["architecture"]
    BY DEF Restrict
  <2> HIDE DEF current
  <2> QED
    BY <2>1, <2>2 DEF ++, ArchOf, From
<1> QED
  BY <1>1, <1>2

(* Whatever the invocation, what is resolved fits the grammars of its        *)
(* readers and is what the user meant, unless the run warned of the change   *)
(* (resolve.rs: every warning of the resolution).                            *)
THEOREM ChangesAreTold == Spec => []NothingChangesSilently
<1>1. Init => AllTold
  <2> SUFFICES ASSUME Init PROVE AllTold
    OBVIOUS
  <2>1. IInv /\ DOMAIN config = {}
    BY Initially, NothingGiven DEF Init, ResolutionInit
  <2>2. request.entry = "library" \/ pc = "main"
    BY DEF Init, ResolutionInit
  <2>3. request.entry = "library" => ArchTold(request, warnings)
    BY <2>1 DEF IInv, IsInvocation, ArchTold
  <2>4. pc = "main" => ~Overridden
    BY <2>1 DEF Overridden, Resolving
  <2> QED
    BY <2>1, <2>2, <2>3, <2>4 DEF AllTold
<1>2. IInv /\ Blamed /\ AllTold => NothingChangesSilently
  <2> SUFFICES ASSUME IInv, Blamed, AllTold, "stamp" \in DOMAIN config
               PROVE  NothingChangesSilently
    BY DEF NothingChangesSilently
  <2>1. /\ IsInvocation(request) /\ given = GivenFrom(request)
        /\ DOMAIN config = KeysAt("build", given)
        /\ \A key \in KeysAt("build", given) : config[key] = Resolved(request, given)[key]
    BY PlannedConfig DEF IInv, Determined
  <2>2. {"package_name", "version", "user", "group", "install_dir", "architecture"}
            \subseteq KeysAt("build", given)
    BY DEF KeysAt, PlacementKeys
  <2>3. /\ config["package_name"] = Resolved(request, given)["package_name"]
        /\ config["version"] = Resolved(request, given)["version"]
        /\ config["user"] = Resolved(request, given)["user"]
        /\ config["group"] = Resolved(request, given)["group"]
        /\ config["install_dir"] = Resolved(request, given)["install_dir"]
        /\ config["architecture"] = Resolved(request, given)["architecture"]
    BY <2>1, <2>2
  <2>4. /\ config.package_name = NameOf(given)
        /\ config.version = MappedVersion(given["version"], From(given, "epoch", NoEpoch))
        /\ config.user = UserOf(given)
        /\ config.group = From(given, "group", UserOf(given))
        /\ config.install_dir = InstallDir(DirOf(given))
        /\ config.architecture = ArchOf(given)
    BY <2>3 DEF Resolved
  <2>5. config.version.base = MappedBase(given["version"])
    BY <2>4 DEF MappedVersion
  <2>6. NameIsValid(given)
    BY <2>1, <2>2 DEF Blamed, Named
  <2>7. /\ NameTold(request, warnings, given) /\ VersionTold(request, warnings, given)
        /\ PlacementTold(request, warnings, given) /\ ArchTold(request, warnings)
    BY <2>1, <2>2 DEF AllTold, Overridden
  <2>8. \A key : IsMeant(key) = IsMeantIn(request, key) /\ Meant(key) = MeantIn(request, key)
    BY DEF IsMeant, IsMeantIn, Meant, MeantIn
  <2>9. \A kind : Told(kind) = Says(warnings, kind)
    BY DEF Told, Says
  <2>10. config.install_dir = InstallDir(config.install_dir)
    <3> DEFINE dir == DirOf(given)
    <3>1. \E T : dir \in Seq(T)
      <4>1. CASE "install_dir" \in DOMAIN given
        <5>1. dir \in Seq(STRING)
          BY <2>1, <4>1, GivenIsMeant DEF DirOf, From, TextKeys
        <5> QED
          BY <5>1
      <4>2. CASE "install_dir" \notin DOMAIN given
        <5>1. <<"/", "u">> \in Seq({"/", "u"})
          OBVIOUS
        <5>2. dir = <<"/", "u">>
          BY <4>2 DEF DirOf, From
        <5> QED
          BY <5>1, <5>2
      <4> QED
        BY <4>1, <4>2
    <3>2. ValidInstallDir(dir)
      BY <2>7 DEF PlacementTold
    <3> HIDE DEF dir
    <3>3. InstallDir(InstallDir(dir)) = InstallDir(dir)
      BY <3>1, <3>2, InstallDirsSettle
    <3> QED
      BY <2>4, <3>3 DEF dir
  <2>11. "arch" \in DOMAIN request.flags /\ config.architecture = request.flags["arch"] =>
            Told("ArchDeprecated") \/ request.flags["arch"] = Meant("architecture")
    <3>1. "architecture" \in DOMAIN request.flags =>
             /\ config.architecture = request.flags["architecture"]
             /\ Meant("architecture") = request.flags["architecture"]
      BY <2>1, <2>4, ArchitectureGiven DEF Meant
    <3> QED
      BY <2>7, <2>9, <3>1 DEF ArchTold
  <2>12. ValidPackageName(config.package_name)
    BY <2>4, <2>6 DEF NameIsValid
  <2>13. \/ config.package_name = Meant(IF IsMeant("package_name") THEN "package_name" ELSE "name")
         \/ Told("PackageNameNormalised")
    BY <2>4, <2>7, <2>8, <2>9 DEF NameTold
  <2>14. /\ ValidUnixName(config.user) /\ ValidUnixName(config.group)
         /\ \/ config.user = (IF IsMeant("user") THEN Meant("user") ELSE config.package_name)
            \/ Told("UnixNameDerived")
    BY <2>4, <2>7, <2>8, <2>9 DEF PlacementTold
  <2>15. \/ Unmapped(config.version.base) = Meant("version")
         \/ Told("VersionHyphensRewritten") \/ Told("VersionNotMapped")
    BY <2>5, <2>7, <2>8, <2>9 DEF VersionTold
  <2> QED
    BY <2>10, <2>11, <2>12, <2>13, <2>14, <2>15 DEF NothingChangesSilently
<1>3. Init => Blamed
  BY NothingGiven DEF Init, ResolutionInit, Blamed, Named, Deserved
<1> QED
  BY <1>1, <1>2, <1>3, AllToldKept, BlamesKept, Invariance, PTL DEF Spec

-----------------------------------------------------------------------------
(* Scripts and the packages they call.                                       *)

Snippet  ==
    {"account", "logdir", "npm-install", "post-logdir", "post-npm-install", "post-systemd",
     "post-sysv", "postinst-account", "postinst-logdir", "postinst-npm-install",
     "postinst-systemd-enable", "postinst-systemd-restart", "postinst-sysv",
     "postinst-upstart", "postrm-purge", "postrm-systemd", "postrm-systemd-reload",
     "postrm-sysv", "postun-purge", "postun-systemd", "pre-account",
     "prerm-systemd-restart", "prerm-sysv", "prerm-upstart", "preun-systemd", "preun-sysv",
     "purge", "systemd-enable", "systemd-reload", "systemd-restart", "systemd-start",
     "systemd-stop"}
Snippets == Seq(Snippet)

(* A script of two parts has the snippets of both.                           *)
LEMMA BothParts ==
    ASSUME NEW s \in Snippets, NEW t \in Snippets
    PROVE  s \o t \in Snippets /\ ToSet(s \o t) = ToSet(s) \cup ToSet(t)
<1> DEFINE both == s \o t
<1>1. /\ both \in Seq(Snippet) /\ Len(both) = Len(s) + Len(t)
      /\ \A i \in 1..Len(s) + Len(t) : both[i] = IF i <= Len(s) THEN s[i] ELSE t[i - Len(s)]
  BY ConcatProperties DEF Snippets
<1>2. Len(s) \in Nat /\ Len(t) \in Nat /\ DOMAIN s = 1..Len(s) /\ DOMAIN t = 1..Len(t)
      /\ DOMAIN both = 1..Len(s) + Len(t)
  BY <1>1, LenProperties DEF Snippets
<1> HIDE DEF both
<1>3. \A i \in DOMAIN s : i \in DOMAIN both /\ both[i] = s[i]
  BY <1>1, <1>2
<1>4. \A i \in DOMAIN t : i + Len(s) \in DOMAIN both /\ both[i + Len(s)] = t[i]
  BY <1>1, <1>2
<1>5. \A i \in DOMAIN both : \/ i \in DOMAIN s /\ both[i] = s[i]
                             \/ i - Len(s) \in DOMAIN t /\ both[i] = t[i - Len(s)]
  BY <1>1, <1>2
<1>6. ToSet(both) = ToSet(s) \cup ToSet(t)
  BY <1>3, <1>4, <1>5 DEF ToSet
<1> QED
  BY <1>1, <1>6 DEF both, Snippets

(* A part that is there on a condition.                                      *)
LEMMA PartIf ==
    ASSUME NEW condition, NEW s \in Snippets
    PROVE  If(condition, s) \in Snippets /\ ToSet(If(condition, s)) = IF condition THEN ToSet(s) ELSE {}
<1>1. ToSet(<<>>) = {} /\ <<>> \in Snippets
  BY NoChecks DEF ToSet, Snippets
<1> QED
  BY <1>1 DEF If

(* Scripts of one, two and five snippets.                                    *)
LEMMA OneSnippet ==
    ASSUME NEW x \in Snippet
    PROVE  <<x>> \in Snippets /\ ToSet(<<x>>) = {x}
<1>1. <<x>> \in Seq(Snippet)
  OBVIOUS
<1>2. ToSet(<<x>>) = {x}
  BY DEF ToSet
<1> QED
  BY <1>1, <1>2 DEF Snippets

(* Two snippets.                                                             *)
LEMMA TwoSnippets ==
    ASSUME NEW x \in Snippet, NEW y \in Snippet
    PROVE  <<x, y>> \in Snippets /\ ToSet(<<x, y>>) = {x, y}
<1>1. <<x, y>> \in Seq(Snippet)
  OBVIOUS
<1>2. ToSet(<<x, y>>) = {x, y}
  BY DEF ToSet
<1> QED
  BY <1>1, <1>2 DEF Snippets

(* Five.                                                                     *)
LEMMA FiveSnippets ==
    ASSUME NEW u \in Snippet, NEW v \in Snippet, NEW x \in Snippet, NEW y \in Snippet, NEW z \in Snippet
    PROVE  <<u, v, x, y, z>> \in Snippets /\ ToSet(<<u, v, x, y, z>>) = {u, v, x, y, z}
<1>1. <<u, v, x, y, z>> \in Seq(Snippet)
  OBVIOUS
<1>2. ToSet(<<u, v, x, y, z>>) = {u, v, x, y, z}
  BY DEF ToSet
<1> QED
  BY <1>1, <1>2 DEF Snippets

(* A script of three parts.                                                  *)
LEMMA ThreeParts ==
    ASSUME NEW s \in Snippets, NEW t \in Snippets, NEW u \in Snippets
    PROVE  s \o t \o u \in Snippets /\ ToSet(s \o t \o u) = ToSet(s) \cup ToSet(t) \cup ToSet(u)
  BY BothParts

(* Of four.                                                                  *)
LEMMA FourParts ==
    ASSUME NEW s \in Snippets, NEW t \in Snippets, NEW u \in Snippets, NEW v \in Snippets
    PROVE  /\ s \o t \o u \o v \in Snippets
           /\ ToSet(s \o t \o u \o v) = ToSet(s) \cup ToSet(t) \cup ToSet(u) \cup ToSet(v)
  BY BothParts, ThreeParts

(* Of five.                                                                  *)
LEMMA FiveParts ==
    ASSUME NEW s \in Snippets, NEW t \in Snippets, NEW u \in Snippets, NEW v \in Snippets,
           NEW w \in Snippets
    PROVE  ToSet(s \o t \o u \o v \o w)
               = ToSet(s) \cup ToSet(t) \cup ToSet(u) \cup ToSet(v) \cup ToSet(w)
  BY BothParts, FourParts

(* A part of one, of two or of five snippets, if it is there.                *)
LEMMA PartOfOne ==
    ASSUME NEW condition, NEW x \in Snippet
    PROVE  /\ If(condition, <<x>>) \in Snippets
           /\ ToSet(If(condition, <<x>>)) = IF condition THEN {x} ELSE {}
  BY PartIf, OneSnippet

(* Two.                                                                      *)
LEMMA PartOfTwo ==
    ASSUME NEW condition, NEW x \in Snippet, NEW y \in Snippet
    PROVE  /\ If(condition, <<x, y>>) \in Snippets
           /\ ToSet(If(condition, <<x, y>>)) = IF condition THEN {x, y} ELSE {}
  BY PartIf, TwoSnippets

(* Five.                                                                     *)
LEMMA PartOfFive ==
    ASSUME NEW condition, NEW u \in Snippet, NEW v \in Snippet, NEW x \in Snippet, NEW y \in Snippet,
           NEW z \in Snippet
    PROVE  /\ If(condition, <<u, v, x, y, z>>) \in Snippets
           /\ ToSet(If(condition, <<u, v, x, y, z>>)) = IF condition THEN {u, v, x, y, z} ELSE {}
  BY PartIf, FiveSnippets

OnlyIf(condition, snippets) == IF condition THEN snippets ELSE {}

(* All that the scripts of a deb are composed from.                          *)
LEMMA DebSnippets ==
    ASSUME NEW i, NEW s
    PROVE  Composed("deb", i, s)
               = OnlyIf(s = "npm-install", {"postinst-npm-install"})
                 \cup OnlyIf(i # "none", {"postinst-account", "postinst-logdir", "postrm-purge"})
                 \cup OnlyIf(Uses("systemd", i),
                             {"postinst-systemd-enable", "postinst-systemd-restart",
                              "prerm-systemd-restart", "postrm-systemd", "postrm-systemd-reload"})
                 \cup OnlyIf(Uses("sysv", i), {"postinst-sysv", "prerm-sysv", "postrm-sysv"})
                 \cup OnlyIf(i = "upstart", {"postinst-upstart", "prerm-upstart"})
<1>1. Composed("deb", i, s) = ToSet(DebPostinst(i, s)) \cup ToSet(DebPrerm(i)) \cup ToSet(DebPostrm(i))
  BY DEF Composed, DebScripts
<1>2. ToSet(DebPostinst(i, s))
          = OnlyIf(s = "npm-install", {"postinst-npm-install"})
            \cup OnlyIf(i # "none", {"postinst-account", "postinst-logdir"})
            \cup OnlyIf(Uses("systemd", i), {"postinst-systemd-enable", "postinst-systemd-restart"})
            \cup OnlyIf(Uses("sysv", i), {"postinst-sysv"})
            \cup OnlyIf(i = "upstart", {"postinst-upstart"})
  <2> DEFINE npm     == If(s = "npm-install", <<"postinst-npm-install">>)
             account == If(i # "none", <<"postinst-account", "postinst-logdir">>)
             systemd == If(Uses("systemd", i),
                           <<"postinst-systemd-enable", "postinst-systemd-restart">>)
             sysv    == If(Uses("sysv", i), <<"postinst-sysv">>)
             upstart == If(i = "upstart", <<"postinst-upstart">>)
  <2>0. {"postinst-account", "postinst-logdir", "postinst-systemd-enable",
         "postinst-systemd-restart"} \subseteq Snippet
    BY DEF Snippet
  <2>1. npm \in Snippets /\ ToSet(npm) = OnlyIf(s = "npm-install", {"postinst-npm-install"})
    BY PartOfOne DEF Snippet, OnlyIf
  <2>2. account \in Snippets
        /\ ToSet(account) = OnlyIf(i # "none", {"postinst-account", "postinst-logdir"})
    BY <2>0, PartOfTwo DEF OnlyIf
  <2>3. systemd \in Snippets
        /\ ToSet(systemd) = OnlyIf(Uses("systemd", i), {"postinst-systemd-enable",
                                                        "postinst-systemd-restart"})
    BY <2>0, PartOfTwo DEF OnlyIf
  <2>4. sysv \in Snippets /\ ToSet(sysv) = OnlyIf(Uses("sysv", i), {"postinst-sysv"})
    BY PartOfOne DEF Snippet, OnlyIf
  <2>5. upstart \in Snippets /\ ToSet(upstart) = OnlyIf(i = "upstart", {"postinst-upstart"})
    BY PartOfOne DEF Snippet, OnlyIf
  <2>6. DebPostinst(i, s) = npm \o account \o systemd \o sysv \o upstart
    BY DEF DebPostinst, ServiceOnly
  <2> HIDE DEF npm, account, systemd, sysv, upstart
  <2> QED
    BY <2>1, <2>2, <2>3, <2>4, <2>5, <2>6, FiveParts
<1>3. ToSet(DebPrerm(i)) = OnlyIf(Uses("systemd", i), {"prerm-systemd-restart"})
                           \cup OnlyIf(Uses("sysv", i), {"prerm-sysv"})
                           \cup OnlyIf(i = "upstart", {"prerm-upstart"})
  <2> DEFINE systemd == If(Uses("systemd", i), <<"prerm-systemd-restart">>)
             sysv    == If(Uses("sysv", i), <<"prerm-sysv">>)
             upstart == If(i = "upstart", <<"prerm-upstart">>)
  <2>1. systemd \in Snippets /\ ToSet(systemd) = OnlyIf(Uses("systemd", i), {"prerm-systemd-restart"})
    BY PartOfOne DEF Snippet, OnlyIf
  <2>2. sysv \in Snippets /\ ToSet(sysv) = OnlyIf(Uses("sysv", i), {"prerm-sysv"})
    BY PartOfOne DEF Snippet, OnlyIf
  <2>3. upstart \in Snippets /\ ToSet(upstart) = OnlyIf(i = "upstart", {"prerm-upstart"})
    BY PartOfOne DEF Snippet, OnlyIf
  <2>4. DebPrerm(i) = systemd \o sysv \o upstart
    BY DEF DebPrerm
  <2> HIDE DEF systemd, sysv, upstart
  <2> QED
    BY <2>1, <2>2, <2>3, <2>4, ThreeParts
<1>4. ToSet(DebPostrm(i)) = OnlyIf(Uses("systemd", i), {"postrm-systemd"})
                            \cup OnlyIf(Uses("sysv", i), {"postrm-sysv"})
                            \cup OnlyIf(i # "none", {"postrm-purge"})
                            \cup OnlyIf(Uses("systemd", i), {"postrm-systemd-reload"})
  <2> DEFINE systemd == If(Uses("systemd", i), <<"postrm-systemd">>)
             sysv    == If(Uses("sysv", i), <<"postrm-sysv">>)
             purge   == If(i # "none", <<"postrm-purge">>)
             reload  == If(Uses("systemd", i), <<"postrm-systemd-reload">>)
  <2>1. systemd \in Snippets /\ ToSet(systemd) = OnlyIf(Uses("systemd", i), {"postrm-systemd"})
    BY PartOfOne DEF Snippet, OnlyIf
  <2>2. sysv \in Snippets /\ ToSet(sysv) = OnlyIf(Uses("sysv", i), {"postrm-sysv"})
    BY PartOfOne DEF Snippet, OnlyIf
  <2>3. purge \in Snippets /\ ToSet(purge) = OnlyIf(i # "none", {"postrm-purge"})
    BY PartOfOne DEF Snippet, OnlyIf
  <2>4. reload \in Snippets /\ ToSet(reload) = OnlyIf(Uses("systemd", i), {"postrm-systemd-reload"})
    BY PartOfOne DEF Snippet, OnlyIf
  <2>5. DebPostrm(i) = systemd \o sysv \o purge \o reload
    BY DEF DebPostrm, ServiceOnly
  <2> HIDE DEF systemd, sysv, purge, reload
  <2> QED
    BY <2>1, <2>2, <2>3, <2>4, <2>5, FourParts
<1> QED
  BY <1>1, <1>2, <1>3, <1>4 DEF OnlyIf

(* All that the scriptlets of an rpm are composed from.                      *)
LEMMA RpmSnippets ==
    ASSUME NEW i, NEW s
    PROVE  Composed("rpm", i, s)
               = OnlyIf(s = "npm-install", {"post-npm-install"})
                 \cup OnlyIf(i # "none", {"pre-account", "post-logdir", "postun-purge"})
                 \cup OnlyIf(Uses("systemd", i), {"post-systemd", "preun-systemd", "postun-systemd"})
                 \cup OnlyIf(Uses("sysv", i), {"post-sysv", "preun-sysv"})
<1>1. Composed("rpm", i, s) = ToSet(RpmPre(i)) \cup ToSet(RpmPost(i, s)) \cup ToSet(RpmPreun(i))
                              \cup ToSet(RpmPostun(i))
  BY DEF Composed, RpmScripts
<1>2. ToSet(RpmPre(i)) = OnlyIf(i # "none", {"pre-account"})
  BY PartOfOne DEF RpmPre, ServiceOnly, Snippet, OnlyIf
<1>3. ToSet(RpmPost(i, s)) = OnlyIf(s = "npm-install", {"post-npm-install"})
                             \cup OnlyIf(i # "none", {"post-logdir"})
                             \cup OnlyIf(Uses("systemd", i), {"post-systemd"})
                             \cup OnlyIf(Uses("sysv", i), {"post-sysv"})
  <2> DEFINE npm     == If(s = "npm-install", <<"post-npm-install">>)
             logdir  == If(i # "none", <<"post-logdir">>)
             systemd == If(Uses("systemd", i), <<"post-systemd">>)
             sysv    == If(Uses("sysv", i), <<"post-sysv">>)
  <2>1. npm \in Snippets /\ ToSet(npm) = OnlyIf(s = "npm-install", {"post-npm-install"})
    BY PartOfOne DEF Snippet, OnlyIf
  <2>2. logdir \in Snippets /\ ToSet(logdir) = OnlyIf(i # "none", {"post-logdir"})
    BY PartOfOne DEF Snippet, OnlyIf
  <2>3. systemd \in Snippets /\ ToSet(systemd) = OnlyIf(Uses("systemd", i), {"post-systemd"})
    BY PartOfOne DEF Snippet, OnlyIf
  <2>4. sysv \in Snippets /\ ToSet(sysv) = OnlyIf(Uses("sysv", i), {"post-sysv"})
    BY PartOfOne DEF Snippet, OnlyIf
  <2>5. RpmPost(i, s) = npm \o logdir \o systemd \o sysv
    BY DEF RpmPost, ServiceOnly, RpmUsesPreset, Uses
  <2> HIDE DEF npm, logdir, systemd, sysv
  <2> QED
    BY <2>1, <2>2, <2>3, <2>4, <2>5, FourParts
<1>4. ToSet(RpmPreun(i)) = OnlyIf(Uses("systemd", i), {"preun-systemd"})
                           \cup OnlyIf(Uses("sysv", i), {"preun-sysv"})
  <2> DEFINE systemd == If(Uses("systemd", i), <<"preun-systemd">>)
             sysv    == If(Uses("sysv", i), <<"preun-sysv">>)
  <2>1. systemd \in Snippets /\ ToSet(systemd) = OnlyIf(Uses("systemd", i), {"preun-systemd"})
    BY PartOfOne DEF Snippet, OnlyIf
  <2>2. sysv \in Snippets /\ ToSet(sysv) = OnlyIf(Uses("sysv", i), {"preun-sysv"})
    BY PartOfOne DEF Snippet, OnlyIf
  <2>3. RpmPreun(i) = systemd \o sysv
    BY DEF RpmPreun
  <2> HIDE DEF systemd, sysv
  <2> QED
    BY <2>1, <2>2, <2>3, BothParts
<1>5. ToSet(RpmPostun(i)) = OnlyIf(Uses("systemd", i), {"postun-systemd"})
                            \cup OnlyIf(i # "none", {"postun-purge"})
  <2> DEFINE systemd == If(Uses("systemd", i), <<"postun-systemd">>)
             purge   == If(i # "none", <<"postun-purge">>)
  <2>1. systemd \in Snippets /\ ToSet(systemd) = OnlyIf(Uses("systemd", i), {"postun-systemd"})
    BY PartOfOne DEF Snippet, OnlyIf
  <2>2. purge \in Snippets /\ ToSet(purge) = OnlyIf(i # "none", {"postun-purge"})
    BY PartOfOne DEF Snippet, OnlyIf
  <2>3. RpmPostun(i) = systemd \o purge
    BY DEF RpmPostun, ServiceOnly
  <2> HIDE DEF systemd, purge
  <2> QED
    BY <2>1, <2>2, <2>3, BothParts
<1> QED
  BY <1>1, <1>2, <1>3, <1>4, <1>5 DEF OnlyIf

(* All that the install script of an Arch package is composed from.          *)
LEMMA ArchSnippets ==
    ASSUME NEW i, NEW s
    PROVE  Composed("arch", i, s)
               = OnlyIf(s = "npm-install", {"npm-install"})
                 \cup OnlyIf(ArchUsesPreset(i),
                             {"account", "logdir", "systemd-reload", "systemd-enable", "systemd-start",
                              "systemd-restart", "systemd-stop", "purge"})
<1>1. Composed("arch", i, s) = ToSet(ArchPostInstall(i, s)) \cup ToSet(ArchPostUpgrade(i))
                               \cup ToSet(ArchPreRemove(i)) \cup ToSet(ArchPostRemove(i))
  BY DEF Composed, ArchScripts
<1>2. ToSet(ArchPostInstall(i, s))
          = OnlyIf(s = "npm-install", {"npm-install"})
            \cup OnlyIf(ArchUsesPreset(i),
                        {"account", "logdir", "systemd-reload", "systemd-enable", "systemd-start"})
  <2> DEFINE npm    == If(s = "npm-install", <<"npm-install">>)
             preset == If(ArchUsesPreset(i),
                          <<"account", "logdir", "systemd-reload", "systemd-enable", "systemd-start">>)
  <2>0. {"account", "logdir", "systemd-reload", "systemd-enable", "systemd-start"} \subseteq Snippet
    BY DEF Snippet
  <2>1. npm \in Snippets /\ ToSet(npm) = OnlyIf(s = "npm-install", {"npm-install"})
    BY PartOfOne DEF Snippet, OnlyIf
  <2>2. preset \in Snippets
        /\ ToSet(preset) = OnlyIf(ArchUsesPreset(i), {"account", "logdir", "systemd-reload",
                                                      "systemd-enable", "systemd-start"})
    BY <2>0, PartOfFive DEF OnlyIf
  <2>3. ArchPostInstall(i, s) = npm \o preset
    BY DEF ArchPostInstall
  <2> HIDE DEF npm, preset
  <2> QED
    BY <2>1, <2>2, <2>3, BothParts
<1>0. {"systemd-reload", "systemd-restart", "purge"} \subseteq Snippet
  BY DEF Snippet
<1>3. ToSet(ArchPostUpgrade(i)) = OnlyIf(ArchUsesPreset(i), {"systemd-reload", "systemd-restart"})
  BY <1>0, PartOfTwo DEF ArchPostUpgrade, OnlyIf
<1>4. ToSet(ArchPreRemove(i)) = OnlyIf(ArchUsesPreset(i), {"systemd-stop"})
  BY PartOfOne DEF ArchPreRemove, Snippet, OnlyIf
<1>5. ToSet(ArchPostRemove(i)) = OnlyIf(ArchUsesPreset(i), {"systemd-reload", "purge"})
  BY <1>0, PartOfTwo DEF ArchPostRemove, OnlyIf
<1> QED
  BY <1>1, <1>2, <1>3, <1>4, <1>5 DEF OnlyIf

(* A service was asked for: its package starts it, or the user was told that *)
(* it will not (run.rs, format.rs unsupported).                              *)
THEOREM ServicesStart == Spec => []ServiceOrWarning
<1>1. IInv => ServiceOrWarning
  <2> SUFFICES ASSUME IInv, NEW format \in DOMAIN packages, config.init # "none"
               PROVE  \/ Composed(format, config.init, config.install_strategy) \cap Starters # {}
                      \/ Warn("Unsupported", format) \in warnings
    BY DEF ServiceOrWarning
  <2>1. "stamp" \in DOMAIN config /\ format \in request.formats /\ format \in Formats
    BY NothingGiven DEF IInv, Queued, IsInvocation, Formats
  <2>2. config.init \in InitSystem
    <3>1. config.init = From(given, "init", "auto") /\ given = GivenFrom(request)
      BY <2>1, PlanInit DEF IInv, LayersMerged
    <3>2. IsLayer(given)
      BY <3>1, GivenIsALayer DEF IInv
    <3> QED
      BY <3>1, <3>2 DEF IsLayer, From, InitSystem
  <2>3. CASE Unsupported(format, config.init)
    BY <2>1, <2>3 DEF IInv, Heard
  <2>4. CASE ~Unsupported(format, config.init) /\ format = "deb"
    BY <2>2, <2>4, DebSnippets DEF InitSystem, OnlyIf, Uses, Starters
  <2>5. CASE ~Unsupported(format, config.init) /\ format = "rpm"
    BY <2>2, <2>5, RpmSnippets DEF Unsupported, InitSystem, OnlyIf, Uses, Starters
  <2>6. CASE ~Unsupported(format, config.init) /\ format = "arch"
    BY <2>2, <2>6, ArchSnippets DEF Unsupported, InitSystem, OnlyIf, ArchUsesPreset, Starters
  <2> QED
    BY <2>1, <2>3, <2>4, <2>5, <2>6 DEF Formats
<1> QED
  BY <1>1, Invariance, PTL

-----------------------------------------------------------------------------
(* Two builds of one project.                                                *)

(* But for its stamps a package does not tell when its sources were checked  *)
(* out.                                                                      *)
LEMMA OnlyStamps ==
    ASSUME NEW f, NEW templates, NEW tree, NEW before, NEW after, NEW c,
           NEW old, old = PackageOf(f, templates, tree, before, c),
           NEW new, new = PackageOf(f, templates, tree, after, c)
    PROVE  /\ [new EXCEPT !.stamps = {}] = [old EXCEPT !.stamps = {}]
           /\ EntryStamps(f, c.stamp, before) = EntryStamps(f, c.stamp, after) => new = old
<1>1. PICK a, b, d, e, g : \A mtimes : PackageOf(f, templates, tree, mtimes, c) =
          [file |-> a, generated |-> b, depends |-> d, version |-> e,
           stamps |-> EntryStamps(f, c.stamp, mtimes), metadata |-> g]
  BY DEF PackageOf
<1> QED
  BY <1>1

(* A later checkout differs in the times of its files only.                  *)
LEMMA LaterFields ==
    ASSUME NEW r, IsInvocation(r)
    PROVE  LET next == AtLaterCheckout(r)
           IN  /\ next.entry = r.entry /\ next.flags = r.flags /\ next.settings = r.settings
               /\ next.manifest = r.manifest /\ next.switches = r.switches
               /\ next.formats = r.formats /\ next.templates = r.templates /\ next.tree = r.tree
               /\ next.world.sde = r.world.sde /\ next.world.git = r.world.git
               /\ next.world.mtimes = {mtime + 1 : mtime \in r.world.mtimes}
  BY DEF AtLaterCheckout, IsInvocation

(* An entry that is not older than the stamp has the stamp, or the last one  *)
(* that an rpm can carry.                                                    *)
LEMMA YoungEntry ==
    ASSUME NEW stamp \in Int, NEW mtime \in Int, stamp <= mtime
    PROVE  Min({stamp, MaxEpoch, mtime}) = IF stamp <= MaxEpoch THEN stamp ELSE MaxEpoch
  BY MaxEpochAssumption DEF Min

(* Two builds of one commit are the same package, whenever they are checked  *)
(* out (core/timestamp.rs; rpm/mod.rs clamps to the older stamp).            *)
THEOREM RebuildsAreEqual == Spec => []RebuildsAgree
<1>1. IInv => RebuildsAgree
  <2> SUFFICES ASSUME IInv, earlier # NoKeys, Done, config.stamped_by # "NewestSourceMtime"
               PROVE  /\ DOMAIN packages = DOMAIN earlier
                      /\ \A format \in DOMAIN packages :
                            \/ packages[format] = earlier[format]
                            \/ /\ format = "rpm"
                               /\ \E mtime \in request.world.mtimes : mtime - 1 < config.stamp
                               /\ [packages["rpm"] EXCEPT !.stamps = {}]
                                     = [earlier["rpm"] EXCEPT !.stamps = {}]
    BY DEF RebuildsAgree
  <2>1. PICK r : IsInvocation(r) /\ request = AtLaterCheckout(r) /\ earlier = PackagesOf(r)
    BY DEF IInv, BuiltBefore
  <2>2. /\ "stamp" \in DOMAIN config /\ config = ConfigOf(request)
        /\ packages = PackagesOf(request)
    BY DoneBuilds
  <2>3. /\ request.entry = r.entry /\ request.flags = r.flags /\ request.settings = r.settings
        /\ request.manifest = r.manifest /\ request.switches = r.switches
        /\ request.formats = r.formats /\ request.templates = r.templates /\ request.tree = r.tree
        /\ request.world.sde = r.world.sde /\ request.world.git = r.world.git
        /\ request.world.mtimes = {mtime + 1 : mtime \in r.world.mtimes}
    BY <2>1, LaterFields
  <2>4. config.stamp = Stamp(request.world) /\ config.stamped_by = StampedBy(request.world)
    BY <2>2, PlanInit DEF IInv
  <2>5. ~(request.world.sde = Unset /\ request.world.git = Unset)
    BY <2>4 DEF StampedBy
  <2>6. Stamp(r.world) = Stamp(request.world) /\ StampedBy(r.world) = StampedBy(request.world)
    BY <2>3, <2>5 DEF Stamp, StampedBy
  <2>7. ConfigOf(r) = config
    <3>1. GivenFrom(r) = GivenFrom(request)
      BY <2>3 DEF GivenFrom
    <3>2. \A g : Resolved(r, g) = Resolved(request, g)
      BY <2>3, <2>6 DEF Resolved
    <3> QED
      BY <2>2, <3>1, <3>2 DEF ConfigOf
  <2>8. DOMAIN packages = request.formats /\ DOMAIN earlier = request.formats
    BY <2>1, <2>2, <2>3 DEF PackagesOf
  <2>9. ASSUME NEW format \in DOMAIN packages
        PROVE  \/ packages[format] = earlier[format]
               \/ /\ format = "rpm" /\ \E mtime \in request.world.mtimes : mtime - 1 < config.stamp
                  /\ [packages["rpm"] EXCEPT !.stamps = {}] = [earlier["rpm"] EXCEPT !.stamps = {}]
    <3> DEFINE before == r.world.mtimes
               after  == request.world.mtimes
               stamps(mtimes) == EntryStamps(format, config.stamp, mtimes)
    <3>1. /\ packages[format] = PackageOf(format, request.templates, request.tree, after, config)
          /\ earlier[format] = PackageOf(format, request.templates, request.tree, before, config)
      BY <2>1, <2>2, <2>3, <2>7, <2>8 DEF PackagesOf, PackageIn
    <3>2. /\ [packages[format] EXCEPT !.stamps = {}] = [earlier[format] EXCEPT !.stamps = {}]
          /\ stamps(before) = stamps(after) => packages[format] = earlier[format]
      <4> HIDE DEF before, after
      <4>1. /\ [packages[format] EXCEPT !.stamps = {}] = [earlier[format] EXCEPT !.stamps = {}]
            /\ EntryStamps(format, config.stamp, before) = EntryStamps(format, config.stamp, after)
                  => packages[format] = earlier[format]
        BY <3>1, OnlyStamps
      <4> QED
        BY <4>1
    <3>3. CASE format # "rpm"
      BY <3>2, <3>3 DEF EntryStamps
    <3>4. CASE format = "rpm" /\ \E mtime \in after : mtime - 1 < config.stamp
      BY <3>2, <3>4
    <3>5. CASE format = "rpm" /\ ~\E mtime \in after : mtime - 1 < config.stamp
      <4> DEFINE common == IF config.stamp <= MaxEpoch THEN config.stamp ELSE MaxEpoch
      <4>1. before \subseteq Int /\ after = {mtime + 1 : mtime \in before} /\ config.stamp \in Int
        <5>1. r.world \in [sde : Int, git : Int, mtimes : SUBSET Int]
          BY <2>1 DEF IsInvocation
        <5> QED
          BY <2>3, <2>4, <2>5, <5>1 DEF Stamp
      <4> HIDE DEF before, after
      <4>2. \A mtime \in before : config.stamp <= mtime /\ config.stamp <= mtime + 1
        <5>1. SUFFICES ASSUME NEW mtime \in before
                       PROVE  config.stamp <= mtime /\ config.stamp <= mtime + 1
          OBVIOUS
        <5>2. mtime + 1 \in after /\ mtime \in Int
          BY <4>1
        <5>3. ~(mtime + 1 - 1 < config.stamp)
          BY <3>5, <5>2
        <5> QED
          BY <4>1, <5>2, <5>3
      <4>3. \A mtime \in before : Min({config.stamp, MaxEpoch, mtime}) = common
                                  /\ Min({config.stamp, MaxEpoch, mtime + 1}) = common
        BY <4>1, <4>2, YoungEntry
      <4>4. stamps(before) = {Min({config.stamp, MaxEpoch, mtime}) : mtime \in before}
            /\ stamps(after) = {Min({config.stamp, MaxEpoch, mtime}) : mtime \in after}
        BY <3>5 DEF EntryStamps
      <4>5. stamps(after) = {Min({config.stamp, MaxEpoch, mtime + 1}) : mtime \in before}
        BY <4>1, <4>4
      <4> HIDE DEF stamps, common
      <4>6. stamps(before) = stamps(after)
        BY <4>3, <4>4, <4>5
      <4> QED
        BY <3>2, <4>6
    <3> QED
      BY <3>3, <3>4, <3>5
  <2> QED
    BY <2>8, <2>9
<1> QED
  BY <1>1, Invariance, PTL

-----------------------------------------------------------------------------
(* The packages a package depends on.                                        *)

(* A package beside the ones there are, unless one of them names it.         *)
Beside(merged, package) ==
    IF \E i \in DOMAIN merged : NamesPackage(merged[i], package)
    THEN merged ELSE Append(merged, package)

(* The last place of a sequence of one or of two.                            *)
LEMMA GreatestOf == Max({1}) = 1 /\ Max({1, 2}) = 2 /\ Max({2}) = 2
  BY DEF Max

(* Nothing to merge with what was declared,                                  *)
LEMMA MergedNone ==
    ASSUME NEW declared
    PROVE  Merged(declared, <<>>) = declared
<1> DEFINE Iterates(f) == f = [s \in SUBSET DOMAIN <<>> |->
                                  IF s = {} THEN declared ELSE Beside(f[s \ {Max(s)}], <<>>[Max(s)])]
           iter == CHOOSE f : Iterates(f)
<1>1. Merged(declared, <<>>) = iter[DOMAIN <<>>]
  BY DEF Merged, FoldLeft, MapThenFoldSet, Beside
<1>2. DOMAIN <<>> = {}
  BY NoChecks
<1>3. Iterates([s \in SUBSET DOMAIN <<>> |-> declared])
  BY <1>2
<1>4. Iterates(iter)
  BY <1>3
<1>5. iter[{}] = declared
  BY <1>4
<1> HIDE DEF iter
<1> QED
  BY <1>1, <1>2, <1>5

(* one package,                                                              *)
LEMMA MergedOne ==
    ASSUME NEW declared, NEW package
    PROVE  Merged(declared, <<package>>) = Beside(declared, package)
<1> DEFINE required == <<package>>
           Iterates(f) == f = [s \in SUBSET DOMAIN required |->
                                  IF s = {} THEN declared
                                  ELSE Beside(f[s \ {Max(s)}], required[Max(s)])]
           iter == CHOOSE f : Iterates(f)
           one == [s \in SUBSET DOMAIN required |->
                      IF s = {} THEN declared ELSE Beside(declared, package)]
<1>1. Merged(declared, <<package>>) = iter[DOMAIN required]
  BY DEF Merged, FoldLeft, MapThenFoldSet, Beside
<1>2. DOMAIN required = {1} /\ required[1] = package
  OBVIOUS
<1> HIDE DEF required
<1>3. Iterates(one)
  BY <1>2, GreatestOf
<1>4. Iterates(iter)
  BY <1>3
<1>5. iter[{}] = declared /\ iter[{1}] = Beside(iter[{1} \ {Max({1})}], required[Max({1})])
  BY <1>2, <1>4
<1> HIDE DEF iter
<1>6. {1} \ {1} = {}
  OBVIOUS
<1> QED
  BY <1>1, <1>2, <1>5, <1>6, GreatestOf

(* two packages, one after the other.                                        *)
LEMMA MergedTwo ==
    ASSUME NEW declared, NEW package, NEW another
    PROVE  Merged(declared, <<package, another>>) = Beside(Beside(declared, package), another)
<1> DEFINE required == <<package, another>>
           Iterates(f) == f = [s \in SUBSET DOMAIN required |->
                                  IF s = {} THEN declared
                                  ELSE Beside(f[s \ {Max(s)}], required[Max(s)])]
           iter == CHOOSE f : Iterates(f)
           of(s) == CASE s = {}  -> declared
                      [] s = {1} -> Beside(declared, package)
                      [] s = {2} -> Beside(declared, another)
                      [] s = {1, 2} -> Beside(Beside(declared, package), another)
           two == [s \in SUBSET DOMAIN required |-> of(s)]
<1>1. Merged(declared, <<package, another>>) = iter[DOMAIN required]
  BY DEF Merged, FoldLeft, MapThenFoldSet, Beside
<1>2. DOMAIN required = {1, 2} /\ required[1] = package /\ required[2] = another
  OBVIOUS
<1> HIDE DEF required
<1>3. Iterates(two)
  <2>1. \A s \in SUBSET DOMAIN required : s = {} \/ s = {1} \/ s = {2} \/ s = {1, 2}
    BY <1>2
  <2>2. {1} \ {1} = {} /\ {2} \ {2} = {} /\ {1, 2} \ {2} = {1}
    OBVIOUS
  <2>3. /\ two[{}] = declared /\ two[{1}] = Beside(declared, package)
        /\ two[{2}] = Beside(declared, another)
        /\ two[{1, 2}] = Beside(Beside(declared, package), another)
    <3>1. {{}, {1}, {2}, {1, 2}} \subseteq SUBSET DOMAIN required
      BY <1>2
    <3>2. {1} # {} /\ {2} # {} /\ {1, 2} # {} /\ {1} # {2} /\ {1} # {1, 2} /\ {2} # {1, 2}
      OBVIOUS
    <3> QED
      BY <3>1, <3>2
  <2>4. \A s \in SUBSET DOMAIN required :
           two[s] = IF s = {} THEN declared ELSE Beside(two[s \ {Max(s)}], required[Max(s)])
    <3> HIDE DEF two
    <3> SUFFICES ASSUME NEW s \in SUBSET DOMAIN required
                 PROVE two[s] = IF s = {} THEN declared ELSE Beside(two[s \ {Max(s)}], required[Max(s)])
      OBVIOUS
    <3>1. CASE s = {}
      BY <2>3, <3>1
    <3>2. CASE s = {1}
      BY <1>2, <2>2, <2>3, <3>2, GreatestOf
    <3>3. CASE s = {2}
      BY <1>2, <2>2, <2>3, <3>3, GreatestOf
    <3>4. CASE s = {1, 2}
      BY <1>2, <2>2, <2>3, <3>4, GreatestOf
    <3> QED
      BY <2>1, <3>1, <3>2, <3>3, <3>4
  <2>5. two = [s \in SUBSET DOMAIN required |-> two[s]]
    <3> HIDE DEF of
    <3> QED
      OBVIOUS
  <2> HIDE DEF two
  <2>6. two = [s \in SUBSET DOMAIN required |->
                  IF s = {} THEN declared ELSE Beside(two[s \ {Max(s)}], required[Max(s)])]
    <3> DEFINE value(s) == IF s = {} THEN declared ELSE Beside(two[s \ {Max(s)}], required[Max(s)])
    <3>1. \A s \in SUBSET DOMAIN required : two[s] = value(s)
      BY <2>4
    <3> HIDE DEF value
    <3>2. two = [s \in SUBSET DOMAIN required |-> value(s)]
      BY <2>5, <3>1
    <3> QED
      BY <3>2 DEF value
  <2> QED
    BY <2>6
<1>4. Iterates(iter)
  <2> HIDE DEF two
  <2> QED
    BY <1>3
<1>5. /\ iter[{}] = declared /\ iter[{1}] = Beside(iter[{1} \ {Max({1})}], required[Max({1})])
      /\ iter[{1, 2}] = Beside(iter[{1, 2} \ {Max({1, 2})}], required[Max({1, 2})])
  <2>1. {1} # {} /\ {1, 2} # {} /\ {{}, {1}, {1, 2}} \subseteq SUBSET DOMAIN required
    BY <1>2
  <2> HIDE DEF iter
  <2> QED
    BY <1>4, <2>1
<1> HIDE DEF iter
<1>6. {1} \ {1} = {} /\ {1, 2} \ {2} = {1}
  OBVIOUS
<1> QED
  BY <1>1, <1>2, <1>5, <1>6, GreatestOf

(* A sequence with nothing before or behind it.                              *)
LEMMA OneInSequence ==
    ASSUME NEW S, NEW x \in S
    PROVE  <<x>> \o <<>> = <<x>> /\ <<>> \o <<x>> = <<x>>
<1> DEFINE one == <<x>>
<1>1. one \in Seq(S)
  OBVIOUS
<1> HIDE DEF one
<1>2. one \o <<>> = one /\ <<>> \o one = one
  BY <1>1, ConcatEmptySeq
<1> QED
  BY <1>2 DEF one

(* A list goes on from another; a package is on a list.                      *)
Extends(more, merged) == \A i \in DOMAIN merged : i \in DOMAIN more /\ more[i] = merged[i]
Has(merged, name)     == \E i \in DOMAIN merged : merged[i].name = name

(* One more package: what was there stays in its place, and now it is there. *)
LEMMA BesideKeeps ==
    ASSUME NEW E, NEW merged \in Seq(E), NEW package \in E
    PROVE  /\ Beside(merged, package) \in Seq(E)
           /\ Extends(Beside(merged, package), merged)
           /\ Has(Beside(merged, package), package.name)
<1> DEFINE more == Beside(merged, package)
<1>1. CASE \E i \in DOMAIN merged : NamesPackage(merged[i], package)
  BY <1>1 DEF Beside, NamesPackage, Extends, Has
<1>2. CASE ~\E i \in DOMAIN merged : NamesPackage(merged[i], package)
  <2>1. more = Append(merged, package)
    BY <1>2 DEF Beside
  <2> HIDE DEF more
  <2>2. /\ more \in Seq(E) /\ Len(more) = Len(merged) + 1
        /\ \A i \in 1..Len(merged) : more[i] = merged[i]
        /\ more[Len(merged) + 1] = package
    BY <2>1, AppendProperties
  <2>3. Len(merged) \in Nat /\ DOMAIN merged = 1..Len(merged) /\ DOMAIN more = 1..Len(merged) + 1
    BY <2>2, LenProperties
  <2>4. Len(merged) + 1 \in DOMAIN more
    BY <2>3
  <2>5. more \in Seq(E) /\ Extends(more, merged) /\ Has(more, package.name)
    BY <2>2, <2>3, <2>4 DEF Extends, Has
  <2> QED
    BY <2>5 DEF more
<1> QED
  BY <1>1, <1>2

(* Two packages that may be required: each of them is there, if it is.       *)
LEMMA MergingKeeps ==
    ASSUME NEW E, NEW declared \in Seq(E), NEW x \in E, NEW y \in E, NEW p, NEW q,
           NEW required, required = If(p, <<x>>) \o If(q, <<y>>),
           NEW merged, merged = Merged(declared, required)
    PROVE  Extends(merged, declared) /\ (p => Has(merged, x.name)) /\ (q => Has(merged, y.name))
<1>1. CASE ~p /\ ~q
  <2>1. required = <<>>
    BY <1>1 DEF If
  <2> QED
    BY <1>1, <2>1, MergedNone DEF Extends
<1>2. CASE p /\ ~q
  <2>1. required = <<x>> \o <<>>
    BY <1>2 DEF If
  <2>2. merged = Merged(declared, <<x>>)
    BY <2>1, OneInSequence
  <2>3. merged = Beside(declared, x)
    BY <2>2, MergedOne
  <2> QED
    BY <1>2, <2>3, BesideKeeps
<1>3. CASE ~p /\ q
  <2>1. required = <<>> \o <<y>>
    BY <1>3 DEF If
  <2>2. merged = Merged(declared, <<y>>)
    BY <2>1, OneInSequence
  <2>3. merged = Beside(declared, y)
    BY <2>2, MergedOne
  <2> QED
    BY <1>3, <2>3, BesideKeeps
<1>4. CASE p /\ q
  <2>1. required = <<x>> \o <<y>>
    BY <1>4 DEF If
  <2>2. merged = Merged(declared, <<x, y>>)
    BY <2>1, TwoInSequence
  <2> DEFINE one == Beside(declared, x)
  <2>0. Merged(declared, <<x, y>>) = Beside(Beside(declared, x), y)
    BY ONLY MergedTwo
  <2>3. merged = Beside(one, y)
    BY <2>0, <2>2
  <2>4. one \in Seq(E) /\ Extends(one, declared) /\ Has(one, x.name)
    BY BesideKeeps
  <2> HIDE DEF one
  <2>5. Extends(merged, one) /\ Has(merged, y.name)
    BY <2>3, <2>4, BesideKeeps
  <2>6. Extends(merged, declared) /\ Has(merged, x.name)
    BY <2>4, <2>5 DEF Extends, Has
  <2> QED
    BY <2>5, <2>6
<1> QED
  BY <1>1, <1>2, <1>3, <1>4

(* Entries of a list, those that are merged among them.  (That a literal is  *)
(* in STRING is not known to the provers.)                                   *)
PackageNames == STRING \cup {"adduser", "init-system-helpers", "shadow-utils", "systemd", "nodejs"}
Entries      == [name : PackageNames, spelling : Spelling \cup {"folded"}]

(* What the scripts require is an entry of a list.                           *)
LEMMA EntryOfList ==
    ASSUME NEW name \in PackageNames, NEW spelling \in Spelling,
           NEW entry, entry = Entry(name, spelling)
    PROVE  entry \in Entries /\ entry.name = name
  BY DEF Entry, Entries

(* And so are these.                                                         *)
LEMMA RequiredEntries ==
    /\ {"adduser", "init-system-helpers", "shadow-utils", "systemd", "nodejs"} \subseteq PackageNames
    /\ {"bare", "versioned"} \subseteq Spelling
  BY DEF Spelling, PackageNames

(* What a field has is what was merged, named as it was.                     *)
LEMMA FieldOfMerged ==
    ASSUME NEW f, NEW i, NEW s, NEW declared,
           NEW merged, merged = Merged(declared, Required(f, i, s)),
           NEW field, field = Field(f, i, s, declared)
    PROVE  /\ DOMAIN field = DOMAIN merged
           /\ \A j \in DOMAIN merged :
                 /\ field[j].name = merged[j].name
                 /\ f = "deb" => field[j].spelling = merged[j].spelling
                 /\ field[j].pre = (f = "rpm" /\ merged[j].name = "shadow-utils")
  BY DEF Field

(* The declared packages are merged with those behind the scripts' commands. *)
LEMMA AllIsMerged ==
    ASSUME NEW f \in Formats, NEW i, NEW s, NEW declared \in Seq(Entries),
           NEW merged, merged = Merged(declared, Required(f, i, s)),
           NEW calls, calls = Composed(f, i, s) \cap DOMAIN Provider
    PROVE  /\ Extends(merged, declared)
           /\ \A snippet \in calls : Has(merged, Provider[snippet])
           /\ "pre-account" \in calls => f = "rpm"
<1> DEFINE used(names) == names \cap Composed(f, i, s) # {}
<1>1. /\ DOMAIN Provider = Adduser \cup SystemHelpers \cup ShadowUtils \cup Systemd
      /\ \A snippet \in Adduser : Provider[snippet] = "adduser"
      /\ \A snippet \in SystemHelpers : Provider[snippet] = "init-system-helpers"
      /\ \A snippet \in ShadowUtils : Provider[snippet] = "shadow-utils"
      /\ \A snippet \in Systemd : Provider[snippet] = "systemd"
  BY DEF Provider, Adduser, SystemHelpers, ShadowUtils, Systemd
<1>2. CASE f = "deb"
  <2> DEFINE adduser == Entry("adduser", "bare")
             helpers == Entry("init-system-helpers", "versioned")
  <2>1. adduser \in Entries /\ helpers \in Entries /\ adduser.name = "adduser"
        /\ helpers.name = "init-system-helpers"
    BY EntryOfList, RequiredEntries
  <2>2. Required(f, i, s) = If(used(Adduser), <<adduser>>) \o If(used(SystemHelpers), <<helpers>>)
    BY <1>2 DEF Required, DebRequired, Adduser, SystemHelpers
  <2>3. calls \subseteq Adduser \cup SystemHelpers
    BY <1>1, <1>2, DebSnippets DEF OnlyIf, Adduser, SystemHelpers, ShadowUtils, Systemd
  <2>4. "pre-account" \notin calls
    BY <2>3 DEF Adduser, SystemHelpers
  <2> HIDE DEF adduser, helpers, used
  <2>5. /\ Extends(merged, declared)
        /\ used(Adduser) => Has(merged, "adduser")
        /\ used(SystemHelpers) => Has(merged, "init-system-helpers")
    BY <2>1, <2>2, MergingKeeps
  <2> QED
    BY <1>1, <2>3, <2>4, <2>5 DEF used
<1>3. CASE f = "rpm"
  <2> DEFINE shadow  == Entry("shadow-utils", "bare")
             systemd == Entry("systemd", "bare")
  <2>1. shadow \in Entries /\ systemd \in Entries /\ shadow.name = "shadow-utils"
        /\ systemd.name = "systemd"
    BY EntryOfList, RequiredEntries
  <2>2. Required(f, i, s) = If(used(ShadowUtils), <<shadow>>) \o If(used(Systemd), <<systemd>>)
    BY <1>3 DEF Required, RpmRequired, ShadowUtils, Systemd
  <2>3. calls \subseteq ShadowUtils \cup Systemd
    BY <1>1, <1>3, RpmSnippets DEF OnlyIf, Adduser, SystemHelpers, ShadowUtils, Systemd
  <2> HIDE DEF shadow, systemd, used
  <2>4. /\ Extends(merged, declared)
        /\ used(ShadowUtils) => Has(merged, "shadow-utils")
        /\ used(Systemd) => Has(merged, "systemd")
    BY <2>1, <2>2, MergingKeeps
  <2> QED
    BY <1>1, <1>3, <2>3, <2>4 DEF used
<1>4. CASE f = "arch"
  <2>1. calls = {}
    BY <1>1, <1>4, ArchSnippets DEF OnlyIf, Adduser, SystemHelpers, ShadowUtils, Systemd
  <2>2. merged = declared
    BY <1>4, MergedNone DEF Required
  <2> QED
    BY <2>1, <2>2 DEF Extends
<1> QED
  BY <1>2, <1>3, <1>4 DEF Formats

(* What was declared is a sequence of entries.                               *)
LEMMA DeclaredEntries ==
    ASSUME IInv, "stamp" \in DOMAIN config
    PROVE  config.dependencies \in Seq(Entries)
<1>1. /\ config.dependencies = WithNodejs(From(given, "dependencies", <<>>),
                                          "nodejs" \in request.switches)
      /\ given = GivenFrom(request)
  BY PlanInit DEF IInv, LayersMerged
<1> DEFINE user == From(given, "dependencies", <<>>)
<1>2. user \in Seq(Entries)
  <2> DEFINE Declarable == [name : STRING, spelling : Spelling \cup {"folded"}]
  <2>1. IsLayer(given)
    BY <1>1, GivenIsALayer DEF IInv
  <2>2. user \in Seq(Declarable)
    BY <2>1 DEF IsLayer, From
  <2>3. Declarable \subseteq Entries
    BY DEF Entries, PackageNames
  <2> HIDE DEF Declarable
  <2> QED
    BY <2>2, <2>3
<1>3. <<Entry("nodejs", "bare")>> \in Seq(Entries)
  <2>1. Entry("nodejs", "bare") \in Entries
    BY EntryOfList, RequiredEntries
  <2> QED
    BY <2>1
<1> HIDE DEF user
<1>4. If("nodejs" \in request.switches, <<Entry("nodejs", "bare")>>) \in Seq(Entries)
  BY <1>3 DEF If
<1> QED
  BY <1>1, <1>2, <1>4 DEF WithNodejs, user

(* Whatever init setting and list a user gives, a package depends on every   *)
(* package whose commands its scripts call, rpm's in time for %pre, and what *)
(* the user declared stays in its place (format.rs with_dependencies).       *)
THEOREM ScriptsFindTheirCommands == Spec => []DependenciesSuffice
<1>1. IInv => DependenciesSuffice
  <2> SUFFICES ASSUME IInv, NEW format \in DOMAIN packages
               PROVE  LET field    == packages[format].depends
                          declared == config.dependencies
                      IN  /\ \A snippet \in Composed(format, config.init, config.install_strategy)
                                               \cap DOMAIN Provider :
                                \E i \in DOMAIN field :
                                    /\ field[i].name = Provider[snippet]
                                    /\ snippet = "pre-account" => field[i].pre
                          /\ \A i \in DOMAIN declared :
                                /\ i \in DOMAIN field /\ field[i].name = declared[i].name
                                /\ format = "deb" => field[i].spelling = declared[i].spelling
    BY DEF DependenciesSuffice
  <2> DEFINE init     == config.init
             strategy == config.install_strategy
             declared == config.dependencies
             field    == packages[format].depends
             merged   == Merged(declared, Required(format, init, strategy))
             calls    == Composed(format, init, strategy) \cap DOMAIN Provider
  <2>1. "stamp" \in DOMAIN config /\ format \in Formats
    BY NothingGiven DEF IInv, Queued, IsInvocation, Formats
  <2>2. field = Field(format, init, strategy, declared)
    <3>1. packages[format] = PackageIn(format, request, config)
      BY DEF IInv, Built
    <3> QED
      BY <3>1 DEF PackageIn, PackageOf
  <2>3. declared \in Seq(Entries)
    BY <2>1, DeclaredEntries
  <2> HIDE DEF init, strategy, declared, field
  <2>4. /\ DOMAIN field = DOMAIN merged
        /\ \A j \in DOMAIN merged :
              /\ field[j].name = merged[j].name
              /\ format = "deb" => field[j].spelling = merged[j].spelling
              /\ field[j].pre = (format = "rpm" /\ merged[j].name = "shadow-utils")
    BY <2>2, FieldOfMerged
  <2>5. /\ Extends(merged, declared)
        /\ \A snippet \in calls : Has(merged, Provider[snippet])
        /\ "pre-account" \in calls => format = "rpm"
    BY <2>1, <2>3, AllIsMerged
  <2> HIDE DEF merged, calls
  <2>6. Provider["pre-account"] = "shadow-utils"
    BY DEF Provider, Adduser, SystemHelpers, ShadowUtils, Systemd
  <2>7. ASSUME NEW snippet \in calls
        PROVE  \E i \in DOMAIN field : /\ field[i].name = Provider[snippet]
                                       /\ snippet = "pre-account" => field[i].pre
    <3>1. PICK i \in DOMAIN merged : merged[i].name = Provider[snippet]
      BY <2>5 DEF Has
    <3>2. i \in DOMAIN field /\ field[i].name = Provider[snippet]
      BY <2>4, <3>1
    <3>3. snippet = "pre-account" => field[i].pre
      BY <2>4, <2>5, <2>6, <3>1
    <3> QED
      BY <3>2, <3>3
  <2>8. ASSUME NEW i \in DOMAIN declared
        PROVE  /\ i \in DOMAIN field /\ field[i].name = declared[i].name
               /\ format = "deb" => field[i].spelling = declared[i].spelling
    BY <2>4, <2>5 DEF Extends
  <2> QED
    BY <2>7, <2>8 DEF init, strategy, declared, field, calls
<1> QED
  BY <1>1, Invariance, PTL
=============================================================================
