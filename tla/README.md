# A specification of nativepkg

nativepkg builds `.deb`, `.rpm` and Arch packages of an application directly,
without the distributions' own tools. This directory holds TLA+ models of what
it does, the TLC configurations that check them on small instances, and proofs
that TLAPS checks for every instance. Source references are to the repository;
`src/run.rs` is its `src/run.rs`, `snippets/` and `templates/` are at its top.

Two very different programs are at stake. One is the tool: it runs once, on a
developer's machine, reads a project that others may be editing, and writes
files that must never look finished when they are not. The other is the shell
code it generates: it runs for years on other people's machines, one script at
a time, in an order that dpkg, rpm and pacman choose, beside an administrator
who has decisions of their own. The unit tests of the repository cover the
first well one call at a time and the second by text comparison; the orders in
which things can happen are what these models are for.

## 1. Inventory

| Component (source) | State | Operations | What makes it correct |
| --- | --- | --- | --- |
| Run orchestration (`run.rs`, `main.rs`) | outcome per format, exit status | plan once, build each format, summarise | one format's failure stops no other and shows in the exit status |
| Guards (`core/scratch.rs`) | a scratch file, an output file, `keep` | create, finish, drop | no error path leaves a truncated package or a scratch file |
| deb, arch writers (`deb/mod.rs`, `deb/archive.rs`, `arch/mod.rs`) | payload in a scratch file, then the container | append entries, copy, finish | a finished archive's headers agree with its data |
| rpm writer (`rpm/mod.rs`) | payload in memory | add entries, assemble, write | an earlier package survives a bad source |
| Collector (`core/collect.rs`) | planned files by destination, roots in progress | walk inputs, manifest, dependencies, extra files; claim; plan or materialise a link | nothing named is lost, nothing else taken, walks end |
| Plan (`core/build.rs`, `core/plan.rs`) | the entries shared by all formats, and those of the format being built | plan, generate, add a format's own entries; ancestors, duplicates, sizes, missing entry points | what is executed is packaged, a plan is a tree, formats do not leak into each other |
| deb scripts (`deb/scripts.rs`, `snippets/deb`) | on the target machine | postinst, prerm, postrm under dpkg's calls | the service follows the package, the administrator's decisions stand |
| rpm scriptlets (`rpm/scriptlets.rs`, `snippets/rpm`) | the same | %pre, %post, %preun, %postun | the same, with old and new scriptlets interleaved |
| Arch install script (`arch/install.rs`, `snippets/arch`) | the same | the five functions of `.INSTALL` | the same |
| Service templates (`templates/`) | unit, init script, job, tmpfiles, defaults | rendered into the payload | the service can start where its scripts start it |
| Dependencies (`format.rs`, `required_packages`) | the list being merged | resolve, merge, write | every command a script calls is provided |
| Command line (`cli.rs`, `introspect.rs`, `main.rs`) | the overrides | refuse removed options, print and end, hand over overrides | nothing is built by a run that only prints |
| Settings (`core/resolve.rs`, `core/npm.rs`) | three layers, the configuration, warnings | pick, check, derive, warn | only what the user meant decides or fails a run; every change is told |
| Names, versions (`core/name.rs`, `core/version.rs`) | none | check or derive; map to three spellings | what is derived is valid; a later release is newer everywhere |
| Templates (`core/template.rs`, `core/text.rs`, `templates/`) | none | render, refuse, quote | a value stays a value where it lands |
| Timestamps (`core/timestamp.rs`) | none | stamp from the environment, the commit or the sources | a second build is the same package |
| Metadata (`deb/control.rs`, `deb/docs.rs`, `rpm/mod.rs`, `arch/pkginfo.rs`, `arch/mtree.rs`) | `.MTREE`'s defaults | write fields, dates, records | their readers read back what was resolved |
| Compression, reading back (`deb/compression.rs`, `deb/read.rs`), reports | none | encodings, printing | see section 9 |

How they interact. `run` resolves the settings and calls `plan`, which calls the
collector and adds generated files; the plan is immutable from there. Each
selected format then gets variables, service files, scripts and dependencies of
its own from that plan and hands them to its backend, which reads the planned
sources from disk a second time. Nothing is shared between formats but the plan
and the output directory. The generated scripts talk to the target machine only,
through the init system's commands and the `$1`/`$2` the package manager passes.

What is hard, then: sources change between being planned and being read;
any system call may fail while one or both guards are alive; the process may be
killed at any point and be run again over what it left; links may lead out of a
tree or round in circles; scripts are retried, aborted, and interleaved with
those of another version; and what an administrator did since must survive all
of it. There are no threads, no network and no timeouts. `PROJECT.json` lists
each hazard at its line with the properties that would catch it.

## 2. Modules

| Module | Models | Checked by |
| --- | --- | --- |
| `PackageStore` | abstract: what the output directory promises | refinement target |
| `PackageBuild` | `run.rs`, guards, the three backends, kills, an editor | `PackageBuild.cfg` |
| `PackageBuild_proofs` | theorems of `PackageBuild` | TLAPS |
| `Collector` | `core/collect.rs`, default inputs, the entry-point check | `Collector.cfg`, `CollectorLinkedEntry.cfg` |
| `Collector_proofs` | theorems of `Collector` | TLAPS |
| `PackagePlan` | `core/plan.rs`, `core/build.rs`, the formats' additions, what each package carries | `PackagePlan.cfg`, `PackagePlanNamesake.cfg` |
| `PackagePlan_proofs` | theorems of `PackagePlan` | TLAPS |
| `Composition` | which snippets make each script, and which templates ship | through `PackagePlan` and the lifecycles |
| `ServiceHost` | the target machine: unit, process, links, masks, account | through the lifecycles |
| `Administrator` | what else happens there | through the lifecycles |
| `DebLifecycle` | deb snippets under dpkg | `DebLifecycle.cfg`, `DebUpgradeSysv.cfg`, `DebUpgradeUnconfigured.cfg`, `DebDefaultsDeleted.cfg` |
| `PresetMachine` | a machine whose policy on new services is a preset: what rpm and pacman have in common | through `PresetLifecycles` |
| `RpmLifecycle` | rpm snippets under rpm | through `PresetLifecycles` |
| `ArchLifecycle` | `.INSTALL` under pacman | through `PresetLifecycles` |
| `PresetLifecycles` | a machine of either family | `PresetLifecycles.cfg` |
| `Administrator_proofs` | lemmas the lifecycles' proofs share: ordered steps, what each operation on the host changes | TLAPS |
| `PresetLifecycles_proofs` | the inductive invariant of each package manager, and the theorems of `PresetLifecycles` | TLAPS |
| `DebLifecycle_proofs` | theorems of `DebLifecycle` | TLAPS |
| `Text` | a text as words and characters that matter; `core/text.rs` | through `Preparation` |
| `Names` | `core/name.rs` | through `Preparation` |
| `Versions` | `core/version.rs`; dpkg's, rpm's and alpm's orders | through `Preparation` |
| `Dependencies` | the dependency field of each format | through `Preparation` |
| `Templates` | `core/template.rs`, the built-in templates | through `Preparation` |
| `Metadata` | what each package says of itself, and its readers | through `Preparation` |
| `Resolution` | `main.rs`, `cli.rs`, `core/resolve.rs` | through `Preparation` |
| `Preparation` | one invocation from the command line to what its packages say, and what becomes of them | `Preparation.cfg`, `ArchPrerelease.cfg` |
| `Names_proofs` | what `Names` and `Versions` derive is valid, paths settle, mappings can be undone; lemmas about folds over texts | TLAPS |
| `Preparation_proofs` | theorems of `Preparation` | TLAPS |

Each `MC*` module gives constants their values and does nothing else. The
definitions marked *A bug* or *Mutant* are not part of any specification: each is
the way a plausible mistake would change the definition below it, and each
property is known to fail when its mutant takes the place of the original.

### PackageBuild

One process, one step at a time. `pc` is where `build` stands, `fmt` the format
it builds, `held` the drop guards that are alive. deb and arch go `dir`,
`scratch`, `create`, `payload`, `container`, `finish`; rpm assembles its payload
first and only then goes `dir`, `create`, `container`, `finish`. `Fail` sends any
of these to `unwind`, where `DropOutput` and then `DropScratch` undo what the
guards hold, in the order Rust drops the locals; on success only the scratch
guard is still alive in `done`. `RecordOutcome` is the caller seeing the result.
`Kill` clears `pc` and `held` and nothing on disk: no destructor runs. `torn` and
`stray` are history variables that remember which files a kill left.

A source is read in two halves (`OpenSource`, `ReadTail`) so that an edit may fall
before, between or after. `LengthStillPlanned` is the check deb makes when it
opens a source, and `BytesAccepted` the one both streaming writers make when they
have read it. rpm makes neither. A member is its header's length, the bytes that
follow, and the contents they were read from. The steps that only prepare
strings in memory (variables, service files, scripts, triggers) are part of
`BeginFormat`, which may fail. The order of the entries in a payload is left open.

`PackageStore` is what a reader of the output directory may rely on: per format
one slot that is absent, being written, torn or whole, one writer at a time,
`ok` reported only over a whole package. `PackageBuild` implements it by mapping
`partial` to `writing` while a process is behind it and to `torn` afterwards.

### Collector

The file system is a function from paths to nodes (directory, program, other
file, link, special file) in which a link points at a path and only a directory has
something below it (`IsFileSystem`); `Canonical` resolves links as the kernel does, with
`MaxHops` in place of ELOOP. `collect` is a list of jobs - each input, the
manifest, `node_modules`, the extra files, the `/usr/bin` link, the entry-point
check - and each job that walks pushes a walk: the paths not visited yet, the
mapping to destinations, the boundary, whether dangling links are tolerated and
whether `node_modules` is skipped. A link whose target has a destination under the
mapping is planned as a link; one into a declared workspace is materialised by
pushing another walk, with its root in `visited` until it returns; any other is
refused. `Claim` is the duplicate rule. `WalkDir` visits in name order; the model
takes any order, which contains that one.

### PackagePlan

A run from the collected entries to what each package carries. `base` is the plan
all formats share, `derived` the one of the format being built, `queue` the formats
left in the order of the code's type. `PlanProject` is `BuildPlan::new` over what
collection found, `Generate` is `run.rs`'s `generate` for the next format, and
`Finish` the writer's own additions (documentation for deb, a preset for rpm and
Arch where the scripts use one) and the entries it writes. Each of the three may be
refused; the first ends the run, the others the format. `Settle` turns to the next
format, which starts from `base` again.

A destination is the sequence of its names, so that being below another, its
parents and relative link targets are those of the code, name by name. Entries are
a set: `BuildPlan::new` sorts them by destination, which puts a directory before
what is in it, and nothing else depends on the order. Affixes of file names
(`50-...preset`, `.service`, `.conf`) are left out; a project's extra file may still
stand at any of those destinations. Modes are reduced to being executable. What
collection hands over is constrained by no collision, although `Collector`'s claims
refuse a duplicate earlier: the plan's own check is modelled in full.

### The target machine

`ServiceHost` keeps what the snippets read and change: the version whose files are
unpacked and the one whose unit systemd has loaded, the version the process was
started from (or `mixed`: new files under an old unit), enablement, System V
links, who masked the unit, the account, the log directory, and the defaults
file. `systemctl`, `deb-systemd-helper`, `deb-systemd-invoke`, `update-rc.d`,
`chkconfig`, `initctl` and the package managers are not part of the repository;
they are modelled from how the snippets call them and are marked external in the
map: `was-enabled` asks whether the links recorded for the unit are still there,
`unmask` lifts the helper's own mask only, `try-restart` acts on what runs, a
preset is decided by the administrator's file first.

`Composition` gives the ordered snippets of each script for each `init` setting
and install strategy. A lifecycle module turns a package manager's operation into
`todo`, the sequence of its steps: snippets with their arguments, unpacking,
deleting, recording. `RunSnippet` runs the next one through `After`, which has one
operator per snippet. Between any two steps the administrator may disable (now or
not), enable, stop, start, mask, unmask, or delete the defaults file, as
`AdminActs` allows; the machine may reboot between operations. `admin` remembers
the decisions that stand. In `DebLifecycle` dpkg may call an operation off before
unpacking, deleting or deconfiguring (`Abort`), with the scripts' `abort-*` calls;
what an upgrade called off leaves counts as installed, and a removal may be called
off in favour of another package, which `$2` then says. Configuration may stop at
any step, up to the last, in which dpkg records it, and be retried (`ConfigureStops`,
`ConfigureAgain`): the deb snippets run under `set -e`, and dpkg may be killed.
rpm's and pacman's snippets end in `|| :` or `|| true` and cannot stop their script.

A half-configured package can be upgraded too (`Upgrade`). dpkg gives postinst the
version configured last as `$2`, and nothing if there never was one, so an upgrade
over a version that was unpacked and never configured looks to postinst like a first
installation. `skipped` is a history variable that remembers it: it is set where such
an upgrade begins, cleared by a configuration that is given `$2` or by a purge, and no
action depends on it.

Every version is built with its own `init` setting, and `Next` lets the setting
change on an upgrade. The properties that cannot hold across such a change - the
new package ships no scripts for the old service - are stated under `SameInit`;
the others are not.

### From the command line to the words in a package

`Resolution` and `Preparation` are one state machine. `request` is what the world
gives an invocation: the command line, the settings file, a manifest, the formats
asked for, clock and commit, the user's templates. `pc` is the function `run` is
in, in the code's order:

    main -> load -> overrides -> install -> unknown_keys -> package_name -> version
         -> placement -> runtime -> texts -> plan -> build -> ended

Each step is an action over the sequence of checks its function makes, in order
(`Checked`): the first that does not hold ends the run with its field in `error`;
otherwise what was found is added to `config` and what is told to `warnings`. The
layers are functions on the keys they give, and `given` is
`flags ++ settings ++ manifest`, which is what `Layers::pick` picks from. `BuildFormat`
then builds one pending format after the other; a failure is that format's alone.

Behind a finished build stand three actions of the world: `Install` (a package
manager installs, or upgrades to what it takes to be newer), `NextRelease` (the
project is built at a later version, by the order the project goes by) and `Rebuild`
(the same commit is checked out and built again, later).

What these modules say of text, they say of sequences of tokens. A token is a
character some code looks at (`-`, `.`, `"`, `{{`, a newline) or a word in which
nothing does (`user`, `1`, `rc`, `w`). `Text` has the operations of `core/text.rs` and
the rules of those who read the result: a shell's double quotes, systemd's line
continuation, a deb822 paragraph. `Names` has, for each constructor, the set it
accepts and what it makes of the rest. `Versions` parses, maps and prints a version,
and compares two as dpkg, rpm and alpm do; the three comparisons belong to other
programs and are marked external. `Templates` renders: a placeholder that is
malformed, unclosed or unknown is an error, and a value is never scanned again.
`Dependencies` has entries with a name and a spelling (`bare`, `versioned`, `tight` for
no space before the parenthesis, `alternative`, `folded`), because the merge compares
the first word. `Metadata` has each format's fields, the `/set` records of `.MTREE`,
the civil date of a stamp, and a reader for each.

## 3. Runs

| Run | Instance | Shows |
| --- | --- | --- |
| `package_build` | three formats, one source, two lengths; failures, kills and edits unbounded | guards, verdicts, consistency, refinement of `PackageStore`, termination |
| `deb_lifecycle` | two versions, all 25 pairs of `init` settings, three init systems, all of the administrator's acts | the five of section 4 |
| `preset_lifecycles` | rpm or Arch; two versions, all pairs, systemd and System V, with and without a preset | the same, and `PolicyWins` |
| `collector` | 6305 projects: application trees and dependency trees with links, and a program run from a dependency | inputs, dependencies, links |
| `package_plan` | five install directories, every `init`, two names of the executable, up to two of ten extra files, all seven selections of formats | trees, links, configuration, claimed directories, one payload |
| `preparation` | 4,758 requests in eleven families, one release line; 59,816 states | the nine properties of section 4 |
| `deb_upgrade_sysv`, `deb_upgrade_unconfigured`, `deb_defaults_deleted`, `collector_linked_entry`, `plan_namesake`, `arch_prerelease` | the smallest instance that shows it | section 5 |

Why the bounds are enough. No counter is bounded: the models are finite as they
are, and operations repeat without end. One source suffices for `package_build`
because sources are independent, and the theorems lift the bound: they hold for
any set of sources. Two versions give install, upgrade, downgrade and
reinstallation; a third version would be met in the same state as the first,
since the scripts know only the old and the new. The collector's trees let
each kind of node stand at each interesting place, with two workspace packages
that may point at each other, at themselves, at their common parent and out;
`MaxHops` is 4 and the longest chain in these trees is shorter, except in the
circles, where any bound gives the same answer. The extra files of `package_plan`
are one for each way to meet something planned: at it, above it, below it, beside
it, for collected, generated and added entries; two of them let one format be
refused and the next one built. The install directories are below the same
top-level directory as `/usr/bin`, below another, below `/etc`, and one that other
packages own only in part. Deadlock checking is off in `Collector`, `PackagePlan`
and `Preparation` only: those programs end.

The requests of `preparation` are a union of families, each varying what one part of
the code tells apart and leaving the rest at a value that passes:
`Switched` (options that end a run or change its output), `Layered` (every key at two layers,
each absent, good, bad or odd), `Named` and `Placed` (every name up to four tokens, every path
up to four), `Described` (every text up to three or four of the tokens a reader stumbles over),
`Versioned` (every suffix up to three tokens, with and without an epoch), `Depending` (lists
around each package the scripts need, in each spelling), `Stamped` (the three sources, and
the days at which months, years and centuries end), `Listed` (trees up to three entries of
three kinds), `Overridden` (templates up to four tokens) and `Released` (a line of releases
and pre-releases, each upgraded to any later one). Values of
different families meet nowhere in the code but where a family says so, which is why their union is
enough and their product is not needed. `MaxLen` stands for `UnixName::MAX_LEN` (32) and is 3:
names of four tokens are cut, and the cut falls on each kind of character. `MaxEpoch` is the last
whole day in 32 bits of seconds, 49,710; stamps are in days, since hours and minutes are printed by
division alone. `Requests` and `Releases` are parameters of the module, and
releases go on until no later one is left.

Fairness. `FairSpec` of `PackageBuild` is used for `EveryRunEnds` alone: a process that is not killed
goes on executing, so `WF_vars(Tool)`. Nobody is obliged to invoke it, edit a file
or kill it. No liveness is stated of the lifecycles: each operation's steps are a
finite sequence that nothing in the scripts prolongs.

## 4. Properties

`PackageBuild`: `LeftoversOnlyIfKilled` (the guards, over every error path), `VerdictIsTrue` (outcomes and exit status against the disk),
`WholePackagesAreConsistent` and `PlannedLengthsShip` (sources edited at any time),
`EarlierRpmSurvivesBadSource` (an action property; deb and arch open their output
before reading the sources and so promise nothing of the kind), `StoreSpec`,
`EveryRunEnds`.

Lifecycles: `RunningIsCurrent` (no process of the old version, and none under the
old unit, is left), `EnabledMeansRunning` (called-off operations and interrupted
configurations leave the service up) - for a deb both except while a version is
`skipped`, which section 5 shows to be necessary - `AdminDecisionsSurvive`, `PolicyWins`, and
`RemovalLeavesNothing` (for a deb: a removal stops the service, and a purge leaves nothing
of the package and every mask of the administrator's).

`PackagePlan`: `PlansAreTrees` (over every collision of what three parties put in),
`LinksArrive` (links are relative to an install directory anyone may choose, and one
leads to a file generated later), `EtcIsConfig`, `RpmOwnsItsTree` (every directory of
its own, none of the system's), `FormatsCarryTheSame` (whatever was built or refused
before).

`Collector`: `NoTreeInsideItself` (so walking ends), `NothingElseShips`, `NothingIsLost` (every
input and extra file arrives, whichever was visited first), `DependenciesArrive`,
`EntrypointsRun`, `DefaultInputsSuffice`.

`Preparation`: `BlameIsDeserved` (a run fails at a field only for what the user gave, in the layer
that counts: whatever the tool derives is valid) and `NothingChangesSilently` (what is
resolved fits the strict grammar, and is what was meant or comes with a warning) are the two
sides of resolution; `ServiceOrWarning` relates the composed scripts to the warnings;
`DependenciesSuffice` the scripts to the dependency field; `MetadataReadsBack` and
`ComputedReadsBack` what is written to an independent reading of it; `WordsStayData` the values to
the files they are put into; `RebuildsAgree` two builds of one commit; `UpgradesArrive` three
packages' orders to the project's own, across any two releases.

## 5. Where the code and its own words differ

Each has a run that fails, on purpose, with the trace that shows it.

* `deb_upgrade_sysv`. Under System V and Upstart `postinst` only starts and `prerm`
  stops on removal only, so an upgrade leaves the old process running. The note
  at `deb/scripts.rs:508` records the same fault as fixed, for systemd.
* `deb_upgrade_unconfigured`. The systemd postinst takes an empty `$2` for a first
  installation and only starts. In the run `v1` is unpacked, enabled and started, and its
  configuration stops before dpkg records it; `v2` is unpacked over it, postinst
  is given no `$2`, `start` does nothing to the unit that is running, and dpkg is done with
  `v1` running over the files of `v2`. The comment in the snippet has the rule
  (`postinst-systemd-restart:6`: only a restart picks up the new files), `deb/scripts.rs:519` and
  `ci/systemd-lifecycle.sh:37` what must not happen. An installation or an upgrade that did
  not stop half-way is not concerned: `RunningIsCurrent` holds unless a version was skipped.
* `deb_defaults_deleted`. The unit's `EnvironmentFile=` has no `-`, so a deleted
  defaults file keeps the service down; `templates/sysv-init:24` explains at length
  why that must not happen.
* `collector_linked_entry`. An entry point that is a link to a file beside the named
  inputs is planned as a link, and the entry-point check asks for the link only.
  With default inputs the check suffices (`DefaultInputsSuffice`), unless the entry
  point leads into a `node_modules`: what comes of those is for the strategy to say.
* `plan_namesake`. `owns_directory` goes by the package's name, so a package named
  `lib`, `bin`, `share`, `local` or `systemd` claims the system's directory of that
  name below `/usr`, which the comment above it says makes two packages own one
  path. With any other name `RpmOwnsItsTree` holds.
* `arch_prerelease`. `1.2.3-beta.1` becomes `1.2.3~beta.1`, which dpkg and rpm put below
  `1.2.3`. alpm does not know `~`: to it there is a segment more, and a machine on the
  pre-release is never offered the release - what the comment at `core/version.rs:5` says the
  mapping prevents.

More were met and have no run, most because nothing but the code says otherwise:

* With `--init none` and neither `--daemon` nor `--cli`, `cli_entrypoint` renders to nothing and
  the command on the path runs the application's directory (`templates/executable:5`);
  `collect.rs:517` leaves an absent entry point out of what must be packaged, so nothing refuses
  it. The repository's own example (`README.md:122`) names neither option; it is refused before
  that, as it stands, for want of a description.
* The strategy `auto` never installs anything on the target, whatever `core/npm.rs:126` says.
* A source rewritten in place at the same length while it is read is archived half
  old and half new: lengths are all the writers compare.
* `output_deb_name` is resolved (`core/resolve.rs:389`) and no writer reads it;
  `templates` of the settings file is resolved and only the command line's are used. The
  repository's `README.md` documents both (line 199, lines 204-213).
* `with_dependencies` compares the first word of the user's entry with the whole
  requirement, so `init-system-helpers (>= 1.60)` of the user's is followed by the
  tool's own (`format.rs:190`); the two together are satisfiable.
* A synopsis that ends in a backslash joins the next lines of the unit to its `Description=`;
  `WordsStayData` leaves that one out.
* rpm puts a number above a word, where the project's order puts it below
  (`1.2.3-alpha.1`, `1.2.3-alpha.beta`); `UpgradesArrive` leaves that pair out, for rpm only, as it leaves
  Arch's pre-releases to `arch_prerelease`.
* Two package names, `a.b` and `a+b`, derive the same account.
* A dry run renders the templates of the first format only.
* A manifest reaches `resolve` from callers of the library only; the tool's own is always
  empty. `Named` calls it that way.

## 6. What is proved

Every theorem holds for all values of the constants that its module's assumptions
allow. Eight modules of proofs, in five groups.

| Property a run checks | Theorem | Needs |
| --- | --- | --- |
| `PackageBuild`: `TypeOK`, `LeftoversOnlyIfKilled`, `VerdictIsTrue`, `WholePackagesAreConsistent`, `PlannedLengthsShip` | `TypeCorrect`, `OutputDirectorySafe`, `VerdictsAreTrue`, `PackagesAreConsistent`, `LengthsArePlanned` | |
| `EarlierRpmSurvivesBadSource`, `StoreSpec` | `EarlierRpmSurvives`, `ImplementsStore` | |
| `PackagePlan`: `TypeOK`, `PlansAreTrees`, `EtcIsConfig`, `FormatsCarryTheSame` | `PlanTypeCorrect`, `EveryPlanIsATree`, `EtcIsAlwaysConfig`, `FormatsAlwaysAgree` | |
| `Collector`: `TypeOK`, `NoTreeInsideItself`, `NothingElseShips`, `EntrypointsRun`, `NothingIsLost`, `DependenciesArrive`, `DefaultInputsSuffice` | `TypesAreKept`, `NestingIsBounded`, `OnlyTheProjectShips`, `WhatIsExecutedRuns`, `InputsAreComplete`, `VendoredTreesAreComplete`, `DefaultsAreComplete` | |
| `PresetLifecycles`: `TypeOK`, `RunningIsCurrent`, `AdminDecisionsSurvive`, `PolicyWins` | `TypesAreKept`, `UpgradesReplace`, `DecisionsStand`, `PresetsAreObeyed` | |
| `DebLifecycle`: `TypeOK`, `RunningIsCurrent`, `EnabledMeansRunning`, `AdminDecisionsSurvive`, `RemovalLeavesNothing` | `TypesAreKept`, `UpgradesReplace`, `EnabledServicesRun`, `DecisionsStand`, `RemovalsAreComplete` | |
| `Preparation`: `TypeOK`, `BlameIsDeserved`, `NothingChangesSilently`, `ServiceOrWarning`, `DependenciesSuffice`, `RebuildsAgree` | `Typed`, `FailuresAreDeserved`, `ChangesAreTold`, `ServicesStart`, `ScriptsFindTheirCommands`, `RebuildsAreEqual` | |
| `PackagePlan`: `LinksArrive` | `LinksAlwaysArrive` | collected links lead to what is collected (`Leads`) |
| `PackagePlan`: `RpmOwnsItsTree` | `RpmAlwaysOwnsItsTree` | the package's name is in the path of no system directory |
| `PresetLifecycles`: `EnabledMeansRunning` | `EnabledServicesRun` | nobody deletes the defaults file |
| `PresetLifecycles`: `RemovalLeavesNothing` | `RemovalsAreComplete` | no Upstart |

### The build

`PackageBuild_proofs` rests on `FormatAssumption` (formats are deb, rpm, arch),
`LenAssumption` (contents have lengths) and `NothingAssumption` (the null value is
none of the others); formats, sources, contents and lengths are any.

The safety invariants are not inductive. `IInv` adds three facts to them.
`Guards` says who holds what at each stage: a guard is held for the format being
built, whose verdict is pending, and the file it guards is there; without it,
`DropOutput` could remove a file and leave the flag. `Payload` says that every
member read so far is sound until one is refused and that none is missing past
the payload stage; without it, `Finish` could publish an incomplete package.
`Fresh` says that exit status and verdicts are this run's; without it, an old
`ok` could meet a file the new run truncated. `GuardsStep`, `PayloadStep`,
`DiskStep`, `WholeStep` and `VerdictStep` each preserve one part under the others,
one step per action. The refinement uses `IInv` on both sides of each step.

### The plan

`PackagePlan_proofs` rests on `NameAssumption` (the names the code writes are
names, and `..`, which `Destination::new` resolves, is none) and `ProjectAssumption`
(what a project is made of), whatever the projects' files, links, names and install
directories.

The inductive invariant is `TypeOK /\ Alone`. `Alone` says that each plan is the
one its format would get if it were built alone: `base` is `Base(project)`, `derived`
is `Whole(project)`, and a built package carries what the writer keeps of
`Final(f, project)`. None of the properties is inductive without it, since
`FormatsCarryTheSame` compares packages made at different times. `PlannedIsTree` is
the lemma about `BuildPlan::new` (what it does not refuse becomes a tree, and only
directories are added), used once for each of the three plans; `EntriesAreMarked`
and `CommonIsNobodysOwn` are about the entries of each party. `LinkReaches` is the one about
`link_target_from`: for any two destinations, going up once for each name the link's
directory does not share with the target and down the rest arrives at the target. It rests
on no name being `..`, and on what two sequences share being an interval
(`ClosedIsInterval`, by a minimal counterexample).

`LinksAlwaysArrive` has for a hypothesis what the collector leaves open: a link is planned
when its target has a destination, whether or not that is among the inputs
(`collector_linked_entry`). That of `RpmAlwaysOwnsItsTree` is what a namesake violates
(`plan_namesake`). The projects of the run `package_plan` satisfy both.

### The collector

`Collector_proofs` rests on `HopsAssumption`, on `PlacesAssumption` (the root, `app_root`
and the link in `/usr/bin` are paths, the last not inside the second, which ends in
`/app`) and on `ProjectsAssumption` (each tree is a file system, what a configuration
names are paths). The trees may be of any shape and size, with links anywhere.

Most of the seven properties speak of a finished plan, while the work is done entry by entry,
walks inside walks; `NothingElseShips` speaks of what is planned, and not of where a walk may
still go. `IInv` says, besides:

* `Typed`: everything is of its type, and the jobs left are the last of `Jobs(config)`;
* `InPlace`: what a walk has left is below its root and in a place the project gave;
  otherwise the next file could come from anywhere;
* `Nested`: the inner walks are of the roots in `visited`, all different, and skip
  nothing;
* `Runnable`: whatever stands at an executed destination resolves to a program - of
  every moment, so that the last job's check need look at the destinations only;
* `Arriving`: for each job begun, each path its walk would meet is covered - a file
  planned from that source, a link out of the tree with all that is below its target -
  or is still to be visited. This is what makes the end of a job mean something;
* `Filling`: an inner walk has each file of its tree planned or still to be visited, in
  itself or in a walk above it on the stack. It carries `Covered` from the moment a
  link is materialised to the moment its walk returns, however deep;
* `Led`: each planned link leads to a planned destination or to one in a walk, unless an
  application's walk planned it: those go by the inputs alone, which is the gap that
  `collector_linked_entry` shows. With default inputs the entry points are inputs, and
  `DefaultsAreComplete` closes it.

`Canonical` and `Existing` are recursive functions. `EveryNatural` is induction over the
naturals for a set, by a minimal counterexample (`WFMin`), and `Iteration` is what it comes to
for a function that works a value up step by step; with them what `Canonical` returns is
known for any `MaxHops` (`CanonicalIsPath`, `CanonicalNode`) and what `Existing` keeps for any list
of paths (`ExistingAreInputs`).

`DefaultInputsSuffice` was stated more broadly before: the proof did not go through, because
an entry point that is a link into a `lib/node_modules` is planned as a link while the
application's walk passes over every `node_modules`. TLC agrees once such a project is among
the instances (`InstalledTree`), and the property now leaves dependencies to the strategy,
as the code does.

### The lifecycles of rpm and Arch

`Administrator_proofs` and `PresetLifecycles_proofs` rest on `NoneAssumption` (no version is the
null value, and neither is `mixed`), `BuildsAssumption` (a build gives each version an `init` setting) and, for rpm,
`SystemsAssumption`. There may be any number of versions, each with its own
setting, any administrator and any policy.

The properties speak of the moments between operations and are broken, rightly, in
the middle of one. What is inductive is what is true after each step *because of the
steps still to come*:

* `Shape` (`RpmShape` and `ArchShape` in the module, and so for the other parts): the steps of
  any operation, of any package, come in one fixed order
  (`Rank`), each at most once, with the record last. `Still(step)` is then a statement about
  how far the operation is: "after the unpacking and before the restart" is
  `~Still("unpack") /\ Still("systemd-restart")`. For rpm it also says which argument each
  scriptlet is given, the new version's and the old one's;
* `Record`: the database lags behind the files only between the two;
* `Pending`: a step to be done obliges a later one: what is still to be unpacked will be
  followed by a reload and a restart, what is to be deleted by the removal of the account;
* `Ready`, `Clean`, `Runs`, `Decided`: what the host looks like for each of those stages. `Ready`
  is the part the restart needs (account, log directory, the unit loaded), `Clean` what holds before
  the first start and after the last stop, `Runs` that an enabled service is up
  unless it was stopped, `Decided` that what enables or starts on its own account comes at a
  first install only, when no decision stands.

The parts about the service are stated for packages that all ship a unit (`WithUnit`), or that
all ship none, as the properties are for packages of one setting (`SameInit`). `TypeOK`, `Shape`, `Record` and `Decided`
hold whatever the builds.

Two theorems have a hypothesis. `EnabledServicesRun` excludes an administrator who deletes the
defaults file, since the unit does not start without it (`deb_defaults_deleted`);
`RemovalsAreComplete` excludes Upstart, whose jobs start at boot and which no rpm scriptlet
knows: with it the statement is false. The runs are on the same side of both.

The parts are proved for rpm and for Arch (`RpmInv` and `ArchInv`), and the theorems of
`PresetLifecycles` take the cases of `family`.

### The lifecycle of a Debian package

`DebLifecycle_proofs` rests on `NoneAssumption`, `BuildsAssumption` and `SystemsAssumption`. Any
versions and settings, any of the three init systems, any administrator; no theorem has a
further hypothesis. The theorems say what the properties say: `UpgradesReplace` and
`EnabledServicesRun` except while a version is `skipped` (without the exception
`deb_upgrade_unconfigured` refutes them), the other three always.

The argument is the one above, and what makes it harder is that an operation may be
called off and another may follow a half-done one:

* `Shape` fixes one order for every operation and for what an abort puts in its place
  (`prerm`, the files, `postrm`, `postinst`, the record). An abort is then no
  different from an operation that begins: both replace `todo` by a plan in that order, and
  what either may consist of is `Operation`. `Begun` covers `Operator` and `Abort` in one case
  of each proof. `Goal` is what the last step will record, `Clearing` that it makes up for a skipped
  version, and `Fit` says which arguments the scripts are given on the way there: `purge` on the way
  to `not-installed` only, `$2` to a configuring postinst exactly if a version was configured before,
  and never `abort-*` to one that clears.
* `Record` and `TypeOK`: before unpacking and deleting the files are what the record says, and
  afterwards what `Goal` says.
* `Decided` holds whatever the builds. On systemd a unit the administrator disabled has a
  helper's record, so that `was-enabled` finds the links gone; only a purge drops the record,
  and while it does (`Purging`) nothing enables.
* `Forgotten` is how far a purge is, or that there was no installation yet; `Links`, `RunLevels` and
  `Account` say that nothing is left from that step on, and that a package without the snippet never makes
  any. For the packages of one setting one of the two always applies.
* `Stopped`: once the snippet that stops the service here has run, and the files are to go,
  nothing runs. `StartStep` shows that the two scripts' order suffices: nothing that starts a service is
  between them, and the administrator does not start what is being removed.
* `Pending`, `Fresh`, `Masked`, `Ready`, `Runs`, for packages with a unit on systemd. `Fresh` allows an old
  process in three situations: a restart is ahead, with a `$2` that makes it one (`Told`: no
  postinst ahead is told of a removal that was called off, whose `$2` is another thing); the package was
  configured before, is not on its way to being installed and will be restarted when it is; or a
  version was skipped and, if that is being made up for, the restart is still ahead. This is where
  the proof needs that a half-configured package which was configured before is given `$2` again. `Masked`
  says that the removal's own mask is lifted before the restart, and `Ready` that the account and the
  log directory come before it; it and `Runs` speak of a package no version of which was skipped, or for
  which that is being made up (`Unskipped`).

`SnippetKeeps` says in one formula (`Keeps`) what each of the snippets does and leaves alone, and is the
only place where they are expanded; each `...Step` lemma preserves one part of `IInv`,
with one step per action.

### From the command line to the packages

`Preparation_proofs` rests on `RequestsAssumption` (an invocation is of the types clap and the
settings file give it: `IsInvocation`), `ReleasesAssumption`, `MaxLenAssumption` and `MaxEpochAssumption`. What
the layers say, the formats selected, the templates, the trees, the file times, the
releases and the texts are any.

The tool forgets what it resolved from: `config`, `packages` and `earlier` are what is left, and
two of the properties compare builds made at different times. `IInv` therefore says of each
what it is a function of:

* `LayersMerged`: from the step that merges them, `given` is `GivenFrom(request)`, and nothing is
  resolved before;
* `Determined`: the configuration has the keys of the steps behind it (`KeysAt`) and each has the
  value `Resolved(request, given)` gives it, whichever step found it. `ChecksEnd` is the lemma about a step
  (the first check that fails ends the run, or all held and what was found is added);
* `Built` and `BuiltBefore`: a package is `PackageOf` its format, the templates, the tree, the file
  times and the configuration, and the packages of an earlier build are those of the same
  invocation at an earlier checkout. `RebuildsAgree` then asks whether `PackageOf` looks at a file
  time other than through the stamp, and it does so for an rpm's sources alone;
* `Queued`: a format is pending, built or failed, one of the three, and none of them before the plan;
* `Heard`: what a format cannot honour has been told.

`ScriptsFindTheirCommands` is about the merge, a fold over the packages that the composed scripts need:
`MergingKeeps` says of one step that what was in the field stays at its place and that the package it
is about is there (`Extends`, `Has`), and `AllIsMerged` that so it is for the whole list, which is never
longer than two (`MergedOne`, `MergedTwo`).

`FailuresAreDeserved` is about texts of any length. It needs `Blamed` beside `IInv`: once there is a
package name it is a valid one, and what the run failed at so far it failed at deservedly. A step's
*first* failing check counts: a group that falls back to the user, or a `cli` that falls back to the
daemon, is only looked at when what it falls back to was accepted. What is left is that the tool never
trips over a value of its own making, and that is what `Names_proofs` shows:

* `DerivedNamesAreValid`: the account name derived from any valid package name is valid. Lowercased,
  separators collapsed, trimmed, given an underscore, cut at `MaxLen` and trimmed again, it still starts
  as it must, because the cut comes after the underscore and the last trim keeps the first character;
* `PackageNamesAreWritten` and `PackageNamesAreCommands`: a valid package name serves as a command's
  name too;
* `MappedVersionsAreValid`: whatever version is accepted, semantic or not, maps to a valid one
  ("mapping is total"), so that the check after the mapping never fails;
* `DefaultDirIsValid`.

These functions are folds over characters. What a fold computes is not available to the provers as an
induction, because the library's induction theorems take a predicate as a parameter. But the least number is
(`WFMin`): `FoldsHaveValues` shows that the recursive function behind `FoldLeft` has values, by taking
the first place where it would not, and `FoldsRun` turns it into a run that starts at
the first argument and makes one step per element. `DerivingRuns`, `NormalizingRuns`,
`SplittingRuns` and `RemainingRuns` then carry what holds of the result so far along that run.

`ChangesAreTold` needs `AllTold` beside these: for the name, the version, the install directory and
the architecture, from the step that finds each, it is what was meant or a warning says otherwise. A
warning once given stays for the run (`ToldStays`), and a second run starts with neither values nor
warnings, so a step has only to answer for what it finds itself. Two more results about texts carry it:

* `InstallDirsSettle`: an install directory taken apart and put together again is the one it was.
  `SplitAddsAPart` and `SegmentAdded` say what one more character does to the parts, and
  `FlatteningRuns` that joining them is undone by splitting. The induction over the parts goes
  through the *set* of sequences for which the claim holds (`EverySequence`), which needs no
  predicate parameter;
* `MappingsCanBeUndone`: a semantic version with no hyphen rewritten is got back from the version
  it is mapped to, so a mapping without a warning has lost nothing.

### Only model-checked

`EveryRunEnds` (liveness is beyond these provers), and of `Preparation` `MetadataReadsBack`,
`ComputedReadsBack`, `WordsStayData` and `UpgradesArrive`. The first and the third ask what another
program's reader (dpkg's, alpm's, a shell's, systemd's) makes of a text composed line by line, and
the second what alpm's reader makes of a manifest and a calendar of a number of days. The last asks
whether the orders of dpkg, rpm and pacman, each a walk over two texts at once, agree with the order
of the releases. Each is an induction over a reader and a writer together, which the steps above
do not reach.

## 7. Assumptions and simplifications

* One invocation at a time. Two at once in the same output directory share file
  names and no lock; that is a hazard on the list without a property.
* A kill during a write is one during the step it belongs to; a machine crash
  that loses written data is not modelled (the code does not `fsync`).
* A failure while deleting in a destructor is ignored, as in the code.
* In `DebLifecycle` unpacking and configuring are one operation. A package of dpkg's that is
  only unpacked, or half-installed (among them one whose `postrm` failed while an upgrade was
  called off), and the reinstallation of the version already there are left out. What the
  first hides: dpkg removes a package that is only unpacked without calling its prerm, which
  leaves a process that ran before the unpacking; no property here speaks of that.
  `RunningIsCurrent` and `EnabledMeansRunning` except a `skipped` version (section 2).
* In `DebLifecycle`, an administrator's enable or disable before
  `deb-systemd-helper` has a record of the unit is excluded: the helper cannot
  know of it, and neither can the scripts.
* In `RpmLifecycle` and `ArchLifecycle` decisions start when the first install is
  done, since presets apply during it, and are forgotten with the package. An
  administrator's preset file is there from the start and does not change.
* `postinst-npm-install` and its kin only warn, and change nothing modelled.
* The tree stands still while the collector walks it.
* Texts are tokens: the alphabet of each family is the characters the code under it
  looks at, with one word for all the others.
* Numbers in versions are among seven, none with a leading zero, and are compared as numbers.

## 8. Plan

In this order; the first two blocks are done.

1. `PackageStore`, `PackageBuild` and their proofs; `Composition`, `ServiceHost`,
   `Administrator` and the three lifecycles; `Collector`; `PackagePlan` and its proofs.
2. `Text`, `Names`, `Versions`, `Dependencies`, `Templates`, `Metadata`, `Resolution`,
   `Preparation`; `PresetLifecycles`.
3. Proofs. Done: `PresetLifecycles`, over the invariants of `RpmLifecycle` and
   `ArchLifecycle`; `DebLifecycle`; `Collector`; each property of `PackageBuild` and
   of `PackagePlan`; of `Preparation`, all but what other programs read back
   from its texts and the order of its versions. Left: these.
4. Concurrency: two invocations over one output directory, and an editor beside the
   collector (paths are resolved, checked and then walked).
5. The installed size with its rounding, and the parsing of a destination (`.` and `..`,
   repeated separators) by what it does to names.

## 9. Not modelled, and why

The ar, tar, cpio, compression and rpm header formats, and the digests in `.MTREE`, are
encodings, by libraries or of bytes; the hazards there are of bytes, which tests compare with
the distributions' own tools. `deb/read.rs` is used by tests. Parsing by clap, the wording of
messages, spelling suggestions and reports keep no state and decide nothing. The
hardening settings of the unit carry no value of the configuration. Detection of
compiled addons changes a warning; the marking of configuration files is in `PackagePlan` and
changes no path through the collector. The installed size and the parsing of a destination are
planned (section 8).
