---------------------------- MODULE PackagePlan -----------------------------
(* core/plan.rs and core/build.rs: from the entries collected in a project   *)
(* to what the package of each format carries.  A destination is the         *)
(* sequence of its names.  Entries have no order: the code sorts them by     *)
(* destination, which puts a directory before what is in it.  The file names *)
(* made from the package's are written without their affixes: nothing else   *)
(* is put in those directories.                                              *)
EXTENDS Naturals, FiniteSets, Composition

CONSTANTS Name,                 \* the names of files and directories, ".." not among them
          Projects,             \* what may be packaged: settings and collected files
          SystemDirectories     \* those that other packages own on the target

ASSUME NameAssumption ==
    /\ {"usr", "bin", "lib", "share", "doc", "copyright", "changelog.gz", "systemd", "system",
        "system-preset", "tmpfiles.d", "etc", "default", "init.d", "init", "app"} \subseteq Name
    /\ ".." \notin Name

(* Destination::new resolves each "..". *)
Destination == Seq(Name) \ {<<>>}

(* `files` and `links` are relative to the application, `extra` to the root. *)
ASSUME ProjectAssumption ==
    Projects \subseteq
        [name : Name, exec : Name, dir : Destination, init : InitSystem,
         files : SUBSET Destination, links : SUBSET (Destination \X Destination),
         extra : SUBSET Destination]

Format == {"deb", "rpm", "arch"}

VARIABLES project,     \* the project being packaged
          stage,       \* "collected", "generate", "backend" or "done"
          base,        \* the plan all formats share
          queue,       \* the formats left, in the order they are built
          derived,     \* the plan of the format being built
          package,     \* what each package carries
          verdict      \* "none", "built" or "refused", for each format

vars == <<project, stage, base, queue, derived, package, verdict>>

-----------------------------------------------------------------------------
(* Destinations *)

Ancestors(dest) == {SubSeq(dest, 1, n) : n \in 1..(Len(dest) - 1)}

Below(directory, dest) == directory \in Ancestors(dest)

Parent(dest) == SubSeq(dest, 1, Len(dest) - 1)

(* How many leading names two sequences share. *)
Shared(a, b) == Cardinality({n \in 1..Len(a) : n <= Len(b) /\ SubSeq(a, 1, n) = SubSeq(b, 1, n)})

Ups(n) == [i \in 1..n |-> ".."]

Rooted(dest) == [rooted |-> TRUE, path |-> dest]
FromLink(path) == [rooted |-> FALSE, path |-> path]

(* A bug: ascend from the link itself, not from its directory. *)
LinkTargetFromLink(link, target) ==
    IF Head(link) # Head(target) THEN Rooted(target)
    ELSE LET shared == Shared(link, target)
         IN  FromLink(Ups(Len(link) - shared) \o SubSeq(target, shared + 1, Len(target)))

(* Absolute between top-level directories, relative within one. *)
LinkTarget(link, target) ==
    IF Head(link) # Head(target) THEN Rooted(target)
    ELSE LET shared == Shared(Parent(link), target)
         IN  FromLink(Ups(Len(Parent(link)) - shared) \o SubSeq(target, shared + 1, Len(target)))

-----------------------------------------------------------------------------
(* Entries *)

Entry == [dest : Destination, kind : {"regular", "directory", "link"},
          content : {"application", "extra", "generated", "documentation", "preset", "none"},
          executable : BOOLEAN, config : BOOLEAN,
          target : [rooted : BOOLEAN, path : Seq(Name \cup {".."})]]

Regular(dest, content, executable) ==
    [dest |-> dest, kind |-> "regular", content |-> content, executable |-> executable,
     config |-> FALSE, target |-> FromLink(<<>>)]

Directory(dest) ==
    [dest |-> dest, kind |-> "directory", content |-> "none", executable |-> TRUE,
     config |-> FALSE, target |-> FromLink(<<>>)]

Link(dest, target) ==
    [dest |-> dest, kind |-> "link", content |-> "none", executable |-> TRUE,
     config |-> FALSE, target |-> LinkTarget(dest, target)]

InEtc(dest) == Below(<<"etc">>, dest)

(* What lands below /etc is the administrator's to edit. *)
AsConfig(entry) == [entry EXCEPT !.config = InEtc(entry.dest)]

-----------------------------------------------------------------------------
(* BuildPlan::new *)

Duplicates(files) == \E e, f \in files : e # f /\ e.dest = f.dest

(* A bug: only directories are looked at. *)
Unblocked(files) == FALSE

Blocked(files) == \E e, f \in files : Below(f.dest, e.dest) /\ f.kind # "directory"

Refused(files) == Duplicates(files) \/ Blocked(files)

Missing(files) == (UNION {Ancestors(e.dest) : e \in files}) \ {e.dest : e \in files}

Planned(files) == files \cup {Directory(d) : d \in Missing(files)}

-----------------------------------------------------------------------------
(* What collection hands over, what is generated, what a format adds *)

AppRoot(p) == p.dir \o <<p.name, "app">>
Wrapper(p) == p.dir \o <<p.name, "bin", p.exec>>
BinLink(p) == <<"usr", "bin", p.exec>>

Collected(p) ==
    {AsConfig(Regular(AppRoot(p) \o f, "application", FALSE)) : f \in p.files}
    \cup {Link(AppRoot(p) \o l[1], AppRoot(p) \o l[2]) : l \in p.links}
    \cup {AsConfig(Regular(d, "extra", FALSE)) : d \in p.extra}
    \cup {Link(BinLink(p), Wrapper(p))}

Placement(template, p) ==
    CASE template = "executable"      -> Wrapper(p)
      [] template = "default"         -> <<"etc", "default", p.name>>
      [] template = "systemd.service" -> <<"usr", "lib", "systemd", "system", p.name>>
      [] template = "tmpfiles.conf"   -> <<"usr", "lib", "tmpfiles.d", p.name>>
      [] template = "sysv-init"       -> <<"etc", "init.d", p.name>>
      [] template = "upstart.conf"    -> <<"etc", "init", p.name>>

(* A bug: no mark on what is generated. *)
GeneratedUnmarked(p) ==
    {Regular(Placement(t, p), "generated", t \in {"executable", "sysv-init"}) :
        t \in ServiceFiles(p.init)}

Generated(p) ==
    {AsConfig(Regular(Placement(t, p), "generated", t \in {"executable", "sysv-init"})) :
        t \in ServiceFiles(p.init)}

Documentation(p) ==
    {Regular(<<"usr", "share", "doc", p.name, n>>, "documentation", FALSE) :
        n \in {"copyright", "changelog.gz"}}

Preset(p) ==
    {Regular(<<"usr", "lib", "systemd", "system-preset", p.name>>, "preset", FALSE)}

(* with_documentation, and with_preset where the scripts ask for one. *)
Additions(f, p) ==
    CASE f = "deb"  -> Documentation(p)
      [] f = "rpm"  -> IF RpmUsesPreset(p.init) THEN Preset(p) ELSE {}
      [] f = "arch" -> IF ArchUsesPreset(p.init) THEN Preset(p) ELSE {}

FilesystemRoots ==
    {<<n>> : n \in {"bin", "boot", "etc", "lib", "lib64", "opt", "run", "sbin", "srv", "usr", "var"}}

Names(dest) == {dest[i] : i \in 1..Len(dest)}

(* A bug, once: a list of directories instead of the package's name. *)
OwnsUnlisted(p, dest) ==
    dest \notin FilesystemRoots \cup {<<"usr", "bin">>, <<"usr", "lib">>, <<"usr", "share">>}

OwnsDirectory(p, dest) == dest \notin FilesystemRoots /\ p.name \in Names(dest)

(* rpm leaves directories to their owners; the others write every entry. *)
Carried(f, p, files) ==
    IF f = "rpm" THEN {e \in files : e.kind = "directory" => OwnsDirectory(p, e.dest)} ELSE files

-----------------------------------------------------------------------------

(* The formats asked for, each once, in the order of the code's type. *)
Rank == [deb |-> 1, rpm |-> 2, arch |-> 3]

Orders == {q \in UNION {[1..n -> Format] : n \in 1..3} :
              \A i, j \in DOMAIN q : i < j => Rank[q[i]] < Rank[q[j]]}

Init == /\ project \in Projects
        /\ stage = "collected"
        /\ base = {} /\ derived = {}
        /\ queue \in Orders
        /\ package = [f \in Format |-> {}]
        /\ verdict = [f \in Format |-> "none"]

(* A collision among the collected entries stops everything; the collector's *)
(* claims catch a duplicate first.                                           *)
PlanProject ==
    /\ stage = "collected"
    /\ IF Refused(Collected(project))
       THEN stage' = "done" /\ UNCHANGED base
       ELSE stage' = "generate" /\ base' = Planned(Collected(project))
    /\ UNCHANGED <<project, queue, derived, package, verdict>>

(* The format at the head of the queue is done with; the next one starts     *)
(* from the shared plan.                                                     *)
Settle(result, carried) ==
    /\ verdict' = [verdict EXCEPT ![Head(queue)] = result]
    /\ package' = [package EXCEPT ![Head(queue)] = carried]
    /\ queue' = Tail(queue)
    /\ stage' = IF Tail(queue) = <<>> THEN "done" ELSE "generate"
    /\ derived' = {}
    /\ UNCHANGED <<project>>

(* generate and with_generated *)
Generate ==
    /\ stage = "generate"
    /\ LET files == base \cup Generated(project)
       IN  IF Refused(files)
           THEN Settle("refused", {})
           ELSE /\ derived' = Planned(files) /\ stage' = "backend"
                /\ UNCHANGED <<project, queue, package, verdict>>
    /\ UNCHANGED base

(* A bug: the additions go into the plan all formats share. *)
FinishShared ==
    /\ stage = "backend"
    /\ LET own == Additions(Head(queue), project)
           files == derived \cup own
       IN  /\ base' = base \cup own
           /\ IF Refused(files)
              THEN Settle("refused", {})
              ELSE Settle("built", Carried(Head(queue), project, Planned(files)))

(* The writer of the format adds its own entries and writes the result. *)
Finish ==
    /\ stage = "backend"
    /\ LET files == derived \cup Additions(Head(queue), project)
       IN  IF Refused(files)
           THEN Settle("refused", {})
           ELSE Settle("built", Carried(Head(queue), project, Planned(files)))
    /\ UNCHANGED base

Next == PlanProject \/ Generate \/ Finish

Spec == Init /\ [][Next]_vars

-----------------------------------------------------------------------------

TypeOK ==
    /\ project \in Projects
    /\ stage \in {"collected", "generate", "backend", "done"}
    /\ base \in SUBSET Entry /\ derived \in SUBSET Entry
    /\ queue \in Seq(Format)
    /\ stage \in {"collected", "generate", "backend"} => queue # <<>>
    /\ package \in [Format -> SUBSET Entry]
    /\ verdict \in [Format -> {"none", "built", "refused"}]

(* One entry for each destination, and a directory above each of them. *)
IsTree(files) ==
    /\ ~Duplicates(files)
    /\ \A e \in files : \A a \in Ancestors(e.dest) :
           \E d \in files : d.dest = a /\ d.kind = "directory"

(* Whatever the user's extra files are put beside, every plan is a tree: no  *)
(* path is a file and a directory at once, and none lacks its parents.  What *)
(* the deb and arch writers put in their archives is that tree.              *)
PlansAreTrees ==
    /\ IsTree(base) /\ IsTree(derived)
    /\ \A f \in {"deb", "arch"} : IsTree(package[f])

Built == {f \in Format : verdict[f] = "built"}

(* Where the target's kernel arrives: up for each "..", down for a name. *)
Reached(link) ==
    LET path == link.target.path
        ups == Cardinality({i \in DOMAIN path : path[i] = ".."})
        from == Parent(link.dest)
    IN  IF link.target.rooted THEN path
        ELSE SubSeq(from, 1, Len(from) - ups) \o SubSeq(path, ups + 1, Len(path))

(* A link that collection planned before anything was generated, and with    *)
(* another install directory each time, leads to a file or directory of the  *)
(* same package; the one in /usr/bin to the generated, executable wrapper.   *)
LinksArrive ==
    \A f \in Built : \A e \in {l \in package[f] : l.kind = "link"} :
        /\ \E t \in package[f] : Reached(e) = t.dest \/ Below(Reached(e), t.dest)
        /\ e.dest = BinLink(project) =>
               \E t \in package[f] :
                   Reached(e) = t.dest /\ t.content = "generated" /\ t.executable

(* In every package exactly the regular files below /etc are configuration,  *)
(* copied or generated, so that none of them is replaced in an upgrade.      *)
EtcIsConfig ==
    \A f \in Built : \A e \in package[f] :
        e.config <=> e.kind = "regular" /\ InEtc(e.dest)

(* An erased rpm takes its own tree with it: no directory it shares with the *)
(* system, and every one of the application's.                               *)
SystemDirectoriesUnclaimed ==
    \A e \in package["rpm"] : e.kind = "directory" => e.dest \notin SystemDirectories

RpmOwnsItsTree ==
    /\ SystemDirectoriesUnclaimed
    /\ "rpm" \in Built =>
           \A e \in base \cup Generated(project) :
               \A a \in Ancestors(e.dest) :
                   a = project.dir \o <<project.name>> \/ Below(project.dir \o <<project.name>>, a)
                       => Directory(a) \in package["rpm"]

(* What a format leaves to the others: everything but its own additions. *)
Portable(f) ==
    {e \in package[f] : e.kind # "directory"
        /\ e.content \notin IF f = "deb" THEN {"documentation"} ELSE {"preset"}}

(* The packages of one run carry the same files, whichever formats were      *)
(* built before or refused in between: the shared plan is nobody's to change. *)
FormatsCarryTheSame == \A f, g \in Built : Portable(f) = Portable(g)
=============================================================================
