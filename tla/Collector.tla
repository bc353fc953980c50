----------------------------- MODULE Collector ------------------------------
(* core/collect.rs: walking the trees a project names - inputs, package.json, *)
(* node_modules, the extra-files directory - and planning one entry for each *)
(* file and symlink, without writing anything.  A path is a sequence of      *)
(* names from the filesystem root; a destination one from the package root.  *)
EXTENDS Naturals, SequencesExt

CONSTANTS Name,       \* the names of files and directories; "/" before an absolute path
          Projects,   \* the projects considered: pairs of a file tree, a partial function
                      \* from paths to nodes, and a resolved configuration
          Project,    \* the canonical project root
          App,        \* app_root: where the application goes in the package
          BinLink,    \* the destination of the generated /usr/bin link
          MaxHops     \* how many links the kernel follows in one path

ASSUME HopsAssumption == MaxHops \in Nat

(* The link is /usr/bin/<executable>, and app_root ends in /app.             *)
ASSUME PlacesAssumption ==
    /\ Project \in Seq(Name) /\ App \in Seq(Name) /\ BinLink \in Seq(Name)
    /\ {"package.json", "lib", "src", "bin", "index.js", "node_modules"} \subseteq Name
    /\ ~IsStrictPrefix(App, BinLink)

(* A link points at a path, and only directories have something below them.  *)
IsFileSystem(nodes) ==
    /\ DOMAIN nodes \subseteq Seq(Name)
    /\ \A path \in DOMAIN nodes :
          /\ nodes[path].kind \in {"dir", "file", "script", "special", "link"}
          /\ nodes[path].kind = "link" => nodes[path].to \in Seq(Name)
          /\ \A n \in 0..Len(path) - 1 :
                SubSeq(path, 1, n) \in DOMAIN nodes => nodes[SubSeq(path, 1, n)].kind = "dir"

ASSUME ProjectsAssumption ==
    \A p \in Projects :
        /\ IsFileSystem(p[1])
        /\ p[2].named \in Seq(Seq(Name)) /\ p[2].extra \in Seq(Name)
        /\ p[2].daemon \in Seq(Name) /\ p[2].cli \in Seq(Name)

VARIABLES tree,       \* the file system
          config,     \* named inputs, daemon and cli entry points, ...
          jobs,       \* what `collect` still does
          stack,      \* the walks in progress, the innermost last
          visited,    \* canonical roots being materialised
          files,      \* the entry planned for each destination, with its source
          outcome     \* "collecting", "planned", "refused"

vars == <<tree, config, jobs, stack, visited, files, outcome>>

(* What the file system answers *)

Within(path, root) == IsPrefix(root, path)
Relative(path, root) == SubSeq(path, Len(root) + 1, Len(path))
Names(path, name) == \E i \in DOMAIN path : path[i] = name

IsLink(path) == path \in DOMAIN tree /\ tree[path].kind = "link"

(* The first component that is a link is replaced by what it points at. *)
Follow(path) ==
    LET links == {n \in DOMAIN path : IsLink(SubSeq(path, 1, n))}
        first == CHOOSE n \in links : \A m \in links : n <= m
    IN  IF links = {} THEN path
        ELSE tree[SubSeq(path, 1, first)].to \o SubSeq(path, first + 1, Len(path))

Canonical(path) ==
    LET hop[n \in 0..MaxHops] == IF n = 0 THEN path ELSE Follow(hop[n - 1])
    IN  hop[MaxHops]

Exists(path) == LET p == Canonical(path) IN p \in DOMAIN tree /\ ~IsLink(p)
Kind(path)   == IF Exists(path) THEN tree[Canonical(path)].kind ELSE "none"

-----------------------------------------------------------------------------

(* An entry point is a path below the project root, or <<>>.                 *)
Given(entry) == IF entry = <<>> THEN <<>> ELSE <<entry>>
EntryPoints(c) == Given(c.daemon) \o Given(c.cli)

(* executed_destinations: the wrapper and, with a service, the unit. *)
Executed(c) == {App \o entry : entry \in
                    ({c.cli} \cup IF c.service THEN {c.daemon} ELSE {}) \ {<<>>}}

(* run.rs inputs_for: those named, else the entry points and the usual       *)
(* suspects, whichever exist.                                                *)
Usual == << <<"package.json">>, <<"lib">>, <<"src">>, <<"bin">>, <<"index.js">> >>

Existing(paths) ==
    LET kept[n \in 0..Len(paths)] ==
            IF n = 0 THEN <<>>
            ELSE IF Exists(Project \o paths[n]) /\ ~Contains(kept[n - 1], paths[n])
                 THEN Append(kept[n - 1], paths[n]) ELSE kept[n - 1]
    IN  kept[Len(paths)]

(* A bug: a fixed list. *)
InputsUsual(c) == IF c.named # <<>> THEN c.named ELSE Existing(Usual)

Inputs(c) == IF c.named # <<>> THEN c.named ELSE Existing(EntryPoints(c) \o Usual)

-----------------------------------------------------------------------------

Job(do, path) == <<[do |-> do, path |-> path]>>

Jobs(c) == [i \in DOMAIN Inputs(c) |-> [do |-> "input", path |-> Inputs(c)[i]]]
           \o Job("manifest", <<"package.json">>)
           \o (IF c.strategy = "npm-install" THEN <<>> ELSE Job("dependencies", <<"node_modules">>))
           \o (IF c.extra = <<>> THEN <<>> ELSE Job("extra", c.extra))
           \o Job("link", <<>>) \o Job("entrypoints", <<>>)

Init == /\ \E p \in Projects : tree = p[1] /\ config = p[2]
        /\ jobs = Jobs(config)
        /\ stack = <<>> /\ visited = {} /\ files = <<>>
        /\ outcome = IF Inputs(config) = <<>> THEN "refused" ELSE "collecting"

(* A walk from `start`.  Its mapping takes what is below `root` to what is    *)
(* below `dest`; resolved links must stay within `boundary`.  The entries    *)
(* may come in any order: the code sorts each directory by name.             *)
Walk(start, root, dest, boundary, tolerate, skip) ==
    [left |-> {p \in DOMAIN tree : Within(p, start)}, root |-> root, dest |-> dest,
     boundary |-> boundary, tolerate |-> tolerate, skip |-> skip]

(* A bug: destinations relative to the input, not to the project. *)
AppWalkFromInput(start) == Walk(start, start, App, Project, FALSE, TRUE)

AppWalk(start) == Walk(start, Project, App, Project, FALSE, TRUE)

Refuse == outcome' = "refused" /\ UNCHANGED <<tree, config, jobs, stack, visited, files>>

(* A destination has one source: the same one again is nothing new, another  *)
(* one is an error.                                                          *)
Claim(dest, entry) ==
    IF dest \notin DOMAIN files
    THEN /\ files' = [d \in DOMAIN files \cup {dest} |-> IF d = dest THEN entry ELSE files[d]]
         /\ UNCHANGED outcome
    ELSE /\ outcome' = IF files[dest].source = entry.source THEN outcome ELSE "refused"
         /\ UNCHANGED files

-----------------------------------------------------------------------------
(* collect: one job after the other *)

Doing(do) == outcome = "collecting" /\ stack = <<>> /\ jobs # <<>> /\ Head(jobs).do = do
Path == Project \o Head(jobs).path
Root == Canonical(Path)

StartWalk(walk) ==
    /\ stack' = <<walk>> /\ jobs' = Tail(jobs)
    /\ UNCHANGED <<tree, config, visited, files, outcome>>

PassJob ==
    jobs' = Tail(jobs) /\ UNCHANGED <<tree, config, stack, visited, files, outcome>>

(* The containment gate: canonical_within. *)
WalkWithin(walk) == IF Within(Root, Project) THEN StartWalk(walk) ELSE Refuse

IsAbsolute(input) == input # <<>> /\ Head(input) = "/"

Input ==
    /\ Doing("input")
    /\ LET input == Head(jobs).path IN
       CASE IsAbsolute(input)            -> Refuse
         [] Names(input, "node_modules") -> PassJob
         [] OTHER -> IF Exists(Path) THEN WalkWithin(AppWalk(Root)) ELSE Refuse

Manifest ==
    /\ Doing("manifest")
    /\ IF Kind(Path) \in {"file", "script"} THEN WalkWithin(AppWalk(Root)) ELSE PassJob

Dependencies ==
    /\ Doing("dependencies")
    /\ IF Kind(Path) = "dir"
       THEN WalkWithin(Walk(Root, Root, Append(App, "node_modules"), Project, TRUE, FALSE))
       ELSE PassJob

ExtraFiles ==
    /\ Doing("extra")
    /\ IF Kind(Path) = "dir"
       THEN WalkWithin(Walk(Root, Root, <<>>, Root, FALSE, FALSE))
       ELSE Refuse

ExecutableSymlink ==
    /\ Doing("link")
    /\ Claim(BinLink, [source |-> <<"generated">>, kind |-> "link", target |-> <<"bin">>])
    /\ jobs' = Tail(jobs)
    /\ UNCHANGED <<tree, config, stack, visited>>

(* core/build.rs, once everything is collected *)
RefuseMissingEntrypoints ==
    /\ Doing("entrypoints")
    /\ outcome' = IF Executed(config) \subseteq DOMAIN files THEN "planned" ELSE "refused"
    /\ jobs' = Tail(jobs)
    /\ UNCHANGED <<tree, config, stack, visited, files>>

-----------------------------------------------------------------------------
(* Walker::walk: one entry of the innermost walk at a time *)

Top == Last(stack)
Destination(path) == Top.dest \o Relative(path, Top.root)
Passed(entry) == [stack EXCEPT ![Len(stack)].left = @ \ {entry}]

(* The entries a walk looks at, which no `continue` passes over before. *)
Looked(entry, kind) ==
    /\ ~(Top.skip /\ Names(entry, "node_modules"))
    /\ tree[entry].kind = kind

Visit(entry) == outcome = "collecting" /\ stack # <<>> /\ entry \in Top.left

(* The file is executed directly, and the kernel cannot. *)
Unrunnable(dest, path) == dest \in Executed(config) /\ tree[path].kind # "script"

PassOver(entry) ==
    /\ Visit(entry)
    /\ \/ Top.skip /\ Names(entry, "node_modules")
       \/ tree[entry].kind = "dir"
       \/ Looked(entry, "special") /\ Top.tolerate
       \/ Looked(entry, "link") /\ ~Exists(entry) /\ Top.tolerate
    /\ stack' = Passed(entry)
    /\ UNCHANGED <<tree, config, jobs, visited, files, outcome>>

PlanFile(entry) ==
    /\ Visit(entry) /\ (Looked(entry, "file") \/ Looked(entry, "script"))
    /\ ~Unrunnable(Destination(entry), entry)
    /\ Claim(Destination(entry), [source |-> entry, kind |-> "file", target |-> <<>>])
    /\ stack' = Passed(entry)
    /\ UNCHANGED <<tree, config, jobs, visited>>

(* plan_symlink, of a target the mapping has a destination for *)
LiveLink(entry) ==
    Visit(entry) /\ Looked(entry, "link") /\ Exists(entry)
    /\ Within(Canonical(entry), Top.boundary)
InTree(path) == Within(path, Top.root)

(* A bug, unless what the link resolves to is checked too.                   *)
PlanLinkUnchecked(entry) ==
    /\ LiveLink(entry) /\ InTree(Canonical(entry))
    /\ Destination(Canonical(entry)) # <<>>
    /\ Claim(Destination(entry),
             [source |-> entry, kind |-> "link", target |-> Destination(Canonical(entry))])
    /\ stack' = Passed(entry)
    /\ UNCHANGED <<tree, config, jobs, visited>>

PlanLink(entry) ==
    PlanLinkUnchecked(entry) /\ ~Unrunnable(Destination(entry), Canonical(entry))

(* canonical_workspace_roots and may_materialise *)
WorkspaceRoots ==
    {r \in {Canonical(Project \o w) : w \in {v \in config.workspaces : Exists(Project \o v)}} :
        Within(r, Project) /\ r # Project}
(* A bug: the boundary is enough. *)
MayMaterialiseInProject(path) == Within(path, Project)
MayMaterialise(path) == \E root \in WorkspaceRoots : Within(path, root)

(* Bugs: no `visited`; the link skipped. *)
MaterialiseAgain(entry) ==
    LET target == Canonical(entry) IN
    /\ LiveLink(entry) /\ ~InTree(target) /\ MayMaterialise(target)
    /\ stack' = Append(Passed(entry),
                       Walk(target, target, Destination(entry), Top.boundary, Top.tolerate, FALSE))
    /\ UNCHANGED <<tree, config, jobs, visited, files, outcome>>
MaterialiseNothing(entry) ==
    /\ LiveLink(entry) /\ ~InTree(Canonical(entry)) /\ MayMaterialise(Canonical(entry))
    /\ stack' = Passed(entry)
    /\ UNCHANGED <<tree, config, jobs, visited, files, outcome>>

Materialise(entry) ==
    LET target == Canonical(entry) IN
    /\ LiveLink(entry) /\ ~InTree(target) /\ MayMaterialise(target) /\ target \notin visited
    /\ visited' = visited \cup {target}
    /\ stack' = Append(Passed(entry),
                       Walk(target, target, Destination(entry), Top.boundary, Top.tolerate, FALSE))
    /\ UNCHANGED <<tree, config, jobs, files, outcome>>

RefuseEntry(entry) ==
    /\ Visit(entry)
    /\ LET target == Canonical(entry) IN
       \/ (Looked(entry, "file") \/ Looked(entry, "script"))
          /\ Unrunnable(Destination(entry), entry)
       \/ Looked(entry, "special") /\ ~Top.tolerate
       \/ Looked(entry, "link") /\ ~Exists(entry) /\ ~Top.tolerate
       \/ Looked(entry, "link") /\ Exists(entry) /\ ~Within(target, Top.boundary)
       \/ LiveLink(entry) /\ InTree(target)
          /\ (Destination(target) = <<>> \/ Unrunnable(Destination(entry), target))
       \/ LiveLink(entry) /\ ~InTree(target) /\ (~MayMaterialise(target) \/ target \in visited)
    /\ Refuse

(* A bug: the root stays in `visited`. *)
LeaveTreeVisited ==
    /\ outcome = "collecting" /\ stack # <<>> /\ Top.left = {}
    /\ stack' = Front(stack)
    /\ UNCHANGED <<tree, config, jobs, visited, files, outcome>>

(* Only a materialised tree is in `visited`; the outermost never is. *)
LeaveTree ==
    /\ outcome = "collecting" /\ stack # <<>> /\ Top.left = {}
    /\ visited' = IF Len(stack) = 1 THEN visited ELSE visited \ {Top.root}
    /\ stack' = Front(stack)
    /\ UNCHANGED <<tree, config, jobs, files, outcome>>

Next == \/ Input \/ Manifest \/ Dependencies \/ ExtraFiles
        \/ ExecutableSymlink \/ RefuseMissingEntrypoints
        \/ \E entry \in DOMAIN tree :
               PassOver(entry) \/ PlanFile(entry) \/ PlanLink(entry)
               \/ Materialise(entry) \/ RefuseEntry(entry)
        \/ LeaveTree

Spec == Init /\ [][Next]_vars

-----------------------------------------------------------------------------
(* Properties *)

TypeOK ==
    /\ outcome \in {"collecting", "planned", "refused"}
    /\ \A i \in DOMAIN stack : stack[i].left \subseteq DOMAIN tree
    /\ \A dest \in DOMAIN files : files[dest].kind \in {"file", "link"}
    /\ visited = {stack[i].root : i \in 2..Len(stack)}

Planned == outcome = "planned"
IsRegular(path) == path \in DOMAIN tree /\ tree[path].kind \in {"file", "script"}

(* However workspace packages link to each other, no tree is materialised    *)
(* inside itself: the nesting of walks is bounded, so collection ends.       *)
NoTreeInsideItself ==
    \A i, j \in 2..Len(stack) : i # j => stack[i].root # stack[j].root

(* Every regular file planned is really in a place the project gave it from: *)
(* the application's own tree, its node_modules, a declared workspace or the *)
(* extra files, whatever links led there.                                    *)
NothingElseShips ==
    \A dest \in DOMAIN files :
        LET source == files[dest].source IN
        files[dest].kind = "file" =>
            /\ Canonical(source) = source
            /\ \/ Within(source, Project) /\ ~Names(source, "node_modules")
                  /\ dest = App \o Relative(source, Project)
               \/ Within(source, Canonical(Append(Project, "node_modules")))
               \/ config.extra # <<>> /\ Within(source, Canonical(Project \o config.extra))
               \/ \E root \in WorkspaceRoots : Within(source, root)

(* Nothing named is lost: a finished plan has every regular file of every    *)
(* input, from that file and no other, at its place in the application, and  *)
(* every extra file where the extra directory maps it.                       *)
InputsArrive ==
    \A i \in DOMAIN Inputs(config) :
        LET input == Inputs(config)[i] IN
        ~Names(input, "node_modules") =>
            \A file \in DOMAIN tree :
                IsRegular(file) /\ ~Names(file, "node_modules")
                /\ Within(file, Canonical(Project \o input))
                => LET dest == App \o Relative(file, Project)
                   IN  dest \in DOMAIN files /\ files[dest].source = file
ExtraFilesArrive ==
    config.extra # <<>> =>
        LET root == Canonical(Project \o config.extra) IN
        \A file \in DOMAIN tree :
            IsRegular(file) /\ Within(file, root) =>
                Relative(file, root) \in DOMAIN files /\ files[Relative(file, root)].source = file
NothingIsLost == Planned => InputsArrive /\ ExtraFilesArrive

(* A dependency that is a link to a package of the workspace arrives with    *)
(* its files under the link's name, and one that links to a file of the      *)
(* dependency tree arrives with the file it links to: skipping either        *)
(* builds, and fails at run time with module-not-found.                      *)
DependenciesArrive ==
    Planned /\ config.strategy # "npm-install" /\ Exists(Append(Project, "node_modules")) =>
        LET root == Canonical(Append(Project, "node_modules"))
            At(path) == App \o <<"node_modules">> \o Relative(path, root)
        IN  \A link \in DOMAIN tree :
                IsLink(link) /\ Within(link, root) /\ Exists(link) =>
                    \A file \in DOMAIN tree :
                        IsRegular(file) /\ Within(file, Canonical(link)) =>
                            IF Within(file, root)
                            THEN At(file) \in DOMAIN files
                            ELSE At(link) \o Relative(file, Canonical(link)) \in DOMAIN files

(* What the unit or the wrapper executes can be executed, also when its      *)
(* place is taken by a link: the file it resolves to is a program.           *)
EntrypointsRun ==
    Planned => \A dest \in Executed(config) :
        dest \in DOMAIN files /\ Kind(files[dest].source) = "script"

(* An executed file that is a link is in the package with what it links to.  *)
WithItsTarget(dest) ==
    /\ dest \in DOMAIN files
    /\ files[dest].kind = "link" => files[dest].target \in DOMAIN files

(* Naming no inputs packages all that the unit and the wrapper execute,      *)
(* wherever links to it lead but into a dependency: the strategy decides     *)
(* about those.                                                              *)
DefaultInputsSuffice ==
    Planned /\ config.named = <<>> =>
        \A dest \in Executed(config) :
            ~Names(Canonical(files[dest].source), "node_modules") => WithItsTarget(dest)

(* core/build.rs:185 of any inputs: every file something in the package      *)
(* executes must be in the package.                                          *)
ExecutedFilesShip ==
    Planned => \A dest \in Executed(config) : WithItsTarget(dest)
=============================================================================
