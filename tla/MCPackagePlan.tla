--------------------------- MODULE MCPackagePlan ----------------------------
EXTENDS PackagePlan

MCName == {"usr", "bin", "lib", "share", "doc", "copyright", "changelog.gz", "systemd", "system",
           "system-preset", "tmpfiles.d", "etc", "default", "init.d", "init", "app", "opt",
           "local", "srv", "data", "x", "app.js", "main.js", "current", "run", "probe", "probe.conf"}

(* An application with a file at its root and one below, a link up from      *)
(* there, a link to a directory and a link across.                           *)
Project(name, exec, dir, init, extra) ==
    [name |-> name, exec |-> exec, dir |-> dir, init |-> init,
     files |-> {<<"app.js">>, <<"lib", "x", "main.js">>},
     links |-> {<< <<"lib", "x", "app">>, <<"app.js">> >>, << <<"current">>, <<"lib", "x">> >>,
                << <<"bin", "run">>, <<"lib", "x", "main.js">> >>},
     extra |-> extra]

(* Extra files in the way of each thing put in a package, and out of it. *)
ExtraFiles ==
    { <<"etc", "probe", "probe.conf">>, <<"etc", "default">>, <<"etc", "default", "probe">>,
      <<"usr", "lib", "systemd", "system-preset", "probe">>,
      <<"usr", "share", "doc", "probe", "copyright">>, <<"usr", "share", "doc">>,
      <<"usr", "lib", "probe">>, <<"usr", "lib", "probe", "app", "app.js", "x">>,
      <<"usr", "bin", "probe", "x">>, <<"srv", "data", "x">> }

InstallDirs == {<<"usr", "lib">>, <<"opt">>, <<"usr", "local", "lib">>, <<"usr", "bin">>, <<"etc", "x">>}

(* At most two extra files, a tree by themselves. *)
ExtraTrees == {{d, e} : d \in ExtraFiles, e \in ExtraFiles} \cup {{}}
Trees == {extra \in ExtraTrees : \A d, e \in extra : d \notin Ancestors(e)}

MCProjects == {Project("probe", exec, dir, init, extra) :
                  exec \in {"probe", "run"}, dir \in InstallDirs, init \in InitSystem, extra \in Trees}

(* The directories of the base system's packages, and /usr/local's. *)
MCSystemDirectories ==
    FilesystemRoots
    \cup {<<"usr", d>> : d \in {"bin", "lib", "share", "local"}}
    \cup {<<"etc", d>> : d \in {"default", "init.d", "init"}}
    \cup {<<"usr", "lib", d>> : d \in {"systemd", "tmpfiles.d"}}
    \cup {<<"usr", "lib", "systemd", d>> : d \in {"system", "system-preset"}}
    \cup {<<"usr", "share", "doc">>, <<"usr", "local", "lib">>}

(* A package that happens to be named as a directory of the system is. *)
NamesakeProjects == {Project("lib", "run", dir, init, extra) :
                        dir \in InstallDirs, init \in InitSystem, extra \in {{}}}
=============================================================================
