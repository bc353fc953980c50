--------------------------- MODULE MCPreparation ---------------------------
EXTENDS Preparation

MCMaxLen   == 3
MCMaxEpoch == 49710

UpTo(n, tokens) == UNION {[1..k -> tokens] : k \in 0..n}

MCVersion == <<"1", ".", "2", ".", "3">>
BaseFlags ==
    [package_name |-> <<"a", "b">>, version |-> MCVersion, description |-> <<"w">>,
     maintainer |-> <<"m">>, daemon |-> <<"x">>]
Base ==
    [entry |-> "cli", flags |-> BaseFlags, switches |-> {}, file |-> "absent",
     settings |-> NoKeys, unknown |-> {}, manifest |-> NoKeys,
     formats |-> {"deb", "rpm", "arch"}, world |-> [sde |-> 5, git |-> Unset, mtimes |-> {7}],
     templates |-> NoKeys, tree |-> <<>>, project |-> "once"]
With(flags)  == [Base EXCEPT !.flags = flags @@ @]
Without(key) == [Base EXCEPT !.flags = Restrict(@, DOMAIN @ \ {key})]
Only(format, r) == [r EXCEPT !.formats = {format}]

-----------------------------------------------------------------------------
(* Options that end a run early, or change its output. *)
Switched ==
    {[Base EXCEPT !.switches = s, !.formats = f] :
        s \in SUBSET {"tool-version", "no-md5sums", "cat-tmp", "cat-unknown", "dry-run"},
        f \in {{"deb"}, {"rpm", "arch"}}}
    \cup {[Base EXCEPT !.switches = {"dry-run"}, !.templates = "executable" :> Broken("unreadable")]}

(* Every key a layer may give: not at all, well or badly. *)
Layered ==
    LET layer(key, choice, values) == IF choice = 0 THEN NoKeys ELSE key :> values[choice]
        of(key, values, f, s) ==
            [Base EXCEPT !.flags = layer(key, f, values) @@ Restrict(@, DOMAIN @ \ {key}),
                         !.settings = layer(key, s, values), !.file = "present"]
    IN  UNION {{of("user", << <<"u">>, <<"A">>, <<"0">> >>, f, s),
                of("group", << <<"_", "g">>, <<"+">>, <<>> >>, f, s),
                of("package_name", << <<"a", "+">>, <<"A", "a">>, <<"a">> >>, f, s),
                of("executable_name", << <<"a", "A">>, <<"/">>, <<".", ".">> >>, f, s),
                of("install_dir", << <<"/", "/", "o">>, <<"/">>, <<"o">> >>, f, s),
                of("daemon", << <<"y">>, <<".", "/", "y">>, <<"/">> >>, f, s),
                of("cli", << <<"@", "y">>, <<".", ".">>, <<".">> >>, f, s),
                of("description", << <<"w", "\n", "w">>, <<"esc">>, <<"\n", "w">> >>, f, s),
                of("maintainer", << <<"m", " ", "w">>, <<"m", "\n">>, <<"esc">> >>, f, s),
                of("architecture", <<"AMD64", "noarch", "vax">>, f, s),
                of("init", <<"none", "upstart", "sysv">>, f, s),
                of("triggers_file", <<"readable", "unreadable", "unreadable">>, f, s),
                of("install_command",
                   << <<"KEY=value", " ", "yarn">>, <<"yarn", "\n">>, <<>> >>, f, s),
                of("install_binary", << <<"yarn">>, <<"a", " ">>, <<"\n">> >>, f, s)} :
                  f \in 0..3, s \in 0..3}
           \cup {[Base EXCEPT !.file = "malformed"]}
           \cup {[Base EXCEPT !.file = "present", !.unknown = {"instal_dir", "usr"}]}
           \cup {[Base EXCEPT !.file = "present", !.settings = "homepage" :> v @@ "license" :> w] :
                    v \in {<<"h">>, <<"h", " ">>}, w \in {<<"MIT">>, <<"A", " ", "B">>, <<"\n">>}}
           \cup {Without(key) : key \in DOMAIN BaseFlags}
           \cup {With("arch" :> "arm64"), With([arch |-> "arm64", architecture |-> "armhf"])}
           \cup {With("architecture" :> spelling) : spelling \in DOMAIN Machine}

(* Names the user typed, and a manifest's. *)
Named ==
    {Only("deb", With("package_name" :> name)) : name \in UpTo(4, {"a", "0", "-", ".", "+"})}
    \cup {[entry |-> "library", flags |-> Restrict(BaseFlags, {"description", "maintainer", "daemon"}),
           switches |-> {}, file |-> "absent", settings |-> NoKeys, unknown |-> {},
           manifest |-> [name |-> name, version |-> MCVersion], formats |-> {"deb"},
           world |-> Base.world, templates |-> NoKeys, tree |-> <<>>, project |-> "once"] :
             name \in UpTo(3, {"a", "A", "0", "-", "@", "/", ".", "~"})}

Placed ==
    {Only("deb", With("install_dir" :> path)) : path \in UpTo(4, {"/", "a", ".", "~"})}
    \cup {Only("deb", With("daemon" :> path)) : path \in UpTo(4, {"/", "a", ".", "@"})}

Described ==
    {With("description" :> text) :
        text \in UpTo(3, {"w", " ", "\n", ".", "\""}) \cup UpTo(4, {"w", "\n", "."})}
    \cup {With("description" :> text) :
             text \in UpTo(2, {"w", "$", "\t", "esc", "{{", "backtick", "Version: "})
                      \cup {<<"{{", " ", "user", " ", "}}">>, <<"w", "\n", "Depends: ", "x">>}}
    \cup {With("description" :> text @@ "init" :> init @@ "maintainer" :> who) :
             text \in {<<"w", "\\", "\"">>, <<"w", "\\">>}, init \in InitSystem,
             who \in UpTo(2, {"m", "\"", "\\", "\n", "{{"})}

(* Version spellings, right and wrong; no two numbers or words side by side. *)
Spelt(version) ==
    \A i \in 1..(Len(version) - 1) :
        \A kind \in {Number, Word} : ~({version[i], version[i + 1]} \subseteq kind)
Versioned ==
    {With("version" :> v @@ (IF e = NoEpoch THEN NoKeys ELSE "epoch" :> e)) :
        v \in {w \in {MCVersion \o t : t \in UpTo(3, {"-", ".", "+", "~", "rc", "1"})} : Spelt(w)},
        e \in {NoEpoch, 0, 1}}
    \cup {With("version" :> v) : v \in {<<>>, <<"rc">>, <<"1">>, <<"1", ".", "2">>, <<"1", ":", "2">>}}

Script == {"adduser", "init-system-helpers", "shadow-utils", "systemd"}
Depending ==
    LET entries == {Entry(name, spelling) : name \in Script, spelling \in Spelling \ {"alternative"}}
                   \cup {Entry("other", "alternative")}
        lists == {<<>>, <<Entry("other", "folded")>>} \cup {<<e>> : e \in entries}
                 \cup {<<Entry("other", "bare"), e>> : e \in entries}
    IN  {[With([dependencies |-> list, init |-> init, install_strategy |-> strategy])
             EXCEPT !.switches = nodejs] :
            list \in lists, init \in InitSystem, strategy \in {"auto", "npm-install"},
            nodejs \in {{}, {"nodejs"}}}

(* Stamps: where they come from, and every end and start of a month.         *)
Stamped ==
    LET world(sde, git, mtimes) == [sde |-> sde, git |-> git, mtimes |-> mtimes]
    IN  {[Base EXCEPT !.world = world(sde, git, mtimes), !.project = "rebuilt"] :
            sde \in {Unset, Malformed, 0, 6}, git \in {Unset, 5, 49712}, mtimes \in {{}, {3, 9}, {8}}}
        \cup {Only("deb", [Base EXCEPT !.world.sde = day]) :
                 day \in UNION {{365 * y + 24 * (y \div 100) + (y % 100) \div 4 + d : d \in
                                    {-1, 0, 1, 30, 31, 57, 58, 59, 60, 61, 365, 366}} :
                                   y \in {0, 1, 2, 29, 30, 54, 130}} \ {-1}}

TreeRecord == {[path |-> "p", kind |-> "file", mode |-> 644], [path |-> "p", kind |-> "file", mode |-> 755],
               [path |-> "p", kind |-> "dir", mode |-> 755], [path |-> "p", kind |-> "link", mode |-> 777]}
Listed == {Only("arch", [With("init" :> init) EXCEPT !.tree = tree]) :
              tree \in UpTo(3, TreeRecord), init \in {"auto", "none"}}

(* Templates of the user's own. *)
Overridden ==
    LET sources == {Broken("unreadable")}
                   \cup {Rendered(text) : text \in
                            UpTo(4, {"{{", "}}", "user", "x"}) \cup {<<"{{", " ", "user", "\t", "}}">>}}
    IN  {Only("deb", [Base EXCEPT !.templates = "executable" :> source]) : source \in sources}

(* Releases of one project, in no order. *)
Suffixes1 == {<<>>, <<"-", "alpha">>, <<"-", "alpha", ".", "1">>, <<"-", "alpha", ".", "beta">>,
              <<"-", "beta", ".", "2">>, <<"-", "beta", ".", "11">>, <<"-", "rc", ".", "1">>,
              <<"-", "alpha", "-", "1">>}
MCReleases ==
    {[version |-> MCVersion \o s, epoch |-> NoEpoch] : s \in Suffixes1}
    \cup {[version |-> v, epoch |-> NoEpoch] :
             v \in {<<"1", ".", "10", ".", "0">>, <<"2", ".", "0", ".", "0", "-", "0">>}}
    \cup {[version |-> <<"1", ".", "0", ".", "0">>, epoch |-> 1]}
Released == {[With("version" :> r.version) EXCEPT !.project = "released"] :
                r \in {x \in MCReleases : x.epoch = NoEpoch}}

MCRequests == Switched \cup Layered \cup Named \cup Placed \cup Described \cup Versioned
              \cup Depending \cup Stamped \cup Listed \cup Overridden \cup Released

(* One release after the other, on Arch. *)
MCArchReleased == {Only("arch", r) : r \in Released}
=============================================================================
