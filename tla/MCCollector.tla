---------------------------- MODULE MCCollector -----------------------------
EXTENDS Collector

P(path) == <<"project">> \o path
Node(kind) == [kind |-> kind, to |-> <<>>]
LinkTo(path) == [kind |-> "link", to |-> path]
Outside == <<"outside">>

(* A tree is its directories, and a node or nothing at each other place. *)
Grown(dirs, places) ==
    {[p \in dirs \cup {q \in DOMAIN places : nodes[q] # Node("none")} \cup {Outside} |->
         IF p \in DOMAIN places THEN nodes[p]
         ELSE IF p = Outside THEN Node("file") ELSE Node("dir")] :
     nodes \in {n \in [DOMAIN places -> UNION {places[q] : q \in DOMAIN places}] :
                    \A q \in DOMAIN places : n[q] \in places[q]}}

(* An application: a program behind a link or not, a linked directory, a     *)
(* manifest, and extra files that may collide with it.                       *)
AppTrees == Grown(
    {P(<<>>), P(<<"bin">>), P(<<"extra">>), P(<<"extra", "app">>)},
    P(<<"real">>)                 :> {Node("script"), Node("file")}
    @@ P(<<"bin", "app">>)        :> {Node("script"), Node("file"), Node("special"), LinkTo(P(<<"real">>)),
                                      LinkTo(Outside), LinkTo(P(<<"gone">>))}
    @@ P(<<"alias">>)             :> {LinkTo(P(<<"bin">>)), LinkTo(Outside), LinkTo(P(<<"alias">>))}
    @@ P(<<"package.json">>)      :> {Node("none"), LinkTo(P(<<"real">>))}
    @@ P(<<"extra", "app", "real">>) :> {Node("none"), Node("file"), LinkTo(P(<<"extra">>))})

AppConfig(named, daemon, cli, service, extra) ==
    [named |-> named, daemon |-> daemon, cli |-> cli, service |-> service,
     strategy |-> "copy", workspaces |-> {}, extra |-> extra]

AppConfigs ==
    {AppConfig(named, <<"bin", "app">>, cli, TRUE, extra) :
        named \in {<<>>, << <<>> >>, << <<"alias">>, <<"real">> >>,
                   << <<"node_modules", "dep">>, <<"real">>, <<"bin">> >>},
        cli \in {<<>>, <<"real">>},
        extra \in {<<>>, <<"extra">>}}
    \cup {AppConfig(<< <<"bin">> >>, <<>>, <<>>, FALSE, <<"gone">>),
          AppConfig(<< <<"alias">>, <<"real">> >>, <<>>, <<>>, FALSE, <<"extra">>),
          AppConfig(<< <<"/", "real">> >>, <<"bin", "app">>, <<>>, FALSE, <<>>)}

(* Two workspace packages and what a dependency and they may link to. *)
WorkspaceTrees == Grown(
    {P(<<>>), P(<<"packages">>), P(<<"packages", "a">>), P(<<"packages", "b">>)},
    P(<<"app">>)                  :> {Node("script")}
    @@ P(<<"node_modules">>)      :> {Node("none"), Node("dir"), LinkTo(P(<<"packages", "a">>)),
                                      LinkTo(Outside)}
    @@ P(<<"packages", "a", "x">>) :> {Node("file"), LinkTo(P(<<"packages", "b">>)),
                                       LinkTo(P(<<"packages">>)), LinkTo(P(<<"app">>))}
    @@ P(<<"packages", "b", "y">>) :> {Node("none"), Node("file"), Node("special"),
                                       LinkTo(P(<<"packages", "a">>)),
                                       LinkTo(P(<<"packages", "b", "y">>))})

(* The dependency tree itself, where node_modules is a directory. *)
WithDependencies(t) ==
    IF P(<<"node_modules">>) \in DOMAIN t /\ t[P(<<"node_modules">>)] = Node("dir")
    THEN {P(<<"node_modules", "dep">>) :> dep @@ P(<<"node_modules", "lib">>) :> Node("file") @@ t :
             dep \in {Node("file"), Node("special"), LinkTo(P(<<"node_modules", "lib">>)),
                      LinkTo(P(<<"packages", "a">>)), LinkTo(P(<<"packages", "b">>)),
                      LinkTo(P(<<"app">>)), LinkTo(Outside), LinkTo(P(<<"gone">>))}}
    ELSE {t}

DependencyTrees == UNION {WithDependencies(t) : t \in WorkspaceTrees}

DependencyConfigs ==
    {[named |-> <<>>, daemon |-> <<"app">>, cli |-> <<>>, service |-> TRUE, strategy |-> strategy, workspaces |-> workspaces,
      extra |-> <<>>] :
        strategy \in {"copy", "npm-install"},
        workspaces \in {{}, { <<"packages", "a">> }, { <<"packages">> }, { <<>> },
                        { <<"packages", "a">>, <<"packages", "b">> }}}

(* An entry point linked to a program beside the named inputs. *)
LinkedTree ==
    {[p \in {P(<<>>), P(<<"bin">>), P(<<"bin", "app">>), P(<<"real">>)} |->
        CASE p = P(<<"bin", "app">>) -> LinkTo(P(<<"real">>))
          [] p = P(<<"real">>) -> Node("script")
          [] OTHER -> Node("dir")]}
LinkedConfig == {AppConfig(<< <<"bin">> >>, <<"bin", "app">>, <<>>, TRUE, <<>>)}

(* A program the application runs from a package that is installed below it. *)
InstalledTree ==
    {[p \in {P(<<>>), P(<<"bin">>), P(<<"bin", "app">>), P(<<"lib">>), P(<<"lib", "node_modules">>),
             P(<<"lib", "node_modules", "dep">>)} |->
        CASE p = P(<<"bin", "app">>) -> LinkTo(P(<<"lib", "node_modules", "dep">>))
          [] p = P(<<"lib", "node_modules", "dep">>) -> Node("script")
          [] OTHER -> Node("dir")]}
InstalledConfig == {AppConfig(<<>>, <<"bin", "app">>, <<>>, TRUE, <<>>)}

MCProjects == AppTrees \X AppConfigs \cup DependencyTrees \X DependencyConfigs
              \cup InstalledTree \X InstalledConfig
LinkedProject == LinkedTree \X LinkedConfig

MCName == {"/", "project", "outside", "gone", "package.json", "node_modules", "lib", "src", "bin",
           "index.js", "app", "real", "alias", "extra", "dep", "packages", "a", "b", "x", "y",
           "bin-link"}
MCProject == <<"project">>
MCApp == <<"app">>
MCBinLink == <<"bin-link">>
=============================================================================
