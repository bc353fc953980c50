------------------------------ MODULE Templates ------------------------------
(* The files a package generates: `{{ name }}` substitution and nothing else *)
(* (core/template.rs), the built-in templates, line by line where a line     *)
(* carries a value, and what reads the results: systemd and the shell.       *)
EXTENDS Text, TLC

OrNothing(config, key) == IF key \in DOMAIN config THEN config[key] ELSE <<>>

(* Variables::for_config: the vocabulary for a resolved configuration, with  *)
(* the version and the architecture in the spelling of the format.           *)
Variables(config, version, architecture) ==
    [package_name              |-> config.package_name,
     package_version           |-> version,
     package_description       |-> Synopsis(config.description),
     package_description_shell |-> ShellDoubleQuoted(Synopsis(config.description)),
     package_maintainer        |-> config.maintainer,
     package_maintainer_shell  |-> ShellDoubleQuoted(config.maintainer),
     package_dependencies      |-> [i \in DOMAIN config.dependencies |-> config.dependencies[i].name],
     package_architecture      |-> <<architecture>>,
     executable_name           |-> config.executable_name,
     install_dir               |-> config.install_dir,
     user                      |-> config.user,
     group                     |-> config.group,
     init                      |-> <<config.init>>,
     install_strategy          |-> <<config.install_strategy>>,
     install_binary            |-> config.install_binary,
     install_command           |-> config.install_command,
     no_rebuild                |-> <<"0">>,
     generator_version         |-> <<"generator">>,
     cli_entrypoint            |-> OrNothing(config, "cli"),
     daemon_entrypoint         |-> OrNothing(config, "daemon")]

-----------------------------------------------------------------------------
(* render *)

Rendered(text) == [error |-> "none", text |-> text]
Broken(why)    == [error |-> why, text |-> <<>>]
Then(text, rest) == IF rest.error = "none" THEN Rendered(text \o rest.text) ELSE rest

(* What is left from a position on; a placeholder left open, an empty one or *)
(* an unknown variable ends the rendering, a value is never scanned.         *)
Render(source, variables) ==
    LET rest[i \in 1..Len(source) + 1] ==
            IF i > Len(source) THEN Rendered(<<>>)
            ELSE IF source[i] # "{{" THEN Then(<<source[i]>>, rest[i + 1])
            ELSE LET closes   == {j \in i..Len(source) : source[j] = "}}"}
                     variable == Trimmed(SubSeq(source, i + 1, Min(closes) - 1))
                 IN  CASE closes = {}     -> Broken("unterminated placeholder")
                       [] variable = <<>> -> Broken("empty placeholder")
                       [] Len(variable) # 1 \/ variable[1] \notin DOMAIN variables ->
                              Broken("unknown variable")
                       [] OTHER -> Then(variables[variable[1]], rest[Min(closes) + 1])
    IN  rest[1]

-----------------------------------------------------------------------------
(* The built-in templates *)

Value(name) == <<"{{", " ", name, " ", "}}">>
Home        == Value("install_dir") \o <<"/">> \o Value("package_name")

SystemdService ==
    <<"Description=">> \o Value("package_description") \o <<"\n">>
    \o <<"# Wants= plus After=", "\n", "Wants=", "network-online.target", "\n",
         "After=", "network-online.target", "\n">>
    \o <<"User=">> \o Value("user") \o <<"\n", "Group=">> \o Value("group") \o <<"\n">>
    \o <<"WorkingDirectory=">> \o Home \o <<"\n">>
    \o <<"ExecStart=">> \o Home \o <<"/app/">> \o Value("daemon_entrypoint") \o <<"\n">>

SysvInit ==
    <<"# Description: ">> \o Value("package_description") \o <<"\n">>
    \o <<"SCRIPT=", "\"">> \o Home \o <<"/app/">> \o Value("daemon_entrypoint") \o <<"\"", "\n">>
    \o <<"USER=", "\"">> \o Value("user") \o <<"\"", "\n">>
    \o <<"DESCRIPTION=", "\"">> \o Value("package_description_shell") \o <<"\"", "\n">>

UpstartConf ==
    <<"description ", "\"">> \o Value("package_description_shell") \o <<"\"", "\n">>
    \o <<"author ", "\"">> \o Value("package_maintainer_shell") \o <<"\"", "\n">>
    \o <<"setuid ">> \o Value("user") \o <<"\n", "setgid ">> \o Value("group") \o <<"\n">>
    \o <<"chdir ">> \o Home \o <<"\n", "exec app/">> \o Value("daemon_entrypoint") \o <<"\n">>

BUILTIN ==
    ("executable"      :> (Home \o <<"/app/">> \o Value("cli_entrypoint") \o <<" ", "arguments", "\n">>))
    @@ ("default"         :> (<<"# ">> \o Value("package_name") \o <<"\n">>))
    @@ ("systemd.service" :> SystemdService)
    @@ ("sysv-init"       :> SysvInit)
    @@ ("upstart.conf"    :> UpstartConf)
    @@ ("tmpfiles.conf"   :> (<<"d ", "/var/log/">> \o Value("package_name") \o <<" ">>
                              \o Value("user") \o <<" ">> \o Value("group") \o <<"\n">>))

(* load: an override stands in for the built-in one, or fails.               *)
Load(name, overrides) ==
    IF name \in DOMAIN overrides THEN overrides[name] ELSE Rendered(BUILTIN[name])

(* run.rs generate: every service file of the package, rendered.             *)
Generate(files, overrides, variables) ==
    [name \in files |->
        LET source == Load(name, overrides)
        IN  IF source.error = "none" THEN Render(source.text, variables) ELSE source]

-----------------------------------------------------------------------------
(* The readers *)

Starts(line, token) == line # <<>> /\ Head(line) = token

(* systemd: a backslash at the end of a line joins the next one to it, a     *)
(* comment between them left out.                                            *)
UnitLines(text) ==
    LET comment(line) == line # <<>> /\ Head(line) = "# Wants= plus After="
        joined(lines, line) ==
            IF lines # <<>> /\ Last(lines) # <<>> /\ Last(Last(lines)) = "\\"
            THEN IF comment(line) THEN lines
                 ELSE [lines EXCEPT ![Len(lines)] = Front(@) \o <<" ">> \o line]
            ELSE IF comment(line) THEN lines ELSE Append(lines, line)
    IN  FoldLeft(joined, <<>>, Lines(text))

(* The shell, inside double quotes: what is left of a string that closes at  *)
(* its end; anything else would be expanded, or go on past the line.         *)
Unquoted(inside) ==
    LET read(state, token) ==
            CASE state.escaped                -> [state EXCEPT !.escaped = FALSE,
                                                               !.text = Append(@, token)]
              [] token = "\\"                 -> [state EXCEPT !.escaped = TRUE]
              [] token \in ShellActive \ {"\\"} -> [state EXCEPT !.active = TRUE]
              [] OTHER                        -> [state EXCEPT !.text = Append(@, token)]
    IN  FoldLeft(read, [escaped |-> FALSE, active |-> FALSE, text |-> <<>>], inside)

(* The value of an assignment NAME="..." in a generated script.              *)
ShellValue(text, name) ==
    LET line == SelectSeq(Lines(text), LAMBDA l : Starts(l, name))[1]
    IN  Unquoted(SubSeq(line, 3, Len(line) - 1))
=============================================================================
