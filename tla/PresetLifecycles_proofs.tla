---------------------- MODULE PresetLifecycles_proofs ----------------------
(* What PresetLifecycles promises, for any versions, builds, known init      *)
(* systems of the rpm machines, administrator and policy: an invariant of    *)
(* every operation of rpm, another of every operation of pacman, step by     *)
(* step, and what follows from the two of a machine of either family.        *)
EXTENDS PresetLifecycles, Administrator_proofs

-----------------------------------------------------------------------------
(* RPM                                                                       *)

(* The steps, in the order in which they come in any operation.              *)
NewDoings == {"pre-account", "post-npm-install", "post-logdir", "post-systemd", "post-sysv"}
OldDoings == {"preun-systemd", "preun-sysv", "postun-systemd", "postun-purge"}
RpmDoings == NewDoings \cup OldDoings \cup RpmSteps
RpmRank == [d \in RpmDoings |->
    CASE d = "pre-account" -> 1 [] d = "unpack" -> 2 [] d = "post-npm-install" -> 3
      [] d = "post-logdir" -> 4 [] d = "post-systemd" -> 5 [] d = "post-sysv" -> 6
      [] d = "preun-systemd" -> 7 [] d = "preun-sysv" -> 8 [] d = "delete" -> 9
      [] d = "postun-systemd" -> 10 [] d = "postun-purge" -> 11 [] d = "database" -> 12]

RpmStepSet == [do : RpmDoings, count : 0..2, version : Version \cup {None}]

-----------------------------------------------------------------------------
(* The inductive invariant.                                                  *)

RpmStill(d) == d \in Ahead(todo)
RpmRemoval == installed # None /\ (RpmStill("delete") \/ host.files = None)

(* An operation's steps come in a fixed order and end with the database,     *)
(* which then says what the other steps did; the new version's scriptlets    *)
(* learn whether there was one before, the old one's whether one stays.      *)
RpmShape ==
    /\ todo \in Seq(RpmStepSet)
    /\ InOrder(todo, RpmRank)
    /\ todo # <<>> => RpmStill("database")
    /\ \A i \in DOMAIN todo :
          /\ todo[i].do \in NewDoings => todo[i].count = IF installed = None THEN 1 ELSE 2
          /\ todo[i].do \in OldDoings => todo[i].count = IF RpmRemoval THEN 0 ELSE 1
          /\ todo[i].do = "unpack" => todo[i].version \in Version
          /\ todo[i].do = "database" =>
                /\ \A j \in DOMAIN todo : todo[j].do = "unpack" => todo[j].version = todo[i].version
                /\ RpmStill("delete") => todo[i].version = None
                /\ ~RpmStill("unpack") /\ ~RpmStill("delete") => todo[i].version = host.files

(* The record lags behind the files only between the two.                    *)
RpmRecord ==
    /\ todo = <<>> \/ RpmStill("unpack") \/ RpmStill("delete") => installed = host.files
    /\ RpmStill("delete") => installed # None /\ ~RpmStill("unpack")
    /\ todo # <<>> /\ installed = None /\ ~RpmStill("unpack") => host.files # None
    /\ host.files # None => host.init = built[host.files]
    /\ host.os # "systemd" => ~host.enabled

(* Before the first installation is done no decision stands, and afterwards  *)
(* none is overruled.                                                        *)
RpmDecided ==
    /\ installed = None => admin = NoDecision
    /\ admin.disabled => IF host.os = "systemd" THEN ~host.enabled ELSE host.rc # "on"
    /\ admin.off => host.running = None

(* What the packages ship.                                                   *)
WithService == \A v \in Version : built[v] # "none"
WithoutService == \A v \in Version : built[v] = "none"
RpmWithUnit == \A v \in Version : Uses("systemd", built[v])
RpmWithoutUnit == \A v \in Version : ~Uses("systemd", built[v])
WithScript == \A v \in Version : Uses("sysv", built[v])
WithoutScript == \A v \in Version : ~Uses("sysv", built[v])

(* The account is there with the files, and gone after them.                 *)
Account ==
    /\ host.files # None => host.account
    /\ RpmStill("unpack") /\ ~RpmStill("pre-account") => host.account
    /\ RpmStill("delete") => RpmStill("postun-purge")
    /\ todo = <<>> /\ installed = None => ~host.account
    /\ RpmRemoval /\ ~RpmStill("postun-purge") => ~host.account
NoAccount == ~host.account /\ ~RpmStill("pre-account")

(* So are the runlevel links, and what the script started.                   *)
Links ==
    /\ (todo = <<>> /\ installed = None) \/ (RpmRemoval /\ ~RpmStill("preun-sysv")) =>
          host.rc = "none" /\ (host.os = "sysv" => host.running = None)
NoLinks ==
    host.rc = "none" /\ ~RpmStill("post-sysv") /\ (host.os = "sysv" => host.running = None)

(* Under systemd: what is still to be done for a step that was done,         *)
RpmPending ==
    /\ RpmStill("unpack") =>
          /\ RpmStill("post-logdir") /\ RpmStill("post-systemd")
          /\ installed # None => RpmStill("postun-systemd")
    /\ host.files # None /\ RpmStill("post-systemd") /\ installed # None => RpmStill("postun-systemd")

(* what the unit needs is there, what was replaced is not in use,            *)
RpmReady ==
    /\ host.files # None /\ (installed # None \/ ~RpmStill("post-logdir")) => host.logdir
    /\ host.files # None /\ ~RpmStill("post-systemd") => host.loaded = host.files
    /\ host.files # None /\ ~RpmStill("postun-systemd") => host.running \in {None, host.files}
    /\ MaskedIsDown(host)

(* before the first start nothing runs or is enabled, nor after a removal,   *)
RpmClean ==
    /\ installed = None /\ RpmStill("post-systemd") => host.running = None /\ ~host.enabled
    /\ RpmRemoval /\ ~RpmStill("preun-systemd") => host.running = None /\ ~host.enabled
    /\ host.files = None => host.running = None /\ ~host.enabled

(* and an enabled service runs unless somebody stopped it, as long as nobody *)
(* takes away its defaults file.                                             *)
RpmRuns ==
    /\ host.defaults = IF host.files = None THEN "never" ELSE "present"
    /\ UpOrStopped(host, admin)

Down == host.running = None /\ ~host.enabled

RpmInv ==
    /\ RpmTypeOK /\ RpmShape /\ RpmRecord /\ RpmDecided /\ host.os \in Systems
    /\ WithService => Account
    /\ WithoutService => NoAccount
    /\ WithScript => Links
    /\ WithoutScript => NoLinks
    /\ host.os = "systemd" =>
          /\ RpmWithoutUnit => Down
          /\ RpmWithUnit => RpmPending /\ RpmReady /\ RpmClean
          /\ RpmWithUnit /\ "delete-defaults" \notin AdminActs => RpmRuns

-----------------------------------------------------------------------------
(* The scriptlets.                                                           *)

(* The rank of each step.                                                    *)
LEMMA RpmRankValues ==
    /\ RpmRank \in [RpmDoings -> Nat]
    /\ RpmRank["pre-account"] = 1 /\ RpmRank["unpack"] = 2 /\ RpmRank["post-npm-install"] = 3
    /\ RpmRank["post-logdir"] = 4 /\ RpmRank["post-systemd"] = 5 /\ RpmRank["post-sysv"] = 6
    /\ RpmRank["preun-systemd"] = 7 /\ RpmRank["preun-sysv"] = 8 /\ RpmRank["delete"] = 9
    /\ RpmRank["postun-systemd"] = 10 /\ RpmRank["postun-purge"] = 11 /\ RpmRank["database"] = 12
  BY DEF RpmRank, RpmDoings, NewDoings, OldDoings, RpmSteps

(* What each scriptlet does for a package with that `init`.                  *)
IfSo(c, acts) == IF c THEN acts ELSE {}
PreActs(init)    == IfSo(init # "none", {"pre-account"})
PostActs(init)   == {"post-npm-install"} \cup IfSo(init # "none", {"post-logdir"})
                    \cup IfSo(Uses("systemd", init), {"post-systemd"})
                    \cup IfSo(Uses("sysv", init), {"post-sysv"})
PreunActs(init)  == IfSo(Uses("systemd", init), {"preun-systemd"})
                    \cup IfSo(Uses("sysv", init), {"preun-sysv"})
PostunActs(init) == IfSo(Uses("systemd", init), {"postun-systemd"})
                    \cup IfSo(init # "none", {"postun-purge"})

(* A snippet that is there on a condition.                                   *)
LEMMA OneSnippet ==
    ASSUME NEW d \in RpmDoings, NEW c \in BOOLEAN
    PROVE  Script(If(c, <<d>>), RpmDoings, IfSo(c, {d}), RpmRank)
<1>1. Script(<<d>>, RpmDoings, {d}, RpmRank)
  BY DEF Script, NamesOf, Ascending
<1> QED
  BY <1>1, IfScript DEF IfSo

(* Each scriptlet is a script of those snippets, in the order of their ranks.*)
LEMMA Scriptlets ==
    ASSUME NEW init \in InitSystem
    PROVE  /\ Script(RpmPre(init), RpmDoings, PreActs(init), RpmRank)
           /\ Script(RpmPost(init, "npm-install"), RpmDoings, PostActs(init), RpmRank)
           /\ Script(RpmPreun(init), RpmDoings, PreunActs(init), RpmRank)
           /\ Script(RpmPostun(init), RpmDoings, PostunActs(init), RpmRank)
<1> DEFINE service == init # "none"
           unit == Uses("systemd", init)
           script == Uses("sysv", init)
           a == If(TRUE, <<"post-npm-install">>)
           b == If(service, <<"post-logdir">>)
           c == If(unit, <<"post-systemd">>)
           d == If(script, <<"post-sysv">>)
<1>1. service \in BOOLEAN /\ unit \in BOOLEAN /\ script \in BOOLEAN
  BY DEF Uses
<1>2. RpmPost(init, "npm-install") = a \o b \o c \o d
  BY DEF RpmPost, ServiceOnly, RpmUsesPreset, Uses
<1>3. RpmPre(init) = If(service, <<"pre-account">>)
      /\ RpmPreun(init) = If(unit, <<"preun-systemd">>) \o If(script, <<"preun-sysv">>)
      /\ RpmPostun(init) = If(unit, <<"postun-systemd">>) \o If(service, <<"postun-purge">>)
  BY DEF RpmPre, RpmPreun, RpmPostun, ServiceOnly
<1>4. /\ PreActs(init) = IfSo(service, {"pre-account"})
      /\ PostActs(init) = {"post-npm-install"} \cup IfSo(service, {"post-logdir"})
                          \cup IfSo(unit, {"post-systemd"}) \cup IfSo(script, {"post-sysv"})
      /\ PreunActs(init) = IfSo(unit, {"preun-systemd"}) \cup IfSo(script, {"preun-sysv"})
      /\ PostunActs(init) = IfSo(unit, {"postun-systemd"}) \cup IfSo(service, {"postun-purge"})
  BY DEF PreActs, PostActs, PreunActs, PostunActs
<1> HIDE DEF service, unit, script
<1>5. /\ Script(a, RpmDoings, {"post-npm-install"}, RpmRank)
      /\ Script(b, RpmDoings, IfSo(service, {"post-logdir"}), RpmRank)
      /\ Script(c, RpmDoings, IfSo(unit, {"post-systemd"}), RpmRank)
      /\ Script(d, RpmDoings, IfSo(script, {"post-sysv"}), RpmRank)
  BY <1>1, OneSnippet DEF RpmDoings, NewDoings, IfSo
<1>6. /\ Script(If(service, <<"pre-account">>), RpmDoings, IfSo(service, {"pre-account"}), RpmRank)
      /\ Script(If(unit, <<"preun-systemd">>), RpmDoings, IfSo(unit, {"preun-systemd"}), RpmRank)
      /\ Script(If(script, <<"preun-sysv">>), RpmDoings, IfSo(script, {"preun-sysv"}), RpmRank)
      /\ Script(If(unit, <<"postun-systemd">>), RpmDoings, IfSo(unit, {"postun-systemd"}), RpmRank)
      /\ Script(If(service, <<"postun-purge">>), RpmDoings, IfSo(service, {"postun-purge"}), RpmRank)
  BY <1>1, OneSnippet DEF RpmDoings, NewDoings, OldDoings
<1> HIDE DEF a, b, c, d
<1> DEFINE bs == IfSo(service, {"post-logdir"})
           cs == IfSo(unit, {"post-systemd"})
           ds == IfSo(script, {"post-sysv"})
           us == IfSo(unit, {"preun-systemd"})
           ss == IfSo(script, {"preun-sysv"})
           ps == IfSo(unit, {"postun-systemd"})
           qs == IfSo(service, {"postun-purge"})
<1>7. /\ bs \subseteq {"post-logdir"} /\ cs \subseteq {"post-systemd"} /\ ds \subseteq {"post-sysv"}
      /\ us \subseteq {"preun-systemd"} /\ ss \subseteq {"preun-sysv"}
      /\ ps \subseteq {"postun-systemd"} /\ qs \subseteq {"postun-purge"}
  BY DEF IfSo
<1> HIDE DEF bs, cs, ds, us, ss, ps, qs
<1>8. Script(a \o b, RpmDoings, {"post-npm-install"} \cup bs, RpmRank)
  <2>1. \A x \in {"post-npm-install"} : \A y \in bs : RpmRank[x] < RpmRank[y]
    BY <1>7, RpmRankValues
  <2> QED
    BY <1>5, <2>1, ConcatScripts DEF bs
<1>9. Script(a \o b \o c, RpmDoings, {"post-npm-install"} \cup bs \cup cs, RpmRank)
  <2>1. \A x \in {"post-npm-install"} \cup bs : \A y \in cs : RpmRank[x] < RpmRank[y]
    BY <1>7, RpmRankValues
  <2> QED
    BY <1>5, <1>8, <2>1, ConcatScripts DEF cs
<1>10. Script(a \o b \o c \o d, RpmDoings, {"post-npm-install"} \cup bs \cup cs \cup ds, RpmRank)
  <2>1. \A x \in {"post-npm-install"} \cup bs \cup cs : \A y \in ds : RpmRank[x] < RpmRank[y]
    BY <1>7, RpmRankValues
  <2> QED
    BY <1>5, <1>9, <2>1, ConcatScripts DEF ds
<1>11. Script(RpmPreun(init), RpmDoings, us \cup ss, RpmRank)
  <2>1. \A x \in us : \A y \in ss : RpmRank[x] < RpmRank[y]
    BY <1>7, RpmRankValues
  <2>2. Script(If(unit, <<"preun-systemd">>), RpmDoings, us, RpmRank)
        /\ Script(If(script, <<"preun-sysv">>), RpmDoings, ss, RpmRank)
    BY <1>6 DEF us, ss
  <2>3. Script(If(unit, <<"preun-systemd">>) \o If(script, <<"preun-sysv">>),
               RpmDoings, us \cup ss, RpmRank)
    BY <2>1, <2>2, ConcatScripts
  <2> QED
    BY <1>3, <2>3
<1>12. Script(RpmPostun(init), RpmDoings, ps \cup qs, RpmRank)
  <2>1. \A x \in ps : \A y \in qs : RpmRank[x] < RpmRank[y]
    BY <1>7, RpmRankValues
  <2>2. /\ Script(If(unit, <<"postun-systemd">>), RpmDoings, ps, RpmRank)
        /\ Script(If(service, <<"postun-purge">>), RpmDoings, qs, RpmRank)
    BY <1>6 DEF ps, qs
  <2>3. Script(If(unit, <<"postun-systemd">>) \o If(service, <<"postun-purge">>),
               RpmDoings, ps \cup qs, RpmRank)
    BY <2>1, <2>2, ConcatScripts
  <2> QED
    BY <1>3, <2>3
<1> QED
  BY <1>2, <1>3, <1>4, <1>6, <1>10, <1>11, <1>12 DEF bs, cs, ds, us, ss, ps, qs

(* The ranks and kinds of what each scriptlet does.                          *)
LEMMA ActRanks ==
    ASSUME NEW init
    PROVE  /\ PreActs(init) \subseteq {"pre-account"}
           /\ PostActs(init) \subseteq NewDoings \ {"pre-account"}
           /\ PreunActs(init) \subseteq {"preun-systemd", "preun-sysv"}
           /\ PostunActs(init) \subseteq {"postun-systemd", "postun-purge"}
           /\ \A d \in PostActs(init) : 3 <= RpmRank[d] /\ RpmRank[d] <= 6
           /\ \A d \in PreunActs(init) : 7 <= RpmRank[d] /\ RpmRank[d] <= 8
           /\ \A d \in PostunActs(init) : 10 <= RpmRank[d] /\ RpmRank[d] <= 11
  BY RpmRankValues DEF PreActs, PostActs, PreunActs, PostunActs, IfSo, NewDoings

-----------------------------------------------------------------------------
(* The steps of the operations.                                              *)

(* The new version's scriptlets with one argument, the old one's with        *)
(* another, and a version to put in place and on record.                     *)
Fit(new, old, v) ==
    {s \in RpmStepSet : /\ s.do \in NewDoings => s.count = new
                        /\ s.do \in OldDoings => s.count = old
                        /\ s.do \in {"unpack", "database"} => s.version = v}

(* A scriptlet's steps are those of its script.                              *)
LEMMA ScriptletSteps ==
    ASSUME NEW v, NEW script, NEW acts, Script(script, RpmDoings, acts, RpmRank), NEW count,
           NEW S, \A d \in acts : RpmStep(d, count, v) \in S
    PROVE  Plan(Scriptlet(script, count, v), S, acts, RpmRank)
<1>1. Scriptlet(script, count, v) \in [DOMAIN script -> S]
  BY DEF Scriptlet, Script, NamesOf
<1>2. \A i \in DOMAIN script : Scriptlet(script, count, v)[i].do = script[i]
  BY DEF Scriptlet, RpmStep
<1> QED
  BY <1>1, <1>2, ScriptSteps

(* So is a step of rpm's own.                                                *)
LEMMA RpmKeepsStructure ==
    ASSUME NEW do, NEW v, NEW S, RpmStep(do, 0, v) \in S
    PROVE  Plan(Rpm(do, v), S, {do}, RpmRank)
  BY DEF Rpm, RpmStep, Ahead, InOrder, Plan

(* Putting the first version in place.                                       *)
LEMMA RpmInstallBegins ==
    ASSUME RpmTypeOK, NEW v \in Version, RpmInstall(v)
    PROVE  /\ Plan(todo', Fit(1, 1, v),
                   PreActs(built[v]) \cup {"unpack"} \cup PostActs(built[v]) \cup {"database"}, RpmRank)
           /\ Idle /\ installed = None /\ UNCHANGED <<built, policy, installed, host, admin>>
<1> DEFINE S == Fit(1, 1, v)
           pre == Pre(v, 1)
           post == Post(v, 1)
           A == PreActs(built[v])
           B == PostActs(built[v])
<1>1. built[v] \in InitSystem
  BY BuildsAssumption DEF RpmTypeOK, MachineOK
<1>2. /\ \A d \in NewDoings : RpmStep(d, 1, v) \in S
      /\ RpmStep("unpack", 0, v) \in S /\ RpmStep("database", 0, v) \in S
  BY DEF RpmStep, Fit, RpmStepSet, RpmDoings, NewDoings, OldDoings, RpmSteps
<1>3. A \subseteq {"pre-account"} /\ B \subseteq NewDoings \ {"pre-account"}
      /\ \A d \in B : 3 <= RpmRank[d] /\ RpmRank[d] <= 6
  BY ActRanks
<1> HIDE DEF S
<1>4. Plan(pre, S, A, RpmRank)
  BY <1>1, <1>2, <1>3, Scriptlets, ScriptletSteps DEF Pre, NewDoings
<1>5. Plan(post, S, B, RpmRank)
  BY <1>1, <1>2, <1>3, Scriptlets, ScriptletSteps DEF Post
<1>6. Plan(Rpm("unpack", v), S, {"unpack"}, RpmRank) /\ Plan(Rpm("database", v), S, {"database"}, RpmRank)
  BY <1>2, RpmKeepsStructure
<1> HIDE DEF pre, post, A, B
<1>7. Plan(pre \o Rpm("unpack", v), S, A \cup {"unpack"}, RpmRank)
  <2>1. \A d \in A : \A e \in {"unpack"} : RpmRank[d] < RpmRank[e]
    BY <1>3, RpmRankValues
  <2> QED
    BY <1>4, <1>6, <2>1, ConcatPlans
<1>8. Plan(pre \o Rpm("unpack", v) \o post, S, A \cup {"unpack"} \cup B, RpmRank)
  <2>1. \A d \in A \cup {"unpack"} : \A e \in B : RpmRank[d] < RpmRank[e]
    BY <1>3, RpmRankValues DEF RpmDoings
  <2> QED
    BY <1>5, <1>7, <2>1, ConcatPlans
<1>9. Plan(pre \o Rpm("unpack", v) \o post \o Rpm("database", v), S,
           A \cup {"unpack"} \cup B \cup {"database"}, RpmRank)
  <2>1. \A d \in A \cup {"unpack"} \cup B : \A e \in {"database"} : RpmRank[d] < RpmRank[e]
    BY <1>3, RpmRankValues DEF RpmDoings
  <2> QED
    BY <1>6, <1>8, <2>1, ConcatPlans
<1> QED
  BY <1>9 DEF RpmInstall, Begin, pre, post, A, B, S

(* Putting another in its place, and then the old one's scriptlets.          *)
LEMMA RpmUpgradeBegins ==
    ASSUME RpmTypeOK, NEW v \in Version, RpmUpgrade(v)
    PROVE  /\ Plan(todo', Fit(2, 1, v),
                   PreActs(built[v]) \cup {"unpack"} \cup PostActs(built[v])
                   \cup PreunActs(built[installed]) \cup PostunActs(built[installed])
                   \cup {"database"}, RpmRank)
           /\ Idle /\ installed \in Version \ {v}
           /\ UNCHANGED <<built, policy, installed, host, admin>>
<1> DEFINE S == Fit(2, 1, v)
           pre == Pre(v, 2)
           post == Post(v, 2)
           preun == Preun(installed, 1)
           postun == Postun(installed, 1)
           A == PreActs(built[v])
           B == PostActs(built[v])
           C == PreunActs(built[installed])
           D == PostunActs(built[installed])
<1>1. built[v] \in InitSystem /\ built[installed] \in InitSystem /\ installed \in Version
  BY BuildsAssumption DEF RpmTypeOK, MachineOK, RpmUpgrade
<1>2. /\ \A d \in NewDoings : RpmStep(d, 2, v) \in S
      /\ \A d \in OldDoings : RpmStep(d, 1, installed) \in S
      /\ RpmStep("unpack", 0, v) \in S /\ RpmStep("database", 0, v) \in S
  BY <1>1 DEF RpmStep, Fit, RpmStepSet, RpmDoings, NewDoings, OldDoings, RpmSteps
<1>3. /\ A \subseteq {"pre-account"} /\ B \subseteq NewDoings \ {"pre-account"}
      /\ C \subseteq {"preun-systemd", "preun-sysv"} /\ D \subseteq {"postun-systemd", "postun-purge"}
      /\ \A d \in B : 3 <= RpmRank[d] /\ RpmRank[d] <= 6
      /\ \A d \in C : 7 <= RpmRank[d] /\ RpmRank[d] <= 8
      /\ \A d \in D : 10 <= RpmRank[d] /\ RpmRank[d] <= 11
  BY ActRanks
<1> HIDE DEF S
<1>4. Plan(pre, S, A, RpmRank)
  BY <1>1, <1>2, <1>3, Scriptlets, ScriptletSteps DEF Pre, NewDoings
<1>5. Plan(post, S, B, RpmRank)
  BY <1>1, <1>2, <1>3, Scriptlets, ScriptletSteps DEF Post
<1>6. Plan(preun, S, C, RpmRank)
  BY <1>1, <1>2, <1>3, Scriptlets, ScriptletSteps DEF Preun, OldDoings
<1>7. Plan(postun, S, D, RpmRank)
  BY <1>1, <1>2, <1>3, Scriptlets, ScriptletSteps DEF Postun, OldDoings
<1>8. Plan(Rpm("unpack", v), S, {"unpack"}, RpmRank) /\ Plan(Rpm("database", v), S, {"database"}, RpmRank)
  BY <1>2, RpmKeepsStructure
<1> HIDE DEF pre, post, preun, postun, A, B, C, D
<1>9. Plan(pre \o Rpm("unpack", v), S, A \cup {"unpack"}, RpmRank)
  <2>1. \A d \in A : \A e \in {"unpack"} : RpmRank[d] < RpmRank[e]
    BY <1>3, RpmRankValues
  <2> QED
    BY <1>4, <1>8, <2>1, ConcatPlans
<1>10. Plan(pre \o Rpm("unpack", v) \o post, S, A \cup {"unpack"} \cup B, RpmRank)
  <2>1. \A d \in A \cup {"unpack"} : \A e \in B : RpmRank[d] < RpmRank[e]
    BY <1>3, RpmRankValues DEF RpmDoings
  <2> QED
    BY <1>5, <1>9, <2>1, ConcatPlans
<1>11. Plan(pre \o Rpm("unpack", v) \o post \o preun, S, A \cup {"unpack"} \cup B \cup C, RpmRank)
  <2>1. \A d \in A \cup {"unpack"} \cup B : \A e \in C : RpmRank[d] < RpmRank[e]
    BY <1>3, RpmRankValues DEF RpmDoings
  <2> QED
    BY <1>6, <1>10, <2>1, ConcatPlans
<1>12. Plan(pre \o Rpm("unpack", v) \o post \o preun \o postun, S,
            A \cup {"unpack"} \cup B \cup C \cup D, RpmRank)
  <2>1. \A d \in A \cup {"unpack"} \cup B \cup C : \A e \in D : RpmRank[d] < RpmRank[e]
    BY <1>3, RpmRankValues DEF RpmDoings
  <2> QED
    BY <1>7, <1>11, <2>1, ConcatPlans
<1>13. Plan(pre \o Rpm("unpack", v) \o post \o preun \o postun \o Rpm("database", v), S,
            A \cup {"unpack"} \cup B \cup C \cup D \cup {"database"}, RpmRank)
  <2>1. \A d \in A \cup {"unpack"} \cup B \cup C \cup D : \A e \in {"database"} : RpmRank[d] < RpmRank[e]
    BY <1>3, RpmRankValues DEF RpmDoings
  <2> QED
    BY <1>8, <1>12, <2>1, ConcatPlans
<1> QED
  BY <1>13 DEF RpmUpgrade, Begin, pre, post, preun, postun, A, B, C, D, S

(* Taking the last one away.                                                 *)
LEMMA EraseBegins ==
    ASSUME RpmTypeOK, RpmErase
    PROVE  /\ Plan(todo', Fit(2, 0, None),
                   PreunActs(built[installed]) \cup {"delete"} \cup PostunActs(built[installed])
                   \cup {"database"}, RpmRank)
           /\ Idle /\ installed \in Version
           /\ UNCHANGED <<built, policy, installed, host, admin>>
<1> DEFINE S == Fit(2, 0, None)
           preun == Preun(installed, 0)
           postun == Postun(installed, 0)
           C == PreunActs(built[installed])
           D == PostunActs(built[installed])
<1>1. built[installed] \in InitSystem /\ installed \in Version
  BY BuildsAssumption DEF RpmTypeOK, MachineOK, RpmErase
<1>2. /\ \A d \in OldDoings : RpmStep(d, 0, installed) \in S
      /\ RpmStep("delete", 0, installed) \in S /\ RpmStep("database", 0, None) \in S
  BY <1>1 DEF RpmStep, Fit, RpmStepSet, RpmDoings, NewDoings, OldDoings, RpmSteps
<1>3. /\ C \subseteq {"preun-systemd", "preun-sysv"} /\ D \subseteq {"postun-systemd", "postun-purge"}
      /\ \A d \in C : 7 <= RpmRank[d] /\ RpmRank[d] <= 8
      /\ \A d \in D : 10 <= RpmRank[d] /\ RpmRank[d] <= 11
  BY ActRanks
<1> HIDE DEF S
<1>4. Plan(preun, S, C, RpmRank)
  BY <1>1, <1>2, <1>3, Scriptlets, ScriptletSteps DEF Preun, OldDoings
<1>5. Plan(postun, S, D, RpmRank)
  BY <1>1, <1>2, <1>3, Scriptlets, ScriptletSteps DEF Postun, OldDoings
<1>6. /\ Plan(Rpm("delete", installed), S, {"delete"}, RpmRank)
      /\ Plan(Rpm("database", None), S, {"database"}, RpmRank)
  BY <1>2, RpmKeepsStructure
<1> HIDE DEF preun, postun, C, D
<1>7. Plan(preun \o Rpm("delete", installed), S, C \cup {"delete"}, RpmRank)
  <2>1. \A d \in C : \A e \in {"delete"} : RpmRank[d] < RpmRank[e]
    BY <1>3, RpmRankValues DEF RpmDoings
  <2> QED
    BY <1>4, <1>6, <2>1, ConcatPlans
<1>8. Plan(preun \o Rpm("delete", installed) \o postun, S, C \cup {"delete"} \cup D, RpmRank)
  <2>1. \A d \in C \cup {"delete"} : \A e \in D : RpmRank[d] < RpmRank[e]
    BY <1>3, RpmRankValues DEF RpmDoings
  <2> QED
    BY <1>5, <1>7, <2>1, ConcatPlans
<1>9. Plan(preun \o Rpm("delete", installed) \o postun \o Rpm("database", None), S,
           C \cup {"delete"} \cup D \cup {"database"}, RpmRank)
  <2>1. \A d \in C \cup {"delete"} \cup D : \A e \in {"database"} : RpmRank[d] < RpmRank[e]
    BY <1>3, RpmRankValues DEF RpmDoings
  <2> QED
    BY <1>6, <1>8, <2>1, ConcatPlans
<1> QED
  BY <1>1, <1>9 DEF RpmErase, Begin, preun, postun, C, D, S

-----------------------------------------------------------------------------
(* The snippets.                                                             *)

(* The package's files, the mask and the defaults file are not a snippet's.  *)
SameFiles(k, h) ==
    /\ k.os = h.os /\ k.files = h.files /\ k.init = h.init
    /\ k.mask = h.mask /\ k.defaults = h.defaults

(* Reading the units anew.                                                   *)
LEMMA ReloadChanges ==
    ASSUME NEW h \in Host, NEW k, k = Reload(h)
    PROVE  /\ k \in Host /\ SameBeside(k, h) /\ k.logdir = h.logdir /\ k.running = h.running
           /\ (HasUnit(k) <=> HasUnit(h))
           /\ h.os = "systemd" /\ HasUnit(h) => k.loaded = h.files
<1>1. /\ k \in Host /\ SameBeside(k, h) /\ k.logdir = h.logdir /\ k.running = h.running
      /\ h.os = "systemd" /\ HasUnit(h) => k.loaded = h.files
  BY Commands DEF Reload, Host, SameBeside
<1> QED
  BY <1>1, SameUnit

(* %post's part for systemd, on a first installation: the unit is read, the  *)
(* presets applied and the service started.                                  *)
LEMMA PostSystemdChanges ==
    ASSUME NEW h \in Host, NEW count, NEW k, k = PostSystemd(h, count)
    PROVE  /\ k \in Host /\ SameFiles(k, h)
           /\ k.account = h.account /\ k.rc = h.rc /\ k.logdir = h.logdir
           /\ h.os = "systemd" /\ HasUnit(h) => k.loaded = h.files /\ k.running \in {h.running, h.files}
           /\ k.enabled # h.enabled =>
                 /\ count = 1 /\ h.os = "systemd" /\ HasUnit(h) /\ h.mask = "none"
                 /\ k.enabled => policy = "none"
           /\ k.running # h.running =>
                 count = 1 /\ h.os = "systemd" /\ HasUnit(h) /\ h.mask = "none" /\ h.running = None
           /\ count = 1 /\ h.os = "systemd" /\ h.mask = "none" /\ Equipped(h) => k.running # None
<1> DEFINE l == Reload(h)
           e == policy = "none" /\ RpmUsesPreset(l.init)
           p == Preset(l, policy, RpmUsesPreset(l.init))
<1>1. /\ l \in Host /\ SameBeside(l, h) /\ l.logdir = h.logdir /\ l.running = h.running
      /\ (HasUnit(l) <=> HasUnit(h))
      /\ h.os = "systemd" /\ HasUnit(h) => l.loaded = h.files
  BY ReloadChanges
<1>2. k = IF count = 1 /\ h.os = "systemd" THEN StartUnit(Preset(l, policy, RpmUsesPreset(h.init)))
          ELSE l
  BY DEF PostSystemd
<1>3. h.init = l.init
  BY <1>1 DEF SameBeside
<1>4. e \in BOOLEAN /\ p \in Host
  <2>1. RpmUsesPreset(l.init) \in BOOLEAN
    BY DEF RpmUsesPreset
  <2> HIDE DEF l
  <2> QED
    BY <1>1, <2>1, Commands
<1>5. p = IF HasUnit(l) /\ l.mask = "none" THEN [l EXCEPT !.enabled = e] ELSE l
  BY DEF Preset
<1>6. e => policy = "none"
  OBVIOUS
<1> HIDE DEF l, e, p
<1>7. /\ p.os = l.os /\ p.files = l.files /\ p.init = l.init /\ p.mask = l.mask
      /\ p.defaults = l.defaults /\ p.account = l.account /\ p.rc = l.rc /\ p.logdir = l.logdir
      /\ p.loaded = l.loaded /\ p.running = l.running
      /\ p.enabled # l.enabled => HasUnit(l) /\ l.mask = "none" /\ (p.enabled => e)
  BY <1>1, <1>4, <1>5 DEF Host
<1>8. HasUnit(p) <=> HasUnit(l)
  BY <1>7 DEF HasUnit, Ships
<1>9. CASE count = 1 /\ h.os = "systemd"
  <2>1. k = StartUnit(p)
    BY <1>2, <1>3, <1>9 DEF p
  <2>2. /\ k \in Host /\ SameBeside(k, p) /\ k.logdir = p.logdir
        /\ k.running # p.running => p.running = None /\ p.mask = "none" /\ HasUnit(p)
        /\ p.loaded = p.files => k.loaded = p.files /\ k.running \in {p.running, p.files}
        /\ p.running = None /\ p.mask = "none" /\ Equipped(p) => k.running # None
    BY <1>4, <2>1, StartUnitChanges
  <2>3. SameFiles(k, h) /\ k.account = h.account /\ k.rc = h.rc /\ k.logdir = h.logdir
    BY <1>1, <1>7, <2>2 DEF SameBeside, SameFiles
  <2>4. HasUnit(h) => k.loaded = h.files /\ k.running \in {h.running, h.files}
    BY <1>1, <1>7, <1>9, <2>2 DEF SameBeside
  <2>5. k.enabled # h.enabled => HasUnit(h) /\ h.mask = "none" /\ (k.enabled => policy = "none")
    BY <1>1, <1>6, <1>7, <2>2 DEF SameBeside
  <2>6. k.running # h.running => HasUnit(h) /\ h.mask = "none" /\ h.running = None
    BY <1>1, <1>7, <1>8, <2>2 DEF SameBeside
  <2>7. h.mask = "none" /\ Equipped(h) => k.running # None
    BY <1>1, <1>7, <1>8, <2>2 DEF SameBeside, Equipped
  <2> QED
    BY <1>9, <2>2, <2>3, <2>4, <2>5, <2>6, <2>7
<1>10. CASE ~(count = 1 /\ h.os = "systemd")
  BY <1>1, <1>2, <1>10 DEF SameBeside, SameFiles
<1> QED
  BY <1>9, <1>10

(* %postun's part for systemd: the unit is read and what runs is restarted.  *)
LEMMA PostunSystemdChanges ==
    ASSUME NEW h \in Host, NEW count, NEW k, k = PostunSystemd(h, count)
    PROVE  /\ k \in Host /\ SameFiles(k, h) /\ k.enabled = h.enabled
           /\ k.account = h.account /\ k.rc = h.rc /\ k.logdir = h.logdir
           /\ h.os = "systemd" /\ HasUnit(h) => k.loaded = h.files
           /\ h.running = None => k.running = None
           /\ h.os # "systemd" => k.running = h.running
           /\ count >= 1 /\ h.os = "systemd" /\ HasUnit(h) /\ MaskedIsDown(h)
                 => k.running \in {None, h.files}
           /\ h.os = "systemd" /\ h.running # None /\ h.mask = "none" /\ Equipped(h)
                 => k.running # None
<1> DEFINE l == Reload(h)
<1>1. /\ l \in Host /\ SameBeside(l, h) /\ l.logdir = h.logdir /\ l.running = h.running
      /\ (HasUnit(l) <=> HasUnit(h))
      /\ h.os = "systemd" /\ HasUnit(h) => l.loaded = h.files
  BY ReloadChanges
<1>2. k = IF count >= 1 /\ h.os = "systemd" THEN TryRestartUnit(l) ELSE l
  BY DEF PostunSystemd
<1> HIDE DEF l
<1>3. CASE count >= 1 /\ h.os = "systemd"
  <2>1. /\ k \in Host /\ SameBeside(k, l) /\ k.logdir = l.logdir
        /\ l.running = None => k.running = None
        /\ l.loaded = l.files => k.loaded = l.files
        /\ l.loaded = l.files /\ HasUnit(l) /\ MaskedIsDown(l) => k.running \in {None, l.files}
        /\ l.running # None /\ l.mask = "none" /\ Equipped(l) => k.running # None
    BY <1>1, <1>2, <1>3, TryRestartChanges
  <2>2. /\ MaskedIsDown(l) <=> MaskedIsDown(h)
        /\ Equipped(h) => Equipped(l)
        /\ l.mask = h.mask /\ l.files = h.files
    BY <1>1 DEF SameBeside, MaskedIsDown, Equipped
  <2>3. /\ SameFiles(k, h) /\ k.enabled = h.enabled
        /\ k.account = h.account /\ k.rc = h.rc /\ k.logdir = h.logdir
    BY <1>1, <2>1 DEF SameBeside, SameFiles
  <2> QED
    BY <1>1, <1>3, <2>1, <2>2, <2>3
<1>4. CASE ~(count >= 1 /\ h.os = "systemd")
  BY <1>1, <1>2, <1>4 DEF SameBeside, SameFiles
<1> QED
  BY <1>3, <1>4

(* %post's part for System V, on a first installation.                       *)
LEMMA PostSysvChanges ==
    ASSUME NEW h \in Host, NEW count, NEW k, k = PostSysv(h, count)
    PROVE  /\ k \in Host /\ SameFiles(k, h) /\ k.enabled = h.enabled /\ k.account = h.account
           /\ k.rc = IF count = 1 /\ h.rc = "none" THEN "on" ELSE h.rc
           /\ h.logdir => k.logdir
           /\ h.os = "systemd" => k.logdir = h.logdir
           /\ count # 1 => k = h
           /\ h.os = "systemd" /\ h.loaded = h.files =>
                 k.loaded = h.files /\ k.running \in {h.running, h.files}
           /\ k.running # h.running => h.running = None
                 /\ (h.os = "systemd" => HasUnit(h) /\ h.mask = "none")
<1> DEFINE r == IF h.rc = "none" THEN "on" ELSE h.rc
           g == [h EXCEPT !.rc = r]
<1>1. k = IF count = 1 THEN StartService(g) ELSE h
  BY DEF PostSysv
<1>2. /\ g \in Host /\ SameFiles(g, h) /\ g.enabled = h.enabled /\ g.account = h.account
      /\ g.rc = IF h.rc = "none" THEN "on" ELSE h.rc
      /\ g.logdir = h.logdir /\ g.loaded = h.loaded /\ g.running = h.running
  <2>1. r \in {"none", "on", "off"} /\ r = IF h.rc = "none" THEN "on" ELSE h.rc
    BY DEF Host
  <2> HIDE DEF r
  <2> QED
    BY <2>1 DEF Host, SameFiles
<1>3. HasUnit(g) <=> HasUnit(h)
  BY <1>2 DEF SameFiles, HasUnit, Ships
<1> HIDE DEF g
<1>4. CASE count = 1
  <2> USE <1>4
  <2>1. k = StartService(g) /\ k \in Host
    BY <1>1, <1>2, Services
  <2>2. SameBeside(k, g)
    BY <1>2, <2>1, ServiceChanges
  <2>3. SameFiles(k, h) /\ k.enabled = h.enabled /\ k.account = h.account /\ k.rc = g.rc
    BY <1>2, <2>2 DEF SameFiles, SameBeside
  <2>4. CASE h.os = "systemd"
    <3>1. k = StartUnit(g)
      BY <1>2, <2>1, <2>4 DEF StartService, SameFiles
    <3>2. /\ k.logdir = g.logdir
          /\ k.running # g.running => g.running = None /\ g.mask = "none" /\ HasUnit(g)
          /\ g.loaded = g.files => k.loaded = g.files /\ k.running \in {g.running, g.files}
      BY <1>2, <3>1, StartUnitChanges
    <3> QED
      BY <1>2, <1>3, <2>1, <2>3, <2>4, <3>2 DEF SameFiles
  <2>5. CASE h.os # "systemd"
    <3>1. k \in {StartScript(g), StartJob(g)}
      BY <1>2, <2>1, <2>5 DEF StartService, SameFiles, Host
    <3>2. (g.logdir => k.logdir) /\ (k.running # g.running => g.running = None)
      BY <1>2, <3>1 DEF StartScript, StartJob, Host
    <3> QED
      BY <1>2, <2>1, <2>3, <2>5, <3>2
  <2> QED
    BY <2>4, <2>5
<1>5. CASE count # 1
  BY <1>1, <1>5 DEF SameFiles
<1> QED
  BY <1>4, <1>5

(* What is left once the first step is taken.                                *)
LEMMA RpmTaken ==
    ASSUME RpmShape, todo # <<>>, todo' = Tail(todo)
    PROVE  /\ todo' \in Seq(RpmStepSet) /\ InOrder(todo', RpmRank)
           /\ Head(todo) \in RpmStepSet /\ 1 \in DOMAIN todo /\ Head(todo) = todo[1]
           /\ \A i \in DOMAIN todo' : i + 1 \in DOMAIN todo /\ todo'[i] = todo[i + 1]
           /\ Head(todo).do \in Ahead(todo) /\ Ahead(todo) \subseteq RpmDoings
           /\ Ahead(todo') = Ahead(todo) \ {Head(todo).do}
           /\ \A d \in Ahead(todo') : RpmRank[Head(todo).do] < RpmRank[d]
<1>1. todo \in Seq(RpmStepSet) /\ InOrder(todo, RpmRank)
  BY DEF RpmShape
<1>2. Ahead(todo) \subseteq RpmDoings
  <2>1. \A i \in DOMAIN todo : todo[i] \in RpmStepSet
    BY <1>1
  <2> QED
    BY <2>1 DEF Ahead, RpmStepSet
<1>3. RpmRank \in [RpmDoings -> Nat]
  BY RpmRankValues
<1> QED
  BY <1>1, <1>2, <1>3, TailAhead

(* Nothing is ahead of the database.                                         *)
LEMMA RpmDatabaseIsLast ==
    ASSUME NEW A \in SUBSET RpmDoings, \A d \in A : RpmRank["database"] < RpmRank[d]
    PROVE  A = {}
<1>1. ASSUME NEW d \in RpmDoings PROVE RpmRank[d] <= 12
  BY RpmRankValues DEF RpmDoings, NewDoings, OldDoings, RpmSteps
<1> QED
  BY <1>1, RpmRankValues

(* A stopped host keeps everything but its process.                          *)
LEMMA Stopped ==
    ASSUME NEW h \in Host, NEW k, k = Stop(h)
    PROVE  /\ k \in Host /\ SameFiles(k, h) /\ k.logdir = h.logdir /\ k.account = h.account
           /\ k.rc = h.rc /\ k.enabled = h.enabled /\ k.running = None
<1>1. k = [h EXCEPT !.running = None]
  BY DEF Stop
<1>2. k \in Host
  BY <1>1 DEF Host
<1>3. k.os = h.os /\ k.files = h.files /\ k.init = h.init /\ k.mask = h.mask
  BY <1>1 DEF Host
<1>4. k.defaults = h.defaults /\ k.logdir = h.logdir /\ k.account = h.account
  BY <1>1 DEF Host
<1>5. k.rc = h.rc /\ k.enabled = h.enabled /\ k.running = None
  BY <1>1 DEF Host
<1> QED
  BY <1>2, <1>3, <1>4, <1>5 DEF SameFiles

(* An account made or removed, a unit disabled or a script deregistered is   *)
(* that field.                                                               *)
LEMMA OneFieldChanges ==
    ASSUME NEW h \in Host
    PROVE  /\ \A k : k = [h EXCEPT !.account = TRUE] =>
                  /\ k \in Host /\ SameFiles(k, h) /\ k.logdir = h.logdir /\ k.account
                  /\ k.rc = h.rc /\ k.enabled = h.enabled /\ k.running = h.running
           /\ \A k : k = [h EXCEPT !.account = FALSE] =>
                  /\ k \in Host /\ SameFiles(k, h) /\ k.logdir = h.logdir /\ ~k.account
                  /\ k.rc = h.rc /\ k.enabled = h.enabled /\ k.running = h.running
           /\ \A k : k = [h EXCEPT !.enabled = FALSE] =>
                  /\ k \in Host /\ SameFiles(k, h) /\ k.logdir = h.logdir /\ k.account = h.account
                  /\ k.rc = h.rc /\ ~k.enabled /\ k.running = h.running
           /\ \A k : k = [h EXCEPT !.rc = "none"] =>
                  /\ k \in Host /\ SameFiles(k, h) /\ k.logdir = h.logdir /\ k.account = h.account
                  /\ k.rc = "none" /\ k.enabled = h.enabled /\ k.running = h.running
<1>1. ASSUME NEW k, k = [h EXCEPT !.account = TRUE]
      PROVE  /\ k \in Host /\ SameFiles(k, h) /\ k.logdir = h.logdir /\ k.account
             /\ k.rc = h.rc /\ k.enabled = h.enabled /\ k.running = h.running
  <2>1. k \in Host
    BY <1>1 DEF Host
  <2>2. k.os = h.os /\ k.files = h.files /\ k.init = h.init /\ k.mask = h.mask
    BY <1>1 DEF Host
  <2>3. k.defaults = h.defaults /\ k.logdir = h.logdir /\ k.account
    BY <1>1 DEF Host
  <2>4. k.rc = h.rc /\ k.enabled = h.enabled /\ k.running = h.running
    BY <1>1 DEF Host
  <2> QED
    BY <2>1, <2>2, <2>3, <2>4 DEF SameFiles
<1>2. ASSUME NEW k, k = [h EXCEPT !.enabled = FALSE]
      PROVE  /\ k \in Host /\ SameFiles(k, h) /\ k.logdir = h.logdir /\ k.account = h.account
             /\ k.rc = h.rc /\ ~k.enabled /\ k.running = h.running
  <2>1. k \in Host
    BY <1>2 DEF Host
  <2>2. k.os = h.os /\ k.files = h.files /\ k.init = h.init /\ k.mask = h.mask
    BY <1>2 DEF Host
  <2>3. k.defaults = h.defaults /\ k.logdir = h.logdir /\ k.account = h.account
    BY <1>2 DEF Host
  <2>4. k.rc = h.rc /\ ~k.enabled /\ k.running = h.running
    BY <1>2 DEF Host
  <2> QED
    BY <2>1, <2>2, <2>3, <2>4 DEF SameFiles
<1>3. ASSUME NEW k, k = [h EXCEPT !.rc = "none"]
      PROVE  /\ k \in Host /\ SameFiles(k, h) /\ k.logdir = h.logdir /\ k.account = h.account
             /\ k.rc = "none" /\ k.enabled = h.enabled /\ k.running = h.running
  <2>1. k \in Host
    BY <1>3 DEF Host
  <2>2. k.os = h.os /\ k.files = h.files /\ k.init = h.init /\ k.mask = h.mask
    BY <1>3 DEF Host
  <2>3. k.defaults = h.defaults /\ k.logdir = h.logdir /\ k.account = h.account
    BY <1>3 DEF Host
  <2>4. k.rc = "none" /\ k.enabled = h.enabled /\ k.running = h.running
    BY <1>3 DEF Host
  <2> QED
    BY <2>1, <2>2, <2>3, <2>4 DEF SameFiles
<1>4. ASSUME NEW k, k = [h EXCEPT !.account = FALSE]
      PROVE  /\ k \in Host /\ SameFiles(k, h) /\ k.logdir = h.logdir /\ ~k.account
             /\ k.rc = h.rc /\ k.enabled = h.enabled /\ k.running = h.running
  <2>1. k \in Host
    BY <1>4 DEF Host
  <2>2. k.os = h.os /\ k.files = h.files /\ k.init = h.init /\ k.mask = h.mask
    BY <1>4 DEF Host
  <2>3. k.defaults = h.defaults /\ k.logdir = h.logdir /\ ~k.account
    BY <1>4 DEF Host
  <2>4. k.rc = h.rc /\ k.enabled = h.enabled /\ k.running = h.running
    BY <1>4 DEF Host
  <2> QED
    BY <2>1, <2>2, <2>3, <2>4 DEF SameFiles
<1> QED
  BY <1>1, <1>2, <1>3, <1>4

(* What a snippet leaves as it was, for any build and any init system.       *)
LEMMA SnippetKeeps ==
    ASSUME host \in Host, NEW s \in RpmStepSet, s.do \notin RpmSteps,
           NEW d, d = s.do, NEW c, c = s.count, NEW h, h = RpmAfter(s, host)
    PROVE  /\ d \in NewDoings \cup OldDoings /\ c \in 0..2
           /\ h \in Host /\ SameFiles(h, host)
           /\ h.account <=> IF d = "pre-account" /\ c = 1 THEN TRUE
                            ELSE host.account /\ ~(d = "postun-purge" /\ c = 0)
           /\ h.rc = IF d = "post-sysv" /\ c = 1 /\ host.rc = "none" THEN "on"
                     ELSE IF d = "preun-sysv" /\ c = 0 THEN "none" ELSE host.rc
           /\ host.logdir \/ (d = "post-logdir" /\ host.account) => h.logdir
           /\ h.enabled /\ ~host.enabled =>
                 /\ d = "post-systemd" /\ c = 1 /\ policy = "none"
                 /\ host.os = "systemd" /\ HasUnit(host) /\ host.mask = "none"
           /\ d = "preun-systemd" /\ c = 0 /\ host.os = "systemd" => ~h.enabled /\ h.running = None
           /\ d = "preun-sysv" /\ c = 0 => h.running = None
           /\ host.running = None /\ h.running # None =>
                 /\ d \in {"post-systemd", "post-sysv"} /\ c = 1
                 /\ host.os = "systemd" => HasUnit(host) /\ host.mask = "none"
                 /\ host.os # "systemd" => d = "post-sysv"
<1>1. d \in NewDoings \cup OldDoings /\ c \in 0..2
  BY DEF RpmStepSet, RpmDoings
<1>2. CASE d = "pre-account"
  <2>1. h = IF c = 1 THEN MakeAccount(host) ELSE host
    BY <1>2 DEF RpmAfter, PreAccount
  <2>2. /\ h \in Host /\ SameFiles(h, host) /\ h.logdir = host.logdir
        /\ h.account <=> c = 1 \/ host.account
        /\ h.rc = host.rc /\ h.enabled = host.enabled /\ h.running = host.running
    <3>1. CASE c = 1
      BY <2>1, <3>1, OneFieldChanges DEF MakeAccount
    <3>2. CASE c # 1
      BY <2>1, <3>2 DEF SameFiles
    <3> QED
      BY <3>1, <3>2
  <2> QED
    BY <1>1, <1>2, <2>2
<1>3. CASE d = "post-npm-install"
  BY <1>1, <1>3 DEF RpmAfter, SameFiles, Host
<1>4. CASE d = "post-logdir"
  BY <1>1, <1>4 DEF RpmAfter, PostLogdir, MakeLogdir, Host, SameFiles
<1>5. CASE d = "post-systemd"
  <2>1. h = PostSystemd(host, c)
    BY <1>5 DEF RpmAfter
  <2> QED
    BY <1>1, <1>5, <2>1, PostSystemdChanges
<1>6. CASE d = "post-sysv"
  <2>1. h = PostSysv(host, c)
    BY <1>6 DEF RpmAfter
  <2>2. /\ h \in Host /\ SameFiles(h, host) /\ h.enabled = host.enabled /\ h.account = host.account
        /\ h.rc = IF c = 1 /\ host.rc = "none" THEN "on" ELSE host.rc
        /\ host.logdir => h.logdir
        /\ c # 1 => h = host
        /\ h.running # host.running => host.running = None
              /\ (host.os = "systemd" => HasUnit(host) /\ host.mask = "none")
    BY <2>1, PostSysvChanges
  <2> QED
    BY <1>1, <1>6, <2>2
<1>7. CASE d = "preun-systemd"
  <2>1. h = IF c = 0 /\ host.os = "systemd" THEN Stop([host EXCEPT !.enabled = FALSE]) ELSE host
    BY <1>7 DEF RpmAfter, PreunSystemd
  <2>2. /\ h \in Host /\ SameFiles(h, host) /\ h.logdir = host.logdir
        /\ h.account = host.account /\ h.rc = host.rc
        /\ h.enabled => host.enabled
        /\ c = 0 /\ host.os = "systemd" => ~h.enabled /\ h.running = None
        /\ host.running = None => h.running = None
    <3>1. CASE c = 0 /\ host.os = "systemd"
      <4> DEFINE k == [host EXCEPT !.enabled = FALSE]
      <4>1. k \in Host /\ SameFiles(k, host) /\ k.logdir = host.logdir
            /\ k.account = host.account /\ k.rc = host.rc /\ ~k.enabled
        BY OneFieldChanges
      <4>2. h = Stop(k)
        BY <2>1, <3>1
      <4> HIDE DEF k
      <4> QED
        BY <4>1, <4>2, <3>1, Stopped DEF SameFiles
    <3>2. CASE ~(c = 0 /\ host.os = "systemd")
      BY <2>1, <3>2 DEF SameFiles
    <3> QED
      BY <3>1, <3>2
  <2> QED
    BY <1>1, <1>7, <2>2
<1>8. CASE d = "preun-sysv"
  <2>1. h = IF c = 0 THEN [Stop(host) EXCEPT !.rc = "none"] ELSE host
    BY <1>8 DEF RpmAfter, PreunSysv
  <2>2. /\ h \in Host /\ SameFiles(h, host) /\ h.logdir = host.logdir
        /\ h.account = host.account /\ h.rc = IF c = 0 THEN "none" ELSE host.rc
        /\ h.enabled = host.enabled
        /\ c = 0 => h.running = None
        /\ host.running = None => h.running = None
    <3>1. CASE c = 0
      <4> DEFINE k == Stop(host)
      <4>1. k \in Host /\ SameFiles(k, host) /\ k.logdir = host.logdir /\ k.account = host.account
            /\ k.enabled = host.enabled /\ k.running = None
        BY Stopped
      <4>2. h = [k EXCEPT !.rc = "none"]
        BY <2>1, <3>1
      <4> HIDE DEF k
      <4> QED
        BY <4>1, <4>2, <3>1, OneFieldChanges DEF SameFiles
    <3>2. CASE c # 0
      BY <2>1, <3>2 DEF SameFiles
    <3> QED
      BY <3>1, <3>2
  <2> QED
    BY <1>1, <1>8, <2>2
<1>9. CASE d = "postun-systemd"
  <2>1. h = PostunSystemd(host, c)
    BY <1>9 DEF RpmAfter
  <2>2. /\ h \in Host /\ SameFiles(h, host) /\ h.enabled = host.enabled
        /\ h.account = host.account /\ h.rc = host.rc /\ h.logdir = host.logdir
        /\ host.running = None => h.running = None
    BY <2>1, PostunSystemdChanges
  <2> QED
    BY <1>1, <1>9, <2>2
<1>10. CASE d = "postun-purge"
  <2>1. h = IF c = 0 THEN [host EXCEPT !.account = FALSE] ELSE host
    BY <1>10 DEF RpmAfter, PostunPurge
  <2>2. /\ h \in Host /\ SameFiles(h, host) /\ h.logdir = host.logdir
        /\ h.account <=> c # 0 /\ host.account
        /\ h.rc = host.rc /\ h.enabled = host.enabled /\ h.running = host.running
    <3>1. CASE c = 0
      BY <2>1, <3>1, OneFieldChanges
    <3>2. CASE c # 0
      BY <2>1, <3>2 DEF SameFiles
    <3> QED
      BY <3>1, <3>2
  <2> QED
    BY <1>1, <1>10, <2>2
<1> QED
  BY <1>1, <1>2, <1>3, <1>4, <1>5, <1>6, <1>7, <1>8, <1>9, <1>10 DEF NewDoings, OldDoings

(* What it does to a unit that is there.                                     *)
LEMMA SnippetServes ==
    ASSUME host \in Host, host.os = "systemd", HasUnit(host),
           NEW s \in RpmStepSet, s.do \notin RpmSteps,
           NEW d, d = s.do, NEW c, c = s.count, NEW h, h = RpmAfter(s, host)
    PROVE  /\ d \in {"post-systemd", "postun-systemd"} \/ host.loaded = host.files
                 => h.loaded = host.files
           /\ h.running # host.running =>
                 d \in {"post-systemd", "post-sysv", "preun-systemd", "preun-sysv", "postun-systemd"}
           /\ d = "post-systemd" \/ (d = "post-sysv" /\ host.loaded = host.files)
                 => h.running \in {host.running, host.files}
           /\ d = "post-systemd" /\ c = 1 /\ host.mask = "none" /\ Equipped(host) => h.running # None
           /\ d \in {"preun-systemd", "preun-sysv"} /\ c # 0 => h.running = host.running
           /\ d \in {"post-systemd", "post-sysv"} /\ c # 1 => h.running = host.running
           /\ d = "postun-systemd" /\ c # 0 /\ MaskedIsDown(host) => h.running \in {None, host.files}
           /\ d = "postun-systemd" /\ host.running # None /\ host.mask = "none" /\ Equipped(host)
                 => h.running # None
           /\ d = "post-sysv" /\ host.running # None => h.running = host.running
<1>1. d \in NewDoings \cup OldDoings /\ c \in 0..2
  BY DEF RpmStepSet, RpmDoings
<1>2. CASE d \in {"pre-account", "post-npm-install", "post-logdir", "postun-purge"}
  BY <1>2 DEF RpmAfter, PreAccount, MakeAccount, PostLogdir, MakeLogdir, PostunPurge, Host
<1>3. CASE d = "post-systemd"
  <2>1. h = PostSystemd(host, c)
    BY <1>3 DEF RpmAfter
  <2> QED
    BY <1>1, <1>3, <2>1, PostSystemdChanges
<1>4. CASE d = "post-sysv"
  <2>1. h = PostSysv(host, c)
    BY <1>4 DEF RpmAfter
  <2> QED
    BY <1>1, <1>4, <2>1, PostSysvChanges
<1>5. CASE d \in {"preun-systemd", "preun-sysv"}
  BY <1>1, <1>5 DEF RpmAfter, PreunSystemd, PreunSysv, Stop, Host
<1>6. CASE d = "postun-systemd"
  <2>1. h = PostunSystemd(host, c)
    BY <1>6 DEF RpmAfter
  <2> QED
    BY <1>1, <1>6, <2>1, PostunSystemdChanges
<1> QED
  BY <1>1, <1>2, <1>3, <1>4, <1>5, <1>6 DEF NewDoings, OldDoings

-----------------------------------------------------------------------------
(* The types, the shape of an operation and the record.                      *)

(* What is ahead, before and after each kind of step of an operation.        *)
LEMMA RpmStepTaken ==
    ASSUME RpmTypeOK, RpmShape, RpmRecord,
           RunScriptlet \/ UnpackFiles \/ DeleteFiles \/ UpdateDatabase
    PROVE  /\ Head(todo) \in RpmStepSet /\ Head(todo).do \in Ahead(todo)
           /\ Ahead(todo) \subseteq RpmDoings /\ todo # <<>> /\ todo' = Tail(todo)
           /\ Ahead(todo') = Ahead(todo) \ {Head(todo).do}
           /\ \A d \in Ahead(todo') : RpmRank[Head(todo).do] < RpmRank[d]
           /\ todo' = <<>> <=> Head(todo).do = "database"
           /\ Head(todo).do = "database" => Ahead(todo') = {}
<1>1. todo # <<>> /\ todo' = Tail(todo)
  BY DEF RunScriptlet, UnpackFiles, DeleteFiles, UpdateDatabase, Idle
<1>2. /\ Head(todo) \in RpmStepSet /\ Head(todo).do \in Ahead(todo)
      /\ Ahead(todo) \subseteq RpmDoings /\ todo # <<>> /\ todo' \in Seq(RpmStepSet)
      /\ Ahead(todo') = Ahead(todo) \ {Head(todo).do}
      /\ \A d \in Ahead(todo') : RpmRank[Head(todo).do] < RpmRank[d]
  BY <1>1, RpmTaken
<1>3. ASSUME Head(todo).do = "database" PROVE Ahead(todo') = {} /\ todo' = <<>>
  <2>1. Ahead(todo') = {}
    BY <1>2, <1>3, RpmDatabaseIsLast
  <2> QED
    BY <1>2, <2>1, FirstAhead
<1>4. ASSUME Head(todo).do # "database" PROVE todo' # <<>>
  <2>1. "database" \in Ahead(todo')
    BY <1>1, <1>2, <1>4 DEF RpmShape, RpmStill
  <2> QED
    BY <2>1 DEF Ahead
<1> QED
  BY <1>1, <1>2, <1>3, <1>4

(* What a snippet does, and with which argument.                             *)
LEMMA RpmSnippetRuns ==
    ASSUME RpmTypeOK, RpmShape, RpmRecord, RunScriptlet
    PROVE  /\ Head(todo) \in RpmStepSet /\ Head(todo).do \notin RpmSteps
           /\ host' = RpmAfter(Head(todo), host)
           /\ host \in Host /\ host' \in Host /\ SameFiles(host', host)
           /\ Head(todo).do \in NewDoings => Head(todo).count = IF installed = None THEN 1 ELSE 2
           /\ Head(todo).do \in OldDoings => Head(todo).count = IF RpmRemoval THEN 0 ELSE 1
           /\ UNCHANGED <<built, policy, installed>>
           /\ admin \in Decisions /\ admin' \in Decisions
           /\ admin'.disabled = admin.disabled /\ admin'.off = admin.off
           /\ admin'.stopped <=> admin.stopped /\ host'.running = None
           /\ admin = NoDecision => admin' = NoDecision
<1>1. /\ Head(todo) \in RpmStepSet /\ Head(todo).do \notin RpmSteps /\ host \in Host
      /\ host' = RpmAfter(Head(todo), host) /\ UNCHANGED <<built, policy, installed>>
      /\ admin \in Decisions /\ admin' = Seen(host') /\ todo # <<>> /\ todo' = Tail(todo)
  BY RpmStepTaken DEF RunScriptlet, RpmTypeOK, MachineOK
<1>2. host' \in Host /\ SameFiles(host', host)
  BY <1>1, SnippetKeeps
<1>3. 1 \in DOMAIN todo /\ Head(todo) = todo[1]
  BY <1>1, RpmTaken
<1>4. /\ Head(todo).do \in NewDoings => Head(todo).count = IF installed = None THEN 1 ELSE 2
      /\ Head(todo).do \in OldDoings => Head(todo).count = IF RpmRemoval THEN 0 ELSE 1
  BY <1>3 DEF RpmShape
<1> QED
  BY <1>1, <1>2, <1>4, SeenDecides

(* What a step of rpm's own does.                                            *)
LEMMA RpmOwnStepRuns ==
    ASSUME RpmTypeOK, RpmShape, RpmRecord
    PROVE  /\ UnpackFiles =>
                 /\ Head(todo).do = "unpack" /\ Head(todo).version \in Version
                 /\ host' \in Host /\ host'.files = Head(todo).version
                 /\ host'.init = built[host'.files]
                 /\ host'.defaults = IF host.defaults = "never" /\ host'.init # "none"
                                     THEN "present" ELSE host.defaults
                 /\ UNCHANGED <<built, policy, installed, admin, host.os, host.mask, host.account,
                                host.logdir, host.rc, host.loaded, host.running, host.enabled>>
           /\ DeleteFiles =>
                 /\ Head(todo).do = "delete" /\ host' \in Host
                 /\ host'.files = None /\ host'.defaults = "never"
                 /\ UNCHANGED <<built, policy, installed, admin, host.os, host.mask, host.account,
                                host.logdir, host.rc, host.loaded, host.running, host.enabled>>
           /\ UpdateDatabase =>
                 /\ Head(todo).do = "database" /\ Ahead(todo') = {}
                 /\ installed' = host.files
                 /\ admin' = IF installed' = None THEN NoDecision ELSE admin
                 /\ UNCHANGED <<built, policy, host>>
<1>1. ASSUME UnpackFiles
      PROVE  /\ Head(todo).do = "unpack" /\ Head(todo).version \in Version
             /\ host' \in Host /\ host'.files = Head(todo).version
             /\ host'.init = built[host'.files]
             /\ host'.defaults = IF host.defaults = "never" /\ host'.init # "none"
                                 THEN "present" ELSE host.defaults
             /\ UNCHANGED <<built, policy, installed, admin, host.os, host.mask, host.account,
                            host.logdir, host.rc, host.loaded, host.running, host.enabled>>
  <2>1. /\ host' = Unpack(host, Head(todo).version, built[Head(todo).version])
        /\ Head(todo).do = "unpack" /\ UNCHANGED <<built, policy, installed, admin>>
        /\ todo # <<>> /\ todo' = Tail(todo)
    BY <1>1 DEF UnpackFiles, Idle
  <2>2. Head(todo).version \in Version
    BY <2>1, RpmTaken DEF RpmShape
  <2>3. built[Head(todo).version] \in InitSystem /\ host \in Host
    BY <2>2, BuildsAssumption DEF RpmTypeOK, MachineOK
  <2>4. host' \in Host
    BY <2>1, <2>2, <2>3, Commands
  <2>5. host'.files = Head(todo).version /\ host'.init = built[Head(todo).version]
    BY <2>1, <2>3 DEF Unpack, Host
  <2>6. /\ host'.defaults = IF host.defaults = "never" /\ host'.init # "none"
                            THEN "present" ELSE host.defaults
        /\ UNCHANGED <<host.os, host.mask, host.account, host.logdir, host.rc,
                       host.loaded, host.running, host.enabled>>
    BY <2>1, <2>3, <2>5 DEF Unpack, Host
  <2> QED
    BY <2>1, <2>2, <2>4, <2>5, <2>6
<1>2. ASSUME DeleteFiles
      PROVE  /\ Head(todo).do = "delete" /\ host' \in Host
             /\ host'.files = None /\ host'.defaults = "never"
             /\ UNCHANGED <<built, policy, installed, admin, host.os, host.mask, host.account,
                            host.logdir, host.rc, host.loaded, host.running, host.enabled>>
  BY <1>2 DEF DeleteFiles, Delete, RpmTypeOK, MachineOK, Host, InitSystem
<1>3. ASSUME UpdateDatabase PROVE Ahead(todo') = {} /\ installed' = host.files
  <2>1. /\ todo # <<>> /\ todo' = Tail(todo) /\ Head(todo).do = "database"
        /\ installed' = Head(todo).version
    BY <1>3 DEF UpdateDatabase, Idle
  <2>2. Ahead(todo') = {}
    BY <1>3, <2>1, RpmStepTaken
  <2> QED
    BY <2>1, <2>2, RpmTaken DEF RpmShape, RpmStill
<1> QED
  BY <1>1, <1>2, <1>3 DEF UpdateDatabase

(* Beginning an operation.                                                   *)
LEMMA BeginningStructure ==
    ASSUME RpmTypeOK, RpmShape, RpmRecord,
           NEW new, NEW old, NEW v \in Version \cup {None}, NEW A, Plan(todo', Fit(new, old, v), A, RpmRank),
           Idle, UNCHANGED <<built, policy, installed, host, admin>>,
           "database" \in A,
           \/ /\ "unpack" \in A /\ "delete" \notin A /\ v \in Version /\ installed = None /\ new = 1
              /\ A \cap OldDoings = {}
           \/ /\ "unpack" \in A /\ "delete" \notin A /\ v \in Version /\ installed # None /\ new = 2
              /\ old = 1
           \/ /\ "unpack" \notin A /\ "delete" \in A /\ v = None /\ installed # None /\ old = 0
              /\ A \cap NewDoings = {}
    PROVE  RpmTypeOK' /\ RpmShape' /\ RpmRecord'
<1> DEFINE S == Fit(new, old, v)
<1>1. S \subseteq RpmStepSet
  BY DEF Fit
<1>2. \A s \in S : /\ s.count \in 0..2
                   /\ s.do \in NewDoings => s.count = new
                   /\ s.do \in OldDoings => s.count = old
                   /\ s.do \in {"unpack", "database"} => s.version = v
  BY DEF Fit, RpmStepSet
<1> HIDE DEF S
<1>3. /\ todo' \in Seq(RpmStepSet) /\ InOrder(todo', RpmRank) /\ todo' # <<>> /\ Ahead(todo') = A
      /\ \A i \in DOMAIN todo' : todo'[i] \in S /\ todo'[i].do \in A
  BY <1>1, PlanElements DEF Plan, S
<1>4. RpmTypeOK'
  BY <1>2, <1>3 DEF RpmTypeOK, MachineOK, Idle
<1>5. RpmRecord'
  BY <1>3 DEF RpmRecord, RpmStill, RpmTypeOK, MachineOK, Idle
<1>6. installed = host.files
  BY DEF RpmTypeOK, MachineOK, Idle
<1>7. RpmShape'
  <2>1. RpmRemoval' <=> "delete" \in A
    BY <1>3, <1>6 DEF RpmRemoval, RpmStill
  <2>2. \A i \in DOMAIN todo' :
           /\ todo'[i].do \in NewDoings => todo'[i].count = IF installed = None THEN 1 ELSE 2
           /\ todo'[i].do \in OldDoings => todo'[i].count = IF "delete" \in A THEN 0 ELSE 1
    BY <1>2, <1>3
  <2>3. \A i \in DOMAIN todo' :
           /\ todo'[i].do = "unpack" => todo'[i].version \in Version
           /\ todo'[i].do = "database" =>
                /\ \A j \in DOMAIN todo' : todo'[j].do = "unpack" => todo'[j].version = todo'[i].version
                /\ "delete" \in A => todo'[i].version = None
                /\ "unpack" \in A \/ "delete" \in A
    BY <1>2, <1>3
  <2> QED
    BY <1>3, <2>1, <2>2, <2>3 DEF RpmShape, RpmStill
<1> QED
  BY <1>4, <1>5, <1>7

(* What is ahead when an operation begins.                                   *)
LEMMA Begins ==
    ASSUME RpmTypeOK, RpmShape, RpmRecord, (\E v \in Version : RpmInstall(v) \/ RpmUpgrade(v)) \/ RpmErase
    PROVE  /\ RpmTypeOK' /\ RpmShape' /\ RpmRecord'
           /\ todo = <<>> /\ Ahead(todo) = {} /\ todo' # <<>> /\ host.files = installed
           /\ UNCHANGED <<built, policy, installed, host, admin>>
           /\ \/ /\ installed = None
                 /\ \E v \in Version :
                       Ahead(todo') = PreActs(built[v]) \cup {"unpack"} \cup PostActs(built[v])
                                      \cup {"database"}
              \/ /\ installed \in Version
                 /\ \E v \in Version :
                       Ahead(todo') = PreActs(built[v]) \cup {"unpack"} \cup PostActs(built[v])
                                      \cup PreunActs(built[installed])
                                      \cup PostunActs(built[installed]) \cup {"database"}
              \/ /\ installed \in Version
                 /\ Ahead(todo') = PreunActs(built[installed]) \cup {"delete"}
                                   \cup PostunActs(built[installed]) \cup {"database"}
<1> USE NoneAssumption
<1>1. ASSUME NEW v \in Version, RpmInstall(v)
      PROVE  /\ RpmTypeOK' /\ RpmShape' /\ RpmRecord' /\ Idle
             /\ UNCHANGED <<built, policy, installed, host, admin>> /\ installed = None
             /\ Ahead(todo') = PreActs(built[v]) \cup {"unpack"} \cup PostActs(built[v])
                               \cup {"database"}
  <2> DEFINE A == PreActs(built[v]) \cup {"unpack"} \cup PostActs(built[v]) \cup {"database"}
  <2>1. /\ Plan(todo', Fit(1, 1, v), A, RpmRank) /\ Idle /\ installed = None
        /\ UNCHANGED <<built, policy, installed, host, admin>>
    BY <1>1, RpmInstallBegins
  <2>2. "database" \in A /\ "unpack" \in A /\ "delete" \notin A /\ A \cap OldDoings = {}
    BY ActRanks DEF NewDoings, OldDoings
  <2> HIDE DEF A
  <2>3. RpmTypeOK' /\ RpmShape' /\ RpmRecord'
    BY <2>1, <2>2, BeginningStructure
  <2> QED
    BY <2>1, <2>3 DEF A, Plan
<1>2. ASSUME NEW v \in Version, RpmUpgrade(v)
      PROVE  /\ RpmTypeOK' /\ RpmShape' /\ RpmRecord' /\ Idle
             /\ UNCHANGED <<built, policy, installed, host, admin>> /\ installed \in Version
             /\ Ahead(todo') = PreActs(built[v]) \cup {"unpack"} \cup PostActs(built[v])
                               \cup PreunActs(built[installed])
                               \cup PostunActs(built[installed]) \cup {"database"}
  <2> DEFINE A == PreActs(built[v]) \cup {"unpack"} \cup PostActs(built[v])
                  \cup PreunActs(built[installed]) \cup PostunActs(built[installed]) \cup {"database"}
  <2>1. /\ Plan(todo', Fit(2, 1, v), A, RpmRank) /\ Idle /\ installed \in Version
        /\ UNCHANGED <<built, policy, installed, host, admin>>
    BY <1>2, RpmUpgradeBegins
  <2>2. "database" \in A /\ "unpack" \in A /\ "delete" \notin A
    BY ActRanks DEF NewDoings
  <2> HIDE DEF A
  <2>3. RpmTypeOK' /\ RpmShape' /\ RpmRecord'
    BY <2>1, <2>2, BeginningStructure
  <2> QED
    BY <2>1, <2>3 DEF A, Plan
<1>3. ASSUME RpmErase
      PROVE  /\ RpmTypeOK' /\ RpmShape' /\ RpmRecord' /\ Idle
             /\ UNCHANGED <<built, policy, installed, host, admin>> /\ installed \in Version
             /\ Ahead(todo') = PreunActs(built[installed]) \cup {"delete"}
                               \cup PostunActs(built[installed]) \cup {"database"}
  <2> DEFINE A == PreunActs(built[installed]) \cup {"delete"}
                  \cup PostunActs(built[installed]) \cup {"database"}
  <2>1. /\ Plan(todo', Fit(2, 0, None), A, RpmRank) /\ Idle /\ installed \in Version
        /\ UNCHANGED <<built, policy, installed, host, admin>>
    BY <1>3, EraseBegins
  <2>2. "database" \in A /\ "unpack" \notin A /\ "delete" \in A /\ A \cap NewDoings = {}
    BY ActRanks DEF NewDoings
  <2> HIDE DEF A
  <2>3. RpmTypeOK' /\ RpmShape' /\ RpmRecord'
    BY <2>1, <2>2, BeginningStructure
  <2> QED
    BY <2>1, <2>3 DEF A, Plan
<1>4. Idle => todo = <<>> /\ Ahead(todo) = {} /\ host.files = installed
  BY DEF Ahead, RpmTypeOK, MachineOK, Idle
<1>5. RpmShape' => ("database" \in Ahead(todo') => todo' # <<>>)
  BY DEF Ahead
<1> QED
  BY <1>1, <1>2, <1>3, <1>4, <1>5

(* A later step of an operation keeps the types, the shape and the record.   *)
LEMMA GoingOnStructure ==
    ASSUME RpmTypeOK, RpmShape, RpmRecord, todo # <<>>, todo' = Tail(todo), UNCHANGED <<built, policy>>,
           host' \in Host, admin' \in Decisions, installed' \in Version \cup {None},
           todo' = <<>> => installed' = host'.files,
           todo' # <<>> => "database" \in Ahead(todo') /\ installed' = installed,
           todo' # <<>> => (RpmRemoval' <=> RpmRemoval),
           \A i \in DOMAIN todo' : todo'[i].do = "database" =>
                 /\ "delete" \in Ahead(todo') => todo'[i].version = None
                 /\ "unpack" \notin Ahead(todo') /\ "delete" \notin Ahead(todo')
                        => todo'[i].version = host'.files
    PROVE  RpmTypeOK' /\ RpmShape'
<1>1. /\ todo' \in Seq(RpmStepSet) /\ InOrder(todo', RpmRank)
      /\ \A i \in DOMAIN todo' : i + 1 \in DOMAIN todo /\ todo'[i] = todo[i + 1]
  BY RpmTaken
<1>2. \A i \in DOMAIN todo' : todo'[i] \in RpmStepSet
  BY <1>1
<1>3. RpmTypeOK'
  BY <1>1, <1>2 DEF RpmTypeOK, MachineOK, Idle, RpmStepSet
<1>4. todo' = <<>> => DOMAIN todo' = {}
  OBVIOUS
<1>5. RpmShape'
  BY <1>1, <1>4 DEF RpmShape, RpmStill
<1> QED
  BY <1>3, <1>5

(* Every step keeps the types, the shape of what is to do and the record.    *)
LEMMA RpmStructureStep ==
    ASSUME RpmTypeOK, RpmShape, RpmRecord, [RpmNext]_machineVars
    PROVE  RpmTypeOK' /\ RpmShape' /\ RpmRecord'
<1> USE NoneAssumption
<1>1. CASE (\E v \in Version : RpmInstall(v) \/ RpmUpgrade(v)) \/ RpmErase
  BY <1>1, Begins
<1>2. CASE RunScriptlet
  <2>1. /\ todo # <<>> /\ todo' = Tail(todo) /\ UNCHANGED <<built, policy, installed>>
        /\ host' \in Host /\ SameFiles(host', host) /\ admin' \in Decisions
        /\ Head(todo).do \notin RpmSteps /\ Head(todo) \in RpmStepSet
        /\ Ahead(todo') = Ahead(todo) \ {Head(todo).do}
        /\ todo' # <<>>
    BY <1>2, RpmStepTaken, RpmSnippetRuns DEF RpmSteps
  <2>2. "database" \in Ahead(todo') /\ (RpmRemoval' <=> RpmRemoval)
        /\ ("unpack" \in Ahead(todo') <=> RpmStill("unpack"))
        /\ ("delete" \in Ahead(todo') <=> RpmStill("delete"))
    BY <2>1 DEF RpmShape, RpmStill, RpmRemoval, RpmSteps, SameFiles
  <2>3. \A i \in DOMAIN todo' : i + 1 \in DOMAIN todo /\ todo'[i] = todo[i + 1]
    BY <2>1, RpmTaken
  <2>4. \A i \in DOMAIN todo' : todo'[i].do = "database" =>
                 /\ "delete" \in Ahead(todo') => todo'[i].version = None
                 /\ "unpack" \notin Ahead(todo') /\ "delete" \notin Ahead(todo')
                        => todo'[i].version = host'.files
    BY <2>1, <2>2, <2>3 DEF RpmShape, SameFiles
  <2>5. RpmTypeOK' /\ RpmShape'
    BY <2>1, <2>2, <2>4, GoingOnStructure DEF RpmTypeOK, MachineOK
  <2>6. host.os # "systemd" => ~host'.enabled
    BY <1>2, RpmSnippetRuns, SnippetKeeps DEF RpmRecord
  <2>7. RpmRecord'
    BY <2>1, <2>2, <2>6 DEF RpmRecord, RpmStill, SameFiles
  <2> QED
    BY <2>5, <2>7
<1>3. CASE UnpackFiles
  <2>1. /\ todo # <<>> /\ todo' = Tail(todo) /\ UNCHANGED <<built, policy, installed, admin>>
        /\ host' \in Host /\ Head(todo).do = "unpack" /\ Head(todo).version \in Version
        /\ host'.files = Head(todo).version /\ host'.init = built[host'.files]
        /\ host'.os = host.os /\ host'.enabled = host.enabled
        /\ Ahead(todo') = Ahead(todo) \ {"unpack"} /\ "unpack" \in Ahead(todo)
        /\ todo' # <<>>
    BY <1>3, RpmStepTaken, RpmOwnStepRuns
  <2>2. "database" \in Ahead(todo') /\ (RpmRemoval' <=> RpmRemoval) /\ "delete" \notin Ahead(todo')
    BY <2>1 DEF RpmShape, RpmStill, RpmRemoval, RpmRecord
  <2>3. /\ \A i \in DOMAIN todo' : i + 1 \in DOMAIN todo /\ todo'[i] = todo[i + 1]
        /\ 1 \in DOMAIN todo /\ Head(todo) = todo[1]
    BY <2>1, RpmTaken
  <2>4. \A i \in DOMAIN todo' : todo'[i].do = "database" => todo'[i].version = host'.files
    BY <2>1, <2>3 DEF RpmShape
  <2>5. RpmTypeOK' /\ RpmShape'
    BY <2>1, <2>2, <2>4, GoingOnStructure DEF RpmTypeOK, MachineOK
  <2>6. RpmRecord'
    BY <2>1, <2>2 DEF RpmRecord, RpmStill
  <2> QED
    BY <2>5, <2>6
<1>4. CASE DeleteFiles
  <2>1. /\ todo # <<>> /\ todo' = Tail(todo) /\ UNCHANGED <<built, policy, installed, admin>>
        /\ host' \in Host /\ Head(todo).do = "delete" /\ host'.files = None
        /\ host'.os = host.os /\ host'.enabled = host.enabled
        /\ Ahead(todo') = Ahead(todo) \ {"delete"} /\ "delete" \in Ahead(todo)
        /\ todo' # <<>>
    BY <1>4, RpmStepTaken, RpmOwnStepRuns
  <2>2. /\ "database" \in Ahead(todo') /\ (RpmRemoval' <=> RpmRemoval) /\ "delete" \notin Ahead(todo')
        /\ "unpack" \notin Ahead(todo') /\ installed # None
    BY <2>1 DEF RpmShape, RpmStill, RpmRemoval, RpmRecord
  <2>3. \A i \in DOMAIN todo' : i + 1 \in DOMAIN todo /\ todo'[i] = todo[i + 1]
    BY <2>1, RpmTaken
  <2>4. \A i \in DOMAIN todo' : todo'[i].do = "database" => todo'[i].version = host'.files
    BY <2>1, <2>3 DEF RpmShape, RpmStill
  <2>5. RpmTypeOK' /\ RpmShape'
    BY <2>1, <2>2, <2>4, GoingOnStructure DEF RpmTypeOK, MachineOK
  <2>6. RpmRecord'
    BY <2>1, <2>2 DEF RpmRecord, RpmStill
  <2> QED
    BY <2>5, <2>6
<1>5. CASE UpdateDatabase
  <2>1. /\ todo # <<>> /\ todo' = Tail(todo) /\ UNCHANGED <<built, policy, host>>
        /\ Ahead(todo') = {} /\ todo' = <<>> /\ installed' = host.files
        /\ admin' = IF installed' = None THEN NoDecision ELSE admin
    BY <1>5, RpmStepTaken, RpmOwnStepRuns
  <2>2. admin' \in Decisions /\ host \in Host /\ installed' \in Version \cup {None}
    BY <2>1 DEF RpmTypeOK, MachineOK, Decisions, NoDecision, Host
  <2>3. RpmTypeOK' /\ RpmShape'
    BY <2>1, <2>2, GoingOnStructure
  <2>4. RpmRecord'
    BY <2>1 DEF RpmRecord, RpmStill
  <2> QED
    BY <2>3, <2>4
<1>6. CASE Beside
  <2>1. /\ host' \in Host /\ admin' \in Decisions /\ todo' = todo
        /\ UNCHANGED <<built, policy, installed>>
        /\ host'.files = host.files /\ host'.init = host.init /\ host'.os = host.os
    BY <1>6, AdministerTypes, AdministerKeepsFiles DEF Beside, RpmTypeOK, MachineOK
  <2>2. host.os # "systemd" => host'.enabled = host.enabled
    BY <1>6, AdministerElsewhere DEF Beside, RpmTypeOK, MachineOK
  <2>3. RpmRemoval' <=> RpmRemoval
    BY <2>1 DEF RpmRemoval, RpmStill
  <2> QED
    BY <2>1, <2>2, <2>3 DEF RpmTypeOK, MachineOK, RpmShape, RpmRecord, Idle, RpmStill
<1>7. CASE UNCHANGED machineVars
  BY <1>7 DEF machineVars, RpmTypeOK, MachineOK, RpmShape, RpmRecord, Idle, RpmStill, RpmRemoval
<1> QED
  BY <1>1, <1>2, <1>3, <1>4, <1>5, <1>6, <1>7 DEF RpmNext

-----------------------------------------------------------------------------
(* What the administrator decided stands after every step.                   *)
LEMMA RpmDecidedStep ==
    ASSUME RpmTypeOK, RpmShape, RpmRecord, RpmDecided, [RpmNext]_machineVars
    PROVE  RpmDecided'
<1> USE DEF RpmDecided
<1>1. CASE (\E v \in Version : RpmInstall(v) \/ RpmUpgrade(v)) \/ RpmErase
  BY <1>1, Begins
<1>2. CASE RunScriptlet
  <2>1. /\ Head(todo) \in RpmStepSet /\ Head(todo).do \notin RpmSteps
        /\ host' = RpmAfter(Head(todo), host) /\ host \in Host
        /\ Head(todo).do \in NewDoings => Head(todo).count = IF installed = None THEN 1 ELSE 2
        /\ UNCHANGED <<built, installed>> /\ SameFiles(host', host)
        /\ admin'.disabled = admin.disabled /\ admin'.off = admin.off
        /\ admin = NoDecision => admin' = NoDecision
    BY <1>2, RpmSnippetRuns
  <2>2. CASE installed = None
    BY <2>1, <2>2 DEF NoDecision
  <2>3. CASE installed # None
    <3>1. Head(todo).do \in NewDoings => Head(todo).count = 2
      BY <2>1, <2>3
    <3>2. (host'.enabled => host.enabled) /\ (host.running = None => host'.running = None)
      BY <2>1, <3>1, SnippetKeeps DEF NewDoings
    <3>3. host'.rc = "on" => host.rc = "on"
      BY <2>1, <3>1, SnippetKeeps DEF NewDoings
    <3> QED
      BY <2>1, <2>3, <3>2, <3>3 DEF SameFiles
  <2> QED
    BY <2>2, <2>3
<1>3. CASE UnpackFiles \/ DeleteFiles
  BY <1>3, RpmOwnStepRuns
<1>4. CASE UpdateDatabase
  BY <1>4, RpmOwnStepRuns DEF NoDecision
<1>5. CASE Beside
  <2>1. /\ host \in Host /\ admin \in Decisions /\ Administer /\ installed # None
        /\ UNCHANGED installed
    BY <1>5 DEF Beside, RpmTypeOK, MachineOK
  <2>2. host'.os = host.os
    BY <2>1, AdministerKeepsFiles
  <2>3. (admin'.disabled => ~Enabled(host')) /\ (admin'.off => host'.running = None)
    BY <2>1, AdministerDecides DEF Enabled
  <2>4. host.os # "systemd" => (admin'.disabled => host'.rc # "on")
    BY <2>1, AdministerElsewhere
  <2> QED
    BY <2>1, <2>2, <2>3, <2>4 DEF Enabled
<1>6. CASE UNCHANGED machineVars
  BY <1>6 DEF machineVars
<1> QED
  BY <1>1, <1>2, <1>3, <1>4, <1>5, <1>6 DEF RpmNext

-----------------------------------------------------------------------------
(* The account, the links and the service.                                   *)

(* What the administrator does, as far as it concerns a package.             *)
LEMMA RpmBesideRuns ==
    ASSUME RpmTypeOK, RpmShape, RpmRecord, Beside
    PROVE  /\ host \in Host /\ admin \in Decisions /\ Administer
           /\ installed # None /\ todo' = todo /\ UNCHANGED <<built, policy, installed>>
           /\ host'.files = host.files /\ host'.init = host.init /\ host'.os = host.os
           /\ host'.account = host.account
           /\ host.rc = "none" => host'.rc = "none"
           /\ host.os = "sysv" /\ host.rc # "on" /\ host.running = None => host'.running = None
           /\ RpmRemoval' <=> RpmRemoval
<1>1. /\ host \in Host /\ admin \in Decisions /\ Administer
      /\ installed # None /\ UNCHANGED <<built, policy, installed>>
  BY DEF Beside, RpmTypeOK, MachineOK
<1>2. todo' = todo /\ host'.files = host.files /\ host'.init = host.init /\ host'.os = host.os
  BY <1>1, AdministerTypes, AdministerKeepsFiles
<1>3. /\ host'.account = host.account
      /\ host.rc = "none" => host'.rc = "none"
      /\ host.os = "sysv" /\ host.rc # "on" /\ host.running = None => host'.running = None
  BY <1>1, AdministerOnSystemd, AdministerElsewhere
<1> QED
  BY <1>1, <1>2, <1>3 DEF RpmRemoval, RpmStill

(* The account comes with a package that has a service, and goes with it.    *)
LEMMA AccountStep ==
    ASSUME RpmTypeOK, RpmShape, RpmRecord, WithService, Account, [RpmNext]_machineVars
    PROVE  Account'
<1> USE DEF Account, RpmStill
<1>1. CASE (\E v \in Version : RpmInstall(v) \/ RpmUpgrade(v)) \/ RpmErase
  <2>1. /\ "unpack" \in Ahead(todo') => installed # None \/ "pre-account" \in Ahead(todo')
        /\ "delete" \in Ahead(todo') => "postun-purge" \in Ahead(todo')
    BY <1>1, Begins, ActRanks DEF WithService, PreActs, PostunActs, IfSo, NewDoings
  <2> QED
    BY <1>1, <2>1, Begins DEF RpmRemoval
<1>2. CASE RunScriptlet
  <2> DEFINE d == Head(todo).do
             c == Head(todo).count
  <2>1. /\ Ahead(todo') = Ahead(todo) \ {d} /\ d \in Ahead(todo) /\ todo' # <<>>
        /\ \A e \in Ahead(todo') : RpmRank[d] < RpmRank[e]
        /\ d \in NewDoings => c = IF installed = None THEN 1 ELSE 2
        /\ d \in OldDoings => c = IF RpmRemoval THEN 0 ELSE 1
        /\ UNCHANGED installed /\ host'.files = host.files
        /\ d \notin RpmSteps
    BY <1>2, RpmStepTaken, RpmSnippetRuns DEF SameFiles, RpmSteps
  <2>2. host'.account <=> IF d = "pre-account" /\ c = 1 THEN TRUE
                          ELSE host.account /\ ~(d = "postun-purge" /\ c = 0)
    BY <1>2, RpmSnippetRuns, SnippetKeeps
  <2>3. ASSUME d = "postun-purge"
        PROVE  "delete" \notin Ahead(todo) /\ "unpack" \notin Ahead(todo)
    <3>1. "delete" \notin Ahead(todo') /\ "unpack" \notin Ahead(todo')
      BY <2>1, <2>3, RpmRankValues
    <3> QED
      BY <2>1, <2>3, <3>1
  <2>4. RpmRemoval' <=> RpmRemoval
    BY <2>1 DEF RpmRemoval, RpmSteps
  <2>5. host'.files # None => host'.account
    BY <2>1, <2>2, <2>3 DEF RpmRemoval, OldDoings
  <2>6. "unpack" \in Ahead(todo') /\ "pre-account" \notin Ahead(todo') => host'.account
    <3>1. CASE d = "pre-account"
      <4>1. "unpack" \in Ahead(todo') => (installed = None \/ host.account)
        BY <2>1, <3>1 DEF RpmRecord
      <4> QED
        BY <2>1, <2>2, <3>1, <4>1 DEF NewDoings
    <3>2. CASE d # "pre-account"
      BY <2>1, <2>2, <2>3, <3>2
    <3> QED
      BY <3>1, <3>2
  <2>7. "delete" \in Ahead(todo') => "postun-purge" \in Ahead(todo')
    BY <2>1, <2>3
  <2>8. RpmRemoval /\ "postun-purge" \notin Ahead(todo') => ~host'.account
    BY <2>1, <2>2 DEF OldDoings, NewDoings, RpmRemoval
  <2> QED
    BY <2>1, <2>4, <2>5, <2>6, <2>7, <2>8
<1>3. CASE UnpackFiles
  <2>1. "pre-account" \notin Ahead(todo')
    BY <1>3, RpmStepTaken, RpmOwnStepRuns, RpmRankValues
  <2> QED
    BY <1>3, <2>1, RpmStepTaken, RpmOwnStepRuns, NoneAssumption DEF RpmRemoval, RpmRecord
<1>4. CASE DeleteFiles
  BY <1>4, RpmStepTaken, RpmOwnStepRuns DEF RpmRemoval, RpmRecord
<1>5. CASE UpdateDatabase
  <2>1. Ahead(todo) = {"database"} /\ Ahead(todo') = {} /\ todo # <<>>
        /\ installed' = host.files /\ UNCHANGED host
    BY <1>5, RpmStepTaken, RpmOwnStepRuns
  <2> QED
    BY <2>1 DEF RpmRemoval, RpmRecord
<1>6. CASE Beside
  BY <1>6, RpmBesideRuns
<1>7. CASE UNCHANGED machineVars
  BY <1>7 DEF machineVars, RpmRemoval
<1> QED
  BY <1>1, <1>2, <1>3, <1>4, <1>5, <1>6, <1>7 DEF RpmNext

(* A package without a service makes no account.                             *)
LEMMA NoAccountStep ==
    ASSUME RpmTypeOK, RpmShape, RpmRecord, WithoutService, NoAccount, [RpmNext]_machineVars
    PROVE  NoAccount'
<1> USE DEF NoAccount, RpmStill
<1>1. CASE (\E v \in Version : RpmInstall(v) \/ RpmUpgrade(v)) \/ RpmErase
  <2>1. "pre-account" \notin Ahead(todo')
    BY <1>1, Begins, ActRanks DEF WithoutService, PreActs, IfSo
  <2> QED
    BY <1>1, <2>1, Begins
<1>2. CASE RunScriptlet
  BY <1>2, RpmStepTaken, RpmSnippetRuns, SnippetKeeps
<1>3. CASE UnpackFiles \/ DeleteFiles \/ UpdateDatabase
  BY <1>3, RpmStepTaken, RpmOwnStepRuns
<1>4. CASE Beside
  BY <1>4, RpmBesideRuns
<1>5. CASE UNCHANGED machineVars
  BY <1>5 DEF machineVars
<1> QED
  BY <1>1, <1>2, <1>3, <1>4, <1>5 DEF RpmNext

(* A removal takes the runlevel links away, and stops what they started.     *)
LEMMA LinksStep ==
    ASSUME RpmTypeOK, RpmShape, RpmRecord, WithScript, Links, [RpmNext]_machineVars
    PROVE  Links'
<1> USE DEF Links, RpmStill
<1>1. CASE (\E v \in Version : RpmInstall(v) \/ RpmUpgrade(v)) \/ RpmErase
  <2>1. "delete" \in Ahead(todo') => "preun-sysv" \in Ahead(todo')
    BY <1>1, Begins, ActRanks DEF WithScript, PreunActs, IfSo, NewDoings
  <2> QED
    BY <1>1, <2>1, Begins DEF RpmRemoval
<1>2. CASE RunScriptlet
  <2> DEFINE d == Head(todo).do
             c == Head(todo).count
  <2>1. /\ Ahead(todo') = Ahead(todo) \ {d} /\ todo' # <<>>
        /\ d \in NewDoings => c = IF installed = None THEN 1 ELSE 2
        /\ d \in OldDoings => c = IF RpmRemoval THEN 0 ELSE 1
        /\ UNCHANGED installed /\ host'.files = host.files /\ host'.os = host.os
        /\ d \notin RpmSteps
    BY <1>2, RpmStepTaken, RpmSnippetRuns DEF SameFiles, RpmSteps
  <2>2. /\ host'.rc = IF d = "post-sysv" /\ c = 1 /\ host.rc = "none" THEN "on"
                      ELSE IF d = "preun-sysv" /\ c = 0 THEN "none" ELSE host.rc
        /\ d = "preun-sysv" /\ c = 0 => host'.running = None
        /\ host.running = None /\ host'.running # None => d \in {"post-systemd", "post-sysv"} /\ c = 1
    BY <1>2, RpmSnippetRuns, SnippetKeeps
  <2>3. RpmRemoval' <=> RpmRemoval
    BY <2>1 DEF RpmRemoval, RpmSteps
  <2> QED
    BY <2>1, <2>2, <2>3 DEF RpmRemoval, NewDoings, OldDoings
<1>3. CASE UnpackFiles
  BY <1>3, RpmStepTaken, RpmOwnStepRuns, NoneAssumption DEF RpmRemoval, RpmRecord
<1>4. CASE DeleteFiles
  BY <1>4, RpmStepTaken, RpmOwnStepRuns DEF RpmRemoval, RpmRecord
<1>5. CASE UpdateDatabase
  <2>1. Ahead(todo) = {"database"} /\ Ahead(todo') = {} /\ todo # <<>>
        /\ installed' = host.files /\ UNCHANGED host
    BY <1>5, RpmStepTaken, RpmOwnStepRuns
  <2> QED
    BY <2>1 DEF RpmRemoval, RpmRecord
<1>6. CASE Beside
  BY <1>6, RpmBesideRuns
<1>7. CASE UNCHANGED machineVars
  BY <1>7 DEF machineVars, RpmRemoval
<1> QED
  BY <1>1, <1>2, <1>3, <1>4, <1>5, <1>6, <1>7 DEF RpmNext

(* A package without a script makes none.                                    *)
LEMMA NoLinksStep ==
    ASSUME RpmTypeOK, RpmShape, RpmRecord, WithoutScript, NoLinks, [RpmNext]_machineVars
    PROVE  NoLinks'
<1> USE DEF NoLinks, RpmStill
<1>1. CASE (\E v \in Version : RpmInstall(v) \/ RpmUpgrade(v)) \/ RpmErase
  <2>1. "post-sysv" \notin Ahead(todo')
    BY <1>1, Begins, ActRanks DEF WithoutScript, PostActs, IfSo
  <2> QED
    BY <1>1, <2>1, Begins
<1>2. CASE RunScriptlet
  <2>1. Ahead(todo') \subseteq Ahead(todo) /\ Head(todo).do # "post-sysv" /\ host'.os = host.os
    BY <1>2, RpmStepTaken, RpmSnippetRuns DEF SameFiles
  <2>2. /\ host'.rc \in {host.rc, "none"}
        /\ host.running = None /\ host'.running # None => host.os = "systemd"
    BY <1>2, <2>1, RpmSnippetRuns, SnippetKeeps
  <2> QED
    BY <2>1, <2>2
<1>3. CASE UnpackFiles \/ DeleteFiles \/ UpdateDatabase
  BY <1>3, RpmStepTaken, RpmOwnStepRuns
<1>4. CASE Beside
  BY <1>4, RpmBesideRuns
<1>5. CASE UNCHANGED machineVars
  BY <1>5 DEF machineVars
<1> QED
  BY <1>1, <1>2, <1>3, <1>4, <1>5 DEF RpmNext

(* Where the machine has systemd, its units are those of the files.          *)
LEMMA RpmUnitThere ==
    ASSUME RpmTypeOK, RpmRecord
    PROVE  /\ RpmWithUnit => (HasUnit(host) <=> host.files # None)
           /\ RpmWithoutUnit => ~HasUnit(host)
<1>1. host \in Host /\ (host.files # None => host.files \in Version)
  BY DEF RpmTypeOK, MachineOK, Host
<1>2. HasUnit(host) <=> host.files # None /\ Uses("systemd", host.init)
  BY <1>1, Shipped DEF Uses
<1> QED
  BY <1>1, <1>2 DEF RpmWithUnit, RpmWithoutUnit, RpmRecord

(* Without a unit, nothing starts under systemd.                             *)
LEMMA DownStep ==
    ASSUME RpmTypeOK, RpmShape, RpmRecord, host.os = "systemd", RpmWithoutUnit, Down, [RpmNext]_machineVars
    PROVE  Down'
<1> USE DEF Down
<1>1. ~HasUnit(host)
  BY RpmUnitThere
<1>2. CASE (\E v \in Version : RpmInstall(v) \/ RpmUpgrade(v)) \/ RpmErase
  BY <1>2, Begins
<1>3. CASE RunScriptlet
  BY <1>1, <1>3, RpmSnippetRuns, SnippetKeeps
<1>4. CASE UnpackFiles \/ DeleteFiles \/ UpdateDatabase
  BY <1>4, RpmOwnStepRuns
<1>5. CASE Beside
  BY <1>1, <1>5, RpmBesideRuns, AdministerOnSystemd
<1>6. CASE UNCHANGED machineVars
  BY <1>6 DEF machineVars
<1> QED
  BY <1>2, <1>3, <1>4, <1>5, <1>6 DEF RpmNext

(* With one, the new version's %post reads it, and the old one's %postun     *)
(* restarts it.                                                              *)
LEMMA RpmPendingStep ==
    ASSUME RpmTypeOK, RpmShape, RpmRecord, RpmWithUnit, RpmPending, [RpmNext]_machineVars
    PROVE  RpmPending'
<1> USE DEF RpmPending, RpmStill
<1>1. CASE (\E v \in Version : RpmInstall(v) \/ RpmUpgrade(v)) \/ RpmErase
  <2>1. /\ "unpack" \in Ahead(todo') =>
             /\ "post-logdir" \in Ahead(todo') /\ "post-systemd" \in Ahead(todo')
             /\ installed # None => "postun-systemd" \in Ahead(todo')
        /\ "post-systemd" \in Ahead(todo') /\ installed # None => "postun-systemd" \in Ahead(todo')
    BY <1>1, Begins, ActRanks, NoneAssumption
       DEF RpmWithUnit, Uses, PreActs, PostActs, PreunActs, PostunActs, IfSo, NewDoings
  <2> QED
    BY <1>1, <2>1, Begins
<1>2. CASE RunScriptlet
  <2> DEFINE d == Head(todo).do
  <2>1. /\ Ahead(todo') = Ahead(todo) \ {d} /\ d \in Ahead(todo)
        /\ \A e \in Ahead(todo') : RpmRank[d] < RpmRank[e]
        /\ UNCHANGED installed /\ host'.files = host.files
    BY <1>2, RpmStepTaken, RpmSnippetRuns DEF SameFiles
  <2>2. "unpack" \in Ahead(todo') => d \notin {"post-logdir", "post-systemd", "postun-systemd"}
    BY <2>1, RpmRankValues
  <2>3. "post-systemd" \in Ahead(todo') => d # "postun-systemd"
    BY <2>1, RpmRankValues
  <2> QED
    BY <2>1, <2>2, <2>3
<1>3. CASE UnpackFiles
  BY <1>3, RpmStepTaken, RpmOwnStepRuns
<1>4. CASE DeleteFiles
  BY <1>4, RpmStepTaken, RpmOwnStepRuns DEF RpmRecord
<1>5. CASE UpdateDatabase
  BY <1>5, RpmStepTaken, RpmOwnStepRuns
<1>6. CASE Beside
  BY <1>6, RpmBesideRuns
<1>7. CASE UNCHANGED machineVars
  BY <1>7 DEF machineVars
<1> QED
  BY <1>1, <1>2, <1>3, <1>4, <1>5, <1>6, <1>7 DEF RpmNext

(* What the unit needs, and what is in use.                                  *)
LEMMA RpmReadyStep ==
    ASSUME RpmTypeOK, RpmShape, RpmRecord, host.os = "systemd", RpmWithUnit, WithService => Account,
           RpmPending, RpmReady, RpmClean, [RpmNext]_machineVars
    PROVE  RpmReady'
<1> USE DEF RpmReady, RpmStill, MaskedIsDown
<1>1. CASE (\E v \in Version : RpmInstall(v) \/ RpmUpgrade(v)) \/ RpmErase
  BY <1>1, Begins
<1>2. CASE RunScriptlet
  <2> DEFINE d == Head(todo).do
             c == Head(todo).count
  <2>1. /\ Ahead(todo') = Ahead(todo) \ {d} /\ d \in Ahead(todo)
        /\ \A e \in Ahead(todo') : RpmRank[d] < RpmRank[e]
        /\ d \in NewDoings => c = IF installed = None THEN 1 ELSE 2
        /\ d \in OldDoings => c = IF RpmRemoval THEN 0 ELSE 1
        /\ UNCHANGED installed /\ host'.files = host.files /\ host'.mask = host.mask
        /\ Head(todo) \in RpmStepSet /\ d \notin RpmSteps /\ host' = RpmAfter(Head(todo), host)
        /\ host \in Host
    BY <1>2, RpmStepTaken, RpmSnippetRuns DEF SameFiles
  <2>2. HasUnit(host) <=> host.files # None
    BY RpmUnitThere
  <2>3. WithService
    BY DEF RpmWithUnit, Uses, WithService
  <2>4. host.files # None => host.account
    BY <2>3 DEF Account
  <2>5. /\ host.logdir \/ (d = "post-logdir" /\ host.account) => host'.logdir
        /\ host.running = None /\ host'.running # None => host.mask = "none"
    BY <2>1, SnippetKeeps
  <2>6. ASSUME host.files # None
        PROVE  /\ d \in {"post-systemd", "postun-systemd"} \/ host.loaded = host.files
                     => host'.loaded = host.files
               /\ host'.running # host.running =>
                     d \in {"post-systemd", "post-sysv", "preun-systemd", "preun-sysv", "postun-systemd"}
               /\ d = "post-systemd" \/ (d = "post-sysv" /\ host.loaded = host.files)
                     => host'.running \in {host.running, host.files}
               /\ d \in {"preun-systemd", "preun-sysv"} /\ c # 0 => host'.running = host.running
               /\ d = "postun-systemd" /\ c # 0 => host'.running \in {None, host.files}
    BY <2>1, <2>2, <2>6, SnippetServes
  <2>7. ASSUME d = "post-sysv" PROVE host.files # None => host.loaded = host.files
    <3>1. "post-systemd" \notin Ahead(todo')
      BY <2>1, <2>7, RpmRankValues
    <3> QED
      BY <2>1, <2>7, <3>1
  <2>8. ASSUME d = "postun-systemd", host.files # None PROVE c # 0
    <3>1. "delete" \notin Ahead(todo')
      BY <2>1, <2>8, RpmRankValues
    <3> QED
      BY <2>1, <2>8, <3>1 DEF RpmRemoval, OldDoings
  <2>9. ASSUME d \in {"preun-systemd", "preun-sysv"}, c = 0, host.files # None
        PROVE  host'.running \in {None, host.running}
    <3>1. host.running # host'.running => host'.running = None
      BY <2>1, <2>9, SnippetKeeps, SnippetServes DEF RpmAfter, PreunSystemd, PreunSysv, Stop, Host
    <3> QED
      BY <3>1
  <2>10. host'.files # None /\ (installed' # None \/ "post-logdir" \notin Ahead(todo'))
           => host'.logdir
    BY <2>1, <2>4, <2>5
  <2>11. host'.files # None /\ "post-systemd" \notin Ahead(todo') => host'.loaded = host'.files
    BY <2>1, <2>6
  <2>12. host'.files # None /\ "postun-systemd" \notin Ahead(todo')
           => host'.running \in {None, host'.files}
    BY <2>1, <2>6, <2>7, <2>8, <2>9
  <2>13. host'.mask # "none" => host'.running = None
    BY <2>1, <2>5
  <2> QED
    BY <2>10, <2>11, <2>12, <2>13
<1>3. CASE UnpackFiles
  BY <1>3, RpmStepTaken, RpmOwnStepRuns DEF RpmPending, RpmRecord, RpmClean
<1>4. CASE DeleteFiles
  BY <1>4, RpmStepTaken, RpmOwnStepRuns
<1>5. CASE UpdateDatabase
  BY <1>5, RpmStepTaken, RpmOwnStepRuns
<1>6. CASE Beside
  <2>1. HasUnit(host) <=> host.files # None
    BY RpmUnitThere
  <2>2. /\ todo' = todo /\ UNCHANGED installed /\ host'.files = host.files /\ installed # None
        /\ host.logdir => host'.logdir
        /\ host.files # None /\ host.loaded = host.files => host'.loaded = host.files
        /\ host.files # None /\ Current(host) => Current(host')
        /\ MaskedIsDown(host) => MaskedIsDown(host')
    BY <1>6, <2>1, RpmBesideRuns, AdministerOnSystemd
  <2> QED
    BY <2>2 DEF RpmPending, Current
<1>7. CASE UNCHANGED machineVars
  BY <1>7 DEF machineVars
<1> QED
  BY <1>1, <1>2, <1>3, <1>4, <1>5, <1>6, <1>7 DEF RpmNext

(* Before the first start and after a removal.                               *)
LEMMA RpmCleanStep ==
    ASSUME RpmTypeOK, RpmShape, RpmRecord, host.os = "systemd", RpmWithUnit, RpmPending, RpmClean, [RpmNext]_machineVars
    PROVE  RpmClean'
<1> USE DEF RpmClean, RpmStill
<1>1. CASE (\E v \in Version : RpmInstall(v) \/ RpmUpgrade(v)) \/ RpmErase
  <2>1. "delete" \in Ahead(todo') => "preun-systemd" \in Ahead(todo')
    BY <1>1, Begins, ActRanks DEF RpmWithUnit, PreunActs, IfSo, NewDoings
  <2> QED
    BY <1>1, <2>1, Begins DEF RpmRemoval
<1>2. CASE RunScriptlet
  <2> DEFINE d == Head(todo).do
             c == Head(todo).count
  <2>1. /\ Ahead(todo') = Ahead(todo) \ {d} /\ d \in Ahead(todo) /\ todo' # <<>>
        /\ \A e \in Ahead(todo') : RpmRank[d] < RpmRank[e]
        /\ d \in NewDoings => c = IF installed = None THEN 1 ELSE 2
        /\ d \in OldDoings => c = IF RpmRemoval THEN 0 ELSE 1
        /\ UNCHANGED installed /\ host'.files = host.files
        /\ d \notin RpmSteps
    BY <1>2, RpmStepTaken, RpmSnippetRuns DEF SameFiles, RpmSteps
  <2>2. /\ host'.enabled /\ ~host.enabled => d = "post-systemd" /\ c = 1
        /\ d = "preun-systemd" /\ c = 0 => ~host'.enabled /\ host'.running = None
        /\ host.running = None /\ host'.running # None => d \in {"post-systemd", "post-sysv"} /\ c = 1
    BY <1>2, RpmSnippetRuns, SnippetKeeps
  <2>3. RpmRemoval' <=> RpmRemoval
    BY <2>1 DEF RpmRemoval, RpmSteps
  <2>4. "post-systemd" \in Ahead(todo') => d \notin {"post-systemd", "post-sysv"}
    BY <2>1, RpmRankValues
  <2>5. RpmRemoval => installed # None
    BY DEF RpmRemoval
  <2>6. host.files = None => (host'.enabled => host.enabled) /\ host'.running \in {None, host.running}
    <3>1. HasUnit(host) <=> host.files # None
      BY RpmUnitThere
    <3> QED
      BY <1>2, <3>1, RpmSnippetRuns, SnippetKeeps
  <2> QED
    BY <2>1, <2>2, <2>3, <2>4, <2>5, <2>6 DEF NewDoings, OldDoings
<1>3. CASE UnpackFiles
  BY <1>3, RpmStepTaken, RpmOwnStepRuns, NoneAssumption DEF RpmRemoval, RpmRecord
<1>4. CASE DeleteFiles
  <2>1. "preun-systemd" \notin Ahead(todo')
    BY <1>4, RpmStepTaken, RpmOwnStepRuns, RpmRankValues
  <2> QED
    BY <1>4, <2>1, RpmStepTaken, RpmOwnStepRuns DEF RpmRemoval, RpmRecord
<1>5. CASE UpdateDatabase
  <2>1. Ahead(todo) = {"database"} /\ Ahead(todo') = {} /\ todo # <<>>
        /\ installed' = host.files /\ UNCHANGED host
    BY <1>5, RpmStepTaken, RpmOwnStepRuns
  <2> QED
    BY <2>1 DEF RpmRemoval, RpmRecord
<1>6. CASE Beside
  <2>1. HasUnit(host) => host.files # None
    BY DEF HasUnit, Ships
  <2>2. Removing <=> RpmStill("delete")
    BY DEF Removing, RpmStill, Ahead
  <2>3. /\ todo' = todo /\ UNCHANGED installed /\ installed # None /\ (RpmRemoval' <=> RpmRemoval)
        /\ host'.files = host.files
        /\ host'.enabled => host.enabled \/ (HasUnit(host) /\ ~Removing)
        /\ host'.running \in {None, host.running} \/ (HasUnit(host) /\ ~Removing)
    BY <1>6, RpmBesideRuns, AdministerOnSystemd
  <2> QED
    BY <2>1, <2>2, <2>3 DEF RpmRemoval
<1>7. CASE UNCHANGED machineVars
  BY <1>7 DEF machineVars, RpmRemoval
<1> QED
  BY <1>1, <1>2, <1>3, <1>4, <1>5, <1>6, <1>7 DEF RpmNext

(* An enabled service runs.                                                  *)
LEMMA RpmRunsStep ==
    ASSUME RpmTypeOK, RpmShape, RpmRecord, host.os = "systemd", RpmWithUnit, WithService => Account,
           RpmPending, RpmReady, RpmClean, RpmRuns, "delete-defaults" \notin AdminActs, [RpmNext]_machineVars
    PROVE  RpmRuns'
<1> USE DEF RpmRuns, UpOrStopped, RpmStill
<1>1. CASE (\E v \in Version : RpmInstall(v) \/ RpmUpgrade(v)) \/ RpmErase
  BY <1>1, Begins
<1>2. CASE RunScriptlet
  <2> DEFINE d == Head(todo).do
             c == Head(todo).count
  <2>1. /\ Ahead(todo') = Ahead(todo) \ {d} /\ d \in Ahead(todo)
        /\ \A e \in Ahead(todo') : RpmRank[d] < RpmRank[e]
        /\ d \in NewDoings => c = IF installed = None THEN 1 ELSE 2
        /\ d \in OldDoings => c = IF RpmRemoval THEN 0 ELSE 1
        /\ host'.files = host.files /\ host'.mask = host.mask /\ host'.defaults = host.defaults
        /\ Head(todo) \in RpmStepSet /\ d \notin RpmSteps /\ host' = RpmAfter(Head(todo), host)
        /\ host \in Host /\ host' \in Host
        /\ admin'.stopped <=> admin.stopped /\ host'.running = None
    BY <1>2, RpmStepTaken, RpmSnippetRuns DEF SameFiles
  <2>2. HasUnit(host) <=> host.files # None
    BY RpmUnitThere
  <2>3. host.files # None => host.account
    BY DEF RpmWithUnit, Uses, WithService, Account
  <2>4. /\ host'.enabled /\ ~host.enabled =>
              d = "post-systemd" /\ c = 1 /\ HasUnit(host) /\ host.mask = "none"
        /\ d = "preun-systemd" /\ c = 0 => ~host'.enabled
        /\ host.running = None /\ host'.running # None => host.mask = "none"
    BY <2>1, SnippetKeeps
  <2>5. ASSUME host.files # None, d \in {"post-systemd", "postun-systemd"} PROVE Equipped(host)
    <3>1. "post-logdir" \notin Ahead(todo')
      BY <2>1, <2>5, RpmRankValues
    <3> QED
      BY <2>1, <2>2, <2>3, <2>5, <3>1 DEF RpmReady, Equipped
  <2>6. ASSUME d = "preun-sysv", c = 0 PROVE ~host.enabled
    <3>1. "preun-systemd" \notin Ahead(todo')
      BY <2>1, <2>6, RpmRankValues
    <3>2. RpmRemoval
      BY <2>1, <2>6 DEF OldDoings
    <3> QED
      BY <2>1, <2>6, <3>1, <3>2 DEF RpmClean
  <2>7. host.files = None => ~host.enabled
    BY DEF RpmClean
  <2>8. CASE host.files = None
    BY <2>1, <2>2, <2>4, <2>7, <2>8
  <2>9. CASE host.files # None
    <3>1. /\ d = "post-systemd" /\ c = 1 /\ host.mask = "none" /\ Equipped(host) => host'.running # None
          /\ d = "postun-systemd" /\ host.running # None /\ host.mask = "none" /\ Equipped(host)
                => host'.running # None
          /\ host'.running # host.running =>
                 d \in {"post-systemd", "post-sysv", "preun-systemd", "preun-sysv", "postun-systemd"}
          /\ d \in {"preun-systemd", "preun-sysv"} /\ c # 0 => host'.running = host.running
          /\ d \in {"post-systemd", "post-sysv"} /\ c # 1 => host'.running = host.running
          /\ d = "post-sysv" /\ host.running # None => host'.running = host.running
      BY <2>1, <2>2, <2>9, SnippetServes
    <3>2. ASSUME host'.enabled, host'.mask # "none" PROVE admin'.stopped
      BY <2>1, <2>4, <3>2 DEF RpmReady, MaskedIsDown
    <3>3. ASSUME host'.enabled, ~admin'.stopped, host'.running = None PROVE FALSE
      BY <2>1, <2>2, <2>4, <2>5, <2>6, <2>9, <3>1, <3>2, <3>3 DEF RpmReady, MaskedIsDown
    <3> QED
      BY <2>1, <3>2, <3>3
  <2> QED
    BY <2>8, <2>9
<1>3. CASE UnpackFiles
  BY <1>3, RpmStepTaken, RpmOwnStepRuns, NoneAssumption DEF RpmWithUnit, Uses, RpmRecord
<1>4. CASE DeleteFiles
  BY <1>4, RpmStepTaken, RpmOwnStepRuns
<1>5. CASE UpdateDatabase
  BY <1>5, RpmStepTaken, RpmOwnStepRuns DEF RpmClean
<1>6. CASE Beside
  <2>1. HasUnit(host) <=> host.files # None
    BY RpmUnitThere
  <2>2. /\ host'.files = host.files /\ installed # None /\ host \in Host /\ admin \in Decisions
        /\ Administer
    BY <1>6, RpmBesideRuns
  <2>3. /\ host'.defaults = host.defaults
        /\ host'.enabled => host.enabled \/ HasUnit(host)
        /\ Equipped(host) /\ MaskedIsDown(host) => UpOrStopped(host', admin')
    BY <2>2, AdministerOnSystemd
  <2>4. CASE host.files = None
    BY <2>1, <2>2, <2>3, <2>4 DEF RpmClean
  <2>5. CASE host.files # None
    <3>1. WithService
      BY DEF RpmWithUnit, Uses, WithService
    <3>2. Equipped(host)
      BY <2>1, <2>2, <2>5, <3>1 DEF Equipped, RpmReady, Account
    <3> QED
      BY <2>2, <2>3, <2>5, <3>2 DEF RpmReady
  <2> QED
    BY <2>4, <2>5
<1>7. CASE UNCHANGED machineVars
  BY <1>7 DEF machineVars
<1> QED
  BY <1>1, <1>2, <1>3, <1>4, <1>5, <1>6, <1>7 DEF RpmNext

-----------------------------------------------------------------------------
(* Nothing moves a machine to another init system, and no package changes.   *)
LEMMA SystemStays ==
    ASSUME RpmTypeOK, RpmShape, RpmRecord, [RpmNext]_machineVars
    PROVE  host'.os = host.os /\ UNCHANGED <<built, policy>>
<1>1. CASE (\E v \in Version : RpmInstall(v) \/ RpmUpgrade(v)) \/ RpmErase
  BY <1>1, Begins
<1>2. CASE RunScriptlet
  BY <1>2, RpmSnippetRuns DEF SameFiles
<1>3. CASE UnpackFiles \/ DeleteFiles \/ UpdateDatabase
  BY <1>3, RpmOwnStepRuns
<1>4. CASE Beside
  BY <1>4, RpmBesideRuns
<1>5. CASE UNCHANGED machineVars
  BY <1>5 DEF machineVars
<1> QED
  BY <1>1, <1>2, <1>3, <1>4, <1>5 DEF RpmNext

(* A machine of a known init system, before anything is installed.           *)
LEMMA RpmInvariantInit ==
    ASSUME Systems \subseteq {"systemd", "sysv", "upstart"}
    PROVE  RpmInit => RpmInv
<1> SUFFICES ASSUME RpmInit PROVE RpmInv
  OBVIOUS
<1>1. /\ todo = <<>> /\ Ahead(todo) = {} /\ installed = None /\ admin = NoDecision
      /\ host.os \in Systems /\ host.files = None /\ host.running = None /\ host.enabled = FALSE
      /\ host.account = FALSE /\ host.rc = "none" /\ host.mask = "none" /\ host.defaults = "never"
  BY DEF RpmInit, InitOn, CleanHost, Ahead
<1>2. host \in Host
  <2>1. PICK os \in Systems : host = CleanHost(os)
    BY DEF RpmInit, InitOn
  <2>2. os \in {"systemd", "sysv", "upstart"}
    OBVIOUS
  <2> QED
    BY <2>1, <2>2 DEF CleanHost, Host, InitSystem
<1>3. RpmTypeOK
  BY <1>1, <1>2 DEF RpmInit, InitOn, RpmTypeOK, MachineOK, Decisions, NoDecision, Idle
<1>4. RpmShape /\ RpmRecord /\ RpmDecided
  BY <1>1 DEF RpmShape, RpmRecord, RpmDecided, InOrder, RpmStill, NoDecision
<1>5. Account /\ NoAccount /\ Links /\ NoLinks
  BY <1>1 DEF Account, NoAccount, Links, NoLinks, RpmRemoval, RpmStill
<1>6. RpmPending /\ RpmReady /\ RpmClean /\ RpmRuns /\ Down
  BY <1>1 DEF RpmPending, RpmReady, RpmClean, RpmRuns, Down, MaskedIsDown, UpOrStopped, RpmRemoval, RpmStill
<1> QED
  BY <1>1, <1>3, <1>4, <1>5, <1>6 DEF RpmInv

(* Every step keeps it.                                                      *)
LEMMA RpmInvariantStep == RpmInv /\ [RpmNext]_machineVars => RpmInv'
<1> SUFFICES ASSUME RpmInv, [RpmNext]_machineVars PROVE RpmInv'
  OBVIOUS
<1> USE DEF RpmInv
<1>1. RpmTypeOK' /\ RpmShape' /\ RpmRecord'
  BY RpmStructureStep
<1>2. RpmDecided'
  BY RpmDecidedStep
<1>3. host'.os = host.os /\ built' = built
  BY SystemStays
<1>4. /\ WithService' <=> WithService
      /\ WithoutService' <=> WithoutService
      /\ RpmWithUnit' <=> RpmWithUnit
      /\ RpmWithoutUnit' <=> RpmWithoutUnit
      /\ WithScript' <=> WithScript
      /\ WithoutScript' <=> WithoutScript
  BY <1>3 DEF WithService, WithoutService, RpmWithUnit, RpmWithoutUnit, WithScript, WithoutScript
<1>5. (WithService => Account') /\ (WithoutService => NoAccount')
  BY AccountStep, NoAccountStep
<1>6. (WithScript => Links') /\ (WithoutScript => NoLinks')
  BY LinksStep, NoLinksStep
<1>7. ASSUME host.os = "systemd"
      PROVE  /\ RpmWithoutUnit => Down'
             /\ RpmWithUnit => RpmPending' /\ RpmReady' /\ RpmClean'
             /\ RpmWithUnit /\ "delete-defaults" \notin AdminActs => RpmRuns'
  BY <1>7, DownStep, RpmPendingStep, RpmReadyStep, RpmCleanStep, RpmRunsStep
<1> QED
  BY <1>1, <1>2, <1>3, <1>4, <1>5, <1>6, <1>7

(* Packages whose `init` does not change all ship a file, or none of them.   *)
LEMMA ShippedOrNot ==
    SameInit => /\ WithService \/ WithoutService
                /\ RpmWithUnit \/ RpmWithoutUnit
                /\ WithScript \/ WithoutScript
  BY DEF SameInit, WithService, WithoutService, RpmWithUnit, RpmWithoutUnit, WithScript, WithoutScript

(* The invariant gives each property of the module.  Upstart is left out of  *)
(* removal: nothing in %preun stops a job.                                   *)
LEMMA RpmConsequences ==
    ASSUME RpmInv
    PROVE  /\ RpmTypeOK
           /\ RpmRunningIsCurrent
           /\ "delete-defaults" \notin AdminActs => RpmEnabledMeansRunning
           /\ RpmDecisionsSurvive
           /\ "upstart" \notin Systems => RpmRemovalLeavesNothing
<1> USE DEF RpmInv
<1>1. todo = <<>> => Ahead(todo) = {} /\ installed = host.files
  BY DEF Ahead, RpmTypeOK, MachineOK, Idle
<1>2. /\ host.running \in Version \cup {None, "mixed"}
      /\ host.os \in {"systemd", "sysv", "upstart"}
  BY DEF RpmTypeOK, MachineOK, Host
<1>3. RpmRunningIsCurrent
  BY <1>1, ShippedOrNot DEF RpmRunningIsCurrent, Settled, Idle, Down, RpmReady, RpmStill
<1>4. "delete-defaults" \notin AdminActs => RpmEnabledMeansRunning
  BY <1>1, <1>2, ShippedOrNot
     DEF RpmEnabledMeansRunning, Settled, Idle, Down, RpmReady, RpmRuns, UpOrStopped, RpmStill
<1>5. RpmDecisionsSurvive
  BY DEF RpmDecisionsSurvive, RpmDecided, Enabled
<1>6. ASSUME "upstart" \notin Systems, Idle, installed = None, SameInit
      PROVE  host.running = None /\ ~host.enabled /\ host.rc = "none" /\ ~host.account
  <2>1. todo = <<>> /\ host.files = None /\ host.os \in {"systemd", "sysv"}
    BY <1>1, <1>2, <1>6 DEF Idle
  <2>2. ~host.account
    BY <1>6, <2>1, ShippedOrNot DEF Account, NoAccount
  <2>3. host.rc = "none" /\ (host.os = "sysv" => host.running = None)
    BY <1>6, <2>1, ShippedOrNot DEF Links, NoLinks
  <2>4. ~host.enabled /\ (host.os = "systemd" => host.running = None)
    BY <1>6, <2>1, ShippedOrNot DEF RpmClean, Down, RpmRecord
  <2> QED
    BY <2>1, <2>2, <2>3, <2>4
<1> QED
  BY <1>3, <1>4, <1>5, <1>6 DEF RpmRemovalLeavesNothing

(* Under an administrator's preset that disables, no scriptlet and no step   *)
(* of rpm's own turns the unit on.                                           *)
LEMMA RpmPolicyStep ==
    ASSUME RpmInv, [RpmNext]_machineVars, policy = "disable", host'.enabled, ~host.enabled
    PROVE  Administer
<1> USE DEF RpmInv
<1>1. CASE (\E v \in Version : RpmInstall(v) \/ RpmUpgrade(v)) \/ RpmErase
  BY <1>1, Begins
<1>2. CASE RunScriptlet
  BY <1>2, RpmSnippetRuns, SnippetKeeps
<1>3. CASE UnpackFiles \/ DeleteFiles \/ UpdateDatabase
  BY <1>3, RpmOwnStepRuns
<1>4. CASE Beside
  BY <1>4 DEF Beside
<1>5. CASE UNCHANGED machineVars
  BY <1>5 DEF machineVars
<1> QED
  BY <1>1, <1>2, <1>3, <1>4, <1>5 DEF RpmNext

-----------------------------------------------------------------------------
(* ARCH                                                                      *)

(* The steps, in the order in which they come in any operation.              *)
ArchDoings == {"systemd-stop", "delete", "unpack", "npm-install", "account", "logdir",
               "systemd-reload", "systemd-enable", "systemd-start", "systemd-restart",
               "purge", "database"}
ArchRank == [d \in ArchDoings |->
    CASE d = "systemd-stop" -> 1 [] d = "delete" -> 2 [] d = "unpack" -> 3
      [] d = "npm-install" -> 4 [] d = "account" -> 5 [] d = "logdir" -> 6
      [] d = "systemd-reload" -> 7 [] d = "systemd-enable" -> 8 [] d = "systemd-start" -> 9
      [] d = "systemd-restart" -> 10 [] d = "purge" -> 11 [] d = "database" -> 12]

(* What the first installation does with the service.                        *)
Installing == {"account", "logdir", "systemd-reload", "systemd-enable", "systemd-start"}

(* The place of each step.                                                   *)
LEMMA ArchRankValues ==
    /\ ArchRank \in [ArchDoings -> Nat]
    /\ ArchRank["systemd-stop"] = 1 /\ ArchRank["delete"] = 2 /\ ArchRank["unpack"] = 3
    /\ ArchRank["npm-install"] = 4 /\ ArchRank["account"] = 5 /\ ArchRank["logdir"] = 6
    /\ ArchRank["systemd-reload"] = 7 /\ ArchRank["systemd-enable"] = 8 /\ ArchRank["systemd-start"] = 9
    /\ ArchRank["systemd-restart"] = 10 /\ ArchRank["purge"] = 11 /\ ArchRank["database"] = 12
  BY DEF ArchRank, ArchDoings

(* What each function of .INSTALL does, and in which order.                  *)
LEMMA Functions ==
    ASSUME NEW init \in InitSystem
    PROVE  LET OfUnit(acts) == IF ArchUsesPreset(init) THEN acts ELSE {} IN
           /\ Script(ArchPostInstall(init, "npm-install"), ArchDoings,
                     {"npm-install"} \cup OfUnit(Installing), ArchRank)
           /\ Script(ArchPostUpgrade(init), ArchDoings,
                     OfUnit({"systemd-reload", "systemd-restart"}), ArchRank)
           /\ Script(ArchPreRemove(init), ArchDoings, OfUnit({"systemd-stop"}), ArchRank)
           /\ Script(ArchPostRemove(init), ArchDoings, OfUnit({"systemd-reload", "purge"}), ArchRank)
<1> DEFINE start == <<"account", "logdir", "systemd-reload", "systemd-enable", "systemd-start">>
           npm == <<"npm-install">>
           uses == ArchUsesPreset(init)
<1>1. Script(start, ArchDoings, Installing, ArchRank)
  <2>1. start \in Seq(ArchDoings)
    BY DEF ArchDoings
  <2>2. NamesOf(start) = Installing
    BY DEF NamesOf, Installing
  <2>3. Ascending(start, ArchRank)
    BY ArchRankValues DEF Ascending, ArchDoings
  <2> QED
    BY <2>1, <2>2, <2>3 DEF Script
<1>2. Script(npm, ArchDoings, {"npm-install"}, ArchRank)
  BY DEF Script, NamesOf, Ascending, ArchDoings
<1>3. Script(<<"systemd-stop">>, ArchDoings, {"systemd-stop"}, ArchRank)
  BY DEF Script, NamesOf, Ascending, ArchDoings
<1>4. Script(<<"systemd-reload", "systemd-restart">>, ArchDoings,
             {"systemd-reload", "systemd-restart"}, ArchRank)
  BY ArchRankValues DEF Script, NamesOf, Ascending, ArchDoings
<1>5. Script(<<"systemd-reload", "purge">>, ArchDoings, {"systemd-reload", "purge"}, ArchRank)
  BY ArchRankValues DEF Script, NamesOf, Ascending, ArchDoings
<1>6. uses \in BOOLEAN
  BY DEF ArchUsesPreset
<1>7. Script(If(TRUE, npm) \o If(uses, start), ArchDoings,
             {"npm-install"} \cup IF uses THEN Installing ELSE {}, ArchRank)
  <2>1. Script(If(TRUE, npm), ArchDoings, {"npm-install"}, ArchRank)
    BY <1>2 DEF If
  <2>2. \A d \in {"npm-install"} : \A e \in IF uses THEN Installing ELSE {} : ArchRank[d] < ArchRank[e]
    BY ArchRankValues DEF Installing
  <2> HIDE DEF npm, start, uses
  <2>3. Script(If(uses, start), ArchDoings, IF uses THEN Installing ELSE {}, ArchRank)
    BY <1>1, <1>6, IfScript
  <2> QED
    BY <2>1, <2>2, <2>3, ConcatScripts
<1>8. ArchPostInstall(init, "npm-install") = If(TRUE, npm) \o If(uses, start)
  BY DEF ArchPostInstall
<1> HIDE DEF start, npm, uses
<1>9. Script(If(uses, <<"systemd-reload", "systemd-restart">>), ArchDoings,
             IF uses THEN {"systemd-reload", "systemd-restart"} ELSE {}, ArchRank)
  BY <1>4, <1>6, IfScript
<1>10. Script(If(uses, <<"systemd-stop">>), ArchDoings, IF uses THEN {"systemd-stop"} ELSE {}, ArchRank)
  BY <1>3, <1>6, IfScript
<1>11. Script(If(uses, <<"systemd-reload", "purge">>), ArchDoings,
              IF uses THEN {"systemd-reload", "purge"} ELSE {}, ArchRank)
  BY <1>5, <1>6, IfScript
<1> QED
  BY <1>7, <1>8, <1>9, <1>10, <1>11 DEF uses, ArchPostUpgrade, ArchPreRemove, ArchPostRemove

-----------------------------------------------------------------------------
(* The inductive invariant.                                                  *)

ArchStepSet == [do : ArchDoings, version : Version \cup {None}]
ArchStill(d) == d \in Ahead(todo)

(* An operation's steps come in a fixed order and end with the database,     *)
(* which then says what the other steps did.                                 *)
ArchShape ==
    /\ todo \in Seq(ArchStepSet)
    /\ InOrder(todo, ArchRank)
    /\ todo # <<>> => ArchStill("database")
    /\ \A i \in DOMAIN todo :
          /\ todo[i].do = "unpack" => todo[i].version \in Version
          /\ todo[i].do = "database" =>
                /\ \A j \in DOMAIN todo : todo[j].do = "unpack" => todo[j].version = todo[i].version
                /\ ArchStill("delete") => todo[i].version = None
                /\ ~ArchStill("unpack") /\ ~ArchStill("delete") => todo[i].version = host.files

(* The record lags behind the files only between the two.                    *)
ArchRecord ==
    /\ todo = <<>> \/ ArchStill("unpack") \/ ArchStill("delete") => installed = host.files
    /\ ArchStill("delete") => installed # None /\ ~ArchStill("unpack")
    /\ host.files # None => host.init = built[host.files]
    /\ host.os = "systemd"

(* What is done only on a first install, when no decision stands yet.        *)
ArchDecided ==
    /\ installed = None => admin = NoDecision
    /\ ArchStill("systemd-enable") \/ ArchStill("systemd-start") => installed = None
    /\ ArchDecisionsSurvive

ArchRemoval == installed # None /\ (ArchStill("delete") \/ host.files = None)

ArchWithUnit == \A v \in Version : ArchUsesPreset(built[v])
ArchWithoutUnit == \A v \in Version : ~ArchUsesPreset(built[v])

(* A package without a unit never does anything to the service.              *)
Untouched ==
    /\ host.running = None /\ ~host.enabled /\ ~host.account
    /\ Ahead(todo) \subseteq {"npm-install", "unpack", "delete", "database"}

(* What is still to be done for a step that was done.                        *)
ArchPending ==
    /\ ArchStill("unpack") => IF installed = None THEN Installing \subseteq Ahead(todo)
                              ELSE {"systemd-reload", "systemd-restart"} \subseteq Ahead(todo)
    /\ ArchStill("delete") => {"systemd-reload", "purge"} \subseteq Ahead(todo)
    /\ ArchStill("account") \/ ArchStill("logdir") => installed = None
    /\ ArchStill("systemd-enable") => ArchStill("systemd-start")
    /\ ArchStill("systemd-stop") => ArchStill("delete") /\ host.files # None
    /\ todo # <<>> /\ installed = None /\ ~ArchStill("unpack") => host.files # None
    /\ ArchStill("purge") => ~ArchStill("unpack") /\ (ArchStill("delete") \/ host.files = None)
    /\ host.files # None /\ ArchStill("systemd-reload") /\ installed # None
          => ArchStill("delete") \/ ArchStill("systemd-restart")
    /\ host.mask # "own"

(* What the unit needs is there, and what was replaced is not in use.        *)
ArchReady ==
    /\ host.files # None /\ ~ArchStill("account") => host.account
    /\ host.files # None /\ ~ArchStill("logdir") => host.logdir
    /\ host.files # None /\ ~ArchStill("systemd-reload") => host.loaded = host.files
    /\ host.files # None /\ ~ArchStill("systemd-restart") => host.running \in {None, host.files}
    /\ host.mask # "none" => host.running = None

(* Before the first start nothing runs or is enabled, and after a removal    *)
(* nothing is left.                                                          *)
ArchClean ==
    /\ ArchStill("systemd-start") => host.running = None
    /\ ArchStill("systemd-enable") => ~host.enabled
    /\ todo = <<>> /\ installed = None => host.running = None /\ ~host.enabled /\ ~host.account
    /\ ArchRemoval /\ ~ArchStill("systemd-stop") => host.running = None /\ ~host.enabled
    /\ installed # None /\ host.files = None /\ ~ArchStill("purge") => ~host.account

(* An enabled service runs unless somebody stopped it, as long as nobody     *)
(* takes away its defaults file.                                             *)
ArchRuns ==
    /\ host.mask # "none" /\ host.enabled => admin.stopped
    /\ host.defaults = IF host.files = None THEN "never" ELSE "present"
    /\ host.files # None /\ ~ArchStill("systemd-start") /\ host.enabled /\ ~admin.stopped
          => host.running # None

ArchInv ==
    /\ MachineOK /\ ArchShape /\ ArchRecord /\ ArchDecided
    /\ ArchWithoutUnit => Untouched
    /\ ArchWithUnit => ArchPending /\ ArchReady /\ ArchClean
    /\ ArchWithUnit /\ "delete-defaults" \notin AdminActs => ArchRuns

-----------------------------------------------------------------------------
(* The steps of the operations.                                              *)

(* A function's steps are those of its script, all for one version.          *)
LEMMA FunctionSteps ==
    ASSUME NEW v, NEW script, NEW acts, Script(script, ArchDoings, acts, ArchRank),
           NEW S, \A d \in acts : ArchStep(d, v) \in S
    PROVE  Plan(Function(script, v), S, acts, ArchRank)
<1>1. Function(script, v) \in [DOMAIN script -> S]
  BY DEF Function, Script, NamesOf
<1>2. \A i \in DOMAIN script : Function(script, v)[i].do = script[i]
  BY DEF Function, ArchStep
<1> QED
  BY <1>1, <1>2, ScriptSteps

(* So is a step of pacman's own.                                             *)
LEMMA PacmanKeepsStructure ==
    ASSUME NEW do, NEW v, NEW S, ArchStep(do, v) \in S
    PROVE  Plan(Pacman(do, v), S, {do}, ArchRank)
  BY DEF Pacman, ArchStep, Ahead, InOrder, Plan

(* Putting a version in place: unpack, a function of it, and the database.   *)
LEMMA PlacingSteps ==
    ASSUME NEW v \in Version, NEW script, NEW acts, Script(script, ArchDoings, acts, ArchRank),
           \A d \in acts : d \in ArchDoings /\ 3 < ArchRank[d] /\ ArchRank[d] < 12
    PROVE  Plan(Pacman("unpack", v) \o Function(script, v) \o Pacman("database", v),
                [do : ArchDoings, version : {v}], {"unpack", "database"} \cup acts, ArchRank)
<1> DEFINE S == [do : ArchDoings, version : {v}]
<1>1. \A d \in ArchDoings : ArchStep(d, v) \in S
  BY DEF ArchStep
<1>2. Plan(Pacman("unpack", v), S, {"unpack"}, ArchRank) /\ Plan(Pacman("database", v), S, {"database"}, ArchRank)
  BY <1>1, PacmanKeepsStructure DEF ArchDoings
<1>3. Plan(Function(script, v), S, acts, ArchRank)
  BY <1>1, FunctionSteps
<1>4. Plan(Pacman("unpack", v) \o Function(script, v), S, {"unpack"} \cup acts, ArchRank)
  BY <1>2, <1>3, ArchRankValues, ConcatPlans
<1>5. \A d \in {"unpack"} \cup acts : \A e \in {"database"} : ArchRank[d] < ArchRank[e]
  BY ArchRankValues
<1>6. Plan(Pacman("unpack", v) \o Function(script, v) \o Pacman("database", v), S,
           ({"unpack"} \cup acts) \cup {"database"}, ArchRank)
  BY <1>2, <1>4, <1>5, ConcatPlans
<1>7. ({"unpack"} \cup acts) \cup {"database"} = {"unpack", "database"} \cup acts
  OBVIOUS
<1> QED
  BY <1>6, <1>7

(* Removing one: a function of it, the deletion, another, and the database.  *)
LEMMA RemovingSteps ==
    ASSUME NEW v \in Version, NEW pre, NEW post, NEW before, NEW after,
           Script(pre, ArchDoings, before, ArchRank), Script(post, ArchDoings, after, ArchRank),
           \A d \in before : d \in ArchDoings /\ ArchRank[d] < 2,
           \A d \in after : d \in ArchDoings /\ 3 < ArchRank[d] /\ ArchRank[d] < 12
    PROVE  Plan(Function(pre, v) \o Pacman("delete", v) \o Function(post, v)
                \o Pacman("database", None),
                {s \in ArchStepSet : s.do = "database" => s.version = None},
                {"delete", "database"} \cup before \cup after, ArchRank)
<1> DEFINE S == {s \in ArchStepSet : s.do = "database" => s.version = None}
           f == Function(pre, v)
           a == Pacman("delete", v)
           g == Function(post, v)
           z == Pacman("database", None)
<1>1. (\A d \in ArchDoings \ {"database"} : ArchStep(d, v) \in S) /\ ArchStep("database", None) \in S
  BY DEF ArchStep, ArchStepSet, ArchDoings
<1>2. Plan(a, S, {"delete"}, ArchRank) /\ Plan(z, S, {"database"}, ArchRank)
  BY <1>1, PacmanKeepsStructure DEF ArchDoings
<1>3. Plan(f, S, before, ArchRank) /\ Plan(g, S, after, ArchRank)
  <2>1. (\A d \in before : ArchStep(d, v) \in S) /\ (\A d \in after : ArchStep(d, v) \in S)
    BY <1>1, ArchRankValues
  <2> HIDE DEF S
  <2> QED
    BY <2>1, FunctionSteps
<1> HIDE DEF S, f, a, g, z
<1>4. Plan(f \o a, S, before \cup {"delete"}, ArchRank)
  BY <1>2, <1>3, ArchRankValues, ConcatPlans
<1>5. \A d \in before \cup {"delete"} : \A e \in after : ArchRank[d] < ArchRank[e]
  BY ArchRankValues
<1>6. Plan(f \o a \o g, S, (before \cup {"delete"}) \cup after, ArchRank)
  BY <1>3, <1>4, <1>5, ConcatPlans
<1>7. \A d \in (before \cup {"delete"}) \cup after : \A e \in {"database"} : ArchRank[d] < ArchRank[e]
  BY ArchRankValues
<1>8. Plan(f \o a \o g \o z, S, ((before \cup {"delete"}) \cup after) \cup {"database"}, ArchRank)
  BY <1>2, <1>6, <1>7, ConcatPlans
<1>9. ((before \cup {"delete"}) \cup after) \cup {"database"} = {"delete", "database"} \cup before \cup after
  OBVIOUS
<1> QED
  BY <1>8, <1>9 DEF S, f, a, g, z

(* What each operation begins with.                                          *)
LEMMA ArchInstallBegins ==
    ASSUME MachineOK, NEW v \in Version, ArchInstall(v)
    PROVE  /\ Plan(todo', [do : ArchDoings, version : {v}],
                   {"unpack", "database"} \cup
                   ({"npm-install"} \cup IF ArchUsesPreset(built[v]) THEN Installing ELSE {}), ArchRank)
           /\ Idle /\ installed = None /\ UNCHANGED <<built, policy, installed, host, admin>>
<1> DEFINE script == ArchPostInstall(built[v], "npm-install")
           acts == {"npm-install"} \cup IF ArchUsesPreset(built[v]) THEN Installing ELSE {}
<1>1. built[v] \in InitSystem
  BY BuildsAssumption DEF MachineOK
<1>2. Script(script, ArchDoings, acts, ArchRank)
  BY <1>1, Functions
<1>3. \A d \in acts : d \in ArchDoings /\ 3 < ArchRank[d] /\ ArchRank[d] < 12
  BY ArchRankValues DEF Installing, ArchDoings
<1> HIDE DEF script, acts
<1>4. Plan(Pacman("unpack", v) \o Function(script, v) \o Pacman("database", v),
           [do : ArchDoings, version : {v}], {"unpack", "database"} \cup acts, ArchRank)
  BY <1>2, <1>3, PlacingSteps
<1> QED
  BY <1>4 DEF ArchInstall, Begin, script, acts

(* How an upgrade begins.                                                    *)
LEMMA ArchUpgradeBegins ==
    ASSUME MachineOK, NEW v \in Version, ArchUpgrade(v)
    PROVE  /\ Plan(todo', [do : ArchDoings, version : {v}],
                   {"unpack", "database"} \cup
                   IF ArchUsesPreset(built[v]) THEN {"systemd-reload", "systemd-restart"} ELSE {}, ArchRank)
           /\ Idle /\ installed # None /\ UNCHANGED <<built, policy, installed, host, admin>>
<1> DEFINE script == ArchPostUpgrade(built[v])
           acts == IF ArchUsesPreset(built[v]) THEN {"systemd-reload", "systemd-restart"} ELSE {}
<1>1. built[v] \in InitSystem
  BY BuildsAssumption DEF MachineOK
<1>2. Script(script, ArchDoings, acts, ArchRank)
  BY <1>1, Functions
<1>3. \A d \in acts : d \in ArchDoings /\ 3 < ArchRank[d] /\ ArchRank[d] < 12
  BY ArchRankValues DEF ArchDoings
<1> HIDE DEF script, acts
<1>4. Plan(Pacman("unpack", v) \o Function(script, v) \o Pacman("database", v),
           [do : ArchDoings, version : {v}], {"unpack", "database"} \cup acts, ArchRank)
  BY <1>2, <1>3, PlacingSteps
<1> QED
  BY <1>4 DEF ArchUpgrade, Begin, script, acts

(* How a removal begins.                                                     *)
LEMMA RemoveBegins ==
    ASSUME MachineOK, ArchRemove
    PROVE  /\ Plan(todo', {s \in ArchStepSet : s.do = "database" => s.version = None},
                   {"delete", "database"}
                   \cup (IF ArchUsesPreset(built[installed]) THEN {"systemd-stop"} ELSE {})
                   \cup (IF ArchUsesPreset(built[installed])
                         THEN {"systemd-reload", "purge"} ELSE {}), ArchRank)
           /\ Idle /\ installed \in Version /\ UNCHANGED <<built, policy, installed, host, admin>>
<1> DEFINE pre == ArchPreRemove(built[installed])
           post == ArchPostRemove(built[installed])
           before == IF ArchUsesPreset(built[installed]) THEN {"systemd-stop"} ELSE {}
           after == IF ArchUsesPreset(built[installed]) THEN {"systemd-reload", "purge"} ELSE {}
<1>1. installed \in Version /\ built[installed] \in InitSystem
  BY BuildsAssumption DEF MachineOK, ArchRemove
<1>2. Script(pre, ArchDoings, before, ArchRank) /\ Script(post, ArchDoings, after, ArchRank)
  BY <1>1, Functions
<1>3. /\ \A d \in before : d \in ArchDoings /\ ArchRank[d] < 2
      /\ \A d \in after : d \in ArchDoings /\ 3 < ArchRank[d] /\ ArchRank[d] < 12
  BY ArchRankValues DEF ArchDoings
<1> HIDE DEF pre, post, before, after
<1>4. Plan(Function(pre, installed) \o Pacman("delete", installed) \o Function(post, installed)
           \o Pacman("database", None),
           {s \in ArchStepSet : s.do = "database" => s.version = None},
           {"delete", "database"} \cup before \cup after, ArchRank)
  BY <1>1, <1>2, <1>3, RemovingSteps
<1> QED
  BY <1>1, <1>4 DEF ArchRemove, Begin, pre, post, before, after

(* What is left once the first step is taken.                                *)
LEMMA ArchTaken ==
    ASSUME ArchShape, todo # <<>>, todo' = Tail(todo)
    PROVE  /\ todo' \in Seq(ArchStepSet) /\ InOrder(todo', ArchRank)
           /\ Head(todo) \in ArchStepSet /\ 1 \in DOMAIN todo /\ Head(todo) = todo[1]
           /\ \A i \in DOMAIN todo' : i + 1 \in DOMAIN todo /\ todo'[i] = todo[i + 1]
           /\ Head(todo).do \in Ahead(todo) /\ Ahead(todo) \subseteq ArchDoings
           /\ Ahead(todo') = Ahead(todo) \ {Head(todo).do}
           /\ \A d \in Ahead(todo') : ArchRank[Head(todo).do] < ArchRank[d]
<1>1. todo \in Seq(ArchStepSet) /\ InOrder(todo, ArchRank)
  BY DEF ArchShape
<1>2. Ahead(todo) \subseteq ArchDoings
  <2>1. \A i \in DOMAIN todo : todo[i] \in ArchStepSet
    BY <1>1
  <2> QED
    BY <2>1 DEF Ahead, ArchStepSet
<1>3. ArchRank \in [ArchDoings -> Nat]
  BY ArchRankValues
<1> QED
  BY <1>1, <1>2, <1>3, TailAhead

(* A snippet is one of nine, and leaves a machine.                           *)
LEMMA Snippets ==
    ASSUME host \in Host, Head(todo) \in ArchStepSet, Head(todo).do \notin PacmanSteps
    PROVE  /\ Head(todo).do \in {"systemd-stop", "npm-install", "purge", "systemd-restart"} \cup Installing
           /\ ArchAfter(Head(todo), host) \in Host
<1>1. Head(todo).do \in {"systemd-stop", "npm-install", "purge", "systemd-restart"} \cup Installing
  BY DEF ArchStepSet, ArchDoings, PacmanSteps, Installing
<1>2. /\ MakeAccount(host) \in Host /\ MakeLogdir(host) \in Host /\ Reload(host) \in Host
      /\ StartUnit(host) \in Host /\ TryRestartUnit(host) \in Host
  BY Commands, Services
<1>3. SystemdEnable(host) \in Host
  <2>1. ArchUsesPreset(host.init) \in BOOLEAN
    BY DEF ArchUsesPreset
  <2> QED
    BY <2>1, Commands DEF SystemdEnable
<1>4. SystemdStop(host) \in Host /\ RemoveAccount(host) \in Host
  BY DEF SystemdStop, RemoveAccount, Stop, Host
<1>5. ArchAfter(Head(todo), host) \in {host, MakeAccount(host), MakeLogdir(host), Reload(host),
          SystemdEnable(host), StartUnit(host), TryRestartUnit(host), SystemdStop(host),
          RemoveAccount(host)}
  BY <1>1 DEF ArchAfter, Installing
<1> QED
  BY <1>1, <1>2, <1>3, <1>4, <1>5

(* Nothing is ahead of the database.                                         *)
LEMMA ArchDatabaseIsLast ==
    ASSUME NEW A \in SUBSET ArchDoings, \A d \in A : ArchRank["database"] < ArchRank[d]
    PROVE  A = {}
<1>1. ASSUME NEW d \in ArchDoings PROVE ArchRank[d] <= 12
  BY ArchRankValues DEF ArchDoings
<1> QED
  BY <1>1, ArchRankValues

(* No snippet touches the package's files.                                   *)
LEMMA SnippetKeepsFiles ==
    ASSUME host \in Host, Head(todo) \in ArchStepSet, Head(todo).do \notin PacmanSteps,
           NEW h, h = ArchAfter(Head(todo), host)
    PROVE  h.files = host.files /\ h.init = host.init /\ h.os = host.os
<1>1. Head(todo).do \in {"systemd-stop", "npm-install", "purge", "systemd-restart"} \cup Installing
  BY Snippets
<1>2. h \in {host, MakeAccount(host), MakeLogdir(host), Reload(host),
          SystemdEnable(host), StartUnit(host), TryRestartUnit(host), SystemdStop(host),
          RemoveAccount(host)}
  BY <1>1 DEF ArchAfter, Installing
<1> DEFINE Kept(k) == k.files = host.files /\ k.init = host.init /\ k.os = host.os
<1>3. Kept(MakeAccount(host)) /\ Kept(MakeLogdir(host)) /\ Kept(RemoveAccount(host))
  BY DEF Host, MakeAccount, MakeLogdir, RemoveAccount
<1>4. Kept(Reload(host)) /\ Kept(SystemdStop(host))
  BY DEF Host, Reload, SystemdStop, Stop
<1>5. Kept(SystemdEnable(host))
  BY DEF Host, SystemdEnable, Preset
<1>6. Kept(StartUnit(host))
  BY DEF Host, StartUnit
<1>7. Kept(TryRestartUnit(host))
  BY DEF Host, TryRestartUnit, RestartUnit, Stop, StartUnit
<1> QED
  BY <1>2, <1>3, <1>4, <1>5, <1>6, <1>7

-----------------------------------------------------------------------------
(* The types, the shape of an operation and the record are kept by each step.*)
LEMMA ArchStructureStep ==
    ASSUME MachineOK, ArchShape, ArchRecord, [ArchNext]_machineVars
    PROVE  MachineOK' /\ ArchShape' /\ ArchRecord'
<1> USE NoneAssumption
<1>1. \A v \in Version : built[v] \in InitSystem
  BY BuildsAssumption DEF MachineOK
<1>2. ASSUME NEW v \in Version, ArchInstall(v) \/ ArchUpgrade(v) PROVE MachineOK' /\ ArchShape' /\ ArchRecord'
  <2> DEFINE acts == Ahead(todo')
  <2> DEFINE S == [do : ArchDoings, version : {v}]
  <2>1. PICK A : /\ Plan(todo', S, A, ArchRank)
                 /\ "database" \in A /\ "unpack" \in A /\ "delete" \notin A
                 /\ Idle /\ UNCHANGED <<built, policy, installed, host, admin>>
    <3>1. CASE ArchInstall(v)
      <4> DEFINE A == {"unpack", "database"} \cup
                      ({"npm-install"} \cup IF ArchUsesPreset(built[v]) THEN Installing ELSE {})
      <4>1. "database" \in A /\ "unpack" \in A /\ "delete" \notin A
        BY DEF Installing
      <4>2. Plan(todo', S, A, ArchRank) /\ Idle /\ UNCHANGED <<built, policy, installed, host, admin>>
        BY <3>1, ArchInstallBegins
      <4> HIDE DEF A
      <4> QED
        BY <4>1, <4>2
    <3>2. CASE ArchUpgrade(v)
      <4> DEFINE A == {"unpack", "database"} \cup
                   IF ArchUsesPreset(built[v]) THEN {"systemd-reload", "systemd-restart"} ELSE {}
      <4>1. "database" \in A /\ "unpack" \in A /\ "delete" \notin A
        OBVIOUS
      <4>2. Plan(todo', S, A, ArchRank) /\ Idle /\ UNCHANGED <<built, policy, installed, host, admin>>
        BY <3>2, ArchUpgradeBegins
      <4> HIDE DEF A
      <4> QED
        BY <4>1, <4>2
    <3> QED
      BY <1>2, <3>1, <3>2
  <2>2. S \subseteq ArchStepSet
    BY DEF ArchStepSet
  <2>3. /\ todo' \in Seq(ArchStepSet) /\ InOrder(todo', ArchRank) /\ todo' # <<>> /\ acts = A
        /\ \A i \in DOMAIN todo' : todo'[i] \in S
    <3> HIDE DEF S
    <3> QED
      BY <2>1, <2>2, PlanElements DEF Plan
  <2>4. \A i \in DOMAIN todo' : todo'[i].version = v
    BY <2>3
  <2>5. MachineOK'
    BY <2>1, <2>3 DEF MachineOK, Idle
  <2>6. ArchShape'
    BY <2>1, <2>3, <2>4 DEF ArchShape, ArchStill
  <2>7. ArchRecord'
    BY <2>1, <2>3 DEF ArchRecord, ArchStill, MachineOK, Idle
  <2> QED
    BY <2>5, <2>6, <2>7
<1>3. CASE ArchRemove
  <2> DEFINE acts == Ahead(todo')
  <2> DEFINE S == {s \in ArchStepSet : s.do = "database" => s.version = None}
  <2>1. PICK A : /\ Plan(todo', S, A, ArchRank)
                 /\ "database" \in A /\ "unpack" \notin A /\ "delete" \in A
                 /\ Idle /\ installed \in Version
                 /\ UNCHANGED <<built, policy, installed, host, admin>>
    BY <1>3, RemoveBegins
  <2>2. S \subseteq ArchStepSet
    OBVIOUS
  <2>3. /\ todo' \in Seq(ArchStepSet) /\ InOrder(todo', ArchRank) /\ todo' # <<>> /\ acts = A
        /\ \A i \in DOMAIN todo' : todo'[i] \in S /\ todo'[i].do \in A
    <3> HIDE DEF S
    <3> QED
      BY <2>1, <2>2, PlanElements DEF Plan
  <2>4. \A i \in DOMAIN todo' : (todo'[i].do = "database" => todo'[i].version = None) /\ todo'[i].do # "unpack"
    BY <2>1, <2>3
  <2>5. MachineOK'
    BY <2>1, <2>3 DEF MachineOK, Idle
  <2>6. ArchShape'
    BY <2>1, <2>3, <2>4 DEF ArchShape, ArchStill
  <2>7. ArchRecord'
    BY <2>1, <2>3 DEF ArchRecord, ArchStill, MachineOK, Idle
  <2> QED
    BY <2>5, <2>6, <2>7
<1>4. ASSUME todo # <<>>, todo' = Tail(todo), UNCHANGED built,
             host' \in Host, policy' \in Policies, admin' \in Decisions, installed' \in Version \cup {None},
             todo' = <<>> => installed' = host'.files,
             \A i \in DOMAIN todo' : todo'[i].do = "database" =>
                 /\ "delete" \in Ahead(todo') => todo'[i].version = None
                 /\ "unpack" \notin Ahead(todo') /\ "delete" \notin Ahead(todo')
                        => todo'[i].version = host'.files
      PROVE MachineOK' /\ ArchShape'
  <2>1. MachineOK'
    BY <1>4 DEF MachineOK, Idle
  <2>2. ArchShape'
    <3>1. ASSUME todo' # <<>> PROVE "database" \in Ahead(todo')
      <4>1. todo' \in Seq(ArchStepSet)
        BY <1>4, ArchTaken
      <4>2. todo'[1].do \in Ahead(todo')
        BY <3>1, <4>1, FirstAhead
      <4>3. "database" \in Ahead(todo)
        BY <1>4 DEF ArchShape, ArchStill
      <4>4. ASSUME NEW d \in ArchDoings PROVE ArchRank[d] <= 12
        BY ArchRankValues DEF ArchDoings
      <4>5. todo'[1].do \in ArchDoings /\ ArchRank[Head(todo).do] < ArchRank[todo'[1].do]
        BY <1>4, <4>2, ArchTaken
      <4>6. Head(todo).do # "database"
        BY <4>4, <4>5, ArchRankValues
      <4> QED
        BY <1>4, <4>3, <4>6, ArchTaken
    <3> QED
      BY <1>4, <3>1, ArchTaken DEF ArchShape, ArchStill
  <2> QED
    BY <2>1, <2>2
<1>5. CASE RunFunction
  <2>1. /\ todo # <<>> /\ todo' = Tail(todo) /\ UNCHANGED <<built, policy, installed>>
        /\ host' = ArchAfter(Head(todo), host) /\ admin' = Seen(host')
        /\ Head(todo).do \notin PacmanSteps
    BY <1>5 DEF RunFunction, Idle
  <2>2. host' \in Host
    BY <2>1, ArchTaken, Snippets DEF MachineOK
  <2>3. admin' \in Decisions
    BY <2>1 DEF Seen, MachineOK, Decisions
  <2>4. UNCHANGED <<host.files, host.init, host.os>>
    BY <2>1, Snippets, ArchTaken, SnippetKeepsFiles DEF MachineOK
  <2>5. todo' # <<>>
    <3>1. "database" \in Ahead(todo')
      BY <2>1, ArchTaken DEF ArchShape, ArchStill, PacmanSteps
    <3> QED
      BY <3>1 DEF Ahead
  <2>6. MachineOK' /\ ArchShape'
    BY <2>1, <2>2, <2>3, <2>4, <2>5, <1>4, ArchTaken DEF MachineOK, ArchShape, ArchStill, PacmanSteps
  <2>7. ArchRecord'
    BY <2>1, <2>4, <2>5, ArchTaken DEF ArchRecord, ArchStill, PacmanSteps
  <2> QED
    BY <2>6, <2>7
<1>6. CASE UnpackFiles
  <2>1. /\ todo # <<>> /\ todo' = Tail(todo) /\ UNCHANGED <<built, policy, installed, admin>>
        /\ host' = Unpack(host, Head(todo).version, built[Head(todo).version])
        /\ Head(todo).do = "unpack"
    BY <1>6 DEF UnpackFiles, Idle
  <2>2. Head(todo).version \in Version
    BY <2>1, ArchTaken DEF ArchShape
  <2>3. host' \in Host
    BY <2>1, <2>2, <1>1, Commands DEF MachineOK
  <2>4. host'.files = Head(todo).version /\ host'.init = built[Head(todo).version] /\ host'.os = host.os
    BY <2>1 DEF Unpack, MachineOK, Host
  <2>5. "database" \in Ahead(todo') /\ "delete" \notin Ahead(todo') /\ "unpack" \notin Ahead(todo')
    BY <2>1, ArchTaken DEF ArchShape, ArchRecord, ArchStill
  <2>6. todo' # <<>>
    BY <2>5 DEF Ahead
  <2>7. MachineOK' /\ ArchShape'
    BY <2>1, <2>3, <2>4, <2>5, <2>6, <1>4, ArchTaken DEF MachineOK, ArchShape, ArchStill
  <2>8. ArchRecord'
    BY <2>1, <2>2, <2>4, <2>5, <2>6, ArchTaken DEF ArchRecord, ArchStill
  <2> QED
    BY <2>7, <2>8
<1>7. CASE DeleteFiles
  <2>1. /\ todo # <<>> /\ todo' = Tail(todo) /\ UNCHANGED <<built, policy, installed, admin>>
        /\ host' = [Delete(host) EXCEPT !.defaults = "never", !.init = "none"]
        /\ Head(todo).do = "delete"
    BY <1>7 DEF DeleteFiles, Idle
  <2>2. host' \in Host /\ host'.files = None /\ host'.os = host.os
    BY <2>1 DEF MachineOK, Host, Delete, InitSystem
  <2>3. "database" \in Ahead(todo') /\ "delete" \notin Ahead(todo') /\ "unpack" \notin Ahead(todo')
    BY <2>1, ArchTaken DEF ArchShape, ArchRecord, ArchStill
  <2>4. todo' # <<>>
    BY <2>3 DEF Ahead
  <2>5. MachineOK' /\ ArchShape'
    BY <2>1, <2>2, <2>3, <2>4, <1>4, ArchTaken DEF MachineOK, ArchShape, ArchStill
  <2>6. ArchRecord'
    BY <2>1, <2>2, <2>3, <2>4, ArchTaken DEF ArchRecord, ArchStill
  <2> QED
    BY <2>5, <2>6
<1>8. CASE UpdateDatabase
  <2>1. /\ todo # <<>> /\ todo' = Tail(todo) /\ UNCHANGED <<built, policy, host>>
        /\ installed' = Head(todo).version /\ Head(todo).do = "database"
        /\ admin' = IF installed' = None THEN NoDecision ELSE admin
    BY <1>8 DEF UpdateDatabase, Idle
  <2>2. admin' \in Decisions
    BY <2>1 DEF MachineOK, Decisions, NoDecision
  <2>3. Ahead(todo') = {}
    BY <2>1, ArchTaken, ArchDatabaseIsLast
  <2>4. "unpack" \notin Ahead(todo) /\ "delete" \notin Ahead(todo)
    BY <2>1, <2>3, ArchTaken
  <2>5. installed' = host'.files
    BY <2>1, <2>4, ArchTaken DEF ArchShape, ArchStill
  <2>6. MachineOK' /\ ArchShape'
    BY <2>1, <2>2, <2>3, <2>5, <1>4, ArchTaken DEF MachineOK, ArchShape, ArchStill, ArchStepSet, Ahead
  <2>7. ArchRecord'
    BY <2>1, <2>3, <2>5, ArchTaken DEF ArchRecord, ArchStill
  <2> QED
    BY <2>6, <2>7
<1>9. CASE Beside
  <2>1. /\ host' \in Host /\ admin' \in Decisions /\ todo' = todo
        /\ UNCHANGED <<built, policy, installed, host.files, host.init, host.os>>
    BY <1>9, AdministerTypes, AdministerKeepsFiles DEF Beside, MachineOK
  <2> QED
    BY <2>1 DEF MachineOK, ArchShape, ArchRecord, Idle, ArchStill
<1>10. CASE UNCHANGED machineVars
  BY <1>10 DEF machineVars, MachineOK, ArchShape, ArchRecord, Idle, ArchStill
<1> QED
  BY <1>2, <1>3, <1>5, <1>6, <1>7, <1>8, <1>9, <1>10 DEF ArchNext

-----------------------------------------------------------------------------
(* Decisions.                                                                *)

(* Only two snippets turn the unit on or start it anew; the others leave it  *)
(* off and down.                                                             *)
LEMMA SnippetDecides ==
    ASSUME host \in Host, Head(todo) \in ArchStepSet, Head(todo).do \notin PacmanSteps,
           Head(todo).do \notin {"systemd-enable", "systemd-start"},
           NEW h, h = ArchAfter(Head(todo), host)
    PROVE  (h.enabled => host.enabled) /\ (host.running = None => h.running = None)
<1>1. h \in {host, MakeAccount(host), MakeLogdir(host), Reload(host),
             TryRestartUnit(host), SystemdStop(host), RemoveAccount(host)}
  BY Snippets DEF ArchAfter, Installing
<1> QED
  BY <1>1 DEF Host, MakeAccount, MakeLogdir, Reload, TryRestartUnit, RestartUnit,
     StartUnit, SystemdStop, Stop, RemoveAccount

(* What the administrator decided stands after every step.                   *)
LEMMA ArchDecidedStep ==
    ASSUME MachineOK, ArchShape, ArchRecord, ArchDecided, MachineOK', [ArchNext]_machineVars
    PROVE  ArchDecided'
<1> USE DEF ArchDecided, ArchDecisionsSurvive
<1>1. \A v \in Version : built[v] \in InitSystem
  BY BuildsAssumption DEF MachineOK
<1>2. ASSUME NEW v \in Version, ArchInstall(v) PROVE ArchDecided'
  BY <1>2 DEF ArchInstall, Begin, ArchStill, NoDecision
<1>3. ASSUME NEW v \in Version, ArchUpgrade(v) PROVE ArchDecided'
  <2>1. /\ "systemd-enable" \notin Ahead(todo') /\ "systemd-start" \notin Ahead(todo')
        /\ UNCHANGED <<installed, host, admin>>
    <3>1. Ahead(todo') = {"unpack", "database"} \cup
              IF ArchUsesPreset(built[v]) THEN {"systemd-reload", "systemd-restart"} ELSE {}
      BY <1>3, ArchUpgradeBegins DEF Plan
    <3> QED
      BY <1>3, <3>1, ArchUpgradeBegins
  <2> QED
    BY <2>1 DEF ArchStill
<1>4. CASE ArchRemove
  <2>1. /\ "systemd-enable" \notin Ahead(todo') /\ "systemd-start" \notin Ahead(todo')
        /\ UNCHANGED <<installed, host, admin>>
    BY <1>4, RemoveBegins DEF Plan
  <2> QED
    BY <2>1 DEF ArchStill
<1>5. CASE RunFunction
  <2>1. /\ todo # <<>> /\ todo' = Tail(todo) /\ UNCHANGED <<built, policy, installed>>
        /\ host' = ArchAfter(Head(todo), host) /\ admin' = Seen(host')
        /\ Head(todo).do \notin PacmanSteps
    BY <1>5 DEF RunFunction, Idle
  <2>2. Ahead(todo') \subseteq Ahead(todo) /\ Head(todo) \in ArchStepSet /\ Head(todo).do \in Ahead(todo)
    BY <2>1, ArchTaken
  <2>3. admin'.disabled = admin.disabled /\ admin'.off = admin.off
        /\ (admin = NoDecision => admin' = NoDecision)
    BY <2>1, SeenDecides DEF MachineOK
  <2>4. CASE installed = None
    BY <2>1, <2>2, <2>3, <2>4 DEF ArchStill, NoDecision
  <2>5. CASE installed # None
    <3>1. (host'.enabled => host.enabled) /\ (host.running = None => host'.running = None)
      BY <2>1, <2>2, <2>5, SnippetDecides DEF MachineOK, ArchStill
    <3> QED
      BY <2>1, <2>2, <2>3, <2>5, <3>1 DEF ArchStill
  <2> QED
    BY <2>4, <2>5
<1>6. CASE UnpackFiles
  <2>1. Ahead(todo') \subseteq Ahead(todo)
    BY <1>6, ArchTaken DEF UnpackFiles, Idle
  <2>2. host'.enabled = host.enabled /\ host'.running = host.running
    BY <1>6 DEF UnpackFiles, Unpack, MachineOK, Host
  <2> QED
    BY <1>6, <2>1, <2>2 DEF UnpackFiles, ArchStill
<1>7. CASE DeleteFiles
  <2>1. Ahead(todo') \subseteq Ahead(todo)
    BY <1>7, ArchTaken DEF DeleteFiles, Idle
  <2>2. host'.enabled = host.enabled /\ host'.running = host.running
    BY <1>7 DEF DeleteFiles, Delete, MachineOK, Host
  <2> QED
    BY <1>7, <2>1, <2>2 DEF DeleteFiles, ArchStill
<1>8. CASE UpdateDatabase
  <2>1. /\ todo # <<>> /\ todo' = Tail(todo) /\ UNCHANGED <<built, policy, host>>
        /\ installed' = Head(todo).version /\ Head(todo).do = "database"
        /\ admin' = IF installed' = None THEN NoDecision ELSE admin
    BY <1>8 DEF UpdateDatabase, Idle
  <2>2. Ahead(todo') = {}
    BY <2>1, ArchTaken, ArchDatabaseIsLast
  <2> QED
    BY <2>1, <2>2 DEF ArchStill, NoDecision
<1>9. CASE Beside
  <2>1. host' \in Host /\ host.os = "systemd" /\ host'.os = "systemd" /\ todo' = todo
    BY <1>9, AdministerTypes, AdministerKeepsFiles DEF Beside, MachineOK, ArchRecord
  <2>2. (admin'.disabled => ~Enabled(host')) /\ (admin'.off => host'.running = None)
    BY <1>9, <2>1, AdministerDecides DEF Beside, MachineOK, Enabled
  <2> QED
    BY <1>9, <2>1, <2>2 DEF Beside, Enabled, ArchStill
<1>10. CASE UNCHANGED machineVars
  BY <1>10 DEF machineVars, ArchStill
<1> QED
  BY <1>2, <1>3, <1>4, <1>5, <1>6, <1>7, <1>8, <1>9, <1>10 DEF ArchNext

-----------------------------------------------------------------------------
(* The service.                                                              *)

(* Nothing but the files differs from one snippet to the next.               *)
LEMMA SnippetChanges ==
    ASSUME host \in Host, host.os = "systemd", Head(todo) \in ArchStepSet,
           Head(todo).do \notin PacmanSteps,
           NEW d, d = Head(todo).do, NEW h, h = ArchAfter(Head(todo), host)
    PROVE  /\ h \in Host /\ h.mask = host.mask /\ h.defaults = host.defaults
           /\ h.account <=> (d = "account" \/ (host.account /\ d # "purge"))
           /\ host.logdir \/ (d = "logdir" /\ host.account) => h.logdir
           /\ h.enabled /\ ~host.enabled => d = "systemd-enable" /\ HasUnit(host) /\ host.mask = "none"
           /\ d = "systemd-stop" => ~h.enabled /\ h.running = None
           /\ HasUnit(host) /\ (d = "systemd-reload" \/ host.loaded = host.files) => h.loaded = host.files
           /\ h.running # host.running => d \in {"systemd-stop", "systemd-start", "systemd-restart"}
           /\ host.running = None /\ h.running # None =>
                  d = "systemd-start" /\ host.mask = "none" /\ HasUnit(host)
           /\ d = "systemd-start" /\ host.loaded = host.files => h.running \in {host.running, host.files}
           /\ d = "systemd-restart" /\ host.loaded = host.files /\ HasUnit(host) /\ MaskedIsDown(host)
                  => h.running \in {None, host.files}
           /\ d = "systemd-start" /\ host.mask = "none" /\ Equipped(host) => h.running # None
           /\ d = "systemd-restart" /\ host.running # None /\ host.mask = "none" /\ Equipped(host)
                  => h.running # None
<1>1. d \in {"systemd-stop", "npm-install", "purge", "systemd-restart"} \cup Installing
      /\ h \in Host
  BY Snippets
<1>2. CASE d = "npm-install"
  BY <1>2 DEF ArchAfter
<1>3. CASE d = "account"
  BY <1>3 DEF ArchAfter, MakeAccount, Host
<1>4. CASE d = "logdir"
  <2>1. h = [host EXCEPT !.logdir = host.logdir \/ host.account]
    BY <1>4 DEF ArchAfter, MakeLogdir
  <2>2. /\ h.account = host.account /\ h.mask = host.mask /\ h.defaults = host.defaults
        /\ h.enabled = host.enabled /\ h.loaded = host.loaded /\ h.running = host.running
        /\ h.logdir = (host.logdir \/ host.account)
    BY <2>1 DEF Host
  <2> QED
    BY <1>1, <1>4, <2>2
<1>5. CASE d = "systemd-reload"
  BY <1>5 DEF ArchAfter, Reload, Host
<1>6. CASE d = "systemd-enable"
  <2>1. h = IF HasUnit(host) /\ host.mask = "none"
            THEN [host EXCEPT !.enabled = policy = "none" /\ ArchUsesPreset(host.init)] ELSE host
    BY <1>6 DEF ArchAfter, SystemdEnable, Preset
  <2>2. h.account = host.account /\ h.logdir = host.logdir /\ h.mask = host.mask
        /\ h.defaults = host.defaults /\ h.loaded = host.loaded /\ h.running = host.running
        /\ (h.enabled # host.enabled => HasUnit(host) /\ host.mask = "none")
    BY <2>1 DEF Host
  <2> QED
    BY <1>1, <1>6, <2>2
<1>7. CASE d = "systemd-start"
  <2>1. h = StartUnit(host)
    BY <1>7 DEF ArchAfter
  <2> QED
    BY <1>7, <2>1, StartUnitChanges DEF SameBeside
<1>8. CASE d = "systemd-restart"
  <2>1. h = TryRestartUnit(host)
    BY <1>8 DEF ArchAfter
  <2> QED
    BY <1>8, <2>1, TryRestartChanges DEF SameBeside
<1>9. CASE d = "systemd-stop"
  BY <1>9 DEF ArchAfter, SystemdStop, Stop, Host
<1>10. CASE d = "purge"
  BY <1>10 DEF ArchAfter, RemoveAccount, Host
<1> QED
  BY <1>1, <1>2, <1>3, <1>4, <1>5, <1>6, <1>7, <1>8, <1>9, <1>10 DEF Installing

(* What is ahead, before and after each kind of step of an operation.        *)
LEMMA ArchStepTaken ==
    ASSUME MachineOK, ArchShape, ArchRecord,
           RunFunction \/ UnpackFiles \/ DeleteFiles \/ UpdateDatabase
    PROVE  /\ Head(todo) \in ArchStepSet /\ Head(todo).do \in Ahead(todo)
           /\ Ahead(todo) \subseteq ArchDoings /\ todo # <<>>
           /\ Ahead(todo') = Ahead(todo) \ {Head(todo).do}
           /\ \A d \in Ahead(todo') : ArchRank[Head(todo).do] < ArchRank[d]
           /\ todo' = <<>> <=> Head(todo).do = "database"
<1>1. todo # <<>> /\ todo' = Tail(todo)
  BY DEF RunFunction, UnpackFiles, DeleteFiles, UpdateDatabase, Idle
<1>2. /\ Head(todo) \in ArchStepSet /\ Head(todo).do \in Ahead(todo)
      /\ Ahead(todo) \subseteq ArchDoings /\ todo # <<>> /\ todo' \in Seq(ArchStepSet)
      /\ Ahead(todo') = Ahead(todo) \ {Head(todo).do}
      /\ \A d \in Ahead(todo') : ArchRank[Head(todo).do] < ArchRank[d]
  BY <1>1, ArchTaken
<1>3. ASSUME Head(todo).do = "database" PROVE todo' = <<>>
  <2>1. Ahead(todo') = {}
    BY <1>2, <1>3, ArchDatabaseIsLast
  <2> QED
    BY <1>2, <2>1, FirstAhead
<1>4. ASSUME Head(todo).do # "database" PROVE todo' # <<>>
  <2>1. "database" \in Ahead(todo')
    BY <1>1, <1>2, <1>4 DEF ArchShape, ArchStill
  <2> QED
    BY <2>1 DEF Ahead
<1> QED
  BY <1>2, <1>3, <1>4

(* What a snippet does to the machine.                                       *)
LEMMA ArchSnippetRuns ==
    ASSUME MachineOK, ArchShape, ArchRecord, RunFunction, NEW d, d = Head(todo).do
    PROVE  /\ d \in {"systemd-stop", "npm-install", "purge", "systemd-restart"} \cup Installing
           /\ host'.files = host.files /\ host'.init = host.init
           /\ host'.mask = host.mask /\ host'.defaults = host.defaults
           /\ host'.account <=> (d = "account" \/ (host.account /\ d # "purge"))
           /\ host.logdir \/ (d = "logdir" /\ host.account) => host'.logdir
           /\ host'.enabled /\ ~host.enabled => d = "systemd-enable" /\ HasUnit(host) /\ host.mask = "none"
           /\ d = "systemd-stop" => ~host'.enabled /\ host'.running = None
           /\ HasUnit(host) /\ (d = "systemd-reload" \/ host.loaded = host.files)
                  => host'.loaded = host.files
           /\ host'.running # host.running => d \in {"systemd-stop", "systemd-start", "systemd-restart"}
           /\ host.running = None /\ host'.running # None =>
                  d = "systemd-start" /\ host.mask = "none" /\ HasUnit(host)
           /\ d = "systemd-start" /\ host.loaded = host.files
                  => host'.running \in {host.running, host.files}
           /\ d = "systemd-restart" /\ host.loaded = host.files /\ HasUnit(host) /\ MaskedIsDown(host)
                  => host'.running \in {None, host.files}
           /\ d = "systemd-start" /\ host.mask = "none" /\ Equipped(host) => host'.running # None
           /\ d = "systemd-restart" /\ host.running # None /\ host.mask = "none" /\ Equipped(host)
                  => host'.running # None
           /\ UNCHANGED <<built, installed>>
           /\ admin'.stopped <=> admin.stopped /\ host'.running = None
<1>1. /\ Head(todo) \in ArchStepSet /\ d \notin PacmanSteps /\ host \in Host /\ host.os = "systemd"
      /\ host' = ArchAfter(Head(todo), host) /\ UNCHANGED <<built, installed>>
      /\ admin \in Decisions /\ admin' = Seen(host')
  BY ArchStepTaken DEF RunFunction, MachineOK, ArchRecord
<1>2. d \in {"systemd-stop", "npm-install", "purge", "systemd-restart"} \cup Installing
  BY <1>1, Snippets
<1>3. host'.files = host.files /\ host'.init = host.init
  BY <1>1, SnippetKeepsFiles
<1>4. admin'.stopped <=> admin.stopped /\ host'.running = None
  BY <1>1, SeenDecides
<1> QED
  BY <1>1, <1>2, <1>3, <1>4, SnippetChanges

(* A unit is there exactly where the files of a package that ships it are.   *)
LEMMA ArchUnitThere ==
    ASSUME MachineOK, ArchRecord
    PROVE  /\ ArchWithUnit => (HasUnit(host) <=> host.files # None)
           /\ ArchWithoutUnit => ~HasUnit(host)
<1>1. host \in Host /\ (host.files # None => host.files \in Version)
  BY DEF MachineOK, Host
<1>2. HasUnit(host) <=> host.files # None /\ ArchUsesPreset(host.init)
  BY <1>1, Shipped DEF ArchUsesPreset
<1> QED
  BY <1>1, <1>2 DEF ArchWithUnit, ArchWithoutUnit, ArchRecord

(* A package without a unit does nothing to the service, and nobody can.     *)
LEMMA UntouchedStep ==
    ASSUME MachineOK, ArchShape, ArchRecord, ArchWithoutUnit, Untouched, [ArchNext]_machineVars
    PROVE  ArchWithoutUnit' /\ Untouched'
<1> USE DEF Untouched
<1>1. ~HasUnit(host) /\ host \in Host
  BY ArchUnitThere DEF MachineOK
<1>2. ASSUME NEW v \in Version, ArchInstall(v) PROVE ArchWithoutUnit' /\ Untouched'
  BY <1>2, ArchInstallBegins DEF Plan, ArchWithoutUnit
<1>3. ASSUME NEW v \in Version, ArchUpgrade(v) PROVE ArchWithoutUnit' /\ Untouched'
  BY <1>3, ArchUpgradeBegins DEF Plan, ArchWithoutUnit
<1>4. CASE ArchRemove
  BY <1>4, RemoveBegins DEF Plan, ArchWithoutUnit
<1>5. CASE RunFunction
  BY <1>1, <1>5, ArchStepTaken, ArchSnippetRuns DEF ArchWithoutUnit, RunFunction, PacmanSteps
<1>6. CASE UnpackFiles
  BY <1>1, <1>6, ArchStepTaken DEF UnpackFiles, Unpack, Host, ArchWithoutUnit
<1>7. CASE DeleteFiles
  BY <1>1, <1>7, ArchStepTaken DEF DeleteFiles, Delete, Host, ArchWithoutUnit
<1>8. CASE UpdateDatabase
  BY <1>8, ArchStepTaken DEF UpdateDatabase, ArchWithoutUnit
<1>9. CASE Beside
  BY <1>1, <1>9, AdministerOnSystemd, AdministerTypes DEF Beside, ArchRecord, MachineOK, ArchWithoutUnit,
     Host
<1>10. CASE UNCHANGED machineVars
  BY <1>10 DEF machineVars, ArchWithoutUnit
<1> QED
  BY <1>2, <1>3, <1>4, <1>5, <1>6, <1>7, <1>8, <1>9, <1>10 DEF ArchNext

(* What is ahead when an operation on a package with a unit begins.          *)
LEMMA BeginsWithUnit ==
    ASSUME MachineOK, ArchRecord, ArchWithUnit
    PROVE  /\ \A v \in Version : ArchInstall(v) =>
                  /\ Ahead(todo') = {"npm-install", "unpack", "database"} \cup Installing
                  /\ installed = None
           /\ \A v \in Version : ArchUpgrade(v) =>
                  /\ Ahead(todo') = {"systemd-reload", "systemd-restart", "unpack", "database"}
                  /\ installed # None
           /\ ArchRemove =>
                  /\ Ahead(todo') = {"systemd-stop", "delete", "systemd-reload", "purge", "database"}
                  /\ installed # None
           /\ (\E v \in Version : ArchInstall(v) \/ ArchUpgrade(v)) \/ ArchRemove =>
                  /\ Ahead(todo) = {} /\ todo = <<>> /\ todo' # <<>> /\ host.files = installed
                  /\ UNCHANGED <<built, policy, installed, host, admin>>
<1>1. ASSUME NEW v \in Version, ArchInstall(v)
      PROVE  /\ Ahead(todo') = {"npm-install", "unpack", "database"} \cup Installing
             /\ installed = None /\ todo = <<>>
             /\ UNCHANGED <<built, policy, installed, host, admin>>
  BY <1>1, ArchInstallBegins DEF Plan, ArchWithUnit, Idle
<1>2. ASSUME NEW v \in Version, ArchUpgrade(v)
      PROVE  /\ Ahead(todo') = {"systemd-reload", "systemd-restart", "unpack", "database"}
             /\ installed # None /\ todo = <<>>
             /\ UNCHANGED <<built, policy, installed, host, admin>>
  BY <1>2, ArchUpgradeBegins DEF Plan, ArchWithUnit, Idle
<1>3. ASSUME ArchRemove
      PROVE  /\ Ahead(todo') = {"systemd-stop", "delete", "systemd-reload", "purge", "database"}
             /\ installed # None /\ todo = <<>>
             /\ UNCHANGED <<built, policy, installed, host, admin>>
  <2>1. ArchUsesPreset(built[installed])
    BY <1>3, RemoveBegins DEF ArchWithUnit
  <2> QED
    BY <1>3, <2>1, RemoveBegins, NoneAssumption DEF Plan, Idle
<1>4. todo = <<>> => Ahead(todo) = {} /\ host.files = installed
  BY DEF Ahead, MachineOK, Idle
<1>5. "database" \in Ahead(todo') => todo' # <<>>
  BY DEF Ahead
<1> QED
  BY <1>1, <1>2, <1>3, <1>4, <1>5

(* What a step of pacman's own does to the machine.                          *)
LEMMA PacmanRuns ==
    ASSUME MachineOK, ArchShape, ArchRecord
    PROVE  /\ UnpackFiles =>
                 /\ Head(todo).do = "unpack" /\ Head(todo).version \in Version
                 /\ host'.files = Head(todo).version
                 /\ host'.defaults = IF host.defaults = "never" /\ host'.init # "none"
                                     THEN "present" ELSE host.defaults
                 /\ host'.init = built[host'.files]
                 /\ UNCHANGED <<built, installed, admin, host.mask, host.account, host.logdir,
                                host.loaded, host.running, host.enabled>>
           /\ DeleteFiles =>
                 /\ Head(todo).do = "delete" /\ host'.files = None /\ host'.defaults = "never"
                 /\ UNCHANGED <<built, installed, admin, host.mask, host.account, host.logdir,
                                host.loaded, host.running, host.enabled>>
           /\ UpdateDatabase =>
                 /\ Head(todo).do = "database" /\ Ahead(todo') = {}
                 /\ installed' = host.files
                 /\ admin' = IF installed' = None THEN NoDecision ELSE admin
                 /\ UNCHANGED <<built, host>>
<1>1. ASSUME UnpackFiles PROVE Head(todo).version \in Version
  <2>1. todo # <<>> /\ todo' = Tail(todo) /\ Head(todo).do = "unpack"
    BY <1>1 DEF UnpackFiles, Idle
  <2> QED
    BY <2>1, ArchTaken DEF ArchShape
<1>2. ASSUME UpdateDatabase PROVE Ahead(todo') = {} /\ installed' = host.files
  <2>1. /\ todo # <<>> /\ todo' = Tail(todo) /\ Head(todo).do = "database"
        /\ installed' = Head(todo).version
    BY <1>2 DEF UpdateDatabase, Idle
  <2>2. Ahead(todo') = {}
    BY <2>1, ArchTaken, ArchDatabaseIsLast
  <2> QED
    BY <2>1, <2>2, ArchTaken DEF ArchShape, ArchStill
<1>3. ASSUME UnpackFiles
      PROVE  /\ Head(todo).do = "unpack"
             /\ host'.files = Head(todo).version
             /\ host'.defaults = IF host.defaults = "never" /\ host'.init # "none"
                                 THEN "present" ELSE host.defaults
             /\ host'.init = built[host'.files]
             /\ UNCHANGED <<built, installed, admin, host.mask, host.account, host.logdir,
                            host.loaded, host.running, host.enabled>>
  <2>1. /\ host' = Unpack(host, Head(todo).version, built[Head(todo).version])
        /\ Head(todo).do = "unpack" /\ UNCHANGED <<built, installed, admin>>
    BY <1>3 DEF UnpackFiles
  <2>2. host'.files = Head(todo).version /\ host'.init = built[Head(todo).version]
    BY <2>1 DEF Unpack, MachineOK, Host
  <2>3. /\ host'.defaults = IF host.defaults = "never" /\ host'.init # "none"
                            THEN "present" ELSE host.defaults
        /\ UNCHANGED <<host.mask, host.account, host.logdir,
                       host.loaded, host.running, host.enabled>>
    BY <2>1, <2>2 DEF Unpack, MachineOK, Host
  <2> QED
    BY <2>1, <2>2, <2>3
<1>4. ASSUME DeleteFiles
      PROVE  /\ Head(todo).do = "delete" /\ host'.files = None /\ host'.defaults = "never"
             /\ UNCHANGED <<built, installed, admin, host.mask, host.account, host.logdir,
                            host.loaded, host.running, host.enabled>>
  BY <1>4 DEF DeleteFiles, Delete, MachineOK, Host
<1> QED
  BY <1>1, <1>2, <1>3, <1>4 DEF UpdateDatabase

(* What the administrator does when the package is there or not.             *)
LEMMA ArchBesideRuns ==
    ASSUME MachineOK, ArchShape, ArchRecord, ArchWithUnit, Beside
    PROVE  /\ installed # None /\ todo' = todo /\ UNCHANGED <<built, installed>>
           /\ host'.files = host.files /\ host'.init = host.init
           /\ host'.account = host.account /\ (host.logdir => host'.logdir)
           /\ host'.defaults # host.defaults => "delete-defaults" \in AdminActs
           /\ host'.mask \in {host.mask, "admin"} \/ (host.mask = "admin" /\ host'.mask = "none")
           /\ host.files # None /\ host.loaded = host.files => host'.loaded = host.files
           /\ host.files # None /\ Current(host) => Current(host')
           /\ host'.enabled => host.enabled \/ (host.files # None /\ ~ArchStill("delete"))
           /\ host'.running \in {None, host.running} \/ (host.files # None /\ ~ArchStill("delete"))
           /\ MaskedIsDown(host) => MaskedIsDown(host')
           /\ Equipped(host) /\ MaskedIsDown(host) /\ UpOrStopped(host, admin)
              /\ "delete-defaults" \notin AdminActs
                 => UpOrStopped(host', admin')
<1>1. host \in Host /\ host.os = "systemd" /\ admin \in Decisions /\ Administer
      /\ installed # None /\ UNCHANGED <<built, installed>>
  BY DEF Beside, MachineOK, ArchRecord
<1>2. HasUnit(host) <=> host.files # None
  BY ArchUnitThere
<1>3. Removing <=> ArchStill("delete")
  BY DEF Removing, ArchStill, Ahead
<1>4. todo' = todo /\ host'.files = host.files /\ host'.init = host.init
  BY <1>1, AdministerTypes, AdministerKeepsFiles
<1> QED
  BY <1>1, <1>2, <1>3, <1>4, AdministerOnSystemd

(* What a step still owes.                                                   *)
LEMMA ArchPendingStep ==
    ASSUME MachineOK, ArchShape, ArchRecord, ArchDecided, ArchWithUnit, ArchPending, [ArchNext]_machineVars
    PROVE  ArchPending'
<1> USE DEF ArchPending, ArchStill
<1>1. CASE (\E v \in Version : ArchInstall(v) \/ ArchUpgrade(v)) \/ ArchRemove
  BY <1>1, BeginsWithUnit DEF Installing
<1>2. CASE RunFunction
  <2>1. /\ Ahead(todo') = Ahead(todo) \ {Head(todo).do} /\ Head(todo).do \in Ahead(todo)
        /\ \A d \in Ahead(todo') : ArchRank[Head(todo).do] < ArchRank[d]
        /\ Ahead(todo) \subseteq ArchDoings /\ ArchRank \in [ArchDoings -> Nat]
    BY <1>2, ArchStepTaken, ArchRankValues
  <2>2. /\ installed' = installed /\ host'.files = host.files /\ host'.mask = host.mask
        /\ Head(todo).do \in {"systemd-stop", "npm-install", "purge", "systemd-restart"} \cup Installing
    BY <1>2, ArchSnippetRuns
  <2>3. "unpack" \in Ahead(todo') => Head(todo).do = "systemd-stop"
    BY <2>1, <2>2, ArchRankValues DEF Installing
  <2>4. "delete" \in Ahead(todo') => Head(todo).do = "systemd-stop"
    BY <2>1, <2>2, ArchRankValues DEF Installing
  <2>5. "systemd-reload" \in Ahead(todo') => Head(todo).do # "systemd-restart"
    BY <2>1, <2>2, ArchRankValues DEF Installing
  <2>6. "systemd-start" \in Ahead(todo) \ Ahead(todo') => "systemd-enable" \notin Ahead(todo')
    BY <2>1, <2>2, ArchRankValues DEF Installing
  <2>7. todo # <<>>
    BY <1>2, ArchStepTaken
  <2> QED
    BY <2>1, <2>2, <2>3, <2>4, <2>5, <2>6, <2>7 DEF Installing
<1>3. CASE UnpackFiles
  BY <1>3, ArchStepTaken, PacmanRuns, NoneAssumption DEF Installing, ArchRecord
<1>4. CASE DeleteFiles
  <2>1. "systemd-stop" \notin Ahead(todo')
    BY <1>4, ArchStepTaken, PacmanRuns, ArchRankValues
  <2> QED
    BY <1>4, <2>1, ArchStepTaken, PacmanRuns DEF ArchRecord
<1>5. CASE UpdateDatabase
  BY <1>5, ArchStepTaken, PacmanRuns
<1>6. CASE Beside
  BY <1>6, ArchBesideRuns
<1>7. CASE UNCHANGED machineVars
  BY <1>7 DEF machineVars
<1> QED
  BY <1>1, <1>2, <1>3, <1>4, <1>5, <1>6, <1>7 DEF ArchNext

(* What the unit needs, and what is in use.                                  *)
LEMMA ArchReadyStep ==
    ASSUME MachineOK, ArchShape, ArchRecord, ArchDecided, ArchWithUnit, ArchPending, ArchReady, ArchClean, [ArchNext]_machineVars
    PROVE  ArchReady'
<1> USE DEF ArchReady, ArchStill
<1>1. CASE (\E v \in Version : ArchInstall(v) \/ ArchUpgrade(v)) \/ ArchRemove
  BY <1>1, BeginsWithUnit
<1>2. CASE RunFunction
  <2>1. /\ Ahead(todo') = Ahead(todo) \ {Head(todo).do} /\ Head(todo).do \in Ahead(todo)
        /\ \A d \in Ahead(todo') : ArchRank[Head(todo).do] < ArchRank[d]
    BY <1>2, ArchStepTaken
  <2>2. HasUnit(host) <=> host.files # None
    BY ArchUnitThere
  <2>3. ASSUME host.files # None, Head(todo).do \in {"systemd-start", "systemd-restart"}
        PROVE  host.loaded = host.files
    <3>1. "systemd-reload" \notin Ahead(todo')
      BY <2>1, <2>3, ArchRankValues
    <3> QED
      BY <2>1, <2>3, <3>1
  <2>4. ASSUME Head(todo).do = "logdir" PROVE host.files # None => host.account
    <3>1. "account" \notin Ahead(todo')
      BY <2>1, <2>4, ArchRankValues
    <3> QED
      BY <2>1, <2>4, <3>1
  <2>5. host'.files = host.files /\ host'.mask = host.mask /\ installed' = installed
    BY <1>2, ArchSnippetRuns
  <2>6. host'.files # None /\ "account" \notin Ahead(todo') => host'.account
    <3>1. ASSUME Head(todo).do = "purge" PROVE host.files = None
      <4>1. "delete" \notin Ahead(todo')
        BY <2>1, <3>1, ArchRankValues
      <4> QED
        BY <2>1, <3>1, <4>1 DEF ArchPending
    <3> QED
      BY <1>2, <2>1, <2>5, <3>1, ArchSnippetRuns
  <2>7. host'.files # None /\ "logdir" \notin Ahead(todo') => host'.logdir
    BY <1>2, <2>1, <2>4, <2>5, ArchSnippetRuns
  <2>8. host'.files # None /\ "systemd-reload" \notin Ahead(todo') => host'.loaded = host'.files
    BY <1>2, <2>1, <2>2, <2>5, ArchSnippetRuns
  <2>9. host'.files # None /\ "systemd-restart" \notin Ahead(todo')
           => host'.running \in {None, host'.files}
    BY <1>2, <2>1, <2>2, <2>3, <2>5, ArchSnippetRuns DEF MaskedIsDown
  <2>10. host'.mask # "none" => host'.running = None
    BY <1>2, <2>5, ArchSnippetRuns DEF MaskedIsDown
  <2> QED
    BY <2>6, <2>7, <2>8, <2>9, <2>10
<1>3. CASE UnpackFiles
  BY <1>3, ArchStepTaken, PacmanRuns DEF ArchPending, Installing, ArchRecord, ArchClean
<1>4. CASE DeleteFiles
  BY <1>4, ArchStepTaken, PacmanRuns
<1>5. CASE UpdateDatabase
  BY <1>5, ArchStepTaken, PacmanRuns
<1>6. CASE Beside
  BY <1>6, ArchBesideRuns DEF ArchPending, Current, MaskedIsDown
<1>7. CASE UNCHANGED machineVars
  BY <1>7 DEF machineVars
<1> QED
  BY <1>1, <1>2, <1>3, <1>4, <1>5, <1>6, <1>7 DEF ArchNext

(* Before the first start and after a removal.                               *)
LEMMA ArchCleanStep ==
    ASSUME MachineOK, ArchShape, ArchRecord, ArchDecided, ArchWithUnit, ArchPending, ArchClean, [ArchNext]_machineVars
    PROVE  ArchClean'
<1> USE DEF ArchClean, ArchStill, ArchRemoval
<1>1. CASE (\E v \in Version : ArchInstall(v) \/ ArchUpgrade(v)) \/ ArchRemove
  BY <1>1, BeginsWithUnit DEF Installing
<1>2. CASE RunFunction
  <2>1. /\ Ahead(todo') = Ahead(todo) \ {Head(todo).do} /\ Head(todo).do \in Ahead(todo)
        /\ \A d \in Ahead(todo') : ArchRank[Head(todo).do] < ArchRank[d]
    BY <1>2, ArchStepTaken
  <2>2. HasUnit(host) <=> host.files # None
    BY ArchUnitThere
  <2>3. host'.files = host.files /\ installed' = installed /\ todo' # <<>>
    BY <1>2, ArchSnippetRuns, ArchStepTaken DEF RunFunction, PacmanSteps
  <2>4. "systemd-start" \in Ahead(todo') => host'.running = None
    BY <1>2, <2>1, ArchSnippetRuns
  <2>5. "systemd-enable" \in Ahead(todo') => ~host'.enabled
    BY <1>2, <2>1, ArchSnippetRuns
  <2>6. ArchRemoval' /\ "systemd-stop" \notin Ahead(todo') => host'.running = None /\ ~host'.enabled
    BY <1>2, <2>1, <2>2, <2>3, ArchSnippetRuns DEF ArchDecided
  <2>7. installed' # None /\ host'.files = None /\ "purge" \notin Ahead(todo') => ~host'.account
    BY <1>2, <2>1, <2>3, ArchSnippetRuns DEF ArchPending
  <2> QED
    BY <2>3, <2>4, <2>5, <2>6, <2>7
<1>3. CASE UnpackFiles
  BY <1>3, ArchStepTaken, PacmanRuns, NoneAssumption DEF ArchPending, ArchRecord
<1>4. CASE DeleteFiles
  BY <1>4, ArchStepTaken, PacmanRuns DEF ArchPending
<1>5. CASE UpdateDatabase
  <2>1. /\ Ahead(todo') = {} /\ installed' = host.files /\ host' = host
        /\ Ahead(todo) = {"database"} /\ todo # <<>>
    BY <1>5, ArchStepTaken, PacmanRuns
  <2> QED
    BY <2>1 DEF ArchPending
<1>6. CASE Beside
  BY <1>6, ArchBesideRuns DEF ArchDecided
<1>7. CASE UNCHANGED machineVars
  BY <1>7 DEF machineVars
<1> QED
  BY <1>1, <1>2, <1>3, <1>4, <1>5, <1>6, <1>7 DEF ArchNext

(* An enabled service runs.                                                  *)
LEMMA ArchRunsStep ==
    ASSUME MachineOK, ArchShape, ArchRecord, ArchDecided, ArchWithUnit, ArchPending, ArchReady, ArchClean,
           "delete-defaults" \notin AdminActs, ArchRuns, [ArchNext]_machineVars
    PROVE  ArchRuns'
<1> USE DEF ArchRuns, ArchStill
<1>1. CASE (\E v \in Version : ArchInstall(v) \/ ArchUpgrade(v)) \/ ArchRemove
  BY <1>1, BeginsWithUnit DEF Installing
<1>2. CASE RunFunction
  <2> DEFINE d == Head(todo).do
  <2>1. /\ Ahead(todo') = Ahead(todo) \ {d} /\ d \in Ahead(todo)
        /\ \A e \in Ahead(todo') : ArchRank[d] < ArchRank[e]
    BY <1>2, ArchStepTaken
  <2>2. HasUnit(host) <=> host.files # None
    BY ArchUnitThere
  <2>3. /\ host'.files = host.files /\ host'.mask = host.mask /\ host'.defaults = host.defaults
        /\ admin'.stopped <=> admin.stopped /\ host'.running = None
        /\ d = "systemd-stop" => ~host'.enabled
        /\ host'.enabled /\ ~host.enabled => d = "systemd-enable" /\ host.mask = "none"
        /\ host'.running # host.running => d \in {"systemd-stop", "systemd-start", "systemd-restart"}
        /\ host.running = None /\ host'.running # None => d = "systemd-start" /\ host.mask = "none"
        /\ d = "systemd-start" /\ host.mask = "none" /\ Equipped(host) => host'.running # None
        /\ d = "systemd-restart" /\ host.running # None /\ host.mask = "none" /\ Equipped(host)
               => host'.running # None
    BY <1>2, ArchSnippetRuns
  <2>4. ASSUME host.files # None, d \in {"systemd-start", "systemd-restart"} PROVE Equipped(host)
    <3>1. "account" \notin Ahead(todo') /\ "logdir" \notin Ahead(todo')
      BY <2>1, <2>4, ArchRankValues
    <3> QED
      BY <2>1, <2>2, <2>4, <3>1 DEF ArchReady, Equipped
  <2>5. host'.mask # "none" /\ host'.enabled => admin'.stopped
    BY <2>3 DEF ArchReady
  <2>6. ASSUME host.files # None, "systemd-start" \notin Ahead(todo'), host'.enabled, ~admin'.stopped
        PROVE  host'.running # None
    <3>1. SUFFICES ASSUME host'.running = None PROVE FALSE
      OBVIOUS
    <3>2. ~admin.stopped
      BY <2>3, <2>6, <3>1
    <3>3. d # "systemd-stop" /\ host.mask = "none"
      BY <2>3, <2>6, <3>2
    <3>4. d # "systemd-start"
      BY <2>3, <2>4, <2>6, <3>1, <3>3
    <3>5. "systemd-start" \notin Ahead(todo)
      BY <2>1, <2>6, <3>4
    <3>6. host.enabled
      BY <2>1, <2>3, <2>6, <3>5 DEF ArchPending
    <3>7. host.running # None
      BY <2>6, <3>2, <3>5, <3>6
    <3> QED
      BY <2>3, <2>4, <2>6, <3>1, <3>3, <3>4, <3>7
  <2> QED
    BY <2>3, <2>5, <2>6
<1>3. CASE UnpackFiles
  BY <1>3, ArchStepTaken, PacmanRuns, NoneAssumption
     DEF ArchPending, ArchRecord, Installing, ArchWithUnit, ArchUsesPreset
<1>4. CASE DeleteFiles
  BY <1>4, ArchStepTaken, PacmanRuns
<1>5. CASE UpdateDatabase
  <2>1. /\ Ahead(todo') = {} /\ installed' = host.files /\ host' = host
        /\ admin' = IF installed' = None THEN NoDecision ELSE admin
        /\ Ahead(todo) = {"database"} /\ todo # <<>>
    BY <1>5, ArchStepTaken, PacmanRuns
  <2>2. host.files = None => ~host.enabled
    BY <2>1 DEF ArchPending, ArchClean, ArchRemoval
  <2> QED
    BY <2>1, <2>2
<1>6. CASE Beside
  <2>1. installed # None /\ todo' = todo /\ host'.files = host.files
        /\ host'.defaults = host.defaults
        /\ (host'.enabled => host.enabled \/ (host.files # None /\ ~ArchStill("delete")))
    BY <1>6, ArchBesideRuns
  <2>2. CASE host.files = None
    <3>1. ~host.enabled
      BY <2>1, <2>2 DEF ArchClean, ArchRemoval, ArchPending
    <3> QED
      BY <2>1, <2>2, <3>1
  <2>3. CASE host.files # None
    <3>1. Equipped(host) /\ MaskedIsDown(host) /\ UpOrStopped(host, admin)
      BY <2>1, <2>3, ArchUnitThere DEF Equipped, MaskedIsDown, UpOrStopped, ArchReady, ArchPending, ArchDecided
    <3>2. UpOrStopped(host', admin')
      BY <1>6, <3>1, ArchBesideRuns
    <3> QED
      BY <2>1, <2>3, <3>2 DEF UpOrStopped
  <2> QED
    BY <2>2, <2>3
<1>7. CASE UNCHANGED machineVars
  BY <1>7 DEF machineVars
<1> QED
  BY <1>1, <1>2, <1>3, <1>4, <1>5, <1>6, <1>7 DEF ArchNext

-----------------------------------------------------------------------------
(* The whole of it.                                                          *)

(* A machine without the package satisfies the invariant.                    *)
LEMMA ArchInvariantInit == ArchInit => ArchInv
<1> SUFFICES ASSUME ArchInit PROVE ArchInv
  OBVIOUS
<1> USE DEF ArchInit, InitOn
<1>1. /\ todo = <<>> /\ Ahead(todo) = {} /\ installed = None /\ admin = NoDecision
      /\ host.os = "systemd" /\ host.files = None /\ host.running = None /\ ~host.enabled
      /\ ~host.account /\ host.mask = "none" /\ host.defaults = "never"
  BY DEF CleanHost, Ahead
<1>2. host \in Host
  BY DEF CleanHost, Host, InitSystem
<1>3. MachineOK
  BY <1>1, <1>2 DEF MachineOK, Decisions, NoDecision
<1>4. ArchShape /\ ArchRecord /\ ArchDecided
  BY <1>1 DEF ArchShape, ArchRecord, ArchDecided, ArchDecisionsSurvive, InOrder, ArchStill, NoDecision
<1>5. Untouched /\ ArchPending /\ ArchReady /\ ArchClean /\ ArchRuns
  BY <1>1 DEF Untouched, ArchPending, ArchReady, ArchClean, ArchRuns, ArchRemoval, ArchStill
<1> QED
  BY <1>3, <1>4, <1>5 DEF ArchInv

(* Every step keeps it.                                                      *)
LEMMA ArchInvariantStep == ArchInv /\ [ArchNext]_machineVars => ArchInv'
<1> SUFFICES ASSUME ArchInv, [ArchNext]_machineVars PROVE ArchInv'
  OBVIOUS
<1> USE DEF ArchInv
<1>1. MachineOK' /\ ArchShape' /\ ArchRecord'
  BY ArchStructureStep
<1>2. ArchDecided'
  BY <1>1, ArchDecidedStep
<1>3. built' = built
  BY DEF ArchNext, machineVars, ArchInstall, ArchUpgrade, ArchRemove, Begin, RunFunction, UnpackFiles, DeleteFiles,
         UpdateDatabase, Beside
<1>4. (ArchWithoutUnit' <=> ArchWithoutUnit) /\ (ArchWithUnit' <=> ArchWithUnit)
  BY <1>3 DEF ArchWithUnit, ArchWithoutUnit
<1>5. ArchWithoutUnit => Untouched'
  BY UntouchedStep
<1>6. ArchWithUnit => ArchPending' /\ ArchReady' /\ ArchClean'
  BY ArchPendingStep, ArchReadyStep, ArchCleanStep
<1>7. ArchWithUnit /\ "delete-defaults" \notin AdminActs => ArchRuns'
  BY ArchRunsStep
<1> QED
  BY <1>1, <1>2, <1>4, <1>5, <1>6, <1>7

(* Packages whose `init` does not change all have a unit, or none has one.   *)
LEMMA UnitOrNot == SameInit => ArchWithUnit \/ ArchWithoutUnit
  BY DEF SameInit, ArchWithUnit, ArchWithoutUnit

(* The invariant gives each property of the module.                          *)
LEMMA ArchConsequences ==
    ASSUME ArchInv
    PROVE  /\ MachineOK
           /\ ArchRunningIsCurrent
           /\ "delete-defaults" \notin AdminActs => ArchEnabledMeansRunning
           /\ ArchDecisionsSurvive
           /\ ArchRemovalLeavesNothing
<1> USE DEF ArchInv
<1>1. todo = <<>> => Ahead(todo) = {} /\ installed = host.files
  BY DEF Ahead, MachineOK, Idle
<1>2. host.running \in Version \cup {None, "mixed"}
  BY DEF MachineOK, Host
<1>3. ArchRunningIsCurrent
  BY <1>1, UnitOrNot DEF ArchRunningIsCurrent, Settled, Idle, Untouched, ArchReady, ArchStill
<1>4. "delete-defaults" \notin AdminActs => ArchEnabledMeansRunning
  BY <1>1, <1>2, UnitOrNot DEF ArchEnabledMeansRunning, Settled, Idle, Untouched, ArchReady, ArchRuns, ArchStill
<1>5. ArchRemovalLeavesNothing
  BY UnitOrNot DEF ArchRemovalLeavesNothing, Idle, Untouched, ArchClean
<1> QED
  BY <1>3, <1>4, <1>5 DEF ArchDecided

(* Under an administrator's preset that disables, no snippet and no step of  *)
(* pacman's own turns the unit on.                                           *)
LEMMA ArchPolicyStep ==
    ASSUME ArchInv, [ArchNext]_machineVars, policy = "disable", host'.enabled, ~host.enabled
    PROVE  Administer
<1>1. ASSUME RunFunction PROVE ~host'.enabled
  <2>1. host \in Host /\ Head(todo) \in ArchStepSet /\ Head(todo).do \notin PacmanSteps
        /\ host' = ArchAfter(Head(todo), host)
    BY <1>1, ArchStepTaken DEF ArchInv, MachineOK, RunFunction
  <2>2. CASE Head(todo).do = "systemd-enable"
    BY <2>1, <2>2 DEF ArchAfter, SystemdEnable, Preset, Host
  <2>3. CASE Head(todo).do = "systemd-start"
    <3>1. host' = StartUnit(host)
      BY <2>1, <2>3 DEF ArchAfter
    <3> QED
      BY <2>1, <3>1, StartUnitChanges DEF SameBeside
  <2>4. CASE Head(todo).do \notin {"systemd-enable", "systemd-start"}
    BY <2>1, <2>4, SnippetDecides
  <2> QED
    BY <2>2, <2>3, <2>4
<1>2. UnpackFiles \/ DeleteFiles => ~host'.enabled
  BY PacmanRuns DEF ArchInv
<1> QED
  BY <1>1, <1>2 DEF ArchNext, machineVars, ArchInstall, ArchUpgrade, ArchRemove, Begin, UpdateDatabase, Beside

-----------------------------------------------------------------------------
(* A MACHINE OF EITHER FAMILY                                                *)

(* The inductive invariant: that of the machine's family.                    *)
IInv == family \in {"rpm", "arch"} /\ Of(RpmInv, ArchInv)

(* A machine of either family starts in it,                                  *)
LEMMA InvariantInit == Init => IInv
<1> SUFFICES ASSUME Init PROVE IInv
  OBVIOUS
<1>1. CASE family = "rpm" /\ RpmInit
  BY <1>1, SystemsAssumption, RpmInvariantInit DEF IInv, Of
<1>2. CASE family = "arch" /\ ArchInit
  BY <1>2, ArchInvariantInit DEF IInv, Of
<1> QED
  BY <1>1, <1>2 DEF Init

(* a step of the machine is one of its family,                               *)
LEMMA FamilyStep ==
    ASSUME IInv, [Next]_vars
    PROVE  /\ family' = family
           /\ family = "rpm" => [RpmNext]_machineVars
           /\ family = "arch" => [ArchNext]_machineVars
<1>1. CASE Next
  BY <1>1 DEF Next
<1>2. CASE UNCHANGED vars
  BY <1>2 DEF vars
<1> QED
  BY <1>1, <1>2

(* and keeps it.                                                             *)
LEMMA InvariantStep == IInv /\ [Next]_vars => IInv'
<1> SUFFICES ASSUME IInv, [Next]_vars PROVE IInv'
  OBVIOUS
<1>1. CASE family = "rpm"
  BY <1>1, FamilyStep, RpmInvariantStep DEF IInv, Of
<1>2. CASE family = "arch"
  BY <1>2, FamilyStep, ArchInvariantStep DEF IInv, Of
<1> QED
  BY <1>1, <1>2 DEF IInv

(* The invariant gives the properties.                                       *)
LEMMA Consequences ==
    ASSUME IInv
    PROVE  /\ TypeOK
           /\ RunningIsCurrent
           /\ "delete-defaults" \notin AdminActs => EnabledMeansRunning
           /\ AdminDecisionsSurvive
           /\ "upstart" \notin Systems => RemovalLeavesNothing
<1> USE DEF TypeOK, RunningIsCurrent, EnabledMeansRunning, AdminDecisionsSurvive,
            RemovalLeavesNothing, Of
<1>1. CASE family = "rpm"
  BY <1>1, RpmConsequences DEF IInv
<1>2. CASE family = "arch"
  BY <1>2, ArchConsequences DEF IInv
<1> QED
  BY <1>1, <1>2 DEF IInv

(* Only the administrator enables a unit the policy disables.                *)
LEMMA PolicyStep ==
    ASSUME IInv, [Next]_vars, policy = "disable", host'.enabled, ~host.enabled
    PROVE  Administer
<1>1. CASE family = "rpm"
  BY <1>1, FamilyStep, RpmPolicyStep DEF IInv, Of
<1>2. CASE family = "arch"
  BY <1>2, FamilyStep, ArchPolicyStep DEF IInv, Of
<1> QED
  BY <1>1, <1>2 DEF IInv

-----------------------------------------------------------------------------
(* For any versions, builds, known init systems of the rpm machines,         *)
(* administrator and policy:                                                 *)

(* every reachable state of either family satisfies its invariant,           *)
THEOREM Invariant == Spec => []IInv
<1> QED
  BY InvariantInit, InvariantStep, PTL DEF Spec

(* the machine, the record and the decisions are of their types, and the     *)
(* record agrees with the files between operations,                          *)
THEOREM TypesAreKept == Spec => []TypeOK
<1>1. IInv => TypeOK
  BY Consequences
<1> QED
  BY <1>1, Invariant, PTL

(* no process of an old version outlives an upgrade, by %postun of the old   *)
(* package or post_upgrade of the new one,                                   *)
THEOREM UpgradesReplace == Spec => []RunningIsCurrent
<1>1. IInv => RunningIsCurrent
  BY Consequences
<1> QED
  BY <1>1, Invariant, PTL

(* an enabled service nobody stopped runs the installed version, while the   *)
(* file its unit needs is left in place,                                     *)
THEOREM EnabledServicesRun ==
    ASSUME "delete-defaults" \notin AdminActs
    PROVE  Spec => []EnabledMeansRunning
<1>1. IInv => EnabledMeansRunning
  BY Consequences
<1> QED
  BY <1>1, Invariant, PTL

(* no snippet starts or enables what the administrator stopped or disabled,  *)
THEOREM DecisionsStand == Spec => []AdminDecisionsSurvive
<1>1. IInv => AdminDecisionsSurvive
  BY Consequences
<1> QED
  BY <1>1, Invariant, PTL

(* a removed package leaves no process, no link, no enabled unit and no      *)
(* account, Upstart's jobs aside,                                            *)
THEOREM RemovalsAreComplete ==
    ASSUME "upstart" \notin Systems
    PROVE  Spec => []RemovalLeavesNothing
<1>1. IInv => RemovalLeavesNothing
  BY Consequences
<1> QED
  BY <1>1, Invariant, PTL

(* and an administrator's preset that disables is overruled by no snippet.   *)
THEOREM PresetsAreObeyed == Spec => PolicyWins
<1>1. IInv /\ [Next]_vars =>
          [policy = "disable" /\ host'.enabled /\ ~host.enabled => Administer]_vars
  BY PolicyStep
<1> QED
  BY <1>1, Invariant, PTL DEF Spec, PolicyWins
=============================================================================
